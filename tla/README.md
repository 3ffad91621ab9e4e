# TLA+ models of the app store API

The repository is a FastAPI service for an app store: users top up a balance, publishers
upload apps, buyers fill a cart and check it out, write reviews and take part in
discussions. State lives in PostgreSQL (SQLAlchemy sessions behind a unit of work), Redis
(cart cache, promo codes, refresh tokens, rate limits, pub/sub) and MinIO (archives,
images); Celery runs two background tasks. Everything that is hard about it comes from one
fact: a request is a coroutine that gives up control at every `await`, several API
processes run side by side, and almost nothing is locked, compared or retried. The modules
in this directory model requests cut at those awaits, check them with TLC on small
instances, and prove the main results with TLAPS for every instance.

## 1. The system's parts

| Part | Source | State | Operations | What is hard | What makes it correct |
|---|---|---|---|---|---|
| Unit of work, sessions | `uow/orm.py`, `db/postgres.py` | rows; per request an identity map | open, select, change in memory, commit, rollback, close | READ COMMITTED, no locks, absolute values written, `autoflush=False`, `expire_on_commit=False` | a column is the sum of the committed changes |
| Connection pool | `db/postgres.py`, `api/deps.py` | who holds which connection | take with the first statement, return with commit, rollback or close | requests hold one connection and wait for another; sockets hold one while open; a nested `async with` replaces a session | requests are answered, connections come back |
| Finance | `services/finance_service.py`, `repo/finance_repo.py` | `users.balance`, `transfers`, `promo_codes:*` | top-up, withdrawal, activation of a code | read-modify-write; a code is read, deleted and credited in three steps over two stores | no overdraft, no lost money, a code is worth its amount once |
| Checkout | `services/purchase_service.py` | balances, `times_purchased`, `purchases`, cart | `purchase_apps_in_cart` | a loop of awaits between funds check and commit; publishers loaded "for update" without a lock | what is charged is what is paid out; nothing is bought twice |
| Cart and cache | `services/purchase_service.py`, `repo/purchase_repo.py` | `carts`, `cart_items`, Redis copy | add, remove, clear, read-through get, checkout | cache dropped before the commit; check-then-insert; a cart deleted under an addition | the copy is the cart; no owned app in the cart; no item vanishes |
| Rate limiter | `db/rate_limiter.py`, `api/deps.py` | a sorted set per user or IP | `check` | stamps taken before the await that sends the script | at most `limit` grants per window, refusals only for grants |
| Auth tokens | `core/auth.py`, `services/user_service.py` | `refresh_token:*`, `blacklist:*`, `user_tokens:*` | login, refresh, logout, revoke all | every Redis call is a step; reuse detection races rotation | dead tokens stay dead, one exchange per token, reuse ends all sessions |
| Accounts | `services/user_service.py`, `repo/user_repo.py`, `api/v1/user_router.py` | `users`, access tokens | register, profile, login, refresh, roles, delete | whole arrays written back; the index of sessions dropped before the commit, the sessions not at all | no lost role, no token for nobody |
| Reviews | `services/review_service.py`, `repo/review_repo.py` | `reviews`, `apps.rating`, `apps.reviews_count` | add, edit, delete | the average is selected before the pending change is flushed; one review per user by check only; a deleted account takes its reviews along | rating and count are those of the reviews |
| Catalogue | `services/app_service.py`, `services/media_service.py`, `models/` | `apps`, `app_covers`, `discussions`, `purchases`, objects | create, delete, covers, deletion of the publisher | objects deleted before a commit the foreign keys may refuse | a row's files exist, a file has its row |
| Archives, icons, avatars | `services/app_archive_service.py`, `services/media_service.py`, `task_queue/tasks/media_tasks.py` | `*_key`, `pending_*_key`, objects, variants | presign, PUT, confirm, Celery variants | two tabs, reused names, a coroutine never awaited, a retry that raises, redelivery | the key names an object, the variants are made from it |
| Discussions | `api/v1/discussion_router.py`, `ws/discussion_manager.py` | rooms, listeners, channel, messages, gauge | connect, authenticate, send, disconnect | at-most-once pub/sub, listener start and stop, handlers that end by exceptions | a client sees every later message in order, nothing is left behind |
| Migrations | `migrations/versions/` | the schema, rows | 24 × upgrade and downgrade | downgrades that take back less than was done; tables dropped with their rows; required columns over rows | a revision is one schema, head is what the models declare (but for six columns), an upgrade loses no row of a table that stays |
| Birthday task | `task_queue/tasks/db_tasks.py` | `promo_codes:*` | issue a code per birthday | at-least-once delivery | one code per user and year |

How they interact: routers build one service per request around one `OrmUnitOfWork`;
services call repositories of the same session, Redis and MinIO directly. Checkout joins
Finance (balances), Cart (rows and cache) and Catalogue (counters). The birthday task
feeds Finance through Redis. Deleting an account reaches into the sessions (Accounts), the
apps with all their files (Catalogue) and the reviews (Reviews). Every request of every
part draws on the same pool, and all authenticated routes pass the rate limiter.

The hazards these parts are exposed to are listed, one per line of code, under `hazards`
in `PROJECT.json`, with the properties that cover them or the reason none does.

## 2. Modules

| Module | Models | Variables ↔ code |
|---|---|---|
| `UnitOfWork` | the session layer, integer columns only | `db` committed rows; `loaded`/`base`/`delta` the identity map; `stale`, `ledger`, `raced` history |
| `Pool` | the pool of one process and the shapes of request that draw on it | `owner[c]` the session a connection is checked out to (`get_session`, the unit of work, or a replaced one), `pc[r]` the await |
| `Wallet` | transfers, promo codes, checkout; its session variables are an instance of `UnitOfWork` | `todo`, `bought`, `total`, `earned`, `unpaid` the locals of `purchase_apps_in_cart`; `cart`, `purchases`, `codes` the stores |
| `Bank` | the abstract specification: deposits, withdrawals and purchases as atomic steps | `balance`, `owned` |
| `WalletAtomic` | `Wallet` against `Bank`, sums over users | refinement `balance <- db`, `owned <- purchases` |
| `Cart` | one user's cart, its rows, its cached copy, the apps owned | `seen`, `held`, `todo` what a request has read; `cart`, `items`, `owned`, `cache` the stores |
| `RateLimiter` | one key of the limiter | `at[c]` the await of call `c`, `stamp` the score, `zset` the sorted set, `expires` its TTL |
| `AuthTokens` | one user's refresh tokens | `stored`, `black`, `index` the three kinds of keys; `token`, `todo`, `jti` the locals |
| `Accounts` | all users, their roles, sessions and access tokens | `name`, `roles` the rows; `stored`, `index` Redis; `claims` what access tokens say; `seen` the roles a request has read |
| `Reviews` | the reviews of one app and its figures | `pending` the session's change, `selected` the figures it has selected; `reviews`, `figures`, `gone` the tables |
| `Uploads` | one slot: an archive, an icon or an avatar | `row` the two keys, `object`/`variant` MinIO, `urls` presigned URLs, `tasks` Celery messages, `held` the loaded row |
| `Catalogue` | a publisher's account, apps, covers, discussions, purchases and their objects | `app`, `covers`, `discussions`, `purchases`, `account` rows; `files`, `object` MinIO; `held[r]` the locals of a deletion |
| `Discussions` | one discussion, its sockets, listeners and channel | `at[c]` the handler, `room`/`listener` its manager's dictionaries, `queue` the subscription, `gauge` the metric |
| `Migrations` | the revisions as sequences of operations, PostgreSQL's answers | `revision` the row of `alembic_version`, `db` tables, keys, rules, types, and which tables have rows |
| `WalletProofs`, `CartProofs`, `AuthTokensProofs`, `AccountsProofs`, `UploadsProofs`, `CatalogueProofs` | theorems about the module of that name; `WalletProofs` also about `UnitOfWork` and `WalletAtomic`, with the laws of finite sums | |
| `ServerProofs`, `CommunityProofs` | theorems about `Pool`, `RateLimiter` and `Migrations`, and about `Reviews` and `Discussions` | |
| `MC...` | instances for TLC, one per component | |

Conventions. One action is the code between two awaits, with its early returns as
alternatives. A call that changes nothing and whose answer is used only after the next one
is merged into that one (the two selects of `add_app_to_cart`, the select of the user in
`refresh_tokens`). `Reject`/`Refuse` is leaving the `async with` block without a commit.
`Fail` is an exception at any await: a lost connection, a cancelled request, a stopped
process; the session rolls back and what was done in Redis or MinIO stays. Rows, tokens,
reviews and users are named after the request that creates them (their ids are fresh
uuids). Operators whose comment says *Mutant* are never part of `Next`; each is a plausible
bug that makes one property fail, and `PROJECT.json` says which.

Abstractions worth knowing:

- Flush and COMMIT are one step: a flush holds the row locks until the commit, so another
  session sees both or neither.
- `Wallet` keeps of a row the column that several requests change. Failing on the CHECK
  constraint is not modelled; `NonNegative` shows it would never be reached.
- Decimals are integers; an average is kept in hundredths, rounded as PostgreSQL does.
- `Cart` has no money: a checkout may find the funds insufficient at any time.
- In `RateLimiter` time is discrete and a script runs within `Delay` of its stamp.
- In `AuthTokens` the `exp` claim passes before the key expires (both are set for the same
  number of days, the claim first, rounded down); the half second in which `TTL` rounds to
  zero is left out. Signatures and families of genuine tokens always match.
- `Accounts` leaves the rotation of tokens to `AuthTokens`: a refresh that finds its key
  takes it and gives a pair. Username and e-mail are one name, checked and unique alike.
  `update_user` is in it as what it does: `user_service.py:248` loads the user in one
  session and changes nothing in the database.
- `Reviews` has one app, because apps share nothing; `one_or_none()` raising on two reviews
  is one of the refusals.
- In `Uploads` an object is what was PUT and whether it is an image, junk or too large;
  a variant is the image it was made from. The two variants are made and deleted one by
  one, and a task may fail before each of them. All avatars of a user share their variants, because
  `variant_key` cuts the extension off and the name is the user's id.
- `Catalogue` has one object for archive and icon, present from the start; how it gets
  there is `Uploads`. Covers, whose keys are drawn anew by each presign, are here.
- In `Discussions` every socket has a manager, a room and a listener of its own:
  `get_discussion_manager` in `deps.py` builds one per connection. What the code says about
  rooms shared by sockets never happens. The module is the handler as the tests run it:
  they override `get_redis` and `rate_limit`, which ask for a `Request` that a WebSocket
  route cannot be given (`db/redis.py:36`, `deps.py:171`), so that without the overrides
  no socket gets as far as the handler. The branch for a first message that is no valid
  event, which sends an error and goes on (`discussion_router.py:105-108`), is left out.
- `Pool` has the shapes of request and not their meaning; waiting requests are served in
  any order, because one that arrives finds a returned connection before the one that was
  woken for it. `Collect` is the garbage collector closing a replaced session, some day.
- `Migrations` keeps nullability and time zone of a column, its width where a revision
  changes it or the models have none, and of rows only that there are some and whether they
  hold a value that a narrower column would refuse. Defaults of columns are left out, but
  that an added one has a value for old rows. A command is one transaction (`env.py`). A foreign key is
  refused over rows that refer to nothing; the rows of a table refer to some row or none.

## 3. Runs

| Run | Question | Instance | Distinct states |
|---|---|---|---|
| `wallet_race` | overdraft, ledger, duplicates, conservation, counters, lost codes; is it `Bank` until a stale write? | 3 requests of any kind, 3 users (buyer, buyer who publishes, publisher), 2 apps, 1 code, failures | 64,570 |
| `wallet_code_twice` | documented intent, violated | 2 requests | |
| `cart_race` | duplicates, cache, owned apps, refused inserts, vanishing items | 3 requests of one user, 2 apps, any start, failures | |
| `rate_limiter` | window cap, justified refusals | 5 requests, limit 2, window 3, delay 1, clock to 6 | |
| `tokens_race` | dead tokens, double exchange, reuse noticed, sessions indexed, who raises the alarm | 3 requests, 1 older session that may lapse, failures | |
| `accounts_race` | lost roles, sessions and tokens after a deletion | 3 requests of any kind, 2 accounts, 3 names, failures | 24,973 |
| `reviews_race` | figures against reviews, their range, second reviews | 3 requests, 2 buyers and the publisher, 2 ratings, deletion of accounts, failures | 50,344 |
| `uploads_race` | dangling keys, files left behind, variants of another image | 3 requests after an upload that may be pending, 2 PUTs, 2 names, each of the three slots, failures of requests and tasks | 1.37 million |
| `catalogue_race` | rows without objects, objects without rows | 3 requests, 2 apps, 2 cover keys, failures | 228,715 |
| `discussions_ws` | gaps, order, leaks | 2 sockets, 3 messages | 186,874 |
| `pool_stuck` | who stops the process, what leaks, is everybody answered? | 3 requests of any shape, 2 connections, fairness | 10,927 |
| `migrations_walk` | do scripts undo one another, is a revision a schema, which rows does an upgrade lose, what stops it? | all 24 revisions, 9 tables that may have rows | 1,368 |

Why the bounds are enough. The races of this code are between two requests that overlap; the
third one makes the difference between "somebody" and "the one that overlapped", which is
what the properties with an exception (`...OnlyByOverlap`, `...OnlyByRace`) are about. Two
apps tell the app from another one; one app more would only repeat. Prices and balances
in `MCWallet` are chosen so that each cart can be afforded once, not twice, and a
withdrawal can fail. One cart holds two rows of one app, which `Cart` shows to be
reachable. The limiter needs limit + 1 grants to violate the cap and scripts in another
order than their stamps: five requests and a delay give both. The bound is tight: with
`Delay = 1` more than `Limit` requests are granted within the full `Window`, so the cap
`Window - Delay` is what the code delivers. Uploads start from a slot
that has a file and may have another one pending, so that three requests are two presigns and
two confirmations of it; the theorems hold for any number. The pool is smaller than the load by
one, the least that lets it run dry; the theorems about it hold for any sizes. The nine
tables of `MCMigrations` are those that a revision alters, renames or gives a required
column. `Old` bounds which tokens lapse, `Horizon` the clock; every other value is finite
by itself because every request ends.

The properties with an exception say exactly which overlap is to blame; the exception is a
history variable (`raced`, `missed`, `filler`, `excused`, `late`, `overtaken`, `behind`,
`setter`, ...) that no action reads except to record.

A type invariant is among the properties of the runs of `Reviews`, where it also says that
ratings and counts stay in their range, and of `Catalogue`, where it says that rows refer to
rows; those of the other modules are theorems only. `Pool`, `RateLimiter` and `Migrations`
share a module of proofs, and so do `Reviews` and `Discussions`: hence the `Limiter`,
`Schema` and `Ws` before names they would otherwise have in common.

**Fairness.** Only `pool_stuck` assumes any: weak fairness of `Serve(r)` for every request
that has been sent, that is, the event loop resumes a coroutine whose await is done, the
database answers, and the pool's timeout of 30 seconds comes. Nobody has to send a request,
close a socket or run the garbage collector.

## 4. What the checks show

One run is a counterexample to what the repository says:

- **Promo code credited twice** (`wallet_code_twice`): whether `DEL` removed the key is not
  looked at (`finance_service.py:62`), although the route promises to top up the balance
  and remove the code.

Everything else is stated as a property that holds, with the exception that makes it hold;
the exception is the part of the code a reader should look at.

- **Lost updates.** Two requests that change one balance or sales counter write absolute
  values; one change disappears (`finance_repo.py:20`, `purchase_service.py:199`, where
  `for_update=True` is ignored). `LedgerAgrees` and `BankUnlessRaced` say that this is the
  only thing between the code and an atomic bank. `NonNegative` holds nevertheless.
- **A code lost**: `CodeLostOnlyByFailure`, the key goes before the commit.
- **The cached cart shows bought apps** until its hour is over: checkout deletes a key
  nobody sets (`purchase_service.py:205`); `CacheTrueUnlessExcused` records it.
- **A session survives reuse detection** when it is added to the index while the revocation
  runs (`LiveIsIndexed`). And a token whose session was revoked is answered as *reused* the
  first time it is presented, because the blacklist does not say why a token is on it.
  `AlarmOnlyAfterReplay` shows where that ends: all sessions of a user are revoked only
  once two requests have presented one token, so that logouts and late or failed refreshes
  never set the alarm off by themselves.
- **A role is lost** when two changes of one user's roles overlap: `set_role` writes the
  whole array (`RoleLostOnlyByOverlap`).
- **Sessions survive the deletion of an account**: `delete_user` drops the index and not
  the keys. `TokenOnlyToTheLiving` shows that nothing comes of it: the refresh looks for
  the user before it gives a token. After a deletion that fails at its commit the user's
  sessions are outside every later revocation (`SessionUnindexedOnlyByDeletion`).
- **Ratings lag by one change**: `update_app_rating` selects before the flush. The first
  review of an app leaves it with rating 0 and count 0; and the reviews of a deleted account
  disappear from no rating. `FiguresLagOnlyByLastOrDeletion` shows it is never worse, and
  the type invariant that what is computed is 0 or from one to five stars, so that
  `rating_range` and NOT NULL never refuse a review for its figures.
- **An archive confirmed again under its name is deleted**: old and new key are the same
  (`app_archive_service.py:113`, `KeyDanglesOnlyByReuseOrOverlap`).
- **Old avatars stay**: `delete_image_variants` is called without `await`
  (`media_service.py:122`, `ReplacedFileGone`); avatars of different extensions share their
  variants, so that the old file's task may overwrite the new one's.
- **Variants missing or of the old image** after one hiccup of MinIO: the task means to
  retry, but `self.requests` does not exist (`media_tasks.py:46`), an AttributeError ends
  it, and an error at `put_object` or in PIL is not caught at all.
  `VariantsOfTheImage` excepts a stem whose task or request failed (`spoilt`), as well as
  an image written again after its check and two uploads of one stem.
- **Confirming a cover again** after a PUT that is too large deletes the object of the
  existing cover, because the size is looked at before the row (`media_service.py:278`).
- **Deletions remove the objects first**: an app with a discussion, or bought since it was
  loaded, keeps its row, and has lost its files (`RowsNameObjects`).
- **Messages between `auth_ok` and SUBSCRIBE are not seen** (`SeenWithoutGap`). The tests
  receive their own echo and would not notice (`tests/api/test_discussions.py:277`). A
  first message of a wrong type, or any unforeseen exception, leaves the gauge of open
  sockets one too high; a listener outlives its handler when a send failed first, because
  an empty room makes `disconnect` return early (`OnlyFailuresLeak`).
- **The pool**: checkout, `update_user` and the first use of a cart hold the connection of
  the dependency's session while they wait for that of the unit of work. As many of them as
  there are connections bring a process to a stand until timeouts answer them; five open
  sockets, or nested units of work of first carts not yet collected, do the same without
  end. `StuckOnlyByHolders` says that nothing else does. (`get_balance` holds a connection
  during its call to the rate API, which is slow and not a stand-still.)
- **Migrations**: the head is what the models declare, but for six columns (`Declared`).
  `apps.rating` is FLOAT against NUMERIC(3, 2). `apps.description` VARCHAR(400),
  `discussions.topic` VARCHAR(80), `reviews.subject` VARCHAR(50), `reviews.content`
  VARCHAR(400) and `messages.text` VARCHAR(500), all from 026e (lines 42, 73, 94, 95, 105),
  have no length in `base_models/` or `schemas/`: the API accepts a message of 501
  characters and PostgreSQL refuses it. Seven downgrades always fail (those of
  b5a1, a85c, 026e, c5b2, 4535, 7c58 and ae18: unnamed constraints, names of another table,
  columns that are gone). 026e0df29ae3, by its docstring "Rename tables", creates six empty
  tables and drops the old ones with their rows; `UpgradesKeepRows` shows that no upgrade
  costs a row of a table that the application still has. The enum types of the first
  revision outlive its downgrade, so that an upgrade from base fails for ever after. With
  any row in `apps` an upgrade to head from before fc27 is refused, the column
  `reviews_count` is required and has no default.

Seen while reading, and not a property: `presign_app_archive_download` raises
AttributeError for an app that is not public (`app_archive_service.py:126` asks an id for
its publisher); the category filter of the search is commented out (`app_repo.py`, near
197); `update_user` is not persisted, although its route says so; the cache of the top
games is dropped in many places and filled nowhere.

## 5. Proofs

All proofs are by an inductive invariant, one lemma for each kind of step, and `PTL` for
the temporal part. The assumptions are the named ones of each module
(`WalletAssumption`, ..., `DiscussionsAssumption`): kinds of constants and disjointness, no
sizes except that requests, calls, sockets and messages are finitely many where they are
counted.

- `WalletProofs`, the session layer: `SnapshotCurrent` (what a session holds and nobody has
  rewritten is what the database holds) makes `LedgerAgrees` inductive.
- `WalletProofs`, the wallet: every wallet step is a session step or leaves the session
  alone (`WalletImplementsUnitOfWork`), so `LedgerAgrees` carries over. `NonNegative` needs
  `Sessions` (before the charge nothing is changed in memory) so that the funds check is
  about the value that will be written. `DuplicateOnlyByRace` needs `Picks`: what a checkout
  has picked is in its session and unowned, unless the app's row has gone stale; since the
  charge always writes that row, a second purchase races. `CodeLostOnlyByFailure` is
  inductive by itself: from its DEL to its commit a code is in its request's hands.
- `WalletProofs`, money: `MoneyConserved` and `SalesCounted` are about sums over all users.
  The laws of sums are proved first, by induction over the subsets of a finite set (`WFMin`
  of the library: a least counterexample, given as a set and not as an operator); a sum
  changes by what one or two of its terms change (`FiniteStore`: users and apps are finite).
  `MoneyInv` says what each session will add to each row, await by await (`DeltasOf`: what
  the buyer is charged less what is `unpaid` yet), and that the bill of a checkout is the
  cost of what it picked and the sum of what its publishers earn (`BillOf`); `NoOwnApps`, an
  app is not in its publisher's cart, is what `purchase_service.py:134-138` enforces. From the same facts
  every step that no stale write precedes is a step of `Bank` or none (`AtomicUnlessRaced`),
  and a run without races implements `Bank` (`RacelessIsAtomic`).
- `CartProofs`: `OwnedNotInCart` needs `Unowned` (an addition past its check knows the app
  is not owned, as long as its cart lives); `CacheTrueUnlessExcused` needs `Filling` (a fill
  nobody overtook holds the cart) and `Changing`/`Creating` (a copy found after one's own
  `DEL` was put there by someone who overtook). A second invariant, `JInv`, says what a
  request that has not read a row was overtaken by: rows of the app about to be added
  (`Adding`), a changed cart (`Opened`), items of the cart to be cleared or paid (`Clearing`,
  `Buying`). It gives `DuplicateOnlyByOverlap`, `RefusedInsertOnlyByOverlap` and the action
  property `NoItemVanishes`.
- `ServerProofs`, the limiter: a granted call that has left the set is older than the window
  (`Forgotten`), the key outlives its members (`Outlived`), so the script that grants counts
  every grant of the last `Window - Delay`.
- `ServerProofs`, the pool: `PlacedInv` says at which awaits a connection of each kind may be
  held, that a request has at most one of each, and that whoever nests units of work has none
  of the dependency's. Stand-stills and leaks are read off the awaits.
- `ServerProofs`, the migrations: `Sound` (foreign keys, indexes and rows are those of
  tables that are there, and rows refer to rows) is kept by every operation PostgreSQL
  accepts (`EffectSound`, one case for each kind), hence by any script of any length
  (`RunSound`, by counting up its operations), hence by every command. It says nothing of
  the scripts and is what the rest stands on. `UpgradesKeepAllRows` is about the scripts:
  an operation takes rows only by dropping their table (`EffectRows`), and `UpSpares` goes
  through the operations of all 24 `upgrade()` to find none that drops a table of head;
  `RunKeeps` and `UpgradedKeeps` count up operations and revisions. `SchemaFollowsRevision` reduces `SchemaOfRevision`, which
  the run checks with rows in nine tables, to databases without rows: an operation accepted
  with rows is accepted without, and does the same (`EffectBare`, `RunBare`), so that
  rows only refuse. Its hypothesis is `Inverts(n)` for every revision, a statement about 48
  fixed scripts on fixed databases that TLC evaluates in `migrations_walk` (the invariant
  `ScriptsAgree`; the walk stands on every revision). `Known` is the inductive invariant:
  without its rows the database is what the upgrades make of an empty one, or what the
  first downgrade leaves, which no upgrade gets past. `UpgradesSucceed` goes the other way,
  from what an empty database accepts to what one with rows accepts. It needs of each
  revision `Accommodates(n)` too, which `ScriptsAgree` holds as its second part: the upgrades
  up to it run without rows, and it has no narrower column type, no smaller set of values and
  no new foreign key that the rows of its table have not been kept to before (`Backed`). An
  operation accepted without rows is then accepted with them, unless it is a required column
  or a unique name (`UpAccepted`, again one case for each kind); the values rows have that
  a constraint minds are of five kinds, and no upgrade constrains three of them (`OddInv`);
  the upgrades are counted up from any revision to the head (`HeadAccepted`).
- `AuthTokensProofs`: all five safety properties and the type invariant. `Unset`/`Known`: a
  token is nowhere until its key is set, and whatever a request knows has been issued.
  `Exchanges`: a refresh that found a key somebody else deletes was overtaken by him.
  `Noticing`: what is about to be deleted is on the blacklist, has lapsed or was overtaken.
  `Indexing`: a revocation handles all of the index except what is added while it runs.
  `AlarmOnlyAfterReplay` needs `Suspects`: until two requests have presented one token,
  nobody revokes, and whatever is on the blacklist was presented once, by the refresh or
  the logout that put it there.
- `AccountsProofs`: `RolesRead` (the array `set_role` will write has all roles of the row,
  unless a commit came between) gives `RoleLostOnlyByOverlap`; `Entitled` (the roles a token
  will claim were committed for its user, unless he was deleted) gives the action property
  `TokenOnlyToTheLiving`; `Settled` keeps users from being read before they are committed.
- `CommunityProofs`, reviews: `Lags(f, R, W, Q)`, the figures f are those of the reviews R but
  for the changes W of the requests Q, is kept by a commit that is added to Q (`LagsMore`,
  from the set identity `Differences`). It holds of the figures a request has selected
  (`Selected`) and of those shown (`Shown`), so that nothing need be known of averages.
  `Missed` (who is about to insert has missed every review of its author) gives
  `SecondReviewOnlyByOverlap`. The type invariant needs what the others do not, that a rating
  is 0 without reviews and else from one star to five: the recursion by which
  `MapThenSumSet` is defined has a function (`StarsExist`), and any such function adds from
  one to five for each review (`StarsBounded`), both by counting up to the size of the set
  (`NaturalSteps`, from the well-foundedness of `<`); the rounding stays within
  (`Rounded`). `Rated`: there are finitely many reviews at any time, and figures selected
  or shown have their type.
- `CommunityProofs`, discussions: `Paired` says where handler and listener may be, the one
  given the other. `Heard` and `Coming` follow the channel element by element: what a client
  has been sent is a stretch of it, and what is being sent and queued is the rest, as long
  as socket and listener live; stretches that meet are one (`StretchesJoin`). `Once`, a
  message is published by the one handler that has received it, bounds the channel by the
  messages. The gauge is the size of `Counted`, to which a step adds or from which it takes
  at most one (`Counting`).
- `UploadsProofs`: all four properties, for each of the three slots. Every step is one of
  five kinds, by where its request stands (`Prepared`, `Checked`, `Committed`, `Finished`)
  or whether it is nobody's (`Aside`). `Holds` says what a session may have loaded at each
  await. `KeysInv`: who set the key that is in the row now, or removed the object
  that was checked, is among those a request with another idea has `missed` (`KeyLoaded`,
  `KeyCommitted`, `ObjectChecked`). `AllRemoved` follows what a commit
  has replaced to its deletion, `ImagesInv` the variants: one upload at most of a stem that
  is not `spoilt` is past its check (`Alone`), the uuid of an icon is in nobody's hands before
  its request is answered (`Fresh`, `Icons`), a task has read the image that is there
  (`Got`), what a task has written before its last variant is of the image it holds
  (`Wrote`), and the variants of the key are there or to come (`Variants`), unless the
  request or the task that would bring them failed.
  `NoContentAssumption` (what is PUT is not the absence of an object) names the one constant
  that is not in `UploadsAssumption`.
- `CatalogueProofs`: `Placed` says what a request holds where it stands, `Relies` what it
  relies on there and would write: that the app it confirms is there, that what it removes
  is all there is, that what it sweeps is covered by no row. Each is true, or was overtaken
  by a request it has `missed` (`Confirms`, `Removes`, `Uncovers`, `Sweeps`, `Clears`). `World`
  states once what a step of somebody else may do to an open request, so that each step is
  looked at only for the request that takes it. The properties are
  read off the rows (`Rows`, `Files`, `Twinned`) and the objects (`Missing`, `Orphaned`):
  what a deletion takes along it deletes, and what it has deleted was taken by somebody
  (`TakesAlong`, `TakerDeleted`).

Only model-checked:

- `ScriptsAgree`: for each of the 24 revisions a formula without variables, which TLC
  evaluates; `SchemaFollowsRevision` and `UpgradesSucceed` carry what it says over to every
  walk, with any rows;
- `Answered`: liveness and `ENABLED` are out of the prover's reach.

## 6. What is not modelled

- The birthday task: a loop that issues codes. Celery redelivers it after a crash
  (`task_acks_late`) and every user of the day gets a second code; nothing in the code
  stands against it, so that a model would restate the loop.
- Search, listings, histories, `convert_rubles`, receipts and login mails: reads and
  outside calls.
- `update_app`: it writes, among others, the price, which checkout reads. Prices are
  constants in `Wallet`, so that a price that changes under a checkout is not examined; a
  checkout reads the price of each app once, with the cart.
- Password checks, signatures, and the family of a refresh token (always the right one).
- Several API processes in `Discussions` (a listener each on the same channel) and in
  `Pool` (a pool each). PostgreSQL's own limit of connections is left out.
- Configuration, logging, metrics but for the gauge, middleware, health checks, schemas and
  deployment files hold no state a property could be about; the constraints the models put
  into the database are in the modules of the parts they protect.

## 7. Plan

Done, in this order: `UnitOfWork`, `Wallet` (+ `Bank`), `Cart`, `RateLimiter`, `AuthTokens`,
`Reviews`, `Uploads`, `Catalogue`, `Migrations`, `Discussions`, `Pool`, `Accounts`, and the
theorems of section 5. Next: a `Store` that composes `Cart` and `Wallet` for one buyer, the
checkout as one joint step.
