----------------------------- MODULE Migrations -----------------------------
(***************************************************************************)
(* The 24 Alembic revisions of migrations/versions/ run forth and back     *)
(* over a database that the application fills: each upgrade() and          *)
(* downgrade() as the sequence of its operations, and what PostgreSQL      *)
(* refuses of them.  env.py runs a command in one transaction: a refused   *)
(* operation undoes it all.                                                *)
(*                                                                         *)
(* A column has a form: its nullability, its time zone, and its width      *)
(* where a revision changes it or gives one that models/ does not have.    *)
(* Keys named id are in every table, and those and defaults are left out.  *)
(* Of the rows only their presence is kept, and which columns hold values  *)
(* that a narrower column would refuse.                                    *)
(***************************************************************************)
EXTENDS Naturals, Sequences, FiniteSets, SequencesExt

CONSTANT Filled   \* tables that rows are put into

ASSUME MigrationsAssumption == Filled \subseteq STRING

VARIABLES revision,   \* place in Chain of the last revision applied, 0 for none
          db          \* the database, see Empty

schemaVars == <<revision, db>>

\* tables[t]: its columns and their forms; fks: foreign keys; unique, indexes,
\* checks; types: enumeration types; rows: tables with rows; odd: columns with
\* values from the wider side of a later or earlier change.
Empty == [tables |-> <<>>, fks |-> {}, rules |-> {}, types |-> <<>>,
          rows |-> {}, odd |-> {}, ok |-> TRUE]

Refused(d) == [d EXCEPT !.ok = FALSE]

-----------------------------------------------------------------------------
(* The operations of alembic.op as values, and what each one does.         *)

Form(form, names) == [c \in names |-> form]
Required(names) == Form("required", names)
Optional(names) == Form("optional", names)
Aware(c) == Form("aware", {c})
\* Optional, of a width that no revision changes.
Limited(names) == Form("optional limited", names)

Create(t, columns) == [op |-> "create", table |-> t, columns |-> columns]
DropTable(t) == [op |-> "drop table", table |-> t]
Add(t, c, form) == [op |-> "add", table |-> t, column |-> c, form |-> form,
                    default |-> FALSE]
AddNow(t, c) == [op |-> "add", table |-> t, column |-> c, form |-> "aware",
                 default |-> TRUE]
Drop(t, c) == [op |-> "drop", table |-> t, column |-> c]
Alter(t, c, form) == [op |-> "alter", table |-> t, column |-> c, form |-> form]
Refer(t, c, to, ondelete) ==
    [op |-> "refer", fk |-> [table |-> t, column |-> c, to |-> to,
                             ondelete |-> ondelete]]
\* By the name PostgreSQL gives it, <table>_<column>_fkey.
DropFkey(t, c) == [op |-> "drop fkey", table |-> t, column |-> c]
Rule(t, what) == [op |-> "rule", table |-> t, what |-> what]
DropRule(t, what) == [op |-> "drop rule", table |-> t, what |-> what]
Type(e, values) == [op |-> "type", type |-> e, values |-> values]
DropType(e) == [op |-> "drop type", type |-> e]
Sync(e, values, t, c) == [op |-> "sync", type |-> e, values |-> values,
                          table |-> t, column |-> c]
\* op.drop_constraint(None, ...): SQLAlchemy has no name to compile.
DropUnnamed == [op |-> "unnamed"]

Mandatory(form) ==
    form \notin {"optional", "optional aware", "optional float", "optional limited"}

Without(f, x) == [y \in DOMAIN f \ {x} |-> f[y]]

With(f, x, v) == [y \in DOMAIN f \cup {x} |-> IF y = x THEN v ELSE f[y]]

Columns(d, t) == DOMAIN d.tables[t]

\* Whether o is accepted.  The application leaves no NULL in a column that a
\* revision makes NOT NULL later, and keeps the checks that one adds, or the
\* same revision is refused for another reason (fc27d05dd3d9: reviews_count).
Accepts(d, o) ==
    CASE o.op = "create" -> o.table \notin DOMAIN d.tables
      [] o.op = "drop table" ->
            /\ o.table \in DOMAIN d.tables
            /\ \A k \in d.fks : k.to = o.table => k.table = o.table
      [] o.op = "add" ->
            /\ o.table \in DOMAIN d.tables /\ o.column \notin Columns(d, o.table)
            /\ Mandatory(o.form) /\ ~o.default => o.table \notin d.rows
      [] o.op = "drop" -> o.table \in DOMAIN d.tables
                          /\ o.column \in Columns(d, o.table)
      [] o.op = "alter" ->
            /\ o.table \in DOMAIN d.tables /\ o.column \in Columns(d, o.table)
            /\ o.form = "short" => <<o.table, o.column>> \notin d.odd
      [] o.op = "refer" ->
            /\ {o.fk.table, o.fk.to} \subseteq DOMAIN d.tables
            /\ o.fk.column \in Columns(d, o.fk.table)
            /\ o.fk.table \in d.rows => o.fk.to \in d.rows
      [] o.op = "drop fkey" ->
            \E k \in d.fks : k.table = o.table /\ k.column = o.column
      [] o.op = "rule" -> /\ o.table \in DOMAIN d.tables
                          /\ <<o.table, o.what>> \notin d.rules \cup d.odd
      [] o.op = "drop rule" -> <<o.table, o.what>> \in d.rules
      [] o.op = "type" -> o.type \notin DOMAIN d.types
      [] o.op = "drop type" -> o.type \in DOMAIN d.types
      [] o.op = "sync" -> o.values = "old" => <<o.table, o.column>> \notin d.odd
      [] OTHER -> FALSE

Effect(d, o) ==
    CASE o.op = "create" -> [d EXCEPT !.tables = With(@, o.table, o.columns)]
      [] o.op = "drop table" ->
            [d EXCEPT !.tables = Without(@, o.table), !.rows = @ \ {o.table},
                      !.fks = {k \in @ : k.table # o.table},
                      !.rules = {x \in @ : x[1] # o.table},
                      !.odd = {x \in @ : x[1] # o.table}]
      [] o.op \in {"add", "alter"} ->
            [d EXCEPT !.tables[o.table] = With(@, o.column, o.form)]
      [] o.op = "drop" ->
            [d EXCEPT !.tables[o.table] = Without(@, o.column),
                      !.fks = {k \in @ : k.table # o.table \/ k.column # o.column}]
      [] o.op = "refer" -> [d EXCEPT !.fks = @ \cup {o.fk}]
      [] o.op = "drop fkey" ->
            [d EXCEPT !.fks = {k \in @ : k.table # o.table \/ k.column # o.column}]
      [] o.op = "rule" -> [d EXCEPT !.rules = @ \cup {<<o.table, o.what>>}]
      [] o.op = "drop rule" -> [d EXCEPT !.rules = @ \ {<<o.table, o.what>>}]
      [] o.op = "drop type" -> [d EXCEPT !.types = Without(@, o.type)]
      [] OTHER -> [d EXCEPT !.types = With(@, o.type, o.values)]

Apply(d, o) == IF d.ok /\ Accepts(d, o) THEN Effect(d, o) ELSE Refused(d)

Run(d, ops) ==
    LET after[i \in 0..Len(ops)] == IF i = 0 THEN d ELSE Apply(after[i - 1], ops[i])
    IN  IF d.ok THEN after[Len(ops)] ELSE d

-----------------------------------------------------------------------------
(* The revisions, in the order of down_revision.  upgrade() and             *)
(* downgrade(); one that drops an unnamed constraint never gets further.    *)

\* create_table emits CREATE TYPE for the two enumerations; nothing drops them.
Up_6e49 == <<
    Create("user", Required({"hashed_password", "roles", "balance",
                             "registration_date"})
                   @@ Form("short", {"username"}) @@ Optional({"email"})),
    Rule("user", "index username"),
    Type("appcategory", "all"), Type("gamegenre", "old"),
    Create("app", Required({"category", "price", "public", "file_id", "keywords",
                            "publisher_id"})
                  @@ Form("short", {"title"}) @@ Limited({"description"})
                  @@ Optional({"genre"})),
    Refer("app", "publisher_id", "user", "no action"),
    Create("review", Required({"rating", "creation_date", "author_id", "app_id"})
                     @@ Limited({"subject", "content"})),
    Refer("review", "app_id", "app", "no action"),
    Refer("review", "author_id", "user", "no action")>>

Down_6e49 == <<DropTable("review"), DropTable("app"),
               DropRule("user", "index username"), DropTable("user")>>

Up_b5a1 == <<
    Add("app", "version", "required"), AddNow("app", "published_at"),
    AddNow("review", "created_at"), Drop("review", "creation_date"),
    AddNow("user", "registered_at"), DropRule("user", "index username"),
    Rule("user", "unique username"), Rule("user", "unique email"),
    Drop("user", "registration_date")>>

Down_b5a1 == <<Add("user", "registration_date", "required"), DropUnnamed>>

Up_027f == <<
    Create("apppurchase", Required({"user_id", "app_id", "price"})
                          @@ Aware("purchased_at")),
    Refer("apppurchase", "app_id", "app", "no action"),
    Refer("apppurchase", "user_id", "user", "no action"),
    Create("cartapp", Required({"user_id", "app_id", "price"})
                      @@ Form("optional aware", {"added_at"})),
    Refer("cartapp", "app_id", "app", "no action"),
    Refer("cartapp", "user_id", "user", "no action")>>

Down_027f == <<DropTable("cartapp"), DropTable("apppurchase")>>

Up_a85c == <<
    Create("cart", Required({"user_id"})), Rule("cart", "unique user_id"),
    Refer("cart", "user_id", "user", "no action"),
    Create("cartitem", Required({"cart_id", "app_id"})
                       @@ Form("optional aware", {"added_at"})),
    Refer("cartitem", "app_id", "app", "no action"),
    Refer("cartitem", "cart_id", "cart", "cascade"),
    Create("purchase", Required({"user_id", "app_id", "price"})
                       @@ Aware("purchased_at")),
    Refer("purchase", "app_id", "app", "no action"),
    Refer("purchase", "user_id", "user", "no action"),
    DropTable("apppurchase"), DropTable("cartapp"),
    Add("user", "apps_cart_id", "required"),
    Refer("user", "apps_cart_id", "cart", "no action")>>

Down_a85c == <<DropUnnamed>>

Up_6d33 == <<DropFkey("user", "apps_cart_id"), Drop("user", "apps_cart_id")>>

Down_6d33 == <<Add("user", "apps_cart_id", "required"),
               Refer("user", "apps_cart_id", "cart", "no action")>>

Up_1a55 == <<Sync("gamegenre", "new", "app", "genre")>>

Down_1a55 == <<Sync("gamegenre", "old", "app", "genre")>>

\* "rename_tables": new tables are created and the old ones dropped, rows and
\* all.
Up_026e == <<
    DropFkey("review", "app_id"), DropFkey("purchase", "app_id"),
    DropFkey("cart", "user_id"),
    Create("users", Required({"hashed_password", "roles", "balance"})
                    @@ Form("short", {"username"}) @@ Optional({"email"})
                    @@ Aware("registered_at")),
    Rule("users", "unique email"), Rule("users", "unique username"),
    Create("apps", Required({"price", "public", "version", "category", "file_id",
                             "keywords", "publisher_id"})
                   @@ Form("short", {"title"}) @@ Limited({"description"})
                   @@ Optional({"genre"}) @@ Aware("published_at")),
    Refer("apps", "publisher_id", "users", "no action"),
    Create("carts", Required({"user_id"})), Rule("carts", "unique user_id"),
    Refer("carts", "user_id", "users", "cascade"),
    Create("cart_items", Required({"cart_id", "app_id"})
                         @@ Form("optional aware", {"added_at"})),
    Refer("cart_items", "app_id", "apps", "cascade"),
    Refer("cart_items", "cart_id", "carts", "cascade"),
    Create("discussions", Required({"creator_id", "app_id"}) @@ Limited({"topic"})
                          @@ Aware("created_at")),
    Refer("discussions", "app_id", "apps", "no action"),
    Refer("discussions", "creator_id", "users", "no action"),
    Create("purchases", Required({"user_id", "app_id", "price"})
                        @@ Aware("purchased_at")),
    Refer("purchases", "app_id", "apps", "no action"),
    Refer("purchases", "user_id", "users", "no action"),
    Create("reviews", Required({"rating", "author_id", "app_id"})
                      @@ Limited({"subject", "content"}) @@ Aware("created_at")),
    Refer("reviews", "app_id", "apps", "cascade"),
    Refer("reviews", "author_id", "users", "cascade"),
    Create("messages", Required({"author_id", "discussion_id"})
                       @@ Form("limited", {"text"})),
    Refer("messages", "author_id", "users", "cascade"),
    Refer("messages", "discussion_id", "discussions", "cascade"),
    DropTable("cartitem"), DropTable("app"), DropTable("purchase"),
    DropTable("review"), DropRule("user", "unique username"),
    DropTable("user"), DropTable("cart")>>

\* cart is created before the user it refers to: refused, whatever follows.
Down_026e == <<Create("cart", Required({"user_id"})),
               Refer("cart", "user_id", "user", "no action")>>

Up_51ad == <<AddNow("messages", "created_at")>>

Down_51ad == <<Drop("messages", "created_at")>>

Up_c5b2 == <<
    Create("transfers", Required({"amount"}) @@ Form("naive", {"made_at"})),
    Alter("apps", "published_at", "naive"), Alter("apps", "keywords", "optional"),
    DropFkey("apps", "publisher_id"),
    Refer("apps", "publisher_id", "users", "cascade"),
    Alter("cart_items", "added_at", "naive"),
    Alter("discussions", "created_at", "naive"),
    Alter("messages", "created_at", "naive"),
    Alter("purchases", "purchased_at", "naive"),
    Alter("reviews", "created_at", "naive"),
    Alter("users", "registered_at", "naive")>>

\* The unnamed constraint comes after the time zones are back.
Down_c5b2 == <<
    Alter("users", "registered_at", "aware"), Alter("reviews", "created_at", "aware"),
    Alter("purchases", "purchased_at", "aware"),
    Alter("messages", "created_at", "aware"),
    Alter("discussions", "created_at", "aware"),
    Alter("cart_items", "added_at", "optional aware"), DropUnnamed>>

Up_4535 == <<Add("transfers", "user_id", "required"),
             Refer("transfers", "user_id", "users", "no action")>>

Down_4535 == <<DropUnnamed>>

Up_f77d == <<Add("apps", "times_purchased", "required"), Drop("apps", "file_id")>>

Down_f77d == <<Add("apps", "file_id", "required"), Drop("apps", "times_purchased")>>

Up_d67f == <<Type("operationtype", "all"),
             Add("transfers", "operation_type", "required")>>

\* Mutant: the type stays when its column goes.
Down_d67fKeepsType == <<Drop("transfers", "operation_type")>>

Down_d67f == <<Drop("transfers", "operation_type"), DropType("operationtype")>>

Up_35b5 == <<
    Create("user_profile_pictures", Required({"user_id"})),
    Refer("user_profile_pictures", "user_id", "users", "no action"),
    Create("app_archives", Required({"filename", "app_id"})),
    Refer("app_archives", "app_id", "apps", "no action"),
    Create("app_covers", Required({"app_id"})),
    Refer("app_covers", "app_id", "apps", "no action")>>

Down_35b5 == <<DropTable("app_covers"), DropTable("app_archives"),
               DropTable("user_profile_pictures")>>

Up_8da9 == <<Add("app_covers", "extension", "required"),
             Add("user_profile_pictures", "extension", "required")>>

Down_8da9 == <<Drop("user_profile_pictures", "extension"),
               Drop("app_covers", "extension")>>

Up_a036 == <<Add("apps", "rating", "optional float")>>

Down_a036 == <<Drop("apps", "rating")>>

Up_7c58 == <<
    Add("app_archives", "created_at", "naive"),
    Add("app_covers", "created_at", "naive"), Add("carts", "created_at", "naive"),
    DropFkey("transfers", "user_id"),
    Refer("transfers", "user_id", "users", "cascade"),
    Add("user_profile_pictures", "created_at", "naive"),
    Alter("users", "registered_at", "aware"), Alter("apps", "published_at", "aware"),
    Alter("discussions", "created_at", "aware"),
    Alter("messages", "created_at", "aware"), Alter("reviews", "created_at", "aware"),
    Alter("app_covers", "created_at", "aware"),
    Alter("app_archives", "created_at", "aware"),
    Alter("transfers", "made_at", "aware"),
    Alter("purchases", "purchased_at", "aware"),
    Alter("cart_items", "added_at", "aware"), Alter("carts", "created_at", "aware")>>

Down_7c58 == <<Drop("user_profile_pictures", "created_at"), DropUnnamed>>

Up_815c == <<
    Create("app_thumbnails", Required({"extension", "app_id"})
                             @@ Aware("created_at")),
    Refer("app_thumbnails", "app_id", "apps", "no action"),
    Alter("apps", "title", "long"),
    Alter("user_profile_pictures", "created_at", "aware"),
    Add("users", "birth_date", "optional"), Alter("users", "username", "long")>>

Down_815c == <<
    Alter("users", "username", "short"), Drop("users", "birth_date"),
    Alter("user_profile_pictures", "created_at", "naive"),
    Alter("apps", "title", "short"), DropTable("app_thumbnails")>>

Up_fe0b == <<
    Add("apps", "pending_archive_key", "optional"),
    Add("apps", "archive_key", "optional"),
    Add("apps", "pending_cover_key", "optional"),
    Add("apps", "cover_keys", "optional"),
    Add("users", "pending_avatar_key", "optional"),
    Add("users", "avatar_key", "optional")>>

Down_fe0b == <<
    Drop("users", "avatar_key"), Drop("users", "pending_avatar_key"),
    Drop("apps", "cover_keys"), Drop("apps", "pending_cover_key"),
    Drop("apps", "archive_key"), Drop("apps", "pending_archive_key")>>

\* Mutant: app_covers is dropped and made anew, with the same columns.
Up_e388Recreates == <<
    DropTable("user_profile_pictures"), DropTable("app_archives"),
    DropTable("app_thumbnails"), DropTable("app_covers"),
    Create("app_covers", Required({"app_id", "object_key", "position"})
                         @@ Form("naive", {"created_at"})),
    Refer("app_covers", "app_id", "apps", "no action"),
    Rule("app_covers", "index app_id"),
    Add("apps", "pending_icon_key", "optional"), Add("apps", "icon_key", "optional"),
    Drop("apps", "pending_cover_key"), Drop("apps", "cover_keys")>>

Up_e388 == <<
    DropTable("user_profile_pictures"), DropTable("app_archives"),
    DropTable("app_thumbnails"), Add("app_covers", "object_key", "required"),
    Add("app_covers", "position", "required"),
    Alter("app_covers", "created_at", "naive"), Rule("app_covers", "index app_id"),
    Drop("app_covers", "extension"), Add("apps", "pending_icon_key", "optional"),
    Add("apps", "icon_key", "optional"), Drop("apps", "pending_cover_key"),
    Drop("apps", "cover_keys")>>

\* Mutant: the time zone is forgotten.
Down_e388Naive == <<
    Add("apps", "cover_keys", "optional"), Add("apps", "pending_cover_key", "optional"),
    Drop("apps", "icon_key"), Drop("apps", "pending_icon_key"),
    Add("app_covers", "extension", "required"), DropRule("app_covers", "index app_id"),
    Drop("app_covers", "position"), Drop("app_covers", "object_key"),
    Create("app_thumbnails", Required({"extension", "app_id"})
                             @@ Aware("created_at")),
    Refer("app_thumbnails", "app_id", "apps", "no action"),
    Create("app_archives", Required({"filename", "app_id"}) @@ Aware("created_at")),
    Refer("app_archives", "app_id", "apps", "no action"),
    Create("user_profile_pictures", Required({"user_id", "extension"})
                                    @@ Aware("created_at")),
    Refer("user_profile_pictures", "user_id", "users", "no action")>>

Down_e388 == <<
    Add("apps", "cover_keys", "optional"), Add("apps", "pending_cover_key", "optional"),
    Drop("apps", "icon_key"), Drop("apps", "pending_icon_key"),
    Add("app_covers", "extension", "required"), DropRule("app_covers", "index app_id"),
    Alter("app_covers", "created_at", "aware"),
    Drop("app_covers", "position"), Drop("app_covers", "object_key"),
    Create("app_thumbnails", Required({"extension", "app_id"})
                             @@ Aware("created_at")),
    Refer("app_thumbnails", "app_id", "apps", "no action"),
    Create("app_archives", Required({"filename", "app_id"}) @@ Aware("created_at")),
    Refer("app_archives", "app_id", "apps", "no action"),
    Create("user_profile_pictures", Required({"user_id", "extension"})
                                    @@ Aware("created_at")),
    Refer("user_profile_pictures", "user_id", "users", "no action")>>

Up_7fd0 == <<Alter("app_covers", "created_at", "aware")>>

Down_7fd0 == <<Alter("app_covers", "created_at", "naive")>>

\* Mutant: the index gets the name it has later.
Up_6b47Public == <<Rule("apps", "gin keywords public")>>

Up_6b47 == <<Rule("apps", "gin keywords")>>

Down_6b47 == <<DropRule("apps", "gin keywords")>>

Up_6e0c == <<Drop("app_covers", "position")>>

Down_6e0c == <<Add("app_covers", "position", "required")>>

Up_ae18 == <<
    DropFkey("app_covers", "app_id"), Refer("app_covers", "app_id", "apps", "cascade"),
    DropRule("apps", "gin keywords"), Rule("apps", "gin keywords public")>>

Down_ae18 == <<
    DropRule("apps", "gin keywords public"), Rule("apps", "gin keywords"),
    DropUnnamed>>

Up_9970 == <<
    Rule("users", "balance_not_negative"), Rule("apps", "rating_range"),
    Alter("apps", "rating", "float"), Add("apps", "reviews_count", "required")>>

Down_9970 == <<
    DropRule("users", "balance_not_negative"), DropRule("apps", "rating_range"),
    Alter("apps", "rating", "optional float"), Drop("apps", "reviews_count")>>

Up == <<Up_6e49, Up_b5a1, Up_027f, Up_a85c, Up_6d33, Up_1a55, Up_026e, Up_51ad,
        Up_c5b2, Up_4535, Up_f77d, Up_d67f, Up_35b5, Up_8da9, Up_a036, Up_7c58,
        Up_815c, Up_fe0b, Up_e388, Up_7fd0, Up_6b47, Up_6e0c, Up_ae18, Up_9970>>

Down == <<Down_6e49, Down_b5a1, Down_027f, Down_a85c, Down_6d33, Down_1a55,
          Down_026e, Down_51ad, Down_c5b2, Down_4535, Down_f77d, Down_d67f,
          Down_35b5, Down_8da9, Down_a036, Down_7c58, Down_815c, Down_fe0b,
          Down_e388, Down_7fd0, Down_6b47, Down_6e0c, Down_ae18, Down_9970>>

Newest == Len(Up)

\* The revisions above m up to n, each on what the one before has left.
Upgraded(d, m, n) ==
    LET after[i \in m..n] == IF i = m THEN d ELSE Run(after[i - 1], Up[i])
    IN  after[n]

-----------------------------------------------------------------------------
(* The schema the classes of models/ declare.                               *)

UserTable == Required({"hashed_password", "roles", "balance"})
    @@ Form("long", {"username"}) @@ Aware("registered_at")
    @@ Optional({"email", "birth_date", "pending_avatar_key", "avatar_key"})

AppTable == Required({"price", "public", "version", "category", "publisher_id",
                      "times_purchased", "reviews_count"})
    @@ Form("long", {"title"}) @@ Form("numeric", {"rating"})
    @@ Aware("published_at")
    @@ Optional({"description", "genre", "keywords", "pending_archive_key",
                 "archive_key", "pending_icon_key", "icon_key"})

CoverTable == Required({"app_id", "object_key"}) @@ Aware("created_at")
CartTable == Required({"user_id"}) @@ Aware("created_at")
CartItemTable == Required({"cart_id", "app_id"}) @@ Aware("added_at")
PurchaseTable == Required({"user_id", "app_id", "price"}) @@ Aware("purchased_at")
ReviewTable == Required({"rating", "author_id", "app_id"})
    @@ Optional({"subject", "content"}) @@ Aware("created_at")
DiscussionTable == Required({"creator_id", "app_id"}) @@ Optional({"topic"})
    @@ Aware("created_at")
MessageTable == Required({"text", "author_id", "discussion_id"})
    @@ Aware("created_at")
TransferTable == Required({"amount", "user_id", "operation_type"})
    @@ Aware("made_at")

Models ==
    LET fk(t, c, to, x) == [table |-> t, column |-> c, to |-> to, ondelete |-> x] IN
    [tables |-> [users |-> UserTable, apps |-> AppTable, app_covers |-> CoverTable,
                 carts |-> CartTable, cart_items |-> CartItemTable,
                 purchases |-> PurchaseTable, reviews |-> ReviewTable,
                 discussions |-> DiscussionTable, messages |-> MessageTable,
                 transfers |-> TransferTable],
     fks |-> {fk("apps", "publisher_id", "users", "cascade"),
              fk("app_covers", "app_id", "apps", "cascade"),
              fk("carts", "user_id", "users", "cascade"),
              fk("cart_items", "cart_id", "carts", "cascade"),
              fk("cart_items", "app_id", "apps", "cascade"),
              fk("purchases", "user_id", "users", "no action"),
              fk("purchases", "app_id", "apps", "no action"),
              fk("reviews", "author_id", "users", "cascade"),
              fk("reviews", "app_id", "apps", "cascade"),
              fk("discussions", "creator_id", "users", "no action"),
              fk("discussions", "app_id", "apps", "no action"),
              fk("messages", "author_id", "users", "cascade"),
              fk("messages", "discussion_id", "discussions", "cascade"),
              fk("transfers", "user_id", "users", "cascade")},
     rules |-> {<<"users", "unique username">>, <<"users", "unique email">>,
                <<"users", "balance_not_negative">>, <<"carts", "unique user_id">>,
                <<"apps", "rating_range">>, <<"apps", "gin keywords public">>,
                <<"app_covers", "index app_id">>},
     types |-> [appcategory |-> "all", gamegenre |-> "new", operationtype |-> "all"]]

-----------------------------------------------------------------------------
(* The database as the application and the operator change it.              *)

SchemaInit == revision = 0 /\ db = Empty

\* One alembic command, in one transaction.
Command(d, to) ==
    IF d.ok THEN db' = d /\ revision' = to ELSE UNCHANGED schemaVars

\* alembic upgrade head
UpgradeHead ==
    /\ revision < Newest
    /\ Command(Upgraded(db, revision, Newest), Newest)

\* alembic upgrade +1
Upgrade ==
    /\ revision < Newest
    /\ Command(Run(db, Up[revision + 1]), revision + 1)

\* alembic downgrade -1
Downgrade ==
    /\ revision > 0
    /\ Command(Run(db, Down[revision]), revision - 1)

\* What rows of t may hold that one side of a revision refuses.
Oddities(t) ==
    {x \in {<<t, "title">>, <<t, "username">>} :
        x[2] \in Columns(db, t) /\ db.tables[t][x[2]] = "long"}
    \cup {x \in {<<t, "genre">>} :
            x[2] \in Columns(db, t) /\ db.types["gamegenre"] = "new"}
    \cup {x \in {<<t, "unique username">>, <<t, "unique email">>} :
            t = "user" /\ x \notin db.rules}

\* The application inserts rows; what they refer to is there.
Insert(t, odd) ==
    /\ t \in DOMAIN db.tables /\ odd \subseteq Oddities(t)
    /\ \A k \in db.fks : k.table = t => k.to \in db.rows \cup {t}
    /\ db' = [db EXCEPT !.rows = @ \cup {t}, !.odd = @ \cup odd]
    /\ UNCHANGED revision

\* The last row of t goes; no row refers to it any more.
Delete(t) ==
    /\ t \in db.rows
    /\ \A k \in db.fks : k.to = t => k.table = t \/ k.table \notin db.rows
    /\ db' = [db EXCEPT !.rows = @ \ {t}, !.odd = {x \in @ : x[1] # t}]
    /\ UNCHANGED revision

SchemaNext ==
    \/ UpgradeHead \/ Upgrade \/ Downgrade
    \/ \E t \in Filled \cap DOMAIN db.tables :
          \/ \E odd \in SUBSET Oddities(t) : Insert(t, odd)
          \/ Delete(t)

SchemaSpec == SchemaInit /\ [][SchemaNext]_schemaVars

-----------------------------------------------------------------------------
Schema(d) == [tables |-> d.tables, fks |-> d.fks, rules |-> d.rules,
              types |-> d.types]

\* A database with schema s and no rows.
Unfilled(s) == [tables |-> s.tables, fks |-> s.fks, rules |-> s.rules,
                types |-> s.types, rows |-> {}, odd |-> {}, ok |-> TRUE]

\* The schema of a new database after its first n upgrades.
Fresh == [n \in 0..Newest |-> Schema(Upgraded(Empty, 0, n))]

\* What the models/ declare and what the revisions have made at head differ in
\* six columns.  The rating is a float that the models take for NUMERIC(3, 2)
\* (models/app.py:39).  Five columns of text have a width that neither models/
\* nor schemas/ know: apps.description VARCHAR(400), discussions.topic
\* VARCHAR(80), reviews.subject VARCHAR(50), reviews.content VARCHAR(400) and
\* messages.text VARCHAR(500) (026e0df29ae3:42, 73, 94, 95, 105).
Declared ==
    [Models EXCEPT !.tables["apps"]["rating"] = "float",
                   !.tables["apps"]["description"] = "optional limited",
                   !.tables["discussions"]["topic"] = "optional limited",
                   !.tables["reviews"]["subject"] = "optional limited",
                   !.tables["reviews"]["content"] = "optional limited",
                   !.tables["messages"]["text"] = "limited"]

\* At head the application finds the schema its models declare, but for the six
\* columns of Declared.
HeadServesModels == revision = Newest => Schema(db) = Declared

\* A revision names one schema, however it was reached, forth and back; the
\* types of the first one alone outlive its downgrade (6e49a378e5bd:71).  That
\* of head is the one the application declares, but for the six columns of
\* Declared.
SchemaOfRevision ==
    /\ \/ revision > 0 /\ Schema(db) = Fresh[revision]
       \/ revision = 0 /\ [Schema(db) EXCEPT !.types = <<>>] = Fresh[0]
    /\ HeadServesModels

\* What revision n's scripts do without rows: its downgrade(), if it gets
\* through, undoes its upgrade(), but for the types of the first revision, which
\* then refuse it; at head they have made what the models declare, but for the
\* six columns of Declared.
Inverts(n) ==
    /\ n = Newest => Fresh[n] = Declared
    /\ n > 0 => LET back == Run(Unfilled(Fresh[n]), Down[n]) IN
          back.ok => IF n > 1 THEN Schema(back) = Fresh[n - 1]
                     ELSE /\ [Schema(back) EXCEPT !.types = <<>>] = Fresh[0]
                          /\ ~ Run(back, Up[1]).ok

\* Tables that revision n gives a required column without a default.
Grown(n) == {Up[n][j].table : j \in {i \in 1..Len(Up[n]) :
    Up[n][i].op = "add" /\ Mandatory(Up[n][i].form) /\ ~Up[n][i].default}}

\* Rows of the table that operation j of revision n gives a foreign key, if there
\* are any by then, referred to rows of the same table before.
Backed(n, j) ==
    LET k == Up[n][j].fk
        before(op, t) == \E i \in 1..(j - 1) : Up[n][i].op = op /\ Up[n][i].table = t
    IN  \/ before("create", k.table)
        \/ k.table \in Grown(n)
        \/ /\ \E x \in Fresh[n - 1].fks : x.table = k.table /\ x.to = k.to
           /\ ~ before("drop table", k.to)

\* Revision n's upgrade() succeeds on a database without rows, and rows can
\* refuse it only by a required column.
Accommodates(n) ==
    n > 0 =>
        /\ Upgraded(Empty, 0, n).ok
        /\ \A j \in 1..Len(Up[n]) : LET o == Up[n][j] IN
              /\ o.op = "alter" => o.form # "short"
              /\ o.op = "sync" => o.values # "old"
              /\ o.op = "rule" => o.what \notin {"title", "username", "genre"}
              /\ o.op = "refer" => Backed(n, j)

\* The scripts of the current revision, and so of each that a walk reaches, undo
\* one another on a database without rows, and rows stand in the way of an
\* upgrade only where they must (upgrade() and downgrade() in
\* migrations/versions/).
ScriptsAgree == Inverts(revision) /\ Accommodates(revision)

\* Tables that a revision yet to come gives a required column without a default.
Growing == UNION {Grown(n) : n \in (revision + 1)..Newest}

\* alembic upgrade head (README.md:113) succeeds on a database with a schema
\* unless it has rows in a table that grows a required column on the way, or
\* names that were not unique when there was no constraint.  A downgrade to base
\* has left the types in the way.
UpgradeSucceeds ==
    /\ revision > 0 /\ db.rows \cap Growing = {}
    /\ db.odd \cap {<<"user", "unique username">>, <<"user", "unique email">>} = {}
    => Upgraded(db, revision, Newest).ok

\* An upgrade, of one revision or of all that are left, loses no row of a table
\* that the application has at head: the only tables that upgrade() drops with
\* their rows are those that migrations/versions/ replaces, without their rows, as
\* in 026e0df29ae3, or gives up, as in e388e1f4105a.
UpgradesKeepRows ==
    [][revision' > revision =>
          db.rows \cap DOMAIN Models.tables \subseteq db'.rows]_schemaVars
=============================================================================
