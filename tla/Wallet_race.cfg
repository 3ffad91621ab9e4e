\* Three concurrent requests of any kind, any of which may fail.
SPECIFICATION Spec
CONSTANTS
    ann = ann
    bob = bob
    cat = cat
    game = game
    tool = tool
    User <- MCUser
    App <- MCApp
    Request = {r1, r2, r3}
    Code = {gift}
    Price <- MCPrice
    Publisher <- MCPublisher
    Amount = {3}
    CodeValue = 5
    InitialBalance <- MCBalance
    InitialCart <- MCCart
    MayFail = TRUE
SYMMETRY Symmetry
INVARIANTS NonNegative LedgerAgrees DuplicateOnlyByRace MoneyConserved SalesCounted CodeLostOnlyByFailure
PROPERTY BankUnlessRaced
