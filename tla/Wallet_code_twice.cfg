\* Two concurrent activations of one promo code.
SPECIFICATION Spec
CONSTANTS
    ann = ann
    bob = bob
    cat = cat
    game = game
    tool = tool
    User <- MCUser
    App <- MCApp
    Request = {r1, r2}
    Code = {gift}
    Price <- MCPrice
    Publisher <- MCPublisher
    Amount = {3}
    CodeValue = 5
    InitialBalance <- MCBalance
    InitialCart <- MCCart
    MayFail = FALSE
SYMMETRY Symmetry
INVARIANTS CodeCreditedOnce
