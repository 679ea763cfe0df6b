SPECIFICATION Spec
CONSTANTS
    a = a  b = b  c = c  s1 = s1  s2 = s2
    Null = Null
    Checkouts = {a, b, c}
    Skus = {s1, s2}
    Items <- Carts
    OnHand <- OneEach
    Backend <- BothBackends
    Calls <- FirstTwice
INVARIANTS
    NoOversell
    ConfirmedIsReserved
    RejectedHoldsNothing
    AnswersAgree
CHECK_DEADLOCK FALSE
