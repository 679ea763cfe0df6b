SPECIFICATION FairSpec
CONSTANTS
    t1 = t1  t2 = t2  tee = tee  cap = cap
    Null = Null
    Tabs = {t1, t2}
    Products = {tee, cap}
    Stock <- TwoAndOne
    MaxQuantity = 2
    MaxPolls = 2
    Flows = {1}
    MaxEdits = 2
    MaxSales = 1
INVARIANTS
    ShowsStoredCart
    FinishedIsFinal
PROPERTIES
    NothingVanishes
    CheckoutEnds
CHECK_DEADLOCK FALSE
