SPECIFICATION Spec
CONSTANTS
    Tasks = {t1, t2}
    PaidPlans = {"pro", "business"}
    Gateways = {"stripe"}
    Price <- OwnPrice
    Product <- OwnPrice
    MaxCustomers = 2
    MaxPayUsers = 0
    MaxSubs = 1
    MaxOrders = 0
    MaxEvents = 3
    MaxSends = 2
SYMMETRY Symmetry
INVARIANTS
    TypeOK
    PlanFollowsPurchase
    AnsweredIsWritten
    MissedExplained
CHECK_DEADLOCK FALSE
