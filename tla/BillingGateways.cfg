SPECIFICATION Spec
CONSTANTS
    Tasks = {t1, t2}
    PaidPlans = {"pro"}
    Gateways = {"stripe", "paymenter"}
    Price <- OwnPrice
    Product <- OwnPrice
    MaxCustomers = 1
    MaxPayUsers = 2
    MaxSubs = 1
    MaxOrders = 2
    MaxEvents = 3
    MaxSends = 1
SYMMETRY Symmetry
INVARIANTS
    PlanFollowsPurchase
    MissedExplained
    PlanWasPaid
CHECK_DEADLOCK FALSE
