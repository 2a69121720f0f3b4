\* One account, two salespeople: approvals, hand-overs, leavers, files, absences and the Register in any order.
SPECIFICATION HistorySpec
CONSTANTS
    a1 = a1  e1 = e1  e2 = e2  House = House  Legacy = Legacy
    Customer = {a1}
    Employee = {e1, e2}
    HouseAccount = {House, Legacy}
    MaxDay = 3
    Filed <- AnyPeriod
    Absence <- Holiday
    None = None
    Unmapped = Unmapped
    Registers <- AnyRegister
INVARIANTS
    TypeOK
    OneOwnerAtATime
    HistoryFollowsRegister
PROPERTIES
    AccountPassesOrIsLogged
    StartsKept
    ImplementsTimeline
