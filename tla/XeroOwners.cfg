\* One account, two salespeople, two Xero groups: the daily sync beside edits, orders, leavers and files.
SPECIFICATION XeroFairSpec
CONSTANTS
    c1 = c1  c2 = c2  x1 = x1  g1 = g1  g2 = g2  e1 = e1  e2 = e2  e3 = e3  n1 = n1  n2 = n2  n3 = n3  House = House
    Customer = {c1}
    Employee = {e1, e2}
    HouseAccount = {House}
    MaxDay = 2
    Filed <- NoPeriods
    Absence <- NoPeriods
    None = None
    Contact = {x1}
    Group = {g1, g2}
    GroupName = {n1, n2, n3}
    FirstName <- TwoGroups
    Deleted = Deleted
    Base <- BaseFile
    File <- Files
    MaxChanges = 3
INVARIANTS
    XeroTypeOK
    OneOwnerAtATime
PROPERTIES
    CompleteFilesLoad
    ImplementsTimeline
    OnlyNewAnswersWin
    EventuallySettled
    ReloadIsQuiet
    HistoryOnlyGrows
