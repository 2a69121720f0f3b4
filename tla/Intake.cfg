\* Two sessions load, match and choose; an email with two orders, an SN that two orders want.
SPECIFICATION FairSpec
CONSTANTS
    Session = {s1, s2}
    m1 = m1  m2 = m2  m3 = m3
    e1 = e1  e2 = e2  e3 = e3
    Mail = {m1, m2, m3}
    Export = {e1, e2, e3}
    Content <- Contents
    Sheet <- Sheets
    Known <- MasterData
    CanonicalSn <- Canonical
    LastOrderSn = {}
    NormalisedName <- Normalised
    NamesOf <- Names
    Alike <- SameText
    Empty = Empty  Dash = Dash  ToCheck = ToCheck  Tbc = Tbc  NotApplicable = NotApplicable  Xxx = Xxx
    CspSkus = {}
    CannotOrder = {}
    DirectDebitDays = {}
    MaxOrders = 3
    MaxCommands = 4
    None = None
INVARIANTS
    TypeOK
    OneOrderPerSubmission
    OneOrderPerSn
    MirrorReplaced
    SourcedFromRegister
PROPERTIES
    NoSubmissionLost
    LockedKeepsSn
    EveryCommandEnds
CHECK_DEADLOCK FALSE
