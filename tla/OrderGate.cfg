\* The gate, the checks, the history and the lock: one order, one line.
SPECIFICATION Spec
CONSTANTS
    Order = {o1}
    LineNo = {1}
    c1 = c1  c2 = c2  k1 = k1  k2 = k2  cfo = cfo  clerk = clerk
    Customer = {c1, c2}
    Contract = {k1, k2}
    ContractCustomer <- OneEach
    Header <- GateHeaders
    Content <- GateContents
    CheckType = {"margin_approval"}
    AlwaysRaised = {}
    Employee = {cfo, clerk}
    MayApprove = {cfo}
    MayWaive = {cfo, clerk}
    MayApproveLoss = {cfo}
    MaxHistory = 6
    None = None
INVARIANTS
    TypeOK
    ProcessedOrderClean
    HistoryChained
    HeldOrdersRevalidated
PROPERTIES
    ApprovalDecided
    ImplementsTerms
