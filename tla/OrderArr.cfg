\* The ARR ledger: approval, hold, re-approval and late linking of one order with two lines.
SPECIFICATION Spec
CONSTANTS
    Order = {o1}
    LineNo = {1, 2}
    c1 = c1  c2 = c2  k1 = k1  k2 = k2  cfo = cfo  clerk = clerk
    Customer = {c1}
    Contract = {k1, k2}
    ContractCustomer <- BothOfOne
    Header <- ArrHeaders
    Content <- ArrContents
    CheckType = {"margin_approval"}
    AlwaysRaised = {}
    Employee = {cfo}
    MayApprove = {cfo}
    MayWaive = {cfo}
    MayApproveLoss = {cfo}
    MaxHistory = 7
    None = None
INVARIANTS
    LedgerOneMovementPerLine
    LedgerOnlyApproved
    ProcessedArrAccounted
CONSTRAINT GateOpen
