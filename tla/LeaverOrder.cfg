\* Leavers recorded in any order, nothing loaded from files.
SPECIFICATION Spec
CONSTANTS
    a1 = a1  e1 = e1  e2 = e2  House = House  Legacy = Legacy
    Customer = {a1}
    Employee = {e1, e2}
    HouseAccount = {House}
    MaxDay = 4
    Filed = {}
    Absence = {}
    None = None
    Unmapped = Unmapped
    Registers <- NoRegister
INVARIANT NoAccountAfterLeaving
