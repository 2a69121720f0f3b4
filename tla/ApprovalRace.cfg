\* Three overlapping sessions on an order of three lines: what the row lock protects.
SPECIFICATION Spec
CONSTANTS
    Session = {s1, s2, s3}
    LineNo = {l1, l2, l3}
    MaxHistory = 4
    None = None
SYMMETRY Symmetric
INVARIANTS
    TypeOK
    HistoryIsAWalk
    ProcessedHeaderSound
    BookedOnce
    BookedOnlyApproved
PROPERTIES
    HeaderFrozen
