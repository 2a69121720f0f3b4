\* A line edit that overlaps an approval.
SPECIFICATION Spec
CONSTANTS
    Session = {s1, s2}
    LineNo = {l1}
    MaxHistory = 5
    None = None
SYMMETRY Symmetric
PROPERTY LinesFrozen
