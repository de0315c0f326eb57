SPECIFICATION Spec
CONSTANTS
    Guids = {a, b, c}
    Urls = {s, t}
    DerivedUrl = s
    DerivedGuid = c
    None = None
    MaxActs = 5
CHECK_DEADLOCK FALSE
SYMMETRY Symmetry
INVARIANTS GuidInv
PROPERTIES ApprovalIsForThisGuid ChangeReplaces
