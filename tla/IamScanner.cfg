SPECIFICATION Spec
CONSTANTS
    s1 = s1
    s2 = s2
    Sid = {s1, s2}
    NoSid = "no sid"
    Window = 2
    MaxDepth = 2
    MaxWild = 2
SYMMETRY Symmetric
CONSTRAINT FewWildcards SmallWhenGarbled Undecided
CHECK_DEADLOCK FALSE
INVARIANT ScannerSeesCode
INVARIANT ActionWildcardIsRefused
INVARIANT AuditIsExact
