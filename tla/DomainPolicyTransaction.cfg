CONSTANTS
    d1 = d1
    r1 = r1
    r2 = r2
    Uids = {1}
    Ports = {1}
    Sources = {s1}
    Domains = {d1}
    Revisions = {r1, r2}
    Content <- MCContent
    SyncIds = {a, b}
    Terms = {t}
    None = None
    BadUid = BadUid
    MaxFaults = 1
    LastUid = 1
SPECIFICATION Spec
SYMMETRY MCSymmetry
INVARIANTS RevisionsUnmixed
PROPERTIES RefusalKeepsStaging ImplementsTransaction
