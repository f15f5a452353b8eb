CONSTANTS
    d1 = d1
    r1 = r1
    r2 = r2
    Uids = {1, 2, 3}
    Ports = {1, 2}
    Sources = {}
    Domains = {}
    Revisions = {}
    Content <- NoContent
    SyncIds = {a}
    Terms = {t}
    None = None
    BadUid = BadUid
    MaxFaults = 1
    LastUid = 3
SPECIFICATION Spec
INVARIANTS TypeOK PortsDistinct GuardsAdmitRedirects AckIsEnforcedAndDurable FilterLiftedOnlyByRebuild NoForeignFilter AllocationIsTheLoop
PROPERTIES PortsStable
