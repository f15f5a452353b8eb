CONSTANTS
    ann = ann
    bob = bob
    s1 = s1
    s2 = s2
    approval = approval
    Users = {ann, bob}
    blocked = blocked
    offline = offline
    other = other
    quiz = quiz
    game = game
    Rules = {blocked, offline, other}
    Offline = {offline}
    Patterns = {home}
    Profiles <- MCProfiles
    NameOf <- MCNameOf
    Prefixed <- MCPrefixed
    Overlays = {approval}
    Updates <- MCUpdates
    Global = {usrbin}
    Sessions = {s1, s2}
    None = None
    MaxFaults = 1
    MaxRestarts = 1
SPECIFICATION Spec
SYMMETRY MCSymmetry
ACTION_CONSTRAINT MCFaults
INVARIANTS TypeOK EnforcedWhileSignedIn GlobalFollowsLoaded StaleOnlyAfterRestart EveryProfileHasFile DiskFollowsMemory
