CONSTANTS
    ann = ann
    bob = bob
    install = install
    strict = strict
    NoRules = NoRules
    Users = {ann, bob}
    Rules = {NoRules, install}
    Settings = {strict}
    Browsers = {chrome, brave}
    Payloads <- MCPayloads
    None = None
    MaxChanges = 3
    MaxFaults = 1
    MaxRestarts = 1
SPECIFICATION Spec
SYMMETRY MCSymmetry
INVARIANTS TypeOK OkIsEnforced RulesOfOneUser EnforcedUserIsAtScreen UnenrolledStaysClear
