CONSTANTS
    api = api
    example = example
    ann = ann
    bob = bob
    l1 = l1
    l2 = l2
    l3 = l3
    q1 = q1
    q2 = q2
    Ports = {p1}
    Listeners = {l1, l2}
    Queries = {q1}
    Names = {api, example}
    Suffixes <- MCSuffixes
    Registrable <- MCRegistrable
    Users = {ann, bob}
    Policies <- MCPolicies
    None = None
    MaxFaults = 1
SPECIFICATION Spec
PROPERTIES ReconcileReturns
