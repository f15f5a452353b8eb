\* Two passwords, so that a second command may run over the first one's.
SPECIFICATION Spec
CONSTANTS
    Password = {p1, p2}
    Owner = owner
    None = none
    MaxFaults = 2
    MaxRestarts = 2
SYMMETRY MCSymmetry
INVARIANTS PasswordEscrowed CompliantReceipt
