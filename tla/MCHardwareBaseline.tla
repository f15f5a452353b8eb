------------------------- MODULE MCHardwareBaseline -------------------------
\* HardwareBaseline for TLC: interchangeable passwords.
EXTENDS HardwareBaseline, TLC

MCSymmetry == Permutations(Password)
=============================================================================
