--------------------------- MODULE MCDevicePolicy ---------------------------
(* Small instances of DevicePolicy for TLC. *)
EXTENDS DevicePolicy, TLC

CONSTANTS ann, bob, install, strict

MCSymmetry == Permutations({ann, bob})

\* One payload restricts everything, the other nothing.
MCPayloads ==
    {[rules |-> install, bluetooth |-> TRUE, terminal |-> TRUE, chrome |-> strict],
     [rules |-> NoRules, bluetooth |-> FALSE, terminal |-> FALSE, chrome |-> strict]}
=============================================================================
