--------------------------- MODULE MCExecMonitor ---------------------------
(* A small instance of ExecMonitor for TLC: a game under two nested patterns, a   *)
(* tool under the wider one, and a shell whose script is by a relative name the      *)
(* game in one directory and the tool in the other.                                *)
EXTENDS ExecMonitor, TLC

CONSTANTS game, tool, bash, home, games, play, d1, d2

MCSymmetry == Permutations(Pids)

MCUnder  == [p \in Patterns |-> IF p = games THEN {game} ELSE {game, tool}]
MCLength == [p \in Patterns |-> IF p = games THEN 2 ELSE 1]
MCJoined == [at \in Relative \X Dirs |-> IF at[2] = d1 THEN game ELSE tool]

MCImages ==
    {[exe |-> game, args |-> Bare],
     [exe |-> bash, args |-> play], [exe |-> bash, args |-> Bare]}

\* The narrower pattern blocks inside the wider, by the first of its two rules, or allows
\* again where an interpreter has an exact rule of its own.
MCLists ==
    {<<[target |-> home, preset |-> "complain"], [target |-> games, preset |-> "blocked"],
       [target |-> games, preset |-> "complain"]>>,
     <<[target |-> bash, preset |-> "complain"], [target |-> home, preset |-> "blocked"],
       [target |-> games, preset |-> "complain"]>>}

MCOverlays == {[approved |-> {bash}, blocked |-> {home, bash}]}
=============================================================================
