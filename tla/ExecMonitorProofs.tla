-------------------------- MODULE ExecMonitorProofs --------------------------
(***************************************************************************)
(* Proofs about ExecMonitor, for every set of pids, users, files, patterns   *)
(* and rules, and for any number of events, lost events and changes.         *)
(***************************************************************************)
EXTENDS ExecMonitor, TLAPS

-----------------------------------------------------------------------------
(* Rules *)

\* The rule that forbids is the one that decides: it comes before every other
\* rule on the file.
LEMMA PatternDecides ==
    ASSUME TypeOK, NEW u \in Users, NEW file \in Files, PatternForbids(u, file)
    PROVE  PathRule(u, file) # None /\ PathRule(u, file).preset = "blocked"
<1> DEFINE hits == PathRules(u, file)
           Reach(i) == Length[rules[u][i].target]
           Before(i, j) == Reach(i) > Reach(j) \/ (Reach(i) = Reach(j) /\ i < j)
<1>1. rules[u] \in Seq(Rule)
  BY ListsAssumption DEF TypeOK
<1>2. \A i \in hits : /\ i \in Nat /\ rules[u][i] \in Rule /\ rules[u][i].target \in Patterns
                      /\ Reach(i) \in Nat /\ file \in Under[rules[u][i].target]
  BY <1>1, CoverAssumption DEF PathRules, Covers
<1>3. PICK i \in hits :
        /\ rules[u][i].preset = "blocked"
        /\ \A j \in hits :
               /\ Under[rules[u][i].target] \subseteq Under[rules[u][j].target]
               /\ rules[u][j].target = rules[u][i].target => i <= j
  BY DEF PatternForbids
<1>4. ASSUME NEW j \in hits \ {i} PROVE Before(i, j)
  <2>1. CASE rules[u][j].target = rules[u][i].target
    BY <1>2, <1>3, <2>1
  <2>2. CASE rules[u][j].target # rules[u][i].target
    <3>1. Reach(i) > Reach(j)
      BY <1>2, <1>3, <2>2, NestAssumption
    <3> QED BY <3>1
  <2> QED BY <2>1, <2>2
<1>5. \A k \in hits : (\A j \in hits \ {k} : Before(k, j)) => k = i
  <2>1. SUFFICES ASSUME NEW k \in hits, k # i, Before(k, i)
                 PROVE  FALSE
    OBVIOUS
  <2> QED BY <1>2, <1>4, <2>1
<1>6. (CHOOSE k \in hits : \A j \in hits \ {k} : Before(k, j)) = i
  <2> HIDE DEF hits, Before
  <2> QED BY <1>4, <1>5
<1>7. PathRule(u, file) = rules[u][i]
  BY <1>6 DEF PathRule
<1> QED BY <1>2, <1>3, <1>7, ExecAbsentAssumption

LEMMA DecisionForbids ==
    ASSUME TypeOK, NEW u \in Users, NEW exe \in Files, NEW script, RulesForbid(u, exe, script)
    PROVE  Decision(u, exe, script) = "blocked"
<1>1. CASE PatternForbids(u, exe)
  BY <1>1, PatternDecides DEF Decision
<1>2. CASE /\ exe \in Interpreters /\ script \in Files /\ PatternForbids(u, script) /\ ~Exempt(u, exe)
  <2>1. PathRule(u, exe) = None
    BY <1>2 DEF Exempt, PathRule
  <2>2. ~\E rule \in ToSet(rules[u]) : rule = [target |-> exe, preset |-> "complain"]
    BY <1>2 DEF Exempt, ToSet
  <2>3. PathRule(u, script) # None /\ PathRule(u, script).preset = "blocked"
    BY <1>2, PatternDecides
  <2> QED BY <1>2, <2>1, <2>2, <2>3 DEF Decision
<1> QED BY <1>1, <1>2 DEF RulesForbid

LEMMA OverlayDecides ==
    ASSUME NEW u, NEW exe, OverlayForbids(u, exe)
    PROVE  OverlayBlocks(u, exe)
BY DEF OverlayForbids, OverlayBlocks, EffectiveBlocked

-----------------------------------------------------------------------------
(* Events *)

LEMMA Reports ==
    ASSUME TypeOK, NEW what \in {"exec", "exit"}, NEW p \in Pids, Report(what, p)
    PROVE  /\ queue' \in Seq(Event) /\ missed' \in SUBSET Pids /\ missed \subseteq missed'
           /\ \A w, q : Awaits(w, q)' <=> (Awaits(w, q) \/ (queue' # queue /\ w = what /\ q = p))
           /\ queue' = queue => p \in missed'
           /\ \A q \in Pids : q \in missed' => q \in missed \/ q = p
<1> DEFINE e == [what |-> what, pid |-> p]
<1>1. e \in Event
  BY DEF Event
<1>2. CASE queue' = Append(queue, e) /\ UNCHANGED missed
  <2>1. queue' \in Seq(Event) /\ queue' # queue
    BY <1>1, <1>2 DEF TypeOK
  <2>2. /\ DOMAIN queue' = DOMAIN queue \cup {Len(queue) + 1}
        /\ \A i \in DOMAIN queue : queue'[i] = queue[i]
        /\ queue'[Len(queue) + 1] = e
    BY <1>1, <1>2 DEF TypeOK
  <2>3. ASSUME NEW w, NEW q
        PROVE  Awaits(w, q)' <=> (Awaits(w, q) \/ (w = what /\ q = p))
    <3>1. Awaits(w, q)' <=> \E i \in DOMAIN queue' : queue'[i] = [what |-> w, pid |-> q]
      BY DEF Awaits
    <3>2. Awaits(w, q) <=> \E i \in DOMAIN queue : queue[i] = [what |-> w, pid |-> q]
      BY DEF Awaits
    <3>3. e = [what |-> w, pid |-> q] <=> (w = what /\ q = p)
      OBVIOUS
    <3> HIDE DEF e
    <3> QED BY <2>2, <3>1, <3>2, <3>3
  <2> QED BY <1>2, <2>1, <2>3 DEF TypeOK
<1>3. CASE missed' = missed \cup {p} /\ UNCHANGED queue
  BY <1>3 DEF TypeOK, Awaits
<1> QED BY <1>2, <1>3 DEF Report

LEMMA Received ==
    ASSUME TypeOK, queue # <<>>, queue' = Tail(queue)
    PROVE  /\ queue' \in Seq(Event) /\ Head(queue) \in Event
           /\ \A w, q : Awaits(w, q)' => Awaits(w, q)
           /\ \A w, q : Awaits(w, q) => Awaits(w, q)' \/ Head(queue) = [what |-> w, pid |-> q]
<1>1. queue \in Seq(Event)
  BY DEF TypeOK
<1>2. queue' \in Seq(Event) /\ Head(queue) \in Event /\ Head(queue) = queue[1]
  BY <1>1
<1>3. /\ \A i \in DOMAIN queue' : i + 1 \in DOMAIN queue /\ queue'[i] = queue[i + 1]
      /\ \A i \in DOMAIN queue : i = 1 \/ (i - 1 \in DOMAIN queue' /\ queue'[i - 1] = queue[i])
  BY <1>1
<1>4. \A w, q : Awaits(w, q)' <=> \E i \in DOMAIN queue' : queue'[i] = [what |-> w, pid |-> q]
  BY DEF Awaits
<1>5. \A w, q : Awaits(w, q) <=> \E i \in DOMAIN queue : queue[i] = [what |-> w, pid |-> q]
  BY DEF Awaits
<1>6. \A w, q : Awaits(w, q)' => Awaits(w, q)
  <2>1. SUFFICES ASSUME NEW w, NEW q, Awaits(w, q)'
                 PROVE  Awaits(w, q)
    OBVIOUS
  <2>2. PICK i \in DOMAIN queue' : queue'[i] = [what |-> w, pid |-> q]
    BY <1>4, <2>1
  <2>3. i + 1 \in DOMAIN queue /\ queue[i + 1] = [what |-> w, pid |-> q]
    BY <1>3, <2>2
  <2> QED BY <1>5, <2>3
<1>7. \A w, q : Awaits(w, q) => Awaits(w, q)' \/ Head(queue) = [what |-> w, pid |-> q]
  BY <1>2, <1>3, <1>4, <1>5
<1> QED BY <1>2, <1>6, <1>7

-----------------------------------------------------------------------------
(* The task *)

LEMMA AtCleanup ==
    ASSUME Cleanup
    PROVE  hand' = [stage |-> "cleanup", pid |-> None, user |-> None, exe |-> None, args |-> Bare, script |-> None]
BY DEF Cleanup, Idle

LEMMA AtStage ==
    ASSUME hand \in Hand, NEW stage, Goto(stage)
    PROVE  hand' = [stage |-> stage, pid |-> hand.pid, user |-> hand.user, exe |-> hand.exe,
                    args |-> hand.args, script |-> hand.script]
BY DEF Goto, Hand

\* What a step of the task does to its hand.
LEMMA HandSteps ==
    ASSUME hand \in Hand
    PROVE  /\ ReceiveExec =>
                 hand' = [stage |-> "user", pid |-> Head(queue).pid, user |-> None, exe |-> None, args |-> Bare,
                          script |-> None]
           /\ ReadUser /\ proc[hand.pid] # None /\ proc[hand.pid].user # None =>
                 hand' = [stage |-> "exe", pid |-> hand.pid, user |-> proc[hand.pid].user,
                          exe |-> hand.exe, args |-> hand.args, script |-> hand.script]
           /\ ReadExe /\ proc[hand.pid] # None =>
                 hand' = [stage |-> "args", pid |-> hand.pid, user |-> hand.user,
                          exe |-> proc[hand.pid].exe, args |-> hand.args, script |-> hand.script]
           /\ ReadArgs =>
                 hand' = [stage |-> "cwd", pid |-> hand.pid, user |-> hand.user, exe |-> hand.exe,
                          args |-> IF proc[hand.pid] # None THEN proc[hand.pid].args ELSE Bare,
                          script |-> hand.script]
           /\ ReadCwd =>
                 hand' = [stage |-> "overlay", pid |-> hand.pid, user |-> hand.user, exe |-> hand.exe,
                          args |-> hand.args,
                          script |-> Resolve(hand.args, IF proc[hand.pid] # None THEN proc[hand.pid].cwd ELSE None)]
<1>1. ReceiveExec =>
         hand' = [stage |-> "user", pid |-> Head(queue).pid, user |-> None, exe |-> None, args |-> Bare,
                          script |-> None]
  BY DEF ReceiveExec, Idle
<1>2. ReadUser /\ proc[hand.pid] # None /\ proc[hand.pid].user # None =>
         hand' = [stage |-> "exe", pid |-> hand.pid, user |-> proc[hand.pid].user,
                  exe |-> hand.exe, args |-> hand.args, script |-> hand.script]
  BY DEF ReadUser, Hand
<1>3. ReadExe /\ proc[hand.pid] # None =>
         hand' = [stage |-> "args", pid |-> hand.pid, user |-> hand.user,
                  exe |-> proc[hand.pid].exe, args |-> hand.args, script |-> hand.script]
  BY DEF ReadExe, Hand
<1>4. ReadArgs =>
         hand' = [stage |-> "cwd", pid |-> hand.pid, user |-> hand.user, exe |-> hand.exe,
                  args |-> IF proc[hand.pid] # None THEN proc[hand.pid].args ELSE Bare,
                          script |-> hand.script]
  BY DEF ReadArgs, Hand
<1>5. ReadCwd =>
         hand' = [stage |-> "overlay", pid |-> hand.pid, user |-> hand.user, exe |-> hand.exe,
                  args |-> hand.args,
                  script |-> Resolve(hand.args, IF proc[hand.pid] # None THEN proc[hand.pid].cwd ELSE None)]
  BY DEF ReadCwd, Hand
<1> QED BY <1>1, <1>2, <1>3, <1>4, <1>5, Zenon

-----------------------------------------------------------------------------
(* Types *)

HostTyped ==
    /\ proc' \in [Pids -> Process \cup {None}]
    /\ queue' \in Seq(Event)
    /\ missed' \subseteq Pids
    /\ due' \subseteq {p \in Pids : proc'[p] # None} /\ moved' \subseteq Pids

LEMMA ScriptsAreFiles ==
    ASSUME NEW args, NEW dir \in Dirs \cup {None}
    PROVE  Resolve(args, dir) \in Files \cup {None}
BY JoinAssumption DEF Resolve

LEMMA HostTypes ==
    ASSUME TypeOK, Host \/ \E p \in Pids : Kill(p)
    PROVE  HostTyped
<1>1. ASSUME NEW p \in Pids, NEW u \in Users \cup {None}, NEW image \in Images, NEW dir \in Dirs,
             Exec(p, u, image, dir)
      PROVE  HostTyped
  <2>1. image.exe \in Files /\ image.args \in Args /\ Resolve(image.args, dir) \in Files \cup {None}
    BY ImagesAssumption, ScriptsAreFiles DEF Image
  <2>2. PICK x \in Process : proc' = [proc EXCEPT ![p] = x]
    <3> DEFINE before == IF proc[p] = None THEN {} ELSE proc[p].ran
    <3>1. before \subseteq Files
      BY DEF TypeOK, Process
    <3>2. [user |-> u, exe |-> image.exe, args |-> image.args, cwd |-> dir,
           script |-> Resolve(image.args, dir), ran |-> before \cup {image.exe}] \in Process
      BY <2>1, <3>1 DEF Process
    <3> QED BY <1>1, <3>2 DEF Exec
  <2>3. /\ proc' \in [Pids -> Process \cup {None}]
        /\ {q \in Pids : proc[q] # None} \cup {p} \subseteq {q \in Pids : proc'[q] # None}
    BY <2>2, ExecAbsentAssumption DEF TypeOK
  <2>4. queue' \in Seq(Event) /\ missed' \subseteq Pids
    BY <1>1, Reports DEF Exec
  <2>5. due' \subseteq due \cup {p} /\ moved' \subseteq moved
    BY <1>1 DEF Exec
  <2> QED BY <2>3, <2>4, <2>5 DEF HostTyped, TypeOK
<1>2. ASSUME NEW p \in Pids, NEW q \in Pids, Fork(p, q)
      PROVE  HostTyped
  <2>1. PICK x \in Process : proc' = [proc EXCEPT ![q] = x]
    <3>1. proc[p] \in Process /\ {proc[p].exe} \in SUBSET Files
      BY <1>2 DEF Fork, TypeOK, Process
    <3>2. [proc[p] EXCEPT !.ran = {proc[p].exe}] \in Process
      BY <3>1 DEF Process
    <3> QED BY <1>2, <3>2 DEF Fork
  <2>2. proc' \in [Pids -> Process \cup {None}] /\ \A r \in Pids : proc[r] # None => proc'[r] # None
    <3>1. x # None /\ proc \in [Pids -> Process \cup {None}]
      BY ExecAbsentAssumption DEF TypeOK
    <3> QED BY <2>1, <3>1
  <2> QED BY <1>2, <2>2 DEF Fork, HostTyped, TypeOK
<1>3. ASSUME NEW p \in Pids, Exit(p)
      PROVE  HostTyped
  BY <1>3, Reports DEF Exit, HostTyped, TypeOK
<1>4. ASSUME NEW p \in Pids, ThreadExit(p)
      PROVE  HostTyped
  BY <1>4, Reports DEF ThreadExit, HostTyped, TypeOK
<1>5. ASSUME NEW p \in Pids, NEW dir \in Dirs, Chdir(p, dir)
      PROVE  HostTyped
  <2>1. [proc[p] EXCEPT !.cwd = dir] \in Process
    BY <1>5 DEF Chdir, TypeOK, Process
  <2>2. proc' = [proc EXCEPT ![p] = [proc[p] EXCEPT !.cwd = dir]]
    BY <1>5 DEF Chdir
  <2>3. proc' \in [Pids -> Process \cup {None}] /\ \A r \in Pids : proc[r] # None => proc'[r] # None
    BY <2>1, <2>2, ExecAbsentAssumption DEF TypeOK
  <2>4. moved' \subseteq moved \cup {p} /\ UNCHANGED <<queue, missed, due>>
    BY <1>5 DEF Chdir
  <2> QED BY <2>3, <2>4 DEF HostTyped, TypeOK
<1>6. ASSUME NEW p \in Pids, Kill(p)
      PROVE  HostTyped
  <2>1. queue' \in Seq(Event) /\ missed' \subseteq Pids
    <3>1. CASE Report("exit", p)
      BY <3>1, Reports
    <3>2. CASE UNCHANGED <<queue, missed>>
      BY <3>2 DEF TypeOK
    <3> QED BY <1>6, <3>1, <3>2 DEF Kill
  <2> QED BY <1>6, <2>1 DEF Kill, HostTyped, TypeOK
<1> QED BY <1>1, <1>2, <1>3, <1>4, <1>5, <1>6 DEF Host

HandTyped ==
    /\ hand' \in Hand
    /\ hand'.stage \notin {"idle", "cleanup"} => hand'.pid \in Pids
    /\ hand'.stage \in {"args", "cwd", "overlay", "terminal", "rules", "track"} =>
           hand'.user \in Users /\ hand'.exe \in Files
    /\ AtWork'

LEMMA HandTypes ==
    ASSUME TypeOK, AtWork, Monitor \/ UNCHANGED hand
    PROVE  HandTyped
<1> USE DEF HandTyped
<1>1. hand \in Hand /\ None \notin Pids
  BY ExecAbsentAssumption DEF TypeOK
<1>2. CASE UNCHANGED hand
  BY <1>2 DEF TypeOK, AtWork
<1>3. CASE hand' = Idle \/ Cleanup
  BY <1>3, AtCleanup DEF Idle, AtWork, Hand, Stages, Args
<1>4. CASE ReceiveExec
  <2>1. Head(queue).pid \in Pids
    <3>1. queue \in Seq(Event) /\ queue # <<>>
      BY <1>4 DEF ReceiveExec, TypeOK
    <3>2. Head(queue) \in Event
      BY <3>1
    <3> QED BY <3>2 DEF Event
  <2> QED BY <1>1, <1>4, <2>1, HandSteps DEF AtWork, Hand, Stages, Args
<1>5. CASE ReadUser /\ proc[hand.pid] # None /\ proc[hand.pid].user # None
  <2>1. hand.pid \in Pids
    BY <1>5 DEF ReadUser, At, TypeOK
  <2>2. proc[hand.pid].user \in Users
    BY <1>5, <2>1 DEF TypeOK, Process
  <2>3. hand' = [stage |-> "exe", pid |-> hand.pid, user |-> proc[hand.pid].user,
                 exe |-> hand.exe, args |-> hand.args, script |-> hand.script]
    BY <1>1, <1>5, HandSteps
  <2> QED BY <1>1, <2>1, <2>2, <2>3 DEF AtWork, Hand, Stages
<1>6. CASE ReadExe /\ proc[hand.pid] # None
  <2>1. hand.pid \in Pids /\ hand.user \in Users
    BY <1>6 DEF ReadExe, At, TypeOK, AtWork
  <2>2. proc[hand.pid].exe \in Files
    BY <1>6, <2>1 DEF TypeOK, Process
  <2>3. hand' = [stage |-> "args", pid |-> hand.pid, user |-> hand.user,
                 exe |-> proc[hand.pid].exe, args |-> hand.args, script |-> hand.script]
    BY <1>1, <1>6, HandSteps
  <2> QED BY <1>1, <2>1, <2>2, <2>3 DEF AtWork, Hand, Stages
<1>7. CASE ReadArgs
  <2>1. hand.pid \in Pids /\ hand.user \in Users /\ hand.exe \in Files
    BY <1>7 DEF ReadArgs, At, TypeOK
  <2>2. (IF proc[hand.pid] # None THEN proc[hand.pid].args ELSE Bare) \in Args
    BY <2>1 DEF TypeOK, Process, Args
  <2> DEFINE args == IF proc[hand.pid] # None THEN proc[hand.pid].args ELSE Bare
  <2>3. hand' = [stage |-> "cwd", pid |-> hand.pid, user |-> hand.user, exe |-> hand.exe, args |-> args,
                 script |-> hand.script]
    BY <1>1, <1>7, HandSteps
  <2> HIDE DEF args
  <2> QED BY <1>1, <2>1, <2>2, <2>3 DEF AtWork, Hand, Stages, args
<1>8. CASE ReadCwd
  <2> DEFINE cwd    == IF proc[hand.pid] # None THEN proc[hand.pid].cwd ELSE None
             script == Resolve(hand.args, cwd)
  <2>1. hand.pid \in Pids /\ hand.user \in Users /\ hand.exe \in Files /\ hand.args \in Args
    BY <1>8 DEF ReadCwd, At, TypeOK, Hand
  <2>2. script \in Files \cup {None}
    <3>1. cwd \in Dirs \cup {None}
      BY <2>1 DEF TypeOK, Process
    <3> HIDE DEF cwd
    <3> QED BY <3>1, ScriptsAreFiles
  <2>3. hand' = [stage |-> "overlay", pid |-> hand.pid, user |-> hand.user, exe |-> hand.exe,
                 args |-> hand.args, script |-> script]
    BY <1>1, <1>8, HandSteps
  <2> HIDE DEF script
  <2> QED BY <1>1, <2>1, <2>2, <2>3 DEF AtWork, Hand, Stages
<1>9. ASSUME NEW stage \in {"terminal", "rules", "track"}, Goto(stage),
             At("overlay") \/ At("terminal") \/ At("rules")
      PROVE  HandTyped
  <2>1. /\ hand.pid \in Pids /\ hand.user \in Users /\ hand.exe \in Files
        /\ hand.args \in Args /\ hand.script \in Files \cup {None}
    BY <1>9 DEF At, TypeOK, Hand
  <2>2. hand' = [stage |-> stage, pid |-> hand.pid, user |-> hand.user, exe |-> hand.exe, args |-> hand.args, script |-> hand.script]
    BY <1>1, <1>9, AtStage
  <2> QED BY <1>1, <1>9, <2>1, <2>2 DEF AtWork, Hand, Stages
<1>10. CASE CheckOverlay \/ CheckTerminal \/ CheckRules
  BY <1>9, <1>10 DEF CheckOverlay, CheckTerminal, CheckRules
<1>11. CASE DenyByOverlay \/ DenyTerminal \/ DenyByRule \/ EndOfEvent
  BY <1>3, <1>11 DEF DenyByOverlay, DenyTerminal, DenyByRule, EndOfEvent, Kill
<1>12. CASE ReceiveExit \/ Track
  BY <1>3, <1>12 DEF ReceiveExit, Track
<1>13. CASE ReadUser \/ ReadExe
  BY <1>3, <1>5, <1>6, <1>13 DEF ReadUser, ReadExe
<1> QED BY <1>2, <1>4, <1>7, <1>10, <1>11, <1>12, <1>13, <1>8 DEF Monitor

LEMMA TypeStep ==
    ASSUME TypeOK, AtWork, [Next]_vars
    PROVE  TypeOK' /\ AtWork'
<1> USE DEF hostVars, policyVars
<1>1. CASE Host
  <2>1. HostTyped /\ HandTyped /\ UNCHANGED <<policyVars, hand, tracked, cooling>>
        /\ events' \in 0..MaxEvents
    <3>1. UNCHANGED <<policyVars, hand, tracked, cooling>> /\ Acts
      BY <1>1 DEF Host, Exec, Chdir, Fork, Exit, ThreadExit
    <3>2. events' \in 0..MaxEvents
      BY <3>1, ExecBoundAssumption DEF Acts, TypeOK
    <3> QED BY <1>1, <3>1, <3>2, HostTypes, HandTypes
  <2> QED BY <2>1 DEF HostTyped, HandTyped, TypeOK
<1>2. CASE Monitor
  <2>1. HandTyped
    BY <1>2, HandTypes
  <2>2. CASE DenyByOverlay \/ DenyTerminal \/ DenyByRule
    <3>1. hand.pid \in Pids /\ hand.exe \in Files /\ Kill(hand.pid)
      BY <2>2 DEF DenyByOverlay, DenyTerminal, DenyByRule, At, TypeOK
    <3>2. HostTyped /\ UNCHANGED <<events, policyVars, tracked>>
      BY <3>1, HostTypes DEF Kill
    <3>3. cooling' \subseteq Files
      BY <2>2, <3>1 DEF DenyByOverlay, DenyTerminal, DenyByRule, TypeOK
    <3> QED BY <2>1, <3>2, <3>3 DEF HostTyped, HandTyped, TypeOK
  <2>3. CASE ReceiveExec \/ ReceiveExit
    <3>1. queue' \in Seq(Event) /\ Head(queue).pid \in Pids
      BY <2>3, Received DEF ReceiveExec, ReceiveExit, Event
    <3>2. tracked' \in [Pids -> Usage \cup {None}]
      BY <2>3, <3>1 DEF ReceiveExec, ReceiveExit, TypeOK
    <3> QED BY <2>1, <2>3, <3>1, <3>2 DEF ReceiveExec, ReceiveExit, HandTyped, TypeOK
  <2>4. CASE Track \/ EndOfEvent
    <3>1. tracked' \in [Pids -> Usage \cup {None}]
      <4>1. CASE Track
        <5>1. hand.pid \in Pids /\ [user |-> hand.user, exe |-> hand.exe] \in Usage
          BY <4>1 DEF Track, At, TypeOK, Usage
        <5> QED BY <4>1, <5>1 DEF Track, TypeOK
      <4>2. CASE EndOfEvent
        BY <4>2 DEF EndOfEvent, TypeOK
      <4> QED BY <2>4, <4>1, <4>2
    <3> QED BY <2>1, <2>4, <3>1 DEF Track, EndOfEvent, HandTyped, TypeOK
  <2>5. CASE ReadUser \/ ReadExe \/ ReadArgs \/ ReadCwd \/ CheckOverlay \/ CheckTerminal \/ CheckRules
    <3>1. UNCHANGED <<hostVars, policyVars, tracked, cooling>>
      BY <2>5 DEF ReadUser, ReadExe, ReadArgs, ReadCwd, CheckOverlay, CheckTerminal, CheckRules
    <3> QED BY <2>1, <3>1 DEF HandTyped, TypeOK
  <2> QED BY <1>2, <2>2, <2>3, <2>4, <2>5 DEF Monitor
<1>3. CASE Policies
  <2>1. UNCHANGED <<hand, tracked, proc, queue, missed, moved, events>> /\ due' \subseteq due
    BY <1>3 DEF Policies, Sync, SetTerminal, Elapse
  <2>2. HandTyped
    BY <2>1, HandTypes
  <2>3. /\ rules' \in [Users -> Lists] /\ saved' \in [Users -> Lists]
        /\ overlay' \in [Users -> Overlays \cup {None}] /\ terminal' \in Users \cup {None}
    BY <1>3 DEF Policies, Sync, SetTerminal, Elapse, TypeOK
  <2>4. cooling' \subseteq Files
    BY <1>3 DEF Policies, Sync, SetTerminal, Elapse, TypeOK
  <2>5. changes' \in 0..MaxChanges
    BY <1>3, ExecBoundAssumption DEF Policies, Sync, SetTerminal, Elapse, Change, TypeOK
  <2> QED BY <2>1, <2>2, <2>3, <2>4, <2>5 DEF HandTyped, TypeOK
<1>4. CASE UNCHANGED vars
  BY <1>4 DEF vars, TypeOK, AtWork
<1> QED BY <1>1, <1>2, <1>3, <1>4 DEF Next

-----------------------------------------------------------------------------
(* What the host does to a process the task knows *)

HostSteps == Host \/ \E p \in Pids : Kill(p)

\* Unless its end is reported or the report lost, a process stays the one it is,
\* and of the user it is of.
LEMMA ProcessGoesOn ==
    ASSUME TypeOK, HostSteps, NEW p \in Pids, p \notin missed', ~Awaits("exit", p)'
    PROVE  /\ p \notin missed /\ ~Awaits("exit", p)
           /\ proc[p] # None /\ proc[p].user # None =>
                 proc'[p] # None /\ proc'[p].user = proc[p].user /\ proc[p].ran \subseteq proc'[p].ran
<1> DEFINE Goal == /\ p \notin missed /\ ~Awaits("exit", p)
                   /\ proc[p] # None /\ proc[p].user # None =>
                         proc'[p] # None /\ proc'[p].user = proc[p].user /\ proc[p].ran \subseteq proc'[p].ran
<1>0. None \notin Process
  BY ExecAbsentAssumption
<1>1. ASSUME NEW q \in Pids, NEW u \in Users \cup {None}, NEW image \in Images, NEW dir \in Dirs,
             Exec(q, u, image, dir)
      PROVE  Goal
  <2>1. p \notin missed /\ ~Awaits("exit", p)
    BY <1>1, Reports DEF Exec
  <2> DEFINE x == [user |-> u, exe |-> image.exe, args |-> image.args, cwd |-> dir,
                   script |-> Resolve(image.args, dir),
                   ran |-> (IF proc[q] = None THEN {} ELSE proc[q].ran) \cup {image.exe}]
  <2>2. /\ proc' = [proc EXCEPT ![q] = x]
        /\ proc[q] # None /\ proc[q].user # None => u = proc[q].user
    BY <1>1 DEF Exec
  <2>3. x # None
    <3>1. image.exe \in Files /\ image.args \in Args /\ Resolve(image.args, dir) \in Files \cup {None}
      BY ImagesAssumption, ScriptsAreFiles DEF Image
    <3>2. (IF proc[q] = None THEN {} ELSE proc[q].ran) \subseteq Files
      BY DEF TypeOK, Process
    <3>3. x \in Process
      BY <3>1, <3>2 DEF Process
    <3> QED BY <1>0, <3>3
  <2>4. CASE q = p
    BY <2>1, <2>2, <2>3, <2>4 DEF TypeOK
  <2>5. CASE q # p
    BY <2>1, <2>2, <2>5 DEF TypeOK
  <2> QED BY <2>4, <2>5
<1>2. ASSUME NEW q \in Pids, NEW r \in Pids, Fork(q, r)
      PROVE  Goal
  BY <1>2 DEF Fork, TypeOK, Awaits
<1>3. ASSUME NEW q \in Pids, Exit(q)
      PROVE  Goal
  BY <1>3, Reports DEF Exit, TypeOK
<1>4. ASSUME NEW q \in Pids, ThreadExit(q)
      PROVE  Goal
  BY <1>4, Reports DEF ThreadExit
<1>5. ASSUME NEW q \in Pids, NEW dir \in Dirs, Chdir(q, dir)
      PROVE  Goal
  <2>1. UNCHANGED <<queue, missed>> /\ proc' = [proc EXCEPT ![q] = [proc[q] EXCEPT !.cwd = dir]]
    BY <1>5 DEF Chdir
  <2>2. proc[q] \in Process
    BY <1>5 DEF Chdir, TypeOK
  <2>3. /\ [proc[q] EXCEPT !.cwd = dir] # None
        /\ [proc[q] EXCEPT !.cwd = dir].user = proc[q].user
        /\ [proc[q] EXCEPT !.cwd = dir].ran = proc[q].ran
    <3>1. [proc[q] EXCEPT !.cwd = dir] \in Process
      BY <2>2 DEF Process
    <3> QED BY <1>0, <2>2, <3>1 DEF Process
  <2>4. proc'[p] = IF p = q THEN [proc[q] EXCEPT !.cwd = dir] ELSE proc[p]
    BY <2>1 DEF TypeOK
  <2> QED BY <2>1, <2>3, <2>4 DEF Awaits
<1>6. ASSUME NEW q \in Pids, Kill(q)
      PROVE  Goal
  <2>1. CASE proc[q] # None /\ Report("exit", q)
    BY <1>6, <2>1, Reports DEF Kill, TypeOK
  <2>2. CASE proc[q] = None /\ UNCHANGED <<queue, missed>>
    BY <1>6, <2>2 DEF Kill, TypeOK, Awaits
  <2> QED BY <1>6, <2>1, <2>2 DEF Kill
<1> QED BY <1>1, <1>2, <1>3, <1>4, <1>5, <1>6 DEF HostSteps, Host

\* A process whose last exec was reported and handled is the same but for its
\* directory.
LEMMA ProcessIsStill ==
    ASSUME TypeOK, HostSteps, NEW p \in due', ~Awaits("exec", p)'
    PROVE  /\ p \in due /\ ~Awaits("exec", p)
           /\ proc'[p].user = proc[p].user /\ proc'[p].exe = proc[p].exe
           /\ proc'[p].args = proc[p].args /\ proc'[p].script = proc[p].script
           /\ p \in moved => p \in moved'
<1> DEFINE Goal == /\ p \in due /\ ~Awaits("exec", p)
                   /\ proc'[p].user = proc[p].user /\ proc'[p].exe = proc[p].exe
                   /\ proc'[p].args = proc[p].args /\ proc'[p].script = proc[p].script
                   /\ p \in moved => p \in moved'
<1>0. due \subseteq Pids /\ \A q \in due : proc[q] # None
  BY DEF TypeOK
<1>1. ASSUME NEW q \in Pids, NEW u \in Users \cup {None}, NEW image \in Images, NEW dir \in Dirs,
             Exec(q, u, image, dir)
      PROVE  Goal
  <2>1. p # q /\ p \in due /\ ~Awaits("exec", p)
    BY <1>1, Reports DEF Exec
  <2>2. proc'[p] = proc[p]
    BY <1>0, <1>1, <2>1 DEF Exec, TypeOK
  <2> QED BY <1>1, <2>1, <2>2 DEF Exec
<1>2. ASSUME NEW q \in Pids, NEW r \in Pids, Fork(q, r)
      PROVE  Goal
  BY <1>0, <1>2 DEF Fork, TypeOK, Awaits
<1>3. ASSUME NEW q \in Pids, Exit(q)
      PROVE  Goal
  BY <1>0, <1>3, Reports DEF Exit, TypeOK
<1>4. ASSUME NEW q \in Pids, ThreadExit(q)
      PROVE  Goal
  BY <1>4, Reports DEF ThreadExit
<1>5. ASSUME NEW q \in Pids, NEW dir \in Dirs, Chdir(q, dir)
      PROVE  Goal
  <2>1. /\ UNCHANGED <<queue, due>> /\ moved \subseteq moved'
        /\ proc' = [proc EXCEPT ![q] = [proc[q] EXCEPT !.cwd = dir]]
    BY <1>5 DEF Chdir
  <2>2. proc[q] \in Process
    BY <1>5 DEF Chdir, TypeOK
  <2>3. proc'[p] = IF p = q THEN [proc[q] EXCEPT !.cwd = dir] ELSE proc[p]
    BY <1>0, <2>1 DEF TypeOK
  <2> QED BY <2>1, <2>2, <2>3 DEF Awaits, Process
<1>6. ASSUME NEW q \in Pids, Kill(q)
      PROVE  Goal
  <2>1. CASE Report("exit", q)
    BY <1>0, <1>6, <2>1, Reports DEF Kill, TypeOK
  <2>2. CASE UNCHANGED <<queue, missed>>
    BY <1>0, <1>6, <2>2 DEF Kill, TypeOK, Awaits
  <2> QED BY <1>6, <2>1, <2>2 DEF Kill
<1> QED BY <1>1, <1>2, <1>3, <1>4, <1>5, <1>6 DEF HostSteps, Host

LEMMA RunsStep ==
    ASSUME TypeOK, RunsWhatItRan, [Next]_vars
    PROVE  RunsWhatItRan'
<1>1. ASSUME NEW q \in Pids, NEW u \in Users \cup {None}, NEW image \in Images, NEW dir \in Dirs,
             Exec(q, u, image, dir)
      PROVE  RunsWhatItRan'
  BY <1>1 DEF Exec, RunsWhatItRan, TypeOK
<1>2. ASSUME NEW q \in Pids, NEW r \in Pids, Fork(q, r)
      PROVE  RunsWhatItRan'
  <2>1. [proc[q] EXCEPT !.ran = {proc[q].exe}].exe = proc[q].exe
        /\ [proc[q] EXCEPT !.ran = {proc[q].exe}].ran = {proc[q].exe}
    BY <1>2 DEF Fork, TypeOK, Process
  <2> QED BY <1>2, <2>1 DEF Fork, RunsWhatItRan, TypeOK
<1>3. ASSUME NEW q \in Pids, NEW dir \in Dirs, Chdir(q, dir)
      PROVE  RunsWhatItRan'
  <2>1. [proc[q] EXCEPT !.cwd = dir].exe = proc[q].exe /\ [proc[q] EXCEPT !.cwd = dir].ran = proc[q].ran
    BY <1>3 DEF Chdir, TypeOK, Process
  <2>2. proc' = [proc EXCEPT ![q] = [proc[q] EXCEPT !.cwd = dir]] /\ proc[q] # None
    BY <1>3 DEF Chdir
  <2> QED BY <2>1, <2>2 DEF RunsWhatItRan, TypeOK
<1>4. ASSUME NEW q \in Pids, Exit(q) \/ Kill(q)
      PROVE  RunsWhatItRan'
  BY <1>4 DEF Exit, Kill, RunsWhatItRan, TypeOK
<1>5. CASE UNCHANGED proc
  BY <1>5 DEF RunsWhatItRan
<1>6. DenyByOverlay \/ DenyTerminal \/ DenyByRule => \E q \in Pids : Kill(q)
  BY DEF DenyByOverlay, DenyTerminal, DenyByRule, At, TypeOK
<1>7. \/ UNCHANGED proc \/ \E q \in Pids : Kill(q) \/ Exit(q)
      \/ \E p, q \in Pids : Fork(p, q)
      \/ \E p \in Pids, dir \in Dirs : Chdir(p, dir)
      \/ \E p \in Pids, u \in Users \cup {None}, image \in Images, dir \in Dirs : Exec(p, u, image, dir)
  BY <1>6 DEF Next, Host, Monitor, Policies, ThreadExit, ReceiveExec, ReceiveExit, ReadUser, ReadExe,
     ReadArgs, ReadCwd, CheckOverlay, CheckTerminal, CheckRules, Track, EndOfEvent, Sync, SetTerminal, Elapse,
     vars, hostVars
<1> QED BY <1>1, <1>2, <1>3, <1>4, <1>5, <1>7

Denies == DenyByOverlay \/ DenyTerminal \/ DenyByRule
Looks  == ReceiveExec \/ ReadUser \/ ReadExe \/ ReadArgs \/ ReadCwd
          \/ CheckOverlay \/ CheckTerminal \/ CheckRules

LEMMA StepCases ==
    ASSUME TypeOK, [Next]_vars
    PROVE  \/ Host /\ UNCHANGED <<hand, tracked, policyVars>>
           \/ /\ Denies /\ Kill(hand.pid) /\ hand.pid \in Pids
              /\ hand' = Idle /\ UNCHANGED <<tracked, policyVars>>
           \/ Looks /\ UNCHANGED <<proc, missed, due, moved, tracked, policyVars>>
           \/ ReceiveExit
           \/ Track
           \/ EndOfEvent
           \/ Policies
           \/ UNCHANGED vars
<1>1. Host => UNCHANGED <<hand, tracked, policyVars>>
  BY DEF Host, Exec, Chdir, Fork, Exit, ThreadExit
<1>2. Denies => Kill(hand.pid) /\ hand.pid \in Pids /\ hand' = Idle /\ UNCHANGED <<tracked, policyVars>>
  BY DEF Denies, DenyByOverlay, DenyTerminal, DenyByRule, Kill, At, TypeOK
<1>3. Looks => UNCHANGED <<proc, missed, due, moved, tracked, policyVars>>
  BY DEF Looks, ReceiveExec, ReadUser, ReadExe, ReadArgs, ReadCwd, CheckOverlay, CheckTerminal, CheckRules,
     hostVars
<1> QED BY <1>1, <1>2, <1>3 DEF Next, Monitor, Denies, Looks

-----------------------------------------------------------------------------
(* Usage is charged to the process that ran *)

LEMMA HandLooks ==
    ASSUME TypeOK, AtWork, RunsWhatItRan, HandIsOfThisProcess, Looks, UNCHANGED <<proc, missed>>
    PROVE  HandIsOfThisProcess' /\ \A p \in Pids : Awaits("exit", p)' <=> Awaits("exit", p)
<1>0. hand \in Hand
  BY DEF TypeOK
<1>1. CASE ReceiveExec
  <2>1. hand'.stage = "user"
    BY <1>0, <1>1, HandSteps
  <2>2. \A p \in Pids : Awaits("exit", p)' <=> Awaits("exit", p)
    BY <1>1, Received DEF ReceiveExec
  <2> QED BY <2>1, <2>2 DEF HandIsOfThisProcess
<1>2. CASE UNCHANGED queue
  <2>1. \A p \in Pids : Awaits("exit", p)' <=> Awaits("exit", p)
    BY <1>2 DEF Awaits
  <2>2. SUFFICES ASSUME NEW p \in Pids \ missed, hand'.pid = p, hand'.stage # "user", ~Awaits("exit", p)
                 PROVE  /\ proc[p] # None
                        /\ proc[p].user = hand'.user
                        /\ hand'.stage # "exe" => hand'.exe \in proc[p].ran
    BY <2>1 DEF HandIsOfThisProcess
  <2>3. hand'.stage # "cleanup"
    <3>1. AtWork'
      BY HandTypes DEF Looks, Monitor, HandTyped
    <3> QED BY <2>2, <3>1, ExecAbsentAssumption DEF AtWork
  <2>4. CASE ReadUser
    <3>1. proc[hand.pid] # None /\ proc[hand.pid].user # None
      BY <2>3, <2>4, AtCleanup DEF ReadUser
    <3> QED BY <1>0, <2>2, <2>4, <3>1, HandSteps
  <2>5. CASE ReadExe
    <3>1. proc[hand.pid] # None
      BY <2>3, <2>5, AtCleanup DEF ReadExe
    <3>2. hand' = [stage |-> "args", pid |-> hand.pid, user |-> hand.user,
                   exe |-> proc[hand.pid].exe, args |-> hand.args, script |-> hand.script]
      BY <1>0, <2>5, <3>1, HandSteps
    <3> QED BY <2>2, <2>5, <3>2 DEF ReadExe, At, HandIsOfThisProcess, RunsWhatItRan
  <2>6. CASE ReadArgs \/ ReadCwd
    <3>1. hand'.pid = hand.pid /\ hand'.user = hand.user /\ hand'.exe = hand.exe
      BY <1>0, <2>6, HandSteps
    <3> QED BY <2>2, <2>6, <3>1 DEF ReadArgs, ReadCwd, At, HandIsOfThisProcess
  <2>7. CASE CheckOverlay \/ CheckTerminal \/ CheckRules
    <3>1. PICK stage : Goto(stage)
      BY <2>7 DEF CheckOverlay, CheckTerminal, CheckRules
    <3>2. hand'.pid = hand.pid /\ hand'.user = hand.user /\ hand'.exe = hand.exe
      BY <1>0, <3>1, AtStage
    <3>3. hand.stage \notin {"user", "exe"}
      BY <2>7 DEF CheckOverlay, CheckTerminal, CheckRules, At
    <3> QED BY <2>2, <3>2, <3>3 DEF HandIsOfThisProcess
  <2>8. CASE ReceiveExec
    BY <1>0, <2>2, <2>8, HandSteps
  <2> QED BY <2>4, <2>5, <2>6, <2>7, <2>8 DEF Looks
<1> QED BY <1>1, <1>2 DEF Looks, ReadUser, ReadExe, ReadArgs, ReadCwd, CheckOverlay, CheckTerminal, CheckRules,
           hostVars

LEMMA UsageStep ==
    ASSUME TypeOK, AtWork, RunsWhatItRan, HandIsOfThisProcess, TrackedIsOfThisProcess, [Next]_vars
    PROVE  HandIsOfThisProcess' /\ TrackedIsOfThisProcess'
<1> USE DEF hostVars
<1>0. None \notin Pids
  BY ExecAbsentAssumption
<1>1. ASSUME HostSteps, UNCHANGED tracked, UNCHANGED hand \/ hand' = Idle
      PROVE  HandIsOfThisProcess' /\ TrackedIsOfThisProcess'
  <2>1. \A p \in Pids : p \notin missed' /\ ~Awaits("exit", p)' =>
           /\ p \notin missed /\ ~Awaits("exit", p)
           /\ proc[p] # None /\ proc[p].user # None =>
                 proc'[p] # None /\ proc'[p].user = proc[p].user /\ proc[p].ran \subseteq proc'[p].ran
    BY <1>1, ProcessGoesOn
  <2>2. TrackedIsOfThisProcess'
    <3>1. \A p \in Pids : tracked[p] # None => tracked[p].user # None
      BY NamesAssumption DEF TypeOK, Usage
    <3> QED BY <1>1, <2>1, <3>1 DEF TrackedIsOfThisProcess
  <2>3. CASE UNCHANGED hand
    <3>1. hand.pid \in Pids /\ hand.stage # "user" => hand.user # None
      <4>1. hand.pid \in Pids => hand.stage \in Stages \ {"idle", "cleanup"}
        BY <1>0 DEF AtWork, TypeOK, Hand
      <4> QED BY <4>1, NamesAssumption DEF AtWork, TypeOK, Stages
    <3> QED BY <2>1, <2>2, <2>3, <3>1 DEF HandIsOfThisProcess
  <2>4. CASE hand' = Idle
    BY <1>0, <2>2, <2>4 DEF HandIsOfThisProcess, Idle
  <2> QED BY <1>1, <2>3, <2>4
<1>2. CASE Looks /\ UNCHANGED <<proc, missed, due, moved, tracked, policyVars>>
  BY <1>2, HandLooks DEF TrackedIsOfThisProcess
<1>3. CASE ReceiveExit
  <2>1. /\ hand'.pid = None /\ UNCHANGED <<proc, missed>> /\ Head(queue).what = "exit"
        /\ queue # <<>> /\ queue' = Tail(queue)
        /\ tracked' = [tracked EXCEPT ![Head(queue).pid] = None]
    BY <1>3, AtCleanup DEF ReceiveExit
  <2>2. HandIsOfThisProcess'
    BY <1>0, <2>1 DEF HandIsOfThisProcess
  <2>3. ASSUME NEW p \in Pids, tracked'[p] # None, ~Awaits("exit", p)'
        PROVE  tracked'[p] = tracked[p] /\ ~Awaits("exit", p)
    BY <2>1, <2>3, Received DEF TypeOK
  <2> QED BY <2>1, <2>2, <2>3 DEF TrackedIsOfThisProcess
<1>4. CASE Track
  <2>1. /\ hand'.pid = None /\ UNCHANGED <<proc, missed, queue>> /\ hand.stage = "track"
        /\ \/ tracked' = tracked
           \/ tracked' = [tracked EXCEPT ![hand.pid] = [user |-> hand.user, exe |-> hand.exe]]
    BY <1>4, AtCleanup DEF Track, At
  <2>2. HandIsOfThisProcess'
    BY <1>0, <2>1 DEF HandIsOfThisProcess
  <2>3. \A p \in Pids : Awaits("exit", p)' <=> Awaits("exit", p)
    BY <2>1 DEF Awaits
  <2>4. ASSUME NEW p \in Pids, tracked'[p] # None
        PROVE  \/ tracked'[p] = tracked[p]
               \/ hand.pid = p /\ tracked'[p] = [user |-> hand.user, exe |-> hand.exe]
    BY <2>1 DEF TypeOK
  <2>5. ASSUME NEW p \in Pids \ missed, tracked'[p] # None, ~Awaits("exit", p)
        PROVE  proc[p] # None /\ proc[p].user = tracked'[p].user /\ tracked'[p].exe \in proc[p].ran
    <3>1. CASE tracked'[p] = tracked[p]
      BY <2>5, <3>1 DEF TrackedIsOfThisProcess
    <3>2. CASE hand.pid = p /\ tracked'[p] = [user |-> hand.user, exe |-> hand.exe]
      BY <2>1, <2>5, <3>2 DEF HandIsOfThisProcess
    <3> QED BY <2>4, <2>5, <3>1, <3>2
  <2>6. TrackedIsOfThisProcess'
    BY <2>1, <2>3, <2>5 DEF TrackedIsOfThisProcess
  <2> QED BY <2>2, <2>6
<1>5. CASE EndOfEvent
  <2>1. hand' = Idle /\ UNCHANGED <<proc, missed, queue>>
        /\ \A p \in Pids : tracked'[p] # None => tracked'[p] = tracked[p]
    BY <1>5 DEF EndOfEvent, TypeOK
  <2>2. \A p \in Pids : Awaits("exit", p)' <=> Awaits("exit", p)
    BY <2>1 DEF Awaits
  <2>3. HandIsOfThisProcess'
    BY <1>0, <2>1 DEF HandIsOfThisProcess, Idle
  <2> QED BY <2>1, <2>2, <2>3 DEF TrackedIsOfThisProcess
<1>6. CASE Policies \/ UNCHANGED vars
  <2>1. UNCHANGED <<proc, missed, queue, hand, tracked>>
    BY <1>6 DEF Policies, Sync, SetTerminal, Elapse, vars
  <2> QED BY <2>1 DEF HandIsOfThisProcess, TrackedIsOfThisProcess, Awaits
<1> QED BY <1>1, <1>2, <1>3, <1>4, <1>5, <1>6, StepCases DEF HostSteps

-----------------------------------------------------------------------------
(* No process the policies forbid survives *)

LEMMA ForbidsKept ==
    ASSUME UNCHANGED <<rules, overlay, terminal>>
    PROVE  /\ \A u, exe : OverlayForbids(u, exe)' <=> OverlayForbids(u, exe)
           /\ \A u, exe, script : RulesForbid(u, exe, script)' <=> RulesForbid(u, exe, script)
           /\ \A x, script : Forbidden(x, script)' <=> Forbidden(x, script)
BY DEF OverlayForbids, RulesForbid, PatternForbids, PathRules, Exempt, Forbidden

LEMMA ForbidsKeptOf ==
    ASSUME NEW u, rules'[u] = rules[u], overlay'[u] = overlay[u]
    PROVE  /\ \A exe : OverlayForbids(u, exe)' <=> OverlayForbids(u, exe)
           /\ \A exe, script : RulesForbid(u, exe, script)' <=> RulesForbid(u, exe, script)
BY DEF OverlayForbids, RulesForbid, PatternForbids, PathRules, Exempt

\* A process is answerable for less without its script.
LEMMA UnscriptedForbidsLess ==
    ASSUME NEW x, NEW script, Forbidden(x, None)
    PROVE  Forbidden(x, script)
BY NamesAssumption DEF Forbidden, RulesForbid

\* Tracked or let be, the process has passed every check as it runs.
LEMMA CheckedIsAllowed ==
    ASSUME HandIsCurrent, NEW p \in due, hand.pid = p, ~Awaits("exec", p), hand.stage = "track"
    PROVE  ~Forbidden(proc[p], Script(p))
<1>1. ~Forbidden(proc[p], hand.script)
  BY DEF HandIsCurrent, Forbidden
<1>2. p \notin moved => Script(p) = hand.script
  BY DEF HandIsCurrent, Script
<1>3. p \in moved => Script(p) = None
  BY DEF Script
<1> QED BY <1>1, <1>2, <1>3, UnscriptedForbidsLess

-----------------------------------------------------------------------------
(* The script an exec named *)

LEMMA UnreadOnlyShrinks ==
    ASSUME TypeOK, AtWork, Monitor \/ Policies \/ UNCHANGED vars, NEW p \in due', Unread(p)'
    PROVE  Unread(p)
<1> USE DEF hostVars
<1>0. hand \in Hand /\ None \notin Pids /\ due \subseteq Pids
  BY ExecAbsentAssumption DEF TypeOK
<1>1. CASE ReceiveExec
  <2>1. /\ hand'.pid = Head(queue).pid /\ Head(queue).what = "exec"
        /\ queue # <<>> /\ queue' = Tail(queue)
    BY <1>0, <1>1, HandSteps DEF ReceiveExec
  <2>2. Head(queue) = [what |-> "exec", pid |-> Head(queue).pid] /\ 1 \in DOMAIN queue /\ Head(queue) = queue[1]
    <3>1. queue \in Seq(Event)
      BY DEF TypeOK
    <3>2. Head(queue) \in Event /\ 1 \in DOMAIN queue /\ Head(queue) = queue[1]
      BY <2>1, <3>1
    <3> QED BY <2>1, <3>2 DEF Event
  <2>3. Awaits("exec", Head(queue).pid)
    BY <2>2 DEF Awaits
  <2>4. Awaits("exec", p)' => Awaits("exec", p)
    BY <2>1, Received
  <2> QED BY <2>1, <2>3, <2>4 DEF Unread
<1>2. CASE ReceiveExit
  <2>1. hand'.pid = None /\ queue # <<>> /\ queue' = Tail(queue) /\ p \in due
    BY <1>2, AtCleanup DEF ReceiveExit
  <2> QED BY <1>0, <2>1, Received DEF Unread
<1>3. CASE ReadUser \/ ReadExe \/ ReadArgs \/ ReadCwd \/ CheckOverlay \/ CheckTerminal \/ CheckRules
  <2>1. UNCHANGED <<queue, due>>
    BY <1>3 DEF ReadUser, ReadExe, ReadArgs, ReadCwd, CheckOverlay, CheckTerminal, CheckRules
  <2>2. \/ hand'.pid = None
        \/ /\ hand'.pid = hand.pid
           /\ hand.stage \in {"user", "exe", "args", "cwd"} \/ hand'.stage \in {"terminal", "rules", "track"}
    <3>1. CASE ReadUser
      BY <1>0, <3>1, HandSteps, AtCleanup DEF ReadUser, At
    <3>2. CASE ReadExe
      BY <1>0, <3>2, HandSteps, AtCleanup DEF ReadExe, At
    <3>3. CASE ReadArgs
      BY <1>0, <3>3, HandSteps DEF ReadArgs, At
    <3>4. CASE ReadCwd
      BY <1>0, <3>4, HandSteps DEF ReadCwd, At
    <3>5. CASE CheckOverlay \/ CheckTerminal \/ CheckRules
      BY <1>0, <3>5, AtStage DEF CheckOverlay, CheckTerminal, CheckRules
    <3> QED BY <1>3, <3>1, <3>2, <3>3, <3>4, <3>5
  <2> QED BY <1>0, <2>1, <2>2 DEF Unread, Awaits
<1>4. CASE DenyByOverlay \/ DenyTerminal \/ DenyByRule
  <2>1. Kill(hand.pid) /\ hand.pid \in Pids /\ hand'.pid = None
    BY <1>4 DEF DenyByOverlay, DenyTerminal, DenyByRule, Kill, At, TypeOK, Idle
  <2>2. Awaits("exec", p)' => Awaits("exec", p)
    <3>1. CASE Report("exit", hand.pid)
      BY <2>1, <3>1, Reports
    <3>2. CASE UNCHANGED <<queue, missed>>
      BY <3>2 DEF Awaits
    <3> QED BY <2>1, <3>1, <3>2 DEF Kill
  <2> QED BY <1>0, <2>1, <2>2 DEF Unread, Kill
<1>5. CASE Track \/ EndOfEvent
  <2>1. hand'.pid = None /\ UNCHANGED <<queue, due>>
    BY <1>5, AtCleanup DEF Track, EndOfEvent, Idle
  <2> QED BY <1>0, <2>1 DEF Unread, Awaits
<1>6. CASE Policies \/ UNCHANGED vars
  <2>1. UNCHANGED <<queue, hand>>
    BY <1>6 DEF Policies, Sync, SetTerminal, Elapse, vars
  <2> QED BY <2>1 DEF Unread, Awaits
<1> QED BY <1>1, <1>2, <1>3, <1>4, <1>5, <1>6 DEF Monitor

LEMMA ScriptStep ==
    ASSUME TypeOK, AtWork, ScriptIsThere, [Next]_vars
    PROVE  ScriptIsThere'
<1> USE DEF hostVars
<1>0. due \subseteq Pids /\ \A p \in due : proc[p] # None
  BY DEF TypeOK
<1>1. ASSUME NEW q \in Pids, NEW u \in Users \cup {None}, NEW image \in Images, NEW dir \in Dirs,
             Exec(q, u, image, dir)
      PROVE  ScriptIsThere'
  <2>1. SUFFICES ASSUME NEW p \in due' \ moved', Unread(p)'
                 PROVE  proc'[p].script = Resolve(proc'[p].args, proc'[p].cwd)
    BY DEF ScriptIsThere, Resolve
  <2>2. CASE p = q
    BY <1>1, <2>2 DEF Exec, TypeOK
  <2>3. CASE p # q
    <3>1. p \in due \ moved /\ proc'[p] = proc[p]
      BY <1>0, <1>1, <2>1, <2>3 DEF Exec, TypeOK
    <3>2. Unread(p)
      BY <1>1, <2>1, <2>3, Reports DEF Exec, Unread
    <3> QED BY <3>1, <3>2 DEF ScriptIsThere
  <2> QED BY <2>2, <2>3
<1>2. ASSUME NEW q \in Pids, NEW dir \in Dirs, Chdir(q, dir)
      PROVE  ScriptIsThere'
  <2>1. SUFFICES ASSUME NEW p \in due' \ moved', Unread(p)'
                 PROVE  proc'[p].script = Resolve(proc'[p].args, proc'[p].cwd)
    BY DEF ScriptIsThere, Resolve
  <2>2. p \in due \ moved /\ Unread(p)
    BY <1>2, <2>1 DEF Chdir, Unread, Awaits
  <2>3. proc[p].script = Resolve(proc[p].args, proc[p].cwd)
    BY <2>2 DEF ScriptIsThere
  <2>4. proc' = [proc EXCEPT ![q] = [proc[q] EXCEPT !.cwd = dir]] /\ proc[q] \in Process
    BY <1>2 DEF Chdir, TypeOK
  <2>5. CASE p = q
    <3>1. proc[p].args \notin Relative
      BY <1>2, <2>1, <2>2, <2>5 DEF Chdir
    <3>2. proc'[p].script = proc[p].script /\ proc'[p].args = proc[p].args
      BY <1>0, <2>2, <2>4, <2>5 DEF TypeOK, Process
    <3> QED BY <2>3, <3>1, <3>2 DEF Resolve
  <2>6. CASE p # q
    BY <1>0, <2>2, <2>3, <2>4, <2>6 DEF TypeOK
  <2> QED BY <2>5, <2>6
<1>3. CASE \/ \E p, q \in Pids : Fork(p, q)
           \/ \E p \in Pids : Exit(p) \/ ThreadExit(p)
  <2>1. SUFFICES ASSUME NEW p \in due' \ moved', Unread(p)'
                 PROVE  proc'[p].script = Resolve(proc'[p].args, proc'[p].cwd)
    BY DEF ScriptIsThere, Resolve
  <2>2. p \in due \ moved /\ proc'[p] = proc[p]
    BY <1>0, <1>3, <2>1 DEF Fork, Exit, ThreadExit, TypeOK
  <2>3. Unread(p)
    <3>1. CASE \E r, q \in Pids : Fork(r, q)
      BY <2>1, <3>1 DEF Fork, Unread, Awaits
    <3>2. CASE \E q \in Pids : Exit(q) \/ ThreadExit(q)
      BY <2>1, <3>2, Reports DEF Exit, ThreadExit, Unread
    <3> QED BY <1>3, <3>1, <3>2
  <2> QED BY <2>2, <2>3 DEF ScriptIsThere
<1>4. CASE Monitor \/ Policies \/ UNCHANGED vars
  <2>1. SUFFICES ASSUME NEW p \in due' \ moved', Unread(p)'
                 PROVE  proc'[p].script = Resolve(proc'[p].args, proc'[p].cwd)
    BY DEF ScriptIsThere, Resolve
  <2>2. Unread(p)
    BY <1>4, <2>1, UnreadOnlyShrinks
  <2>3. p \in due \ moved /\ proc'[p] = proc[p]
    <3>1. CASE Denies
      <4>1. Kill(hand.pid) /\ hand.pid \in Pids
        BY <3>1 DEF Denies, DenyByOverlay, DenyTerminal, DenyByRule, At, TypeOK
      <4> QED BY <1>0, <2>1, <4>1 DEF Kill, TypeOK
    <3>2. CASE ~Denies
      <4>1. UNCHANGED <<proc, moved>> /\ due' \subseteq due
        BY <1>4, <3>2 DEF Denies, Monitor, Policies, ReceiveExec, ReceiveExit, ReadUser, ReadExe, ReadArgs,
           ReadCwd, CheckOverlay, CheckTerminal, CheckRules, Track, EndOfEvent, Sync, SetTerminal, Elapse, vars
      <4> QED BY <2>1, <4>1
    <3> QED BY <3>1, <3>2
  <2> QED BY <2>2, <2>3 DEF ScriptIsThere
<1> QED BY <1>1, <1>2, <1>3, <1>4 DEF Next, Host

-----------------------------------------------------------------------------
(* The task's hand and the survivors *)

LEMMA CurrentHost ==
    ASSUME TypeOK, AtWork, HandIsCurrent, NoForbiddenSurvives, HostSteps,
           UNCHANGED policyVars,
           UNCHANGED hand \/ (hand' = Idle /\ hand.pid \notin due')
    PROVE  HandIsCurrent' /\ NoForbiddenSurvives'
<1>1. \A p \in due' : ~Awaits("exec", p)' =>
         /\ p \in due /\ ~Awaits("exec", p)
         /\ proc'[p].user = proc[p].user /\ proc'[p].exe = proc[p].exe
         /\ proc'[p].args = proc[p].args /\ proc'[p].script = proc[p].script
         /\ p \in moved => p \in moved'
  BY ProcessIsStill
<1>2. /\ \A u, exe : OverlayForbids(u, exe)' <=> OverlayForbids(u, exe)
      /\ \A u, exe, script : RulesForbid(u, exe, script)' <=> RulesForbid(u, exe, script)
      /\ \A x, script : Forbidden(x, script)' <=> Forbidden(x, script)
  BY ForbidsKept DEF policyVars
<1>3. due' \subseteq Pids /\ None \notin Pids
  BY HostTypes, ExecAbsentAssumption DEF HostSteps, HostTyped
<1>4. HandIsCurrent'
  <2>1. CASE hand' = Idle
    BY <1>3, <2>1 DEF HandIsCurrent, Idle
  <2>2. CASE UNCHANGED hand
    <3>1. SUFFICES ASSUME NEW p \in due', hand.pid = p, ~Awaits("exec", p)'
                   PROVE  /\ hand.stage # "user" => proc'[p].user = hand.user
                          /\ hand.stage \notin {"user", "exe"} => proc'[p].exe = hand.exe
                          /\ hand.stage \notin {"user", "exe", "args"} => proc'[p].args = hand.args
                          /\ hand.stage \in {"overlay", "terminal", "rules", "track"} =>
                                (p \notin moved' => proc'[p].script = hand.script)
                          /\ hand.stage \in {"terminal", "rules", "track"} =>
                                ~OverlayForbids(hand.user, hand.exe)'
                          /\ hand.stage \in {"rules", "track"} =>
                                ~(terminal' = hand.user /\ IsTerminal(hand.exe, hand.args))
                          /\ hand.stage = "track" => ~RulesForbid(hand.user, hand.exe, hand.script)'
      BY <2>2 DEF HandIsCurrent, IsTerminal
    <3>2. /\ p \in due /\ ~Awaits("exec", p)
          /\ proc'[p].user = proc[p].user /\ proc'[p].exe = proc[p].exe
          /\ proc'[p].args = proc[p].args /\ proc'[p].script = proc[p].script
          /\ p \in moved => p \in moved'
      BY <1>1, <3>1
    <3>3. PICK u, exe, script : u = hand.user /\ exe = hand.exe /\ script = hand.script
      OBVIOUS
    <3>4. /\ OverlayForbids(hand.user, hand.exe)' <=> OverlayForbids(u, exe)
          /\ RulesForbid(hand.user, hand.exe, hand.script)' <=> RulesForbid(u, exe, script)
      BY <1>2, <2>2, <3>3
    <3> QED BY <3>1, <3>2, <3>3, <3>4 DEF HandIsCurrent, policyVars
  <2> QED BY <2>1, <2>2
<1>5. NoForbiddenSurvives'
  <2>1. SUFFICES ASSUME NEW p \in due', hand'.pid # p, ~Awaits("exec", p)'
                 PROVE  ~Forbidden(proc[p], Script(p))'
    BY DEF NoForbiddenSurvives
  <2>2. /\ p \in due /\ ~Awaits("exec", p)
        /\ proc'[p].user = proc[p].user /\ proc'[p].exe = proc[p].exe
        /\ proc'[p].args = proc[p].args /\ proc'[p].script = proc[p].script
        /\ p \in moved => p \in moved'
    BY <1>1, <2>1
  <2>3. hand.pid # p
    BY <2>1
  <2>4. PICK x, y, script, kept : x = proc[p] /\ y = proc'[p] /\ script = Script(p) /\ kept = Script(p)'
    OBVIOUS
  <2>5. ~Forbidden(x, script)
    BY <2>2, <2>3, <2>4 DEF NoForbiddenSurvives
  <2>6. kept = script \/ kept = None
    BY <2>2, <2>4 DEF Script
  <2>7. ~Forbidden(x, kept)
    BY <2>5, <2>6, UnscriptedForbidsLess
  <2>8. ~Forbidden(y, kept)
    BY <2>2, <2>4, <2>7 DEF Forbidden
  <2>9. Forbidden(y, kept)' <=> Forbidden(y, kept)
    BY <1>2
  <2> QED BY <2>4, <2>8, <2>9
<1> QED BY <1>4, <1>5

\* HandIsCurrent of the next state, when only the hand and the queue change.
LEMMA CurrentBecomes ==
    ASSUME UNCHANGED <<proc, due, moved, policyVars>>,
           \A p \in due : hand'.pid = p /\ ~Awaits("exec", p)' =>
              /\ hand'.stage # "user" => proc[p].user = hand'.user
              /\ hand'.stage \notin {"user", "exe"} => proc[p].exe = hand'.exe
              /\ hand'.stage \notin {"user", "exe", "args"} => proc[p].args = hand'.args
              /\ hand'.stage \in {"overlay", "terminal", "rules", "track"} =>
                    (p \notin moved => proc[p].script = hand'.script)
              /\ hand'.stage \in {"terminal", "rules", "track"} => ~OverlayForbids(hand'.user, hand'.exe)
              /\ hand'.stage \in {"rules", "track"} =>
                    ~(terminal = hand'.user /\ IsTerminal(hand'.exe, hand'.args))
              /\ hand'.stage = "track" => ~RulesForbid(hand'.user, hand'.exe, hand'.script)
    PROVE  HandIsCurrent'
<1>1. /\ \A u, exe : OverlayForbids(u, exe)' <=> OverlayForbids(u, exe)
      /\ \A u, exe, script : RulesForbid(u, exe, script)' <=> RulesForbid(u, exe, script)
  BY ForbidsKept DEF policyVars
<1>2. PICK u, exe, script : u = hand'.user /\ exe = hand'.exe /\ script = hand'.script
  OBVIOUS
<1>3. /\ OverlayForbids(hand.user, hand.exe)' <=> OverlayForbids(u, exe)
      /\ RulesForbid(hand.user, hand.exe, hand.script)' <=> RulesForbid(u, exe, script)
  BY <1>1, <1>2
<1>4. /\ OverlayForbids(hand'.user, hand'.exe) <=> OverlayForbids(u, exe)
      /\ RulesForbid(hand'.user, hand'.exe, hand'.script) <=> RulesForbid(u, exe, script)
  BY <1>2
<1> QED BY <1>3, <1>4 DEF HandIsCurrent, policyVars, IsTerminal

LEMMA SurvivorsKept ==
    ASSUME NoForbiddenSurvives, UNCHANGED <<proc, due, moved, policyVars>>,
           \A p \in due : hand'.pid # p /\ ~Awaits("exec", p)' =>
              (hand.pid # p /\ ~Awaits("exec", p)) \/ ~Forbidden(proc[p], Script(p))
    PROVE  NoForbiddenSurvives'
<1>1. SUFFICES ASSUME NEW p \in due, hand'.pid # p, ~Awaits("exec", p)'
               PROVE  ~Forbidden(proc[p], Script(p))'
  BY DEF NoForbiddenSurvives
<1>2. PICK x, script : x = proc[p] /\ script = Script(p)
  OBVIOUS
<1>3. ~Forbidden(x, script)
  BY <1>1, <1>2 DEF NoForbiddenSurvives
<1>4. Forbidden(x, script)' <=> Forbidden(x, script)
  BY ForbidsKept DEF policyVars
<1>5. x = proc'[p] /\ script = Script(p)'
  BY <1>2 DEF Script
<1> QED BY <1>3, <1>4, <1>5

LEMMA CurrentLooks ==
    ASSUME TypeOK, AtWork, ScriptIsThere, HandIsCurrent, NoForbiddenSurvives, Looks,
           UNCHANGED <<proc, due, moved, policyVars>>
    PROVE  HandIsCurrent' /\ NoForbiddenSurvives'
<1>0. /\ hand \in Hand /\ None \notin Pids
      /\ due \subseteq Pids /\ \A p \in due : proc[p] # None
  BY ExecAbsentAssumption DEF TypeOK
<1>1. CASE ReceiveExec
  <2>1. /\ hand.pid = None
        /\ hand'.stage = "user" /\ hand'.pid = Head(queue).pid
        /\ queue # <<>> /\ queue' = Tail(queue)
    BY <1>0, <1>1, HandSteps DEF ReceiveExec, AtWork, At
  <2>2. \A p \in due : hand'.pid # p /\ ~Awaits("exec", p)' => ~Awaits("exec", p)
    BY <2>1, Received
  <2>3. HandIsCurrent'
    BY <2>1, CurrentBecomes
  <2>4. NoForbiddenSurvives'
    BY <1>0, <2>1, <2>2, SurvivorsKept
  <2> QED BY <2>3, <2>4
<1>2. ASSUME UNCHANGED queue
      PROVE  \A p : Awaits("exec", p)' <=> Awaits("exec", p)
  BY <1>2 DEF Awaits
<1>3. CASE ReadUser
  <2>1. hand.stage = "user" /\ hand.pid \in Pids /\ UNCHANGED queue
    BY <1>3 DEF ReadUser, At, hostVars, TypeOK
  <2>2. CASE proc[hand.pid] # None /\ proc[hand.pid].user # None
    <3>1. hand'.stage = "exe" /\ hand'.pid = hand.pid /\ hand'.user = proc[hand.pid].user
      BY <1>0, <1>3, <2>2, HandSteps
    <3> QED BY <1>2, <2>1, <3>1, CurrentBecomes, SurvivorsKept
  <2>3. CASE ~(proc[hand.pid] # None /\ proc[hand.pid].user # None)
    <3>1. hand'.pid = None
      BY <1>3, <2>3, AtCleanup DEF ReadUser
    <3>2. \A p \in due : hand.pid = p => ~Forbidden(proc[p], Script(p))
      BY <1>0, <2>3 DEF Forbidden
    <3> QED BY <1>0, <1>2, <2>1, <3>1, <3>2, CurrentBecomes, SurvivorsKept
  <2> QED BY <2>2, <2>3
<1>4. CASE ReadExe
  <2>1. hand.stage = "exe" /\ UNCHANGED queue
    BY <1>4 DEF ReadExe, At, hostVars
  <2>2. CASE proc[hand.pid] # None
    <3>1. /\ hand'.stage = "args" /\ hand'.pid = hand.pid /\ hand'.user = hand.user
          /\ hand'.exe = proc[hand.pid].exe
      BY <1>0, <1>4, <2>2, HandSteps
    <3>2. \A p \in due : hand.pid = p /\ ~Awaits("exec", p) => proc[p].user = hand.user
      BY <2>1 DEF HandIsCurrent
    <3> QED BY <1>2, <2>1, <3>1, <3>2, CurrentBecomes, SurvivorsKept
  <2>3. CASE proc[hand.pid] = None
    <3>1. hand'.pid = None
      BY <1>4, <2>3, AtCleanup DEF ReadExe
    <3> QED BY <1>0, <1>2, <2>1, <2>3, <3>1, CurrentBecomes, SurvivorsKept
  <2> QED BY <2>2, <2>3
<1>5. CASE ReadArgs
  <2>1. hand.stage = "args" /\ UNCHANGED queue
    BY <1>5 DEF ReadArgs, At, hostVars
  <2>2. /\ hand'.stage = "cwd" /\ hand'.pid = hand.pid /\ hand'.user = hand.user
        /\ hand'.exe = hand.exe
        /\ proc[hand.pid] # None => hand'.args = proc[hand.pid].args
    BY <1>0, <1>5, HandSteps
  <2>3. \A p \in due : hand.pid = p /\ ~Awaits("exec", p) =>
           proc[p].user = hand.user /\ proc[p].exe = hand.exe
    BY <2>1 DEF HandIsCurrent
  <2> QED BY <1>0, <1>2, <2>1, <2>2, <2>3, CurrentBecomes, SurvivorsKept
<1>6. CASE ReadCwd
  <2>1. hand.stage = "cwd" /\ UNCHANGED queue
    BY <1>6 DEF ReadCwd, At, hostVars
  <2>2. /\ hand'.stage = "overlay" /\ hand'.pid = hand.pid /\ hand'.user = hand.user
        /\ hand'.exe = hand.exe /\ hand'.args = hand.args
        /\ proc[hand.pid] # None => hand'.script = Resolve(hand.args, proc[hand.pid].cwd)
    BY <1>0, <1>6, HandSteps
  <2>3. \A p \in due : hand.pid = p /\ ~Awaits("exec", p) =>
           /\ proc[p].user = hand.user /\ proc[p].exe = hand.exe /\ proc[p].args = hand.args
           /\ p \notin moved => proc[p].script = Resolve(hand.args, proc[p].cwd)
    <3>1. SUFFICES ASSUME NEW p \in due, hand.pid = p, ~Awaits("exec", p)
                   PROVE  /\ proc[p].user = hand.user /\ proc[p].exe = hand.exe /\ proc[p].args = hand.args
                          /\ p \notin moved => proc[p].script = Resolve(hand.args, proc[p].cwd)
      OBVIOUS
    <3>2. proc[p].user = hand.user /\ proc[p].exe = hand.exe /\ proc[p].args = hand.args
      BY <2>1, <3>1 DEF HandIsCurrent
    <3>3. p \notin moved => proc[p].script = Resolve(proc[p].args, proc[p].cwd)
      BY <2>1, <3>1 DEF ScriptIsThere, Unread
    <3> QED BY <3>2, <3>3
  <2> QED BY <1>0, <1>2, <2>1, <2>2, <2>3, CurrentBecomes, SurvivorsKept
<1>7. CASE CheckOverlay \/ CheckTerminal \/ CheckRules
  <2>1. /\ UNCHANGED queue
        /\ \/ hand.stage = "overlay" /\ Goto("terminal") /\ ~OverlayForbids(hand.user, hand.exe)
           \/ /\ hand.stage = "terminal" /\ Goto("rules")
              /\ ~(terminal = hand.user /\ IsTerminal(hand.exe, hand.args))
           \/ hand.stage = "rules" /\ Goto("track") /\ ~RulesForbid(hand.user, hand.exe, hand.script)
    <3>1. CASE CheckOverlay
      BY <3>1, OverlayDecides DEF CheckOverlay, At, hostVars
    <3>2. CASE CheckTerminal
      BY <3>2 DEF CheckTerminal, At, hostVars
    <3>3. CASE CheckRules
      <4>1. hand.user \in Users /\ hand.exe \in Files /\ Decision(hand.user, hand.exe, hand.script) # "blocked"
        BY <3>3 DEF CheckRules, At, TypeOK
      <4> QED BY <3>3, <4>1, DecisionForbids DEF CheckRules, At, hostVars
    <3> QED BY <1>7, <3>1, <3>2, <3>3
  <2>2. /\ hand'.pid = hand.pid /\ hand'.user = hand.user /\ hand'.exe = hand.exe
        /\ hand'.args = hand.args /\ hand'.script = hand.script
        /\ \/ hand.stage = "overlay" /\ hand'.stage = "terminal"
           \/ hand.stage = "terminal" /\ hand'.stage = "rules"
           \/ hand.stage = "rules" /\ hand'.stage = "track"
    BY <1>0, <2>1, AtStage
  <2>3. PICK u, exe, script : u = hand.user /\ exe = hand.exe /\ script = hand.script
    OBVIOUS
  <2>4. u = hand'.user /\ exe = hand'.exe /\ script = hand'.script
    BY <2>2, <2>3
  <2>5. /\ OverlayForbids(hand'.user, hand'.exe) <=> OverlayForbids(hand.user, hand.exe)
        /\ RulesForbid(hand'.user, hand'.exe, hand'.script) <=> RulesForbid(hand.user, hand.exe, hand.script)
        /\ IsTerminal(hand'.exe, hand'.args) <=> IsTerminal(hand.exe, hand.args)
    BY <2>2, <2>3, <2>4 DEF IsTerminal
  <2>6. \A p \in due : hand.pid = p /\ ~Awaits("exec", p) =>
           /\ proc[p].user = hand.user /\ proc[p].exe = hand.exe /\ proc[p].args = hand.args
           /\ p \notin moved => proc[p].script = hand.script
           /\ hand.stage \in {"terminal", "rules"} => ~OverlayForbids(hand.user, hand.exe)
           /\ hand.stage = "rules" => ~(terminal = hand.user /\ IsTerminal(hand.exe, hand.args))
    BY <2>2 DEF HandIsCurrent
  <2>7. HandIsCurrent'
    BY <1>2, <2>1, <2>2, <2>5, <2>6, CurrentBecomes
  <2>8. NoForbiddenSurvives'
    BY <1>2, <2>1, <2>2, SurvivorsKept
  <2> QED BY <2>7, <2>8
<1> QED BY <1>1, <1>3, <1>4, <1>5, <1>6, <1>7 DEF Looks

LEMMA CurrentEnds ==
    ASSUME TypeOK, AtWork, HandIsCurrent, NoForbiddenSurvives,
           ReceiveExit \/ Track \/ EndOfEvent
    PROVE  HandIsCurrent' /\ NoForbiddenSurvives'
<1> USE DEF hostVars
<1>0. None \notin Pids /\ due \subseteq Pids
  BY ExecAbsentAssumption DEF TypeOK
<1>1. hand'.pid = None /\ UNCHANGED <<proc, due, moved, policyVars>>
  BY AtCleanup DEF ReceiveExit, Track, EndOfEvent, Idle
<1>2. HandIsCurrent'
  BY <1>0, <1>1, CurrentBecomes
<1>3. CASE ReceiveExit
  <2>1. hand.pid = None /\ queue # <<>> /\ queue' = Tail(queue) /\ Head(queue).what = "exit"
    BY <1>3 DEF ReceiveExit, AtWork, At
  <2>2. \A p : ~Awaits("exec", p)' => ~Awaits("exec", p)
    BY <2>1, Received
  <2> QED BY <1>0, <1>1, <1>2, <2>1, <2>2, SurvivorsKept
<1>4. CASE Track
  <2>1. hand.stage = "track" /\ UNCHANGED queue
    BY <1>4 DEF Track, At
  <2>2. \A p : Awaits("exec", p)' <=> Awaits("exec", p)
    BY <2>1 DEF Awaits
  <2>3. \A p \in due : hand.pid = p /\ ~Awaits("exec", p) => ~Forbidden(proc[p], Script(p))
    BY <2>1, CheckedIsAllowed
  <2> QED BY <1>1, <1>2, <2>2, <2>3, SurvivorsKept
<1>5. CASE EndOfEvent
  <2>1. hand.pid = None /\ UNCHANGED queue
    BY <1>5 DEF EndOfEvent, AtWork, At
  <2>2. \A p : Awaits("exec", p)' <=> Awaits("exec", p)
    BY <2>1 DEF Awaits
  <2> QED BY <1>0, <1>1, <1>2, <2>1, <2>2, SurvivorsKept
<1> QED BY <1>3, <1>4, <1>5

\* A change of policies takes the user's processes out of due; of the others it
\* says what it said, or, for the user the terminal was taken from, less.
LEMMA CurrentPolicies ==
    ASSUME TypeOK, AtWork, HandIsCurrent, NoForbiddenSurvives, Policies
    PROVE  HandIsCurrent' /\ NoForbiddenSurvives'
<1> DEFINE Kept(p) == proc[p].user \in Users =>
                         /\ rules'[proc[p].user] = rules[proc[p].user]
                         /\ overlay'[proc[p].user] = overlay[proc[p].user]
                         /\ terminal' = proc[p].user => terminal = proc[p].user
<1>0. /\ due \subseteq Pids /\ (\A p \in due : proc[p] # None) /\ None \notin Users
      /\ \A p \in due : proc[p].user \in Users \cup {None}
  BY NamesAssumption DEF TypeOK, Process
<1>1. UNCHANGED <<proc, queue, hand, moved>> /\ due' \subseteq due
  BY DEF Policies, Sync, SetTerminal, Elapse, hostVars
<1>2. \A p \in due' : Kept(p)
  <2>1. ASSUME NEW u \in Users, NEW list \in Lists, NEW o \in Overlays \cup {None}, Sync(u, list, o),
               NEW p \in due'
        PROVE  Kept(p)
    <3>1. p \in due /\ proc[p].user # u
      BY <1>0, <2>1 DEF Sync, OfUser
    <3> QED BY <2>1, <3>1 DEF Sync, TypeOK
  <2>2. ASSUME NEW u \in Users \cup {None}, SetTerminal(u), NEW p \in due'
        PROVE  Kept(p)
    <3>1. p \in due /\ (u # None => proc[p].user # u)
      BY <1>0, <2>2 DEF SetTerminal, OfUser
    <3> QED BY <1>0, <2>2, <3>1 DEF SetTerminal
  <2>3. ASSUME NEW f \in Files, Elapse(f), NEW p \in due'
        PROVE  Kept(p)
    BY <2>3 DEF Elapse, policyVars
  <2> QED BY <2>1, <2>2, <2>3 DEF Policies
<1>3. ASSUME NEW p \in due', NEW u \in Users, u = proc[p].user
      PROVE  /\ \A exe : OverlayForbids(u, exe)' <=> OverlayForbids(u, exe)
             /\ \A exe, script : RulesForbid(u, exe, script)' <=> RulesForbid(u, exe, script)
             /\ terminal' = u => terminal = u
  BY <1>2, <1>3, ForbidsKeptOf
<1>4. HandIsCurrent'
  <2>1. SUFFICES ASSUME NEW p \in due', hand.pid = p, ~Awaits("exec", p)'
                 PROVE  /\ hand.stage # "user" => proc[p].user = hand.user
                        /\ hand.stage \notin {"user", "exe"} => proc[p].exe = hand.exe
                        /\ hand.stage \notin {"user", "exe", "args"} => proc[p].args = hand.args
                        /\ hand.stage \in {"overlay", "terminal", "rules", "track"} =>
                              (p \notin moved => proc[p].script = hand.script)
                        /\ hand.stage \in {"terminal", "rules", "track"} =>
                              ~OverlayForbids(hand.user, hand.exe)'
                        /\ hand.stage \in {"rules", "track"} =>
                              ~(terminal' = hand.user /\ IsTerminal(hand.exe, hand.args))
                        /\ hand.stage = "track" => ~RulesForbid(hand.user, hand.exe, hand.script)'
    BY <1>1 DEF HandIsCurrent, IsTerminal
  <2>2. p \in due /\ ~Awaits("exec", p)
    BY <1>1, <2>1 DEF Awaits
  <2>3. CASE hand.stage \in {"user", "exe", "args", "cwd", "overlay"}
    BY <2>1, <2>2, <2>3 DEF HandIsCurrent
  <2>4. CASE hand.stage \in {"terminal", "rules", "track"}
    <3>1. PICK u, exe, script : u = hand.user /\ exe = hand.exe /\ script = hand.script
      OBVIOUS
    <3>2. u \in Users /\ u = proc[p].user
      BY <2>1, <2>2, <2>4, <3>1 DEF HandIsCurrent, TypeOK
    <3>3. /\ OverlayForbids(u, exe)' <=> OverlayForbids(u, exe)
          /\ RulesForbid(u, exe, script)' <=> RulesForbid(u, exe, script)
          /\ terminal' = u => terminal = u
      BY <1>3, <3>2
    <3>4. /\ OverlayForbids(hand.user, hand.exe)' <=> OverlayForbids(u, exe)'
          /\ RulesForbid(hand.user, hand.exe, hand.script)' <=> RulesForbid(u, exe, script)'
      BY <1>1, <3>1
    <3> QED BY <2>1, <2>2, <2>4, <3>1, <3>3, <3>4 DEF HandIsCurrent
  <2>5. hand.stage \in Stages \ {"idle", "cleanup"}
    <3>1. hand.stage \in Stages
      BY DEF TypeOK, Hand
    <3>2. hand.pid # None
      BY <1>0, <2>1, <2>2, ExecAbsentAssumption
    <3> QED BY <3>1, <3>2 DEF AtWork
  <2> QED BY <2>3, <2>4, <2>5 DEF Stages
<1>5. NoForbiddenSurvives'
  <2>1. SUFFICES ASSUME NEW p \in due', hand.pid # p, ~Awaits("exec", p)'
                 PROVE  ~Forbidden(proc[p], Script(p))'
    BY <1>1 DEF NoForbiddenSurvives
  <2>2. p \in due /\ ~Awaits("exec", p)
    BY <1>1, <2>1 DEF Awaits
  <2>3. PICK x, u, script : x = proc[p] /\ u = x.user /\ script = Script(p)
    OBVIOUS
  <2>4. ~Forbidden(x, script)
    BY <2>1, <2>2, <2>3 DEF NoForbiddenSurvives
  <2>5. u \in Users => ~Forbidden(x, script)'
    <3>1. SUFFICES ASSUME u \in Users
                   PROVE  ~Forbidden(x, script)'
      OBVIOUS
    <3>2. /\ OverlayForbids(u, x.exe)' <=> OverlayForbids(u, x.exe)
          /\ RulesForbid(u, x.exe, script)' <=> RulesForbid(u, x.exe, script)
          /\ terminal' = u => terminal = u
      BY <1>3, <2>3, <3>1
    <3> QED BY <2>3, <2>4, <3>2 DEF Forbidden, IsTerminal
  <2>6. u = None => ~Forbidden(x, script)'
    BY <2>3 DEF Forbidden
  <2>7. x = proc'[p] /\ script = Script(p)'
    BY <1>1, <2>3 DEF Script
  <2> QED BY <1>0, <2>2, <2>3, <2>5, <2>6, <2>7
<1> QED BY <1>4, <1>5

LEMMA CurrentStep ==
    ASSUME TypeOK, AtWork, ScriptIsThere, HandIsCurrent, NoForbiddenSurvives, [Next]_vars
    PROVE  HandIsCurrent' /\ NoForbiddenSurvives'
<1>1. CASE Host /\ UNCHANGED <<hand, tracked, policyVars>>
  BY <1>1, CurrentHost DEF HostSteps
<1>2. CASE /\ Denies /\ Kill(hand.pid) /\ hand.pid \in Pids
           /\ hand' = Idle /\ UNCHANGED <<tracked, policyVars>>
  BY <1>2, CurrentHost DEF HostSteps, Kill
<1>3. CASE Looks /\ UNCHANGED <<proc, missed, due, moved, tracked, policyVars>>
  BY <1>3, CurrentLooks
<1>4. CASE ReceiveExit \/ Track \/ EndOfEvent
  BY <1>4, CurrentEnds
<1>5. CASE Policies
  BY <1>5, CurrentPolicies
<1>6. CASE UNCHANGED vars
  <2>1. UNCHANGED <<proc, due, moved, policyVars, hand, queue>>
    BY <1>6 DEF vars, hostVars
  <2>2. \A p : Awaits("exec", p)' <=> Awaits("exec", p)
    BY <2>1 DEF Awaits
  <2>3. NoForbiddenSurvives'
    BY <2>1, <2>2, SurvivorsKept
  <2>4. HandIsCurrent'
    <3>1. UNCHANGED <<rules, overlay, terminal>>
      BY <2>1 DEF policyVars
    <3> QED BY <2>1, <3>1 DEF HandIsCurrent, Awaits, OverlayForbids, RulesForbid, PatternForbids,
               PathRules, Exempt, IsTerminal
  <2> QED BY <2>3, <2>4
<1> QED BY <1>1, <1>2, <1>3, <1>4, <1>5, <1>6, StepCases

-----------------------------------------------------------------------------
(* The inductive invariant and what it gives *)

LEMMA Initially ==
    ASSUME Init
    PROVE  IInv
<1> USE DEF Init
<1>1. TypeOK
  <2>1. hand \in Hand
    BY DEF Idle, Hand, Stages, Args
  <2>2. queue \in Seq(Event)
    OBVIOUS
  <2>3. events \in 0..MaxEvents /\ changes \in 0..MaxChanges
    BY ExecBoundAssumption
  <2>4. saved \in [Users -> Lists]
    OBVIOUS
  <2> QED BY <2>1, <2>2, <2>3, <2>4 DEF TypeOK, Idle
<1>2. \A p \in Pids : proc[p] = None /\ tracked[p] = None
  OBVIOUS
<1>3. AtWork /\ RunsWhatItRan
  BY <1>2 DEF AtWork, RunsWhatItRan, Idle
<1>4. HandIsOfThisProcess /\ TrackedIsOfThisProcess
  BY <1>2, ExecAbsentAssumption DEF HandIsOfThisProcess, TrackedIsOfThisProcess, Idle
<1>5. ScriptIsThere /\ HandIsCurrent /\ NoForbiddenSurvives
  BY DEF ScriptIsThere, HandIsCurrent, NoForbiddenSurvives
<1> QED BY <1>1, <1>3, <1>4, <1>5 DEF IInv

LEMMA Inductively ==
    ASSUME IInv, [Next]_vars
    PROVE  IInv'
BY TypeStep, RunsStep, UsageStep, ScriptStep, CurrentStep DEF IInv

\* What the task has in hand, what it tracks and what runs fit together in every
\* reachable state: IInv is inductive.
THEOREM Watching == Spec => []IInv
<1>1. Init => IInv
  BY Initially
<1>2. IInv /\ [Next]_vars => IInv'
  BY Inductively
<1> QED BY <1>1, <1>2, PTL DEF Spec

\* Every step writes values of the model's types: past the reads the task has a
\* monitored user and an executable in hand.
THEOREM TypesAreKept == Spec => []TypeOK
<1>1. IInv => TypeOK
  BY DEF IInv
<1> QED BY <1>1, Watching, PTL

\* When the task is done with the last reported exec of a process, the process
\* does not run what the overlay, the block of terminals or the rules forbid,
\* whatever was executed, forked, killed or ended between the event and each
\* read, for any rules, patterns, directories and number of events.  Its script
\* is left out if it was named by a relative name and the process changed its
\* directory before the task read it.
THEOREM ForbiddenIsKilled == Spec => []NoForbiddenSurvives
<1>1. IInv => NoForbiddenSurvives
  BY DEF IInv
<1> QED BY <1>1, Watching, PTL

\* A tracked pid is of a process that has run the tracked executable, unless the
\* event of its end is still in the socket or was lost.
THEOREM UsageIsOfItsProcess == Spec => []TrackedIsOfThisProcess
<1>1. IInv => TrackedIsOfThisProcess
  BY DEF IInv
<1> QED BY <1>1, Watching, PTL
=============================================================================
