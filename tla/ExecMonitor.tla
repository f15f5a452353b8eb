---------------------------- MODULE ExecMonitor ----------------------------
(***************************************************************************)
(* The process monitor (src/src/netlink.rs): the kernel reports that a       *)
(* process executed a file or ended, one task reads from /proc what it is    *)
(* now and asks three policies in turn whether it may live: the approval     *)
(* overlay (approval_policy.rs), the block of terminals                      *)
(* (linux_device_policy/exec.rs) and the rules (apparmor.rs,                 *)
(* evaluate_exec_event).  It kills the process or tracks it until it ends.   *)
(*                                                                          *)
(* The event names a pid only.  By the time the task looks, the process may  *)
(* have executed something else, forked, ended or left its pid to another;   *)
(* and each policy is asked under its own Mutex, so it may change between.   *)
(*                                                                          *)
(* Abstract: files are values, a path pattern is the set of files under it   *)
(* and a relative name is what it joins to in each directory; of the         *)
(* arguments it matters whether there are none, a command line (-c) or a     *)
(* script.  Symbolic links do not change.  A process takes on a monitored    *)
(* user only as it executes, and keeps him: sudo in place and a daemon that  *)
(* drops its privileges and executes nothing are left out, like alerts other *)
(* than requests for approval, their relay, the duration of a process and    *)
(* zombies (whose executable cannot be read).                                *)
(***************************************************************************)
EXTENDS FiniteSets, Integers, Sequences, SequencesExt

CONSTANTS
    Pids,
    Users,          \* monitored users
    Files,          \* executables and scripts
    Dirs,           \* working directories
    Relative,       \* relative names of scripts
    Joined,         \* the file a relative name is in a directory
    Patterns,       \* path patterns of the policies
    Under,          \* the files each pattern covers
    Length,         \* the length of each pattern
    Interpreters,   \* SCRIPT_INTERPRETERS
    Shells, Emulators,
    Reported,       \* files is_reportable_executable accepts whatever the rules are
    Images,         \* what processes execute
    Lists,          \* lists of rules the server may send
    Overlays,       \* approval policies the server may send
    None, Bare, Command,
    MaxEvents,      \* bound on what processes do
    MaxChanges,     \* bound on changes of the policies
    MaxLost         \* bound on pids with a lost event

Rule    == [target : Files \cup Patterns, preset : {"blocked", "complain", "no_internet"}]
Args    == Files \cup Relative \cup {Bare, Command}
Image   == [exe : Files, args : Args]
Overlay == [approved : SUBSET (Files \cup Patterns), blocked : SUBSET (Files \cup Patterns)]
Process == [user : Users \cup {None}, exe : Files, args : Args, cwd : Dirs,
            script : Files \cup {None}, ran : SUBSET Files]
Usage   == [user : Users, exe : Files]

ASSUME ImagesAssumption == Images \subseteq Image
ASSUME ListsAssumption == Lists \subseteq Seq(Rule)
ASSUME OverlaysAssumption == Overlays \subseteq Overlay
ASSUME JoinAssumption == Joined \in [Relative \X Dirs -> Files]
ASSUME CoverAssumption == Under \in [Patterns -> SUBSET Files] /\ Length \in [Patterns -> Nat]
\* Two patterns that cover one file are roots of its path, the longer inside the
\* other.
ASSUME NestAssumption ==
    \A a, b \in Patterns :
        a # b /\ Under[a] \cap Under[b] # {} /\ Under[a] \subseteq Under[b] => Length[a] > Length[b]
ASSUME ExecAbsentAssumption ==
    None \notin Pids /\ None \notin Process /\ None \notin Rule /\ None \notin Usage
ASSUME NamesAssumption ==
    /\ None \notin Users \cup Files \cup Dirs \cup Overlay
    /\ {Bare, Command} \cap Files = {} /\ Relative \cap (Files \cup {Bare, Command}) = {}
ASSUME ExecBoundAssumption == {MaxEvents, MaxChanges, MaxLost} \subseteq Nat

VARIABLES
    proc,       \* the process of each pid; script is the file it named as it executed
    queue,      \* events of the socket the task has not received
    missed,     \* pids one of whose events was lost (history)
    due,        \* pids whose last exec was reported, and the policies are the same (history)
    moved,      \* pids with a relative script whose directory changed before it was read (history)
    hand,       \* the exec event the task is at, and what it has read
    tracked,    \* TrackedProcess of each pid
    rules,      \* current_state.users of the AppArmor runtime
    saved,      \* the same in its file
    overlay,    \* current_state.approval_overlays
    terminal,   \* the enforced user, if the device policy takes the terminal from him
    cooling,    \* programs of the approval deduper, within their cooldown
    events, changes

hostVars   == <<proc, queue, missed, due, moved, events>>
policyVars == <<rules, saved, overlay, terminal, changes>>
vars == <<hostVars, policyVars, hand, tracked, cooling>>

-----------------------------------------------------------------------------

Stages == {"idle", "user", "exe", "args", "cwd", "overlay", "terminal", "rules", "track", "cleanup"}
Idle   == [stage |-> "idle", pid |-> None, user |-> None, exe |-> None, args |-> Bare, script |-> None]
Hand   == [stage : Stages, pid : Pids \cup {None}, user : Users \cup {None},
           exe : Files \cup {None}, args : Args, script : Files \cup {None}]
Event  == [what : {"exec", "exit"}, pid : Pids]

\* Past the reads the task has a monitored user and an executable in hand.
TypeOK ==
    /\ proc \in [Pids -> Process \cup {None}]
    /\ queue \in Seq(Event)
    /\ missed \subseteq Pids
    /\ due \subseteq {p \in Pids : proc[p] # None} /\ moved \subseteq Pids
    /\ hand \in Hand
    /\ hand.stage \notin {"idle", "cleanup"} => hand.pid \in Pids
    /\ hand.stage \in {"args", "cwd", "overlay", "terminal", "rules", "track"} =>
           hand.user \in Users /\ hand.exe \in Files
    /\ tracked \in [Pids -> Usage \cup {None}]
    /\ rules \in [Users -> Lists] /\ saved \in [Users -> Lists]
    /\ overlay \in [Users -> Overlays \cup {None}]
    /\ terminal \in Users \cup {None}
    /\ cooling \subseteq Files
    /\ events \in 0..MaxEvents /\ changes \in 0..MaxChanges

\* run_agent has restored the policies and the socket is subscribed.
Init ==
    /\ proc = [p \in Pids |-> None]
    /\ queue = <<>> /\ missed = {} /\ due = {} /\ moved = {}
    /\ hand = Idle
    /\ tracked = [p \in Pids |-> None]
    /\ rules \in [Users -> Lists] /\ saved = rules
    /\ overlay \in [Users -> Overlays \cup {None}]
    /\ terminal \in Users \cup {None}
    /\ cooling = {}
    /\ events = 0 /\ changes = 0

At(stage)   == hand.stage = stage
Goto(stage) == hand' = [hand EXCEPT !.stage = stage]
Cleanup     == hand' = [Idle EXCEPT !.stage = "cleanup"]

-----------------------------------------------------------------------------
(* The policies *)

\* path_pattern_matches for a pattern, equality of canonical paths for a file.
Covers(target, file) == IF target \in Patterns THEN file \in Under[target] ELSE file = target

\* ApprovalPolicy::effective_blocked and executable_matches_blocked.
EffectiveBlocked(o) == o.blocked \ o.approved

OverlayBlocks(u, exe) ==
    /\ overlay[u] # None
    /\ \E id \in EffectiveBlocked(overlay[u]) : Covers(id, exe)
    /\ ~\E id \in overlay[u].approved : Covers(id, exe)

\* exec::is_terminal_blocked: a shell with a command or a script may run.
IsTerminal(exe, args) ==
    \/ exe \in Emulators
    \/ exe \in Shells /\ args = Bare

PathRules(u, file) ==
    {i \in DOMAIN rules[u] : rules[u][i].target \in Patterns /\ Covers(rules[u][i].target, file)}

\* Seeded bug: the rules are not sorted.
FirstPathRule(u, file) ==
    LET hits == PathRules(u, file)
    IN  IF hits = {} THEN None ELSE rules[u][CHOOSE i \in hits : \A j \in hits : i <= j]

\* The longest pattern decides, and the first of its length.
PathRule(u, file) ==
    LET hits         == PathRules(u, file)
        Reach(i)     == Length[rules[u][i].target]
        Before(i, j) == Reach(i) > Reach(j) \/ (Reach(i) = Reach(j) /\ i < j)
    IN  IF hits = {} THEN None ELSE rules[u][CHOOSE i \in hits : \A j \in hits \ {i} : Before(i, j)]

\* normalize_candidate_path: a script argument in a directory, if the directory is known.
Resolve(arg, dir) ==
    IF arg \in Files THEN arg
    ELSE IF arg \in Relative /\ dir # None THEN Joined[arg, dir]
    ELSE None

\* evaluate_exec_event: the preset that applies.  An exact rule matters here only
\* when it complains, and then the script is not looked at.
Decision(u, exe, script) ==
    LET direct == PathRule(u, exe)
        exact  == \E rule \in ToSet(rules[u]) : rule = [target |-> exe, preset |-> "complain"]
        named  == IF exe \in Interpreters /\ script \in Files THEN PathRule(u, script) ELSE None
    IN  IF direct # None THEN direct.preset
        ELSE IF exact THEN "complain"
        ELSE IF named # None THEN named.preset
        ELSE None

\* decide_reportable; it reads the rules from the file.
Reportable(u, exe) ==
    \/ exe \in Reported
    \/ \E rule \in ToSet(saved[u]) : Covers(rule.target, exe)

-----------------------------------------------------------------------------
(* The host *)

Acts == events < MaxEvents /\ events' = events + 1

\* The kernel reports to the socket, whose buffer may be full.
Report(what, p) ==
    \/ queue' = Append(queue, [what |-> what, pid |-> p]) /\ UNCHANGED missed
    \/ Cardinality(missed) < MaxLost /\ missed' = missed \cup {p} /\ UNCHANGED queue

\* A process executes a file, itself or just forked by one of any user; one of no
\* monitored user may become a user's (login, su).
Exec(p, u, image, dir) ==
    /\ Acts
    /\ proc[p] # None => proc[p].user \in {u, None} /\ dir = proc[p].cwd
    /\ LET before == IF proc[p] = None THEN {} ELSE proc[p].ran
       IN  proc' = [proc EXCEPT ![p] = [user |-> u, exe |-> image.exe, args |-> image.args, cwd |-> dir,
                                        script |-> Resolve(image.args, dir),
                                        ran |-> before \cup {image.exe}]]
    /\ Report("exec", p)
    /\ due' = IF queue' # queue THEN due \cup {p} ELSE due \ {p}
    /\ moved' = moved \ {p}
    /\ UNCHANGED <<policyVars, hand, tracked, cooling>>

Awaits(what, p) == \E i \in DOMAIN queue : queue[i] = [what |-> what, pid |-> p]

\* The task has an exec event of p to come, or has not read its directory.
Unread(p) == Awaits("exec", p) \/ (hand.pid = p /\ hand.stage \in {"user", "exe", "args", "cwd"})

\* A process changes its working directory: no event.  To a script it names by an
\* absolute path that makes no difference.
Chdir(p, dir) ==
    /\ Acts
    /\ proc[p] # None /\ proc[p].cwd # dir
    /\ proc' = [proc EXCEPT ![p].cwd = dir]
    /\ moved' = IF Unread(p) /\ proc[p].args \in Relative THEN moved \cup {p} ELSE moved
    /\ UNCHANGED <<queue, missed, due, policyVars, hand, tracked, cooling>>

\* A process forks and the child goes on with the same file: no event the task asks
\* for.
Fork(p, q) ==
    /\ Acts
    /\ proc[p] # None /\ proc[q] = None
    /\ proc' = [proc EXCEPT ![q] = [proc[p] EXCEPT !.ran = {proc[p].exe}]]
    /\ UNCHANGED <<queue, missed, due, moved, policyVars, hand, tracked, cooling>>

Exit(p) ==
    /\ Acts
    /\ proc[p] # None
    /\ proc' = [proc EXCEPT ![p] = None]
    /\ Report("exit", p)
    /\ due' = due \ {p} /\ moved' = moved \ {p}
    /\ UNCHANGED <<policyVars, hand, tracked, cooling>>

\* A thread ends: the event carries the id of its process.
ThreadExit(p) ==
    /\ Acts
    /\ proc[p] # None
    /\ Report("exit", p)
    /\ UNCHANGED <<proc, due, moved, policyVars, hand, tracked, cooling>>

-----------------------------------------------------------------------------
(* run_monitor_inner *)

ReceiveExec ==
    /\ At("idle")
    /\ queue # <<>> /\ Head(queue).what = "exec"
    /\ queue' = Tail(queue)
    /\ hand' = [Idle EXCEPT !.stage = "user", !.pid = Head(queue).pid]
    /\ UNCHANGED <<proc, missed, due, moved, events, policyVars, tracked, cooling>>

\* Seeded bug: a process whose usage is not worth a report stays tracked.
ReceiveExitReported ==
    /\ At("idle")
    /\ queue # <<>> /\ Head(queue).what = "exit"
    /\ queue' = Tail(queue)
    /\ tracked' \in {tracked, [tracked EXCEPT ![Head(queue).pid] = None]}
    /\ Cleanup
    /\ UNCHANGED <<proc, missed, due, moved, events, policyVars, cooling>>

ReceiveExit ==
    /\ At("idle")
    /\ queue # <<>> /\ Head(queue).what = "exit"
    /\ queue' = Tail(queue)
    /\ tracked' = [tracked EXCEPT ![Head(queue).pid] = None]
    /\ Cleanup
    /\ UNCHANGED <<proc, missed, due, moved, events, policyVars, cooling>>

\* pid_to_uid: a process that is gone, or of a user who is not monitored, is let be.
ReadUser ==
    /\ At("user")
    /\ IF proc[hand.pid] # None /\ proc[hand.pid].user # None
       THEN hand' = [hand EXCEPT !.stage = "exe", !.user = proc[hand.pid].user]
       ELSE Cleanup
    /\ UNCHANGED <<hostVars, policyVars, tracked, cooling>>

\* pid_to_exe.
\* Seeded bug: a process that is gone by now is checked and tracked all the same.
ReadExeUnchecked ==
    /\ At("exe")
    /\ hand' = [hand EXCEPT !.stage = "args",
                            !.exe = IF proc[hand.pid] # None THEN proc[hand.pid].exe ELSE None]
    /\ UNCHANGED <<hostVars, policyVars, tracked, cooling>>

ReadExe ==
    /\ At("exe")
    /\ IF proc[hand.pid] # None
       THEN hand' = [hand EXCEPT !.stage = "args", !.exe = proc[hand.pid].exe]
       ELSE Cleanup
    /\ UNCHANGED <<hostVars, policyVars, tracked, cooling>>

\* pid_to_cmdline; without an answer the arguments are empty.
ReadArgs ==
    /\ At("args")
    /\ hand' = [hand EXCEPT !.stage = "cwd",
                            !.args = IF proc[hand.pid] # None THEN proc[hand.pid].args ELSE Bare]
    /\ UNCHANGED <<hostVars, policyVars, tracked, cooling>>

\* pid_to_cwd: where the process is now, which need not be where it executed.  The
\* code joins the two when it evaluates the rules; nothing in between changes them.
ReadCwd ==
    /\ At("cwd")
    /\ LET cwd == IF proc[hand.pid] # None THEN proc[hand.pid].cwd ELSE None
       IN  hand' = [hand EXCEPT !.stage = "overlay", !.script = Resolve(hand.args, cwd)]
    /\ UNCHANGED <<hostVars, policyVars, tracked, cooling>>

\* kill_pid: whatever process has the pid by now.
Kill(p) ==
    /\ hand' = Idle
    /\ proc' = [proc EXCEPT ![p] = None]
    /\ IF proc[p] # None THEN Report("exit", p) ELSE UNCHANGED <<queue, missed>>
    /\ due' = due \ {p} /\ moved' = moved \ {p}
    /\ UNCHANGED <<events, policyVars, tracked>>

\* check_approval_launch_block; should_emit decides whether the parent is asked, who
\* is asked only while there is still an overlay.
CheckOverlay ==
    /\ At("overlay")
    /\ ~OverlayBlocks(hand.user, hand.exe)
    /\ Goto("terminal")
    /\ UNCHANGED <<hostVars, policyVars, tracked, cooling>>

DenyByOverlay ==
    /\ At("overlay")
    /\ OverlayBlocks(hand.user, hand.exe)
    /\ cooling' = cooling \cup {hand.exe}
    /\ Kill(hand.pid)

\* check_terminal_exec_block.
CheckTerminal ==
    /\ At("terminal")
    /\ ~(terminal = hand.user /\ IsTerminal(hand.exe, hand.args))
    /\ Goto("rules")
    /\ UNCHANGED <<hostVars, policyVars, tracked, cooling>>

DenyTerminal ==
    /\ At("terminal")
    /\ terminal = hand.user /\ IsTerminal(hand.exe, hand.args)
    /\ Kill(hand.pid)
    /\ UNCHANGED cooling

CheckRules ==
    /\ At("rules")
    /\ Decision(hand.user, hand.exe, hand.script) # "blocked"
    /\ Goto("track")
    /\ UNCHANGED <<hostVars, policyVars, tracked, cooling>>

DenyByRule ==
    /\ At("rules")
    /\ Decision(hand.user, hand.exe, hand.script) = "blocked"
    /\ Kill(hand.pid)
    /\ UNCHANGED cooling

Track ==
    /\ At("track")
    /\ tracked' = IF Reportable(hand.user, hand.exe)
                  THEN [tracked EXCEPT ![hand.pid] = [user |-> hand.user, exe |-> hand.exe]]
                  ELSE tracked
    /\ Cleanup
    /\ UNCHANGED <<hostVars, policyVars, cooling>>

\* The end of the loop; every five minutes the pids without a process are dropped.  A
\* denied launch does not get here.
EndOfEvent ==
    /\ At("cleanup")
    /\ hand' = Idle
    /\ tracked' \in {tracked, [p \in Pids |-> IF proc[p] = None THEN None ELSE tracked[p]]}
    /\ UNCHANGED <<hostVars, policyVars, cooling>>

-----------------------------------------------------------------------------
(* The policies change *)

Change == changes < MaxChanges /\ changes' = changes + 1
OfUser(u) == {p \in Pids : proc[p] # None /\ proc[p].user = u}

\* AppArmorRuntime::update_user_policy: memory first, then the file, which may fail.
\* The cooldown ends for what is approved by its exact path.
Sync(u, list, o) ==
    /\ Change
    /\ rules' = [rules EXCEPT ![u] = list]
    /\ overlay' = [overlay EXCEPT ![u] = o]
    /\ saved' \in {saved, [saved EXCEPT ![u] = list]}
    /\ cooling' = IF o = None THEN cooling ELSE cooling \ o.approved
    /\ due' = due \ OfUser(u)
    /\ UNCHANGED <<proc, queue, missed, moved, events, terminal, hand, tracked>>

\* The device policy enforces another user or another policy (DevicePolicy).
SetTerminal(u) ==
    /\ Change
    /\ terminal' = u /\ u # terminal
    /\ due' = due \ IF u = None THEN {} ELSE OfUser(u)
    /\ UNCHANGED <<proc, queue, missed, moved, events, rules, saved, overlay, hand, tracked, cooling>>

\* COOLDOWN passes for a program.
Elapse(file) ==
    /\ file \in cooling
    /\ cooling' = cooling \ {file}
    /\ UNCHANGED <<hostVars, policyVars, hand, tracked>>

Host ==
    \/ \E p \in Pids, u \in Users \cup {None}, image \in Images, dir \in Dirs : Exec(p, u, image, dir)
    \/ \E p \in Pids, dir \in Dirs : Chdir(p, dir)
    \/ \E p, q \in Pids : Fork(p, q)
    \/ \E p \in Pids : Exit(p) \/ ThreadExit(p)

Monitor ==
    \/ ReceiveExec \/ ReceiveExit
    \/ ReadUser \/ ReadExe \/ ReadArgs \/ ReadCwd
    \/ CheckOverlay \/ DenyByOverlay
    \/ CheckTerminal \/ DenyTerminal
    \/ CheckRules \/ DenyByRule
    \/ Track
    \/ EndOfEvent

Policies ==
    \/ \E u \in Users, list \in Lists, o \in Overlays \cup {None} : Sync(u, list, o)
    \/ \E u \in Users \cup {None} : SetTerminal(u)
    \/ \E file \in Files : Elapse(file)

Next == Host \/ Monitor \/ Policies

Spec == Init /\ [][Next]_vars

-----------------------------------------------------------------------------
(* Properties *)

\* What the policies forbid, said without the order in which the task asks.
OverlayForbids(u, exe) ==
    /\ overlay[u] # None
    /\ \E id \in overlay[u].blocked : Covers(id, exe)
    /\ \A id \in overlay[u].approved : ~Covers(id, exe)

\* A blocked pattern covers the file, and no pattern inside it and no earlier rule
\* for the pattern allows it again.
PatternForbids(u, file) ==
    \E i \in PathRules(u, file) :
        /\ rules[u][i].preset = "blocked"
        /\ \A j \in PathRules(u, file) :
               /\ Under[rules[u][i].target] \subseteq Under[rules[u][j].target]
               /\ rules[u][j].target = rules[u][i].target => i <= j

Exempt(u, exe) ==
    \/ \E i \in DOMAIN rules[u] : rules[u][i] = [target |-> exe, preset |-> "complain"]
    \/ PathRules(u, exe) # {}

RulesForbid(u, exe, script) ==
    \/ PatternForbids(u, exe)
    \/ /\ exe \in Interpreters /\ script \in Files
       /\ PatternForbids(u, script)
       /\ ~Exempt(u, exe)

Forbidden(x, script) ==
    /\ x.user # None
    /\ \/ OverlayForbids(x.user, x.exe)
       \/ terminal = x.user /\ IsTerminal(x.exe, x.args)
       \/ RulesForbid(x.user, x.exe, script)

\* The script a process is answerable for: none it named by a relative name in a
\* directory it had left when the task read where it was.
Script(p) == IF p \in moved THEN None ELSE proc[p].script

\* When the task is done with the exec events of a process, the process does not run
\* what the policies forbid, whatever was executed, forked, ended and whichever
\* directory was left between the event and the reads.  Of its script it says nothing
\* if the process left its directory before the task read it: the code then judges the
\* file of that name in the other directory.  It says nothing of a process whose last
\* event was lost, of a child that executes nothing, nor once the policies have changed
\* (netlink.rs, the exec event).
NoForbiddenSurvives ==
    \A p \in due : hand.pid # p /\ ~Awaits("exec", p) => ~Forbidden(proc[p], Script(p))

\* A tracked pid belongs to a process that has run the tracked executable, or the event
\* of its end is still to come or was lost: usage is never charged to the program of an
\* earlier process with the same pid (netlink.rs, tracked).
TrackedIsOfThisProcess ==
    \A p \in Pids \ missed :
        tracked[p] # None /\ ~Awaits("exit", p) =>
            /\ proc[p] # None
            /\ proc[p].user = tracked[p].user
            /\ tracked[p].exe \in proc[p].ran

-----------------------------------------------------------------------------
(* The inductive invariant of the proofs (ExecMonitorProofs).                *)

\* The task has a pid in hand from the event to the last check, and a process
\* has run what it runs.
AtWork ==
    /\ hand.pid = None <=> hand.stage \in {"idle", "cleanup"}
    /\ hand.stage = "exe" => hand.user \in Users
RunsWhatItRan == \A p \in Pids : proc[p] # None => proc[p].exe \in proc[p].ran

\* What the task has read of a process whose end it has not missed is of the
\* process that has the pid now, unless the event of its end is still to come.
HandIsOfThisProcess ==
    \A p \in Pids \ missed :
        hand.pid = p /\ hand.stage # "user" /\ ~Awaits("exit", p) =>
            /\ proc[p] # None
            /\ proc[p].user = hand.user
            /\ hand.stage # "exe" => hand.exe \in proc[p].ran

\* What the task has read is what runs, unless another event is to come, and
\* the policies it has asked do not forbid it.
HandIsCurrent ==
    \A p \in due :
        hand.pid = p /\ ~Awaits("exec", p) =>
            /\ hand.stage # "user" => proc[p].user = hand.user
            /\ hand.stage \notin {"user", "exe"} => proc[p].exe = hand.exe
            /\ hand.stage \notin {"user", "exe", "args"} => proc[p].args = hand.args
            /\ hand.stage \in {"overlay", "terminal", "rules", "track"} =>
                   (p \notin moved => proc[p].script = hand.script)
            /\ hand.stage \in {"terminal", "rules", "track"} => ~OverlayForbids(hand.user, hand.exe)
            /\ hand.stage \in {"rules", "track"} =>
                   ~(terminal = hand.user /\ IsTerminal(hand.exe, hand.args))
            /\ hand.stage = "track" => ~RulesForbid(hand.user, hand.exe, hand.script)

\* Until the task has read the directory of a process that has not left it, its
\* argument there is the script it named.
ScriptIsThere ==
    \A p \in due \ moved : Unread(p) => proc[p].script = Resolve(proc[p].args, proc[p].cwd)

IInv ==
    /\ TypeOK
    /\ AtWork
    /\ RunsWhatItRan
    /\ HandIsOfThisProcess
    /\ TrackedIsOfThisProcess
    /\ ScriptIsThere
    /\ HandIsCurrent
    /\ NoForbiddenSurvives
=============================================================================
