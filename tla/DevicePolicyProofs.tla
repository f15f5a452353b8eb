------------------------ MODULE DevicePolicyProofs ------------------------
(***************************************************************************)
(* What holds of the device policy for any users, policies, browsers, faults *)
(* and restarts.                                                            *)
(***************************************************************************)
EXTENDS DevicePolicy, TLAPS

\* The user whose policy a reconcile puts in force.
Known == IF Managed THEN active ELSE None

\* How far the host is at each phase of a call.
JobInv ==
    /\ At("write") => Managed /\ rules = NoUsers
    /\ At("radio") => Managed /\ rules = RulesOf(active)
    /\ At("browsers") => enforced = Known /\ rules = RulesOf(Known) /\ radio = RadioOf(Known)
    /\ Calling("unenroll") => users = NoUsers
    /\ job # None /\ job.op # "refresh" /\ ~At("persist") => disk = users

\* How far the browsers are, unless a step failed.
BrowserInv ==
    faults = 0 /\ At("browsers") =>
        /\ job.token \/ users = NoUsers
        /\ \A b \in Browsers \ job.left : browsers[b] = ChromeOf(Known)

\* A process that is not there knows nothing; one that could not read its file has
\* met a failure.
IdleInv ==
    /\ ~running => job = None /\ ~reply.ok /\ active = None /\ enforced = None
    /\ running /\ ~restored => faults # 0

\* What an unenrolment has cleared stays clear, in memory as well.
Clear ==
    /\ users = NoUsers /\ disk = NoUsers
    /\ rules = NoUsers /\ ~radio
    /\ \A b \in Browsers : browsers[b] = None

ClearInv == faults = 0 /\ (Cleared \/ ~token) => Clear

\* Unless a step failed, memory is never between two policies when no call is under way.
SettledInv == job = None /\ faults = 0 => enforced = Known

\* Who is at the screen is what the runtime knows or is about to learn.
SeatInv ==
    running /\ ~stale /\ pending = NoSignal /\ faults = 0 =>
        /\ refresh = None => active = seat
        /\ Answered => refresh.answer = <<seat>>

IInv ==
    /\ TypeOK
    /\ JobInv
    /\ BrowserInv
    /\ IdleInv
    /\ ClearInv
    /\ SettledInv
    /\ SeatInv
    /\ RulesOfOneUser
    /\ OkIsEnforced

-----------------------------------------------------------------------------
(* Steps by what they leave alone *)

\* A step that leaves the runtime, the host and the files alone.
Outside == UNCHANGED <<memoryVars, hostVars, fileVars, callVars>> /\ faults' \in {faults, faults + 1}

Unrelated ==
    \/ Listener
    \/ \E s \in Signals, x \in Users \cup {None} : Announce(s, x)
    \/ \E x \in Users \cup {None} : Switch(x)
    \/ UNCHANGED vars

LEMMA OutsideSteps == Unrelated => Outside
  BY DEF Unrelated, Listener, Announce, Switch, Ask, AskFails, Take, Unresolved, Connect, Disconnect,
         Fault, vars, seatVars, memoryVars, hostVars, fileVars, callVars, Outside, Enter

\* A failure that ends the call.
Failure == PersistFails \/ RemoveFails \/ RfkillFails \/ WriteFails

LEMMA FailureSteps ==
  ASSUME Failure
  PROVE  /\ Fault
         /\ Return(job.op, FALSE) /\ job # None
         /\ UNCHANGED <<memoryVars, hostVars, fileVars, clearing, seatVars, refresh, restarts>>
  BY DEF Failure, PersistFails, RemoveFails, RfkillFails, WriteFails, At

LEMMA FaultCounts == TypeOK /\ Fault => faults' # 0
  BY DEF TypeOK, Fault

-----------------------------------------------------------------------------
(* Types *)

LEMMA FaultBound == TypeOK /\ Fault => faults' \in 0..MaxFaults
  BY DeviceBoundAssumption DEF TypeOK, Fault

LEMMA ChangeBound == TypeOK /\ Change => changes' \in 0..MaxChanges
  BY DeviceBoundAssumption DEF TypeOK, Change

LEMMA FailureTypes == TypeOK /\ Failure => TypeOK'
<1> SUFFICES ASSUME TypeOK, Failure PROVE TypeOK'
  OBVIOUS
<1>1. reply' \in [op : Ops \cup {None}, ok : BOOLEAN] /\ job' = None
  <2>1. job.op \in Ops
    BY FailureSteps DEF TypeOK, Job
  <2>2. job' = None /\ reply' = [op |-> job.op, ok |-> FALSE]
    BY FailureSteps DEF Return
  <2>3. QED
    BY <2>1, <2>2
<1>2. faults' \in 0..MaxFaults
  BY FailureSteps, FaultBound
<1>3. UNCHANGED <<memoryVars, hostVars, fileVars, clearing, seatVars, refresh, restarts>>
  BY FailureSteps
<1>4. QED
  BY <1>1, <1>2, <1>3 DEF TypeOK, memoryVars, hostVars, fileVars, seatVars

LEMMA CallTypes == TypeOK /\ Call => TypeOK'
<1> SUFFICES ASSUME TypeOK, Call PROVE TypeOK'
  OBVIOUS
<1> USE PayloadAssumption, DeviceBoundAssumption
<1> USE DEF TypeOK, Job, Ops, Phases, Question, NoUsers, Fault, Return, Started, Goto, Enter, Command, Loaded
<1>1. ASSUME NEW u \in Users, NEW p \in Payloads, Sync(u, p) PROVE TypeOK'
  BY <1>1 DEF Sync, hostVars, fileVars, seatVars
<1>2. CASE SetActive
  <2>1. refresh.answer[1] \in Users \cup {None}
    BY <1>2 DEF SetActive, Answered
  <2>2. QED
    BY <1>2, <2>1 DEF SetActive, hostVars, fileVars, seatVars
<1>3. CASE Unenroll
  BY <1>3 DEF Unenroll, hostVars, fileVars
<1>4. CASE RefreshUnread
  BY <1>4 DEF RefreshUnread, memoryVars, hostVars, fileVars, seatVars
<1>5. ASSUME NEW op \in {"sync", "unenroll"}, CommandUnread(op) PROVE TypeOK'
  BY <1>5 DEF CommandUnread, memoryVars, hostVars, fileVars, seatVars
<1>6. CASE Persist
  BY <1>6 DEF Persist, At, memoryVars, hostVars, seatVars
<1>7. CASE PersistFails
  BY <1>7, FailureTypes DEF Failure
<1>8. QED
  BY <1>1, <1>2, <1>3, <1>4, <1>5, <1>6, <1>7 DEF Call

LEMMA ReconcileTypes == TypeOK /\ JobInv /\ Reconcile => TypeOK'
<1> SUFFICES ASSUME TypeOK, JobInv, Reconcile PROVE TypeOK'
  OBVIOUS
<1> USE PayloadAssumption, DeviceBoundAssumption
<1> USE DEF TypeOK, Job, Ops, Phases, Fault, Return, Goto, At
<1>1. ASSUME NEW u \in Users, RemoveRules(u) PROVE TypeOK'
  BY <1>1 DEF RemoveRules, memoryVars, fileVars, callVars, seatVars
<1>2. CASE RemoveFails \/ RfkillFails \/ WriteFails
  BY <1>2, FailureTypes DEF Failure
<1>3. CASE Unblock
  BY <1>3 DEF Unblock, fileVars, seatVars
<1>4. CASE WriteRules
  <2>1. users[active] \in Payload /\ active \in Users
    BY <1>4, AbsentAssumption DEF WriteRules, JobInv, Managed
  <2>2. users[active].rules \in Rules
    BY <2>1 DEF Payload
  <2>3. rules' \in [Users -> (Rules \ {NoRules}) \cup {None}]
    BY <1>4, <2>1, <2>2 DEF WriteRules
  <2>4. QED
    BY <1>4, <2>3 DEF WriteRules, memoryVars, fileVars, seatVars
<1>5. CASE SetRadio
  <2>1. users[active] \in Payload /\ active \in Users
    BY <1>5, AbsentAssumption DEF SetRadio, JobInv, Managed
  <2>2. users[active].bluetooth \in BOOLEAN
    BY <2>1 DEF Payload
  <2>3. QED
    BY <1>5, <2>1, <2>2 DEF SetRadio, fileVars, seatVars
<1>6. CASE ConfigUnread
  <2>1. job' \in Job
    BY <1>6 DEF ConfigUnread
  <2>2. faults' \in 0..MaxFaults
    BY <1>6, FaultBound DEF ConfigUnread
  <2>3. QED
    BY <1>6, <2>1, <2>2 DEF ConfigUnread, memoryVars, hostVars, fileVars, seatVars
<1>7. ASSUME NEW b \in Browsers, SetBrowser(b) PROVE TypeOK'
  <2>1. Wanted \in Settings \cup {None}
    <3>1. CASE job.token /\ enforced # None
      <4>1. users[enforced] \in Payload
        BY <1>7, <3>1, AbsentAssumption DEF SetBrowser, JobInv, Known, Managed
      <4>2. QED
        BY <3>1, <4>1 DEF Wanted, Payload
    <3>2. QED
      BY <3>1 DEF Wanted
  <2>2. QED
    BY <1>7, <2>1 DEF SetBrowser, memoryVars, fileVars, seatVars
<1>8. ASSUME NEW b \in Browsers, SkipBrowser(b) PROVE TypeOK'
  BY <1>8 DEF SkipBrowser, memoryVars, hostVars, fileVars, seatVars
<1>9. CASE SetManifests
  BY <1>9 DEF SetManifests, memoryVars, fileVars, seatVars
<1>10. QED
  BY <1>1, <1>2, <1>3, <1>4, <1>5, <1>6, <1>7, <1>8, <1>9 DEF Reconcile

LEMMA OtherTypes ==
  TypeOK /\ (ClearToken \/ ClearTokenFails \/ Enroll \/ Listener \/ Host \/ UNCHANGED vars) => TypeOK'
<1> SUFFICES ASSUME TypeOK,
                    ClearToken \/ ClearTokenFails \/ Enroll \/ Listener \/ Host \/ UNCHANGED vars
             PROVE  TypeOK'
  OBVIOUS
<1> USE DeviceBoundAssumption DEF TypeOK, Question, Fault
<1>1. CASE ClearToken \/ ClearTokenFails \/ Enroll
  <2> USE DEF memoryVars, hostVars, fileVars, callVars, seatVars
  <2>1. CASE ClearToken
    BY <2>1 DEF ClearToken
  <2>2. CASE ClearTokenFails
    <3>1. faults' \in 0..MaxFaults
      BY <2>2, FaultBound DEF ClearTokenFails
    <3>2. QED
      BY <2>2, <3>1 DEF ClearTokenFails
  <2>3. CASE Enroll
    BY <2>3 DEF Enroll
  <2>4. QED
    BY <1>1, <2>1, <2>2, <2>3
<1>2. CASE Ask \/ AskFails \/ Unresolved \/ Connect \/ Disconnect
  <2> USE DEF memoryVars, hostVars, fileVars, callVars, seatVars, NoSignal, Signals
  <2>1. CASE Ask
    <3>1. refresh.by \in {"start"} \cup Signals
      BY <2>1 DEF Ask
    <3>2. refresh' = [by |-> refresh.by, answer |-> <<seat>>]
      BY <2>1 DEF Ask
    <3>3. <<seat>> \in {<<>>} \cup {<<x>> : x \in Users \cup {None}}
      OBVIOUS
    <3>4. refresh' \in [by : {"start"} \cup Signals,
                        answer : {<<>>} \cup {<<x>> : x \in Users \cup {None}}]
      BY <3>1, <3>2, <3>3
    <3>5. stale' \in BOOLEAN
      BY <2>1 DEF Ask
    <3>6. QED
      BY <2>1, <3>4, <3>5 DEF Ask
  <2>2. CASE AskFails
    BY <2>2 DEF AskFails
  <2>3. CASE Unresolved
    BY <2>3 DEF Unresolved
  <2>4. CASE Connect
    BY <2>4 DEF Connect
  <2>5. CASE Disconnect
    BY <2>5 DEF Disconnect
  <2>6. QED
    BY <1>2, <2>1, <2>2, <2>3, <2>4, <2>5
<1>3. ASSUME NEW s \in Signals, Take(s) PROVE TypeOK'
  BY <1>3 DEF Take, memoryVars, hostVars, fileVars, callVars
<1>4. ASSUME NEW s \in Signals, NEW x \in Users \cup {None}, Announce(s, x) PROVE TypeOK'
  <2>1. pending' \in [Signals -> Nat]
    BY <1>4 DEF Announce
  <2>2. changes' \in 0..MaxChanges
    BY <1>4, ChangeBound DEF Announce
  <2>3. seat' \in Users \cup {None} /\ stale' \in BOOLEAN
    BY <1>4 DEF Announce
  <2>4. UNCHANGED <<memoryVars, hostVars, fileVars, callVars, listening, refresh, faults, restarts>>
    BY <1>4 DEF Announce
  <2>5. QED
    BY <2>1, <2>2, <2>3, <2>4 DEF memoryVars, hostVars, fileVars, callVars
<1>5. ASSUME NEW x \in Users \cup {None}, Switch(x) PROVE TypeOK'
  BY <1>5 DEF Switch, Change, memoryVars, hostVars, fileVars, callVars
<1>6. CASE Start
  <2>1. users' \in [Users -> Payload \cup {None}] /\ restored' \in BOOLEAN /\ running'
    BY <1>6 DEF Start
  <2>2. refresh' \in {refresh, [by |-> "start", answer |-> <<>>]}
    BY <1>6 DEF Start
  <2>3. faults' \in 0..MaxFaults
    BY <1>6, FaultBound DEF Start
  <2>4. UNCHANGED <<active, enforced, hostVars, fileVars, callVars, seatVars, restarts>>
    BY <1>6 DEF Start
  <2>5. [by |-> "start", answer |-> <<>>] \in
            [by : {"start"} \cup Signals, answer : {<<>>} \cup {<<x>> : x \in Users \cup {None}}]
    OBVIOUS
  <2>6. refresh' \in
            [by : {"start"} \cup Signals, answer : {<<>>} \cup {<<x>> : x \in Users \cup {None}}] \cup {None}
    BY <2>2, <2>5
  <2>7. QED
    BY <2>1, <2>3, <2>4, <2>6 DEF hostVars, fileVars, callVars, seatVars
<1>7. CASE Crash
  <2>1. restarts' \in 0..MaxRestarts
    BY <1>7 DEF Crash
  <2>2. NoUsers \in [Users -> Payload \cup {None}] /\ NoSignal \in [Signals -> Nat]
    BY DEF NoUsers, NoSignal
  <2>3. NoReply \in [op : Ops \cup {None}, ok : BOOLEAN]
    BY DEF NoReply
  <2>4. QED
    BY <1>7, <2>1, <2>2, <2>3 DEF Crash, hostVars, fileVars
<1>8. CASE UNCHANGED vars
  BY <1>8 DEF vars, memoryVars, hostVars, fileVars, callVars, seatVars
<1>9. QED
  BY <1>1, <1>2, <1>3, <1>4, <1>5, <1>6, <1>7, <1>8 DEF Listener, Host

LEMMA TypesKept == TypeOK /\ JobInv /\ [Next]_vars => TypeOK'
  BY CallTypes, ReconcileTypes, OtherTypes DEF Next

-----------------------------------------------------------------------------
(* How far the host is *)

LEMMA JobKept == IInv /\ [Next]_vars => JobInv'
<1> SUFFICES ASSUME IInv, [Next]_vars PROVE JobInv'
  OBVIOUS
<1> USE DEF At, Calling, Goto
<1>0. TypeOK /\ JobInv /\ IdleInv
  BY DEF IInv
<1>1. CASE (\E u \in Users, p \in Payloads : Sync(u, p)) \/ SetActive \/ Unenroll
  <2>1. \/ job' = [op |-> "sync", phase |-> "persist", left |-> {}, token |-> FALSE, written |-> {}]
        \/ job' = [op |-> "refresh", phase |-> "remove", left |-> {}, token |-> FALSE, written |-> {}]
        \/ /\ job' = [op |-> "unenroll", phase |-> "persist", left |-> {}, token |-> FALSE, written |-> {}]
           /\ users' = NoUsers
    BY <1>1 DEF Sync, SetActive, Unenroll, Started
  <2>2. QED
    BY <2>1 DEF JobInv, NoUsers
<1>2. CASE \/ RefreshUnread \/ (\E op \in {"sync", "unenroll"} : CommandUnread(op))
           \/ Failure \/ SetManifests \/ Crash
  <2>1. job' = None
    BY <1>2, FailureSteps DEF RefreshUnread, CommandUnread, SetManifests, Crash, Return
  <2>2. QED
    BY <2>1 DEF JobInv
<1>3. CASE Persist
  BY <1>0, <1>3 DEF Persist, JobInv, memoryVars, hostVars, NoUsers, TypeOK, Job
<1>4. ASSUME NEW u \in Users, RemoveRules(u) PROVE JobInv'
  BY <1>0, <1>4 DEF RemoveRules, JobInv, memoryVars, fileVars, callVars, NoUsers
<1>5. CASE Unblock
  <2>1. CASE Managed
    BY <1>0, <1>5, <2>1 DEF Unblock, JobInv, fileVars, Managed, NoUsers, TypeOK, Job
  <2>2. CASE ~Managed
    <3>1. enforced' = None /\ radio' = FALSE /\ rules' = rules /\ rules = NoUsers
      BY <1>5, <2>2 DEF Unblock
    <3>2. Known' = None
      BY <1>5, <2>2 DEF Unblock, Known, Managed
    <3>3. RulesOf(None)' = NoUsers /\ RadioOf(None)' = FALSE
      BY AbsentAssumption DEF RulesOf, RadioOf, NoUsers
    <3>4. job' = [job EXCEPT !.phase = "browsers", !.left = Browsers, !.token = token]
      BY <1>5, <2>2 DEF Unblock
    <3>5. QED
      BY <1>0, <1>5, <3>1, <3>2, <3>3, <3>4 DEF Unblock, JobInv, fileVars, NoUsers, TypeOK, Job
  <2>3. QED
    BY <2>1, <2>2
<1>6. CASE WriteRules
  <2>1. Managed /\ rules = NoUsers
    BY <1>0, <1>6 DEF WriteRules, JobInv
  <2>2. rules' = RulesOf(active)'
    BY <1>0, <1>6, <2>1 DEF WriteRules, RulesOf, NoUsers, memoryVars, TypeOK, Managed
  <2>3. QED
    BY <1>0, <1>6, <2>1, <2>2 DEF WriteRules, JobInv, memoryVars, fileVars, Managed, NoUsers, TypeOK, Job
<1>7. CASE SetRadio
  <2>1. Managed /\ rules = RulesOf(active)
    BY <1>0, <1>7 DEF SetRadio, JobInv
  <2>2. Known' = active /\ enforced' = active
    BY <1>7, <2>1 DEF SetRadio, Known, Managed
  <2>3. active' = active /\ users' = users /\ rules' = rules /\ radio' = users[active].bluetooth
    BY <1>7 DEF SetRadio
  <2>4. rules' = RulesOf(active)' /\ radio' = RadioOf(active)'
    <3>1. rules' = RulesOf(active)'
      BY <2>1, <2>3 DEF RulesOf
    <3>2. radio' = RadioOf(active)'
      <4>1. users[active] \in Payload
        BY <1>0, <2>1, AbsentAssumption DEF Managed, TypeOK
      <4>2. QED
        BY <2>1, <2>3, <4>1 DEF RadioOf, Managed, Payload
    <3>3. QED
      BY <3>1, <3>2
  <2>5. rules' = RulesOf(Known)' /\ radio' = RadioOf(Known)' /\ enforced' = Known'
    BY <2>2, <2>3, <2>4 DEF RulesOf, RadioOf
  <2>6. job' = [job EXCEPT !.phase = "browsers", !.left = Browsers, !.token = token]
    BY <1>7 DEF SetRadio
  <2>7. QED
    BY <1>0, <1>7, <2>5, <2>6 DEF SetRadio, JobInv, fileVars, NoUsers, TypeOK, Job
<1>8. CASE ConfigUnread \/ (\E b \in Browsers : SetBrowser(b) \/ SkipBrowser(b))
  <2>1. At("browsers") /\ job'.phase = "browsers" /\ job'.op = job.op
    BY <1>0, <1>8 DEF ConfigUnread, SetBrowser, SkipBrowser, TypeOK, Job
  <2>2. UNCHANGED <<memoryVars, rules, radio, fileVars>>
    BY <1>8 DEF ConfigUnread, SetBrowser, SkipBrowser, hostVars
  <2>3. QED
    BY <1>0, <2>1, <2>2 DEF JobInv, Known, Managed, RulesOf, RadioOf, memoryVars, fileVars, NoUsers
<1>9. CASE ClearToken \/ ClearTokenFails \/ Enroll \/ Unrelated
  <2>1. UNCHANGED <<memoryVars, hostVars, disk, job>>
    BY <1>9, OutsideSteps DEF ClearToken, ClearTokenFails, Enroll, Outside, fileVars, callVars
  <2>2. QED
    BY <1>0, <2>1 DEF JobInv, Known, Managed, RulesOf, RadioOf, memoryVars, hostVars, NoUsers
<1>10. CASE Start
  BY <1>0, <1>10 DEF Start, JobInv, IdleInv, callVars
<1>11. QED
  BY <1>1, <1>2, <1>3, <1>4, <1>5, <1>6, <1>7, <1>8, <1>9, <1>10
     DEF Next, Call, Reconcile, Host, Unrelated, Failure
LEMMA BrowsersKept == IInv /\ [Next]_vars => BrowserInv'
<1> SUFFICES ASSUME IInv, [Next]_vars PROVE BrowserInv'
  OBVIOUS
<1> USE DEF At, Goto
<1>0. TypeOK /\ JobInv /\ BrowserInv /\ ClearInv /\ IdleInv
  BY DEF IInv
<1>1. CASE (\E u \in Users, p \in Payloads : Sync(u, p)) \/ SetActive \/ Unenroll
  BY <1>1 DEF Sync, SetActive, Unenroll, Started, BrowserInv
<1>2. CASE \/ RefreshUnread \/ (\E op \in {"sync", "unenroll"} : CommandUnread(op))
           \/ Failure \/ SetManifests \/ Crash
  BY <1>2, FailureSteps DEF RefreshUnread, CommandUnread, SetManifests, Crash, Return, BrowserInv
<1>3. CASE Persist \/ WriteRules \/ (\E u \in Users : RemoveRules(u))
  BY <1>0, <1>3 DEF Persist, WriteRules, RemoveRules, callVars, BrowserInv, TypeOK, Job
<1>4. CASE (Unblock /\ ~Managed) \/ SetRadio
  <2>1. job' = [job EXCEPT !.phase = "browsers", !.left = Browsers, !.token = token]
    BY <1>4 DEF Unblock, SetRadio
  <2>2. job'.token = token /\ job'.left = Browsers
    BY <1>0, <1>4, <2>1 DEF Unblock, SetRadio, TypeOK, Job
  <2>3. UNCHANGED <<users, faults>>
    BY <1>4 DEF Unblock, SetRadio
  <2>4. QED
    BY <1>0, <2>2, <2>3 DEF BrowserInv, ClearInv, Clear, NoUsers
<1>5. CASE Unblock /\ Managed
  BY <1>0, <1>5 DEF Unblock, BrowserInv, TypeOK, Job
<1>6. CASE ConfigUnread \/ (\E b \in Browsers : SkipBrowser(b)) \/ ClearTokenFails
  <2>1. faults' # 0
    BY <1>0, <1>6, FaultCounts DEF ConfigUnread, SkipBrowser, ClearTokenFails
  <2>2. QED
    BY <2>1 DEF BrowserInv
<1>7. ASSUME NEW b \in Browsers, SetBrowser(b) PROVE BrowserInv'
  <2>1. Wanted = ChromeOf(Known) \/ (~job.token /\ users # NoUsers)
    <3>1. enforced = Known
      BY <1>0, <1>7 DEF SetBrowser, JobInv
    <3>2. users = NoUsers => Known = None
      BY <1>0 DEF Known, Managed, NoUsers, TypeOK
    <3>3. QED
      BY <3>1, <3>2 DEF Wanted, ChromeOf
  <2>2. job.token = job'.token /\ job'.left = job.left \ {b} /\ At("browsers")
    BY <1>0, <1>7 DEF SetBrowser, TypeOK, Job
  <2>3. browsers' = [browsers EXCEPT ![b] = Wanted] /\ UNCHANGED <<memoryVars, faults>>
    BY <1>7 DEF SetBrowser
  <2>4. Known' = Known /\ ChromeOf(Known)' = ChromeOf(Known)
    BY <2>3 DEF Known, Managed, ChromeOf, memoryVars
  <2>5. ASSUME faults' = 0 PROVE /\ job'.token \/ users' = NoUsers
                                /\ \A c \in Browsers \ job'.left : browsers'[c] = ChromeOf(Known)'
    BY <1>0, <2>1, <2>2, <2>3, <2>4, <2>5 DEF BrowserInv, TypeOK, memoryVars, NoUsers
  <2>6. QED
    BY <2>5 DEF BrowserInv, NoUsers
<1>8. CASE ClearToken \/ Enroll
  BY <1>0, <1>8 DEF ClearToken, Enroll, BrowserInv, Known, Managed, ChromeOf, memoryVars, hostVars,
                   callVars, NoUsers
<1>9. CASE Unrelated
  <2>1. UNCHANGED <<memoryVars, hostVars, job>> /\ (faults' = 0 => faults = 0)
    BY <1>0, <1>9, OutsideSteps DEF Outside, callVars, TypeOK
  <2>2. QED
    BY <1>0, <2>1 DEF BrowserInv, Known, Managed, ChromeOf, memoryVars, hostVars, NoUsers
<1>10. CASE Start
  BY <1>0, <1>10 DEF Start, BrowserInv, IdleInv, callVars
<1>11. QED
  BY <1>1, <1>2, <1>3, <1>4, <1>5, <1>6, <1>7, <1>8, <1>9, <1>10
     DEF Next, Call, Reconcile, Host, Unrelated, Failure

LEMMA IdleKept == IInv /\ [Next]_vars => IdleInv'
<1> SUFFICES ASSUME IInv, [Next]_vars PROVE IdleInv'
  OBVIOUS
<1>0. TypeOK /\ IdleInv
  BY DEF IInv
<1>1. CASE Call \/ Reconcile \/ ClearToken \/ ClearTokenFails
  <2>1. running /\ running' = running /\ (restored => restored')
    <3>0. job # None => running
      BY <1>0 DEF IdleInv
    <3>1. CASE Call
      <4>1. CASE Persist \/ PersistFails \/ RefreshUnread \/ \E op \in {"sync", "unenroll"} : CommandUnread(op)
        <5>1. running
          BY <3>0, <4>1 DEF Persist, PersistFails, RefreshUnread, CommandUnread, Command, Enter, At
        <5>2. running' = running /\ restored' = restored
          BY <4>1 DEF Persist, PersistFails, RefreshUnread, CommandUnread, memoryVars
        <5>3. QED
          BY <5>1, <5>2
      <4>2. CASE (\E u \in Users, p \in Payloads : Sync(u, p)) \/ SetActive \/ Unenroll
        <5>1. running
          BY <4>2 DEF Sync, SetActive, Unenroll, Command, Enter
        <5>2. running' = running /\ restored' = TRUE
          BY <4>2 DEF Sync, SetActive, Unenroll
        <5>3. QED
          BY <5>1, <5>2
      <4>3. QED
        BY <3>1, <4>1, <4>2 DEF Call
    <3>2. CASE Reconcile
      <4>1. job # None
        BY <3>2 DEF Reconcile, RemoveRules, RemoveFails, Unblock, RfkillFails, WriteRules,
              WriteFails, SetRadio, ConfigUnread, SetBrowser, SkipBrowser, SetManifests, At
      <4>2. running' = running /\ restored' = restored
        BY <3>2 DEF Reconcile, RemoveRules, RemoveFails, Unblock, RfkillFails, WriteRules,
              WriteFails, SetRadio, ConfigUnread, SetBrowser, SkipBrowser, SetManifests, memoryVars
      <4>3. QED
        BY <3>0, <4>1, <4>2
    <3>3. QED
      BY <1>1, <3>1, <3>2 DEF ClearToken, ClearTokenFails, memoryVars
  <2>2. faults # 0 => faults' # 0
    <3>1. faults' = faults \/ Fault
      BY <1>1 DEF Call, Sync, SetActive, Unenroll, RefreshUnread, CommandUnread, Persist,
              PersistFails, Reconcile, RemoveRules, RemoveFails, Unblock, RfkillFails, WriteRules,
              WriteFails, SetRadio, ConfigUnread, SetBrowser, SkipBrowser, SetManifests,
              ClearToken, ClearTokenFails
    <3>2. QED
      BY <1>0, <3>1, FaultCounts
  <2>3. QED
    BY <1>0, <2>1, <2>2 DEF IdleInv
<1>2. CASE Enroll \/ Unrelated
  <2>1. UNCHANGED <<memoryVars, callVars>> /\ (faults # 0 => faults' # 0)
    BY <1>0, <1>2, OutsideSteps DEF Enroll, Outside, TypeOK
  <2>2. QED
    BY <1>0, <2>1 DEF IdleInv, memoryVars, callVars
<1>3. CASE Start
  BY <1>0, <1>3, FaultCounts DEF Start, IdleInv
<1>4. CASE Crash
  BY <1>4 DEF Crash, IdleInv, NoReply
<1>5. QED
  BY <1>1, <1>2, <1>3, <1>4 DEF Next, Host, Unrelated
\* The steps at which the call goes on.
GoesOn ==
    \/ Persist \/ Unblock \/ WriteRules \/ SetRadio \/ ConfigUnread
    \/ \E u \in Users : RemoveRules(u)
    \/ \E b \in Browsers : SetBrowser(b) \/ SkipBrowser(b)

LEMMA GoesOnSteps ==
  ASSUME TypeOK, GoesOn
  PROVE  /\ job \in Job /\ job' # None /\ job'.op = job.op
         /\ UNCHANGED <<running, restored, users, active, token, reply, clearing, seatVars, refresh>>
<1>1. job \in Job
  BY DEF TypeOK, GoesOn, Persist, Unblock, WriteRules, SetRadio, ConfigUnread, RemoveRules,
         SetBrowser, SkipBrowser, At
<1>2. UNCHANGED <<running, restored, users, active, token, reply, clearing, seatVars, refresh>>
  BY DEF GoesOn, Persist, Unblock, WriteRules, SetRadio, ConfigUnread, RemoveRules, SetBrowser,
         SkipBrowser, memoryVars, fileVars, callVars
<1>3. job' \in Job /\ job'.op = job.op
  <2>1. CASE \E u \in Users : RemoveRules(u)
    BY <1>1, <2>1 DEF RemoveRules, callVars
  <2>2. job.left \subseteq Browsers /\ token \in BOOLEAN
    BY <1>1 DEF Job, TypeOK
  <2>3. CASE Persist
    BY <1>1, <2>3 DEF Persist, Goto, Job, Phases
  <2>4. CASE Unblock
    BY <1>1, <2>2, <2>4 DEF Unblock, Goto, Job, Phases
  <2>5. CASE WriteRules
    BY <1>1, <2>5 DEF WriteRules, Goto, Job, Phases
  <2>6. CASE SetRadio
    BY <1>1, <2>6, <2>2 DEF SetRadio, Goto, Job, Phases
  <2>7. CASE ConfigUnread
    BY <1>1, <2>7 DEF ConfigUnread, Job
  <2>8. ASSUME NEW b \in Browsers, SetBrowser(b) \/ SkipBrowser(b) PROVE job' \in Job /\ job'.op = job.op
    BY <1>1, <2>8 DEF SetBrowser, SkipBrowser, Job
  <2>9. QED
    BY <2>1, <2>3, <2>4, <2>5, <2>6, <2>7, <2>8 DEF GoesOn
<1>4. QED
  BY <1>1, <1>2, <1>3, IdleAssumption

\* The steps at which a call begins.
LEMMA BeginSteps ==
  ASSUME (\E u \in Users, p \in Payloads : Sync(u, p)) \/ SetActive \/ Unenroll
  PROVE  job' # None
<1>1. PICK op \in Ops, phase \in Phases : Started(op, phase)
  BY DEF Sync, SetActive, Unenroll, Ops, Phases
<1>2. job' \in Job
  BY <1>1 DEF Started, Job
<1>3. QED
  BY <1>2, IdleAssumption

-----------------------------------------------------------------------------
(* Unenrolment *)

LEMMA ClearKept == IInv /\ [Next]_vars => ClearInv'
<1> SUFFICES ASSUME IInv, [Next]_vars, faults' = 0, Cleared' \/ ~token' PROVE Clear'
  BY DEF ClearInv
<1>0. TypeOK /\ JobInv /\ BrowserInv /\ ClearInv /\ IdleInv
  BY DEF IInv
<1>1. faults \in Nat /\ (Fault => FALSE)
  BY <1>0, FaultCounts DEF TypeOK
<1>2. CASE \E u \in Users, p \in Payloads : Sync(u, p)
  BY <1>2 DEF Sync, Command, Cleared, fileVars
<1>3. CASE Unenroll
  <2>1. Calling("unenroll")'
    BY <1>3, BeginSteps DEF Unenroll, Started, Calling
  <2>2. QED
    BY <1>3, <2>1 DEF Unenroll, Command, Cleared, fileVars
<1>4. CASE SetActive
  <2>1. faults = 0 /\ (Cleared \/ ~token)
    BY <1>4 DEF SetActive, Cleared, Calling, Enter, fileVars
  <2>2. QED
    BY <1>0, <1>4, <2>1 DEF SetActive, Loaded, ClearInv, Clear, NoUsers, hostVars, fileVars
<1>5. CASE RefreshUnread \/ \E op \in {"sync", "unenroll"} : CommandUnread(op)
  BY <1>0, <1>5 DEF RefreshUnread, CommandUnread, Command, Enter, IdleInv
<1>6. CASE Failure \/ ConfigUnread \/ (\E b \in Browsers : SkipBrowser(b)) \/ ClearTokenFails
  BY <1>1, <1>6, FailureSteps DEF ConfigUnread, SkipBrowser, ClearTokenFails
<1>7. CASE GoesOn /\ ~ConfigUnread /\ ~(\E b \in Browsers : SkipBrowser(b))
  <2>1. faults = 0
    BY <1>7 DEF GoesOn, Persist, Unblock, WriteRules, SetRadio, RemoveRules, SetBrowser
  <2>2. Cleared \/ ~token
    BY <1>0, <1>7, GoesOnSteps, IdleAssumption DEF Cleared, Calling
  <2>3. Clear /\ ~Managed
    BY <1>0, <2>1, <2>2 DEF ClearInv, Clear, Managed, NoUsers, TypeOK
  <2>4. CASE Persist
    BY <2>3, <2>4 DEF Persist, Clear, NoUsers, memoryVars, hostVars
  <2>5. CASE Unblock
    BY <2>3, <2>5 DEF Unblock, Clear, NoUsers, fileVars
  <2>6. CASE WriteRules \/ SetRadio
    BY <1>0, <2>3, <2>6 DEF WriteRules, SetRadio, JobInv
  <2>7. ASSUME NEW u \in Users, RemoveRules(u) PROVE FALSE
    BY <2>3, <2>7 DEF RemoveRules, Clear, NoUsers
  <2>8. ASSUME NEW b \in Browsers, SetBrowser(b) PROVE Clear'
    <3>1. Wanted = None
      BY <1>0, <2>3, <2>8 DEF SetBrowser, JobInv, Known, Wanted
    <3>2. QED
      BY <1>0, <2>3, <2>8, <3>1 DEF SetBrowser, Clear, NoUsers, TypeOK, memoryVars, fileVars
  <2>9. QED
    BY <1>7, <2>4, <2>5, <2>6, <2>7, <2>8 DEF GoesOn
<1>8. CASE SetManifests
  <2>1. faults = 0 /\ UNCHANGED <<memoryVars, rules, radio, browsers, fileVars, clearing>>
    BY <1>8 DEF SetManifests
  <2>2. CASE Cleared \/ ~token
    BY <1>0, <2>1, <2>2 DEF ClearInv, Clear, NoUsers, memoryVars, fileVars
  <2>3. CASE ~Cleared /\ token
    <3>1. Calling("unenroll") /\ At("browsers") /\ job.left = {}
      BY <1>8, <2>1, <2>3 DEF SetManifests, Cleared, fileVars
    <3>2. users = NoUsers /\ disk = NoUsers
      BY <1>0, <3>1 DEF JobInv, Calling, At
    <3>3. Known = None
      BY <1>0, <3>2 DEF Known, Managed, NoUsers, TypeOK
    <3>4. rules = RulesOf(None) /\ radio = RadioOf(None)
      BY <1>0, <3>1, <3>3 DEF JobInv
    <3>5. rules = NoUsers /\ ~radio
      BY <3>4, AbsentAssumption DEF RulesOf, RadioOf, NoUsers
    <3>6. \A b \in Browsers : browsers[b] = None
      BY <1>0, <2>1, <3>1, <3>3 DEF BrowserInv, ChromeOf
    <3>7. QED
      BY <2>1, <3>2, <3>5, <3>6 DEF Clear, NoUsers, memoryVars, fileVars
  <2>4. QED
    BY <2>2, <2>3
<1>9. CASE ClearToken \/ Enroll
  <2>1. Cleared \/ ~token
    BY <1>9 DEF ClearToken, Enroll
  <2>2. faults = 0 /\ UNCHANGED <<memoryVars, hostVars, disk>>
    BY <1>9 DEF ClearToken, Enroll
  <2>3. QED
    BY <1>0, <2>1, <2>2 DEF ClearInv, Clear, NoUsers, memoryVars, hostVars
<1>10. CASE Unrelated
  <2>1. faults = 0 /\ UNCHANGED <<memoryVars, hostVars, fileVars, callVars>>
    BY <1>1, <1>10, OutsideSteps DEF Outside
  <2>2. QED
    BY <1>0, <2>1 DEF ClearInv, Clear, Cleared, Calling, NoUsers, memoryVars, hostVars, fileVars, callVars
<1>11. CASE Start
  <2>1. faults = 0 /\ users' = disk /\ UNCHANGED <<hostVars, fileVars, callVars>>
    BY <1>1, <1>11 DEF Start
  <2>2. QED
    BY <1>0, <2>1 DEF ClearInv, Clear, Cleared, Calling, NoUsers, hostVars, fileVars, callVars
<1>12. CASE Crash
  <2>1. ~token /\ faults = 0 /\ users' = NoUsers /\ UNCHANGED <<hostVars, fileVars>>
    BY <1>12 DEF Crash, Cleared, fileVars
  <2>2. QED
    BY <1>0, <2>1 DEF ClearInv, Clear, NoUsers, hostVars, fileVars
<1>13. QED
  BY <1>2, <1>3, <1>4, <1>5, <1>6, <1>7, <1>8, <1>9, <1>10, <1>11, <1>12
     DEF Next, Call, Reconcile, Host, Unrelated, Failure, GoesOn
-----------------------------------------------------------------------------
(* Who is enforced, and who is at the screen *)

LEMMA SettledKept == IInv /\ [Next]_vars => SettledInv'
<1> SUFFICES ASSUME IInv, [Next]_vars, job' = None, faults' = 0 PROVE (enforced = Known)'
  BY DEF SettledInv
<1>0. TypeOK /\ JobInv /\ SettledInv /\ IdleInv
  BY DEF IInv
<1>1. faults \in Nat /\ (Fault => FALSE)
  BY <1>0, FaultCounts DEF TypeOK
<1>2. CASE (\E u \in Users, p \in Payloads : Sync(u, p)) \/ SetActive \/ Unenroll
  BY <1>2, BeginSteps
<1>3. CASE GoesOn
  BY <1>0, <1>3, GoesOnSteps
<1>4. CASE SetManifests
  BY <1>0, <1>4 DEF SetManifests, JobInv, Known, Managed, memoryVars
<1>5. CASE \/ RefreshUnread \/ (\E op \in {"sync", "unenroll"} : CommandUnread(op))
           \/ ClearToken \/ Enroll \/ Unrelated
  <2>1. faults' \in {faults, faults + 1} /\ job = None /\ UNCHANGED memoryVars
    <3>1. CASE RefreshUnread \/ \E op \in {"sync", "unenroll"} : CommandUnread(op)
      BY <3>1 DEF RefreshUnread, CommandUnread, Enter, Command
    <3>2. CASE ClearToken \/ Enroll
      BY <3>2 DEF ClearToken, Enroll, callVars
    <3>3. CASE Unrelated
      BY <3>3, OutsideSteps DEF Outside, callVars
    <3>4. QED
      BY <1>5, <3>1, <3>2, <3>3
  <2>2. faults = 0
    BY <1>1, <2>1
  <2>3. QED
    BY <1>0, <2>1, <2>2 DEF SettledInv, Known, Managed, memoryVars
<1>6. CASE Failure \/ ClearTokenFails
  BY <1>1, <1>6, FailureSteps DEF ClearTokenFails
<1>7. CASE Start \/ Crash
  BY <1>0, <1>7 DEF Start, Crash, IdleInv, Known, Managed
<1>8. QED
  BY <1>2, <1>3, <1>4, <1>5, <1>6, <1>7 DEF Next, Call, Reconcile, Host, Unrelated, Failure, GoesOn

LEMMA SeatKept == IInv /\ [Next]_vars => SeatInv'
<1> SUFFICES ASSUME IInv, [Next]_vars, running', ~stale', (pending = NoSignal)', faults' = 0
             PROVE  /\ refresh' = None => active' = seat'
                    /\ Answered' => refresh'.answer = <<seat'>>
  BY DEF SeatInv
<1>0. TypeOK /\ SeatInv /\ IdleInv
  BY DEF IInv
<1>1. faults \in Nat /\ (Fault => FALSE)
  BY <1>0, FaultCounts DEF TypeOK
<1>2. CASE \/ \E u \in Users, p \in Payloads : Sync(u, p)
           \/ GoesOn \/ SetManifests \/ ClearToken \/ Enroll \/ UNCHANGED vars
  <2>1. UNCHANGED <<running, active, seatVars, refresh>>
    BY <1>0, <1>2, GoesOnSteps DEF Sync, SetManifests, ClearToken, Enroll, vars, memoryVars
  <2>2. faults = 0
    BY <1>1, <1>2 DEF Sync, GoesOn, Persist, Unblock, WriteRules, SetRadio, ConfigUnread, RemoveRules,
            SetBrowser, SkipBrowser, SetManifests, ClearToken, Enroll, vars
  <2>3. QED
    BY <1>0, <2>1, <2>2 DEF SeatInv, Answered, seatVars, NoSignal
<1>3. CASE SetActive
  <2>1. refresh' = None /\ active' = refresh.answer[1] /\ Answered
    BY <1>3 DEF SetActive
  <2>2. refresh.answer = <<seat>> /\ seat' = seat
    BY <1>0, <1>3, <2>1 DEF SetActive, SeatInv, seatVars, NoSignal
  <2>3. QED
    BY <2>1, <2>2 DEF Answered
<1>4. CASE Unenroll \/ Crash \/ \E x \in Users \cup {None} : Switch(x)
  BY <1>4 DEF Unenroll, Crash, Switch
<1>5. CASE RefreshUnread \/ \E op \in {"sync", "unenroll"} : CommandUnread(op)
  BY <1>0, <1>5 DEF RefreshUnread, CommandUnread, Command, Enter, IdleInv
<1>6. CASE Failure \/ ClearTokenFails \/ AskFails \/ Unresolved
  BY <1>1, <1>6, FailureSteps DEF ClearTokenFails, AskFails, Unresolved
<1>7. CASE Ask
  <2>1. refresh \in Question /\ refresh' = [refresh EXCEPT !.answer = <<seat>>] /\ seat' = seat
    BY <1>0, <1>7 DEF Ask, TypeOK
  <2>2. seat \in Users \cup {None}
    BY <1>0 DEF TypeOK
  <2>3. <<seat>> \in {<<>>} \cup {<<x>> : x \in Users \cup {None}}
    BY <2>2
  <2>4. refresh' \in Question /\ refresh'.answer = <<seat>>
    BY <2>1, <2>3 DEF Question
  <2>5. QED
    BY <2>1, <2>4, IdleAssumption
<1>8. ASSUME NEW s \in Signals, Take(s)
      PROVE  /\ refresh' = None => active' = seat'
             /\ Answered' => refresh'.answer = <<seat'>>
  <2>1. refresh' = [by |-> s, answer |-> <<>>]
    BY <1>8 DEF Take
  <2>2. refresh' \in Question /\ refresh'.answer = <<>>
    BY <2>1 DEF Question
  <2>3. QED
    BY <2>2, IdleAssumption DEF Answered
<1>9. CASE Connect \/ Disconnect
  <2>1. /\ ~stale /\ pending = NoSignal /\ refresh' = refresh /\ seat' = seat /\ faults = 0
        /\ active' = active /\ running' = running
    <3>1. CASE Connect
      BY <3>1 DEF Connect, memoryVars, NoSignal
    <3>2. CASE Disconnect
      <4>1. stale' = (stale \/ pending # NoSignal \/ refresh' # refresh)
        BY <3>2 DEF Disconnect
      <4>2. ~stale /\ pending = NoSignal /\ refresh' = refresh
        BY <4>1
      <4>3. QED
        BY <3>2, <4>2 DEF Disconnect, memoryVars
    <3>3. QED
      BY <1>9, <3>1, <3>2
  <2>2. QED
    BY <1>0, <2>1 DEF SeatInv, Answered
<1>10. ASSUME NEW s \in Signals, NEW x \in Users \cup {None}, Announce(s, x) PROVE FALSE
  <2>1. pending' = [pending EXCEPT ![s] = @ + 1]
    BY <1>10 DEF Announce
  <2>2. pending'[s] # 0
    BY <1>0, <2>1 DEF TypeOK
  <2>3. QED
    BY <2>2 DEF NoSignal
<1>11. CASE Start
  <2>1. refresh' = [by |-> "start", answer |-> <<>>]
    BY <1>1, <1>11 DEF Start
  <2>2. refresh' \in Question /\ refresh'.answer = <<>>
    BY <2>1 DEF Question
  <2>3. QED
    BY <2>2, IdleAssumption DEF Answered
<1>12. QED
  BY <1>2, <1>3, <1>4, <1>5, <1>6, <1>7, <1>8, <1>9, <1>10, <1>11
     DEF Next, Call, Reconcile, Host, Listener, Failure, GoesOn

-----------------------------------------------------------------------------
(* The host after a call, and between its steps *)

LEMMA OneUserKept == IInv /\ [Next]_vars => RulesOfOneUser'
<1> SUFFICES ASSUME IInv, [Next]_vars PROVE RulesOfOneUser'
  OBVIOUS
<1>0. TypeOK /\ JobInv /\ RulesOfOneUser
  BY DEF IInv
<1>1. ASSUME NEW u \in Users, RemoveRules(u) PROVE RulesOfOneUser'
  BY <1>0, <1>1 DEF RemoveRules, RulesOfOneUser, TypeOK
<1>2. CASE WriteRules
  <2>1. rules = NoUsers
    BY <1>0, <1>2 DEF WriteRules, JobInv
  <2>2. \A v \in Users : rules'[v] # None => v = active
    BY <1>2, <2>1 DEF WriteRules, NoUsers
  <2>3. QED
    BY <2>2 DEF RulesOfOneUser
<1>3. CASE rules' = rules
  BY <1>0, <1>3 DEF RulesOfOneUser
<1>4. CASE Unrelated \/ Failure
  BY <1>3, <1>4, OutsideSteps, FailureSteps DEF Outside, hostVars
<1>5. QED
  BY <1>1, <1>2, <1>3, <1>4
     DEF Next, Call, Reconcile, Host, Unrelated, Failure, Sync, SetActive, Unenroll, RefreshUnread,
         CommandUnread, Persist, Unblock, SetRadio, ConfigUnread, SetBrowser, SkipBrowser,
         SetManifests, ClearToken, ClearTokenFails, Enroll, Start, Crash, hostVars

LEMMA OkKept == IInv /\ [Next]_vars => OkIsEnforced'
<1> SUFFICES ASSUME IInv, [Next]_vars, job' = None, reply'.ok PROVE OkIsEnforced'
  BY DEF OkIsEnforced
<1>0. TypeOK /\ JobInv /\ BrowserInv /\ IdleInv /\ OkIsEnforced
  BY DEF IInv
<1>1. CASE (\E u \in Users, p \in Payloads : Sync(u, p)) \/ SetActive \/ Unenroll \/ GoesOn
  BY <1>0, <1>1, BeginSteps, GoesOnSteps
<1>2. CASE Failure \/ RefreshUnread \/ (\E op \in {"sync", "unenroll"} : CommandUnread(op)) \/ Crash
  BY <1>2, FailureSteps DEF RefreshUnread, CommandUnread, Crash, Return, NoReply
<1>3. CASE Start
  BY <1>0, <1>3 DEF Start, IdleInv, callVars
<1>4. CASE SetManifests
  <2>1. At("browsers") /\ job.left = {} /\ reply'.op = job.op
    BY <1>4 DEF SetManifests, Return
  <2>2. UNCHANGED <<memoryVars, rules, radio, browsers, fileVars, faults>>
    BY <1>4 DEF SetManifests
  <2>3. enforced = Known /\ rules = RulesOf(Known) /\ radio = RadioOf(Known)
    BY <1>0, <2>1 DEF JobInv
  <2>4. faults = 0 => \A b \in Browsers : browsers[b] = ChromeOf(Known)
    BY <1>0, <2>1 DEF BrowserInv
  <2>5. job.op # "refresh" => disk = users
    BY <1>0, <2>1 DEF JobInv, At
  <2>6. QED
    BY <2>1, <2>2, <2>3, <2>4, <2>5
       DEF OkIsEnforced, Known, Managed, RulesOf, RadioOf, ChromeOf, memoryVars, fileVars
<1>5. CASE ClearToken \/ ClearTokenFails \/ Enroll \/ Unrelated
  <2>1. UNCHANGED <<memoryVars, hostVars, disk, job, reply>>
    BY <1>5, OutsideSteps DEF ClearToken, ClearTokenFails, Enroll, Outside, fileVars, callVars
  <2>2. faults' = 0 => faults = 0
    BY <1>0, <1>5, OutsideSteps DEF ClearToken, ClearTokenFails, Enroll, Outside, Fault, TypeOK
  <2>3. QED
    BY <1>0, <2>1, <2>2 DEF OkIsEnforced, Managed, RulesOf, RadioOf, ChromeOf, memoryVars, hostVars
<1>6. QED
  BY <1>1, <1>2, <1>3, <1>4, <1>5 DEF Next, Call, Reconcile, Host, Unrelated, Failure, GoesOn

-----------------------------------------------------------------------------
(* Theorems *)

LEMMA InitHolds == Init => IInv
<1> SUFFICES ASSUME Init PROVE IInv
  OBVIOUS
<1>1. TypeOK
  <2>1. NoUsers \in [Users -> Payload \cup {None}] /\ NoUsers \in [Users -> (Rules \ {NoRules}) \cup {None}]
    BY DEF NoUsers
  <2>2. NoReply \in [op : Ops \cup {None}, ok : BOOLEAN] /\ NoSignal \in [Signals -> Nat]
    BY DEF NoReply, NoSignal
  <2>3. [b \in Browsers |-> None] \in [Browsers -> Settings \cup {None}]
    OBVIOUS
  <2>4. {changes, faults, restarts} \subseteq {0} /\ {MaxChanges, MaxFaults, MaxRestarts} \subseteq Nat
    BY DeviceBoundAssumption DEF Init
  <2>5. changes \in 0..MaxChanges /\ faults \in 0..MaxFaults /\ restarts \in 0..MaxRestarts
    BY <2>4
  <2>6. {running, restored, radio, token, clearing, listening, stale} \subseteq BOOLEAN
    BY DEF Init
  <2>7. QED
    BY <2>1, <2>2, <2>3, <2>5, <2>6 DEF Init, TypeOK
<1>2. JobInv /\ BrowserInv /\ IdleInv
  BY DEF Init, JobInv, BrowserInv, IdleInv, At, Calling, NoReply
<1>3. ClearInv /\ SettledInv /\ SeatInv
  BY DEF Init, ClearInv, Cleared, SettledInv, Known, Managed, SeatInv
<1>4. RulesOfOneUser /\ OkIsEnforced
  BY DEF Init, RulesOfOneUser, OkIsEnforced, NoUsers, NoReply
<1>5. QED
  BY <1>1, <1>2, <1>3, <1>4 DEF IInv

LEMMA NextKeeps == IInv /\ [Next]_vars => IInv'
  BY TypesKept, JobKept, BrowsersKept, IdleKept, ClearKept, SettledKept, SeatKept, OneUserKept, OkKept
     DEF IInv

\* The parts of the inductive invariant hold in every reachable state of the device
\* policy (linux_device_policy/mod.rs).
THEOREM Invariant == Spec => []IInv
  BY InitHolds, NextKeeps, PTL DEF Spec

\* The state keeps its types; a file is written only where a policy has restrictions.
THEOREM TypeCorrect == Spec => []TypeOK
<1>1. IInv => TypeOK
  BY DEF IInv
<1>2. QED
  BY <1>1, Invariant, PTL

\* An Ok says what the host is in: whatever calls, failures and crashes came before
\* (mod.rs, update_user_policy, clear_on_unenroll and reconcile_enforcement).
THEOREM OkEnforces == Spec => []OkIsEnforced
<1>1. IInv => OkIsEnforced
  BY DEF IInv
<1>2. QED
  BY <1>1, Invariant, PTL

\* The polkit rules of two users are never in force together (polkit.rs).
THEOREM OneUsersRules == Spec => []RulesOfOneUser
<1>1. IInv => RulesOfOneUser
  BY DEF IInv
<1>2. QED
  BY <1>1, Invariant, PTL

\* Once the signals are taken the enforced user is the one at the screen, although
\* logind is asked before the Mutex is taken (mod.rs,
\* refresh_active_session_from_logind).
THEOREM EnforcedAtScreen == Spec => []EnforcedUserIsAtScreen
<1>1. IInv => EnforcedUserIsAtScreen
  BY DEF IInv, SettledInv, SeatInv, EnforcedUserIsAtScreen, UserAtScreen, Known, Managed
<1>2. QED
  BY <1>1, Invariant, PTL

\* An unenrolment in which nothing failed lifts everything for good (commands.rs,
\* unenroll).
THEOREM UnenrolledIsClear == Spec => []UnenrolledStaysClear
<1>1. IInv => UnenrolledStaysClear
  BY DEF IInv, ClearInv, Clear, UnenrolledStaysClear
<1>2. QED
  BY <1>1, Invariant, PTL
=============================================================================
