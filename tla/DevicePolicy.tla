---------------------------- MODULE DevicePolicy ----------------------------
(***************************************************************************)
(* The device policy of the user at the screen: polkit rules, the Bluetooth  *)
(* switch, the block of terminals and the managed policy of the browsers     *)
(* (src/src/linux_device_policy, extension_policy.rs), driven by the login   *)
(* sessions (sessions.rs), the server's commands (commands.rs) and the start *)
(* of the agent (lib.rs).                                                   *)
(*                                                                          *)
(* A tokio Mutex guards the runtime and reconcile_enforcement has no await,  *)
(* so calls do not interleave; but the host sees each file and each command, *)
(* any of them may fail or be the last before a crash, and logind is asked   *)
(* for the user at the screen before the Mutex is taken.                    *)
(*                                                                          *)
(* Abstract: a set of polkit restrictions and the settings of a browser are  *)
(* values; a user name stands for itself in the name of its rules file; the  *)
(* profiles the session listener loads first are in AppProfiles.            *)
(***************************************************************************)
EXTENDS Naturals

CONSTANTS
    Users,
    Rules,        \* sets of polkit restrictions, NoRules among them
    NoRules,      \* no restriction
    Settings,     \* values of ChromePolicy
    Browsers,     \* directories of managed browser policies
    Payloads,     \* device policies the server may send
    None,
    MaxChanges,   \* bound on changes of the session at the screen
    MaxFaults,    \* bound on failed operations
    MaxRestarts   \* bound on starts after the first

Payload == [rules : Rules, bluetooth : BOOLEAN, terminal : BOOLEAN, chrome : Settings]

ASSUME PayloadAssumption == Payloads \subseteq Payload
ASSUME RulesAssumption == NoRules \in Rules
ASSUME AbsentAssumption == None \notin Users \cup Rules \cup Settings \cup Payload
ASSUME DeviceBoundAssumption == {MaxChanges, MaxFaults, MaxRestarts} \subseteq Nat

VARIABLES
    running,    \* run_agent has been called
    restored,   \* LinuxDevicePolicyRuntime.restored
    users,      \* current_state.users
    active,     \* active_session_username
    enforced,   \* enforced_username
    disk,       \* linux-device-policy.json
    rules,      \* the managed file of each user in POLKIT_RULES_DIR
    radio,      \* rfkill blocks Bluetooth
    browsers,   \* guardian.json of each browser
    manifests,  \* browsers with a native messaging manifest
    token,      \* config.json holds an agent token
    job,        \* the call that holds the Mutex
    reply,      \* what the last call did and answered
    clearing,   \* unenroll has still to clear the token
    refresh,    \* progress of refresh_active_session_from_logind
    listening,  \* run_session_listener runs
    pending,    \* session signals it has not taken
    seat,       \* the user whose session is active on seat0
    stale,      \* seat changed unannounced, or was forgotten, since it was asked for (history)
    changes, faults, restarts

memoryVars == <<running, restored, users, active, enforced>>
hostVars   == <<rules, radio, browsers, manifests>>
fileVars   == <<disk, token>>
callVars   == <<job, reply, clearing>>
seatVars   == <<listening, pending, seat, stale, changes>>
vars == <<memoryVars, hostVars, fileVars, callVars, seatVars, refresh, faults, restarts>>

-----------------------------------------------------------------------------

NoUsers  == [u \in Users |-> None]
Signals  == {"new", "removed"}
NoSignal == [s \in Signals |-> 0]
Ops      == {"sync", "refresh", "unenroll"}
Phases   == {"persist", "remove", "write", "radio", "browsers", "manifests"}
Job      == [op : Ops, phase : Phases, left : SUBSET Browsers, token : BOOLEAN, written : SUBSET Browsers]
NoReply  == [op |-> None, ok |-> FALSE]
Question == [by : {"start"} \cup Signals, answer : {<<>>} \cup {<<x>> : x \in Users \cup {None}}]

ASSUME IdleAssumption == None \notin Job \cup Question

TypeOK ==
    /\ {running, restored, radio, token, clearing, listening, stale} \subseteq BOOLEAN
    /\ users \in [Users -> Payload \cup {None}]
    /\ active \in Users \cup {None}
    /\ enforced \in Users \cup {None}
    /\ disk \in [Users -> Payload \cup {None}]
    /\ rules \in [Users -> (Rules \ {NoRules}) \cup {None}]
    /\ browsers \in [Browsers -> Settings \cup {None}]
    /\ manifests \subseteq Browsers
    /\ job \in Job \cup {None}
    /\ reply \in [op : Ops \cup {None}, ok : BOOLEAN]
    /\ refresh \in Question \cup {None}
    /\ pending \in [Signals -> Nat]
    /\ seat \in Users \cup {None}
    /\ changes \in 0..MaxChanges /\ faults \in 0..MaxFaults /\ restarts \in 0..MaxRestarts

Init ==
    /\ running = FALSE /\ restored = FALSE
    /\ users = NoUsers /\ active = None /\ enforced = None
    /\ disk = NoUsers /\ token = TRUE
    /\ rules = NoUsers /\ radio = FALSE
    /\ browsers = [b \in Browsers |-> None] /\ manifests = {}
    /\ job = None /\ reply = NoReply /\ clearing = FALSE
    /\ refresh = None
    /\ listening = FALSE /\ pending = NoSignal
    /\ seat = None /\ stale = TRUE
    /\ changes = 0 /\ faults = 0 /\ restarts = 0

Fault == faults < MaxFaults /\ faults' = faults + 1

\* active_managed_user
Managed == active # None /\ users[active] # None

Refreshing(by)  == refresh # None /\ refresh.by = by
Calling(op)     == job # None /\ job.op = op
At(phase)       == job # None /\ job.phase = phase
Goto(phase)     == job' = [job EXCEPT !.phase = phase]
Return(op, ok)  == job' = None /\ reply' = [op |-> op, ok |-> ok]
Started(op, phase) ==
    job' = [op |-> op, phase |-> phase, left |-> {}, token |-> FALSE, written |-> {}]

-----------------------------------------------------------------------------
(* Calls on the runtime *)

\* The Mutex is free; ensure_restored has read the file when the call goes on.
Enter  == running /\ job = None
Loaded == IF restored THEN users ELSE disk

\* Commands come over a connection, which run_agent opens once the runtime is
\* initialised, and one at a time.
Command == Enter /\ token /\ ~clearing /\ ~Refreshing("start")
Answered == refresh # None /\ refresh.answer # <<>>

\* A file that Start could not read or parse refuses every call until it can be.
RefreshUnread ==
    /\ Enter /\ ~restored /\ Answered
    /\ refresh' = None
    /\ Return("refresh", FALSE)
    /\ UNCHANGED <<memoryVars, hostVars, fileVars, clearing, seatVars, faults, restarts>>

CommandUnread(op) ==
    /\ Command /\ ~restored
    /\ clearing' = (op = "unenroll")
    /\ Return(op, FALSE)
    /\ UNCHANGED <<memoryVars, hostVars, fileVars, seatVars, refresh, faults, restarts>>

\* sync_linux_device_policy: a command of the server, which an agent without a
\* token does not reach.
Sync(u, p) ==
    /\ Command
    /\ users' = [Loaded EXCEPT ![u] = p]
    /\ restored' = TRUE
    /\ Started("sync", "persist")
    /\ UNCHANGED <<running, active, enforced, hostVars, fileVars, reply, clearing, seatVars,
                   refresh, faults, restarts>>

\* set_active_session_username, with the answer logind gave before.
SetActive ==
    /\ Enter /\ Answered
    /\ active' = refresh.answer[1]
    /\ users' = Loaded
    /\ restored' = TRUE
    /\ refresh' = None
    /\ Started("refresh", "remove")
    /\ UNCHANGED <<running, enforced, hostVars, fileVars, reply, clearing, seatVars, faults, restarts>>

\* clear_on_unenroll, the first half of the server's unenroll.
\* Seeded bug: the users are cleared in memory only.
UnenrollUnsaved ==
    /\ Command
    /\ users' = NoUsers /\ active' = None /\ enforced' = None
    /\ restored' = TRUE
    /\ clearing' = TRUE /\ stale' = TRUE
    /\ Started("unenroll", "remove")
    /\ UNCHANGED <<running, hostVars, fileVars, reply, listening, pending, seat, changes, refresh,
                   faults, restarts>>

Unenroll ==
    /\ Command
    /\ users' = NoUsers /\ active' = None /\ enforced' = None
    /\ restored' = TRUE
    /\ clearing' = TRUE /\ stale' = TRUE
    /\ Started("unenroll", "persist")
    /\ UNCHANGED <<running, hostVars, fileVars, reply, listening, pending, seat, changes, refresh,
                   faults, restarts>>

\* persist: the file is replaced whole.
Persist ==
    /\ At("persist")
    /\ disk' = users
    /\ Goto("remove")
    /\ UNCHANGED <<memoryVars, hostVars, token, reply, clearing, seatVars, refresh, faults, restarts>>

\* The call ends before it touches the host, and memory keeps what was refused.
PersistFails ==
    /\ At("persist") /\ Fault
    /\ Return(job.op, FALSE)
    /\ UNCHANGED <<memoryVars, hostVars, fileVars, clearing, seatVars, refresh, restarts>>

-----------------------------------------------------------------------------
(* reconcile_enforcement *)

\* remove_all_managed_rules, one file.
RemoveRules(u) ==
    /\ At("remove")
    /\ rules[u] # None
    /\ rules' = [rules EXCEPT ![u] = None]
    /\ UNCHANGED <<memoryVars, radio, browsers, manifests, fileVars, callVars, seatVars, refresh,
                   faults, restarts>>

\* Seeded bug: a file that cannot be removed is skipped.
RemoveFailureSkipped ==
    /\ At("remove") /\ rules # NoUsers /\ Fault
    /\ Goto(IF Managed THEN "write" ELSE "browsers")
    /\ UNCHANGED <<memoryVars, hostVars, fileVars, reply, clearing, seatVars, refresh, restarts>>

RemoveFails ==
    /\ At("remove") /\ rules # NoUsers /\ Fault
    /\ Return(job.op, FALSE)
    /\ UNCHANGED <<memoryVars, hostVars, fileVars, clearing, seatVars, refresh, restarts>>

\* bluetooth::reconcile(false); then the policy of the managed user at the screen,
\* or nobody's.  run_reconcile reads the token when the browsers begin.
\* Seeded bug: enforced_username is not reset when nobody managed is at the screen.
UnblockKeepingEnforced ==
    /\ At("remove") /\ rules = NoUsers
    /\ radio' = FALSE
    /\ IF Managed THEN Goto("write")
       ELSE job' = [job EXCEPT !.phase = "browsers", !.left = Browsers, !.token = token]
    /\ UNCHANGED <<memoryVars, rules, browsers, manifests, fileVars, reply, clearing, seatVars,
                   refresh, faults, restarts>>

Unblock ==
    /\ At("remove") /\ rules = NoUsers
    /\ radio' = FALSE
    /\ IF Managed THEN Goto("write") /\ UNCHANGED enforced
       ELSE /\ enforced' = None
            /\ job' = [job EXCEPT !.phase = "browsers", !.left = Browsers, !.token = token]
    /\ UNCHANGED <<running, restored, users, active, rules, browsers, manifests, fileVars, reply,
                   clearing, seatVars, refresh, faults, restarts>>

RfkillFails ==
    /\ \/ At("remove") /\ rules = NoUsers
       \/ At("radio")
    /\ Fault
    /\ Return(job.op, FALSE)
    /\ UNCHANGED <<memoryVars, hostVars, fileVars, clearing, seatVars, refresh, restarts>>

\* polkit::reconcile.  It removes all files again; there are none, since nobody
\* else writes them.
\* Seeded bug: a file is written for a policy without restrictions as well, whose
\* script has an empty condition.
WriteRulesAlways ==
    /\ At("write")
    /\ rules' = [rules EXCEPT ![active] = users[active].rules]
    /\ Goto("radio")
    /\ UNCHANGED <<memoryVars, radio, browsers, manifests, fileVars, reply, clearing, seatVars,
                   refresh, faults, restarts>>

WriteRules ==
    /\ At("write")
    /\ rules' = IF users[active].rules = NoRules THEN rules
                ELSE [rules EXCEPT ![active] = users[active].rules]
    /\ Goto("radio")
    /\ UNCHANGED <<memoryVars, radio, browsers, manifests, fileVars, reply, clearing, seatVars,
                   refresh, faults, restarts>>

WriteFails ==
    /\ At("write") /\ users[active].rules # NoRules /\ Fault
    /\ Return(job.op, FALSE)
    /\ UNCHANGED <<memoryVars, hostVars, fileVars, clearing, seatVars, refresh, restarts>>

\* bluetooth::reconcile for the user, who is enforced from here on.
SetRadio ==
    /\ At("radio")
    /\ radio' = users[active].bluetooth
    /\ enforced' = active
    /\ job' = [job EXCEPT !.phase = "browsers", !.left = Browsers, !.token = token]
    /\ UNCHANGED <<running, restored, users, active, rules, browsers, manifests, fileVars, reply,
                   clearing, seatVars, refresh, faults, restarts>>

-----------------------------------------------------------------------------
(* run_reconcile: reconcile_extension_policy *)

\* Without a token or a user the policies are removed, otherwise written.
Wanted == IF job.token /\ enforced # None THEN users[enforced].chrome ELSE None

\* load_agent_config: an unreadable config.json is no token.
ConfigUnread ==
    /\ At("browsers") /\ job.token
    /\ job.left = Browsers
    /\ Fault
    /\ job' = [job EXCEPT !.token = FALSE]
    /\ UNCHANGED <<memoryVars, hostVars, fileVars, reply, clearing, seatVars, refresh, restarts>>

SetBrowser(b) ==
    /\ At("browsers") /\ b \in job.left
    /\ browsers' = [browsers EXCEPT ![b] = Wanted]
    /\ job' = [job EXCEPT !.left = @ \ {b}, !.written = @ \cup {b}]
    /\ UNCHANGED <<memoryVars, rules, radio, manifests, fileVars, reply, clearing, seatVars, refresh,
                   faults, restarts>>

\* A browser that fails is skipped.
SkipBrowser(b) ==
    /\ At("browsers") /\ b \in job.left /\ Fault
    /\ job' = [job EXCEPT !.left = @ \ {b}]
    /\ UNCHANGED <<memoryVars, hostVars, fileVars, reply, clearing, seatVars, refresh, restarts>>

\* reconcile_native_messaging_manifests or remove_native_messaging_manifests.  The
\* caller drops the answer of run_reconcile, and the call returns Ok.
SetManifests ==
    /\ At("browsers") /\ job.left = {}
    /\ manifests' = IF ~job.token THEN {}
                    ELSE IF enforced = None \/ job.written = {} THEN manifests ELSE Browsers
    /\ Return(job.op, TRUE)
    /\ UNCHANGED <<memoryVars, rules, radio, browsers, fileVars, clearing, seatVars, refresh, faults,
                   restarts>>

-----------------------------------------------------------------------------
(* Unenrolment, and enrolment by the external runtime *)

\* unenroll goes on whatever clear_on_unenroll answered.
Cleared == clearing /\ ~Calling("unenroll")

ClearToken ==
    /\ running /\ Cleared
    /\ token' = FALSE /\ clearing' = FALSE
    /\ UNCHANGED <<memoryVars, hostVars, disk, job, reply, seatVars, refresh, faults, restarts>>

ClearTokenFails ==
    /\ running /\ Cleared /\ Fault
    /\ clearing' = FALSE
    /\ UNCHANGED <<memoryVars, hostVars, fileVars, job, reply, seatVars, refresh, restarts>>

Enroll ==
    /\ ~token
    /\ token' = TRUE
    /\ UNCHANGED <<memoryVars, hostVars, disk, callVars, seatVars, refresh, faults, restarts>>

-----------------------------------------------------------------------------
(* refresh_active_session_from_logind and the session listener *)

\* query_primary_seat_active_username, before the Mutex is asked for.  A greeter
\* and an empty seat are nobody.
Ask ==
    /\ running
    /\ refresh # None /\ refresh.answer = <<>>
    /\ refresh' = [refresh EXCEPT !.answer = <<seat>>]
    /\ stale' = FALSE
    /\ UNCHANGED <<memoryVars, hostVars, fileVars, callVars, listening, pending, seat, changes,
                   faults, restarts>>

AskFails ==
    /\ running
    /\ refresh # None /\ refresh.answer = <<>>
    /\ Fault
    /\ refresh' = None
    /\ UNCHANGED <<memoryVars, hostVars, fileVars, callVars, seatVars, restarts>>

\* run_session_listener takes the next signal of either stream.
\* Seeded bug: the end of a session does not refresh the user at the screen.
TakeNewOnly(s) ==
    /\ listening /\ refresh = None /\ ~Calling("refresh")
    /\ pending[s] > 0
    /\ pending' = [pending EXCEPT ![s] = @ - 1]
    /\ refresh' = IF s = "new" THEN [by |-> s, answer |-> <<>>] ELSE None
    /\ UNCHANGED <<memoryVars, hostVars, fileVars, callVars, listening, seat, stale, changes,
                   faults, restarts>>

Take(s) ==
    /\ listening /\ refresh = None /\ ~Calling("refresh")
    /\ pending[s] > 0
    /\ pending' = [pending EXCEPT ![s] = @ - 1]
    /\ refresh' = [by |-> s, answer |-> <<>>]
    /\ UNCHANGED <<memoryVars, hostVars, fileVars, callVars, listening, seat, stale, changes,
                   faults, restarts>>

\* resolve_session_snapshot fails: the beginning is passed over.  When it fails since
\* the session has ended, the end is a signal of its own.
Unresolved ==
    /\ listening /\ refresh = None /\ ~Calling("refresh")
    /\ pending["new"] > 0 /\ Fault
    /\ pending' = [pending EXCEPT !["new"] = @ - 1]
    /\ stale' = TRUE
    /\ UNCHANGED <<memoryVars, hostVars, fileVars, callVars, listening, seat, changes, refresh, restarts>>

\* The listener begins with a connection and asks nothing.
Connect ==
    /\ Enter /\ token /\ ~listening /\ refresh = None
    /\ listening' = TRUE
    /\ UNCHANGED <<memoryVars, hostVars, fileVars, callVars, pending, seat, stale, changes, refresh,
                   faults, restarts>>

\* It ends with the connection, and with it the signals it has not taken; the task
\* finishes the signal it is at or is aborted where it waits.
Disconnect ==
    /\ listening
    /\ listening' = FALSE
    /\ pending' = NoSignal
    /\ refresh' \in {refresh, None}
    /\ stale' = (stale \/ pending # NoSignal \/ refresh' # refresh)
    /\ UNCHANGED <<memoryVars, hostVars, fileVars, callVars, seat, changes, faults, restarts>>

-----------------------------------------------------------------------------
(* The host *)

Change == changes < MaxChanges /\ changes' = changes + 1

\* logind announces that a session of a user begins or ends; the session at the
\* screen is another one by then, or still the same.
Announce(s, x) ==
    /\ Change
    /\ seat' = x
    /\ IF listening THEN pending' = [pending EXCEPT ![s] = @ + 1] /\ UNCHANGED stale
       ELSE stale' = TRUE /\ UNCHANGED pending
    /\ UNCHANGED <<memoryVars, hostVars, fileVars, callVars, listening, refresh, faults, restarts>>

\* Another session comes to the screen and neither begins nor ends: a switch of the
\* console, a lock screen (whose class the listener ignores), an activation after
\* the announcement.
Switch(x) ==
    /\ Change
    /\ seat' = x /\ x # seat
    /\ stale' = TRUE
    /\ UNCHANGED <<memoryVars, hostVars, fileVars, callVars, listening, pending, refresh, faults,
                   restarts>>

\* initialize_runtime.  A file that cannot be read or a system bus that cannot be
\* reached leaves the user at the screen unknown.
Start ==
    /\ ~running
    /\ running' = TRUE
    /\ \/ /\ restored' = TRUE /\ users' = disk
          /\ refresh' = [by |-> "start", answer |-> <<>>]
          /\ UNCHANGED faults
       \/ /\ Fault
          /\ restored' = TRUE /\ users' = disk
          /\ UNCHANGED refresh
       \/ /\ Fault
          /\ UNCHANGED <<restored, users, refresh>>
    /\ UNCHANGED <<active, enforced, hostVars, fileVars, callVars, seatVars, restarts>>

\* The agent dies; what it did to the host stays.
Crash ==
    /\ running
    /\ restarts < MaxRestarts /\ restarts' = restarts + 1
    /\ running' = FALSE /\ restored' = FALSE
    /\ users' = NoUsers /\ active' = None /\ enforced' = None
    /\ job' = None /\ reply' = NoReply /\ clearing' = FALSE
    /\ refresh' = None
    /\ listening' = FALSE /\ pending' = NoSignal /\ stale' = TRUE
    /\ UNCHANGED <<hostVars, fileVars, seat, changes, faults>>

Call ==
    \/ \E u \in Users, p \in Payloads : Sync(u, p)
    \/ SetActive
    \/ Unenroll
    \/ RefreshUnread
    \/ \E op \in {"sync", "unenroll"} : CommandUnread(op)
    \/ Persist \/ PersistFails

Reconcile ==
    \/ \E u \in Users : RemoveRules(u)
    \/ RemoveFails
    \/ Unblock \/ RfkillFails
    \/ WriteRules \/ WriteFails
    \/ SetRadio
    \/ ConfigUnread
    \/ \E b \in Browsers : SetBrowser(b) \/ SkipBrowser(b)
    \/ SetManifests

Listener == Ask \/ AskFails \/ (\E s \in Signals : Take(s)) \/ Unresolved \/ Connect \/ Disconnect

Host ==
    \/ \E s \in Signals, x \in Users \cup {None} : Announce(s, x)
    \/ \E x \in Users \cup {None} : Switch(x)
    \/ Start \/ Crash

Next == Call \/ Reconcile \/ ClearToken \/ ClearTokenFails \/ Enroll \/ Listener \/ Host

Spec == Init /\ [][Next]_vars

-----------------------------------------------------------------------------
(* Properties *)

UserAtScreen == IF seat # None /\ users[seat] # None THEN seat ELSE None

\* The host as the policy of user x wants it, or nobody's policy.
RulesOf(x)  == [u \in Users |-> IF u = x /\ users[u].rules # NoRules THEN users[u].rules ELSE None]
RadioOf(x)  == x # None /\ users[x].bluetooth
ChromeOf(x) == IF x = None THEN None ELSE users[x].chrome

\* A call that answers Ok has put the host in the state of the managed user it knows
\* to be at the screen, whatever an earlier call that failed half-way left behind,
\* and what it answered Ok to is on disk (linux_device_policy/mod.rs,
\* update_user_policy, clear_on_unenroll and reconcile_enforcement).
OkIsEnforced ==
    job = None /\ reply.ok =>
        LET x == IF Managed THEN active ELSE None
        IN  /\ enforced = x
            /\ rules = RulesOf(x)
            /\ radio = RadioOf(x)
            /\ faults = 0 => \A b \in Browsers : browsers[b] = ChromeOf(x)
            /\ reply.op # "refresh" => disk = users

\* The rules of two users are never in force together, however calls fail or die
\* (polkit.rs, remove_all_managed_rules before every write).
RulesOfOneUser == \A u, v \in Users : rules[u] # None /\ rules[v] # None => u = v

\* When the listener has taken every signal, the enforced policy is that of the user
\* at the screen, although logind is asked before the Mutex is taken and the answer
\* may be old when it is stored.  It says nothing of a seat that changed without a
\* signal, and nothing once a step has failed.
EnforcedUserIsAtScreen ==
    running /\ ~stale /\ job = None /\ refresh = None /\ pending = NoSignal /\ faults = 0 =>
        enforced = UserAtScreen

\* An unenrolled device keeps no restriction and no policy that a restart could bring
\* back (commands.rs, unenroll), unless a step failed: the code then clears the token
\* all the same.  The native messaging manifests stay, since the browsers are
\* reconciled while the token is still there.
UnenrolledStaysClear ==
    ~token /\ faults = 0 =>
        /\ rules = NoUsers /\ ~radio
        /\ \A b \in Browsers : browsers[b] = None
        /\ disk = NoUsers
=============================================================================
