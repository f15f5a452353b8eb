---------------------------- MODULE AppProfiles ----------------------------
(***************************************************************************)
(* The AppArmor profiles of the managed users (src/src/apparmor.rs) and the  *)
(* listener of login sessions that loads and unloads them (sessions.rs).     *)
(*                                                                          *)
(* One tokio Mutex guards the runtime and a call holds it to its end; but a  *)
(* call goes through many steps that the host sees (files in PROFILE_DIR,    *)
(* profiles in the kernel), each of which can fail or be the last one before *)
(* a crash, while sessions begin and end and the listener is started again   *)
(* with every connection to the server.                                     *)
(*                                                                          *)
(* Data kept abstract: a policy is a list of rules on executables and a set  *)
(* of blocked path patterns.  The name of a profile is made from the user and *)
(* the application, and different rules may have one name: the later in the  *)
(* list then replaces the profile of the earlier, which is in force no more. *)
(* Rules in complain mode load nothing and are left out, and so are the text *)
(* of profiles and which of two that attach to one executable the kernel     *)
(* takes.  The host has AppArmor, sessions are of a user class, and the saved *)
(* state holds no unsafe rule (update_user_policy refuses it).               *)
(***************************************************************************)
EXTENDS Naturals, Sequences

CONSTANTS
    Users,
    Rules,        \* rules on an executable: it, its application and its preset
    Offline,      \* those of the preset no_internet; the others block
    Patterns,     \* path patterns
    Profiles,     \* names of profiles of users
    NameOf,       \* make_profile_name: the name for a rule of a user
    Prefixed,     \* the names that start with guardian-<user>-
    Global,       \* names of the global exec profiles
    Overlays,     \* approval policies
    Updates,      \* what the server may send: a policy and an approval policy
    Sessions,     \* login sessions (bound)
    None,
    MaxFaults,    \* bound on failed operations
    MaxRestarts   \* bound on starts of the agent after the first

Policy == [rules : Seq(Rules), paths : SUBSET Patterns]

ASSUME UpdateAssumption == Updates \subseteq [policy : Policy, overlay : Overlays \cup {None}]
ASSUME NameAssumption ==
    /\ Offline \subseteq Rules
    /\ NameOf \in [Users \X Rules -> Profiles]
    /\ Prefixed \in [Users -> SUBSET Profiles]
    /\ \A u \in Users, rule \in Rules : NameOf[u, rule] \in Prefixed[u]
\* No user name makes the names of his profiles start like the global ones.
ASSUME GlobalAssumption == Global \cap Profiles = {}
ASSUME UserAbsentAssumption == None \notin Users \cup Overlays
ASSUME BoundAssumption == MaxFaults \in Nat /\ MaxRestarts \in Nat

VARIABLES
    restored,   \* AppArmorRuntime.restored
    state,      \* AppArmorRuntime.current_state
    loaded,     \* AppArmorRuntime.loaded_users
    disk,       \* apparmor-policy.json, None when there is no file
    files,      \* profiles in PROFILE_DIR
    kernel,     \* profiles in force
    job,        \* the call that holds the Mutex
    reply,      \* the user whose synchronisation was the last call and answered Ok
    sessions,   \* sessions of the host
    listening,  \* run_session_listener runs
    begun,      \* SessionNew signals it has not taken
    ended,      \* SessionRemoved signals it has not taken
    cache,      \* session_cache
    handling,   \* the signal it is at
    crossed,    \* a session ended while its user had another (history)
    faults,
    restarts

runtimeVars  == <<restored, state, loaded>>
hostVars     == <<disk, files, kernel>>
callVars     == <<job, reply>>
listenerVars == <<listening, begun, ended, cache, handling, crossed>>
vars == <<runtimeVars, hostVars, callVars, listenerVars, sessions, faults, restarts>>

-----------------------------------------------------------------------------
(* Profiles *)

NoPolicy   == [rules |-> <<>>, paths |-> {}]
EmptyState == [users |-> [u \in Users |-> NoPolicy], overlays |-> [u \in Users |-> None]]
State      == [users : [Users -> Policy], overlays : [Users -> Overlays \cup {None}]]

Names == Profiles \cup Global
Body  == [rule : Rules \cup {None}, lines : SUBSET (Users \X Patterns)]

RulesOf(u) == state.users[u].rules
LinesOf(u) == {u} \X state.users[u].paths

\* collect_active_path_rules, expanded in each user's home.
PathLines == UNION {LinesOf(u) : u \in loaded}

\* generate_profile: what blocks an executable needs no rule on paths.
BodyOf(u, rule) == [rule |-> rule, lines |-> IF rule \in Offline THEN LinesOf(u) ELSE {}]

\* generate_global_exec_profile
GlobalBody == [rule |-> None, lines |-> PathLines]

\* The files unload_profiles_with_prefix finds for a user, and the global ones.
FilesOf(u)  == {n \in Prefixed[u] : files[n] # None}
GlobalFiles == {n \in Global : files[n] # None}

Calls      == [op : {"sync", "load", "unload"}, user : Users,
               phase : {"save", "unload", "load", "unload_global", "load_global"},
               todo : SUBSET Names, at : Names \cup {None}, done : Nat]
Handlings  == [op : {"load", "unload"}, session : Sessions, user : Users,
               step : {"waiting", "calling", "done"}]
FaultKinds == {"read", "save", "remove", "load", "tool"}

ASSUME ProfileAbsentAssumption ==
    /\ None \notin Names /\ None \notin Body /\ None \notin State
    /\ None \notin Calls /\ None \notin Handlings

TypeOK ==
    /\ restored \in BOOLEAN
    /\ state \in State
    /\ loaded \subseteq Users
    /\ disk \in State \cup {None}
    /\ files \in [Names -> Body \cup {None}]
    /\ kernel \in [Names -> Body \cup {None}]
    /\ job \in Calls \cup {None}
    /\ reply \in Users \cup {None}
    /\ sessions \in [Sessions -> Users \cup {"unused", "over"}]
    /\ listening \in BOOLEAN
    /\ begun \in Seq(Sessions) /\ ended \in Seq(Sessions)
    /\ cache \in [Sessions -> Users \cup {None}]
    /\ handling \in Handlings \cup {None}
    /\ crossed \in BOOLEAN
    /\ faults \in [FaultKinds -> Nat]
    /\ restarts \in 0..MaxRestarts

Init ==
    /\ restored = FALSE
    /\ state = EmptyState
    /\ loaded = {}
    /\ disk = None
    /\ files = [n \in Names |-> None]
    /\ kernel = [n \in Names |-> None]
    /\ job = None /\ reply = None
    /\ sessions = [s \in Sessions |-> "unused"]
    /\ listening = FALSE
    /\ begun = <<>> /\ ended = <<>>
    /\ cache = [s \in Sessions |-> None]
    /\ handling = None
    /\ crossed = FALSE
    /\ faults = [k \in FaultKinds |-> 0]
    /\ restarts = 0

TotalFaults == faults["read"] + faults["save"] + faults["remove"] + faults["load"] + faults["tool"]
Fault(k) == TotalFaults < MaxFaults /\ faults' = [faults EXCEPT ![k] = @ + 1]

Ready == restored /\ job = None

\* The call returns; the listener only logs what it returns.
Finish(result) ==
    /\ job' = None
    /\ reply' = IF job.op = "sync" /\ result THEN job.user ELSE None
    /\ handling' = IF handling # None /\ handling.step = "calling"
                   THEN [handling EXCEPT !.step = "done"] ELSE handling
    /\ UNCHANGED <<listening, begun, ended, cache, crossed>>

Enter(phase, todo) ==
    /\ job' = [job EXCEPT !.phase = phase, !.todo = todo, !.at = None, !.done = 0]
    /\ UNCHANGED <<reply, listenerVars>>

-----------------------------------------------------------------------------
(* ensure_restored, called first by initialize_runtime *)

Restore ==
    /\ ~restored
    /\ restored' = TRUE
    /\ \/ state' = (IF disk = None THEN EmptyState ELSE disk) /\ UNCHANGED faults
       \/ disk # None /\ Fault("read") /\ UNCHANGED state
    /\ UNCHANGED <<loaded, hostVars, callVars, listenerVars, sessions, restarts>>

-----------------------------------------------------------------------------
(* update_user_policy *)

\* Memory takes the policy and the approvals before they are saved.
Sync(u, update) ==
    /\ Ready
    /\ state' = [users    |-> [state.users EXCEPT ![u] = update.policy],
                 overlays |-> [state.overlays EXCEPT ![u] = update.overlay]]
    /\ job' = [op |-> "sync", user |-> u, phase |-> "save", todo |-> {}, at |-> None, done |-> 0]
    /\ reply' = None
    /\ UNCHANGED <<restored, loaded, hostVars, listenerVars, sessions, faults, restarts>>

\* A rule is not safe: nothing changes.
RefuseSync ==
    /\ Ready
    /\ reply' = None
    /\ UNCHANGED <<runtimeVars, hostVars, job, listenerVars, sessions, faults, restarts>>

\* Seeded bug: the profiles of a loaded user are written over, not replaced.
SaveThenLoad ==
    /\ job # None /\ job.phase = "save"
    /\ disk' = state
    /\ IF job.user \in loaded THEN Enter("load", {}) ELSE Finish(TRUE)
    /\ UNCHANGED <<runtimeVars, files, kernel, sessions, faults, restarts>>

\* Only the profiles of a user this process has loaded are refreshed.
Save ==
    /\ job # None /\ job.phase = "save"
    /\ disk' = state
    /\ IF job.user \in loaded THEN Enter("unload", FilesOf(job.user)) ELSE Finish(TRUE)
    /\ UNCHANGED <<runtimeVars, files, kernel, sessions, faults, restarts>>

\* Seeded bug: a failed save is logged and the call answers Ok.
SaveFailureIgnored ==
    /\ job # None /\ job.phase = "save"
    /\ UNCHANGED faults
    /\ Finish(TRUE)
    /\ UNCHANGED <<runtimeVars, hostVars, sessions, restarts>>

SaveFails ==
    /\ job # None /\ job.phase = "save"
    /\ Fault("save")
    /\ Finish(FALSE)
    /\ UNCHANGED <<runtimeVars, hostVars, sessions, restarts>>

-----------------------------------------------------------------------------
(* unload_profiles_with_prefix and write_and_load_profile, for each profile  *)

Unloading == job # None /\ job.phase \in {"unload", "unload_global"}
Loading   == job # None /\ job.phase \in {"load", "load_global"}

\* load_exact_profiles_for_user goes through the rules in their order,
\* refresh_global_exec_profiles through the attachments.
NextRule   == RulesOf(job.user)[job.done + 1]
MoreToLoad == IF job.phase = "load" THEN job.done < Len(RulesOf(job.user)) ELSE job.todo # {}
NextNames  == IF job.phase = "load" THEN {NameOf[job.user, NextRule]} ELSE job.todo
Content    == IF job.phase = "load" THEN BodyOf(job.user, NextRule) ELSE GlobalBody

Progress(name, todo) ==
    /\ job' = [job EXCEPT !.at = name, !.todo = todo]
    /\ UNCHANGED <<reply, listenerVars, runtimeVars, sessions, restarts>>

\* Seeded bug: the file goes first, and the parser then has nothing to remove.
DeleteFileFirst(n) ==
    /\ Unloading /\ n \in job.todo /\ job.at = None
    /\ files' = [files EXCEPT ![n] = None]
    /\ Progress(n, job.todo)
    /\ UNCHANGED <<disk, kernel, faults>>

\* apparmor_parser -R; a refusal is logged and the file removed all the same.
RemoveProfile(n) ==
    /\ Unloading /\ n \in job.todo /\ job.at = None
    /\ \/ kernel' = [kernel EXCEPT ![n] = None] /\ UNCHANGED faults
       \/ Fault("remove") /\ UNCHANGED kernel
    /\ Progress(n, job.todo)
    /\ UNCHANGED <<disk, files>>

DeleteFile ==
    /\ Unloading /\ job.at # None
    /\ files' = [files EXCEPT ![job.at] = None]
    /\ Progress(None, job.todo \ {job.at})
    /\ UNCHANGED <<disk, kernel, faults>>

WriteFile(n) ==
    /\ Loading /\ MoreToLoad /\ n \in NextNames /\ job.at = None
    /\ files' = [files EXCEPT ![n] = Content]
    /\ Progress(n, job.todo)
    /\ UNCHANGED <<disk, kernel, faults>>

\* apparmor_parser -r, which replaces a profile of the name; a refusal is logged and
\* the call goes on.
LoadProfile ==
    /\ Loading /\ job.at # None
    /\ \/ kernel' = [kernel EXCEPT ![job.at] = Content] /\ UNCHANGED faults
       \/ Fault("load") /\ UNCHANGED kernel
    /\ job' = [job EXCEPT !.at = None, !.todo = @ \ {job.at}, !.done = @ + 1]
    /\ UNCHANGED <<disk, files, reply, listenerVars, runtimeVars, sessions, restarts>>

\* The file is not written or apparmor_parser does not start: the call ends.
ToolFails ==
    /\ \/ Unloading /\ job.todo # {} /\ job.at = None
       \/ Loading /\ MoreToLoad
    /\ Fault("tool")
    /\ Finish(FALSE)
    /\ UNCHANGED <<runtimeVars, hostVars, sessions, restarts>>

Unloaded ==
    /\ Unloading /\ job.phase = "unload" /\ job.todo = {} /\ job.at = None
    /\ \/ /\ job.op = "sync"
          /\ loaded' = loaded
          /\ Enter("load", {})
       \/ /\ job.op = "unload"
          /\ loaded' = loaded \ {job.user}
          /\ Enter("unload_global", GlobalFiles)
    /\ UNCHANGED <<restored, state, hostVars, sessions, faults, restarts>>

\* Seeded bug: the global profiles are not rendered again after a load.
ReturnUnrefreshed ==
    /\ Loading /\ job.phase = "load" /\ ~MoreToLoad
    /\ Finish(TRUE)
    /\ UNCHANGED <<runtimeVars, hostVars, sessions, faults, restarts>>

\* refresh_global_exec_profiles
RefreshGlobal ==
    /\ Loading /\ job.phase = "load" /\ ~MoreToLoad
    /\ Enter("unload_global", GlobalFiles)
    /\ UNCHANGED <<runtimeVars, hostVars, sessions, faults, restarts>>

RenderGlobal ==
    /\ Unloading /\ job.phase = "unload_global" /\ job.todo = {} /\ job.at = None
    /\ Enter("load_global", IF PathLines = {} THEN {} ELSE Global)
    /\ UNCHANGED <<runtimeVars, hostVars, sessions, faults, restarts>>

Return ==
    /\ Loading /\ job.phase = "load_global" /\ ~MoreToLoad
    /\ Finish(TRUE)
    /\ UNCHANGED <<runtimeVars, hostVars, sessions, faults, restarts>>

-----------------------------------------------------------------------------
(* run_session_listener *)

Connect ==
    /\ restored /\ ~listening /\ handling = None
    /\ listening' = TRUE
    /\ UNCHANGED <<begun, ended, cache, handling, crossed,
                   runtimeVars, hostVars, callVars, sessions, faults, restarts>>

Forget ==
    /\ listening' = FALSE
    /\ begun' = <<>> /\ ended' = <<>>
    /\ cache' = [s \in Sessions |-> None]

\* The task ends with the connection to the server, its cache and signals too:
\* it is aborted where it waits, or it sees the shutdown when it has handled the
\* signal it is at.  A call under the Mutex goes on in both cases.
Disconnect ==
    /\ listening
    /\ Forget
    /\ handling' \in {None, handling}
    /\ UNCHANGED <<crossed, runtimeVars, hostVars, callVars, sessions, faults, restarts>>

SignIn(s, u) ==
    /\ sessions[s] = "unused"
    /\ sessions' = [sessions EXCEPT ![s] = u]
    /\ begun' = IF listening THEN Append(begun, s) ELSE begun
    /\ UNCHANGED <<listening, ended, cache, handling, crossed,
                   runtimeVars, hostVars, callVars, faults, restarts>>

SignOut(s) ==
    /\ sessions[s] \in Users
    /\ sessions' = [sessions EXCEPT ![s] = "over"]
    /\ ended' = IF listening THEN Append(ended, s) ELSE ended
    /\ UNCHANGED <<listening, begun, cache, handling, crossed,
                   runtimeVars, hostVars, callVars, faults, restarts>>

Wait(op, s, u) == handling' = [op |-> op, session |-> s, user |-> u, step |-> "waiting"]

\* The two signals come by streams of their own.  A session that is over by now
\* has no user and no class any more.
TakeBegun ==
    /\ handling = None /\ begun # <<>>
    /\ begun' = Tail(begun)
    /\ LET s == Head(begun)
       IN  IF sessions[s] \in Users THEN Wait("load", s, sessions[s]) ELSE UNCHANGED handling
    /\ UNCHANGED <<listening, ended, cache, crossed, sessions,
                   runtimeVars, hostVars, callVars, faults, restarts>>

\* Seeded bug: the session is looked up in the cache and stays there.
TakeEndedKeeping ==
    /\ handling = None /\ ended # <<>>
    /\ ended' = Tail(ended)
    /\ LET s == Head(ended)
       IN  IF cache[s] # None THEN Wait("unload", s, cache[s]) ELSE UNCHANGED handling
    /\ UNCHANGED <<listening, begun, cache, crossed, sessions,
                   runtimeVars, hostVars, callVars, faults, restarts>>

\* Seeded bug: a session that is not in the cache is taken for one that is.
TakeEndedUnknown ==
    /\ handling = None /\ ended # <<>>
    /\ ended' = Tail(ended)
    /\ Wait("unload", Head(ended), cache[Head(ended)])
    /\ cache' = [cache EXCEPT ![Head(ended)] = None]
    /\ UNCHANGED <<listening, begun, crossed, sessions,
                   runtimeVars, hostVars, callVars, faults, restarts>>

TakeEnded ==
    /\ handling = None /\ ended # <<>>
    /\ ended' = Tail(ended)
    /\ LET s == Head(ended)
           others == {r \in Sessions \ {s} : cache[r] = cache[s]}
       IN  /\ cache' = [cache EXCEPT ![s] = None]
           /\ \/ cache[s] = None /\ UNCHANGED <<handling, crossed>>
              \/ /\ cache[s] # None
                 /\ Wait("unload", s, cache[s])
                 /\ crossed' = (crossed \/ others # {})
    /\ UNCHANGED <<listening, begun, sessions,
                   runtimeVars, hostVars, callVars, faults, restarts>>

\* load_profiles_for_user and unload_profiles_for_user get the Mutex.
Call ==
    /\ Ready /\ handling # None /\ handling.step = "waiting"
    /\ handling' = [handling EXCEPT !.step = "calling"]
    /\ LET u == handling.user
       IN  \/ /\ handling.op = "load"
              /\ loaded' = loaded \cup {u}
              /\ job' = [op |-> "load", user |-> u, phase |-> "load",
                         todo |-> {}, at |-> None, done |-> 0]
           \/ /\ handling.op = "unload"
              /\ loaded' = loaded
              /\ job' = [op |-> "unload", user |-> u, phase |-> "unload",
                         todo |-> FilesOf(u), at |-> None, done |-> 0]
    /\ reply' = None
    /\ UNCHANGED <<restored, state, hostVars, listening, begun, ended, cache, crossed,
                   sessions, faults, restarts>>

\* The call is over, well or not: a new session enters the cache.
Handled ==
    /\ handling # None /\ handling.step = "done"
    /\ cache' = IF listening /\ handling.op = "load"
                THEN [cache EXCEPT ![handling.session] = handling.user] ELSE cache
    /\ handling' = None
    /\ UNCHANGED <<listening, begun, ended, crossed, sessions,
                   runtimeVars, hostVars, callVars, faults, restarts>>

-----------------------------------------------------------------------------
ProcessLost ==
    /\ restored /\ restarts < MaxRestarts
    /\ restarts' = restarts + 1
    /\ restored' = FALSE
    /\ state' = EmptyState
    /\ loaded' = {}
    /\ job' = None /\ reply' = None
    /\ Forget
    /\ handling' = None
    /\ crossed' = FALSE
    /\ UNCHANGED <<disk, files, faults>>

\* The agent dies and is started again; the kernel and the sessions stay.
Crash == ProcessLost /\ UNCHANGED <<kernel, sessions>>

\* The host goes down; the profiles of PROFILE_DIR are loaded when it is back.
Reboot ==
    /\ ProcessLost
    /\ kernel' = files
    /\ sessions' = [s \in Sessions |-> IF sessions[s] \in Users THEN "over" ELSE sessions[s]]

Profiling ==
    \/ Save \/ SaveFails
    \/ \E n \in Names : RemoveProfile(n) \/ WriteFile(n)
    \/ DeleteFile \/ LoadProfile \/ ToolFails
    \/ Unloaded \/ RefreshGlobal \/ RenderGlobal \/ Return

Listening ==
    \/ Connect \/ Disconnect \/ TakeBegun \/ TakeEnded \/ Call \/ Handled
    \/ \E s \in Sessions : SignOut(s) \/ \E u \in Users : SignIn(s, u)

Next ==
    \/ Restore
    \/ RefuseSync
    \/ \E u \in Users, update \in Updates : Sync(u, update)
    \/ Profiling \/ Listening \/ Crash \/ Reboot

Spec == Init /\ [][Next]_vars

-----------------------------------------------------------------------------
(* Safety *)

Quiet == restored /\ job = None

\* The rules whose profile no later rule of the user replaces.
Lasting(u) ==
    {i \in DOMAIN RulesOf(u) :
        \A j \in DOMAIN RulesOf(u) : NameOf[u, RulesOf(u)[j]] = NameOf[u, RulesOf(u)[i]] => j <= i}
InForce(u, rule) == kernel[NameOf[u, rule]] = BodyOf(u, rule)
Wanted(n) == \E u \in loaded : \E i \in DOMAIN RulesOf(u) : NameOf[u, RulesOf(u)[i]] = n

\* A user whose session the listener follows is confined by the policy in force:
\* for whatever order of logins, logouts, updates, reconnections and restarts,
\* as long as nothing failed and no session ended beside another of its user.
\* Of the rules whose applications make one profile name, that is the last only:
\* the code leaves the executables of the others unconfined (make_profile_name).
EnforcedWhileSignedIn ==
    Quiet /\ TotalFaults = 0 /\ ~crossed =>
        \A s \in Sessions : cache[s] # None =>
            /\ cache[s] \in loaded
            /\ \A i \in Lasting(cache[s]) : InForce(cache[s], RulesOf(cache[s])[i])

\* The global profiles hold the path rules of the loaded users, of all of them
\* and of no other, once a load has replaced what an earlier process left.
GlobalFollowsLoaded ==
    Quiet /\ TotalFaults = 0 /\ loaded # {} =>
        \A n \in Global : kernel[n] = IF PathLines = {} THEN None ELSE GlobalBody

\* Unless an agent that died left it, a profile in force has the name of a rule of a
\* loaded user: updates and logouts leave no profile behind.
StaleOnlyAfterRestart ==
    Quiet /\ TotalFaults = 0 /\ restarts = 0 =>
        \A n \in Profiles : kernel[n] # None => Wanted(n)

\* Every profile in force has its file, by which alone the agent can find and
\* remove it: also after a crash between any two steps, unless apparmor_parser
\* refused to remove it.
EveryProfileHasFile ==
    faults["remove"] = 0 => \A n \in Names : kernel[n] # None => files[n] # None

\* The policies in memory are those of the file, so that an agent started again
\* goes on with them, except while they are saved or after a failed save or read.
DiskFollowsMemory ==
    restored /\ faults["save"] + faults["read"] = 0 /\ (job = None \/ job.phase # "save") =>
        state = (IF disk = None THEN EmptyState ELSE disk)

\* After a synchronisation that answered Ok, the profiles of the user that are
\* loaded are those of the new policy (the comment before the refresh in
\* update_user_policy).
SyncRefreshesLoaded ==
    Quiet /\ TotalFaults = 0 /\ reply # None =>
        \A rule \in Rules :
            kernel[NameOf[reply, rule]] # None =>
                \E i \in Lasting(reply) :
                    /\ NameOf[reply, RulesOf(reply)[i]] = NameOf[reply, rule]
                    /\ InForce(reply, RulesOf(reply)[i])

-----------------------------------------------------------------------------
(* The inductive invariant of the proofs (AppProfilesProofs).                *)

\* What a call works on, and at which step it can be.
CallFits ==
    /\ ~restored => job = None /\ loaded = {}
    /\ job # None =>
          /\ job.at # None => job.at \in job.todo \/ job.phase = "load"
          /\ job.phase = "save" => job.op = "sync" /\ job.at = None
          /\ job.phase = "unload" =>
                /\ job.op = "unload" \/ job.user \in loaded
                /\ job.todo \subseteq Prefixed[job.user]
          /\ job.phase = "load" =>
                /\ job.user \in loaded /\ job.done \in 0..Len(RulesOf(job.user))
                /\ job.at # None => MoreToLoad /\ job.at \in NextNames
          /\ job.phase \in {"unload_global", "load_global"} => job.todo \subseteq Global

\* A profile goes from the kernel before its file, and gets there after it.
ProfileAtHand ==
    job # None /\ job.at # None =>
        /\ job.phase \in {"unload", "unload_global"} =>
              (faults["remove"] = 0 => kernel[job.at] = None)
        /\ job.phase \in {"load", "load_global"} => files[job.at] # None

\* What no loaded user's policy asks for is to be removed by the call.
NothingStale ==
    TotalFaults = 0 /\ restarts = 0 =>
        /\ ~restored => \A n \in Profiles : kernel[n] = None
        /\ \A n \in Profiles : kernel[n] # None =>
              \/ Wanted(n)
              \/ /\ job # None /\ n \in Prefixed[job.user]
                 /\ job.phase = "unload" \/ (job.phase = "save" /\ job.user \in loaded)
        /\ job # None /\ job.phase = "unload" =>
              \A n \in Prefixed[job.user] : kernel[n] # None => n \in job.todo \ {job.at}

\* The same for the global profiles, and what is left to load.
GlobalInCall ==
    TotalFaults = 0 =>
        \A n \in Global :
            LET due == IF PathLines = {} THEN None ELSE GlobalBody
            IN  /\ loaded # {} /\ (job = None \/ (job.phase = "save" /\ job.user \notin loaded)) =>
                      kernel[n] = due
                /\ job # None /\ job.phase = "unload_global" =>
                      (kernel[n] # None => n \in job.todo \ {job.at})
                /\ job # None /\ job.phase = "load_global" =>
                      /\ PathLines = {} => job.todo = {}
                      /\ n \in job.todo \/ kernel[n] = due

\* No name of a user's profiles starts like those of another's.
Apart == \A u, v \in Users : u # v => Prefixed[u] \cap Prefixed[v] = {}

\* The profiles of a loaded user are in force but for those a call is at.
LoadedInForce ==
    Apart /\ TotalFaults = 0 =>
        \A u \in loaded : \A i \in Lasting(u) :
            \/ InForce(u, RulesOf(u)[i])
            \/ /\ job # None /\ job.user = u
               /\ job.phase \in {"save", "unload"} \/ (job.phase = "load" /\ i > job.done)

\* The listener is in one call at a time, and forgets a session before it
\* unloads its user.
HandlingFits ==
    handling # None =>
        /\ handling.step = "calling" => job # None /\ job.op = handling.op /\ job.user = handling.user
        /\ handling.step = "done" /\ job # None => job.op = "sync"
        /\ handling.op = "load" /\ handling.step # "waiting" => handling.user \in loaded

CacheFits ==
    ~crossed =>
        \A s \in Sessions : cache[s] # None =>
            /\ cache[s] \in loaded
            /\ handling # None /\ handling.op = "unload" => handling.user # cache[s]
            /\ job # None /\ job.op = "unload" => job.user # cache[s]

IInv ==
    /\ TypeOK
    /\ CallFits
    /\ ProfileAtHand
    /\ EveryProfileHasFile
    /\ DiskFollowsMemory
    /\ NothingStale
    /\ GlobalInCall
    /\ LoadedInForce
    /\ HandlingFits
    /\ CacheFits
=============================================================================
