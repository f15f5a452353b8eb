---------------------------- MODULE ClockMonitor ----------------------------
(***************************************************************************)
(* The clock integrity monitor (clock_integrity_monitor.rs) on top of the    *)
(* overlay it shares with the server's commands (commands.rs).              *)
(*                                                                          *)
(* One task ticks every minute, another for each resume of the host.  A tick *)
(* reads the clocks, decides under the Mutex of the state and acts on the    *)
(* outcome after the Mutex is released, so the overlay calls of two ticks    *)
(* and of a command may come in any order and run at once.                  *)
(*                                                                          *)
(* What apply_tick (crate guardian_agent) makes of the clocks is external: a *)
(* reading shows the wall clock right or wrong.  There is a managed user.    *)
(* The alert sent for a detection is left out.                              *)
(***************************************************************************)
EXTENDS Overlay

CONSTANTS
    Server,     \* the thread that runs the server's commands
    Periodic,   \* ClockIntegrityMonitor::new, then spawn_periodic_monitor
    Resumes,    \* tasks of on_resume in flight (bound)
    MaxFaults   \* bound on failures of each kind

ASSUME ThreadAssumption == Threads = {Server, Periodic} \cup Resumes
ASSUME ClockFaultAssumption == MaxFaults \in Nat

VARIABLES
    wrong,      \* the wall clock of the host is wrong
    tamper,     \* ClockIntegrityState.tamper_active
    saved,      \* its copy in clock_integrity.json
    starting,   \* ClockIntegrityMonitor::new shows the overlay
    tick,       \* progress of each tick
    reading,    \* what a tick has read: the wall clock is wrong
    fileFaults, \* failed saves and loads
    faults      \* failed readings and spawns

clockVars == <<wrong, tamper, saved, starting, tick, reading, fileFaults, faults>>
vars      == <<overlayVars, clockVars>>

Monitors == {Periodic} \cup Resumes
Ticks    == {"none", "fetching", "read", "show", "dismiss"}

TypeOK ==
    /\ OverlayTypeOK
    /\ wrong \in BOOLEAN /\ tamper \in BOOLEAN /\ saved \in BOOLEAN /\ starting \in BOOLEAN
    /\ tick \in [Monitors -> Ticks]
    /\ reading \in [Monitors -> BOOLEAN]
    /\ fileFaults \in 0..MaxFaults /\ faults \in 0..MaxFaults

Init ==
    /\ OverlayInit
    /\ wrong \in BOOLEAN
    /\ tamper = FALSE /\ saved = FALSE /\ starting = FALSE
    /\ tick = [t \in Monitors |-> "none"]
    /\ reading = [t \in Monitors |-> FALSE]
    /\ fileFaults = 0 /\ faults = 0

Fault     == faults < MaxFaults /\ faults' = faults + 1
FileFault == fileFaults < MaxFaults /\ fileFaults' = fileFaults + 1
Goto(t, step) == tick' = [tick EXCEPT ![t] = step]

-----------------------------------------------------------------------------
(* run_tick *)

BeginTick(t) ==
    /\ ~starting /\ tick[t] = "none" /\ call[t] = "none"
    /\ Goto(t, "fetching")
    /\ UNCHANGED <<overlayVars, wrong, tamper, saved, starting, reading, fileFaults, faults>>

\* fetch_tick_inputs, which asks a time server.
Fetch(t) ==
    /\ tick[t] = "fetching"
    /\ reading' = [reading EXCEPT ![t] = wrong]
    /\ Goto(t, "read")
    /\ UNCHANGED <<overlayVars, wrong, tamper, saved, starting, fileFaults, faults>>

FetchFails(t) ==
    /\ tick[t] = "fetching"
    /\ Fault
    /\ Goto(t, "none")
    /\ UNCHANGED <<overlayVars, wrong, tamper, saved, starting, reading, fileFaults>>

\* Seeded bug: the overlay of a lockdown that goes on is not shown again.
OutcomeOnce(active, bad) ==
    IF bad /\ ~active THEN "show" ELSE IF active /\ ~bad THEN "dismiss" ELSE "none"

\* TamperDetected and an Ok that finds tamper_active show the overlay,
\* TamperCleared dismisses it.
Outcome(active, bad) ==
    IF bad THEN "show" ELSE IF active THEN "dismiss" ELSE "none"

\* Seeded bug: the state is saved before apply_tick changes it.
DecideSavingFirst(t) ==
    /\ tick[t] = "read"
    /\ tamper' = reading[t]
    /\ saved' = tamper
    /\ Goto(t, Outcome(tamper, reading[t]))
    /\ UNCHANGED <<overlayVars, wrong, starting, reading, fileFaults, faults>>

\* apply_tick and save_state under the Mutex; a failed save is logged only.
Decide(t) ==
    /\ tick[t] = "read"
    /\ tamper' = reading[t]
    /\ \/ saved' = reading[t] /\ UNCHANGED fileFaults
       \/ FileFault /\ UNCHANGED saved
    /\ Goto(t, Outcome(tamper, reading[t]))
    /\ UNCHANGED <<overlayVars, wrong, starting, reading, faults>>

Act(t) ==
    /\ \/ tick[t] = "show" /\ Show(t)
       \/ tick[t] = "dismiss" /\ Dismiss(t)
    /\ Goto(t, "none")
    /\ UNCHANGED <<wrong, tamper, saved, starting, reading, fileFaults, faults>>

-----------------------------------------------------------------------------
(* The commands, the host and the service *)

Command ==
    /\ ~starting
    /\ Show(Server) \/ Dismiss(Server)
    /\ UNCHANGED clockVars

OverlayGoesOn(t) == OverlayStep(t) /\ UNCHANGED clockVars

HelperMissing(t) ==
    /\ SpawnFails(t) /\ Fault
    /\ UNCHANGED <<wrong, tamper, saved, starting, tick, reading, fileFaults>>

HelperGone == \E h \in Helpers : HelperExits(h) /\ UNCHANGED clockVars

ClockChanges ==
    /\ wrong' = ~wrong
    /\ UNCHANGED <<overlayVars, tamper, saved, starting, tick, reading, fileFaults, faults>>

\* The service is started again: new() loads the file and, when the lockdown is
\* on, shows the overlay before anything else runs.  An unreadable file, or one
\* torn by the crash (fs::write is not atomic), counts as no tampering.
Restart ==
    /\ OverlayLost
    /\ \/ tamper' = saved /\ UNCHANGED <<saved, fileFaults>>
       \/ FileFault /\ tamper' = FALSE /\ saved' \in {saved, FALSE}
    /\ starting' = tamper'
    /\ tick' = [t \in Monitors |-> IF t = Periodic /\ tamper' THEN "show" ELSE "none"]
    /\ reading' = [t \in Monitors |-> FALSE]
    /\ UNCHANGED <<wrong, faults>>

\* new() returns.
Started ==
    /\ starting /\ tick[Periodic] = "none" /\ call[Periodic] = "none"
    /\ starting' = FALSE
    /\ UNCHANGED <<overlayVars, wrong, tamper, saved, tick, reading, fileFaults, faults>>

TickStep(t) == BeginTick(t) \/ Fetch(t) \/ Decide(t) \/ Act(t)

Next ==
    \/ \E t \in Monitors : TickStep(t) \/ FetchFails(t)
    \/ Command
    \/ \E t \in Threads : OverlayGoesOn(t) \/ HelperMissing(t)
    \/ HelperGone \/ ClockChanges \/ Restart \/ Started

\* The periodic task sleeps a minute between ticks and every await of a tick
\* ends; nothing is assumed of resumes, commands, the clock or restarts.
Fairness ==
    /\ WF_vars(TickStep(Periodic))
    /\ WF_vars(Started)
    /\ \A t \in Threads : WF_vars(OverlayGoesOn(t))

Spec == Init /\ [][Next]_vars /\ Fairness

-----------------------------------------------------------------------------
(* Properties *)

\* The monitor and the commands use the overlay only through show and dismiss:
\* what holds of the overlay for every set of callers holds here (ClockMonitorProofs).
UsesOverlay == OverlaySpec

\* A restart goes on with the lockdown the service was in: the file is never
\* behind the state in memory, however ticks overlap, unless writing or reading
\* it has failed.
FileFollowsState == fileFaults = 0 => saved = tamper

\* While the tampering goes on the overlay keeps coming back, although commands
\* and other ticks may dismiss it and helpers end, unless the service is restarted
\* over and over.
LockdownReturns == (<>[]tamper /\ <>[][~Restart]_vars) => []<>(live # {})
=============================================================================
