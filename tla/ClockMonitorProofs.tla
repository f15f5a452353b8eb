------------------------- MODULE ClockMonitorProofs -------------------------
(***************************************************************************)
(* What holds of the overlay whoever calls it, and of the clock monitor as   *)
(* one of its callers.                                                      *)
(***************************************************************************)
EXTENDS ClockMonitor, TLAPS

-----------------------------------------------------------------------------
(* The overlay by itself *)

\* Every call of show or dismiss leaves the types of the overlay's state alone.
LEMMA OverlayTypes == OverlayTypeOK /\ [OverlayNext]_overlayVars => OverlayTypeOK'
  BY DEF OverlayTypeOK, OverlayNext, overlayVars, Calls, Show, Dismiss, OverlayStep,
         KillTracked, Spawn, Store, SpawnFails, HelperExits, OverlayLost

\* While no two calls of show overlap there is nothing on the screen but the
\* helper in the slot or the one about to be stored.
LEMMA OneShowKept ==
  ASSUME OverlayInv, [OverlayNext]_overlayVars
  PROVE  OneShow'
<1> USE DEF OverlayInv, OverlayTypeOK, OneShow, Showing, Calls
<1> USE HelperAssumption
<1>1. ASSUME NEW t \in Threads, Show(t) PROVE OneShow'
  BY <1>1 DEF Show
<1>2. ASSUME NEW t \in Threads, Dismiss(t) PROVE OneShow'
  BY <1>2 DEF Dismiss
<1>3. ASSUME NEW t \in Threads, KillTracked(t) PROVE OneShow'
  BY <1>3 DEF KillTracked
<1>4. ASSUME NEW t \in Threads, Spawn(t) PROVE OneShow'
  BY <1>4 DEF Spawn
<1>5. ASSUME NEW t \in Threads, Store(t) PROVE OneShow'
  BY <1>5 DEF Store
<1>6. ASSUME NEW t \in Threads, SpawnFails(t) PROVE OneShow'
  BY <1>6 DEF SpawnFails
<1>7. ASSUME NEW h \in Helpers, HelperExits(h) PROVE OneShow'
  BY <1>7 DEF HelperExits
<1>8. CASE OverlayLost
  BY <1>8 DEF OverlayLost
<1>9. CASE UNCHANGED overlayVars
  BY <1>9 DEF overlayVars
<1>10. QED
  BY <1>1, <1>2, <1>3, <1>4, <1>5, <1>6, <1>7, <1>8, <1>9 DEF OverlayNext, OverlayStep

\* The invariant of the overlay for any set of threads and helpers.
THEOREM OverlayInvariant == OverlaySpec => []OverlayInv
<1>1. OverlayInit => OverlayInv
  BY HelperAssumption
     DEF OverlayInit, OverlayInv, OverlayTypeOK, OneShow, Showing, Calls
<1>2. OverlayInv /\ [OverlayNext]_overlayVars => OverlayInv'
  BY OverlayTypes, OneShowKept DEF OverlayInv
<1>3. QED
  BY <1>1, <1>2, PTL DEF OverlaySpec

LEMMA InvTracks == OverlayInv => OrphansOnlyFromOverlap
<1> SUFFICES ASSUME OverlayInv, ~overlapped
             PROVE  Orphans = {} /\ \A h, k \in live : h = k
  BY DEF OrphansOnlyFromOverlap
<1> USE DEF OverlayInv, OverlayTypeOK, OneShow, Showing, Calls
<1>1. CASE \E t \in Threads : call[t] \in {"spawning", "storing"}
  BY <1>1 DEF Orphans
<1>2. CASE \A t \in Threads : call[t] \notin {"spawning", "storing"}
  BY <1>2 DEF Orphans
<1>3. QED
  BY <1>1, <1>2

\* The slot tracks the only helper on the screen as long as no two calls of show
\* overlap, for any number of callers, dismissals and helpers that end.
THEOREM TrackedUnlessOverlapped == OverlaySpec => []OrphansOnlyFromOverlap
  BY OverlayInvariant, InvTracks, PTL

-----------------------------------------------------------------------------
(* The monitor *)

\* Every step of the monitor is one of the overlay or leaves it alone.
LEMMA StepUsesOverlay == TypeOK /\ [Next]_vars => [OverlayNext]_overlayVars
<1> SUFFICES ASSUME TypeOK, [Next]_vars PROVE [OverlayNext]_overlayVars
  OBVIOUS
<1>1. ASSUME NEW t \in Monitors, TickStep(t) \/ FetchFails(t) PROVE [OverlayNext]_overlayVars
  <2>1. t \in Threads
    BY ThreadAssumption DEF Monitors
  <2>2. QED
    BY <1>1, <2>1 DEF TickStep, BeginTick, Fetch, FetchFails, Decide, Act, OverlayNext
<1>2. CASE Command
  BY <1>2, ThreadAssumption DEF Command, OverlayNext
<1>3. ASSUME NEW t \in Threads, OverlayGoesOn(t) \/ HelperMissing(t)
      PROVE  [OverlayNext]_overlayVars
  BY <1>3 DEF OverlayGoesOn, HelperMissing, OverlayNext
<1>4. CASE HelperGone \/ ClockChanges \/ Restart \/ Started
  BY <1>4 DEF HelperGone, ClockChanges, Restart, Started, OverlayNext
<1>5. CASE UNCHANGED vars
  BY <1>5 DEF vars
<1>6. QED
  BY <1>1, <1>2, <1>3, <1>4, <1>5 DEF Next

\* The types of the monitor's own state.
LEMMA MonitorTypes == TypeOK /\ [Next]_vars => TypeOK'
<1> SUFFICES ASSUME TypeOK, [Next]_vars PROVE TypeOK'
  OBVIOUS
<1>1. OverlayTypeOK'
  BY StepUsesOverlay, OverlayTypes DEF TypeOK
<1> USE ClockFaultAssumption DEF TypeOK, Ticks
<1>2. ASSUME NEW t \in Monitors, TickStep(t) \/ FetchFails(t) PROVE TypeOK'
  BY <1>1, <1>2 DEF TickStep, BeginTick, Fetch, FetchFails, Decide, Act, Outcome, Goto,
                    Fault, FileFault
<1>3. CASE Command
  BY <1>1, <1>3 DEF Command, clockVars
<1>4. ASSUME NEW t \in Threads, OverlayGoesOn(t) \/ HelperMissing(t) PROVE TypeOK'
  BY <1>1, <1>4 DEF OverlayGoesOn, HelperMissing, clockVars, Fault
<1>5. CASE HelperGone \/ ClockChanges \/ Started
  BY <1>1, <1>5 DEF HelperGone, ClockChanges, Started, clockVars
<1>6. CASE Restart
  <2>1. tamper' \in BOOLEAN /\ saved' \in BOOLEAN
    BY <1>6 DEF Restart
  <2>2. fileFaults' \in 0..MaxFaults /\ faults' \in 0..MaxFaults
    <3>1. FileFault => fileFaults' \in 0..MaxFaults
      BY DEF FileFault
    <3>2. fileFaults' = fileFaults \/ FileFault
      BY <1>6 DEF Restart
    <3>3. faults' = faults
      BY <1>6 DEF Restart
    <3>4. QED
      BY <3>1, <3>2, <3>3
  <2>3. tick' \in [Monitors -> Ticks] /\ reading' \in [Monitors -> BOOLEAN]
    BY <1>6 DEF Restart
  <2>4. starting' \in BOOLEAN /\ wrong' \in BOOLEAN
    BY <1>6, <2>1 DEF Restart
  <2>5. QED
    BY <1>1, <2>1, <2>2, <2>3, <2>4
<1>7. CASE UNCHANGED vars
  BY <1>1, <1>7 DEF vars, clockVars
<1>8. QED
  BY <1>2, <1>3, <1>4, <1>5, <1>6, <1>7 DEF Next

\* Type correctness of the monitor and the overlay it drives.
THEOREM TypeCorrect == Spec => []TypeOK
<1>1. Init => TypeOK
  <2> SUFFICES ASSUME Init PROVE TypeOK
    OBVIOUS
  <2>1. OverlayTypeOK
    BY DEF Init, OverlayInit, OverlayTypeOK, Calls
  <2>2. fileFaults \in 0..MaxFaults /\ faults \in 0..MaxFaults
    BY ClockFaultAssumption DEF Init
  <2>3. tick \in [Monitors -> Ticks] /\ reading \in [Monitors -> BOOLEAN]
    BY DEF Init, Ticks
  <2>4. wrong \in BOOLEAN /\ tamper \in BOOLEAN /\ saved \in BOOLEAN /\ starting \in BOOLEAN
    BY DEF Init
  <2>5. QED
    BY <2>1, <2>2, <2>3, <2>4 DEF TypeOK
<1>2. QED
  BY <1>1, MonitorTypes, PTL DEF Spec

\* The monitor and the commands touch the overlay through show and dismiss only.
THEOREM Composition == Spec => UsesOverlay
<1>1. Init => OverlayInit
  BY DEF Init
<1>2. QED
  BY <1>1, StepUsesOverlay, TypeCorrect, PTL DEF Spec, UsesOverlay, OverlaySpec

\* So the overlay of the running agent is tracked unless calls of show overlap.
THEOREM MonitorTracksOverlay == Spec => []OrphansOnlyFromOverlap
  BY Composition, TrackedUnlessOverlapped, PTL DEF UsesOverlay

\* A restart goes on with the lockdown the service was in, for any number of
\* concurrent ticks, as long as writing and reading the file succeed.
THEOREM FileFollows == Spec => []FileFollowsState
<1>1. Init => FileFollowsState
  BY DEF Init, FileFollowsState
<1>2. TypeOK /\ FileFollowsState /\ [Next]_vars => FileFollowsState'
  <2> SUFFICES ASSUME TypeOK, FileFollowsState, [Next]_vars, fileFaults' = 0
               PROVE  saved' = tamper'
    BY DEF FileFollowsState
  <2> USE ClockFaultAssumption DEF FileFollowsState, TypeOK, FileFault
  <2>1. ASSUME NEW t \in Monitors, TickStep(t) \/ FetchFails(t) PROVE saved' = tamper'
    BY <2>1 DEF TickStep, BeginTick, Fetch, FetchFails, Decide, Act
  <2>2. CASE Command \/ HelperGone \/ ClockChanges \/ Started
    BY <2>2 DEF Command, HelperGone, ClockChanges, Started, clockVars
  <2>3. ASSUME NEW t \in Threads, OverlayGoesOn(t) \/ HelperMissing(t) PROVE saved' = tamper'
    BY <2>3 DEF OverlayGoesOn, HelperMissing, clockVars
  <2>4. CASE Restart
    <3>1. ~FileFault
      BY DEF FileFault
    <3>2. tamper' = saved /\ saved' = saved
      BY <2>4, <3>1 DEF Restart
    <3>3. QED
      BY <3>2
  <2>5. CASE UNCHANGED vars
    BY <2>5 DEF vars, clockVars
  <2>6. QED
    BY <2>1, <2>2, <2>3, <2>4, <2>5 DEF Next
<1>3. QED
  BY <1>1, <1>2, TypeCorrect, PTL DEF Spec
=============================================================================
