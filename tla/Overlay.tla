------------------------------ MODULE Overlay ------------------------------
(***************************************************************************)
(* The overlay helper process and the slot that tracks it (overlay.rs).      *)
(*                                                                          *)
(* show() and dismiss() are plain functions that any thread of the agent may *)
(* call: the command handler, the periodic clock check and the ticks after a *)
(* resume.  The Mutex OVERLAY_CHILD is held only while the slot is emptied   *)
(* and the child killed, or while the slot is filled; between the two, show  *)
(* looks for the helper and spawns it without the lock.  Dropping a Child    *)
(* does not kill the process.                                               *)
(***************************************************************************)
EXTENDS Naturals

CONSTANTS
    Threads,    \* callers of show and dismiss
    Helpers,    \* ids of helper processes
    None

ASSUME HelperAssumption == None \notin Helpers

VARIABLES
    tracked,    \* OVERLAY_CHILD
    live,       \* helper processes on the screen
    call,       \* progress of each thread's call
    held,       \* the Child a thread has spawned and not stored
    overlapped  \* two calls of show have run at once (history)

overlayVars == <<tracked, live, call, held, overlapped>>

Calls == {"none", "dismissing", "replacing", "spawning", "storing"}

OverlayTypeOK ==
    /\ tracked \in Helpers \cup {None}
    /\ live \subseteq Helpers
    /\ call \in [Threads -> Calls]
    /\ held \in [Threads -> Helpers \cup {None}]
    /\ overlapped \in BOOLEAN

OverlayInit ==
    /\ tracked = None
    /\ live = {}
    /\ call = [t \in Threads |-> "none"]
    /\ held = [t \in Threads |-> None]
    /\ overlapped = FALSE

Showing(t) == call[t] \in {"replacing", "spawning", "storing"}

Show(t) ==
    /\ call[t] = "none"
    /\ call' = [call EXCEPT ![t] = "replacing"]
    /\ overlapped' = (overlapped \/ \E u \in Threads : Showing(u))
    /\ UNCHANGED <<tracked, live, held>>

Dismiss(t) ==
    /\ call[t] = "none"
    /\ call' = [call EXCEPT ![t] = "dismissing"]
    /\ UNCHANGED <<tracked, live, held, overlapped>>

\* Seeded bug: show launches a helper without killing the one on the screen.
KillTrackedOnDismiss(t) ==
    /\ call[t] \in {"replacing", "dismissing"}
    /\ \/ call[t] = "replacing" /\ call' = [call EXCEPT ![t] = "spawning"]
          /\ UNCHANGED <<tracked, live>>
       \/ call[t] = "dismissing" /\ call' = [call EXCEPT ![t] = "none"]
          /\ tracked' = None /\ live' = live \ {tracked}
    /\ UNCHANGED <<held, overlapped>>

\* dismiss(): the first thing show does, and all that a dismissal does.  The
\* child is killed and reaped before the lock is released.
KillTracked(t) ==
    /\ \/ call[t] = "replacing" /\ call' = [call EXCEPT ![t] = "spawning"]
       \/ call[t] = "dismissing" /\ call' = [call EXCEPT ![t] = "none"]
    /\ tracked' = None
    /\ live' = live \ {tracked}
    /\ UNCHANGED <<held, overlapped>>

Spawn(t) ==
    /\ call[t] = "spawning"
    /\ \E h \in Helpers \ live :
          /\ h # tracked /\ \A u \in Threads : held[u] # h
          /\ live' = live \cup {h}
          /\ held' = [held EXCEPT ![t] = h]
    /\ call' = [call EXCEPT ![t] = "storing"]
    /\ UNCHANGED <<tracked, overlapped>>

\* The helper is not installed, or the spawn fails.
SpawnFails(t) ==
    /\ call[t] = "spawning"
    /\ call' = [call EXCEPT ![t] = "none"]
    /\ UNCHANGED <<tracked, live, held, overlapped>>

\* Seeded bug: the slot only records that there is an overlay.
StoreFlag(t) ==
    /\ call[t] = "storing"
    /\ tracked' = TRUE
    /\ held' = [held EXCEPT ![t] = None]
    /\ call' = [call EXCEPT ![t] = "none"]
    /\ UNCHANGED <<live, overlapped>>

Store(t) ==
    /\ call[t] = "storing"
    /\ tracked' = held[t]
    /\ held' = [held EXCEPT ![t] = None]
    /\ call' = [call EXCEPT ![t] = "none"]
    /\ UNCHANGED <<live, overlapped>>

\* A helper ends by itself; its Child stays where it is.
HelperExits(h) ==
    /\ h \in live
    /\ live' = live \ {h}
    /\ UNCHANGED <<tracked, call, held, overlapped>>

\* The service goes down with all its processes (systemd's control group).
OverlayLost ==
    /\ tracked' = None
    /\ live' = {}
    /\ call' = [t \in Threads |-> "none"]
    /\ held' = [t \in Threads |-> None]
    /\ overlapped' = FALSE

OverlayStep(t) == KillTracked(t) \/ Spawn(t) \/ Store(t)

OverlayNext ==
    \/ \E t \in Threads : Show(t) \/ Dismiss(t) \/ OverlayStep(t) \/ SpawnFails(t)
    \/ \E h \in Helpers : HelperExits(h)
    \/ OverlayLost

OverlaySpec == OverlayInit /\ [][OverlayNext]_overlayVars

-----------------------------------------------------------------------------
Orphans == {h \in live : h # tracked /\ \A t \in Threads : held[t] # h}

\* The slot keeps track of every helper on the screen, so that dismiss can end
\* it: none is left that is neither in the slot nor about to be stored.
NoOrphan == Orphans = {}

\* As long as no two calls of show have run at once, the slot keeps track of
\* the only helper on the screen.
OrphansOnlyFromOverlap ==
    ~overlapped =>
        /\ Orphans = {}
        /\ \A h, k \in live : h = k

-----------------------------------------------------------------------------
(* The inductive invariant of the proof (ClockMonitorProofs).                     *)

\* Without an overlap one thread at most is in show; from its kill to its store
\* the slot is empty and what it holds is all there is on the screen.
OneShow ==
    /\ \A t \in Threads : held[t] # None => call[t] = "storing"
    /\ ~overlapped =>
        /\ \A t, u \in Threads : Showing(t) /\ Showing(u) => t = u
        /\ \A t \in Threads :
              /\ call[t] = "spawning" => tracked = None /\ live = {}
              /\ call[t] = "storing" => tracked = None /\ live \subseteq {held[t]}
        /\ (\A t \in Threads : call[t] \notin {"spawning", "storing"}) => live \subseteq {tracked}

OverlayInv == OverlayTypeOK /\ OneShow
=============================================================================
