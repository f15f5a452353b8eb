-------------------------- MODULE TerminalMonitor --------------------------
(***************************************************************************)
(* The terminal monitor (src/src/terminal_monitor.rs).  Hooks in the shells  *)
(* log every command to the journal, which one task follows; a second task   *)
(* reads the history files of the shells from a saved offset every ten       *)
(* seconds, to report what the hooks missed.                                *)
(*                                                                          *)
(* The shells write the files at any time: between the look at the length of *)
(* a file and the read, in the middle of a line, or anew, when they trim     *)
(* their history.  The offsets are saved after a pass over all files, by a   *)
(* write that a crash may cut short.                                        *)
(*                                                                          *)
(* Abstract: a line is two pieces, and a file a sequence of pieces.  The     *)
(* formats of the three shells are left out but for what the parsers do to   *)
(* the fragments at either end of a read: whether one is kept depends on how *)
(* it happens to begin.  A whole line is a command: it is not blank, and no  *)
(* comment that a parser takes for a timestamp.                             *)
(***************************************************************************)
EXTENDS Integers, Sequences, SequencesExt

CONSTANTS
    Files,          \* the history files of the monitored users
    Commands,
    None,
    MaxLines,       \* bound on lines
    MaxRewrites,    \* bound on history files written anew
    MaxFaults,      \* bound on failed operations
    MaxRestarts     \* bound on starts after the first

Piece == [line : 1..MaxLines, part : {1, 2}, cmd : Commands]
InHand == [file : Files, len : Nat]

ASSUME TerminalAbsentAssumption ==
    None \notin [Files -> Nat] /\ None \notin Seq(Piece) /\ None \notin InHand
ASSUME TerminalBoundAssumption == {MaxLines, MaxRewrites, MaxFaults, MaxRestarts} \subseteq Nat

VARIABLES
    file,       \* contents of each history file
    offset,     \* UserOffsets
    store,      \* terminal_offsets.json
    at,         \* where run_history_poller is
    left,       \* files of the pass it has not looked at
    changed,    \* the pass has moved an offset
    hand,       \* the file it is about to read, and its length when it looked
    recent,     \* commands of recent_hook_cmds younger than ten seconds
    hooked,     \* commands reported by the hooks (history)
    reports,    \* how often each piece was reported from a file (history)
    dropped,    \* fragments a parser did not keep (history)
    unsaved,    \* pieces reported since the offsets were last saved (history)
    loose,      \* pieces a crash found in unsaved (history)
    passed,     \* length of each file when a start set its offset to the end (history)
    rewritten,  \* files that were not only appended to (history)
    lines, rewrites, faults, restarts

pollVars   == <<offset, store, at, left, changed, hand>>
reportVars == <<recent, hooked, reports, dropped, unsaved, loose>>
fileVars   == <<file, rewritten, lines, rewrites>>
vars == <<pollVars, reportVars, fileVars, passed, faults, restarts>>

-----------------------------------------------------------------------------

Places == {"down", "save", "saving", "asleep", "pass"}

LenOf(f) == IF file[f] = None THEN 0 ELSE Len(file[f])

\* What is about to be read is longer than what was read: the difference is a u64.
TypeOK ==
    /\ file \in [Files -> Seq(Piece) \cup {None}]
    /\ offset \in [Files -> Nat]
    /\ store \in [Files -> Nat] \cup {None}
    /\ at \in Places
    /\ left \subseteq Files
    /\ changed \in BOOLEAN
    /\ hand \in InHand \cup {None}
    /\ hand # None => at = "pass" /\ hand.len > offset[hand.file]
    /\ recent \subseteq hooked /\ hooked \subseteq Commands
    /\ reports \in [Piece -> Nat]
    /\ dropped \subseteq Piece /\ unsaved \subseteq Piece /\ loose \subseteq Piece
    /\ passed \in [Files -> Nat]
    /\ rewritten \subseteq Files
    /\ lines \in 0..MaxLines /\ rewrites \in 0..MaxRewrites
    /\ faults \in 0..MaxFaults /\ restarts \in 0..MaxRestarts

\* The agent has not run; a user may have a history.
Init ==
    /\ file \in [Files -> {None, <<>>}]
    /\ offset = [f \in Files |-> 0] /\ store = None
    /\ at = "down" /\ left = {} /\ changed = FALSE /\ hand = None
    /\ recent = {} /\ hooked = {}
    /\ reports = [x \in Piece |-> 0]
    /\ dropped = {} /\ unsaved = {} /\ loose = {}
    /\ passed = [f \in Files |-> 0] /\ rewritten = {}
    /\ lines = 0 /\ rewrites = 0 /\ faults = 0 /\ restarts = 0

Fault == faults < MaxFaults /\ faults' = faults + 1

-----------------------------------------------------------------------------
(* run_history_poller *)

NoOffsets == [f \in Files |-> 0]
Loaded    == IF store = None THEN NoOffsets ELSE store

\* initialize_offset for every file: an offset of zero becomes the length of the
\* file, also when it was saved as zero.
Initialize(offsets) ==
    /\ offset' = [f \in Files |-> IF offsets[f] = 0 THEN LenOf(f) ELSE offsets[f]]
    /\ passed' = [f \in Files |-> IF offsets[f] = 0 THEN LenOf(f) ELSE passed[f]]

\* load_offsets: a store that cannot be read counts as none.
Start ==
    /\ at = "down"
    /\ \/ Initialize(Loaded) /\ UNCHANGED faults
       \/ Initialize(NoOffsets) /\ Fault
    /\ at' = "save"
    /\ UNCHANGED <<store, left, changed, hand, reportVars, fileVars, restarts>>

\* save_offsets empties the file and writes it; errors are ignored.
OpenStore ==
    /\ at = "save"
    /\ store' = None
    /\ at' = "saving"
    /\ UNCHANGED <<offset, left, changed, hand, reportVars, fileVars, passed, faults, restarts>>

WriteStore ==
    /\ at = "saving"
    /\ store' = offset
    /\ unsaved' = {}
    /\ at' = "asleep"
    /\ UNCHANGED <<offset, left, changed, hand, recent, hooked, reports, dropped, loose, fileVars,
                   passed, faults, restarts>>

SaveFails ==
    /\ at \in {"save", "saving"} /\ Fault
    /\ at' = "asleep"
    /\ UNCHANGED <<offset, store, left, changed, hand, reportVars, fileVars, passed, restarts>>

\* Ten seconds later.
Wake ==
    /\ at = "asleep"
    /\ at' = "pass" /\ left' = Files /\ changed' = FALSE
    /\ UNCHANGED <<offset, store, hand, reportVars, fileVars, passed, faults, restarts>>

Looks(f) == at = "pass" /\ hand = None /\ f \in left

\* Seeded bug: a file that shrank is read as one that grew.
Differs(f) == file[f] # None /\ LenOf(f) # offset[f]

Grown(f)  == file[f] # None /\ LenOf(f) > offset[f]
Shrunk(f) == file[f] # None /\ LenOf(f) < offset[f]

\* poll_history_file: nothing new, or no file, which leaves the offset alone.
SkipFile(f) ==
    /\ Looks(f)
    /\ ~Grown(f) /\ ~Shrunk(f)
    /\ left' = left \ {f}
    /\ UNCHANGED <<offset, store, at, changed, hand, reportVars, fileVars, passed, faults, restarts>>

\* Seeded bug: a file that was trimmed is read again from its start.
FollowFromStart(f) ==
    /\ Looks(f) /\ Shrunk(f)
    /\ offset' = [offset EXCEPT ![f] = 0]
    /\ left' = left \ {f} /\ changed' = TRUE
    /\ UNCHANGED <<store, at, hand, reportVars, fileVars, passed, faults, restarts>>

\* The offset follows a file that was trimmed; what is in it is not read.
Follow(f) ==
    /\ Looks(f) /\ Shrunk(f)
    /\ offset' = [offset EXCEPT ![f] = LenOf(f)]
    /\ left' = left \ {f} /\ changed' = TRUE
    /\ UNCHANGED <<store, at, hand, reportVars, fileVars, passed, faults, restarts>>

LookAt(f) ==
    /\ Looks(f) /\ Grown(f)
    /\ hand' = [file |-> f, len |-> LenOf(f)]
    /\ left' = left \ {f}
    /\ UNCHANGED <<offset, store, at, changed, reportVars, fileVars, passed, faults, restarts>>

\* The bytes from the offset to the length that was seen.
Bytes  == ToSet(SubSeq(file[hand.file], offset[hand.file] + 1, hand.len))

Fragments(read) == {x \in read : [x EXCEPT !.part = 3 - @] \notin read}

\* A whole line whose command a hook has just reported is not reported again.
Reported(read) == {x \in read : x.cmd \in recent => x \in Fragments(read)}

\* The parsers go by lines, and of a line read in two parts each may drop its
\* fragment: parse_fish_history keeps what begins with a marker, so that the tail of
\* a command is lost; parse_bash_history takes # and digits for a timestamp;
\* parse_zsh_history cuts off what comes before a semicolon; a blank is nothing; and
\* a fragment may read like a command that a hook has just reported.
Read ==
    /\ hand # None
    /\ LenOf(hand.file) >= hand.len
    /\ offset' = [offset EXCEPT ![hand.file] = hand.len]
    /\ \E lost \in SUBSET Fragments(Bytes) :
           LET kept == Reported(Bytes) \ lost
           IN  /\ reports' = [x \in Piece |-> IF x \in kept THEN reports[x] + 1 ELSE reports[x]]
               /\ unsaved' = unsaved \cup kept
               /\ dropped' = dropped \cup lost
    /\ hand' = None /\ changed' = TRUE
    /\ UNCHANGED <<store, at, left, recent, hooked, loose, fileVars, passed, faults, restarts>>

\* The file has shrunk since, or cannot be read: it is left for the next pass.
\* Seeded bug: the offset moves before the read.
ReadFailsPast ==
    /\ hand # None
    /\ IF LenOf(hand.file) < hand.len THEN UNCHANGED faults ELSE Fault
    /\ offset' = [offset EXCEPT ![hand.file] = hand.len]
    /\ hand' = None
    /\ UNCHANGED <<store, at, left, changed, reportVars, fileVars, passed, restarts>>

ReadFails ==
    /\ hand # None
    /\ IF LenOf(hand.file) < hand.len THEN UNCHANGED faults ELSE Fault
    /\ hand' = None
    /\ UNCHANGED <<offset, store, at, left, changed, reportVars, fileVars, passed, restarts>>

EndPass ==
    /\ at = "pass" /\ left = {} /\ hand = None
    /\ at' = IF changed THEN "save" ELSE "asleep"
    /\ UNCHANGED <<offset, store, left, changed, hand, reportVars, fileVars, passed, faults, restarts>>

-----------------------------------------------------------------------------
(* run_journal_tailer *)

\* A command comes through the journal: remember it and report it.
Hook(c) ==
    /\ at # "down"
    /\ recent' = recent \cup {c}
    /\ hooked' = hooked \cup {c}
    /\ UNCHANGED <<pollVars, reports, dropped, unsaved, loose, fileVars, passed, faults, restarts>>

\* Ten seconds pass; after thirty the entry is dropped, which makes no difference.
Forget(c) ==
    /\ c \in recent
    /\ recent' = recent \ {c}
    /\ UNCHANGED <<pollVars, hooked, reports, dropped, unsaved, loose, fileVars, passed, faults,
                   restarts>>

-----------------------------------------------------------------------------
(* The shells and the agent *)

PieceOf(part, c) == [line |-> lines + 1, part |-> part, cmd |-> c]
Contents(f) == IF file[f] = None THEN <<>> ELSE file[f]
Halfway(f)  == Contents(f) # <<>> /\ Last(Contents(f)).part = 1

\* A shell appends a line, or the first piece of one.
AppendLine(f, c) ==
    /\ lines < MaxLines /\ lines' = lines + 1
    /\ ~Halfway(f)
    /\ \/ file' = [file EXCEPT ![f] = Contents(f) \o <<PieceOf(1, c), PieceOf(2, c)>>]
       \/ file' = [file EXCEPT ![f] = Append(Contents(f), PieceOf(1, c))]
    /\ UNCHANGED <<pollVars, reportVars, passed, rewritten, rewrites, faults, restarts>>

AppendRest(f) ==
    /\ Halfway(f)
    /\ file' = [file EXCEPT ![f] = Append(@, [Last(@) EXCEPT !.part = 2])]
    /\ UNCHANGED <<pollVars, reportVars, passed, rewritten, lines, rewrites, faults, restarts>>

\* A history is removed, or written anew without its first lines.
Rewrite(f) ==
    /\ rewrites < MaxRewrites /\ rewrites' = rewrites + 1
    /\ file[f] # None
    /\ \E n \in 0..LenOf(f) :
           /\ n < LenOf(f) => file[f][n + 1].part = 1
           /\ file' \in {[file EXCEPT ![f] = None], [file EXCEPT ![f] = SubSeq(@, n + 1, Len(@))]}
    /\ rewritten' = rewritten \cup {f}
    /\ UNCHANGED <<pollVars, reportVars, passed, lines, faults, restarts>>

\* The agent dies with its memory.
Crash ==
    /\ at # "down"
    /\ restarts < MaxRestarts /\ restarts' = restarts + 1
    /\ at' = "down"
    /\ offset' = [f \in Files |-> 0]
    /\ left' = {} /\ changed' = FALSE /\ hand' = None
    /\ recent' = {}
    /\ loose' = loose \cup unsaved /\ unsaved' = {}
    /\ UNCHANGED <<store, hooked, reports, dropped, fileVars, passed, faults>>

Poller ==
    \/ Start
    \/ OpenStore \/ WriteStore \/ SaveFails
    \/ Wake
    \/ \E f \in Files : SkipFile(f) \/ Follow(f) \/ LookAt(f)
    \/ Read \/ ReadFails
    \/ EndPass

Tailer == \E c \in Commands : Hook(c) \/ Forget(c)

Environment ==
    \/ \E f \in Files, c \in Commands : AppendLine(f, c)
    \/ \E f \in Files : AppendRest(f) \/ Rewrite(f)
    \/ Crash

Next == Poller \/ Tailer \/ Environment

Spec == Init /\ [][Next]_vars

-----------------------------------------------------------------------------
(* Properties *)

\* A history file is reported at most once, however it is trimmed, removed and begun
\* again, except what was reported between the last save and a crash
\* (terminal_monitor.rs, poll_history_file and save_offsets).
ReportedOnce == \A x \in Piece : reports[x] > 1 => x \in loose

Accounted(x) == reports[x] > 0 \/ x.cmd \in hooked \/ x \in dropped

\* Behind the offset of a file that is only appended to, every line a read had whole
\* was reported, from the file or by a hook, and of a line read in two parts every
\* fragment but one that its parser dropped; except what was there when a start set
\* the offset to the end of the file: a file it had no offset for, or none but zero
\* (terminal_monitor.rs, poll_history_file and initialize_offset).
NothingSkipped ==
    \A f \in Files \ rewritten : \A i \in (passed[f] + 1)..offset[f] : Accounted(file[f][i])

-----------------------------------------------------------------------------
(* The inductive invariant of the proofs (TerminalMonitorProofs).            *)

Positions(f) == 1..LenOf(f)

\* A line is in one file, once, and its second piece follows its first.
EachPieceOnce ==
    /\ \A f, g \in Files : \A i \in Positions(f), j \in Positions(g) :
           file[f][i] = file[g][j] => f = g /\ i = j
    /\ \A f \in Files : \A i \in Positions(f) :
           /\ file[f][i].line <= lines
           /\ file[f][i].part = 2 => i > 1 /\ file[f][i - 1] = [file[f][i] EXCEPT !.part = 1]

\* No piece is reported before it is written.
Rest(f) == [Last(Contents(f)) EXCEPT !.part = 2]
ReportedWasWritten ==
    \A x \in Piece : reports[x] > 0 =>
        x.line <= lines /\ \A f \in Files : Halfway(f) => x # Rest(f)

\* What lies beyond the offset was not reported, but before a crash that lost
\* the offset; beyond the saved offset, nor since the save.
BeyondOffset ==
    at # "down" =>
        \A f \in Files : \A i \in Positions(f) :
            i > offset[f] /\ reports[file[f][i]] > 0 => file[f][i] \in loose
BeyondStore ==
    store # None =>
        \A f \in Files : \A i \in Positions(f) :
            i > store[f] /\ reports[file[f][i]] > 0 => file[f][i] \in loose \cup unsaved
DownHasLost == at = "down" => unsaved = {} /\ \A f \in Files : offset[f] = 0

\* Of a file that is only appended to, no offset is past the end, and what is
\* said of the offset holds of the saved one.
NotPastEnd ==
    \A f \in Files \ rewritten :
        offset[f] <= LenOf(f) /\ (store # None => store[f] <= LenOf(f))
StoreSkipsNothing ==
    store # None =>
        \A f \in Files \ rewritten : \A i \in (passed[f] + 1)..store[f] : Accounted(file[f][i])

IInv ==
    /\ TypeOK
    /\ EachPieceOnce
    /\ ReportedWasWritten
    /\ BeyondOffset
    /\ BeyondStore
    /\ DownHasLost
    /\ ReportedOnce
    /\ NotPastEnd
    /\ StoreSkipsNothing
    /\ NothingSkipped
=============================================================================
