----------------------- MODULE TerminalMonitorProofs -----------------------
(***************************************************************************)
(* Proofs about TerminalMonitor, for every set of history files and          *)
(* commands, and for any number of lines, faults, rewrites and restarts.      *)
(***************************************************************************)
EXTENDS TerminalMonitor, SequenceTheorems, TLAPS

-----------------------------------------------------------------------------
(* Files and pieces *)

\* The other piece of a line is a piece.
LEMMA OtherPiece ==
    ASSUME NEW x \in Piece, NEW p \in {1, 2}
    PROVE  /\ [x EXCEPT !.part = p] \in Piece
           /\ [x EXCEPT !.part = p] = [line |-> x.line, part |-> p, cmd |-> x.cmd]
           /\ x.line \in 1..MaxLines /\ x.part \in {1, 2} /\ x.cmd \in Commands
  BY DEF Piece

LEMMA NewPiece ==
    ASSUME TypeOK, lines < MaxLines, NEW p \in {1, 2}, NEW c \in Commands
    PROVE  PieceOf(p, c) \in Piece /\ lines + 1 \in 0..MaxLines
  BY TerminalBoundAssumption DEF TypeOK, PieceOf, Piece

\* What a file holds.
LEMMA FileHolds ==
    ASSUME TypeOK, NEW f \in Files
    PROVE  /\ Contents(f) \in Seq(Piece) /\ LenOf(f) = Len(Contents(f)) /\ LenOf(f) \in Nat
           /\ LenOf(f) > 0 => file[f] # None /\ file[f] = Contents(f)
           /\ \A i \in Positions(f) : file[f][i] \in Piece /\ file[f] \in Seq(Piece)
<1>1. file[f] \in Seq(Piece) \cup {None}
  BY DEF TypeOK
<1>2. <<>> \in Seq(Piece) /\ Len(<<>>) = 0
  OBVIOUS
<1>3. CASE file[f] = None
  BY <1>2, <1>3 DEF Contents, LenOf, Positions
<1>4. CASE file[f] # None
  <2>1. file[f] \in Seq(Piece)
    BY <1>1, <1>4
  <2> QED BY <1>4, <2>1 DEF Contents, LenOf, Positions
<1> QED BY <1>3, <1>4

\* The half line at the end of a file, and the piece that will end it.
LEMMA HalfLine ==
    ASSUME TypeOK, NEW f \in Files, Halfway(f)
    PROVE  /\ LenOf(f) \in Positions(f) /\ Last(Contents(f)) = file[f][LenOf(f)]
           /\ file[f] \in Seq(Piece) /\ Contents(f) = file[f] /\ file[f] # None
           /\ Last(Contents(f)) \in Piece /\ Last(Contents(f)).part = 1
           /\ Rest(f) \in Piece /\ Rest(f).part = 2
           /\ Rest(f).line = Last(Contents(f)).line
           /\ Rest(f).cmd = Last(Contents(f)).cmd
<1>1. Contents(f) \in Seq(Piece) /\ Contents(f) # <<>> /\ Last(Contents(f)).part = 1
  BY FileHolds DEF Halfway
<1>2. Len(Contents(f)) > 0 /\ LenOf(f) = Len(Contents(f))
  BY <1>1, FileHolds
<1>3. file[f] = Contents(f) /\ file[f] # None /\ LenOf(f) \in Positions(f)
  BY <1>2, FileHolds DEF Positions
<1>4. Last(Contents(f)) = file[f][LenOf(f)] /\ Last(Contents(f)) \in Piece
  BY <1>2, <1>3, FileHolds DEF Last
<1>5. Rest(f) = [line |-> Last(Contents(f)).line, part |-> 2, cmd |-> Last(Contents(f)).cmd]
      /\ Rest(f) \in Piece
  BY <1>4, OtherPiece DEF Rest
<1> QED BY <1>1, <1>3, <1>4, <1>5

\* What Read reads lies between the offset and the length it has seen.
LEMMA BytesAreRead ==
    ASSUME TypeOK, hand # None, LenOf(hand.file) >= hand.len
    PROVE  /\ hand.file \in Files /\ hand.len \in Nat /\ offset[hand.file] < hand.len
           /\ Bytes \subseteq Piece
           /\ \A x : x \in Bytes <=> \E i \in (offset[hand.file] + 1)..hand.len :
                                         x = file[hand.file][i]
           /\ (offset[hand.file] + 1)..hand.len \subseteq Positions(hand.file)
<1>1. /\ hand.file \in Files /\ hand.len \in Nat /\ offset[hand.file] < hand.len
      /\ offset[hand.file] \in Nat
  BY DEF TypeOK, InHand
<1> DEFINE f == hand.file  m == offset[hand.file]  n == hand.len
<1>2. LenOf(f) \in Nat /\ (m + 1)..n \subseteq Positions(f)
  BY <1>1, FileHolds DEF Positions
<1>3. file[f] \in Seq(Piece) /\ LenOf(f) = Len(file[f])
  BY <1>1, FileHolds
<1>4. /\ Len(SubSeq(file[f], m + 1, n)) = n - m
      /\ \A i \in 1..(n - m) : SubSeq(file[f], m + 1, n)[i] = file[f][m + i]
      /\ DOMAIN SubSeq(file[f], m + 1, n) = 1..(n - m)
  <2>1. m + 1 \in Int /\ n \in Int /\ m + 1 <= n
        /\ n - (m + 1) + 1 = n - m /\ \A i \in Int : (m + 1) + i - 1 = m + i
    BY <1>1
  <2>2. \A i \in (m + 1)..n : file[f][i] \in Piece
    BY <1>1, <1>2, FileHolds
  <2> HIDE DEF f, m, n
  <2>3. /\ SubSeq(file[f], m + 1, n) \in Seq(Piece)
        /\ Len(SubSeq(file[f], m + 1, n)) = IF m + 1 <= n THEN n - (m + 1) + 1 ELSE 0
        /\ \A i \in 1..(n - (m + 1) + 1) : SubSeq(file[f], m + 1, n)[i] = file[f][(m + 1) + i - 1]
    BY <2>1, <2>2, SubSeqProperties
  <2>4. Len(SubSeq(file[f], m + 1, n)) = n - m
    BY <2>1, <2>3
  <2>5. DOMAIN SubSeq(file[f], m + 1, n) = 1..(n - m)
    BY <2>3, <2>4, LenProperties
  <2>6. \A i \in 1..(n - m) : SubSeq(file[f], m + 1, n)[i] = file[f][m + i]
    BY <2>1, <2>3
  <2> QED BY <2>4, <2>5, <2>6
<1>5. ASSUME NEW x PROVE x \in Bytes <=> \E i \in (m + 1)..n : x = file[f][i]
  <2>1. x \in Bytes <=> \E i \in 1..(n - m) : x = file[f][m + i]
    BY <1>4 DEF Bytes, ToSet
  <2>2. ASSUME NEW i \in (m + 1)..n PROVE i - m \in 1..(n - m) /\ m + (i - m) = i
    BY <1>1
  <2>3. ASSUME NEW i \in 1..(n - m) PROVE m + i \in (m + 1)..n
    BY <1>1
  <2> QED BY <2>1, <2>2, <2>3
<1>6. Bytes \subseteq Piece
  BY <1>2, <1>5, FileHolds, <1>1
<1> QED BY <1>1, <1>2, <1>5, <1>6

-----------------------------------------------------------------------------
(* What the shells write *)

LEMMA LineNumbers ==
    ASSUME TypeOK
    PROVE  /\ lines \in Nat /\ \A x \in Piece : x.line \in Nat
           /\ \A f \in Files : \A i \in Positions(f) : file[f][i].line \in Nat
<1>1. lines \in Nat
  BY TerminalBoundAssumption DEF TypeOK
<1>2. \A x \in Piece : x.line \in Nat
  BY TerminalBoundAssumption DEF Piece
<1>3. \A f \in Files : \A i \in Positions(f) : file[f][i] \in Piece
  BY FileHolds
<1> QED BY <1>1, <1>2, <1>3

\* A file that was written: what it holds now.
LEMMA FileWritten ==
    ASSUME TypeOK, NEW f \in Files, NEW s \in Seq(Piece), file' = [file EXCEPT ![f] = s]
    PROVE  /\ file' \in [Files -> Seq(Piece) \cup {None}]
           /\ file'[f] = s /\ LenOf(f)' = Len(s) /\ Contents(f)' = s
           /\ \A g \in Files \ {f} : /\ file'[g] = file[g] /\ LenOf(g)' = LenOf(g)
                                     /\ Contents(g)' = Contents(g)
<1>1. file \in [Files -> Seq(Piece) \cup {None}]
  BY DEF TypeOK
<1>2. file' \in [Files -> Seq(Piece) \cup {None}] /\ file'[f] = s
  BY <1>1
<1>3. s # None
  BY TerminalAbsentAssumption
<1>4. ASSUME NEW g \in Files \ {f} PROVE file'[g] = file[g]
  BY <1>1
<1> QED BY <1>2, <1>3, <1>4 DEF LenOf, Contents

\* A file that was appended to keeps its pieces at their positions.
LEMMA FileGrows ==
    ASSUME TypeOK, NEW f \in Files, NEW s \in Seq(Piece), file' = [file EXCEPT ![f] = s],
           Len(s) > LenOf(f), \A i \in 1..LenOf(f) : s[i] = Contents(f)[i]
    PROVE  /\ \A g \in Files : \A i \in Positions(g) :
                  i \in Positions(g)' /\ file'[g][i] = file[g][i]
           /\ \A g \in Files : \A i \in Positions(g)' :
                  i \in Positions(g) \/ (g = f /\ i \in (LenOf(f) + 1)..Len(s) /\ file'[g][i] = s[i])
           /\ \A g \in Files : LenOf(g) <= LenOf(g)'
<1>1. /\ file'[f] = s /\ LenOf(f)' = Len(s)
      /\ \A g \in Files \ {f} : file'[g] = file[g] /\ LenOf(g)' = LenOf(g)
  BY FileWritten
<1>2. \A g \in Files : LenOf(g) \in Nat
  BY FileHolds
<1>3. Len(s) \in Nat
  OBVIOUS
<1>4. \A i \in Positions(f) : s[i] = file[f][i]
  BY FileHolds, <1>2 DEF Positions
<1>5. \A g \in Files : Positions(g)' = 1..(LenOf(g)')
  BY DEF Positions
<1>6. \A g \in Files : LenOf(g) <= LenOf(g)'
  BY <1>1, <1>2, <1>3
<1>7. ASSUME NEW g \in Files, NEW i \in Positions(g)
      PROVE  i \in Positions(g)' /\ file'[g][i] = file[g][i]
  <2>1. CASE g = f
    BY <2>1, <1>1, <1>2, <1>3, <1>4, <1>5 DEF Positions
  <2>2. CASE g # f
    BY <2>2, <1>1, <1>5 DEF Positions
  <2> QED BY <2>1, <2>2
<1>8. ASSUME NEW g \in Files, NEW i \in Positions(g)', i \notin Positions(g)
      PROVE  g = f /\ i \in (LenOf(f) + 1)..Len(s) /\ file'[g][i] = s[i]
  <2>1. g = f
    BY <1>8, <1>1, <1>5 DEF Positions
  <2> QED BY <2>1, <1>8, <1>1, <1>2, <1>3, <1>5 DEF Positions
<1> QED BY <1>6, <1>7, <1>8

\* Pieces that are new, and follow as the pieces of a line do, come into no file twice.
LEMMA NewOnce ==
    ASSUME TypeOK, EachPieceOnce, NEW f \in Files, NEW s \in Seq(Piece),
           file' = [file EXCEPT ![f] = s], lines' >= lines, lines' \in Nat,
           Len(s) > LenOf(f), \A i \in 1..LenOf(f) : s[i] = Contents(f)[i],
           \A i \in (LenOf(f) + 1)..Len(s) :
               /\ s[i].line <= lines'
               /\ \A g \in Files : \A j \in Positions(g) : file[g][j] # s[i]
               /\ \A j \in (LenOf(f) + 1)..Len(s) : s[i] = s[j] => i = j
               /\ s[i].part = 2 => i > 1 /\ s[i - 1] = [s[i] EXCEPT !.part = 1]
    PROVE  EachPieceOnce'
<1> DEFINE new == (LenOf(f) + 1)..Len(s)
<1>1. /\ \A g \in Files : \A i \in Positions(g) :
             i \in Positions(g)' /\ file'[g][i] = file[g][i]
      /\ \A g \in Files : \A i \in Positions(g)' :
             i \in Positions(g) \/ (g = f /\ i \in new /\ file'[g][i] = s[i])
  BY FileGrows
<1>2. SUFFICES
        /\ \A g, h \in Files : \A i \in Positions(g)', j \in Positions(h)' :
               file'[g][i] = file'[h][j] => g = h /\ i = j
        /\ \A g \in Files : \A i \in Positions(g)' :
               /\ file'[g][i].line <= lines'
               /\ file'[g][i].part = 2 => i > 1 /\ file'[g][i - 1] = [file'[g][i] EXCEPT !.part = 1]
  BY DEF EachPieceOnce
<1>3. ASSUME NEW g \in Files, NEW h \in Files, NEW i \in Positions(g)', NEW j \in Positions(h)',
             file'[g][i] = file'[h][j]
      PROVE  g = h /\ i = j
  <2>1. CASE i \in Positions(g) /\ j \in Positions(h)
    BY <1>1, <1>3, <2>1 DEF EachPieceOnce
  <2>2. \A k \in new : \A e \in Files : \A l \in Positions(e) : file[e][l] # s[k]
    OBVIOUS
  <2>3. \A k, l \in new : s[k] = s[l] => k = l
    OBVIOUS
  <2>4. CASE i \notin Positions(g)
    <3>1. g = f /\ i \in new /\ file'[g][i] = s[i]
      BY <1>1, <2>4
    <3>2. j \notin Positions(h)
      BY <1>1, <1>3, <2>2, <3>1
    <3>3. h = f /\ j \in new /\ file'[h][j] = s[j]
      BY <1>1, <3>2
    <3> QED BY <1>3, <2>3, <3>1, <3>3
  <2>5. CASE i \in Positions(g) /\ j \notin Positions(h)
    <3>1. h = f /\ j \in new /\ file'[h][j] = s[j]
      BY <1>1, <2>5
    <3>2. file'[g][i] = file[g][i]
      BY <1>1, <2>5
    <3> QED BY <1>3, <2>2, <2>5, <3>1, <3>2
  <2> QED BY <2>1, <2>4, <2>5
<1>4. ASSUME NEW g \in Files, NEW i \in Positions(g)' PROVE file'[g][i].line <= lines'
  <2>1. CASE i \in Positions(g)
    <3>1. file[g][i].line <= lines
      BY <2>1 DEF EachPieceOnce
    <3>2. lines \in Nat /\ file[g][i].line \in Nat
      BY <2>1, LineNumbers
    <3> QED BY <3>1, <3>2, <2>1, <1>1
  <2>2. CASE i \notin Positions(g)
    BY <2>2, <1>1
  <2> QED BY <2>1, <2>2
<1>5. ASSUME NEW g \in Files, NEW i \in Positions(g)', file'[g][i].part = 2
      PROVE  i > 1 /\ file'[g][i - 1] = [file'[g][i] EXCEPT !.part = 1]
  <2>1. CASE i \in Positions(g)
    <3>1. i > 1 /\ file[g][i - 1] = [file[g][i] EXCEPT !.part = 1]
      BY <2>1, <1>1, <1>5 DEF EachPieceOnce
    <3>2. i - 1 \in Positions(g)
      BY <2>1, <3>1, FileHolds DEF Positions
    <3> QED BY <2>1, <3>1, <3>2, <1>1
  <2>2. CASE i \notin Positions(g)
    <3>1. g = f /\ i \in new /\ file'[g][i] = s[i] /\ file'[f] = s
      BY <2>2, <1>1, FileWritten
    <3> QED BY <3>1, <1>5
  <2> QED BY <2>1, <2>2
<1> QED BY <1>3, <1>4, <1>5

\* The piece that will end a half line is in no file.
LEMMA RestIsNew ==
    ASSUME TypeOK, EachPieceOnce, NEW f \in Files, Halfway(f),
           NEW g \in Files, NEW i \in Positions(g)
    PROVE  file[g][i] # Rest(f)
<1> SUFFICES ASSUME file[g][i] = Rest(f) PROVE FALSE
  OBVIOUS
<1>1. /\ LenOf(f) \in Positions(f) /\ Last(Contents(f)) = file[f][LenOf(f)]
      /\ Last(Contents(f)) \in Piece /\ Last(Contents(f)).part = 1 /\ Rest(f).part = 2
      /\ Rest(f) \in Piece /\ Rest(f).line = Last(Contents(f)).line
      /\ Rest(f).cmd = Last(Contents(f)).cmd
  BY HalfLine
<1>2. i > 1 /\ file[g][i - 1] = [Rest(f) EXCEPT !.part = 1]
  BY <1>1 DEF EachPieceOnce
<1>3. [Rest(f) EXCEPT !.part = 1] = Last(Contents(f))
  BY <1>1 DEF Piece
<1>4. i \in Nat /\ i <= LenOf(g) /\ LenOf(g) \in Nat /\ i - 1 \in Positions(g)
  BY <1>2, FileHolds DEF Positions
<1>5. f = g /\ LenOf(f) = i - 1
  BY <1>1, <1>2, <1>3, <1>4 DEF EachPieceOnce
<1> QED BY <1>4, <1>5

LEMMA StoreTypes ==
    ASSUME TypeOK, store # None
    PROVE  store \in [Files -> Nat] /\ \A f \in Files : store[f] \in Nat
  BY DEF TypeOK

\* New pieces that were not reported disturb nothing that is said of the offsets.
LEMMA NewUnreported ==
    ASSUME IInv, NEW f \in Files, NEW s \in Seq(Piece), file' = [file EXCEPT ![f] = s],
           Len(s) > LenOf(f), \A i \in 1..LenOf(f) : s[i] = Contents(f)[i],
           \A i \in (LenOf(f) + 1)..Len(s) : reports[s[i]] = 0,
           UNCHANGED <<pollVars, reportVars, passed, rewritten>>
    PROVE  /\ BeyondOffset' /\ BeyondStore' /\ DownHasLost'
           /\ ReportedOnce' /\ NotPastEnd' /\ StoreSkipsNothing' /\ NothingSkipped'
<1> USE DEF Accounted
<1>1. TypeOK
  BY DEF IInv
<1>2. UNCHANGED <<offset, store, at, hooked, reports, dropped, unsaved, loose, passed, rewritten>>
  BY DEF pollVars, reportVars
<1>3. \A g \in Files : \A i \in Positions(g) : i \in Positions(g)' /\ file'[g][i] = file[g][i]
  BY <1>1, FileGrows
<1>4. \A g \in Files : \A i \in Positions(g)' :
          reports[file'[g][i]] > 0 => i \in Positions(g) /\ file'[g][i] = file[g][i]
  <2>1. \A g \in Files : \A i \in Positions(g)' :
            i \in Positions(g) \/ (g = f /\ i \in (LenOf(f) + 1)..Len(s) /\ file'[g][i] = s[i])
    BY <1>1, FileGrows
  <2>2. \A i \in (LenOf(f) + 1)..Len(s) : ~(reports[s[i]] > 0)
    OBVIOUS
  <2> QED BY <1>3, <2>1, <2>2
<1>5. \A g \in Files : LenOf(g) <= LenOf(g)' /\ LenOf(g) \in Nat /\ LenOf(g)' \in Nat
  <2>1. \A g \in Files : LenOf(g) <= LenOf(g)' /\ LenOf(g) \in Nat
    BY <1>1, FileGrows, FileHolds
  <2>2. \A g \in Files : LenOf(g)' \in {LenOf(g), Len(s)}
    BY <1>1, FileWritten
  <2> QED BY <2>1, <2>2
<1>6. BeyondOffset'
  <2>1. SUFFICES ASSUME at' # "down", NEW g \in Files, NEW i \in Positions(g)',
                        i > offset'[g], reports'[file'[g][i]] > 0
                 PROVE  file'[g][i] \in loose'
    BY DEF BeyondOffset
  <2> QED BY <1>2, <1>4, <2>1 DEF IInv, BeyondOffset
<1>7. BeyondStore'
  <2>1. SUFFICES ASSUME store' # None, NEW g \in Files, NEW i \in Positions(g)',
                        i > store'[g], reports'[file'[g][i]] > 0
                 PROVE  file'[g][i] \in loose' \cup unsaved'
    BY DEF BeyondStore
  <2> QED BY <1>2, <1>4, <2>1 DEF IInv, BeyondStore
<1>8. DownHasLost' /\ ReportedOnce'
  BY <1>2 DEF IInv, DownHasLost, ReportedOnce
<1>9. \A g \in Files \ rewritten :
          /\ offset[g] \in Nat /\ offset[g] <= LenOf(g)
          /\ store # None => store[g] \in Nat /\ store[g] <= LenOf(g)
          /\ passed[g] \in Nat
  BY <1>1, StoreTypes DEF TypeOK, IInv, NotPastEnd
<1>10. NotPastEnd'
  <2>1. SUFFICES ASSUME NEW g \in Files \ rewritten'
                 PROVE  offset'[g] <= LenOf(g)' /\ (store' # None => store'[g] <= LenOf(g)')
    BY DEF NotPastEnd
  <2> QED BY <1>2, <1>5, <1>9
<1>11. StoreSkipsNothing'
  <2>1. SUFFICES ASSUME store' # None, NEW g \in Files \ rewritten',
                        NEW i \in (passed'[g] + 1)..store'[g]
                 PROVE  \/ reports'[file'[g][i]] > 0
                        \/ file'[g][i].cmd \in hooked'
                        \/ file'[g][i] \in dropped'
    BY DEF StoreSkipsNothing
  <2>2. i \in Positions(g)
    BY <1>2, <1>5, <1>9, <2>1 DEF Positions
  <2> QED BY <1>2, <1>3, <2>1, <2>2 DEF IInv, StoreSkipsNothing
<1>12. NothingSkipped'
  <2>1. SUFFICES ASSUME NEW g \in Files \ rewritten',
                        NEW i \in (passed'[g] + 1)..offset'[g]
                 PROVE  \/ reports'[file'[g][i]] > 0
                        \/ file'[g][i].cmd \in hooked'
                        \/ file'[g][i] \in dropped'
    BY DEF NothingSkipped
  <2>2. i \in Positions(g)
    BY <1>2, <1>5, <1>9, <2>1 DEF Positions
  <2> QED BY <1>2, <1>3, <2>1, <2>2 DEF IInv, NothingSkipped
<1> QED BY <1>6, <1>7, <1>8, <1>10, <1>11, <1>12

\* What the first piece of a line, or the line, makes of a file.
LEMMA LineAppended ==
    ASSUME TypeOK, NEW f \in Files, NEW c \in Commands, AppendLine(f, c)
    PROVE  \E s \in Seq(Piece) :
               /\ file' = [file EXCEPT ![f] = s]
               /\ Len(s) \in {LenOf(f) + 1, LenOf(f) + 2}
               /\ \A i \in 1..LenOf(f) : s[i] = Contents(f)[i]
               /\ s[LenOf(f) + 1] = PieceOf(1, c)
               /\ Len(s) = LenOf(f) + 2 => s[LenOf(f) + 2] = PieceOf(2, c)
<1>1. PieceOf(1, c) \in Piece /\ PieceOf(2, c) \in Piece
  BY NewPiece DEF AppendLine
<1>2. Contents(f) \in Seq(Piece) /\ LenOf(f) = Len(Contents(f)) /\ LenOf(f) \in Nat
  BY FileHolds
<1>3. CASE file' = [file EXCEPT ![f] = Contents(f) \o <<PieceOf(1, c), PieceOf(2, c)>>]
  <2> DEFINE line == <<PieceOf(1, c), PieceOf(2, c)>>
             s == Contents(f) \o line
  <2>1. line \in Seq(Piece) /\ Len(line) = 2 /\ line[1] = PieceOf(1, c) /\ line[2] = PieceOf(2, c)
    BY <1>1
  <2> HIDE DEF line
  <2>2. /\ s \in Seq(Piece) /\ Len(s) = LenOf(f) + 2
        /\ \A i \in 1..(LenOf(f) + 2) :
               s[i] = IF i <= LenOf(f) THEN Contents(f)[i] ELSE line[i - LenOf(f)]
    <3>1. /\ s \in Seq(Piece) /\ Len(s) = Len(Contents(f)) + Len(line)
          /\ \A i \in 1..(Len(Contents(f)) + Len(line)) :
                 s[i] = IF i <= Len(Contents(f)) THEN Contents(f)[i] ELSE line[i - Len(Contents(f))]
      BY <1>2, <2>1, ConcatProperties
    <3> HIDE DEF s
    <3> QED BY <1>2, <2>1, <3>1
  <2>3. file' = [file EXCEPT ![f] = s]
    BY <1>3 DEF line
  <2> HIDE DEF s
  <2>4. /\ \A i \in 1..LenOf(f) : s[i] = Contents(f)[i]
        /\ s[LenOf(f) + 1] = line[1] /\ s[LenOf(f) + 2] = line[2]
    BY <1>2, <2>2
  <2> QED BY <2>1, <2>2, <2>3, <2>4
<1>4. CASE file' = [file EXCEPT ![f] = Append(Contents(f), PieceOf(1, c))]
  <2> DEFINE s == Append(Contents(f), PieceOf(1, c))
  <2>1. /\ s \in Seq(Piece) /\ Len(s) = LenOf(f) + 1
        /\ \A i \in 1..LenOf(f) : s[i] = Contents(f)[i]
        /\ s[LenOf(f) + 1] = PieceOf(1, c)
    BY <1>1, <1>2
  <2> HIDE DEF s
  <2>2. file' = [file EXCEPT ![f] = s]
    BY <1>4 DEF s
  <2>3. Len(s) # LenOf(f) + 2
    BY <1>2, <2>1
  <2> QED BY <2>1, <2>2, <2>3
<1> QED BY <1>3, <1>4 DEF AppendLine

LEMMA AppendLineStep ==
    ASSUME IInv, TypeOK', NEW f \in Files, NEW c \in Commands, AppendLine(f, c)
    PROVE  IInv'
<1>1. TypeOK /\ EachPieceOnce /\ ReportedWasWritten
  BY DEF IInv
<1>2. PICK s \in Seq(Piece) :
          /\ file' = [file EXCEPT ![f] = s]
          /\ Len(s) \in {LenOf(f) + 1, LenOf(f) + 2}
          /\ \A i \in 1..LenOf(f) : s[i] = Contents(f)[i]
          /\ s[LenOf(f) + 1] = PieceOf(1, c)
          /\ Len(s) = LenOf(f) + 2 => s[LenOf(f) + 2] = PieceOf(2, c)
  BY <1>1, LineAppended
<1>3. /\ lines' = lines + 1 /\ lines \in Nat /\ LenOf(f) \in Nat
      /\ UNCHANGED <<pollVars, reportVars, passed, rewritten>> /\ UNCHANGED reports
  BY <1>1, LineNumbers, FileHolds DEF AppendLine, reportVars
<1>4. /\ PieceOf(1, c) = [line |-> lines', part |-> 1, cmd |-> c]
      /\ PieceOf(2, c) = [line |-> lines', part |-> 2, cmd |-> c]
      /\ PieceOf(1, c) \in Piece /\ PieceOf(2, c) \in Piece
  BY <1>1, <1>3, NewPiece DEF PieceOf, AppendLine
<1>5. \A i \in (LenOf(f) + 1)..Len(s) :
          \/ i = LenOf(f) + 1 /\ s[i] = PieceOf(1, c)
          \/ i = LenOf(f) + 2 /\ s[i] = PieceOf(2, c)
  BY <1>2, <1>3
<1>6. ASSUME NEW i \in (LenOf(f) + 1)..Len(s)
      PROVE  /\ s[i].line = lines' /\ s[i] \in Piece
             /\ \A g \in Files : \A j \in Positions(g) : file[g][j] # s[i]
             /\ \A j \in (LenOf(f) + 1)..Len(s) : s[i] = s[j] => i = j
             /\ s[i].part = 2 => i > 1 /\ s[i - 1] = [s[i] EXCEPT !.part = 1]
             /\ reports[s[i]] = 0
  <2>1. s[i].line = lines' /\ s[i] \in Piece
    BY <1>4, <1>5
  <2>2. \A g \in Files : \A j \in Positions(g) : file[g][j] # s[i]
    <3>1. \A g \in Files : \A j \in Positions(g) :
              file[g][j].line <= lines /\ file[g][j].line \in Nat
      BY <1>1, LineNumbers DEF EachPieceOnce
    <3> QED BY <3>1, <2>1, <1>3
  <2>3. \A j \in (LenOf(f) + 1)..Len(s) : s[i] = s[j] => i = j
    BY <1>4, <1>5
  <2>4. s[i].part = 2 => i > 1 /\ s[i - 1] = [s[i] EXCEPT !.part = 1]
    <3>1. SUFFICES ASSUME s[i].part = 2
                   PROVE  i > 1 /\ s[i - 1] = [s[i] EXCEPT !.part = 1]
      OBVIOUS
    <3>2. i = LenOf(f) + 2 /\ s[i] = PieceOf(2, c)
      BY <1>4, <1>5, <3>1
    <3>3. i > 1 /\ s[i - 1] = PieceOf(1, c)
      BY <1>2, <1>3, <3>2
    <3>4. [PieceOf(2, c) EXCEPT !.part = 1] = PieceOf(1, c)
      BY <1>4
    <3> QED BY <3>2, <3>3, <3>4
  <2>5. reports[s[i]] = 0
    <3>1. reports[s[i]] \in Nat
      BY <2>1, <1>1 DEF TypeOK
    <3>2. reports[s[i]] > 0 => s[i].line <= lines
      BY <2>1, <1>1 DEF ReportedWasWritten
    <3> QED BY <3>1, <3>2, <2>1, <1>3
  <2> QED BY <2>1, <2>2, <2>3, <2>4, <2>5
<1>7. Len(s) > LenOf(f) /\ lines' >= lines /\ lines' \in Nat /\ lines' <= lines'
  BY <1>2, <1>3
<1>8. EachPieceOnce'
  BY <1>1, <1>2, <1>6, <1>7, NewOnce
<1>9. /\ BeyondOffset' /\ BeyondStore' /\ DownHasLost'
      /\ ReportedOnce' /\ NotPastEnd' /\ StoreSkipsNothing' /\ NothingSkipped'
  BY <1>2, <1>3, <1>6, <1>7, NewUnreported
<1>10. ReportedWasWritten'
  <2>1. SUFFICES ASSUME NEW x \in Piece, reports'[x] > 0
                 PROVE  x.line <= lines' /\ \A g \in Files : Halfway(g)' => x # Rest(g)'
    BY DEF ReportedWasWritten
  <2>2. /\ x.line <= lines /\ x.line \in Nat
        /\ \A g \in Files : Halfway(g) => x # Rest(g)
    BY <1>1, <1>3, <2>1, LineNumbers DEF ReportedWasWritten
  <2>3. ASSUME NEW g \in Files \ {f}, Halfway(g)' PROVE x # Rest(g)'
    BY <1>1, <1>2, <2>2, <2>3, FileWritten DEF Halfway, Rest
  <2>4. Halfway(f)' => x # Rest(f)'
    <3>1. Contents(f)' = s
      BY <1>1, <1>2, FileWritten
    <3>2. Last(s).line = lines' /\ Last(s) \in Piece
      BY <1>2, <1>3, <1>4 DEF Last
    <3>3. Rest(f)' = [Last(s) EXCEPT !.part = 2]
      BY <3>1 DEF Rest
    <3>4. Rest(f)'.line = lines'
      BY <3>2, <3>3, OtherPiece
    <3> QED BY <1>3, <2>2, <3>4
  <2> QED BY <1>3, <2>2, <2>3, <2>4
<1> QED BY <1>8, <1>9, <1>10 DEF IInv

LEMMA AppendRestStep ==
    ASSUME IInv, TypeOK', NEW f \in Files, AppendRest(f)
    PROVE  IInv'
<1>1. TypeOK /\ EachPieceOnce /\ ReportedWasWritten /\ Halfway(f)
  BY DEF IInv, AppendRest
<1>2. /\ UNCHANGED <<pollVars, reportVars, passed, rewritten>> /\ UNCHANGED <<reports, lines>>
      /\ lines \in Nat /\ LenOf(f) \in Nat
  BY <1>1, LineNumbers, FileHolds DEF AppendRest, reportVars
<1>3. /\ Rest(f) \in Piece /\ Rest(f).part = 2 /\ Rest(f).line = Last(Contents(f)).line
      /\ Rest(f).cmd = Last(Contents(f)).cmd
      /\ Last(Contents(f)) \in Piece /\ Last(Contents(f)).part = 1
      /\ LenOf(f) \in Positions(f) /\ Last(Contents(f)) = file[f][LenOf(f)]
      /\ Contents(f) = file[f] /\ file[f] \in Seq(Piece)
  BY <1>1, HalfLine
<1> DEFINE s == Append(Contents(f), Rest(f))
<1>4. /\ s \in Seq(Piece) /\ Len(s) = LenOf(f) + 1
      /\ \A i \in 1..LenOf(f) : s[i] = Contents(f)[i]
      /\ s[LenOf(f) + 1] = Rest(f)
  <2>1. Len(Contents(f)) = LenOf(f) /\ Contents(f) \in Seq(Piece)
    BY <1>1, FileHolds
  <2> QED BY <1>3, <2>1
<1>5. file' = [file EXCEPT ![f] = s]
  BY <1>3 DEF AppendRest, Rest
<1> HIDE DEF s
<1>6. Last(s) = Rest(f) /\ Contents(f)' = s
  BY <1>1, <1>4, <1>5, FileWritten DEF Last
<1>7. \A i \in (LenOf(f) + 1)..Len(s) : i = LenOf(f) + 1 /\ s[i] = Rest(f)
  BY <1>2, <1>4
<1>8. ASSUME NEW i \in (LenOf(f) + 1)..Len(s)
      PROVE  /\ s[i].line <= lines'
             /\ \A g \in Files : \A j \in Positions(g) : file[g][j] # s[i]
             /\ \A j \in (LenOf(f) + 1)..Len(s) : s[i] = s[j] => i = j
             /\ s[i].part = 2 => i > 1 /\ s[i - 1] = [s[i] EXCEPT !.part = 1]
             /\ reports[s[i]] = 0
  <2>1. i = LenOf(f) + 1 /\ s[i] = Rest(f)
    BY <1>7
  <2>2. s[i].line <= lines'
    <3>1. file[f][LenOf(f)].line <= lines
      BY <1>1, <1>3 DEF EachPieceOnce
    <3> QED BY <1>2, <1>3, <2>1, <3>1
  <2>3. \A g \in Files : \A j \in Positions(g) : file[g][j] # s[i]
    BY <1>1, <2>1, RestIsNew
  <2>4. \A j \in (LenOf(f) + 1)..Len(s) : s[i] = s[j] => i = j
    BY <1>7
  <2>5. i > 1 /\ s[i - 1] = [s[i] EXCEPT !.part = 1]
    <3>1. i > 1 /\ s[i - 1] = Last(Contents(f))
      BY <1>2, <1>3, <1>4, <2>1 DEF Positions
    <3>2. [Rest(f) EXCEPT !.part = 1] = Last(Contents(f))
      BY <1>3 DEF Piece
    <3> QED BY <2>1, <3>1, <3>2
  <2>6. reports[s[i]] = 0
    <3>1. reports[Rest(f)] \in Nat /\ ~(reports[Rest(f)] > 0)
      BY <1>1, <1>3 DEF TypeOK, ReportedWasWritten
    <3> QED BY <3>1, <2>1
  <2> QED BY <2>2, <2>3, <2>4, <2>5, <2>6
<1>9. Len(s) > LenOf(f) /\ lines' >= lines /\ lines' \in Nat
  BY <1>2, <1>4
<1>10. EachPieceOnce'
  BY <1>1, <1>4, <1>5, <1>8, <1>9, NewOnce
<1>11. /\ BeyondOffset' /\ BeyondStore' /\ DownHasLost'
       /\ ReportedOnce' /\ NotPastEnd' /\ StoreSkipsNothing' /\ NothingSkipped'
  BY <1>2, <1>4, <1>5, <1>8, <1>9, NewUnreported
<1>12. ReportedWasWritten'
  <2>1. SUFFICES ASSUME NEW x \in Piece, reports'[x] > 0
                 PROVE  x.line <= lines' /\ \A g \in Files : Halfway(g)' => x # Rest(g)'
    BY DEF ReportedWasWritten
  <2>2. x.line <= lines /\ \A g \in Files : Halfway(g) => x # Rest(g)
    BY <1>1, <1>2, <2>1 DEF ReportedWasWritten
  <2>3. ASSUME NEW g \in Files \ {f}, Halfway(g)' PROVE x # Rest(g)'
    <3>1. Contents(g)' = Contents(g)
      BY <1>1, <1>4, <1>5, FileWritten
    <3> QED BY <2>2, <2>3, <3>1 DEF Halfway, Rest
  <2>4. ~Halfway(f)'
    BY <1>3, <1>6 DEF Halfway
  <2> QED BY <1>2, <2>2, <2>3, <2>4
<1> QED BY <1>10, <1>11, <1>12 DEF IInv

\* A file that was begun again or lost its first lines keeps the rest in its order.
LEMMA FileShrinks ==
    ASSUME TypeOK, NEW f \in Files, Rewrite(f)
    PROVE  /\ file' \in [Files -> Seq(Piece) \cup {None}]
           /\ \A g \in Files \ {f} : file'[g] = file[g]
           /\ \/ LenOf(f)' = 0 /\ Contents(f)' = <<>>
              \/ \E n \in 0..LenOf(f) :
                     /\ LenOf(f)' = LenOf(f) - n /\ LenOf(f)' > 0
                     /\ \A i \in 1..(LenOf(f) - n) : file'[f][i] = file[f][i + n]
                     /\ file[f][n + 1].part = 1
                     /\ Contents(f)' = file'[f]
<1>1. file \in [Files -> Seq(Piece) \cup {None}] /\ file[f] # None
  BY DEF TypeOK, Rewrite
<1>2. file[f] \in Seq(Piece) /\ LenOf(f) = Len(file[f]) /\ LenOf(f) \in Nat
  BY <1>1, FileHolds DEF LenOf
<1>3. PICK n \in 0..LenOf(f) :
          /\ n < LenOf(f) => file[f][n + 1].part = 1
          /\ \/ file' = [file EXCEPT ![f] = None]
             \/ file' = [file EXCEPT ![f] = SubSeq(file[f], n + 1, Len(file[f]))]
  BY DEF Rewrite
<1>4. CASE file' = [file EXCEPT ![f] = None]
  <2>1. file' \in [Files -> Seq(Piece) \cup {None}] /\ file'[f] = None
        /\ \A g \in Files \ {f} : file'[g] = file[g]
    BY <1>1, <1>4
  <2> QED BY <2>1 DEF LenOf, Contents
<1>5. CASE file' = [file EXCEPT ![f] = SubSeq(file[f], n + 1, Len(file[f]))]
  <2> DEFINE s == SubSeq(file[f], n + 1, Len(file[f]))
  <2>1. n \in Nat /\ n + 1 \in Int /\ Len(file[f]) \in Int /\ n <= LenOf(f)
        /\ \A i \in (n + 1)..Len(file[f]) : file[f][i] \in Piece
    BY <1>2
  <2>2. /\ s \in Seq(Piece)
        /\ Len(s) = IF n + 1 <= Len(file[f]) THEN Len(file[f]) - (n + 1) + 1 ELSE 0
        /\ \A i \in 1..(Len(file[f]) - (n + 1) + 1) : s[i] = file[f][(n + 1) + i - 1]
    <3> HIDE DEF s
    <3> QED BY <2>1, SubSeqProperties DEF s
  <2>3. file' = [file EXCEPT ![f] = s]
    BY <1>5
  <2> HIDE DEF s
  <2>4. Len(s) = LenOf(f) - n /\ \A i \in 1..(LenOf(f) - n) : s[i] = file[f][i + n]
    BY <1>2, <2>1, <2>2
  <2>5. /\ file' \in [Files -> Seq(Piece) \cup {None}]
        /\ file'[f] = s /\ LenOf(f)' = Len(s) /\ Contents(f)' = s
        /\ \A g \in Files \ {f} : file'[g] = file[g]
    BY <2>2, <2>3, FileWritten
  <2>6. CASE n = LenOf(f)
    <3>1. Len(s) = 0 /\ s = <<>>
      BY <1>2, <2>2, <2>4, <2>6
    <3> QED BY <2>5, <3>1
  <2>7. CASE n < LenOf(f)
    <3>1. LenOf(f)' > 0
      BY <1>2, <2>1, <2>4, <2>5, <2>7
    <3> QED BY <1>3, <2>4, <2>5, <2>7, <3>1
  <2>8. n = LenOf(f) \/ n < LenOf(f)
    BY <1>2, <2>1
  <2> QED BY <2>6, <2>7, <2>8
<1> QED BY <1>3, <1>4, <1>5

LEMMA RewriteStep ==
    ASSUME IInv, TypeOK', NEW f \in Files, Rewrite(f)
    PROVE  IInv'
<1> USE DEF Accounted
<1>1. TypeOK /\ EachPieceOnce /\ ReportedWasWritten
  BY DEF IInv
<1>2. /\ UNCHANGED <<offset, store, at, hooked, reports, dropped, unsaved, loose, passed, lines>>
      /\ rewritten' = rewritten \cup {f}
  BY DEF Rewrite, pollVars, reportVars
<1>3. \A g \in Files \ {f} : file'[g] = file[g] /\ LenOf(g)' = LenOf(g) /\ Contents(g)' = Contents(g)
                              /\ Positions(g)' = Positions(g)
  BY <1>1, FileShrinks DEF LenOf, Contents, Positions
<1>4. \E n \in Nat :
          /\ \A i \in Positions(f)' : i \in Nat /\ i > 0 /\ i + n \in Positions(f)
                                      /\ file'[f][i] = file[f][i + n]
          /\ 1 \in Positions(f)' => file'[f][1].part = 1
          /\ Halfway(f)' => Halfway(f) /\ Rest(f)' = Rest(f)
  <2>1. CASE LenOf(f)' = 0 /\ Contents(f)' = <<>>
    <3>1. \A i : i \notin Positions(f)'
      BY <2>1 DEF Positions
    <3>2. ~Halfway(f)'
      BY <2>1 DEF Halfway
    <3> QED BY <3>1, <3>2
  <2>2. ASSUME NEW n \in 0..LenOf(f), LenOf(f)' = LenOf(f) - n, LenOf(f)' > 0,
               \A i \in 1..(LenOf(f) - n) : file'[f][i] = file[f][i + n],
               file[f][n + 1].part = 1, Contents(f)' = file'[f]
        PROVE  \E m \in Nat :
                   /\ \A i \in Positions(f)' : i \in Nat /\ i > 0 /\ i + m \in Positions(f)
                                               /\ file'[f][i] = file[f][i + m]
                   /\ 1 \in Positions(f)' => file'[f][1].part = 1
                   /\ Halfway(f)' => Halfway(f) /\ Rest(f)' = Rest(f)
    <3>1. LenOf(f) \in Nat /\ n \in Nat /\ n < LenOf(f)
      BY <1>1, <2>2, FileHolds
    <3>2. Positions(f)' = 1..(LenOf(f) - n)
      BY <2>2 DEF Positions
    <3>3. \A i \in Positions(f)' : i \in Nat /\ i > 0 /\ i + n \in Positions(f)
                                   /\ file'[f][i] = file[f][i + n]
      BY <2>2, <3>1, <3>2 DEF Positions
    <3>4. 1 \in Positions(f)' => file'[f][1].part = 1
      BY <2>2, <3>1, <3>2
    <3>5. Last(Contents(f)') = Last(Contents(f)) /\ Contents(f) # <<>>
      <4>1. Contents(f) \in Seq(Piece) /\ Len(Contents(f)) = LenOf(f) /\ Contents(f) = file[f]
        BY <1>1, <3>1, FileHolds
      <4>2. file'[f] \in Seq(Piece) /\ Len(file'[f]) = LenOf(f) - n
        <5>1. file'[f] # None
          BY <2>2 DEF LenOf
        <5> QED BY <1>1, <2>2, <5>1, FileShrinks DEF LenOf
      <4>3. file'[f][LenOf(f) - n] = file[f][LenOf(f)]
        BY <2>2, <3>1
      <4> QED BY <2>2, <3>1, <4>1, <4>2, <4>3 DEF Last
    <3>6. Halfway(f)' => Halfway(f) /\ Rest(f)' = Rest(f)
      BY <3>5 DEF Halfway, Rest
    <3> QED BY <3>1, <3>3, <3>4, <3>6
  <2> QED BY <1>1, <2>1, <2>2, FileShrinks
<1>5. PICK n \in Nat :
          /\ \A i \in Positions(f)' : i \in Nat /\ i > 0 /\ i + n \in Positions(f)
                                      /\ file'[f][i] = file[f][i + n]
          /\ 1 \in Positions(f)' => file'[f][1].part = 1
          /\ Halfway(f)' => Halfway(f) /\ Rest(f)' = Rest(f)
  BY <1>4
<1>6. \A g \in Files : \A i \in Positions(g)' :
          \E j \in Positions(g) : j >= i /\ i \in Nat /\ j \in Nat /\ file'[g][i] = file[g][j]
  <2>1. \A g \in Files \ {f} : \A i \in Positions(g)' : i \in Nat /\ i >= i
    BY <1>1, <1>3, FileHolds DEF Positions
  <2> QED BY <1>3, <1>5, <2>1
<1>7. EachPieceOnce'
  <2>1. SUFFICES
          /\ \A g, h \in Files : \A i \in Positions(g)', j \in Positions(h)' :
                 file'[g][i] = file'[h][j] => g = h /\ i = j
          /\ \A g \in Files : \A i \in Positions(g)' :
                 /\ file'[g][i].line <= lines'
                 /\ file'[g][i].part = 2 => i > 1 /\ file'[g][i - 1] = [file'[g][i] EXCEPT !.part = 1]
    BY DEF EachPieceOnce
  <2>2. ASSUME NEW g \in Files, NEW h \in Files, NEW i \in Positions(g)', NEW j \in Positions(h)',
               file'[g][i] = file'[h][j]
        PROVE  g = h /\ i = j
    <3>1. g = h
      BY <1>1, <1>6, <2>2 DEF EachPieceOnce
    <3>2. CASE g = f
      <4>1. i + n = j + n /\ i \in Nat /\ j \in Nat
        BY <1>1, <1>5, <2>2, <3>1, <3>2 DEF EachPieceOnce
      <4> QED BY <3>1, <4>1
    <3>3. CASE g # f
      BY <1>1, <1>3, <2>2, <3>1, <3>3 DEF EachPieceOnce
    <3> QED BY <3>2, <3>3
  <2>3. ASSUME NEW g \in Files, NEW i \in Positions(g)' PROVE file'[g][i].line <= lines'
    <3>1. PICK j \in Positions(g) : file'[g][i] = file[g][j]
      BY <1>6
    <3> QED BY <1>1, <1>2, <3>1 DEF EachPieceOnce
  <2>4. ASSUME NEW g \in Files, NEW i \in Positions(g)', file'[g][i].part = 2
        PROVE  i > 1 /\ file'[g][i - 1] = [file'[g][i] EXCEPT !.part = 1]
    <3>1. CASE g = f
      <4>1. i > 1 /\ i \in Nat /\ i + n \in Positions(f) /\ file'[f][i] = file[f][i + n]
        BY <1>5, <2>4, <3>1
      <4>2. i - 1 \in Positions(f)'
        <5>1. Positions(f)' = 1..(LenOf(f)') /\ LenOf(f)' \in Nat
          BY <1>1, FileShrinks, FileHolds DEF Positions
        <5> QED BY <2>4, <3>1, <4>1, <5>1
      <4>3. file'[f][i - 1] = file[f][(i - 1) + n] /\ (i - 1) + n = (i + n) - 1
        BY <1>5, <4>1, <4>2
      <4>4. file[f][(i + n) - 1] = [file[f][i + n] EXCEPT !.part = 1]
        BY <1>1, <2>4, <3>1, <4>1 DEF EachPieceOnce
      <4> QED BY <3>1, <4>1, <4>3, <4>4
    <3>2. CASE g # f
      BY <1>1, <1>3, <2>4, <3>2 DEF EachPieceOnce
    <3> QED BY <3>1, <3>2
  <2> QED BY <2>2, <2>3, <2>4
<1>8. ReportedWasWritten'
  <2>1. SUFFICES ASSUME NEW x \in Piece, reports'[x] > 0
                 PROVE  x.line <= lines' /\ \A g \in Files : Halfway(g)' => x # Rest(g)'
    BY DEF ReportedWasWritten
  <2>2. x.line <= lines /\ \A g \in Files : Halfway(g) => x # Rest(g)
    BY <1>1, <1>2, <2>1 DEF ReportedWasWritten
  <2>3. ASSUME NEW g \in Files, Halfway(g)' PROVE x # Rest(g)'
    <3>1. Halfway(g) /\ Rest(g)' = Rest(g)
      BY <1>3, <1>5, <2>3 DEF Halfway, Rest
    <3> QED BY <2>2, <3>1
  <2> QED BY <1>2, <2>2, <2>3
<1>9. BeyondOffset'
  <2>1. SUFFICES ASSUME at' # "down", NEW g \in Files, NEW i \in Positions(g)',
                        i > offset'[g], reports'[file'[g][i]] > 0
                 PROVE  file'[g][i] \in loose'
    BY DEF BeyondOffset
  <2>2. PICK j \in Positions(g) : j >= i /\ i \in Nat /\ j \in Nat /\ file'[g][i] = file[g][j]
    BY <1>6
  <2>3. j > offset[g]
    BY <1>1, <1>2, <2>1, <2>2 DEF TypeOK
  <2> QED BY <1>2, <2>1, <2>2, <2>3 DEF IInv, BeyondOffset
<1>10. BeyondStore'
  <2>1. SUFFICES ASSUME store' # None, NEW g \in Files, NEW i \in Positions(g)',
                        i > store'[g], reports'[file'[g][i]] > 0
                 PROVE  file'[g][i] \in loose' \cup unsaved'
    BY DEF BeyondStore
  <2>2. PICK j \in Positions(g) : j >= i /\ i \in Nat /\ j \in Nat /\ file'[g][i] = file[g][j]
    BY <1>6
  <2>3. store[g] \in Nat
    BY <1>1, <1>2, <2>1, StoreTypes
  <2>4. j > store[g]
    BY <1>2, <2>1, <2>2, <2>3
  <2> QED BY <1>2, <2>1, <2>2, <2>4 DEF IInv, BeyondStore
<1>11. DownHasLost' /\ ReportedOnce'
  BY <1>2 DEF IInv, DownHasLost, ReportedOnce
<1>12. \A g \in Files \ rewritten' : g \in Files \ rewritten /\ file'[g] = file[g] /\ LenOf(g)' = LenOf(g)
  BY <1>2, <1>3
<1>13. NotPastEnd'
  BY <1>2, <1>12 DEF IInv, NotPastEnd
<1>14. StoreSkipsNothing' /\ NothingSkipped'
  BY <1>2, <1>12 DEF IInv, StoreSkipsNothing, NothingSkipped
<1> QED BY <1>7, <1>8, <1>9, <1>10, <1>11, <1>13, <1>14 DEF IInv

-----------------------------------------------------------------------------
(* What the poller does *)

\* While the files and what was reported of them stay, so does what is said of them.
LEMMA SamePieces ==
    ASSUME IInv, UNCHANGED <<file, lines, reports>>
    PROVE  EachPieceOnce' /\ ReportedWasWritten'
<1>1. EachPieceOnce'
  BY DEF IInv, EachPieceOnce, Positions, LenOf
<1>2. ReportedWasWritten'
  BY DEF IInv, ReportedWasWritten, Halfway, Rest, Contents
<1> QED BY <1>1, <1>2

\* Steps that only move the poller on, or change what the hooks have reported.
LEMMA IdleStep ==
    ASSUME IInv, TypeOK', UNCHANGED <<offset, reports, dropped, unsaved, loose, fileVars, passed>>,
           store' = store \/ store' = None,
           at = "down" <=> at' = "down", hooked \subseteq hooked'
    PROVE  IInv'
<1> USE DEF Accounted
<1>1. UNCHANGED <<file, lines, reports, dropped, offset, unsaved, loose, passed, rewritten>>
  BY DEF fileVars
<1>2. EachPieceOnce' /\ ReportedWasWritten'
  BY <1>1, SamePieces
<1>3. BeyondOffset' /\ BeyondStore' /\ DownHasLost' /\ ReportedOnce' /\ NotPastEnd'
  BY <1>1 DEF IInv, BeyondOffset, BeyondStore, DownHasLost, ReportedOnce, NotPastEnd,
              Positions, LenOf
<1>4. StoreSkipsNothing' /\ NothingSkipped'
  BY <1>1 DEF IInv, StoreSkipsNothing, NothingSkipped
<1> QED BY <1>2, <1>3, <1>4 DEF IInv

LEMMA StartStep ==
    ASSUME IInv, TypeOK', Start
    PROVE  IInv'
<1> USE DEF Accounted
<1>1. TypeOK /\ unsaved = {}
  BY DEF IInv, DownHasLost, Start
<1>2. UNCHANGED <<file, lines, reports, dropped, store, hooked, unsaved, loose, rewritten>>
  BY DEF Start, fileVars, reportVars
<1>3. PICK from \in {Loaded, NoOffsets} :
          /\ \A f \in Files : offset'[f] = IF from[f] = 0 THEN LenOf(f) ELSE from[f]
          /\ \A f \in Files : passed'[f] = IF from[f] = 0 THEN LenOf(f) ELSE passed[f]
          /\ at' = "save"
  BY DEF Start, Initialize
<1>4. \A f \in Files : from[f] = 0 \/ (store # None /\ from[f] = store[f])
  BY DEF Loaded, NoOffsets
<1>5. \A f \in Files : /\ LenOf(f) \in Nat /\ Positions(f)' = 1..LenOf(f) /\ LenOf(f)' = LenOf(f)
                       /\ passed[f] \in Nat
  BY <1>1, <1>2, FileHolds DEF Positions, LenOf, TypeOK
<1>6. EachPieceOnce' /\ ReportedWasWritten'
  BY <1>2, SamePieces
<1>7. BeyondOffset'
  <2>1. SUFFICES ASSUME NEW f \in Files, NEW i \in Positions(f)',
                        i > offset'[f], reports'[file'[f][i]] > 0
                 PROVE  file'[f][i] \in loose'
    BY DEF BeyondOffset
  <2>2. from[f] # 0
    BY <1>3, <1>5, <2>1
  <2>3. store # None /\ i > store[f] /\ i \in Positions(f)
    BY <1>3, <1>4, <1>5, <2>1, <2>2 DEF Positions
  <2> QED BY <1>1, <1>2, <2>1, <2>3 DEF IInv, BeyondStore
<1>8. BeyondStore' /\ DownHasLost' /\ ReportedOnce'
  BY <1>2, <1>3 DEF IInv, BeyondStore, DownHasLost, ReportedOnce, Positions, LenOf
<1>9. NotPastEnd'
  <2>1. SUFFICES ASSUME NEW f \in Files \ rewritten'
                 PROVE  offset'[f] <= LenOf(f)' /\ (store' # None => store'[f] <= LenOf(f)')
    BY DEF NotPastEnd
  <2>2. store # None => store[f] <= LenOf(f)
    BY <1>2 DEF IInv, NotPastEnd
  <2> QED BY <1>2, <1>3, <1>4, <1>5, <2>2
<1>10. StoreSkipsNothing'
  <2>1. SUFFICES ASSUME store' # None, NEW f \in Files \ rewritten',
                        NEW i \in (passed'[f] + 1)..store'[f]
                 PROVE  \/ reports'[file'[f][i]] > 0
                        \/ file'[f][i].cmd \in hooked'
                        \/ file'[f][i] \in dropped'
    BY DEF StoreSkipsNothing
  <2>2. store # None /\ store[f] \in Nat /\ store[f] <= LenOf(f)
    BY <1>1, <1>2, <2>1, StoreTypes DEF IInv, NotPastEnd
  <2>3. passed'[f] = passed[f]
    <3>1. SUFFICES ASSUME from[f] = 0 PROVE FALSE
      BY <1>3
    <3>2. passed'[f] = LenOf(f)
      BY <1>3, <3>1
    <3> QED BY <1>2, <1>5, <2>1, <2>2, <3>2
  <2> QED BY <1>2, <2>1, <2>3 DEF IInv, StoreSkipsNothing
<1>11. NothingSkipped'
  <2>1. SUFFICES ASSUME NEW f \in Files \ rewritten',
                        NEW i \in (passed'[f] + 1)..offset'[f]
                 PROVE  \/ reports'[file'[f][i]] > 0
                        \/ file'[f][i].cmd \in hooked'
                        \/ file'[f][i] \in dropped'
    BY DEF NothingSkipped
  <2>2. from[f] # 0
    BY <1>3, <1>5, <2>1
  <2>3. store # None /\ offset'[f] = store[f] /\ passed'[f] = passed[f]
    BY <1>3, <1>4, <2>2
  <2> QED BY <1>2, <2>1, <2>3 DEF IInv, StoreSkipsNothing
<1> QED BY <1>6, <1>7, <1>8, <1>9, <1>10, <1>11 DEF IInv

LEMMA WriteStoreStep ==
    ASSUME IInv, TypeOK', WriteStore
    PROVE  IInv'
<1> USE DEF Accounted
<1>1. /\ UNCHANGED <<file, lines, reports, dropped, offset, hooked, loose, passed, rewritten>>
      /\ store' = offset /\ unsaved' = {} /\ at = "saving" /\ at' = "asleep"
  BY DEF WriteStore, fileVars
<1>2. EachPieceOnce' /\ ReportedWasWritten'
  BY <1>1, SamePieces
<1>3. BeyondOffset' /\ BeyondStore' /\ DownHasLost' /\ ReportedOnce' /\ NotPastEnd'
  BY <1>1 DEF IInv, BeyondOffset, BeyondStore, DownHasLost, ReportedOnce, NotPastEnd,
              Positions, LenOf
<1>4. StoreSkipsNothing' /\ NothingSkipped'
  BY <1>1 DEF IInv, StoreSkipsNothing, NothingSkipped
<1> QED BY <1>2, <1>3, <1>4 DEF IInv

LEMMA CrashStep ==
    ASSUME IInv, TypeOK', Crash
    PROVE  IInv'
<1> USE DEF Accounted
<1>1. /\ UNCHANGED <<file, lines, reports, dropped, store, hooked, passed, rewritten>>
      /\ at' = "down" /\ \A f \in Files : offset'[f] = 0
      /\ loose' = loose \cup unsaved /\ unsaved' = {}
  BY DEF Crash, fileVars
<1>2. EachPieceOnce' /\ ReportedWasWritten'
  BY <1>1, SamePieces
<1>3. BeyondOffset' /\ DownHasLost' /\ ReportedOnce'
  BY <1>1 DEF IInv, BeyondOffset, DownHasLost, ReportedOnce
<1>4. BeyondStore'
  BY <1>1 DEF IInv, BeyondStore, Positions, LenOf
<1>5. NotPastEnd'
  <2>1. \A f \in Files : LenOf(f)' = LenOf(f) /\ LenOf(f) \in Nat
    BY <1>1, FileHolds DEF IInv, LenOf
  <2> QED BY <1>1, <2>1 DEF IInv, NotPastEnd
<1>6. StoreSkipsNothing'
  BY <1>1 DEF IInv, StoreSkipsNothing
<1>7. NothingSkipped'
  <2>1. \A f \in Files : passed'[f] \in Nat
    BY DEF TypeOK
  <2> QED BY <1>1, <2>1 DEF NothingSkipped
<1> QED BY <1>2, <1>3, <1>4, <1>5, <1>6, <1>7 DEF IInv

\* A file that was trimmed is one that was not only appended to.
LEMMA FollowStep ==
    ASSUME IInv, TypeOK', NEW f \in Files, Follow(f)
    PROVE  IInv'
<1> USE DEF Accounted
<1>1. /\ UNCHANGED <<file, lines, reports, dropped, store, at, hooked, unsaved, loose, passed, rewritten>>
      /\ at = "pass" /\ LenOf(f) < offset[f]
      /\ offset' = [offset EXCEPT ![f] = LenOf(f)]
  BY DEF Follow, Looks, Shrunk, fileVars, reportVars
<1>2. \A g \in Files : LenOf(g)' = LenOf(g) /\ LenOf(g) \in Nat /\ Positions(g)' = 1..LenOf(g)
                       /\ Positions(g) = 1..LenOf(g)
  BY <1>1, FileHolds DEF IInv, LenOf, Positions
<1>3. /\ offset'[f] = LenOf(f) /\ offset[f] \in Nat
      /\ \A g \in Files \ {f} : offset'[g] = offset[g]
  BY <1>1 DEF IInv, TypeOK
<1>4. f \in rewritten
  BY <1>1, <1>2, <1>3 DEF IInv, NotPastEnd
<1>5. EachPieceOnce' /\ ReportedWasWritten'
  BY <1>1, SamePieces
<1>6. BeyondOffset'
  <2>1. SUFFICES ASSUME NEW g \in Files, NEW i \in Positions(g)',
                        i > offset'[g], reports'[file'[g][i]] > 0
                 PROVE  file'[g][i] \in loose'
    BY DEF BeyondOffset
  <2>2. g # f
    BY <1>2, <1>3, <2>1
  <2>3. i \in Positions(g) /\ i > offset[g]
    BY <1>2, <1>3, <2>1, <2>2
  <2> QED BY <1>1, <2>1, <2>3 DEF IInv, BeyondOffset
<1>7. BeyondStore' /\ DownHasLost' /\ ReportedOnce'
  BY <1>1 DEF IInv, BeyondStore, DownHasLost, ReportedOnce, Positions, LenOf
<1>8. NotPastEnd'
  BY <1>1, <1>2, <1>3, <1>4 DEF IInv, NotPastEnd
<1>9. StoreSkipsNothing' /\ NothingSkipped'
  BY <1>1, <1>3, <1>4 DEF IInv, StoreSkipsNothing, NothingSkipped
<1> QED BY <1>5, <1>6, <1>7, <1>8, <1>9 DEF IInv

\* What is read lies beyond the offset, so that no more than a crash has lost of it
\* was reported; what lies beyond what is read, or in another file, is not read.
LEMMA ReadStep ==
    ASSUME IInv, TypeOK', Read
    PROVE  IInv'
<1> USE DEF Accounted
<1> DEFINE f == hand.file
<1>1. TypeOK /\ EachPieceOnce /\ ReportedWasWritten
  BY DEF IInv
<1>2. /\ hand # None /\ LenOf(f) >= hand.len /\ at = "pass"
      /\ UNCHANGED <<file, lines, store, at, hooked, loose, passed, rewritten>>
      /\ offset' = [offset EXCEPT ![f] = hand.len]
  BY <1>1 DEF Read, TypeOK, fileVars
<1>2a. PICK lost \in SUBSET Fragments(Bytes) :
      /\ reports' = [x \in Piece |-> IF x \in Reported(Bytes) \ lost THEN reports[x] + 1 ELSE reports[x]]
      /\ unsaved' = unsaved \cup (Reported(Bytes) \ lost)
      /\ dropped' = dropped \cup lost
  BY Zenon DEF Read
<1> DEFINE new == Reported(Bytes) \ lost
<1>3. /\ f \in Files /\ hand.len \in Nat /\ offset[f] < hand.len
      /\ Bytes \subseteq Piece
      /\ \A x : x \in Bytes <=> \E i \in (offset[f] + 1)..hand.len : x = file[f][i]
      /\ (offset[f] + 1)..hand.len \subseteq Positions(f)
  BY <1>1, <1>2, BytesAreRead
<1>4. /\ offset'[f] = hand.len /\ \A g \in Files : offset[g] \in Nat
      /\ \A g \in Files \ {f} : offset'[g] = offset[g]
  BY <1>1, <1>2, <1>3 DEF TypeOK
<1>5. \A g \in Files : LenOf(g)' = LenOf(g) /\ LenOf(g) \in Nat /\ Positions(g)' = Positions(g)
                       /\ Positions(g) = 1..LenOf(g)
  BY <1>1, <1>2, FileHolds DEF LenOf, Positions
<1>6. new \subseteq Bytes /\ \A x \in Bytes : x \notin new => x.cmd \in hooked \/ x \in dropped'
  BY <1>1, <1>2a DEF Reported, TypeOK
<1>7. /\ \A x \in Piece : reports[x] \in Nat
      /\ \A x \in Piece : x \in new => reports'[x] = reports[x] + 1
      /\ \A x \in Piece : x \notin new => reports'[x] = reports[x]
      /\ \A x \in new : \E i \in (offset[f] + 1)..hand.len : i \in Positions(f) /\ x = file[f][i]
  BY <1>1, <1>3, <1>6, <1>2a DEF TypeOK
<1>8. \A x \in Piece : reports[x] > 0 => reports'[x] > 0
  BY <1>7
<1>9. \A g \in Files : \A i \in Positions(g) : file[g][i] \in Piece
  BY <1>1, FileHolds
<1> HIDE DEF f, new
<1>10. EachPieceOnce'
  BY <1>1, <1>2, <1>5 DEF EachPieceOnce
<1>11. ReportedWasWritten'
  <2>1. SUFFICES ASSUME NEW x \in Piece, reports'[x] > 0
                 PROVE  x.line <= lines /\ \A g \in Files : Halfway(g) => x # Rest(g)
    BY <1>2 DEF ReportedWasWritten, Halfway, Rest, Contents
  <2>2. CASE x \in new
    <3>1. PICK i \in Positions(f) : x = file[f][i]
      BY <1>7, <2>2
    <3>2. x.line <= lines
      BY <1>1, <1>3, <3>1 DEF EachPieceOnce
    <3>3. \A g \in Files : Halfway(g) => x # Rest(g)
      BY <1>1, <1>3, <3>1, RestIsNew
    <3> QED BY <3>2, <3>3
  <2>3. CASE x \notin new
    BY <1>1, <1>7, <2>1, <2>3 DEF ReportedWasWritten
  <2> QED BY <2>2, <2>3
<1>12. BeyondOffset'
  <2>1. SUFFICES ASSUME NEW g \in Files, NEW i \in Positions(g),
                        i > offset'[g], reports'[file[g][i]] > 0
                 PROVE  file[g][i] \in loose
    BY <1>2, <1>5 DEF BeyondOffset
  <2>2. i > offset[g]
    BY <1>3, <1>4, <1>5, <2>1
  <2>3. file[g][i] \notin new
    <3>1. SUFFICES ASSUME file[g][i] \in new PROVE FALSE
      OBVIOUS
    <3>2. PICK j \in (offset[f] + 1)..hand.len : j \in Positions(f) /\ file[g][i] = file[f][j]
      BY <1>7, <3>1
    <3>3. g = f /\ i = j
      BY <1>1, <1>3, <3>2 DEF EachPieceOnce
    <3> QED BY <1>3, <1>4, <2>1, <3>2, <3>3
  <2>4. reports[file[g][i]] > 0
    BY <1>7, <1>9, <2>1, <2>3
  <2> QED BY <1>2, <2>2, <2>4 DEF IInv, BeyondOffset
<1>13. BeyondStore'
  <2>1. SUFFICES ASSUME store # None, NEW g \in Files, NEW i \in Positions(g),
                        i > store[g], reports'[file[g][i]] > 0
                 PROVE  file[g][i] \in loose \cup unsaved'
    BY <1>2, <1>5 DEF BeyondStore
  <2>2. CASE file[g][i] \in new
    BY <1>2a, <2>2 DEF new
  <2>3. CASE file[g][i] \notin new
    <3>1. reports[file[g][i]] > 0
      BY <1>7, <1>9, <2>1, <2>3
    <3> QED BY <1>2, <1>2a, <2>1, <3>1 DEF IInv, BeyondStore
  <2> QED BY <2>2, <2>3
<1>14. DownHasLost'
  BY <1>2 DEF DownHasLost
<1>15. ReportedOnce'
  <2>1. SUFFICES ASSUME NEW x \in Piece, reports'[x] > 1
                 PROVE  x \in loose
    BY <1>2 DEF ReportedOnce
  <2>2. CASE x \in new
    <3>1. PICK i \in (offset[f] + 1)..hand.len : i \in Positions(f) /\ x = file[f][i]
      BY <1>7, <2>2
    <3>2. reports[x] > 0 /\ i > offset[f]
      BY <1>3, <1>4, <1>7, <2>1, <2>2
    <3> QED BY <1>2, <1>3, <3>1, <3>2 DEF IInv, BeyondOffset
  <2>3. CASE x \notin new
    BY <1>7, <2>1, <2>3 DEF IInv, ReportedOnce
  <2> QED BY <2>2, <2>3
<1>16. NotPastEnd'
  <2>1. SUFFICES ASSUME NEW g \in Files \ rewritten
                 PROVE  offset'[g] <= LenOf(g) /\ (store # None => store[g] <= LenOf(g))
    BY <1>2, <1>5 DEF NotPastEnd
  <2>2. offset[g] <= LenOf(g) /\ (store # None => store[g] <= LenOf(g))
    BY DEF IInv, NotPastEnd
  <2>3. offset'[g] <= LenOf(g)
    BY <1>2, <1>3, <1>4, <1>5, <2>2 DEF f
  <2> QED BY <2>2, <2>3
<1>17. \A g \in Files : \A i \in Positions(g) :
           Accounted(file[g][i])
             => \/ reports'[file[g][i]] > 0
                \/ file[g][i].cmd \in hooked'
                \/ file[g][i] \in dropped'
  BY <1>2, <1>8, <1>9, <1>2a
<1>18. \A g \in Files : passed[g] \in Nat /\ passed'[g] = passed[g]
  BY <1>1, <1>2 DEF TypeOK
<1>19. StoreSkipsNothing'
  <2>1. SUFFICES ASSUME store # None, NEW g \in Files \ rewritten,
                        NEW i \in (passed[g] + 1)..store[g]
                 PROVE  \/ reports'[file[g][i]] > 0
                        \/ file[g][i].cmd \in hooked'
                        \/ file[g][i] \in dropped'
    BY <1>2 DEF StoreSkipsNothing
  <2>2. store[g] \in Nat /\ store[g] <= LenOf(g)
    BY <1>1, <2>1, StoreTypes DEF IInv, NotPastEnd
  <2>3. i \in Positions(g)
    BY <1>5, <1>18, <2>2
  <2>4. Accounted(file[g][i])
    BY <2>1 DEF IInv, StoreSkipsNothing
  <2> QED BY <1>17, <2>3, <2>4
<1>20. NothingSkipped'
  <2>1. SUFFICES ASSUME NEW g \in Files \ rewritten,
                        NEW i \in (passed[g] + 1)..offset'[g]
                 PROVE  \/ reports'[file[g][i]] > 0
                        \/ file[g][i].cmd \in hooked'
                        \/ file[g][i] \in dropped'
    BY <1>2 DEF NothingSkipped
  <2>2. CASE i <= offset[g]
    <3>1. i \in (passed[g] + 1)..offset[g]
      BY <1>4, <1>18, <2>2
    <3>2. offset[g] <= LenOf(g)
      BY DEF IInv, NotPastEnd
    <3>3. i \in Positions(g)
      BY <1>4, <1>5, <1>18, <3>1, <3>2
    <3>4. Accounted(file[g][i])
      BY <3>1 DEF IInv, NothingSkipped
    <3> QED BY <1>17, <3>3, <3>4
  <2>3. CASE i > offset[g]
    <3>1. g = f /\ i \in (offset[f] + 1)..hand.len
      BY <1>3, <1>4, <1>18, <2>3
    <3>2. file[g][i] \in Bytes /\ file[g][i] \in Piece
      BY <1>3, <3>1 DEF f
    <3>3. CASE file[g][i] \in new
      BY <1>7, <3>2, <3>3
    <3>4. CASE file[g][i] \notin new
      BY <1>2, <1>6, <3>2, <3>4 DEF new
    <3> QED BY <3>3, <3>4
  <2>4. i \in Int /\ offset[g] \in Nat
    BY <1>4
  <2> QED BY <2>2, <2>3, <2>4
<1> QED BY <1>10, <1>11, <1>12, <1>13, <1>14, <1>15, <1>16, <1>19, <1>20 DEF IInv

LEMMA TypeStep ==
    ASSUME TypeOK, [Next]_vars
    PROVE  TypeOK'
<1> USE DEF pollVars, reportVars, fileVars
<1>1. CASE Start
  <2>1. \A f \in Files : LenOf(f) \in Nat /\ Loaded[f] \in Nat /\ NoOffsets[f] = 0
    BY FileHolds, StoreTypes DEF Loaded, NoOffsets
  <2>2. offset' \in [Files -> Nat] /\ passed' \in [Files -> Nat]
    BY <1>1, <2>1 DEF Start, Initialize, TypeOK
  <2>3. hand = None
    BY <1>1 DEF Start, TypeOK
  <2>4. faults' \in 0..MaxFaults
    BY <1>1, TerminalBoundAssumption DEF Start, Fault, TypeOK
  <2> QED BY <1>1, <2>2, <2>3, <2>4 DEF Start, TypeOK, Places
<1>2. CASE OpenStore
  BY <1>2 DEF OpenStore, TypeOK, Places
<1>3. CASE WriteStore
  BY <1>3 DEF WriteStore, TypeOK, Places
<1>4. CASE SaveFails
  <2>1. faults' \in 0..MaxFaults
    BY <1>4, TerminalBoundAssumption DEF SaveFails, Fault, TypeOK
  <2> QED BY <1>4, <2>1 DEF SaveFails, TypeOK, Places
<1>5. CASE Wake
  BY <1>5 DEF Wake, TypeOK, Places
<1>6. ASSUME NEW f \in Files, SkipFile(f) PROVE TypeOK'
  BY <1>6 DEF SkipFile, TypeOK
<1>7. ASSUME NEW f \in Files, Follow(f) PROVE TypeOK'
  <2>1. LenOf(f) \in Nat
    BY FileHolds
  <2>2. offset' \in [Files -> Nat] /\ hand = None
    BY <1>7, <2>1 DEF Follow, Looks, TypeOK
  <2> QED BY <1>7, <2>2 DEF Follow, TypeOK
<1>8. ASSUME NEW f \in Files, LookAt(f) PROVE TypeOK'
  <2>1. LenOf(f) \in Nat
    BY FileHolds
  <2>2. hand' \in InHand /\ hand'.file = f /\ hand'.len = LenOf(f)
    BY <1>8, <2>1 DEF LookAt, InHand
  <2>3. hand' # None => at' = "pass" /\ hand'.len > offset'[hand'.file]
    BY <1>8, <2>2 DEF LookAt, Looks, Grown
  <2> QED BY <1>8, <2>2, <2>3 DEF LookAt, TypeOK
<1>9. CASE Read
  <2>1. hand.file \in Files /\ hand.len \in Nat /\ Bytes \subseteq Piece
    BY <1>9, BytesAreRead DEF Read
  <2>2. Reported(Bytes) \subseteq Piece /\ Fragments(Bytes) \subseteq Piece
    BY <2>1 DEF Reported, Fragments
  <2>3. /\ offset' \in [Files -> Nat] /\ reports' \in [Piece -> Nat]
        /\ unsaved' \subseteq Piece /\ dropped' \subseteq Piece
    BY <1>9, <2>1, <2>2 DEF Read, TypeOK
  <2> QED BY <1>9, <2>3 DEF Read, TypeOK
<1>10. CASE ReadFails
  <2>1. faults' \in 0..MaxFaults
    BY <1>10, TerminalBoundAssumption DEF ReadFails, Fault, TypeOK
  <2> QED BY <1>10, <2>1 DEF ReadFails, TypeOK
<1>11. CASE EndPass
  BY <1>11 DEF EndPass, TypeOK, Places
<1>12. ASSUME NEW c \in Commands, Hook(c) PROVE TypeOK'
  BY <1>12 DEF Hook, TypeOK
<1>13. ASSUME NEW c \in Commands, Forget(c) PROVE TypeOK'
  BY <1>13 DEF Forget, TypeOK
<1>14. ASSUME NEW f \in Files, NEW c \in Commands, AppendLine(f, c) PROVE TypeOK'
  <2>1. file' \in [Files -> Seq(Piece) \cup {None}]
    BY <1>14, LineAppended, FileWritten
  <2>2. lines' \in 0..MaxLines
    BY <1>14, NewPiece DEF AppendLine
  <2> QED BY <1>14, <2>1, <2>2 DEF AppendLine, TypeOK
<1>15. ASSUME NEW f \in Files, AppendRest(f) PROVE TypeOK'
  <2>1. Rest(f) \in Piece /\ file[f] \in Seq(Piece) /\ Contents(f) = file[f]
    BY <1>15, HalfLine DEF AppendRest
  <2>2. Append(file[f], Rest(f)) \in Seq(Piece)
    BY <2>1
  <2>3. file' = [file EXCEPT ![f] = Append(file[f], Rest(f))]
    BY <1>15, <2>1 DEF AppendRest, Rest
  <2>4. file' \in [Files -> Seq(Piece) \cup {None}]
    BY <2>2, <2>3, FileWritten
  <2> QED BY <1>15, <2>4 DEF AppendRest, TypeOK
<1>16. ASSUME NEW f \in Files, Rewrite(f) PROVE TypeOK'
  <2>1. file' \in [Files -> Seq(Piece) \cup {None}]
    BY <1>16, FileShrinks
  <2>2. rewrites' \in 0..MaxRewrites
    BY <1>16, TerminalBoundAssumption DEF Rewrite, TypeOK
  <2> QED BY <1>16, <2>1, <2>2 DEF Rewrite, TypeOK
<1>17. CASE Crash
  <2>1. restarts' \in 0..MaxRestarts
    BY <1>17, TerminalBoundAssumption DEF Crash, TypeOK
  <2> QED BY <1>17, <2>1 DEF Crash, TypeOK, Places
<1>18. CASE UNCHANGED vars
  BY <1>18 DEF vars, TypeOK
<1> QED BY <1>1, <1>2, <1>3, <1>4, <1>5, <1>6, <1>7, <1>8, <1>9, <1>10, <1>11, <1>12,
           <1>13, <1>14, <1>15, <1>16, <1>17, <1>18 DEF Next, Poller, Tailer, Environment

LEMMA Initially ==
    ASSUME Init
    PROVE  IInv
<1>1. <<>> \in Seq(Piece) /\ Len(<<>>) = 0
  OBVIOUS
<1>2. TypeOK
  <2>1. \A f \in Files : file[f] \in Seq(Piece) \cup {None}
    BY <1>1 DEF Init
  <2>2. file \in [Files -> Seq(Piece) \cup {None}]
    BY <2>1 DEF Init
  <2>3. /\ lines \in 0..MaxLines /\ rewrites \in 0..MaxRewrites
        /\ faults \in 0..MaxFaults /\ restarts \in 0..MaxRestarts
    BY TerminalBoundAssumption DEF Init
  <2>4. /\ offset \in [Files -> Nat] /\ passed \in [Files -> Nat] /\ reports \in [Piece -> Nat]
        /\ store \in [Files -> Nat] \cup {None}
    BY DEF Init
  <2>5. /\ hand \in InHand \cup {None} /\ hand = None
        /\ at \in Places /\ left \subseteq Files /\ changed \in BOOLEAN
    BY DEF Init, Places
  <2>6. /\ recent \subseteq hooked /\ hooked \subseteq Commands
        /\ dropped \subseteq Piece /\ unsaved \subseteq Piece /\ loose \subseteq Piece
        /\ rewritten \subseteq Files
    BY DEF Init
  <2> QED BY <2>2, <2>3, <2>4, <2>5, <2>6 DEF TypeOK
<1>3. \A f \in Files : file[f] = None \/ file[f] = <<>>
  BY DEF Init
<1>4. \A f \in Files : LenOf(f) = 0 /\ Contents(f) = <<>>
  BY <1>1, <1>3 DEF LenOf, Contents
<1>5. EachPieceOnce
  BY <1>4 DEF EachPieceOnce, Positions
<1>6. ReportedWasWritten
  BY DEF Init, ReportedWasWritten
<1>7. BeyondOffset /\ BeyondStore /\ DownHasLost /\ ReportedOnce
  BY DEF Init, BeyondOffset, BeyondStore, DownHasLost, ReportedOnce
<1>8. NotPastEnd /\ StoreSkipsNothing /\ NothingSkipped
  BY <1>4 DEF Init, NotPastEnd, StoreSkipsNothing, NothingSkipped
<1> QED BY <1>2, <1>5, <1>6, <1>7, <1>8 DEF IInv

LEMMA Inductively ==
    ASSUME IInv, [Next]_vars
    PROVE  IInv'
<1>1. TypeOK'
  BY TypeStep DEF IInv
<1> USE DEF pollVars, reportVars
<1>2. CASE Start
  BY <1>1, <1>2, StartStep
<1>3. CASE WriteStore
  BY <1>1, <1>3, WriteStoreStep
<1>4. CASE Read
  BY <1>1, <1>4, ReadStep
<1>5. CASE Crash
  BY <1>1, <1>5, CrashStep
<1>6. ASSUME NEW f \in Files, Follow(f) PROVE IInv'
  BY <1>1, <1>6, FollowStep
<1>7. ASSUME NEW f \in Files, NEW c \in Commands, AppendLine(f, c) PROVE IInv'
  BY <1>1, <1>7, AppendLineStep
<1>8. ASSUME NEW f \in Files, AppendRest(f) \/ Rewrite(f) PROVE IInv'
  BY <1>1, <1>8, AppendRestStep, RewriteStep
<1>9. CASE OpenStore \/ SaveFails \/ Wake \/ EndPass
  <2>1. /\ UNCHANGED <<offset, reports, dropped, unsaved, loose, fileVars, passed, hooked>>
        /\ store' = store \/ store' = None
        /\ at # "down" /\ at' # "down"
    BY <1>9 DEF OpenStore, SaveFails, Wake, EndPass
  <2> QED BY <1>1, <2>1, IdleStep
<1>10. CASE ReadFails
  <2>1. UNCHANGED <<offset, reports, dropped, unsaved, loose, fileVars, passed, hooked, store, at>>
    BY <1>10 DEF ReadFails
  <2> QED BY <1>1, <2>1, IdleStep
<1>11. ASSUME NEW f \in Files, SkipFile(f) \/ LookAt(f) PROVE IInv'
  <2>1. UNCHANGED <<offset, reports, dropped, unsaved, loose, fileVars, passed, hooked, store, at>>
    BY <1>11 DEF SkipFile, LookAt
  <2> QED BY <1>1, <2>1, IdleStep
<1>12. ASSUME NEW c \in Commands, Hook(c) \/ Forget(c) PROVE IInv'
  <2>1. /\ UNCHANGED <<offset, reports, dropped, unsaved, loose, fileVars, passed, store, at>>
        /\ hooked \subseteq hooked'
    BY <1>12 DEF Hook, Forget
  <2> QED BY <1>1, <2>1, IdleStep
<1>13. CASE UNCHANGED vars
  <2>1. UNCHANGED <<offset, reports, dropped, unsaved, loose, fileVars, passed, hooked, store, at>>
    BY <1>13 DEF vars
  <2> QED BY <1>1, <2>1, IdleStep
<1> QED BY <1>2, <1>3, <1>4, <1>5, <1>6, <1>7, <1>8, <1>9, <1>10, <1>11, <1>12, <1>13
        DEF Next, Poller, Tailer, Environment

-----------------------------------------------------------------------------
(* Theorems *)

\* The offsets, what was reported and what is in the files fit together in every
\* reachable state: IInv is inductive.
THEOREM Polling == Spec => []IInv
<1>1. Init => IInv
  BY Initially
<1>2. IInv /\ [Next]_vars => IInv'
  BY Inductively
<1> QED BY <1>1, <1>2, PTL DEF Spec

\* Every step writes values of the model's types: what a pass is about to read is
\* longer than what was read of the file, so that their difference does not wrap.
THEOREM TypesAreKept == Spec => []TypeOK
<1>1. IInv => TypeOK
  BY DEF IInv
<1> QED BY <1>1, Polling, PTL

\* A piece of a history file is reported at most once, but for what a crash lost the
\* offset of, for any number of files and lines, however often the files are written
\* anew and the agent is restarted.
THEOREM HistoryIsReportedOnce == Spec => []ReportedOnce
<1>1. IInv => ReportedOnce
  BY DEF IInv
<1> QED BY <1>1, Polling, PTL

\* Of what was appended to a file behind its offset, every line that was read whole is
\* reported, from the file or by a hook; a line read in two parts may have lost a
\* fragment to its parser (parse_fish_history keeps no tail of a command).
THEOREM HistoryIsNotSkipped == Spec => []NothingSkipped
<1>1. IInv => NothingSkipped
  BY DEF IInv
<1> QED BY <1>1, Polling, PTL
=============================================================================
