--------------------------- MODULE RecoveryProofs ---------------------------
(***************************************************************************)
(* Proofs about the rebuild of the spare disk (module Recovery), for every *)
(* size and every trace the assumptions allow.                             *)
(*                                                                         *)
(* The safety properties are not inductive: that the reader stays within   *)
(* the buffer after an I/O needs what it checked before the I/O, and that  *)
(* the last step fits needs the offsets to lie on the grid of the I/O      *)
(* sizes, counted back from the end point.  RInv adds both.                *)
(***************************************************************************)
EXTENDS Recovery, TLAPS

(* The offsets are a whole number of I/Os away from the end point.           *)
WriterOnGrid == \E j \in Nat : EndPoint = recovery_current_offset + j * WriteSize
ReaderOnGrid == \E i \in Nat : EndPoint = offset["mirror"] + i * ReadSize

(* What each thread checked before its I/O still holds during the I/O.       *)
ReaderMayGoOn ==
  thread["mirror"] = "io" =>
    /\ offset["mirror"] < EndPoint
    /\ offset["mirror"] - BufferSize < recovery_current_offset
WriterMayGoOn == thread["spare"] = "io" => recovery_current_offset < EndPoint

(* Nothing happens before the warm-up line.                                  *)
QuietBeforeWarmup ==
  cnt < WarmupLines =>
    /\ ~start_urio /\ end_time = "unset"
    /\ recovery_current_offset = StartPoint /\ offset["mirror"] = StartPoint
    /\ \A d \in RecoveryDisks : thread[d] = "poll"

RInv ==
  /\ TypeOK
  /\ RebuildWindow
  /\ WriteWasRead
  /\ offset["spare"] = recovery_current_offset
  /\ WriterOnGrid
  /\ ReaderOnGrid
  /\ ReaderMayGoOn
  /\ WriterMayGoOn
  /\ QuietBeforeWarmup

-----------------------------------------------------------------------------
(* What RecoveryAssumption says without its multiples.                       *)
LEMMA Sizes ==
  /\ ReadSize \in Nat /\ ReadSize > 0
  /\ WriteSize \in Nat /\ WriteSize > 0
  /\ BufferSize \in Nat /\ WriteSize <= BufferSize
  /\ StartPoint \in Nat /\ EndPoint \in Nat /\ StartPoint < EndPoint
<1>1. /\ ReadSize \in Nat \ {0} /\ WriteSize \in Nat \ {0} /\ BufferSize \in Nat
      /\ StartPoint \in Nat /\ EndPoint \in Nat /\ StartPoint < EndPoint
      /\ WriteSize <= BufferSize
  BY RecoveryAssumption, Zenon
<1> QED BY <1>1

(* And the multiples.                                                        *)
LEMMA Multiples ==
  /\ \E k \in Nat : EndPoint = StartPoint + k * WriteSize
  /\ \E k \in Nat : WriteSize = k * ReadSize
  /\ \E k \in Nat : BufferSize = k * ReadSize
<1>1. PICK a \in 1..EndPoint : EndPoint = StartPoint + a * WriteSize
  BY RecoveryAssumption, Zenon
<1>2. PICK b \in 1..WriteSize : WriteSize = b * ReadSize
  BY RecoveryAssumption, Zenon
<1>3. PICK c \in 1..BufferSize : BufferSize = c * ReadSize
  BY RecoveryAssumption, Zenon
<1>4. a \in Nat /\ b \in Nat /\ c \in Nat
  <2>1. EndPoint \in Int /\ WriteSize \in Int /\ BufferSize \in Int
    BY Sizes
  <2>2. a \in 1..EndPoint /\ b \in 1..WriteSize /\ c \in 1..BufferSize
    OBVIOUS
  <2>3. \A e \in Int : \A x \in 1..e : x \in Nat
    OBVIOUS
  <2> QED BY <2>1, <2>2, <2>3, Zenon
<1> QED BY <1>1, <1>2, <1>3, <1>4, Zenon

(* A positive multiple of a positive number is at least that number.         *)
LEMMA PositiveMultiple ==
  ASSUME NEW r \in Nat \ {0}, NEW n \in Int, n * r > 0
  PROVE  n >= 1 /\ n * r >= r
<1>1. n >= 1
  <2>1. CASE n >= 1 BY <2>1
  <2>2. CASE n <= 0
    <3>1. n * r <= 0 BY <2>2, Z3
    <3> QED BY <3>1
  <2> QED BY <2>1, <2>2
<1>2. n * r = r + ((n - 1) * r)
  BY Z3
<1>3. (n - 1) * r >= 0
  BY <1>1, Z3
<1> QED BY <1>1, <1>2, <1>3

(* One step along a grid that ends at e stays on the grid.                   *)
LEMMA GridStep ==
  ASSUME NEW r \in Nat \ {0}, NEW o \in Nat, NEW e \in Nat, NEW n \in Nat,
         e = o + n * r, o < e
  PROVE  /\ o + r <= e
         /\ \E k \in Nat : e = (o + r) + k * r
<1>1. n * r > 0 OBVIOUS
<1>2. n >= 1 /\ n * r >= r
  BY <1>1, PositiveMultiple
<1>3. n - 1 \in Nat BY <1>2
<1>4. n * r = r + ((n - 1) * r)
  BY Z3
<1>5. (n - 1) * r \in Int BY <1>3, Z3
<1>6. e = (o + r) + ((n - 1) * r)
  BY <1>4, <1>5
<1> QED BY <1>2, <1>3, <1>6

(* A reader that is short of the end of the buffer is short of it by at      *)
(* The same for the reader of the rebuild.                                   *)
LEMMA ReaderStep ==
  ASSUME NEW o \in Nat, NEW i \in Nat, EndPoint = o + i * ReadSize, o < EndPoint
  PROVE  /\ o + ReadSize <= EndPoint
         /\ \E k \in Nat : EndPoint = (o + ReadSize) + k * ReadSize
<1>1. ReadSize \in Nat \ {0} /\ EndPoint \in Nat
  BY Sizes
<1> QED BY <1>1, GridStep

(* least one read: all three offsets lie on the reader's grid.               *)
LEMMA BufferStep ==
  ASSUME NEW rco \in Nat, NEW off \in Nat, off - BufferSize < rco,
         NEW j \in Nat, EndPoint = rco + j * WriteSize,
         NEW i \in Nat, EndPoint = off + i * ReadSize
  PROVE  off + ReadSize <= rco + BufferSize
<1>1. PICK k \in Nat : WriteSize = k * ReadSize
  BY Multiples, Zenon
<1>2. PICK l \in Nat : BufferSize = l * ReadSize
  BY Multiples, Zenon
<1> DEFINE n == (i - (j * k)) + l
<1>3. j * k \in Int
  BY Z3
<1>4. n \in Int
  BY <1>3
<1>5. ReadSize \in Int /\ EndPoint \in Int /\ BufferSize \in Int
  BY Sizes
<1>6. n * ReadSize = (rco + BufferSize) - off
  <2>1. \A a, b, c, r \in Int :
          ((a - b) + c) * r = ((a * r) - (b * r)) + (c * r)
    BY Z3
  <2>2. n * ReadSize = ((i * ReadSize) - ((j * k) * ReadSize)) + (l * ReadSize)
    BY <1>3, <1>5, <2>1
  <2>3. \A a, b, r \in Int : (a * b) * r = a * (b * r)
    BY Z3
  <2>4. (j * k) * ReadSize = j * WriteSize
    BY <1>1, <1>5, <2>3
  <2>5. n * ReadSize = ((i * ReadSize) - (j * WriteSize)) + BufferSize
    BY <1>2, <2>2, <2>4, Zenon
  <2> HIDE DEF n
  <2>6. PICK x \in Int : x = i * ReadSize
    BY <1>5, Z3
  <2>7. PICK y \in Int : y = j * WriteSize
    BY Sizes, Z3
  <2>8. EndPoint = rco + y /\ EndPoint = off + x
    BY <2>6, <2>7, Zenon
  <2>9. (x - y) + BufferSize = (rco + BufferSize) - off
    BY <1>5, <2>8
  <2> QED BY <2>5, <2>6, <2>7, <2>9, Zenon
<1> HIDE DEF n
<1>7. PICK z \in Int : z = n * ReadSize
  BY <1>5, <1>6
<1>8. z > 0
  BY <1>5, <1>6, <1>7
<1>9. z >= ReadSize
  BY <1>4, <1>7, <1>8, Sizes, PositiveMultiple
<1> QED BY <1>5, <1>6, <1>7, <1>9

-----------------------------------------------------------------------------
(* The threads start with nothing read and nothing written.                  *)
LEMMA RInvInit == Init => RInv
<1> SUFFICES ASSUME Init PROVE RInv
  OBVIOUS
<1>1. TypeOK
  <2> USE Sizes, TraceAssumption DEF Init, RecoveryDisks
  <2>1. cnt \in Nat /\ start_urio \in BOOLEAN OBVIOUS
  <2>2. uio_cnt \in [RecoveryDisks -> 0..MaxUio] OBVIOUS
  <2>3. thread \in [RecoveryDisks -> {"poll", "io", "stamp"}] OBVIOUS
  <2>4. offset \in [RecoveryDisks -> Nat] /\ recovery_current_offset \in Nat OBVIOUS
  <2>5. end_time \in {"unset", "rebuild", "trace"} OBVIOUS
  <2> QED BY <2>1, <2>2, <2>3, <2>4, <2>5 DEF TypeOK
<1>2. WriterOnGrid
  BY Multiples, Zenon DEF Init, WriterOnGrid
<1>3. ReaderOnGrid
  <2>1. PICK k \in Nat : EndPoint = StartPoint + k * WriteSize
    BY Multiples, Zenon
  <2>2. PICK m \in Nat : WriteSize = m * ReadSize
    BY Multiples, Zenon
  <2>3. k * m \in Nat
    BY Z3
  <2>4. \A a, b, r \in Int : (a * b) * r = a * (b * r)
    BY Z3
  <2>5. k * WriteSize = (k * m) * ReadSize
    BY <2>2, <2>4, Sizes
  <2>6. EndPoint = StartPoint + (k * m) * ReadSize
    BY <2>1, <2>5, Zenon
  <2>7. offset["mirror"] = StartPoint
    BY DEF Init, RecoveryDisks
  <2> QED BY <2>3, <2>6, <2>7, Zenon DEF ReaderOnGrid
<1> QED
  BY <1>1, <1>2, <1>3, Sizes DEF Init, RInv, RebuildWindow, WriteWasRead,
     ReaderMayGoOn, WriterMayGoOn, QuietBeforeWarmup, RecoveryDisks

(* Every step keeps the invariant.                                           *)
LEMMA RInvNext == RInv /\ [Next]_vars => RInv'
<1> SUFFICES ASSUME RInv, [Next]_vars PROVE RInv'
  OBVIOUS
<1> USE Sizes, TraceAssumption DEF RInv
<1>1. CASE GetRecord
  <2>1. start_urio' \in BOOLEAN /\ end_time' \in {"unset", "rebuild", "trace"}
    BY <1>1, Zenon DEF GetRecord, TypeOK
  <2>2. TypeOK'
    <3>1. cnt' \in Nat
      BY <1>1 DEF GetRecord, TypeOK
    <3>2. UNCHANGED <<uio_cnt, thread, offset, recovery_current_offset>>
      BY <1>1, Zenon DEF GetRecord
    <3> QED BY <2>1, <3>1, <3>2 DEF TypeOK
  <2>3. cnt' < WarmupLines => cnt < WarmupLines /\ ~(cnt + 1 = WarmupLines)
                              /\ ~(cnt + 1 = EndLines)
    BY <1>1 DEF GetRecord, TypeOK
  <2>4. QuietBeforeWarmup'
    BY <1>1, <2>3, Zenon DEF GetRecord, QuietBeforeWarmup
  <2> QED
    BY <1>1, <2>2, <2>4 DEF GetRecord, RebuildWindow, WriteWasRead, WriterOnGrid,
       ReaderOnGrid, ReaderMayGoOn, WriterMayGoOn
<1>2. ASSUME NEW d \in RecoveryDisks, SubmitUio(d) \/ FinishUio(d) PROVE RInv'
  <2>1. uio_cnt' \in [RecoveryDisks -> 0..MaxUio]
    BY <1>2 DEF SubmitUio, FinishUio, TypeOK
  <2>2. UNCHANGED <<cnt, start_urio, thread, offset, recovery_current_offset, end_time>>
    BY <1>2, Zenon DEF SubmitUio, FinishUio
  <2> QED
    BY <2>1, <2>2 DEF TypeOK, RebuildWindow, WriteWasRead, WriterOnGrid,
       ReaderOnGrid, ReaderMayGoOn, WriterMayGoOn, QuietBeforeWarmup
<1>3. CASE BeginRecoveryIo("spare")
  <2>1. WriteWasRead'
    <3>1. PICK j \in Nat : EndPoint = recovery_current_offset + j * WriteSize
      BY DEF WriterOnGrid
    <3>2. recovery_current_offset + WriteSize <= EndPoint
      BY <1>3, <3>1, GridStep DEF BeginRecoveryIo, WriteReady, TypeOK
    <3> QED
      BY <1>3, <3>2 DEF BeginRecoveryIo, WriteReady, WriteWasRead, RebuildWindow,
         TypeOK, RecoveryDisks
  <2>2. QuietBeforeWarmup'
    BY <1>3 DEF BeginRecoveryIo, QuietBeforeWarmup
  <2> QED
    BY <1>3, <2>1, <2>2 DEF BeginRecoveryIo, WriteReady, TypeOK, RebuildWindow,
       WriterOnGrid, ReaderOnGrid, ReaderMayGoOn, WriterMayGoOn, RecoveryDisks
<1>4. CASE BeginRecoveryIo("mirror")
  BY <1>4 DEF BeginRecoveryIo, ReadReady, TypeOK, RebuildWindow, WriteWasRead,
     WriterOnGrid, ReaderOnGrid, ReaderMayGoOn, WriterMayGoOn, QuietBeforeWarmup,
     RecoveryDisks
<1>5. CASE FinishRecoveryRead
  <2>1. PICK i \in Nat : EndPoint = offset["mirror"] + i * ReadSize
    BY DEF ReaderOnGrid
  <2>2. PICK j \in Nat : EndPoint = recovery_current_offset + j * WriteSize
    BY DEF WriterOnGrid
  <2>3. /\ offset["mirror"] < EndPoint
        /\ offset["mirror"] - BufferSize < recovery_current_offset
    BY <1>5 DEF FinishRecoveryRead, ReaderMayGoOn
  <2>4. offset["mirror"] \in Nat /\ recovery_current_offset \in Nat
    BY DEF TypeOK, RecoveryDisks
  <2>5. /\ offset["mirror"] + ReadSize <= EndPoint
        /\ \E k \in Nat : EndPoint = (offset["mirror"] + ReadSize) + k * ReadSize
    BY <2>1, <2>3, <2>4, ReaderStep
  <2>6. offset["mirror"] + ReadSize <= recovery_current_offset + BufferSize
    BY <2>1, <2>2, <2>3, <2>4, BufferStep
  <2>7. /\ offset'["mirror"] = offset["mirror"] + ReadSize
        /\ offset'["spare"] = offset["spare"]
        /\ recovery_current_offset' = recovery_current_offset
    BY <1>5 DEF FinishRecoveryRead, TypeOK, RecoveryDisks
  <2>8. TypeOK' BY <1>5 DEF FinishRecoveryRead, TypeOK, RecoveryDisks
  <2>9. RebuildWindow'
    BY <2>4, <2>5, <2>6, <2>7 DEF RebuildWindow
  <2>10. WriteWasRead' /\ WriterMayGoOn' /\ ReaderMayGoOn'
    BY <1>5, <2>4, <2>7 DEF FinishRecoveryRead, TypeOK, RecoveryDisks,
       WriteWasRead, WriterMayGoOn, ReaderMayGoOn
  <2>11. WriterOnGrid' BY <2>7 DEF WriterOnGrid
  <2>12. ReaderOnGrid' BY <2>5, <2>7 DEF ReaderOnGrid
  <2>13. QuietBeforeWarmup'
    BY <1>5 DEF FinishRecoveryRead, QuietBeforeWarmup, RecoveryDisks
  <2> QED BY <2>7, <2>8, <2>9, <2>10, <2>11, <2>12, <2>13
<1>6. CASE FinishRecoveryWrite
  <2>1. PICK j \in Nat : EndPoint = recovery_current_offset + j * WriteSize
    BY DEF WriterOnGrid
  <2>2. /\ recovery_current_offset < EndPoint
        /\ recovery_current_offset + WriteSize <= offset["mirror"]
        /\ offset["spare"] = recovery_current_offset
    BY <1>6 DEF FinishRecoveryWrite, WriterMayGoOn, WriteWasRead
  <2>3. offset["mirror"] \in Nat /\ recovery_current_offset \in Nat
    BY DEF TypeOK, RecoveryDisks
  <2>4. \E k \in Nat : EndPoint = (recovery_current_offset + WriteSize) + k * WriteSize
    BY <2>1, <2>2, <2>3, GridStep
  <2>5. /\ recovery_current_offset' = recovery_current_offset + WriteSize
        /\ offset'["spare"] = offset["spare"] + WriteSize
        /\ offset'["mirror"] = offset["mirror"]
        /\ thread'["spare"] # "io" /\ thread'["mirror"] = thread["mirror"]
    BY <1>6 DEF FinishRecoveryWrite, TypeOK, RecoveryDisks
  <2>6. TypeOK'
    <3>1. start_urio' \in BOOLEAN
      BY <1>6, Zenon DEF FinishRecoveryWrite, TypeOK
    <3>2. thread' \in [RecoveryDisks -> {"poll", "io", "stamp"}]
      BY <1>6 DEF FinishRecoveryWrite, TypeOK
    <3>3. offset' \in [RecoveryDisks -> Nat] /\ recovery_current_offset' \in Nat
      <4>1. /\ offset' = [offset EXCEPT !["spare"] = @ + WriteSize]
            /\ recovery_current_offset' = recovery_current_offset + WriteSize
        BY <1>6, Zenon DEF FinishRecoveryWrite
      <4> HIDE DEF RInv
      <4>2. offset \in [RecoveryDisks -> Nat] /\ recovery_current_offset \in Nat
        BY DEF RInv, TypeOK
      <4> QED BY <4>1, <4>2 DEF RecoveryDisks
    <3>4. UNCHANGED <<cnt, uio_cnt, end_time>>
      BY <1>6 DEF FinishRecoveryWrite
    <3> QED BY <3>1, <3>2, <3>3, <3>4 DEF TypeOK
  <2>7. RebuildWindow'
    BY <2>2, <2>3, <2>5 DEF RebuildWindow
  <2>8. WriteWasRead' /\ WriterMayGoOn'
    BY <2>5 DEF WriteWasRead, WriterMayGoOn
  <2>9. ReaderMayGoOn'
    BY <2>3, <2>5 DEF ReaderMayGoOn
  <2>10. WriterOnGrid' BY <2>4, <2>5 DEF WriterOnGrid
  <2>11. ReaderOnGrid' BY <2>5 DEF ReaderOnGrid
  <2>12. QuietBeforeWarmup'
    BY <1>6 DEF FinishRecoveryWrite, QuietBeforeWarmup, RecoveryDisks
  <2> QED BY <2>2, <2>5, <2>6, <2>7, <2>8, <2>9, <2>10, <2>11, <2>12
<1>7. CASE StampEndTime
  <2>1. QuietBeforeWarmup'
    BY <1>7 DEF StampEndTime, QuietBeforeWarmup, RecoveryDisks
  <2> QED
    BY <1>7, <2>1 DEF StampEndTime, TypeOK, RebuildWindow, WriteWasRead, WriterOnGrid,
       ReaderOnGrid, ReaderMayGoOn, WriterMayGoOn, RecoveryDisks
<1>8. CASE UNCHANGED vars
  BY <1>8 DEF vars, TypeOK, RebuildWindow, WriteWasRead, WriterOnGrid, ReaderOnGrid,
     ReaderMayGoOn, WriterMayGoOn, QuietBeforeWarmup
<1> QED
  BY <1>1, <1>2, <1>3, <1>4, <1>5, <1>6, <1>7, <1>8
     DEF Next, SpareThread, MirrorThread

(* The invariant holds in every reachable state.                             *)
LEMMA RInvAlways == Spec => []RInv
  BY RInvInit, RInvNext, PTL DEF Spec

-----------------------------------------------------------------------------
(* Every variable keeps its type.                                            *)
THEOREM RecoveryTypeCorrect == Spec => []TypeOK
<1>1. RInv => TypeOK BY DEF RInv
<1> QED BY <1>1, RInvAlways, PTL

(* The reader of do_recovery_io_raid10 never overruns the recovery buffer or *)
(* the end point, and never falls behind the writer.                         *)
THEOREM WindowKept == Spec => []RebuildWindow
<1>1. RInv => RebuildWindow BY DEF RInv
<1> QED BY <1>1, RInvAlways, PTL

(* The writer of do_recovery_io_raid10 only ever writes data that was read.  *)
THEOREM OnlyReadDataWritten == Spec => []WriteWasRead
<1>1. RInv => WriteWasRead BY DEF RInv
<1> QED BY <1>1, RInvAlways, PTL

(* Reader and writer never wait for each other: the buffer holds a write.    *)
THEOREM RebuildNeverStuck == Spec => []NeverStuck
<1>1. TypeOK => NeverStuck
  BY Sizes DEF TypeOK, NeverStuck, RecoveryDisks, WriteReady, ReadReady
<1> QED BY <1>1, RecoveryTypeCorrect, PTL

(* start_urio is raised once, before anything was rebuilt: neither the trace *)
(* nor the rebuild reopens a phase that the other one closed.                *)
THEOREM OnePhase == Spec => PhaseOpensOnce
<1>1. RInv /\ [Next]_vars =>
        [~start_urio /\ start_urio' =>
           /\ recovery_current_offset = StartPoint /\ offset["mirror"] = StartPoint
           /\ end_time = "unset"]_vars
  <2> SUFFICES ASSUME RInv, Next, ~start_urio, start_urio'
               PROVE  /\ recovery_current_offset = StartPoint
                      /\ offset["mirror"] = StartPoint
                      /\ end_time = "unset"
    OBVIOUS
  <2>1. GetRecord
    BY DEF Next, SubmitUio, FinishUio, SpareThread, MirrorThread, BeginRecoveryIo,
       FinishRecoveryRead, FinishRecoveryWrite, StampEndTime
  <2>2. cnt + 1 = WarmupLines
    BY <2>1, Zenon DEF GetRecord
  <2>3. cnt < WarmupLines
    BY <2>2, TraceAssumption DEF RInv, TypeOK
  <2> QED BY <2>3 DEF RInv, QuietBeforeWarmup
<1> QED BY <1>1, RInvAlways, PTL DEF Spec, PhaseOpensOnce

=============================================================================
