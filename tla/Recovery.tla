------------------------------ MODULE Recovery ------------------------------
(***************************************************************************)
(* The rebuild of the spare disk: the two recovery threads of the degraded *)
(* pair (do_recovery_io_raid10), the trace that starts and stops their     *)
(* phase (get_fin_record and its siblings), and the user I/Os that keep    *)
(* them off the disks.  The mirror's thread reads surviving data up to     *)
(* recovery_buffer_size ahead; the spare's thread writes behind it.        *)
(* Recovery threads of other pairs never do anything.                      *)
(*                                                                         *)
(* Nothing here is protected by a mutex.  Every offset has one writing     *)
(* thread, so a thread's checks and the I/O it decides on are one action   *)
(* ("begin") and the update after the I/O another.                         *)
(***************************************************************************)
EXTENDS Integers

CONSTANTS
  ReadSize,       \* RECOVERY_READ_SIZE
  WriteSize,      \* RECOVERY_WRITE_SIZE
  BufferSize,     \* recovery_buffer_size
  StartPoint,     \* recovery_start_point
  EndPoint,       \* recovery_end_point
  WarmupLines,    \* warmup_lines
  EndLines,       \* end_lines
  TraceLines,     \* records in the trace file
  MaxUio          \* bound on outstanding user I/Os per disk (MAXAIOPERDISK)

(* connect_raid: 64 KiB divides 4 MiB divides the 1 GiB to rebuild, and the  *)
(* 10 MiB buffer is a multiple of 64 KiB that holds a write.                 *)
ASSUME RecoveryAssumption ==
  /\ ReadSize \in Nat \ {0} /\ WriteSize \in Nat \ {0} /\ BufferSize \in Nat
  /\ StartPoint \in Nat /\ EndPoint \in Nat /\ StartPoint < EndPoint
  /\ WriteSize <= BufferSize
  /\ \E k \in 1..EndPoint : EndPoint = StartPoint + k * WriteSize
  /\ \E k \in 1..WriteSize : WriteSize = k * ReadSize
  /\ \E k \in 1..BufferSize : BufferSize = k * ReadSize
ASSUME TraceAssumption ==
  /\ WarmupLines \in Nat \ {0} /\ EndLines \in Nat /\ TraceLines \in Nat
  /\ WarmupLines < EndLines
  /\ MaxUio \in Nat \ {0}

RecoveryDisks == {"spare", "mirror"}

VARIABLES
  cnt,             \* trace records read
  start_urio,
  uio_cnt,         \* per disk of the pair: user I/Os outstanding
  thread,          \* per disk: what its recovery thread is doing
  offset,          \* per disk: disk_recovery_current_offset
  recovery_current_offset,
  end_time         \* who stamped recovery_end_time last

vars == <<cnt, start_urio, uio_cnt, thread, offset, recovery_current_offset, end_time>>

Init ==
  /\ cnt = 0
  /\ start_urio = FALSE
  /\ uio_cnt = [d \in RecoveryDisks |-> 0]
  /\ thread = [d \in RecoveryDisks |-> "poll"]
  /\ offset = [d \in RecoveryDisks |-> StartPoint]
  /\ recovery_current_offset = StartPoint
  /\ end_time = "unset"

-----------------------------------------------------------------------------
(* Mutant: from the warm-up line on, not at it.                              *)
GetRecordReopens ==
  /\ cnt < TraceLines
  /\ cnt' = cnt + 1
  /\ start_urio' = IF cnt + 1 >= WarmupLines THEN TRUE
                   ELSE IF cnt + 1 = EndLines THEN FALSE ELSE start_urio
  /\ end_time' = IF cnt + 1 = EndLines THEN "trace" ELSE end_time
  /\ UNCHANGED <<uio_cnt, thread, offset, recovery_current_offset>>

(* get_fin_record: the line counter starts and ends the recovery phase.      *)
GetRecord ==
  /\ cnt < TraceLines
  /\ cnt' = cnt + 1
  /\ start_urio' = IF cnt + 1 = WarmupLines THEN TRUE
                   ELSE IF cnt + 1 = EndLines THEN FALSE ELSE start_urio
  /\ end_time' = IF cnt + 1 = EndLines THEN "trace" ELSE end_time
  /\ UNCHANGED <<uio_cnt, thread, offset, recovery_current_offset>>

(* User I/Os come and go; a thread may have read start_urio before it was    *)
(* cleared.                                                                  *)
SubmitUio(d) ==
  /\ cnt >= WarmupLines /\ uio_cnt[d] < MaxUio
  /\ uio_cnt' = [uio_cnt EXCEPT ![d] = @ + 1]
  /\ UNCHANGED <<cnt, start_urio, thread, offset, recovery_current_offset, end_time>>

(* Mutant: one completion too many.                                          *)
FinishUioUnguarded(d) ==
  /\ uio_cnt' = [uio_cnt EXCEPT ![d] = @ - 1]
  /\ UNCHANGED <<cnt, start_urio, thread, offset, recovery_current_offset, end_time>>

FinishUio(d) ==
  /\ uio_cnt[d] > 0
  /\ uio_cnt' = [uio_cnt EXCEPT ![d] = @ - 1]
  /\ UNCHANGED <<cnt, start_urio, thread, offset, recovery_current_offset, end_time>>

-----------------------------------------------------------------------------
(* Mutants: write as soon as one read is there; wait for more than a buffer; *)
(* read one piece more.                                                      *)
WriteReadyTooEarly ==
  /\ recovery_current_offset < EndPoint
  /\ \/ offset["mirror"] - recovery_current_offset >= ReadSize
     \/ offset["mirror"] >= EndPoint

WriteReadyTooLate ==
  /\ recovery_current_offset < EndPoint
  /\ \/ offset["mirror"] - recovery_current_offset > BufferSize
     \/ offset["mirror"] >= EndPoint

ReadReadyOffByOne ==
  /\ offset["mirror"] < EndPoint
  /\ offset["mirror"] - BufferSize <= recovery_current_offset

(* What each recovery thread waits for, besides its disk being free of user  *)
(* I/Os.                                                                     *)
WriteReady ==
  /\ recovery_current_offset < EndPoint
  /\ \/ offset["mirror"] - recovery_current_offset >= WriteSize
     \/ offset["mirror"] >= EndPoint

ReadReady ==
  /\ offset["mirror"] < EndPoint
  /\ offset["mirror"] - BufferSize < recovery_current_offset

BeginRecoveryIo(d) ==
  /\ thread[d] = "poll" /\ start_urio /\ uio_cnt[d] = 0
  /\ IF d = "spare" THEN WriteReady ELSE ReadReady
  /\ thread' = [thread EXCEPT ![d] = "io"]
  /\ UNCHANGED <<cnt, start_urio, uio_cnt, offset, recovery_current_offset, end_time>>

(* read() of the mirror returned.                                            *)
FinishRecoveryRead ==
  /\ thread["mirror"] = "io"
  /\ offset' = [offset EXCEPT !["mirror"] = @ + ReadSize]
  /\ thread' = [thread EXCEPT !["mirror"] = "poll"]
  /\ UNCHANGED <<cnt, start_urio, uio_cnt, recovery_current_offset, end_time>>

(* Mutant: the end is missed by one.                                         *)
FinishRecoveryWritePastEnd ==
  /\ thread["spare"] = "io"
  /\ offset' = [offset EXCEPT !["spare"] = @ + WriteSize]
  /\ recovery_current_offset' = recovery_current_offset + WriteSize
  /\ IF recovery_current_offset' > EndPoint
       THEN start_urio' = FALSE /\ thread' = [thread EXCEPT !["spare"] = "stamp"]
       ELSE thread' = [thread EXCEPT !["spare"] = "poll"] /\ UNCHANGED start_urio
  /\ UNCHANGED <<cnt, uio_cnt, end_time>>

(* write() to the spare returned; the last one ends the recovery phase.      *)
FinishRecoveryWrite ==
  /\ thread["spare"] = "io"
  /\ offset' = [offset EXCEPT !["spare"] = @ + WriteSize]
  /\ recovery_current_offset' = recovery_current_offset + WriteSize
  /\ IF recovery_current_offset' >= EndPoint
       THEN start_urio' = FALSE /\ thread' = [thread EXCEPT !["spare"] = "stamp"]
       ELSE thread' = [thread EXCEPT !["spare"] = "poll"] /\ UNCHANGED start_urio
  /\ UNCHANGED <<cnt, uio_cnt, end_time>>

StampEndTime ==
  /\ thread["spare"] = "stamp"
  /\ end_time' = "rebuild"
  /\ thread' = [thread EXCEPT !["spare"] = "poll"]
  /\ UNCHANGED <<cnt, start_urio, uio_cnt, offset, recovery_current_offset>>

SpareThread == BeginRecoveryIo("spare") \/ FinishRecoveryWrite \/ StampEndTime
MirrorThread == BeginRecoveryIo("mirror") \/ FinishRecoveryRead

Next ==
  \/ GetRecord
  \/ \E d \in RecoveryDisks : SubmitUio(d) \/ FinishUio(d)
  \/ SpareThread
  \/ MirrorThread

Spec == Init /\ [][Next]_vars

(* The recovery threads poll, and disks finish user I/Os.  The trace may     *)
(* stop anywhere, and user I/Os need not come.                               *)
FairSpec ==
  /\ Spec
  /\ WF_vars(SpareThread) /\ WF_vars(MirrorThread)
  /\ \A d \in RecoveryDisks : WF_vars(FinishUio(d))

-----------------------------------------------------------------------------
(* Every variable keeps its type.                                            *)
TypeOK ==
  /\ cnt \in Nat
  /\ start_urio \in BOOLEAN
  /\ uio_cnt \in [RecoveryDisks -> 0..MaxUio]
  /\ thread \in [RecoveryDisks -> {"poll", "io", "stamp"}]
  /\ offset \in [RecoveryDisks -> Nat]
  /\ recovery_current_offset \in Nat
  /\ end_time \in {"unset", "rebuild", "trace"}

(* The reader is never behind the writer and never more than the buffer      *)
(* ahead of it: nothing is written before it was read, and nothing read is   *)
(* overwritten before it was written.  Neither passes the end point.         *)
RebuildWindow ==
  /\ recovery_current_offset <= offset["mirror"]
  /\ offset["mirror"] <= recovery_current_offset + BufferSize
  /\ offset["mirror"] <= EndPoint

(* While the write of a piece is under way the whole piece has been read.    *)
WriteWasRead ==
  thread["spare"] = "io" =>
    /\ recovery_current_offset + WriteSize <= offset["mirror"]
    /\ offset["spare"] = recovery_current_offset

(* The recovery threads never block each other: until all is rebuilt one of  *)
(* them is doing an I/O or may start one as soon as its disk is free.        *)
NeverStuck ==
  recovery_current_offset < EndPoint =>
    \E d \in RecoveryDisks :
      thread[d] = "io" \/ (IF d = "spare" THEN WriteReady ELSE ReadReady)

(* The recovery phase opens once: whenever start_urio is raised, nothing has *)
(* been rebuilt and no end has been stamped, so a phase that the rebuild or  *)
(* the trace closed stays closed.                                            *)
PhaseOpensOnce ==
  [][~start_urio /\ start_urio' =>
       /\ recovery_current_offset = StartPoint /\ offset["mirror"] = StartPoint
       /\ end_time = "unset"]_vars

(* When user I/Os stop coming, the rebuild reaches its end and clears        *)
(* start_urio, if the trace has not done so.                                 *)
RebuildEnds ==
  (\A d \in RecoveryDisks : <>[](uio_cnt[d] = 0)) => (start_urio ~> ~start_urio)

(* recovery_end_time is reported as the end of the "recovery time"           *)
(* (acache.c:273): once the rebuild has ended it is the time of that end.    *)
EndTimeIsRebuildEnd ==
  recovery_current_offset >= EndPoint /\ thread["spare"] = "poll" => end_time = "rebuild"

=============================================================================
