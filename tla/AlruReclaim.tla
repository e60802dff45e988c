---------------------------- MODULE AlruReclaim ----------------------------
(***************************************************************************)
(* The end of the program with the ALRU cache: main plays the trace to its *)
(* end, sleeps five seconds, and calls reclaim_alru, which sets exit,      *)
(* joins the destage thread and frees the cache.  Disks, rebuild and       *)
(* destage thread go on meanwhile.                                         *)
(***************************************************************************)
EXTENDS AlruCache

CONSTANT
  QuietSleep   \* did the sleep outlast every page I/O that was under way?

ASSUME QuietSleepAssumption == QuietSleep \in BOOLEAN

VARIABLE main   \* where main is; exit of struct algorithm is main = "joining"

reclaimVars == <<alruVars, main>>

ReclaimInit == AlruInit /\ main = "playing"

(* play_trace reads the next record and replays it.                          *)
PlayTrace(pl) == main = "playing" /\ AlruReplacePage(pl) /\ UNCHANGED main

TraceStartsRecovery ==
  main = "playing" /\ StartRecovery /\ UNCHANGED <<stacks, main>>

(* get_record finds no further record, and play_trace returns.               *)
EndTrace ==
  /\ main = "playing"
  /\ \A pl \in Players : player[pl].pc = "idle"
  /\ main' = "sleeping"
  /\ UNCHANGED alruVars

(* sleep(5) returns and reclaim_alru sets exit.                              *)
EndSleep ==
  /\ main = "sleeping"
  /\ QuietSleep => ios = {}
  /\ main' = "joining"
  /\ UNCHANGED alruVars

(* The destage thread tests exit at the head of its loop only.               *)
DestagerGoesOn ==
  /\ main # "reclaimed"
  /\ destager.pc = "check" => main # "joining"
  /\ AlruDestagerProceeds
  /\ UNCHANGED main

(* It ends, pthread_join returns, and the cache is freed.                    *)
reclaim_alru ==
  /\ main = "joining" /\ destager.pc = "check"
  /\ main' = "reclaimed"
  /\ UNCHANGED alruVars

OthersGoOn ==
  /\ main # "reclaimed"
  /\ \/ \E pl \in Players : AlruPlayerProceeds(pl)
     \/ \E io \in ios : AlruCallback(io)
     \/ EndRecovery /\ UNCHANGED stacks
  /\ UNCHANGED main

ReclaimNext ==
  \/ \E pl \in Players : PlayTrace(pl)
  \/ TraceStartsRecovery
  \/ EndTrace \/ EndSleep \/ reclaim_alru
  \/ DestagerGoesOn
  \/ OthersGoOn

ReclaimSpec == ReclaimInit /\ [][ReclaimNext]_reclaimVars

(* The fairness of AlruCache, and the sleep and the join come to an end.     *)
(* Nothing makes the trace end.                                              *)
ReclaimFairness ==
  /\ \A pl \in Players :
       WF_reclaimVars(main # "reclaimed" /\ AlruPlayerProceeds(pl) /\ UNCHANGED main)
  /\ WF_reclaimVars(DestagerGoesOn)
  /\ \A p \in Pages :
       WF_reclaimVars(/\ main # "reclaimed"
                      /\ \E io \in ios : io.page = p /\ AlruCallback(io)
                      /\ UNCHANGED main)
  /\ WF_reclaimVars(EndSleep)
  /\ WF_reclaimVars(reclaim_alru)

ReclaimFairSpec == ReclaimSpec /\ ReclaimFairness

-----------------------------------------------------------------------------
(* Properties.                                                               *)

(* Once the trace has ended the program ends too: pthread_join returns,      *)
(* although the destage thread does not look at exit while it waits for a    *)
(* candidate (alru.c:1113).  It gets one when fewer destages than            *)
(* destage_threadhold may be under way.                                      *)
ReclaimEnds == main = "sleeping" ~> main = "reclaimed"

(* The cache is freed when none of its I/Os is left ("some ios may still not *)
(* be finished, we sleep 5s here", acache.c:291).                            *)
ReclaimedMeansQuiet == main = "reclaimed" => ios = {}

=============================================================================
