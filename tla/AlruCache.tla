----------------------------- MODULE AlruCache -----------------------------
(***************************************************************************)
(* The ALRU cache of src/algorithms/alru.c.  It is the LRU cache with two  *)
(* more lists per mirror pair: each cached page is also on the clean or    *)
(* dirty stack of its pair (alru_ds_node), and while start_urio is set the *)
(* page to evict or to destage comes from the stack of the pair with the   *)
(* least latency.                                                          *)
(*                                                                         *)
(* The critical sections repeat those of lru.c, so each action here is the *)
(* one of LruCache and what alru.c does to the stacks beside it.  One      *)
(* difference is in the destage thread: without a candidate it waits with  *)
(* pthread_cond_timedwait, which lets go of the mutex, so the thread state *)
(* "spin" of LruCache does not occur and MutexFree is always true.         *)
(***************************************************************************)
EXTENDS LruCache

CONSTANTS
  NPairs,       \* raid_disks / 2
  PairOf,       \* page_to_disk
  Latencies,    \* values avg_lat may have when the cache reads it
  MinLatStart   \* the initial min_lat of the searches, 1000000000

Pairs == 0..(NPairs - 1)

ASSUME PairsAssumption ==
  /\ NPairs \in Nat \ {0} /\ PairOf \in [Pages -> Pairs]
  /\ MinLatStart \in Nat
  /\ Latencies # {} /\ Latencies \subseteq 0..MinLatStart

VARIABLES clean_ds_list, dirty_ds_list   \* per pair, heads first

stacks   == <<clean_ds_list, dirty_ds_list>>
alruVars == <<vars, stacks>>

-----------------------------------------------------------------------------
(* alru_find *)
alru_find(p) == lru_find(p)

(* Mutant: the head is never looked at, not even alone on its stack.         *)
find_alru_page_ds_stack_no_head(stack) ==
  IF Len(stack) = 1 THEN {} ELSE LastIdle(stack)

(* find_alru_page_ds_stack *)
find_alru_page_ds_stack(stack) == LastIdle(stack)

(* Mutant: min_lat stays as it was, so the last pair with a page wins.       *)
LeastLatencyForgets(ds_list, tested, stored) ==
  LET search[i \in 0..NPairs] ==
        IF i = 0 THEN [min_lat |-> MinLatStart, found |-> {}]
        ELSE LET found == find_alru_page_ds_stack(ds_list[i - 1])
             IN  IF tested[i - 1] <= search[i - 1].min_lat /\ found # {}
                   THEN [min_lat |-> search[i - 1].min_lat, found |-> found]
                   ELSE search[i - 1]
  IN  search[NPairs].found

(* The loop over the pairs in both searches.  It reads a pair's avg_lat for  *)
(* the test and, after it has looked at the stack, again for min_lat.        *)
LeastLatency(ds_list, tested, stored) ==
  LET search[i \in 0..NPairs] ==
        IF i = 0 THEN [min_lat |-> MinLatStart, found |-> {}]
        ELSE LET found == find_alru_page_ds_stack(ds_list[i - 1])
             IN  IF tested[i - 1] <= search[i - 1].min_lat /\ found # {}
                   THEN [min_lat |-> stored[i - 1], found |-> found]
                   ELSE search[i - 1]
  IN  search[NPairs].found

(* The completion threads change avg_lat without alru_mutex, so each read of *)
(* a search may see any value of it.                                         *)
SearchStacks(ds_list) ==
  UNION {LeastLatency(ds_list, tested, stored) : tested, stored \in [Pairs -> Latencies]}

find_dirty_alru_page ==
  IF start_urio THEN SearchStacks(dirty_ds_list) ELSE LastIdle(dirty_list)

find_clean_alru_page ==
  IF start_urio THEN SearchStacks(clean_ds_list) ELSE LastIdle(clean_list)

-----------------------------------------------------------------------------
(* init_alru *)
AlruInit ==
  /\ Init
  /\ clean_ds_list = [d \in Pairs |-> <<>>]
  /\ dirty_ds_list = [d \in Pairs |-> <<>>]

(* What the critical sections do to the stacks.  The pair is that of the     *)
(* page the slot holds at that moment.                                       *)
CleanToHead(s, p) ==
  /\ clean_ds_list' = [clean_ds_list EXCEPT ![PairOf[p]] = MoveToHead(@, s)]
  /\ UNCHANGED dirty_ds_list

DirtyToHead(s, p) ==
  /\ dirty_ds_list' = [dirty_ds_list EXCEPT ![PairOf[p]] = MoveToHead(@, s)]
  /\ UNCHANGED clean_ds_list

CleanToDirty(s, p) ==
  /\ clean_ds_list' = [clean_ds_list EXCEPT ![PairOf[p]] = RemoveNode(@, s)]
  /\ dirty_ds_list' = [dirty_ds_list EXCEPT ![PairOf[p]] = AddToHead(@, s)]

(* Serving a page that is up to date: the five branches of a hit.            *)
AlruReadClean(pl, r, held) ==
  ReadClean(pl, r, held) /\ CleanToHead(r.slot, r.page)

AlruReadDirtyHit(pl, r, held) ==
  ReadDirtyHit(pl, r, held) /\ DirtyToHead(r.slot, r.page)

AlruReadDirtyMiss(pl, r, held) ==
  ReadDirtyMiss(pl, r, held) /\ DirtyToHead(r.slot, r.page)

(* Mutant: the bitmap of a dirty page is not extended.                       *)
AlruWriteDirtyKeepsBitmap(pl, r, held) ==
  WriteDirtyKeepsBitmap(pl, r, held) /\ DirtyToHead(r.slot, r.page)

AlruWriteDirty(pl, r, held) ==
  WriteDirty(pl, r, held) /\ DirtyToHead(r.slot, r.page)

AlruWriteClean(pl, r, held) ==
  WriteClean(pl, r, held) /\ CleanToDirty(r.slot, r.page)

AlruServe(pl, r, held) ==
  \/ AlruReadClean(pl, r, held)
  \/ AlruReadDirtyHit(pl, r, held)
  \/ AlruReadDirtyMiss(pl, r, held)
  \/ AlruWriteDirty(pl, r, held)
  \/ AlruWriteClean(pl, r, held)

AlruHit(pl, r) ==
  \/ IsUptodate(r.slot) /\ AlruServe(pl, r, [refs EXCEPT ![r.slot] = @ + 1])
  \/ ~IsUptodate(r.slot) /\ Hit(pl, r) /\ UNCHANGED stacks

(* Mutant: the page is removed from the stack of the new page's pair.        *)
AlruEvictWrongPair(pl, r, s) ==
  Evict(pl, r, s) /\ CleanToHead(s, r.page)

(* Reuse the slot of a clean page: it leaves the stack of the old page's     *)
(* pair and enters that of the new one.                                      *)
AlruEvict(pl, r, s) ==
  LET left == [clean_ds_list EXCEPT ![PairOf[page[s]]] = RemoveNode(@, s)] IN
  /\ Evict(pl, r, s)
  /\ clean_ds_list' = [left EXCEPT ![PairOf[r.page]] = AddToHead(@, s)]
  /\ UNCHANGED dirty_ds_list

AlruTakeFreeClean(pl, r) ==
  /\ TakeFreeClean(pl, r)
  /\ clean_ds_list' = [clean_ds_list EXCEPT ![PairOf[r.page]] =
                         AddToHead(@, free_clean_list[1])]
  /\ UNCHANGED dirty_ds_list

AlruReadMiss(pl, r) ==
  \/ AlruTakeFreeClean(pl, r)
  \/ free_clean_list = <<>> /\ \E s \in find_clean_alru_page : AlruEvict(pl, r, s)
  \/ /\ free_clean_list = <<>> /\ find_clean_alru_page = {}
     /\ Suspend(pl, r, "wait_clean")
     /\ UNCHANGED <<slotVars, listVars, hash, counterVars, ghostVars, stacks>>

AlruInsertDirty(pl, r) ==
  /\ InsertDirty(pl, r)
  /\ dirty_ds_list' = [dirty_ds_list EXCEPT ![PairOf[r.page]] =
                         AddToHead(@, free_dirty_list[1])]
  /\ UNCHANGED clean_ds_list

AlruWriteMiss(pl, r) ==
  \/ AlruInsertDirty(pl, r)
  \/ free_dirty_list = <<>> /\ WriteMiss(pl, r) /\ UNCHANGED stacks

-----------------------------------------------------------------------------
(* The players: do_alru_replacepage.                                         *)

AlruReplacePage(pl) ==
  /\ player[pl].pc = "idle"
  /\ \E p \in Pages, rw \in {"read", "write"}, mask \in Masks :
       LET r == [pc |-> "idle", page |-> p, rw |-> rw, mask |-> mask, slot |-> NoSlot]
       IN  \/ \E s \in alru_find(p) : AlruHit(pl, [r EXCEPT !.slot = s])
           \/ alru_find(p) = {} /\ rw = "read" /\ AlruReadMiss(pl, r)
           \/ alru_find(p) = {} /\ rw = "write" /\ AlruWriteMiss(pl, r)
  /\ UNCHANGED <<phase, destager, ios>>

AlruUptodateSeen(pl) ==
  /\ player[pl].pc = "wait_uptodate"
  /\ IsUptodate(player[pl].slot)
  /\ AlruServe(pl, player[pl], refs)
  /\ UNCHANGED <<phase, destager, ios>>

AlruCleanPageSeen(pl) ==
  LET r == player[pl] IN
  /\ r.pc = "wait_clean"
  /\ \E s \in find_clean_alru_page :
       \/ alru_find(r.page) = {} /\ AlruEvict(pl, r, s)
       \/ \E t \in alru_find(r.page) : AlruHit(pl, [r EXCEPT !.slot = t])
  /\ UNCHANGED <<phase, destager, ios>>

(* Mutant: no second alru_find after the wait.                               *)
AlruFreeDirtySeenNoRefind(pl) ==
  /\ player[pl].pc = "wait_free_dirty"
  /\ AlruInsertDirty(pl, player[pl])
  /\ UNCHANGED <<phase, destager, ios>>

AlruFreeDirtySeen(pl) ==
  LET r == player[pl] IN
  /\ r.pc = "wait_free_dirty"
  /\ free_dirty_list # <<>>
  /\ \/ alru_find(r.page) = {} /\ AlruInsertDirty(pl, r)
     \/ \E s \in alru_find(r.page) : AlruHit(pl, [r EXCEPT !.slot = s])
  /\ UNCHANGED <<phase, destager, ios>>

AlruExchangeSeen(pl) == ExchangeSeen(pl) /\ UNCHANGED stacks

AlruIssueRead(pl) == IssueRead(pl) /\ UNCHANGED stacks

-----------------------------------------------------------------------------
(* alru_destage.  Its tests are those of the LRU cache; the wait for a       *)
(* candidate lets go of the mutex.                                           *)

AlruDestageTests == (DestageWanted \/ DestageBudget) /\ UNCHANGED stacks

(* Mutant: the page is picked without a reference.                           *)
AlruDestagePickUnreferenced ==
  /\ destager.pc = "lock"
  /\ \E s \in find_dirty_alru_page :
       /\ state' = [state EXCEPT ![s] = @ \ {"UPTODATE"}]
       /\ destage_cnt' = destage_cnt + 1
       /\ destager' = [pc |-> "issue", slot |-> s, full |-> bm_mask[s] = Sectors]
  /\ UNCHANGED <<page, refs, bm_mask, listVars, hash, dpage_cnt, phase, player, ios,
                 ghostVars, stacks>>

AlruDestagePick ==
  /\ destager.pc = "lock"
  /\ \E s \in find_dirty_alru_page :
       /\ state' = [state EXCEPT ![s] = @ \ {"UPTODATE"}]
       /\ refs' = [refs EXCEPT ![s] = @ + 1]
       /\ destage_cnt' = destage_cnt + 1
       /\ destager' = [pc |-> "issue", slot |-> s, full |-> bm_mask[s] = Sectors]
  /\ UNCHANGED <<page, bm_mask, listVars, hash, dpage_cnt, phase, player, ios,
                 ghostVars, stacks>>

AlruIssueDestage == IssueDestage /\ UNCHANGED stacks

-----------------------------------------------------------------------------
(* The completion callbacks.                                                 *)

alru_finish_read(io) == lru_finish_read(io) /\ UNCHANGED stacks

alru_finish_destage_read(io) == lru_finish_destage_read(io) /\ UNCHANGED stacks

(* Mutants: a page that leaves the cache stays on its stack; it leaves       *)
(* whoever holds it.                                                         *)
AlruFinishDestageWriteKeepsStack(io) ==
  lru_finish_destage_write(io) /\ UNCHANGED stacks

AlruFinishDestageWriteFreesHeld(io) ==
  /\ FinishDestageWriteFreesHeld(io)
  /\ \E s \in alru_find(io.page) :
       dirty_ds_list' = [dirty_ds_list EXCEPT ![PairOf[io.page]] = RemoveNode(@, s)]
  /\ UNCHANGED clean_ds_list

alru_finish_destage_write(io) ==
  /\ lru_finish_destage_write(io)
  /\ \E s \in alru_find(io.page) :
       dirty_ds_list' = IF refs[s] = 1
         THEN [dirty_ds_list EXCEPT ![PairOf[io.page]] = RemoveNode(@, s)]
         ELSE dirty_ds_list
  /\ UNCHANGED clean_ds_list

AlruCallback(io) ==
  alru_finish_read(io) \/ alru_finish_destage_read(io) \/ alru_finish_destage_write(io)

-----------------------------------------------------------------------------
AlruPlayerProceeds(pl) ==
  \/ AlruUptodateSeen(pl)
  \/ AlruCleanPageSeen(pl)
  \/ AlruFreeDirtySeen(pl)
  \/ AlruExchangeSeen(pl)
  \/ AlruIssueRead(pl)

AlruDestagerProceeds == AlruDestageTests \/ AlruDestagePick \/ AlruIssueDestage

AlruNext ==
  \/ \E pl \in Players : AlruReplacePage(pl) \/ AlruPlayerProceeds(pl)
  \/ AlruDestagerProceeds
  \/ \E io \in ios : AlruCallback(io)
  \/ StartRecovery /\ UNCHANGED stacks
  \/ EndRecovery /\ UNCHANGED stacks

AlruSpec == AlruInit /\ [][AlruNext]_alruVars

(* The fairness of LruCache: threads that can run do, disks complete.        *)
AlruFairness ==
  /\ \A pl \in Players : WF_alruVars(AlruPlayerProceeds(pl))
  /\ WF_alruVars(AlruDestagerProceeds)
  /\ \A p \in Pages : WF_alruVars(\E io \in ios : io.page = p /\ AlruCallback(io))

AlruFairSpec == AlruSpec /\ AlruFairness

-----------------------------------------------------------------------------
(* Properties.                                                               *)

(* The slots on the stack of a pair are those of the list whose page lies on *)
(* the pair, in the order of the list: alru_check_stack's "page %ld is not   *)
(* in the disk stack %ld" (alru.c:1257) is never printed, and the tail of a  *)
(* stack is its least recently used page.                                    *)
OfPair(list, d) == {s \in Elements(list) : PairOf[page[s]] = d}

FollowsList(stack, list, d) ==
  /\ NoDuplicates(stack) /\ Elements(stack) = OfPair(list, d)
  /\ \A s, t \in Elements(stack) : Before(stack, s, t) <=> Before(list, s, t)

StacksFollowLists ==
  \A d \in Pairs :
    /\ FollowsList(clean_ds_list[d], clean_list, d)
    /\ FollowsList(dirty_ds_list[d], dirty_list, d)

(* Though latencies change while a search runs, it finds a page when some    *)
(* pair has one it may take; and when the pairs that have one are, during    *)
(* the whole search, either at most as slow as t or slower, the page comes   *)
(* from one of the former if there is one.                                   *)
LeastBusyPairServed ==
  \A tested, stored \in [Pairs -> Latencies], ds_list \in {clean_ds_list, dirty_ds_list} :
    LET found == LeastLatency(ds_list, tested, stored)
        offering == {d \in Pairs : find_alru_page_ds_stack(ds_list[d]) # {}}
        Fast(t) == {d \in offering : tested[d] <= t /\ stored[d] <= t}
        Slow(t) == {d \in offering : tested[d] > t /\ stored[d] > t}
    IN  /\ found = {} <=> offering = {}
        /\ \A t \in Latencies :
             Fast(t) # {} /\ Fast(t) \cup Slow(t) = offering =>
               \A s \in found : PairOf[page[s]] \in Fast(t)

(* A request that reached the cache is answered: waiting for a candidate the *)
(* destage thread no longer keeps the callbacks out.                         *)
AlruRequestsAnswered ==
  \A pl \in Players : player[pl].pc # "idle" ~> player[pl].pc = "idle"

=============================================================================
