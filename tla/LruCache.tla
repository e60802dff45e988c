------------------------------ MODULE LruCache ------------------------------
(***************************************************************************)
(* The LRU write-back cache of src/algorithms/lru.c: the trace players     *)
(* that call lru_replace, the destage thread, and the completion           *)
(* callbacks of the page I/Os both of them issue.                          *)
(*                                                                         *)
(* All of them share the four page lists, the hash table and the page      *)
(* descriptors, and take lru_mutex around every access, so an action is    *)
(* one critical section.  A wait on a condition variable releases the      *)
(* mutex and is a pthread_cond_timedwait inside a while loop: it is a      *)
(* thread state whose action is enabled when the loop condition has become *)
(* false and the mutex is free.  The one place that keeps the mutex while  *)
(* it waits, the candidate loop of destage(), is a thread state that makes *)
(* MutexFree false.                                                        *)
(***************************************************************************)
EXTENDS DlList, FiniteSets

CONSTANTS
  Players,        \* threads that call lru_replace (play_trace starts one)
  Slots,          \* the str_lru_page descriptors allocated by init_lru
  DPages,         \* dpages: how many of them may hold dirty pages
  Threshold,      \* destage_threadhold
  RaidDisks,      \* raid_disks, the bound on destage_cnt
  Pages,          \* page numbers the trace may name
  Buckets,        \* hash buckets
  HashOf,         \* page % hash_size
  NSectors,       \* sectors of a page, numbered 1..NSectors
  UninitMasks,    \* contents malloc may leave in a bm_mask
  UrioAllowed,    \* may the trace reach its recovery phase?
  NoPage, NoSlot, \* "no value" markers
  Destager, Disk  \* who runs a callback besides the players

Sectors == 1..NSectors

ASSUME PlayersAssumption == IsFiniteSet(Players) /\ Players # {}
ASSUME SlotsAssumption == IsFiniteSet(Slots) /\ NoSlot \notin Slots
ASSUME SizesAssumption ==
  /\ DPages \in 1..Cardinality(Slots)
  /\ Threshold \in Nat \ {0}
  /\ RaidDisks \in Nat \ {0}
  /\ NSectors \in Nat \ {0}
ASSUME PagesAssumption == NoPage \notin Pages /\ HashOf \in [Pages -> Buckets]
ASSUME MasksAssumption == UninitMasks \subseteq SUBSET Sectors
ASSUME RunnersAssumption ==
  Destager \notin Players /\ Disk \notin Players /\ Destager # Disk
ASSUME UrioAssumption == UrioAllowed \in BOOLEAN

VARIABLES
  page, state, refs, bm_mask,    \* the fields of str_lru_page, per slot
  clean_list, dirty_list, free_clean_list, free_dirty_list,
  hash,                          \* slots chained in each bucket
  dpage_cnt, destage_cnt,        \* counters of struct algorithm
  phase,                         \* start_urio is phase = "recovering"
  player,                        \* per player: where it is in do_lru_replacepage
  destager,                      \* where the destage thread is
  ios,                           \* page I/Os whose callback has not run yet
  pending,                       \* ghost: sectors written by the user and not
                                 \* yet on disk, per page
  have                           \* ghost: sectors whose data the slot holds

slotVars    == <<page, state, refs, bm_mask>>
listVars    == <<clean_list, dirty_list, free_clean_list, free_dirty_list>>
counterVars == <<dpage_cnt, destage_cnt>>
ghostVars   == <<pending, have>>
vars == <<slotVars, listVars, hash, counterVars, phase, player, destager, ios,
          ghostVars>>

-----------------------------------------------------------------------------
(* Requests.  generate_bm sets one contiguous run of bits, and lru_replace   *)
(* never passes an empty one.                                               *)
Masks == {a..b : a, b \in Sectors} \ {{}}

PlayerPcs == {"idle", "wait_uptodate", "wait_clean", "wait_free_dirty",
              "wait_exchange", "issue", "callback"}

PlayerStates ==
  [pc : PlayerPcs, page : Pages \cup {NoPage}, rw : {"read", "write"},
   mask : SUBSET Sectors, slot : Slots \cup {NoSlot}]

IdlePlayer ==
  [pc |-> "idle", page |-> NoPage, rw |-> "read", mask |-> {}, slot |-> NoSlot]

DestagerStates ==
  [pc : {"check", "budget", "lock", "spin", "issue", "callback"},
   slot : Slots \cup {NoSlot}, full : BOOLEAN]

IdleDestager == [pc |-> "check", slot |-> NoSlot, full |-> FALSE]

Kinds == {"read", "destage_read", "destage_write"}

IoRecords == [page : Pages, kind : Kinds, by : Players \cup {Destager, Disk}]

start_urio == phase = "recovering"

(* Every thread but a spinning destage thread releases lru_mutex at the end  *)
(* of its critical section and while it waits.                               *)
MutexFree == destager.pc # "spin"

-----------------------------------------------------------------------------
(* lru_find *)
lru_find(p) == {s \in hash[HashOf[p]] : page[s] = p}

(* The state word of a page: its DIRTY and UPTODATE bits. *)
IsDirty(s) == "DIRTY" \in state[s]
IsUptodate(s) == "UPTODATE" \in state[s]

(* Mutant: no test at all before a page is taken.                            *)
IdleUntested(s) == s \in Slots

Idle(s) == refs[s] = 0 /\ IsUptodate(s)

(* The scan starts at head->pre and stops before it reaches the head again,  *)
(* so the head itself is examined only when it is alone on the list.         *)
Examined(list) == IF Len(list) = 1 THEN {1} ELSE 2..Len(list)

LastIdle(list) ==
  {list[i] : i \in {j \in Examined(list) :
                      /\ Idle(list[j])
                      /\ \A k \in Examined(list) : Idle(list[k]) => k <= j}}

find_dirty_lru_page == LastIdle(dirty_list)
find_clean_lru_page == LastIdle(clean_list)

-----------------------------------------------------------------------------
(* init_lru, and set_para's counters.  Any slot may be the i-th of the array.*)
Orders == {f \in [1..Cardinality(Slots) -> Slots] :
             \A i, j \in 1..Cardinality(Slots) : f[i] = f[j] => i = j}

Init ==
  /\ page = [s \in Slots |-> NoPage]
  /\ state = [s \in Slots |-> {}]
  /\ refs = [s \in Slots |-> 0]
  /\ bm_mask \in [Slots -> UninitMasks]
  /\ clean_list = <<>>
  /\ dirty_list = <<>>
  /\ \E f \in Orders :
       /\ free_dirty_list = [i \in 1..DPages |-> f[i]]
       /\ free_clean_list =
            [i \in 1..(Cardinality(Slots) - DPages) |-> f[i + DPages]]
  /\ hash = [b \in Buckets |-> {}]
  /\ dpage_cnt = 0
  /\ destage_cnt = 0
  /\ phase = "warmup"
  /\ player = [pl \in Players |-> IdlePlayer]
  /\ destager = IdleDestager
  /\ ios = {}
  /\ pending = [p \in Pages |-> {}]
  /\ have = [s \in Slots |-> {}]

-----------------------------------------------------------------------------
(* Helpers of the critical sections of do_lru_replacepage.  r is the request *)
(* the player serves, with the slot it is about; held is refs with the       *)
(* player's own reference counted in.                                        *)

Return(pl) == player' = [player EXCEPT ![pl] = IdlePlayer]

Suspend(pl, r, where) == player' = [player EXCEPT ![pl] = [r EXCEPT !.pc = where]]

Release(held, s) == refs' = [held EXCEPT ![s] = @ - 1]

UserWrote(p, mask) == pending' = [pending EXCEPT ![p] = @ \cup mask]

(* Read a clean page that is up to date. *)
ReadClean(pl, r, held) ==
  /\ r.rw = "read" /\ ~IsDirty(r.slot)
  /\ clean_list' = MoveToHead(clean_list, r.slot)
  /\ Release(held, r.slot)
  /\ Return(pl)
  /\ UNCHANGED <<page, state, bm_mask, dirty_list, free_clean_list,
                 free_dirty_list, hash, counterVars, ghostVars>>

(* Read a dirty page whose bitmap covers the request. *)
ReadDirtyHit(pl, r, held) ==
  /\ r.rw = "read" /\ IsDirty(r.slot) /\ r.mask \subseteq bm_mask[r.slot]
  /\ dirty_list' = MoveToHead(dirty_list, r.slot)
  /\ Release(held, r.slot)
  /\ Return(pl)
  /\ UNCHANGED <<page, state, bm_mask, clean_list, free_clean_list,
                 free_dirty_list, hash, counterVars, ghostVars>>

(* Mutant: the reference is given back before the read is issued.            *)
ReadDirtyMissReleases(pl, r, held) ==
  /\ r.rw = "read" /\ IsDirty(r.slot) /\ ~(r.mask \subseteq bm_mask[r.slot])
  /\ state' = [state EXCEPT ![r.slot] = @ \ {"UPTODATE"}]
  /\ dirty_list' = MoveToHead(dirty_list, r.slot)
  /\ Release(held, r.slot)
  /\ Suspend(pl, r, "issue")
  /\ UNCHANGED <<page, bm_mask, clean_list, free_clean_list,
                 free_dirty_list, hash, counterVars, ghostVars>>

(* Read a dirty page whose bitmap does not cover the request: fetch the      *)
(* whole page; the reference is given back by lru_finish_read.               *)
ReadDirtyMiss(pl, r, held) ==
  /\ r.rw = "read" /\ IsDirty(r.slot) /\ ~(r.mask \subseteq bm_mask[r.slot])
  /\ state' = [state EXCEPT ![r.slot] = @ \ {"UPTODATE"}]
  /\ dirty_list' = MoveToHead(dirty_list, r.slot)
  /\ refs' = held
  /\ Suspend(pl, r, "issue")
  /\ UNCHANGED <<page, bm_mask, clean_list, free_clean_list,
                 free_dirty_list, hash, counterVars, ghostVars>>

(* Mutant: the bitmap of a dirty page is not extended.                       *)
WriteDirtyKeepsBitmap(pl, r, held) ==
  /\ r.rw = "write" /\ IsDirty(r.slot)
  /\ dirty_list' = MoveToHead(dirty_list, r.slot)
  /\ Release(held, r.slot)
  /\ Return(pl)
  /\ UserWrote(r.page, r.mask)
  /\ have' = [have EXCEPT ![r.slot] = @ \cup r.mask]
  /\ UNCHANGED <<page, state, bm_mask, clean_list, free_clean_list,
                 free_dirty_list, hash, counterVars>>

(* Write a page that is dirty already. *)
WriteDirty(pl, r, held) ==
  /\ r.rw = "write" /\ IsDirty(r.slot)
  /\ bm_mask' = [bm_mask EXCEPT ![r.slot] = @ \cup r.mask]
  /\ dirty_list' = MoveToHead(dirty_list, r.slot)
  /\ Release(held, r.slot)
  /\ Return(pl)
  /\ UserWrote(r.page, r.mask)
  /\ have' = [have EXCEPT ![r.slot] = @ \cup r.mask]
  /\ UNCHANGED <<page, state, clean_list, free_clean_list,
                 free_dirty_list, hash, counterVars>>

(* Give a free dirty page to the clean side, in exchange for the clean page  *)
(* that became dirty.                                                        *)
ExchangeFreePage ==
  /\ free_dirty_list # <<>>
  /\ free_dirty_list' = RemoveNode(free_dirty_list, free_dirty_list[1])
  /\ free_clean_list' = AddToHead(free_clean_list, free_dirty_list[1])

(* Mutants: the exchange is forgotten when no dirty page is free; the page   *)
(* stays on the clean list.                                                  *)
WriteCleanNoWait(pl, r, held) ==
  /\ r.rw = "write" /\ ~IsDirty(r.slot)
  /\ clean_list' = RemoveNode(clean_list, r.slot)
  /\ dirty_list' = AddToHead(dirty_list, r.slot)
  /\ state' = [state EXCEPT ![r.slot] = @ \cup {"DIRTY"}]
  /\ Release(held, r.slot)
  /\ bm_mask' = [bm_mask EXCEPT ![r.slot] = Sectors]
  /\ dpage_cnt' = dpage_cnt + 1
  /\ UserWrote(r.page, r.mask)
  /\ \/ ExchangeFreePage
     \/ free_dirty_list = <<>> /\ UNCHANGED <<free_clean_list, free_dirty_list>>
  /\ Return(pl)
  /\ UNCHANGED <<page, hash, destage_cnt, have>>

WriteCleanStaysClean(pl, r, held) ==
  /\ r.rw = "write" /\ ~IsDirty(r.slot)
  /\ dirty_list' = AddToHead(dirty_list, r.slot)
  /\ state' = [state EXCEPT ![r.slot] = @ \cup {"DIRTY"}]
  /\ Release(held, r.slot)
  /\ bm_mask' = [bm_mask EXCEPT ![r.slot] = Sectors]
  /\ dpage_cnt' = dpage_cnt + 1
  /\ UserWrote(r.page, r.mask)
  /\ ExchangeFreePage /\ Return(pl)
  /\ UNCHANGED <<page, clean_list, hash, destage_cnt, have>>

(* Write a clean page: it becomes a fully dirty page at once, and the player *)
(* may then have to wait for the free dirty page it owes the clean side.     *)
WriteClean(pl, r, held) ==
  /\ r.rw = "write" /\ ~IsDirty(r.slot)
  /\ clean_list' = RemoveNode(clean_list, r.slot)
  /\ dirty_list' = AddToHead(dirty_list, r.slot)
  /\ state' = [state EXCEPT ![r.slot] = @ \cup {"DIRTY"}]
  /\ Release(held, r.slot)
  /\ bm_mask' = [bm_mask EXCEPT ![r.slot] = Sectors]
  /\ dpage_cnt' = dpage_cnt + 1
  /\ UserWrote(r.page, r.mask)
  /\ \/ ExchangeFreePage /\ Return(pl)
     \/ /\ free_dirty_list = <<>>
        /\ Suspend(pl, [r EXCEPT !.slot = NoSlot], "wait_exchange")
        /\ UNCHANGED <<free_clean_list, free_dirty_list>>
  /\ UNCHANGED <<page, hash, destage_cnt, have>>

(* What a player does with a page it holds and that is up to date. *)
Serve(pl, r, held) ==
  \/ ReadClean(pl, r, held)
  \/ ReadDirtyHit(pl, r, held)
  \/ ReadDirtyMiss(pl, r, held)
  \/ WriteDirty(pl, r, held)
  \/ WriteClean(pl, r, held)

(* Mutant: the player forgets which slot it waits for.                       *)
HitForgetsSlot(pl, r) ==
  \/ IsUptodate(r.slot) /\ Serve(pl, r, [refs EXCEPT ![r.slot] = @ + 1])
  \/ /\ ~IsUptodate(r.slot)
     /\ refs' = [refs EXCEPT ![r.slot] = @ + 1]
     /\ Suspend(pl, [r EXCEPT !.slot = NoSlot], "wait_uptodate")
     /\ UNCHANGED <<page, state, bm_mask, listVars, hash, counterVars, ghostVars>>

(* The page is cached: take a reference, serve the request if the page is up *)
(* to date, wait for its I/O otherwise.                                      *)
Hit(pl, r) ==
  \/ IsUptodate(r.slot) /\ Serve(pl, r, [refs EXCEPT ![r.slot] = @ + 1])
  \/ /\ ~IsUptodate(r.slot)
     /\ refs' = [refs EXCEPT ![r.slot] = @ + 1]
     /\ Suspend(pl, r, "wait_uptodate")
     /\ UNCHANGED <<page, state, bm_mask, listVars, hash, counterVars, ghostVars>>

(* The slot s becomes the clean, not up to date buffer of the requested page *)
(* and its read is to be issued.                                             *)
Install(pl, r, s) ==
  /\ page' = [page EXCEPT ![s] = r.page]
  /\ refs' = [refs EXCEPT ![s] = 1]
  /\ state' = [state EXCEPT ![s] = {}]
  /\ bm_mask' = [bm_mask EXCEPT ![s] = {}]
  /\ have' = [have EXCEPT ![s] = {}]
  /\ Suspend(pl, [r EXCEPT !.slot = s], "issue")

(* Mutant: the slot is unchained after its page number was overwritten.      *)
EvictWrongBucket(pl, r, s) ==
  /\ Install(pl, r, s)
  /\ hash' = [hash EXCEPT ![HashOf[r.page]] = @ \cup {s}]
  /\ clean_list' = MoveToHead(clean_list, s)
  /\ UNCHANGED <<dirty_list, free_clean_list, free_dirty_list, counterVars, pending>>

(* Reuse the slot of the clean page s, in both of the places that do it.     *)
Evict(pl, r, s) ==
  /\ Install(pl, r, s)
  /\ hash' = [b \in Buckets |->
                (hash[b] \ (IF b = HashOf[page[s]] THEN {s} ELSE {}))
                  \cup (IF b = HashOf[r.page] THEN {s} ELSE {})]
  /\ clean_list' = MoveToHead(clean_list, s)
  /\ UNCHANGED <<dirty_list, free_clean_list, free_dirty_list, counterVars, pending>>

TakeFreeClean(pl, r) ==
  /\ free_clean_list # <<>>
  /\ Install(pl, r, free_clean_list[1])
  /\ free_clean_list' = RemoveNode(free_clean_list, free_clean_list[1])
  /\ hash' = [hash EXCEPT ![HashOf[r.page]] = @ \cup {free_clean_list[1]}]
  /\ clean_list' = AddToHead(clean_list, free_clean_list[1])
  /\ UNCHANGED <<dirty_list, free_dirty_list, counterVars, pending>>

(* A read miss takes a free clean page, else evicts, else waits.             *)
ReadMiss(pl, r) ==
  \/ TakeFreeClean(pl, r)
  \/ free_clean_list = <<>> /\ \E s \in find_clean_lru_page : Evict(pl, r, s)
  \/ /\ free_clean_list = <<>> /\ find_clean_lru_page = {}
     /\ Suspend(pl, r, "wait_clean")
     /\ UNCHANGED <<slotVars, listVars, hash, counterVars, ghostVars>>

(* A write miss puts the page in a free dirty slot without reading it.  The  *)
(* request's bits are or-ed into whatever bitmap the slot has.               *)
InsertDirty(pl, r) ==
  LET s == free_dirty_list[1] IN
  /\ free_dirty_list # <<>>
  /\ free_dirty_list' = RemoveNode(free_dirty_list, s)
  /\ page' = [page EXCEPT ![s] = r.page]
  /\ bm_mask' = [bm_mask EXCEPT ![s] = @ \cup r.mask]
  /\ state' = [state EXCEPT ![s] = {"UPTODATE", "DIRTY"}]
  /\ hash' = [hash EXCEPT ![HashOf[r.page]] = @ \cup {s}]
  /\ dirty_list' = AddToHead(dirty_list, s)
  /\ dpage_cnt' = dpage_cnt + 1
  /\ UserWrote(r.page, r.mask)
  /\ have' = [have EXCEPT ![s] = r.mask]
  /\ Return(pl)
  /\ UNCHANGED <<refs, clean_list, free_clean_list, destage_cnt>>

WriteMiss(pl, r) ==
  \/ InsertDirty(pl, r)
  \/ /\ free_dirty_list = <<>>
     /\ Suspend(pl, r, "wait_free_dirty")
     /\ UNCHANGED <<slotVars, listVars, hash, counterVars, ghostVars>>

-----------------------------------------------------------------------------
(* The players.                                                              *)

(* do_lru_replacepage for one page of a trace record, up to its return or to *)
(* the first time it lets go of the mutex.                                   *)
ReplacePage(pl) ==
  /\ player[pl].pc = "idle" /\ MutexFree
  /\ \E p \in Pages, rw \in {"read", "write"}, mask \in Masks :
       LET r == [pc |-> "idle", page |-> p, rw |-> rw, mask |-> mask, slot |-> NoSlot]
       IN  \/ \E s \in lru_find(p) : Hit(pl, [r EXCEPT !.slot = s])
           \/ lru_find(p) = {} /\ rw = "read" /\ ReadMiss(pl, r)
           \/ lru_find(p) = {} /\ rw = "write" /\ WriteMiss(pl, r)
  /\ UNCHANGED <<phase, destager, ios>>

(* Mutant: the wait is an if, not a while.                                   *)
UptodateSeenOnce(pl) ==
  /\ player[pl].pc = "wait_uptodate" /\ MutexFree
  /\ Serve(pl, player[pl], refs)
  /\ UNCHANGED <<phase, destager, ios>>

(* The loop on the page's UPTODATE bit ends.                                 *)
UptodateSeen(pl) ==
  /\ player[pl].pc = "wait_uptodate" /\ MutexFree
  /\ IsUptodate(player[pl].slot)
  /\ Serve(pl, player[pl], refs)
  /\ UNCHANGED <<phase, destager, ios>>

(* The wait for a clean page to evict ends; the page itself may have been    *)
(* cached by another player in the meantime.                                 *)
CleanPageSeen(pl) ==
  LET r == player[pl] IN
  /\ r.pc = "wait_clean" /\ MutexFree
  /\ find_clean_lru_page # {}
  /\ \/ /\ lru_find(r.page) = {}
        /\ \E s \in find_clean_lru_page : Evict(pl, r, s)
     \/ \E s \in lru_find(r.page) : Hit(pl, [r EXCEPT !.slot = s])
  /\ UNCHANGED <<phase, destager, ios>>

(* Mutant: no second lru_find after the wait.                                *)
FreeDirtySeenNoRefind(pl) ==
  /\ player[pl].pc = "wait_free_dirty" /\ MutexFree
  /\ InsertDirty(pl, player[pl])
  /\ UNCHANGED <<phase, destager, ios>>

(* The wait of a write miss for a free dirty page ends; same remark.         *)
FreeDirtySeen(pl) ==
  LET r == player[pl] IN
  /\ r.pc = "wait_free_dirty" /\ MutexFree
  /\ free_dirty_list # <<>>
  /\ \/ lru_find(r.page) = {} /\ InsertDirty(pl, r)
     \/ \E s \in lru_find(r.page) : Hit(pl, [r EXCEPT !.slot = s])
  /\ UNCHANGED <<phase, destager, ios>>

(* The wait of a write to a clean page for a free dirty page ends.           *)
ExchangeSeen(pl) ==
  /\ player[pl].pc = "wait_exchange" /\ MutexFree
  /\ ExchangeFreePage
  /\ Return(pl)
  /\ UNCHANGED <<slotVars, clean_list, dirty_list, hash, counterVars, phase,
                 destager, ios, ghostVars>>

(* handle_cache_request: during recovery the I/O is queued to a disk and the *)
(* caller goes on; otherwise the caller runs the callback itself.            *)
Submit(p, kind, caller) ==
  ios' = ios \cup {[page |-> p, kind |-> kind,
                    by |-> IF start_urio THEN Disk ELSE caller]}

IssueRead(pl) ==
  /\ player[pl].pc = "issue"
  /\ Submit(player[pl].page, "read", pl)
  /\ IF start_urio THEN Return(pl) ELSE Suspend(pl, player[pl], "callback")
  /\ UNCHANGED <<slotVars, listVars, hash, counterVars, phase, destager, ghostVars>>

-----------------------------------------------------------------------------
(* The destage thread.  It reads its condition without the mutex, in the     *)
(* order of the source; when the condition fails it waits for a signal or a  *)
(* timeout and looks again.                                                  *)

(* Mutant: the threshold less DESTAGE_GAP.                                   *)
DestageWantedWithGap ==
  /\ destager.pc = "check"
  /\ dpage_cnt >= Threshold - 2 \/ free_dirty_list = <<>>
  /\ destager' = [destager EXCEPT !.pc = "budget"]
  /\ UNCHANGED <<slotVars, listVars, hash, counterVars, phase, player, ios, ghostVars>>

DestageWanted ==
  /\ destager.pc = "check"
  /\ dpage_cnt >= Threshold \/ free_dirty_list = <<>>
  /\ destager' = [destager EXCEPT !.pc = "budget"]
  /\ UNCHANGED <<slotVars, listVars, hash, counterVars, phase, player, ios, ghostVars>>

(* Mutant: off by one.                                                       *)
DestageBudgetOffByOne ==
  /\ destager.pc = "budget"
  /\ destager' = [destager EXCEPT
                    !.pc = IF destage_cnt <= RaidDisks THEN "lock" ELSE "check"]
  /\ UNCHANGED <<slotVars, listVars, hash, counterVars, phase, player, ios, ghostVars>>

DestageBudget ==
  /\ destager.pc = "budget"
  /\ destager' = [destager EXCEPT
                    !.pc = IF destage_cnt < RaidDisks THEN "lock" ELSE "check"]
  /\ UNCHANGED <<slotVars, listVars, hash, counterVars, phase, player, ios, ghostVars>>

(* Take the oldest idle dirty page; with none the thread looks again and     *)
(* again and keeps the mutex.                                                *)
DestagePick ==
  /\ destager.pc \in {"lock", "spin"}
  /\ \/ \E s \in find_dirty_lru_page :
          /\ state' = [state EXCEPT ![s] = @ \ {"UPTODATE"}]
          /\ refs' = [refs EXCEPT ![s] = @ + 1]
          /\ destage_cnt' = destage_cnt + 1
          /\ destager' = [pc |-> "issue", slot |-> s, full |-> bm_mask[s] = Sectors]
     \/ /\ find_dirty_lru_page = {}
        /\ destager' = [destager EXCEPT !.pc = "spin"]
        /\ UNCHANGED <<state, refs, destage_cnt>>
  /\ UNCHANGED <<page, bm_mask, listVars, hash, dpage_cnt, phase, player, ios,
                 ghostVars>>

(* A full page is written; any other is read first, to be written by a later *)
(* round.                                                                    *)
IssueDestage ==
  /\ destager.pc = "issue"
  /\ Submit(page[destager.slot],
            IF destager.full THEN "destage_write" ELSE "destage_read", Destager)
  /\ destager' = IF start_urio THEN IdleDestager
                               ELSE [destager EXCEPT !.pc = "callback"]
  /\ UNCHANGED <<slotVars, listVars, hash, counterVars, phase, player, ghostVars>>

-----------------------------------------------------------------------------
(* The completion callbacks, run by a disk's completion thread or by the     *)
(* thread that issued the I/O.  The page is looked up by number again.       *)

Complete(io) ==
  /\ ios' = ios \ {io}
  /\ player' = IF io.by \in Players THEN [player EXCEPT ![io.by] = IdlePlayer]
                                    ELSE player
  /\ destager' = IF io.by = Destager THEN IdleDestager ELSE destager

lru_finish_read(io) ==
  /\ io.kind = "read" /\ MutexFree
  /\ \E s \in lru_find(io.page) :
       /\ bm_mask' = IF IsDirty(s) THEN [bm_mask EXCEPT ![s] = Sectors] ELSE bm_mask
       /\ refs' = [refs EXCEPT ![s] = @ - 1]
       /\ state' = [state EXCEPT ![s] = @ \cup {"UPTODATE"}]
       /\ have' = [have EXCEPT ![s] = Sectors]
  /\ Complete(io)
  /\ UNCHANGED <<page, listVars, hash, counterVars, phase, pending>>

lru_finish_destage_read(io) ==
  /\ io.kind = "destage_read" /\ MutexFree
  /\ \E s \in lru_find(io.page) :
       /\ IsDirty(s)
       /\ bm_mask' = [bm_mask EXCEPT ![s] = Sectors]
       /\ state' = [state EXCEPT ![s] = @ \cup {"UPTODATE"}]
       /\ refs' = [refs EXCEPT ![s] = @ - 1]
       /\ have' = [have EXCEPT ![s] = Sectors]
  /\ destage_cnt' = destage_cnt - 1
  /\ Complete(io)
  /\ UNCHANGED <<page, listVars, hash, dpage_cnt, phase, pending>>

(* Mutants: destage_cnt is not given back; the page leaves the cache whoever *)
(* holds it.                                                                 *)
FinishDestageWriteKeepsCount(io) ==
  /\ io.kind = "destage_write" /\ MutexFree
  /\ \E s \in lru_find(io.page) :
       /\ IsDirty(s)
       /\ state' = [state EXCEPT ![s] = @ \cup {"UPTODATE"}]
       /\ refs' = [refs EXCEPT ![s] = @ - 1]
       /\ IF refs[s] = 1
            THEN /\ dpage_cnt' = dpage_cnt - 1
                 /\ hash' = [hash EXCEPT ![HashOf[page[s]]] = @ \ {s}]
                 /\ dirty_list' = RemoveNode(dirty_list, s)
                 /\ free_dirty_list' = AddToHead(free_dirty_list, s)
            ELSE UNCHANGED <<dpage_cnt, hash, dirty_list, free_dirty_list>>
  /\ pending' = [pending EXCEPT ![io.page] = {}]
  /\ Complete(io)
  /\ UNCHANGED <<page, bm_mask, clean_list, free_clean_list, destage_cnt, phase, have>>

FinishDestageWriteFreesHeld(io) ==
  /\ io.kind = "destage_write" /\ MutexFree
  /\ \E s \in lru_find(io.page) :
       /\ IsDirty(s)
       /\ state' = [state EXCEPT ![s] = @ \cup {"UPTODATE"}]
       /\ refs' = [refs EXCEPT ![s] = @ - 1]
       /\ dpage_cnt' = dpage_cnt - 1
       /\ hash' = [hash EXCEPT ![HashOf[page[s]]] = @ \ {s}]
       /\ dirty_list' = RemoveNode(dirty_list, s)
       /\ free_dirty_list' = AddToHead(free_dirty_list, s)
  /\ destage_cnt' = destage_cnt - 1
  /\ pending' = [pending EXCEPT ![io.page] = {}]
  /\ Complete(io)
  /\ UNCHANGED <<page, bm_mask, clean_list, free_clean_list, phase, have>>

(* The page is on disk now.  It leaves the cache unless someone holds it.    *)
lru_finish_destage_write(io) ==
  /\ io.kind = "destage_write" /\ MutexFree
  /\ \E s \in lru_find(io.page) :
       /\ IsDirty(s)
       /\ state' = [state EXCEPT ![s] = @ \cup {"UPTODATE"}]
       /\ refs' = [refs EXCEPT ![s] = @ - 1]
       /\ IF refs[s] = 1
            THEN /\ dpage_cnt' = dpage_cnt - 1
                 /\ hash' = [hash EXCEPT ![HashOf[page[s]]] = @ \ {s}]
                 /\ dirty_list' = RemoveNode(dirty_list, s)
                 /\ free_dirty_list' = AddToHead(free_dirty_list, s)
            ELSE UNCHANGED <<dpage_cnt, hash, dirty_list, free_dirty_list>>
  /\ destage_cnt' = destage_cnt - 1
  /\ pending' = [pending EXCEPT ![io.page] = {}]
  /\ Complete(io)
  /\ UNCHANGED <<page, bm_mask, clean_list, free_clean_list, phase, have>>

Callback(io) ==
  lru_finish_read(io) \/ lru_finish_destage_read(io) \/ lru_finish_destage_write(io)

-----------------------------------------------------------------------------
(* start_urio: set by the trace at its warm-up line, cleared at its end line *)
(* or by the recovery threads when the spare disk is rebuilt.                *)
StartRecovery ==
  /\ UrioAllowed /\ phase = "warmup"
  /\ \E pl \in Players : player[pl].pc = "idle"
  /\ phase' = "recovering"
  /\ UNCHANGED <<slotVars, listVars, hash, counterVars, player, destager, ios, ghostVars>>

EndRecovery ==
  /\ phase = "recovering"
  /\ phase' = "finished"
  /\ UNCHANGED <<slotVars, listVars, hash, counterVars, player, destager, ios, ghostVars>>

PlayerProceeds(pl) ==
  \/ UptodateSeen(pl)
  \/ CleanPageSeen(pl)
  \/ FreeDirtySeen(pl)
  \/ ExchangeSeen(pl)
  \/ IssueRead(pl)

DestagerProceeds == DestageWanted \/ DestageBudget \/ DestagePick \/ IssueDestage

Next ==
  \/ \E pl \in Players : ReplacePage(pl) \/ PlayerProceeds(pl)
  \/ DestagerProceeds
  \/ \E io \in ios : Callback(io)
  \/ StartRecovery
  \/ EndRecovery

Spec == Init /\ [][Next]_vars

(* Threads that can run do: the timed waits retry on their own, the disks    *)
(* complete what they were given.  Nothing makes the trace go on, or the     *)
(* rebuild end.                                                              *)
Fairness ==
  /\ \A pl \in Players : WF_vars(PlayerProceeds(pl))
  /\ WF_vars(DestagerProceeds)
  /\ \A p \in Pages : WF_vars(\E io \in ios : io.page = p /\ Callback(io))

FairSpec == Spec /\ Fairness

-----------------------------------------------------------------------------
(* Properties.                                                               *)

(* Every variable keeps its type, and a thread that is past the start of a   *)
(* request knows the page and the slot it needs next.                        *)
TypeOK ==
  /\ page \in [Slots -> Pages \cup {NoPage}]
  /\ state \in [Slots -> SUBSET {"DIRTY", "UPTODATE"}]
  /\ refs \in [Slots -> Int]
  /\ bm_mask \in [Slots -> SUBSET Sectors]
  /\ clean_list \in Seq(Slots) /\ dirty_list \in Seq(Slots)
  /\ free_clean_list \in Seq(Slots) /\ free_dirty_list \in Seq(Slots)
  /\ hash \in [Buckets -> SUBSET Slots]
  /\ dpage_cnt \in Int /\ destage_cnt \in Int
  /\ phase \in {"warmup", "recovering", "finished"}
  /\ player \in [Players -> PlayerStates]
  /\ \A pl \in Players :
       /\ player[pl].pc # "idle" => player[pl].page \in Pages
       /\ player[pl].pc \in {"wait_uptodate", "issue"} => player[pl].slot \in Slots
  /\ destager \in DestagerStates
  /\ destager.pc = "issue" => destager.slot \in Slots
  /\ ios \subseteq IoRecords
  /\ pending \in [Pages -> SUBSET Sectors]
  /\ have \in [Slots -> SUBSET Sectors]

Clean == Elements(clean_list)
Dirty == Elements(dirty_list)
Cached == Clean \cup Dirty
Free == Elements(free_clean_list) \cup Elements(free_dirty_list)

(* The four lists share out the slots: none is lost, on two lists, or twice  *)
(* on one (init_lru puts each on one list; every move is a remove and an add *)
(* in one critical section).                                                 *)
ListsPartitionSlots ==
  /\ Cached \cup Free = Slots
  /\ Clean \cap Dirty = {}
  /\ Elements(free_clean_list) \cap Elements(free_dirty_list) = {}
  /\ Cached \cap Free = {}
  /\ NoDuplicates(clean_list) /\ NoDuplicates(dirty_list)
  /\ NoDuplicates(free_clean_list) /\ NoDuplicates(free_dirty_list)

(* The hash table and the lists tell the same story: a slot is chained       *)
(* exactly when it is on the clean or the dirty list, in the bucket of its   *)
(* page, on the dirty list exactly when its DIRTY bit is set, and no page    *)
(* has two slots, whatever waits happened between a miss and the insertion.  *)
HashMatchesLists ==
  /\ \A s \in Slots, b \in Buckets :
       s \in hash[b] <=> s \in Cached /\ b = HashOf[page[s]]
  /\ \A s \in Cached : page[s] \in Pages /\ (IsDirty(s) <=> s \in Dirty)
  /\ \A s, t \in Cached : page[s] = page[t] => s = t

(* Who works on the page of slot s: a player about to issue its read, the    *)
(* destage thread about to issue, the I/Os whose callback will look the page *)
(* up.  Who uses it: those, and the players that wait for it.                *)
Work(s) ==
  {<<"player", pl>> : pl \in {x \in Players : player[x].pc = "issue" /\ player[x].slot = s}}
    \cup {<<"destager", d>> : d \in {x \in {Destager} : destager.pc = "issue" /\ destager.slot = s}}
    \cup {<<"io", io>> : io \in {x \in ios : s \in Cached /\ x.page = page[s]}}
Waiters(s) ==
  {<<"player", pl>> : pl \in {x \in Players : player[x].pc = "wait_uptodate" /\ player[x].slot = s}}
Users(s) == Work(s) \cup Waiters(s)

(* The reference count of a page is the number of its users, so it is        *)
(* neither recycled under a user nor kept for ever after the last one.       *)
RefsCountUsers == \A s \in Slots : refs[s] = Cardinality(Users(s))

(* A cached page is not up to date exactly while one page I/O is being       *)
(* issued or outstanding for it, and there is never a second one.            *)
OneIoPerPage ==
  \A s \in Cached :
    /\ IsUptodate(s) <=> Work(s) = {}
    /\ \A x, y \in Work(s) : x = y

(* A callback finds the page it was issued for, dirty if it was destaged:    *)
(* the "lru bug" branches are dead.                                          *)
CallbackFindsPage ==
  \A io \in ios : \E s \in lru_find(io.page) : io.kind # "read" => IsDirty(s)

(* Dirty and free dirty pages stay dpages in number, but for the pages that  *)
(* players blocked in the exchange still owe; dpage_cnt counts the dirty.    *)
DirtyBudget ==
  /\ dpage_cnt = Len(dirty_list)
  /\ Len(dirty_list) + Len(free_dirty_list)
       = DPages + Cardinality({pl \in Players : player[pl].pc = "wait_exchange"})

(* destage_cnt is the number of destage I/Os under way, within raid_disks    *)
(* although the thread tests it before it takes the mutex.                   *)
DestageIos ==
  {<<"destager", d>> : d \in {x \in {Destager} : destager.pc = "issue"}}
    \cup {<<"io", io>> : io \in {x \in ios : x.kind # "read"}}
DestageBounded == destage_cnt = Cardinality(DestageIos) /\ destage_cnt <= RaidDisks

(* Nothing the user wrote is dropped: sectors not yet on disk are marked in  *)
(* the bitmap of a cached dirty page.                                        *)
NoLostWrite ==
  \A p \in Pages : pending[p] # {} =>
    \E s \in lru_find(p) : s \in Dirty /\ pending[p] \subseteq bm_mask[s]

(* What the threads hold between two critical sections is still cached and   *)
(* still theirs when they come back: what makes the parts above inductive.   *)
ThreadsHold ==
  /\ \A pl \in Players :
       /\ player[pl].pc \in {"wait_uptodate", "issue"} =>
            player[pl].slot \in Cached /\ page[player[pl].slot] = player[pl].page
       /\ player[pl].pc = "wait_exchange" => player[pl].slot = NoSlot
  /\ destager.pc = "issue" => destager.slot \in Dirty
  /\ destager.pc \in {"lock", "spin"} => destage_cnt < RaidDisks
  /\ \A io \in ios : io.by \in Players => player[io.by].pc = "callback"
  /\ \A io \in ios : io.by = Destager => destager.pc = "callback"
  /\ \A i, j \in ios : i.by = j.by /\ i.by # Disk => i = j

(* The cache seen page by page: what a page holds and what is done with it.  *)
StatusOf(p) ==
  IF lru_find(p) = {} THEN "absent"
  ELSE IF \E s \in lru_find(p) : IsDirty(s) THEN "dirty" ELSE "clean"

IoOf(p) ==
  IF \A s \in lru_find(p) : IsUptodate(s) THEN "none"
  ELSE IF \/ \E i \in ios : i.page = p /\ i.kind = "destage_write"
          \/ destager.pc = "issue" /\ destager.full /\ page[destager.slot] = p
         THEN "write"
         ELSE "read"

(* All the critical sections together keep what a write-back cache promises. *)
Promise ==
  INSTANCE WriteBackCache
    WITH status <- [p \in Pages |-> StatusOf(p)],
         io <- [p \in Pages |-> IoOf(p)],
         unsaved <- pending,
         Capacity <- Cardinality(Slots)

KeepsPromise == Promise!Spec

(* A bit of the bitmap of a dirty page denotes a sector the cache holds, so  *)
(* a read the bitmap covers finds "all requested data ... in the cache"      *)
(* (lru.c:399).                                                              *)
BitmapHeld == \A s \in Dirty : IsUptodate(s) => bm_mask[s] \subseteq have[s]

(* A request that reached the cache is answered, unless the destage thread   *)
(* is caught in its candidate loop with the mutex held.                      *)
RequestsAnswered ==
  \A pl \in Players :
    player[pl].pc # "idle" ~> (player[pl].pc = "idle" \/ ~MutexFree)

(* The destage thread without a candidate gets one in the end ("we should    *)
(* wait for a signal", lru.c:955).                                           *)
CandidateLoopEnds == destager.pc = "spin" ~> destager.pc # "spin"

=============================================================================
