--------------------------- MODULE LruCacheProofs ---------------------------
(***************************************************************************)
(* Proofs about the LRU cache (module LruCache), for any number of         *)
(* players, slots, pages, buckets and sectors.                             *)
(*                                                                         *)
(* TypeOK alone is not inductive: the destage thread submits the page      *)
(* number of a slot it took from the dirty list, so that a slot on a list, *)
(* or held by a thread, has the number of a page has to be carried along.  *)
(***************************************************************************)
EXTENDS LruCache, DlListProofs, FiniteSetTheorems, TLAPS

DataOK ==
  /\ page \in [Slots -> Pages \cup {NoPage}]
  /\ state \in [Slots -> SUBSET {"DIRTY", "UPTODATE"}]
  /\ refs \in [Slots -> Int]
  /\ bm_mask \in [Slots -> SUBSET Sectors]
  /\ clean_list \in Seq(Slots) /\ dirty_list \in Seq(Slots)
  /\ free_clean_list \in Seq(Slots) /\ free_dirty_list \in Seq(Slots)
  /\ hash \in [Buckets -> SUBSET Slots]
  /\ dpage_cnt \in Int /\ destage_cnt \in Int
  /\ pending \in [Pages -> SUBSET Sectors]
  /\ have \in [Slots -> SUBSET Sectors]

ListedHavePages == \A s \in Cached : page[s] \in Pages

(* Where a player may be with the request q. *)
MayBeAt(q, pg) ==
  /\ q \in PlayerStates
  /\ q.pc # "idle" => q.page \in Pages
  /\ q.pc \in {"wait_uptodate", "issue"} => q.slot \in Slots /\ pg[q.slot] \in Pages

PlayersOK ==
  player \in [Players -> PlayerStates] /\ \A pl \in Players : MayBeAt(player[pl], page)

DestagerOK ==
  /\ destager \in DestagerStates
  /\ destager.pc = "issue" => destager.slot \in Slots /\ page[destager.slot] \in Pages

EnvironmentOK == phase \in {"warmup", "recovering", "finished"} /\ ios \subseteq IoRecords

TypeInv == DataOK /\ ListedHavePages /\ PlayersOK /\ DestagerOK /\ EnvironmentOK

(* Slots never lose their page numbers.                                      *)
PagesKept == \A s \in Slots : page[s] \in Pages => page'[s] \in Pages

-----------------------------------------------------------------------------
(* Lists.                                                                    *)

(* A scan returns elements of the list it scans.                             *)
LEMMA ScanType ==
  ASSUME NEW S, NEW list \in Seq(S), NEW s \in LastIdle(list)
  PROVE  s \in S /\ s \in Elements(list)
<1>1. PICK i \in Examined(list) : s = list[i]
  BY DEF LastIdle
<1>2. i \in 1..Len(list)
  BY <1>1 DEF Examined
<1> QED BY <1>1, <1>2 DEF Elements

-----------------------------------------------------------------------------
(* Any idle page will do.  The proofs about the cache use of the page that a *)
(* scan chooses only that it is on the list and idle, so they are about a    *)
(* cache that may take any such page, or go on waiting.  LruCache is one     *)
(* (AnyPageSpec below), and so is the ALRU cache, on the same variables.     *)

IdleOn(list) == {s \in Elements(list) : Idle(s)}

AnyReadMiss(pl, r) ==
  \/ TakeFreeClean(pl, r)
  \/ \E s \in IdleOn(clean_list) : Evict(pl, r, s)
  \/ /\ Suspend(pl, r, "wait_clean")
     /\ UNCHANGED <<slotVars, listVars, hash, counterVars, ghostVars>>

AnyReplacePage(pl) ==
  /\ player[pl].pc = "idle"
  /\ \E p \in Pages, rw \in {"read", "write"}, mask \in Masks :
       LET r == [pc |-> "idle", page |-> p, rw |-> rw, mask |-> mask, slot |-> NoSlot]
       IN  \/ \E s \in lru_find(p) : Hit(pl, [r EXCEPT !.slot = s])
           \/ lru_find(p) = {} /\ rw = "read" /\ AnyReadMiss(pl, r)
           \/ lru_find(p) = {} /\ rw = "write" /\ WriteMiss(pl, r)
  /\ UNCHANGED <<phase, destager, ios>>

AnyUptodateSeen(pl) ==
  /\ player[pl].pc = "wait_uptodate"
  /\ IsUptodate(player[pl].slot)
  /\ Serve(pl, player[pl], refs)
  /\ UNCHANGED <<phase, destager, ios>>

AnyCleanPageSeen(pl) ==
  LET r == player[pl] IN
  /\ r.pc = "wait_clean"
  /\ \/ lru_find(r.page) = {} /\ \E s \in IdleOn(clean_list) : Evict(pl, r, s)
     \/ \E s \in lru_find(r.page) : Hit(pl, [r EXCEPT !.slot = s])
  /\ UNCHANGED <<phase, destager, ios>>

AnyFreeDirtySeen(pl) ==
  LET r == player[pl] IN
  /\ r.pc = "wait_free_dirty"
  /\ \/ lru_find(r.page) = {} /\ InsertDirty(pl, r)
     \/ \E s \in lru_find(r.page) : Hit(pl, [r EXCEPT !.slot = s])
  /\ UNCHANGED <<phase, destager, ios>>

AnyPlayerProceeds(pl) ==
  \/ AnyUptodateSeen(pl)
  \/ AnyCleanPageSeen(pl)
  \/ AnyFreeDirtySeen(pl)
  \/ ExchangeSeen(pl)
  \/ IssueRead(pl)

AnyDestagePick ==
  /\ destager.pc \in {"lock", "spin"}
  /\ \/ \E s \in IdleOn(dirty_list) :
          /\ state' = [state EXCEPT ![s] = @ \ {"UPTODATE"}]
          /\ refs' = [refs EXCEPT ![s] = @ + 1]
          /\ destage_cnt' = destage_cnt + 1
          /\ destager' = [pc |-> "issue", slot |-> s, full |-> bm_mask[s] = Sectors]
     \/ /\ destager' = [destager EXCEPT !.pc = "spin"]
        /\ UNCHANGED <<state, refs, destage_cnt>>
  /\ UNCHANGED <<page, bm_mask, listVars, hash, dpage_cnt, phase, player, ios,
                 ghostVars>>

AnyDestagerProceeds == DestageWanted \/ DestageBudget \/ AnyDestagePick \/ IssueDestage

AnyPageNext ==
  \/ \E pl \in Players : AnyReplacePage(pl) \/ AnyPlayerProceeds(pl)
  \/ AnyDestagerProceeds
  \/ \E io \in ios : Callback(io)
  \/ StartRecovery
  \/ EndRecovery

AnyPageSpec == Init /\ [][AnyPageNext]_vars

LEMMA IdleOnType ==
  ASSUME NEW S, NEW list \in Seq(S), NEW s \in IdleOn(list)
  PROVE  s \in S /\ s \in Elements(list) /\ Idle(s)
BY DEF IdleOn, Elements

-----------------------------------------------------------------------------
(* Players.                                                                  *)

(* A player that moves to a legal place leaves the players in legal places.  *)
LEMMA PlayerMoves ==
  ASSUME PlayersOK, PagesKept, NEW pl \in Players, NEW q,
         player' = [player EXCEPT ![pl] = q], MayBeAt(q, page')
  PROVE  PlayersOK'
<1>1. player' \in [Players -> PlayerStates]
  BY DEF PlayersOK, MayBeAt
<1>2. ASSUME NEW x \in Players PROVE MayBeAt(player'[x], page')
  <2>1. CASE x = pl
    BY <2>1 DEF PlayersOK
  <2>2. CASE x # pl
    <3>1. player'[x] = player[x]
      BY <2>2 DEF PlayersOK
    <3> QED BY <3>1 DEF PlayersOK, MayBeAt, PagesKept
  <2> QED BY <2>1, <2>2
<1> QED BY <1>1, <1>2 DEF PlayersOK

(* So does one that returns, and the players that stay where they are.       *)
LEMMA PlayerReturns ==
  ASSUME PlayersOK, PagesKept, NEW pl \in Players, Return(pl)
  PROVE  PlayersOK'
<1>1. MayBeAt(IdlePlayer, page')
  BY DEF MayBeAt, IdlePlayer, PlayerStates, PlayerPcs
<1> QED BY <1>1, PlayerMoves DEF Return

(* A player that is suspended in the middle of a request.                    *)
LEMMA PlayerWaits ==
  ASSUME PlayersOK, PagesKept, NEW pl \in Players, NEW r \in PlayerStates,
         NEW where \in PlayerPcs, Suspend(pl, r, where), r.page \in Pages,
         where \in {"wait_uptodate", "issue"} => r.slot \in Slots /\ page'[r.slot] \in Pages
  PROVE  PlayersOK'
<1> DEFINE q == [r EXCEPT !.pc = where]
<1>1. q \in PlayerStates /\ q.pc = where /\ q.page = r.page /\ q.slot = r.slot
  BY DEF PlayerStates
<1>2. MayBeAt(q, page')
  <2> HIDE DEF q
  <2> QED BY <1>1 DEF MayBeAt
<1> QED BY <1>2, PlayerMoves DEF Suspend

(* Serving a request keeps everything in its type.                           *)
LEMMA ServeType ==
  ASSUME DataOK, ListedHavePages, PlayersOK,
         NEW pl \in Players, NEW r \in PlayerStates, r.page \in Pages,
         r.slot \in Slots, page[r.slot] \in Pages,
         NEW held \in [Slots -> Int], Serve(pl, r, held)
  PROVE  DataOK' /\ ListedHavePages' /\ PlayersOK' /\ page' = page
<1>1. page' = page
  BY DEF Serve, ReadClean, ReadDirtyHit, ReadDirtyMiss, WriteDirty, WriteClean
<1>2. PagesKept
  BY <1>1 DEF PagesKept
<1>3. r.mask \in SUBSET Sectors
  BY DEF PlayerStates
<1>4. /\ MoveToHead(clean_list, r.slot) \in Seq(Slots)
      /\ Elements(MoveToHead(clean_list, r.slot)) \subseteq Elements(clean_list) \cup {r.slot}
      /\ MoveToHead(dirty_list, r.slot) \in Seq(Slots)
      /\ Elements(MoveToHead(dirty_list, r.slot)) \subseteq Elements(dirty_list) \cup {r.slot}
  <2>1. clean_list \in Seq(Slots) /\ dirty_list \in Seq(Slots)
    BY DEF DataOK
  <2>2. /\ MoveToHead(clean_list, r.slot) \in Seq(Slots)
        /\ Elements(MoveToHead(clean_list, r.slot)) \subseteq Elements(clean_list) \cup {r.slot}
    BY <2>1, MoveToHeadType, Zenon
  <2>3. /\ MoveToHead(dirty_list, r.slot) \in Seq(Slots)
        /\ Elements(MoveToHead(dirty_list, r.slot)) \subseteq Elements(dirty_list) \cup {r.slot}
    BY <2>1, MoveToHeadType, Zenon
  <2> QED BY <2>2, <2>3
<1>5. CASE ReadClean(pl, r, held)
  <2>1. DataOK'
    <3>1. refs' \in [Slots -> Int]
      BY <1>5 DEF ReadClean, Release
    <3>2. clean_list' \in Seq(Slots)
      BY <1>4, <1>5 DEF ReadClean
    <3>3. UNCHANGED <<page, state, bm_mask, dirty_list, free_clean_list, free_dirty_list,
                      hash, dpage_cnt, destage_cnt, pending, have>>
      BY <1>5 DEF ReadClean, counterVars, ghostVars
    <3> QED BY <3>1, <3>2, <3>3 DEF DataOK
  <2>2. ListedHavePages'
    BY <1>1, <1>4, <1>5 DEF ReadClean, ListedHavePages, Cached, Clean, Dirty
  <2>3. PlayersOK'
    BY <1>2, <1>5, PlayerReturns DEF ReadClean
  <2> QED BY <1>1, <2>1, <2>2, <2>3
<1>6. CASE ReadDirtyHit(pl, r, held)
  <2>1. DataOK'
    <3>1. refs' \in [Slots -> Int]
      BY <1>6 DEF ReadDirtyHit, Release
    <3>2. dirty_list' \in Seq(Slots)
      BY <1>4, <1>6 DEF ReadDirtyHit
    <3>3. UNCHANGED <<page, state, bm_mask, clean_list, free_clean_list, free_dirty_list,
                      hash, dpage_cnt, destage_cnt, pending, have>>
      BY <1>6 DEF ReadDirtyHit, counterVars, ghostVars
    <3> QED BY <3>1, <3>2, <3>3 DEF DataOK
  <2>2. ListedHavePages'
    BY <1>1, <1>4, <1>6 DEF ReadDirtyHit, ListedHavePages, Cached, Clean, Dirty
  <2>3. PlayersOK'
    BY <1>2, <1>6, PlayerReturns DEF ReadDirtyHit
  <2> QED BY <1>1, <2>1, <2>2, <2>3
<1>7. CASE ReadDirtyMiss(pl, r, held)
  <2>1. DataOK'
    <3>1. state' \in [Slots -> SUBSET {"DIRTY", "UPTODATE"}] /\ refs' \in [Slots -> Int]
      BY <1>7 DEF ReadDirtyMiss, DataOK
    <3>2. dirty_list' \in Seq(Slots)
      BY <1>4, <1>7 DEF ReadDirtyMiss
    <3>3. UNCHANGED <<page, bm_mask, clean_list, free_clean_list, free_dirty_list,
                      hash, dpage_cnt, destage_cnt, pending, have>>
      BY <1>7 DEF ReadDirtyMiss, counterVars, ghostVars
    <3> QED BY <3>1, <3>2, <3>3 DEF DataOK
  <2>2. ListedHavePages'
    BY <1>1, <1>4, <1>7 DEF ReadDirtyMiss, ListedHavePages, Cached, Clean, Dirty
  <2>3. PlayersOK'
    BY <1>1, <1>2, <1>7, PlayerWaits DEF ReadDirtyMiss, PlayerPcs
  <2> QED BY <1>1, <2>1, <2>2, <2>3
<1>8. CASE WriteDirty(pl, r, held)
  <2>1. DataOK'
    <3>1. bm_mask' \in [Slots -> SUBSET Sectors]
      BY <1>3, <1>8 DEF WriteDirty, DataOK
    <3>2. pending' \in [Pages -> SUBSET Sectors]
      BY <1>3, <1>8 DEF WriteDirty, DataOK, UserWrote
    <3>3. have' \in [Slots -> SUBSET Sectors]
      BY <1>3, <1>8 DEF WriteDirty, DataOK
    <3>4. refs' \in [Slots -> Int]
      BY <1>8 DEF WriteDirty, Release
    <3>5. dirty_list' \in Seq(Slots)
      BY <1>4, <1>8 DEF WriteDirty
    <3>6. UNCHANGED <<page, state, clean_list, free_clean_list, free_dirty_list,
                      hash, dpage_cnt, destage_cnt>>
      BY <1>8 DEF WriteDirty, counterVars
    <3> QED BY <3>1, <3>2, <3>3, <3>4, <3>5, <3>6 DEF DataOK
  <2>2. ListedHavePages'
    BY <1>1, <1>4, <1>8 DEF WriteDirty, ListedHavePages, Cached, Clean, Dirty
  <2>3. PlayersOK'
    BY <1>2, <1>8, PlayerReturns DEF WriteDirty
  <2> QED BY <1>1, <2>1, <2>2, <2>3
<1>9. CASE WriteClean(pl, r, held)
  <2>1. /\ clean_list' \in Seq(Slots) /\ Elements(clean_list') \subseteq Elements(clean_list)
        /\ dirty_list' \in Seq(Slots)
        /\ Elements(dirty_list') \subseteq Elements(dirty_list) \cup {r.slot}
    BY <1>9, RemoveNodeType, AddToHeadType DEF WriteClean, DataOK
  <2>2. free_clean_list' \in Seq(Slots) /\ free_dirty_list' \in Seq(Slots)
    <3>1. CASE ExchangeFreePage
      BY <3>1, HeadType, RemoveNodeType, AddToHeadType DEF ExchangeFreePage, DataOK
    <3>2. CASE UNCHANGED <<free_clean_list, free_dirty_list>>
      BY <3>2 DEF DataOK
    <3> QED BY <1>9, <3>1, <3>2 DEF WriteClean
  <2>3. DataOK'
    <3>1. bm_mask' \in [Slots -> SUBSET Sectors] /\ state' \in [Slots -> SUBSET {"DIRTY", "UPTODATE"}]
      BY <1>9 DEF WriteClean, DataOK
    <3>2. pending' \in [Pages -> SUBSET Sectors]
      BY <1>3, <1>9 DEF WriteClean, DataOK, UserWrote
    <3>3. refs' \in [Slots -> Int]
      BY <1>9 DEF WriteClean, Release
    <3>4. UNCHANGED <<page, hash, destage_cnt, have>> /\ dpage_cnt' = dpage_cnt + 1
      BY <1>9 DEF WriteClean
    <3> QED BY <2>1, <2>2, <3>1, <3>2, <3>3, <3>4 DEF DataOK
  <2>4. ListedHavePages'
    BY <1>1, <2>1 DEF ListedHavePages, Cached, Clean, Dirty
  <2>5. PlayersOK'
    <3>1. CASE Return(pl)
      BY <1>2, <3>1, PlayerReturns
    <3>2. CASE Suspend(pl, [r EXCEPT !.slot = NoSlot], "wait_exchange")
      <4>1. [r EXCEPT !.slot = NoSlot] \in PlayerStates
            /\ [r EXCEPT !.slot = NoSlot].page = r.page
        BY DEF PlayerStates
      <4> QED BY <1>2, <3>2, <4>1, PlayerWaits DEF PlayerPcs
    <3> QED BY <1>9, <3>1, <3>2 DEF WriteClean
  <2> QED BY <1>1, <2>3, <2>4, <2>5
<1> QED BY <1>5, <1>6, <1>7, <1>8, <1>9 DEF Serve

(* A hit: the request is served or waits for the page's I/O.                 *)
LEMMA HitType ==
  ASSUME DataOK, ListedHavePages, PlayersOK,
         NEW pl \in Players, NEW r \in PlayerStates, r.page \in Pages,
         r.slot \in Slots, page[r.slot] \in Pages, Hit(pl, r)
  PROVE  DataOK' /\ ListedHavePages' /\ PlayersOK' /\ page' = page
<1> DEFINE held == [refs EXCEPT ![r.slot] = @ + 1]
<1>1. held \in [Slots -> Int]
  BY DEF DataOK
<1>2. CASE Serve(pl, r, held)
  <2> HIDE DEF held
  <2> QED BY <1>1, <1>2, ServeType, Zenon
<1>3. CASE /\ refs' = held
           /\ Suspend(pl, r, "wait_uptodate")
           /\ UNCHANGED <<page, state, bm_mask, listVars, hash, counterVars, ghostVars>>
  <2>1. page' = page
    BY <1>3
  <2>2. DataOK'
    <3> HIDE DEF held
    <3> QED BY <1>1, <1>3 DEF DataOK, listVars, counterVars, ghostVars
  <2>3. ListedHavePages'
    BY <1>3 DEF ListedHavePages, Cached, Clean, Dirty, listVars
  <2>4. PlayersOK'
    BY <1>3, <2>1, PlayerWaits DEF PagesKept, PlayerPcs
  <2> QED BY <2>1, <2>2, <2>3, <2>4
<1> QED BY <1>2, <1>3 DEF Hit

(* A slot that a read miss takes becomes the buffer of the wanted page.      *)
LEMMA InstallType ==
  ASSUME DataOK, PlayersOK, NEW pl \in Players, NEW r \in PlayerStates,
         r.page \in Pages, NEW s \in Slots, Install(pl, r, s)
  PROVE  /\ page' \in [Slots -> Pages \cup {NoPage}] /\ page'[s] \in Pages /\ PagesKept
         /\ state' \in [Slots -> SUBSET {"DIRTY", "UPTODATE"}]
         /\ refs' \in [Slots -> Int]
         /\ bm_mask' \in [Slots -> SUBSET Sectors] /\ have' \in [Slots -> SUBSET Sectors]
         /\ PlayersOK'
<1>1. page' \in [Slots -> Pages \cup {NoPage}] /\ page'[s] = r.page
  BY DEF Install, DataOK
<1>2. PagesKept
  BY DEF Install, DataOK, PagesKept
<1>3. state' \in [Slots -> SUBSET {"DIRTY", "UPTODATE"}] /\ refs' \in [Slots -> Int]
  BY DEF Install, DataOK
<1>4. bm_mask' \in [Slots -> SUBSET Sectors] /\ have' \in [Slots -> SUBSET Sectors]
  BY DEF Install, DataOK
<1>5. PlayersOK'
  <2> DEFINE q == [r EXCEPT !.slot = s]
  <2>1. q \in PlayerStates /\ q.page = r.page /\ q.slot = s
    BY DEF PlayerStates
  <2>2. Suspend(pl, q, "issue")
    BY DEF Install
  <2> HIDE DEF q
  <2> QED BY <1>1, <1>2, <2>1, <2>2, PlayerWaits DEF PlayerPcs
<1> QED BY <1>1, <1>2, <1>3, <1>4, <1>5

(* A read miss that finds a clean page to evict.                             *)
LEMMA EvictType ==
  ASSUME DataOK, ListedHavePages, PlayersOK, NEW pl \in Players,
         NEW r \in PlayerStates, r.page \in Pages,
         NEW s \in IdleOn(clean_list), Evict(pl, r, s)
  PROVE  DataOK' /\ ListedHavePages' /\ PlayersOK' /\ PagesKept
<1>1. s \in Slots /\ s \in Elements(clean_list)
  BY IdleOnType DEF DataOK
<1>2. Install(pl, r, s)
  BY DEF Evict
<1>3. /\ page' \in [Slots -> Pages \cup {NoPage}] /\ page'[s] \in Pages /\ PagesKept
      /\ state' \in [Slots -> SUBSET {"DIRTY", "UPTODATE"}]
      /\ refs' \in [Slots -> Int]
      /\ bm_mask' \in [Slots -> SUBSET Sectors] /\ have' \in [Slots -> SUBSET Sectors]
      /\ PlayersOK'
  BY <1>1, <1>2, InstallType
<1>4. clean_list' \in Seq(Slots) /\ Elements(clean_list') \subseteq Elements(clean_list) \cup {s}
  BY <1>1, MoveToHeadType DEF Evict, DataOK
<1>5. hash' \in [Buckets -> SUBSET Slots]
  BY <1>1 DEF Evict, DataOK
<1>6. DataOK'
  BY <1>3, <1>4, <1>5 DEF Evict, DataOK, counterVars
<1>7. ListedHavePages'
  <2>1. Cached' \subseteq Cached
    BY <1>1, <1>4 DEF Evict, Cached, Clean, Dirty
  <2>2. Cached \subseteq Slots
    BY DEF Cached, Clean, Dirty, DataOK, Elements
  <2> QED BY <1>3, <2>1, <2>2 DEF ListedHavePages, PagesKept
<1> QED BY <1>3, <1>6, <1>7

(* A read miss that finds a free clean page.                                 *)
LEMMA TakeFreeCleanType ==
  ASSUME DataOK, ListedHavePages, PlayersOK, NEW pl \in Players,
         NEW r \in PlayerStates, r.page \in Pages, TakeFreeClean(pl, r)
  PROVE  DataOK' /\ ListedHavePages' /\ PlayersOK' /\ PagesKept
<1> DEFINE s == free_clean_list[1]
<1>1. s \in Slots
  BY HeadType DEF TakeFreeClean, DataOK
<1>2. Install(pl, r, s)
  BY DEF TakeFreeClean
<1>3. /\ clean_list' = AddToHead(clean_list, s)
      /\ free_clean_list' = RemoveNode(free_clean_list, s)
      /\ hash' = [hash EXCEPT ![HashOf[r.page]] = @ \cup {s}]
      /\ UNCHANGED <<dirty_list, free_dirty_list, counterVars, pending>>
  BY DEF TakeFreeClean
<1> HIDE DEF s
<1>4. /\ page' \in [Slots -> Pages \cup {NoPage}] /\ page'[s] \in Pages /\ PagesKept
      /\ state' \in [Slots -> SUBSET {"DIRTY", "UPTODATE"}]
      /\ refs' \in [Slots -> Int]
      /\ bm_mask' \in [Slots -> SUBSET Sectors] /\ have' \in [Slots -> SUBSET Sectors]
      /\ PlayersOK'
  BY <1>1, <1>2, InstallType
<1>5. clean_list' \in Seq(Slots) /\ Elements(clean_list') \subseteq Elements(clean_list) \cup {s}
  BY <1>1, <1>3, AddToHeadType DEF DataOK
<1>6. free_clean_list' \in Seq(Slots)
  BY <1>3, RemoveNodeType DEF DataOK
<1>7. hash' \in [Buckets -> SUBSET Slots]
  BY <1>1, <1>3 DEF DataOK
<1>8. DataOK'
  BY <1>3, <1>4, <1>5, <1>6, <1>7 DEF DataOK, counterVars
<1>9. ListedHavePages'
  <2>1. Cached' \subseteq Cached \cup {s}
    BY <1>3, <1>5 DEF Cached, Clean, Dirty
  <2>2. Cached \subseteq Slots
    BY DEF Cached, Clean, Dirty, DataOK, Elements
  <2> QED BY <1>4, <2>1, <2>2 DEF ListedHavePages, PagesKept
<1> QED BY <1>4, <1>8, <1>9

(* A write miss that finds a free dirty page.                                *)
LEMMA InsertDirtyType ==
  ASSUME DataOK, ListedHavePages, PlayersOK, NEW pl \in Players,
         NEW r \in PlayerStates, r.page \in Pages, InsertDirty(pl, r)
  PROVE  DataOK' /\ ListedHavePages' /\ PlayersOK' /\ PagesKept
<1> DEFINE s == free_dirty_list[1]
<1>1. s \in Slots
  BY HeadType DEF InsertDirty, DataOK
<1>2. /\ dirty_list' = AddToHead(dirty_list, s)
      /\ free_dirty_list' = RemoveNode(free_dirty_list, s)
      /\ hash' = [hash EXCEPT ![HashOf[r.page]] = @ \cup {s}]
      /\ page' = [page EXCEPT ![s] = r.page]
      /\ bm_mask' = [bm_mask EXCEPT ![s] = @ \cup r.mask]
      /\ state' = [state EXCEPT ![s] = {"UPTODATE", "DIRTY"}]
      /\ have' = [have EXCEPT ![s] = r.mask]
      /\ dpage_cnt' = dpage_cnt + 1
      /\ UserWrote(r.page, r.mask)
      /\ Return(pl)
      /\ UNCHANGED <<refs, clean_list, free_clean_list, destage_cnt>>
  BY DEF InsertDirty
<1> HIDE DEF s
<1>3. r.mask \in SUBSET Sectors
  BY DEF PlayerStates
<1>4. page' \in [Slots -> Pages \cup {NoPage}] /\ page'[s] \in Pages /\ PagesKept
  BY <1>1, <1>2 DEF DataOK, PagesKept
<1>5. dirty_list' \in Seq(Slots) /\ Elements(dirty_list') \subseteq Elements(dirty_list) \cup {s}
  BY <1>1, <1>2, AddToHeadType DEF DataOK
<1>6. free_dirty_list' \in Seq(Slots)
  BY <1>2, RemoveNodeType DEF DataOK
<1>7. hash' \in [Buckets -> SUBSET Slots]
  BY <1>1, <1>2 DEF DataOK
<1>8. DataOK'
  <2>1. bm_mask' \in [Slots -> SUBSET Sectors]
    BY <1>2, <1>3 DEF DataOK
  <2>2. have' \in [Slots -> SUBSET Sectors]
    BY <1>2, <1>3 DEF DataOK
  <2>3. pending' \in [Pages -> SUBSET Sectors]
    BY <1>2, <1>3 DEF DataOK, UserWrote
  <2>4. state' \in [Slots -> SUBSET {"DIRTY", "UPTODATE"}]
    BY <1>2 DEF DataOK
  <2> QED BY <1>2, <1>4, <1>5, <1>6, <1>7, <2>1, <2>2, <2>3, <2>4 DEF DataOK
<1>9. ListedHavePages'
  <2>1. Cached' \subseteq Cached \cup {s}
    BY <1>2, <1>5 DEF Cached, Clean, Dirty
  <2>2. Cached \subseteq Slots
    BY DEF Cached, Clean, Dirty, DataOK, Elements
  <2> QED BY <1>4, <2>1, <2>2 DEF ListedHavePages, PagesKept
<1>10. PlayersOK'
  BY <1>2, <1>4, PlayerReturns
<1> QED BY <1>4, <1>8, <1>9, <1>10

(* A page that lru_find finds is a slot with the number it was asked for.    *)
LEMMA FindType ==
  ASSUME DataOK, NEW p \in Pages, NEW s \in lru_find(p)
  PROVE  s \in Slots /\ page[s] = p
BY PagesAssumption DEF DataOK, lru_find

(* The request of a player that found its page names that page's slot.       *)
LEMMA FoundRequest ==
  ASSUME DataOK, NEW r \in PlayerStates, r.page \in Pages, NEW s \in lru_find(r.page)
  PROVE  LET q == [r EXCEPT !.slot = s]
         IN  /\ q \in PlayerStates /\ q.page \in Pages /\ q.slot \in Slots
             /\ page[q.slot] \in Pages
<1>1. s \in Slots /\ page[s] = r.page
  BY FindType
<1> QED BY <1>1 DEF PlayerStates

(* The sectors of a request are sectors of a page.                           *)
LEMMA MaskType ==
  ASSUME NEW mask \in Masks
  PROVE  mask \in SUBSET Sectors
<1>1. PICK a \in Sectors, b \in Sectors : mask = a..b
  BY DEF Masks
<1>2. NSectors \in Nat
  BY SizesAssumption
<1>3. \A i \in a..b : i \in 1..NSectors
  BY <1>1, <1>2 DEF Sectors
<1> QED BY <1>1, <1>3 DEF Sectors

(* A player's critical section leaves the destage thread, the phase and the  *)
(* I/Os alone.                                                               *)
LEMMA PlayerStep ==
  ASSUME TypeInv, DataOK', ListedHavePages', PlayersOK', PagesKept,
         UNCHANGED <<phase, destager, ios>>
  PROVE  TypeInv'
<1>1. DestagerOK'
  BY DEF TypeInv, DestagerOK, PagesKept
<1>2. EnvironmentOK'
  BY DEF TypeInv, EnvironmentOK
<1> QED BY <1>1, <1>2 DEF TypeInv

(* The whole of a hit on a page that lru_find found.                         *)
LEMMA FoundType ==
  ASSUME TypeInv, NEW pl \in Players, NEW r \in PlayerStates, r.page \in Pages,
         NEW s \in lru_find(r.page), Hit(pl, [r EXCEPT !.slot = s]),
         UNCHANGED <<phase, destager, ios>>
  PROVE  TypeInv'
<1> DEFINE q == [r EXCEPT !.slot = s]
<1>1. /\ q \in PlayerStates /\ q.page \in Pages /\ q.slot \in Slots
      /\ page[q.slot] \in Pages
  BY FoundRequest DEF TypeInv
<1>2. Hit(pl, q)
  OBVIOUS
<1> HIDE DEF q
<1>3. DataOK' /\ ListedHavePages' /\ PlayersOK' /\ page' = page
  BY <1>1, <1>2, HitType DEF TypeInv
<1> QED BY <1>3, PlayerStep DEF PagesKept

-----------------------------------------------------------------------------
(* The steps.                                                                *)

(* A new request.                                                            *)
LEMMA ReplacePageType ==
  ASSUME TypeInv, NEW pl \in Players, AnyReplacePage(pl)
  PROVE  TypeInv'
<1>1. PICK p \in Pages, rw \in {"read", "write"}, mask \in Masks :
        LET r == [pc |-> "idle", page |-> p, rw |-> rw, mask |-> mask, slot |-> NoSlot]
        IN  \/ \E s \in lru_find(p) : Hit(pl, [r EXCEPT !.slot = s])
            \/ lru_find(p) = {} /\ rw = "read" /\ AnyReadMiss(pl, r)
            \/ lru_find(p) = {} /\ rw = "write" /\ WriteMiss(pl, r)
  BY DEF AnyReplacePage
<1>2. UNCHANGED <<phase, destager, ios>>
  BY DEF AnyReplacePage
<1> DEFINE r == [pc |-> "idle", page |-> p, rw |-> rw, mask |-> mask, slot |-> NoSlot]
<1>3. r \in PlayerStates /\ r.page \in Pages /\ r.page = p
  <2>1. mask \in SUBSET Sectors
    BY MaskType
  <2> QED BY <2>1 DEF PlayerStates, PlayerPcs
<1>4. \/ \E s \in lru_find(p) : Hit(pl, [r EXCEPT !.slot = s])
      \/ AnyReadMiss(pl, r)
      \/ WriteMiss(pl, r)
  BY <1>1
<1> HIDE DEF r
<1>5. ASSUME NEW where \in {"wait_clean", "wait_free_dirty"}, Suspend(pl, r, where),
             UNCHANGED <<slotVars, listVars, hash, counterVars, ghostVars>>
      PROVE  TypeInv'
  <2>1. page' = page
    BY <1>5 DEF slotVars
  <2>2. DataOK'
    BY <1>5 DEF TypeInv, DataOK, slotVars, listVars, counterVars, ghostVars
  <2>3. ListedHavePages'
    BY <1>5 DEF TypeInv, ListedHavePages, Cached, Clean, Dirty, slotVars, listVars
  <2>4. PlayersOK'
    BY <1>3, <1>5, <2>1, PlayerWaits DEF TypeInv, PagesKept, PlayerPcs
  <2> QED BY <1>2, <2>1, <2>2, <2>3, <2>4, PlayerStep DEF PagesKept
<1>6. CASE \E s \in lru_find(p) : Hit(pl, [r EXCEPT !.slot = s])
  BY <1>2, <1>3, <1>6, FoundType
<1>7. CASE AnyReadMiss(pl, r)
  <2>1. CASE TakeFreeClean(pl, r)
    BY <1>2, <1>3, <2>1, TakeFreeCleanType, PlayerStep DEF TypeInv
  <2>2. CASE \E s \in IdleOn(clean_list) : Evict(pl, r, s)
    BY <1>2, <1>3, <2>2, EvictType, PlayerStep DEF TypeInv
  <2> QED BY <1>5, <1>7, <2>1, <2>2 DEF AnyReadMiss
<1>8. CASE WriteMiss(pl, r)
  <2>1. CASE InsertDirty(pl, r)
    BY <1>2, <1>3, <2>1, InsertDirtyType, PlayerStep DEF TypeInv
  <2> QED BY <1>5, <1>8, <2>1 DEF WriteMiss
<1> QED BY <1>4, <1>6, <1>7, <1>8

(* The ends of a player's waits, and the issue of its read.                  *)
LEMMA PlayerProceedsType ==
  ASSUME TypeInv, NEW pl \in Players, AnyPlayerProceeds(pl)
  PROVE  TypeInv'
<1> DEFINE r == player[pl]
<1>1. r \in PlayerStates /\ MayBeAt(r, page)
  BY DEF TypeInv, PlayersOK
<1>2. CASE AnyUptodateSeen(pl)
  <2>1. r.page \in Pages /\ r.slot \in Slots /\ page[r.slot] \in Pages
    BY <1>1, <1>2 DEF AnyUptodateSeen, MayBeAt
  <2>2. Serve(pl, r, refs) /\ refs \in [Slots -> Int] /\ UNCHANGED <<phase, destager, ios>>
    BY <1>2 DEF AnyUptodateSeen, TypeInv, DataOK
  <2> HIDE DEF r
  <2>3. DataOK' /\ ListedHavePages' /\ PlayersOK' /\ page' = page
    BY <1>1, <2>1, <2>2, ServeType DEF TypeInv
  <2> QED BY <2>2, <2>3, PlayerStep DEF PagesKept
<1>3. CASE AnyCleanPageSeen(pl)
  <2>1. r.page \in Pages /\ UNCHANGED <<phase, destager, ios>>
    BY <1>1, <1>3 DEF AnyCleanPageSeen, MayBeAt
  <2>2. \/ \E s \in IdleOn(clean_list) : Evict(pl, r, s)
        \/ \E s \in lru_find(r.page) : Hit(pl, [r EXCEPT !.slot = s])
    BY <1>3 DEF AnyCleanPageSeen
  <2> HIDE DEF r
  <2>3. CASE \E s \in IdleOn(clean_list) : Evict(pl, r, s)
    BY <1>1, <2>1, <2>3, EvictType, PlayerStep DEF TypeInv
  <2>4. CASE \E s \in lru_find(r.page) : Hit(pl, [r EXCEPT !.slot = s])
    BY <1>1, <2>1, <2>4, FoundType
  <2> QED BY <2>2, <2>3, <2>4
<1>4. CASE AnyFreeDirtySeen(pl)
  <2>1. r.page \in Pages /\ UNCHANGED <<phase, destager, ios>>
    BY <1>1, <1>4 DEF AnyFreeDirtySeen, MayBeAt
  <2>2. \/ InsertDirty(pl, r)
        \/ \E s \in lru_find(r.page) : Hit(pl, [r EXCEPT !.slot = s])
    BY <1>4 DEF AnyFreeDirtySeen
  <2> HIDE DEF r
  <2>3. CASE InsertDirty(pl, r)
    BY <1>1, <2>1, <2>3, InsertDirtyType, PlayerStep DEF TypeInv
  <2>4. CASE \E s \in lru_find(r.page) : Hit(pl, [r EXCEPT !.slot = s])
    BY <1>1, <2>1, <2>4, FoundType
  <2> QED BY <2>2, <2>3, <2>4
<1>5. CASE ExchangeSeen(pl)
  <2>1. free_clean_list' \in Seq(Slots) /\ free_dirty_list' \in Seq(Slots)
    BY <1>5, HeadType, RemoveNodeType, AddToHeadType
       DEF ExchangeSeen, ExchangeFreePage, TypeInv, DataOK
  <2>2. /\ page' = page /\ Return(pl)
        /\ UNCHANGED <<slotVars, clean_list, dirty_list, hash, counterVars, ghostVars>>
        /\ UNCHANGED <<phase, destager, ios>>
    BY <1>5 DEF ExchangeSeen, slotVars
  <2>3. DataOK'
    BY <2>1, <2>2 DEF TypeInv, DataOK, slotVars, counterVars, ghostVars
  <2>4. ListedHavePages'
    BY <2>2 DEF TypeInv, ListedHavePages, Cached, Clean, Dirty
  <2>5. PlayersOK'
    BY <2>2, PlayerReturns DEF TypeInv, PagesKept
  <2> QED BY <2>2, <2>3, <2>4, <2>5, PlayerStep DEF PagesKept
<1>6. CASE IssueRead(pl)
  <2>1. r.page \in Pages
    BY <1>1, <1>6 DEF IssueRead, MayBeAt
  <2>2. /\ Submit(r.page, "read", pl)
        /\ Return(pl) \/ Suspend(pl, r, "callback")
        /\ UNCHANGED <<slotVars, listVars, hash, counterVars, phase, destager, ghostVars>>
    BY <1>6 DEF IssueRead
  <2> HIDE DEF r
  <2>3. ios' \subseteq IoRecords
    BY <2>1, <2>2 DEF TypeInv, EnvironmentOK, Submit, IoRecords, Kinds
  <2>4. page' = page
    BY <2>2 DEF slotVars
  <2>5. PlayersOK'
    BY <1>1, <2>1, <2>2, <2>4, PlayerReturns, PlayerWaits DEF TypeInv, PagesKept, PlayerPcs
  <2>6. DataOK' /\ ListedHavePages' /\ DestagerOK'
    BY <2>2 DEF TypeInv, DataOK, ListedHavePages, DestagerOK, Cached, Clean, Dirty,
                slotVars, listVars, counterVars, ghostVars
  <2>7. EnvironmentOK'
    BY <2>2, <2>3 DEF TypeInv, EnvironmentOK
  <2> QED BY <2>5, <2>6, <2>7 DEF TypeInv
<1> QED BY <1>2, <1>3, <1>4, <1>5, <1>6 DEF AnyPlayerProceeds

(* Reference counts stay integers.                                           *)
LEMMA RefsType ==
  ASSUME refs \in [Slots -> Int], NEW s \in Slots
  PROVE  [refs EXCEPT ![s] = @ + 1] \in [Slots -> Int] /\ [refs EXCEPT ![s] = @ - 1] \in [Slots -> Int]
<1>1. refs[s] + 1 \in Int /\ refs[s] - 1 \in Int
  OBVIOUS
<1> QED BY <1>1

(* The destage thread.                                                       *)
LEMMA DestagerProceedsType ==
  ASSUME TypeInv, AnyDestagerProceeds
  PROVE  TypeInv'
<1>1. ASSUME UNCHANGED <<slotVars, listVars, hash, counterVars, phase, player, ghostVars>>,
             ios' \subseteq IoRecords, destager' \in DestagerStates, destager'.pc # "issue"
      PROVE  TypeInv'
  <2>1. DataOK' /\ ListedHavePages'
    BY <1>1 DEF TypeInv, DataOK, ListedHavePages, Cached, Clean, Dirty,
                slotVars, listVars, counterVars, ghostVars
  <2>2. PlayersOK'
    BY <1>1 DEF TypeInv, PlayersOK, MayBeAt, slotVars
  <2>3. DestagerOK' /\ EnvironmentOK'
    BY <1>1 DEF TypeInv, DestagerOK, EnvironmentOK
  <2> QED BY <2>1, <2>2, <2>3 DEF TypeInv
<1>2. destager \in DestagerStates /\ ios \subseteq IoRecords
  BY DEF TypeInv, DestagerOK, EnvironmentOK
<1>3. CASE DestageWanted
  <2>1. destager' \in DestagerStates /\ destager'.pc # "issue"
    BY <1>2, <1>3 DEF DestageWanted, DestagerStates
  <2> QED BY <1>1, <1>2, <1>3, <2>1 DEF DestageWanted
<1>4. CASE DestageBudget
  <2>1. destager' \in DestagerStates /\ destager'.pc # "issue"
    BY <1>2, <1>4 DEF DestageBudget, DestagerStates
  <2> QED BY <1>1, <1>2, <1>4, <2>1 DEF DestageBudget
<1>5. CASE AnyDestagePick
  <2>1. UNCHANGED <<page, bm_mask, listVars, hash, dpage_cnt, phase, player, ios, ghostVars>>
    BY <1>5 DEF AnyDestagePick
  <2>2. ListedHavePages'
    BY <2>1 DEF TypeInv, ListedHavePages, Cached, Clean, Dirty, listVars
  <2>3. PlayersOK' /\ EnvironmentOK'
    BY <2>1 DEF TypeInv, PlayersOK, EnvironmentOK, MayBeAt
  <2>4. CASE \E s \in IdleOn(dirty_list) :
               /\ state' = [state EXCEPT ![s] = @ \ {"UPTODATE"}]
               /\ refs' = [refs EXCEPT ![s] = @ + 1]
               /\ destage_cnt' = destage_cnt + 1
               /\ destager' = [pc |-> "issue", slot |-> s, full |-> bm_mask[s] = Sectors]
    <3>1. PICK s \in IdleOn(dirty_list) :
               /\ state' = [state EXCEPT ![s] = @ \ {"UPTODATE"}]
               /\ refs' = [refs EXCEPT ![s] = @ + 1]
               /\ destage_cnt' = destage_cnt + 1
               /\ destager' = [pc |-> "issue", slot |-> s, full |-> bm_mask[s] = Sectors]
      BY <2>4
    <3>2. s \in Slots /\ s \in Dirty
      BY IdleOnType DEF TypeInv, DataOK, Dirty
    <3>3. page[s] \in Pages
      BY <3>2 DEF TypeInv, ListedHavePages, Cached
    <3>4. state' \in [Slots -> SUBSET {"DIRTY", "UPTODATE"}]
      BY <3>1 DEF TypeInv, DataOK
    <3>5. refs' \in [Slots -> Int] /\ destage_cnt' \in Int
      <4>1. refs \in [Slots -> Int] /\ destage_cnt \in Int
        BY DEF TypeInv, DataOK
      <4>2. refs' = [refs EXCEPT ![s] = @ + 1] /\ destage_cnt' = destage_cnt + 1
        BY <3>1
      <4> QED BY <3>2, <4>1, <4>2, RefsType
    <3>6. DataOK'
      BY <2>1, <3>4, <3>5 DEF TypeInv, DataOK, listVars, ghostVars
    <3>7. (bm_mask[s] = Sectors) \in BOOLEAN
      BY Zenon
    <3>8. DestagerOK'
      <4>1. destager' \in DestagerStates
        BY <3>1, <3>2, <3>7, Zenon DEF DestagerStates
      <4>2. destager'.slot \in Slots /\ page'[destager'.slot] \in Pages
        BY <2>1, <3>1, <3>2, <3>3
      <4> QED BY <4>1, <4>2 DEF DestagerOK
    <3> QED BY <2>2, <2>3, <3>6, <3>8 DEF TypeInv
  <2>5. CASE /\ destager' = [destager EXCEPT !.pc = "spin"]
             /\ UNCHANGED <<state, refs, destage_cnt>>
    <3>1. destager' \in DestagerStates /\ destager'.pc # "issue"
      BY <1>2, <2>5 DEF DestagerStates
    <3> QED BY <1>1, <1>2, <2>1, <2>5, <3>1 DEF slotVars, counterVars
  <2> QED BY <1>5, <2>4, <2>5 DEF AnyDestagePick
<1>6. CASE IssueDestage
  <2>1. page[destager.slot] \in Pages
    BY <1>6 DEF IssueDestage, TypeInv, DestagerOK
  <2>2. ios' \subseteq IoRecords
    BY <1>2, <1>6, <2>1 DEF IssueDestage, Submit, IoRecords, Kinds
  <2>3. destager' \in DestagerStates /\ destager'.pc # "issue"
    BY <1>2, <1>6 DEF IssueDestage, DestagerStates, IdleDestager
  <2> QED BY <1>1, <1>6, <2>2, <2>3 DEF IssueDestage
<1> QED BY <1>3, <1>4, <1>5, <1>6 DEF AnyDestagerProceeds

(* The completion callbacks.                                                 *)
LEMMA CallbackType ==
  ASSUME TypeInv, NEW io \in ios, Callback(io)
  PROVE  TypeInv'
<1>1. io \in IoRecords /\ io.page \in Pages
  BY DEF TypeInv, EnvironmentOK, IoRecords
<1>2. Complete(io) /\ page' = page /\ clean_list' = clean_list /\ phase' = phase
      /\ free_clean_list' = free_clean_list
  BY DEF Callback, lru_finish_read, lru_finish_destage_read, lru_finish_destage_write,
         listVars
<1>3. PlayersOK'
  <2>1. MayBeAt(IdlePlayer, page')
    BY DEF MayBeAt, IdlePlayer, PlayerStates, PlayerPcs
  <2>2. PagesKept
    BY <1>2 DEF PagesKept
  <2>3. CASE io.by \in Players
    BY <1>2, <2>1, <2>2, <2>3, PlayerMoves DEF Complete, TypeInv
  <2>4. CASE io.by \notin Players
    BY <1>2, <2>4 DEF Complete, TypeInv, PlayersOK, MayBeAt
  <2> QED BY <2>3, <2>4
<1>4. DestagerOK' /\ EnvironmentOK'
  <2>1. IdleDestager \in DestagerStates /\ IdleDestager.pc # "issue"
    BY DEF IdleDestager, DestagerStates
  <2>2. DestagerOK'
    BY <1>2, <2>1 DEF Complete, TypeInv, DestagerOK
  <2>3. EnvironmentOK'
    BY <1>2 DEF Complete, TypeInv, EnvironmentOK
  <2> QED BY <2>2, <2>3
<1>5. refs \in [Slots -> Int] /\ \A s \in lru_find(io.page) : s \in Slots
  BY <1>1, FindType DEF TypeInv, DataOK
<1>6. CASE lru_finish_read(io)
  <2>1. PICK s \in lru_find(io.page) :
          /\ bm_mask' = IF IsDirty(s) THEN [bm_mask EXCEPT ![s] = Sectors] ELSE bm_mask
          /\ refs' = [refs EXCEPT ![s] = @ - 1]
          /\ state' = [state EXCEPT ![s] = @ \cup {"UPTODATE"}]
          /\ have' = [have EXCEPT ![s] = Sectors]
    BY <1>6 DEF lru_finish_read
  <2>2. UNCHANGED <<page, listVars, hash, counterVars, pending>>
    BY <1>6 DEF lru_finish_read
  <2>3. bm_mask' \in [Slots -> SUBSET Sectors] /\ have' \in [Slots -> SUBSET Sectors]
    BY <2>1 DEF TypeInv, DataOK
  <2>4. refs' \in [Slots -> Int]
    BY <1>5, <2>1, RefsType
  <2>5. state' \in [Slots -> SUBSET {"DIRTY", "UPTODATE"}]
    BY <2>1 DEF TypeInv, DataOK
  <2>6. DataOK'
    BY <2>2, <2>3, <2>4, <2>5 DEF TypeInv, DataOK, listVars, counterVars
  <2>7. ListedHavePages'
    BY <2>2 DEF TypeInv, ListedHavePages, Cached, Clean, Dirty, listVars
  <2> QED BY <1>3, <1>4, <2>6, <2>7 DEF TypeInv
<1>7. CASE lru_finish_destage_read(io)
  <2>1. PICK s \in lru_find(io.page) :
          /\ bm_mask' = [bm_mask EXCEPT ![s] = Sectors]
          /\ state' = [state EXCEPT ![s] = @ \cup {"UPTODATE"}]
          /\ refs' = [refs EXCEPT ![s] = @ - 1]
          /\ have' = [have EXCEPT ![s] = Sectors]
    BY <1>7 DEF lru_finish_destage_read
  <2>2. /\ destage_cnt' = destage_cnt - 1
        /\ UNCHANGED <<page, listVars, hash, dpage_cnt, pending>>
    BY <1>7 DEF lru_finish_destage_read
  <2>3. bm_mask' \in [Slots -> SUBSET Sectors] /\ have' \in [Slots -> SUBSET Sectors]
    BY <2>1 DEF TypeInv, DataOK
  <2>4. refs' \in [Slots -> Int]
    BY <1>5, <2>1, RefsType
  <2>5. state' \in [Slots -> SUBSET {"DIRTY", "UPTODATE"}]
    BY <2>1 DEF TypeInv, DataOK
  <2>6. DataOK'
    BY <2>2, <2>3, <2>4, <2>5 DEF TypeInv, DataOK, listVars
  <2>7. ListedHavePages'
    BY <2>2 DEF TypeInv, ListedHavePages, Cached, Clean, Dirty, listVars
  <2> QED BY <1>3, <1>4, <2>6, <2>7 DEF TypeInv
<1>8. CASE lru_finish_destage_write(io)
  <2>1. PICK s \in lru_find(io.page) :
          /\ state' = [state EXCEPT ![s] = @ \cup {"UPTODATE"}]
          /\ refs' = [refs EXCEPT ![s] = @ - 1]
          /\ \/ /\ dpage_cnt' = dpage_cnt - 1
                /\ hash' = [hash EXCEPT ![HashOf[page[s]]] = @ \ {s}]
                /\ dirty_list' = RemoveNode(dirty_list, s)
                /\ free_dirty_list' = AddToHead(free_dirty_list, s)
             \/ UNCHANGED <<dpage_cnt, hash, dirty_list, free_dirty_list>>
    BY <1>8 DEF lru_finish_destage_write
  <2>2. /\ destage_cnt' = destage_cnt - 1
        /\ pending' = [pending EXCEPT ![io.page] = {}]
        /\ UNCHANGED <<page, bm_mask, clean_list, free_clean_list, have>>
    BY <1>8 DEF lru_finish_destage_write
  <2>3. s \in Slots
    BY <1>5
  <2>4. /\ dirty_list' \in Seq(Slots) /\ Elements(dirty_list') \subseteq Elements(dirty_list)
        /\ free_dirty_list' \in Seq(Slots)
    <3>1. /\ RemoveNode(dirty_list, s) \in Seq(Slots)
          /\ Elements(RemoveNode(dirty_list, s)) \subseteq Elements(dirty_list)
          /\ AddToHead(free_dirty_list, s) \in Seq(Slots)
      BY <2>3, RemoveNodeType, AddToHeadType DEF TypeInv, DataOK
    <3>2. dirty_list \in Seq(Slots) /\ free_dirty_list \in Seq(Slots)
      BY DEF TypeInv, DataOK
    <3>3. \/ dirty_list' = RemoveNode(dirty_list, s) /\ free_dirty_list' = AddToHead(free_dirty_list, s)
          \/ UNCHANGED <<dirty_list, free_dirty_list>>
      BY <2>1
    <3> QED BY <3>1, <3>2, <3>3
  <2>5. hash' \in [Buckets -> SUBSET Slots] /\ dpage_cnt' \in Int
    <3>1. hash \in [Buckets -> SUBSET Slots] /\ dpage_cnt \in Int
      BY DEF TypeInv, DataOK
    <3>2. \/ dpage_cnt' = dpage_cnt - 1 /\ hash' = [hash EXCEPT ![HashOf[page[s]]] = @ \ {s}]
          \/ UNCHANGED <<dpage_cnt, hash>>
      BY <2>1
    <3> QED BY <3>1, <3>2
  <2>6. refs' \in [Slots -> Int] /\ destage_cnt' \in Int
    <3>1. destage_cnt \in Int
      BY DEF TypeInv, DataOK
    <3> QED BY <1>5, <2>1, <2>2, <3>1, RefsType
  <2>7. state' \in [Slots -> SUBSET {"DIRTY", "UPTODATE"}]
    BY <2>1 DEF TypeInv, DataOK
  <2>8. pending' \in [Pages -> SUBSET Sectors]
    BY <2>2 DEF TypeInv, DataOK
  <2>9. DataOK'
    BY <2>2, <2>4, <2>5, <2>6, <2>7, <2>8 DEF TypeInv, DataOK
  <2>10. ListedHavePages'
    BY <2>2, <2>4 DEF TypeInv, ListedHavePages, Cached, Clean, Dirty
  <2> QED BY <1>3, <1>4, <2>9, <2>10 DEF TypeInv
<1> QED BY <1>6, <1>7, <1>8 DEF Callback

-----------------------------------------------------------------------------
(* The specification.                                                        *)

(* Lists made of the first or the last slots of the array.                   *)
LEMMA InitLists ==
  ASSUME NEW f \in Orders
  PROVE  /\ [i \in 1..DPages |-> f[i]] \in Seq(Slots)
         /\ [i \in 1..(Cardinality(Slots) - DPages) |-> f[i + DPages]] \in Seq(Slots)
<1> DEFINE n == Cardinality(Slots)
<1>1. n \in Nat
  BY SlotsAssumption, FS_CardinalityType
<1>2. DPages \in 1..n
  BY SizesAssumption
<1>3. \A i \in 1..n : f[i] \in Slots
  BY DEF Orders
<1> HIDE DEF n
<1>4. DPages \in Nat /\ n - DPages \in Nat
  BY <1>1, <1>2
<1>5. \A i \in 1..DPages : i \in 1..n
  BY <1>1, <1>2
<1>6. \A i \in 1..(n - DPages) : i + DPages \in 1..n
  BY <1>1, <1>2
<1>7. [i \in 1..DPages |-> f[i]] \in Seq(Slots)
  BY <1>3, <1>4, <1>5
<1>8. [i \in 1..(n - DPages) |-> f[i + DPages]] \in Seq(Slots)
  BY <1>3, <1>4, <1>6
<1> QED BY <1>7, <1>8 DEF n

(* The cache starts in type.                                                 *)
LEMMA TypeInvInit == Init => TypeInv
<1> SUFFICES ASSUME Init PROVE TypeInv
  OBVIOUS
<1>1. free_dirty_list \in Seq(Slots) /\ free_clean_list \in Seq(Slots)
  BY InitLists DEF Init
<1>2. bm_mask \in [Slots -> SUBSET Sectors]
  <2>1. bm_mask \in [Slots -> UninitMasks]
    BY DEF Init
  <2> QED BY <2>1, MasksAssumption
<1>3. clean_list = <<>> /\ dirty_list = <<>>
  BY DEF Init
<1>4. page \in [Slots -> Pages \cup {NoPage}] /\ have \in [Slots -> SUBSET Sectors]
  BY DEF Init
<1>5. /\ state \in [Slots -> SUBSET {"DIRTY", "UPTODATE"}] /\ refs \in [Slots -> Int]
      /\ hash \in [Buckets -> SUBSET Slots] /\ pending \in [Pages -> SUBSET Sectors]
      /\ dpage_cnt \in Int /\ destage_cnt \in Int
  BY DEF Init
<1>6. DataOK
  BY <1>1, <1>2, <1>3, <1>4, <1>5 DEF DataOK
<1>7. ListedHavePages
  BY <1>3 DEF ListedHavePages, Cached, Clean, Dirty, Elements
<1>8. PlayersOK
  <2>1. MayBeAt(IdlePlayer, page)
    BY DEF MayBeAt, IdlePlayer, PlayerStates, PlayerPcs
  <2>2. IdlePlayer \in PlayerStates
    BY <2>1 DEF MayBeAt
  <2> QED BY <2>1, <2>2 DEF Init, PlayersOK
<1>9. DestagerOK /\ EnvironmentOK
  BY DEF Init, DestagerOK, EnvironmentOK, IdleDestager, DestagerStates
<1> QED BY <1>6, <1>7, <1>8, <1>9 DEF TypeInv

(* Every step keeps it.                                                      *)
LEMMA TypeInvNext == TypeInv /\ [AnyPageNext]_vars => TypeInv'
<1> SUFFICES ASSUME TypeInv, [AnyPageNext]_vars PROVE TypeInv'
  OBVIOUS
<1>1. ASSUME NEW pl \in Players, AnyReplacePage(pl) \/ AnyPlayerProceeds(pl) PROVE TypeInv'
  BY <1>1, ReplacePageType, PlayerProceedsType
<1>2. CASE AnyDestagerProceeds
  BY <1>2, DestagerProceedsType
<1>3. ASSUME NEW io \in ios, Callback(io) PROVE TypeInv'
  BY <1>3, CallbackType
<1>4. ASSUME UNCHANGED <<slotVars, listVars, hash, counterVars, player, destager, ios, ghostVars>>,
             phase' \in {"warmup", "recovering", "finished"}
      PROVE  TypeInv'
  <2>1. DataOK' /\ ListedHavePages'
    BY <1>4 DEF TypeInv, DataOK, ListedHavePages, Cached, Clean, Dirty,
                slotVars, listVars, counterVars, ghostVars
  <2>2. PlayersOK' /\ DestagerOK' /\ EnvironmentOK'
    BY <1>4 DEF TypeInv, PlayersOK, MayBeAt, DestagerOK, EnvironmentOK, slotVars
  <2> QED BY <2>1, <2>2 DEF TypeInv
<1>5. CASE StartRecovery \/ EndRecovery
  BY <1>4, <1>5 DEF StartRecovery, EndRecovery
<1>6. CASE UNCHANGED vars
  <2>1. phase' \in {"warmup", "recovering", "finished"}
    BY <1>6 DEF vars, TypeInv, EnvironmentOK
  <2> QED BY <1>4, <1>6, <2>1 DEF vars
<1> QED BY <1>1, <1>2, <1>3, <1>5, <1>6 DEF AnyPageNext

(* The invariant contains the type invariant of the runs.                    *)
LEMMA TypeInvImpliesTypeOK == TypeInv => TypeOK
BY DEF TypeInv, DataOK, PlayersOK, MayBeAt, DestagerOK, EnvironmentOK, TypeOK

(* The LRU cache takes idle pages of the lists.                              *)
LEMMA LruTakesIdle ==
  ASSUME TypeInv
  PROVE  find_clean_lru_page \subseteq IdleOn(clean_list) /\ find_dirty_lru_page \subseteq IdleOn(dirty_list)
<1>1. clean_list \in Seq(Slots) /\ dirty_list \in Seq(Slots)
  BY DEF TypeInv, DataOK
<1>2. ASSUME NEW list \in Seq(Slots), NEW s \in LastIdle(list) PROVE s \in IdleOn(list)
  <2>1. s \in Elements(list)
    BY ScanType
  <2>2. Idle(s)
    BY DEF LastIdle
  <2> QED BY <2>1, <2>2 DEF IdleOn
<1> QED BY <1>1, <1>2 DEF find_clean_lru_page, find_dirty_lru_page

(* Its steps are therefore steps of the cache that takes any of them.        *)
LEMMA AnyPageStep == TypeInv /\ [Next]_vars => [AnyPageNext]_vars
<1> SUFFICES ASSUME TypeInv, [Next]_vars PROVE [AnyPageNext]_vars
  OBVIOUS
<1>1. find_clean_lru_page \subseteq IdleOn(clean_list) /\ find_dirty_lru_page \subseteq IdleOn(dirty_list)
  BY LruTakesIdle
<1>2. ASSUME NEW pl \in Players, NEW r, ReadMiss(pl, r) PROVE AnyReadMiss(pl, r)
  BY <1>1, <1>2 DEF ReadMiss, AnyReadMiss
<1>3. ASSUME NEW pl \in Players, ReplacePage(pl) PROVE AnyReplacePage(pl)
  BY <1>2, <1>3, Zenon DEF ReplacePage, AnyReplacePage
<1>4. ASSUME NEW pl \in Players, UptodateSeen(pl) PROVE AnyUptodateSeen(pl)
  BY <1>4 DEF UptodateSeen, AnyUptodateSeen
<1>5. ASSUME NEW pl \in Players, CleanPageSeen(pl) PROVE AnyCleanPageSeen(pl)
  BY <1>1, <1>5 DEF CleanPageSeen, AnyCleanPageSeen
<1>6. ASSUME NEW pl \in Players, FreeDirtySeen(pl) PROVE AnyFreeDirtySeen(pl)
  BY <1>6 DEF FreeDirtySeen, AnyFreeDirtySeen
<1>7. DestagePick => AnyDestagePick
  BY <1>1 DEF DestagePick, AnyDestagePick
<1> QED BY <1>3, <1>4, <1>5, <1>6, <1>7 DEF Next, AnyPageNext, PlayerProceeds, AnyPlayerProceeds,
                                            DestagerProceeds, AnyDestagerProceeds

LEMMA TypeInvHolds == AnyPageSpec => []TypeInv
BY TypeInvInit, TypeInvNext, PTL DEF AnyPageSpec

(* What holds of a cache that takes any idle page holds of the LRU cache.    *)
LEMMA LruTakesAnyPage == Spec => AnyPageSpec
<1>1. TypeInv /\ [Next]_vars => TypeInv'
  BY AnyPageStep, TypeInvNext
<1> QED BY <1>1, TypeInvInit, AnyPageStep, PTL DEF Spec, AnyPageSpec

(* The cache never leaves its types: a player past the start of a request    *)
(* knows its page, one that waits for a page or issues its read has a slot   *)
(* (do_lru_replacepage's page pointer is never null when it is used), and so *)
(* has the destage thread when it submits.                                   *)
THEOREM LruTypeCorrect == Spec => []TypeOK
BY LruTakesAnyPage, TypeInvHolds, TypeInvImpliesTypeOK, PTL

=============================================================================
