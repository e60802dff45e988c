-------------------------- MODULE LruPromiseProofs --------------------------
(***************************************************************************)
(* What the LRU cache promises, for any number of players, slots, pages,   *)
(* buckets and sectors: its counters count, its dirty pages stay within    *)
(* their budget, no write of the user is dropped, and all the critical     *)
(* sections together implement the write-back cache of WriteBackCache.     *)
(* All of it rests on the bookkeeping proved in LruInvariantProofs.        *)
(***************************************************************************)
EXTENDS LruInvariantProofs

-----------------------------------------------------------------------------
(* What a player's critical section can be, seen from the page tables: it    *)
(* serves a request on a cached page, it gives a page a slot, or it goes to  *)
(* wait; the end of the exchange and the issue of a read come besides.       *)
ServesPage(pl) ==
  \E r \in PlayerStates : \E held :
    /\ r.page \in Pages /\ r.slot \in Cached /\ page[r.slot] = r.page
    /\ IsUptodate(r.slot) /\ Serve(pl, r, held)

FillsPage(pl) ==
  \E r \in PlayerStates :
    /\ r.page \in Pages /\ lru_find(r.page) = {}
    /\ \/ \E s \in IdleOn(clean_list) : Evict(pl, r, s)
       \/ TakeFreeClean(pl, r)
       \/ InsertDirty(pl, r)

GoesToWait(pl) ==
  /\ \E r \in PlayerStates, where \in {"wait_uptodate", "wait_clean", "wait_free_dirty"} :
       Suspend(pl, r, where)
  /\ UNCHANGED <<page, state, bm_mask, listVars, hash, counterVars, ghostVars>>

LEMMA HitActs ==
  ASSUME BookInv, NEW pl \in Players, NEW r \in PlayerStates, r.page \in Pages,
         NEW s \in lru_find(r.page), Hit(pl, [r EXCEPT !.slot = s])
  PROVE  ServesPage(pl) \/ GoesToWait(pl)
<1> DEFINE f == [r EXCEPT !.slot = s]
<1>1. f \in PlayerStates /\ f.slot = s /\ f.page = r.page
  BY FoundRequest DEF BookInv, TypeInv, PlayerStates
<1>2. s \in Cached /\ page[s] = r.page
  BY FindExact DEF BookInv, TypeInv
<1>3. Hit(pl, f)
  OBVIOUS
<1> HIDE DEF f
<1>4. CASE \E held : IsUptodate(s) /\ Serve(pl, f, held)
  BY <1>1, <1>2, <1>4 DEF ServesPage
<1>5. CASE /\ Suspend(pl, f, "wait_uptodate")
           /\ UNCHANGED <<page, state, bm_mask, listVars, hash, counterVars, ghostVars>>
  BY <1>1, <1>5 DEF GoesToWait
<1> QED BY <1>1, <1>3, <1>4, <1>5 DEF Hit

LEMMA PlayerActs ==
  ASSUME BookInv, NEW pl \in Players, AnyReplacePage(pl) \/ AnyPlayerProceeds(pl)
  PROVE  \/ /\ player[pl].pc # "wait_exchange" /\ UNCHANGED <<destager, ios>>
            /\ ServesPage(pl) \/ FillsPage(pl) \/ GoesToWait(pl)
         \/ ExchangeSeen(pl) \/ IssueRead(pl)
<1>1. CASE AnyReplacePage(pl)
  <2>1. PICK p \in Pages, rw \in {"read", "write"}, mask \in Masks :
          LET r == [pc |-> "idle", page |-> p, rw |-> rw, mask |-> mask, slot |-> NoSlot]
          IN  \/ \E s \in lru_find(p) : Hit(pl, [r EXCEPT !.slot = s])
              \/ lru_find(p) = {} /\ rw = "read" /\ AnyReadMiss(pl, r)
              \/ lru_find(p) = {} /\ rw = "write" /\ WriteMiss(pl, r)
    BY <1>1 DEF AnyReplacePage
  <2> DEFINE r == [pc |-> "idle", page |-> p, rw |-> rw, mask |-> mask, slot |-> NoSlot]
  <2>2. player[pl].pc # "wait_exchange" /\ UNCHANGED <<destager, ios>>
    BY <1>1 DEF AnyReplacePage
  <2>3. r \in PlayerStates /\ r.page = p
    <3>1. mask \in SUBSET Sectors
      BY MaskType
    <3> QED BY <3>1 DEF PlayerStates, PlayerPcs
  <2>4. \/ \E s \in lru_find(p) : Hit(pl, [r EXCEPT !.slot = s])
        \/ lru_find(p) = {} /\ AnyReadMiss(pl, r)
        \/ lru_find(p) = {} /\ WriteMiss(pl, r)
    BY <2>1
  <2> HIDE DEF r
  <2>5. CASE \E s \in lru_find(p) : Hit(pl, [r EXCEPT !.slot = s])
    BY <2>2, <2>3, <2>5, HitActs
  <2>6. CASE /\ lru_find(p) = {}
             /\ \/ \E s \in IdleOn(clean_list) : Evict(pl, r, s)
                \/ TakeFreeClean(pl, r)
                \/ InsertDirty(pl, r)
    BY <2>2, <2>3, <2>6 DEF FillsPage
  <2>7. CASE /\ \E where \in {"wait_clean", "wait_free_dirty"} : Suspend(pl, r, where)
             /\ UNCHANGED <<slotVars, listVars, hash, counterVars, ghostVars>>
    BY <2>2, <2>3, <2>7 DEF GoesToWait, slotVars
  <2> QED BY <2>4, <2>5, <2>6, <2>7 DEF AnyReadMiss, WriteMiss
<1>2. CASE AnyPlayerProceeds(pl)
  <2> DEFINE r == player[pl]
  <2>1. r \in PlayerStates /\ (r.pc # "idle" => r.page \in Pages)
    BY DEF BookInv, TypeInv, PlayersOK, MayBeAt
  <2>2. CASE AnyUptodateSeen(pl)
    <3>1. /\ r.pc = "wait_uptodate" /\ r.slot \in Cached /\ page[r.slot] = r.page
          /\ IsUptodate(r.slot) /\ Serve(pl, r, refs) /\ UNCHANGED <<destager, ios>>
      BY <2>2 DEF AnyUptodateSeen, BookInv, UsersOK, ThreadsHold
    <3> QED BY <2>1, <3>1 DEF ServesPage
  <2>3. CASE AnyCleanPageSeen(pl) \/ AnyFreeDirtySeen(pl)
    <3>1. /\ r.pc \in {"wait_clean", "wait_free_dirty"} /\ UNCHANGED <<destager, ios>>
          /\ \/ /\ lru_find(r.page) = {}
                /\ (\E s \in IdleOn(clean_list) : Evict(pl, r, s)) \/ InsertDirty(pl, r)
             \/ \E s \in lru_find(r.page) : Hit(pl, [r EXCEPT !.slot = s])
      BY <2>3 DEF AnyCleanPageSeen, AnyFreeDirtySeen
    <3>2. CASE lru_find(r.page) = {} /\
                 ((\E s \in IdleOn(clean_list) : Evict(pl, r, s)) \/ InsertDirty(pl, r))
      BY <2>1, <3>1, <3>2 DEF FillsPage
    <3>3. CASE \E s \in lru_find(r.page) : Hit(pl, [r EXCEPT !.slot = s])
      BY <2>1, <3>1, <3>3, HitActs
    <3> QED BY <3>1, <3>2, <3>3
  <2>4. CASE ExchangeSeen(pl) \/ IssueRead(pl)
    BY <2>4
  <2> QED BY <1>2, <2>2, <2>3, <2>4 DEF AnyPlayerProceeds
<1> QED BY <1>1, <1>2

-----------------------------------------------------------------------------
(* The destage budget.                                                       *)

(* The members of DestageIos, one by one. *)
LEMMA DestageIosAre ==
  ASSUME NEW u
  PROVE  u \in DestageIos <=>
           \/ u = <<"destager", Destager>> /\ destager.pc = "issue"
           \/ \E i \in ios : u = <<"io", i>> /\ i.kind # "read"
BY DEF DestageIos

LEMMA DestageIosAreNext ==
  ASSUME NEW u
  PROVE  u \in DestageIos' <=>
           \/ u = <<"destager", Destager>> /\ destager'.pc = "issue"
           \/ \E i \in ios' : u = <<"io", i>> /\ i.kind # "read"
BY DEF DestageIos

LEMMA DestageIosFinite ==
  ASSUME IsFiniteSet(ios)
  PROVE  IsFiniteSet(DestageIos) /\ Cardinality(DestageIos) \in Nat
<1> DEFINE I == {<<"io", i>> : i \in ios}
           D == {<<"destager", Destager>>}
<1>1. IsFiniteSet(I)
  BY MarkedFinite, Zenon
<1>2. IsFiniteSet(D)
  BY FS_Singleton
<1>3. \A u \in DestageIos : u \in I \/ u \in D
  BY DestageIosAre
<1> HIDE DEF I, D
<1>4. IsFiniteSet(I \cup D)
  BY <1>1, <1>2, FS_Union
<1>5. IsFiniteSet(DestageIos)
  BY <1>3, <1>4, FS_Subset
<1> QED BY <1>5, FS_CardinalityType

(* A step that neither starts nor ends a destage I/O. *)
LEMMA SameDestageIos ==
  ASSUME DestageBounded, destage_cnt' = destage_cnt,
         destager'.pc = "issue" <=> destager.pc = "issue",
         \A i : i \in ios' /\ i.kind # "read" <=> i \in ios /\ i.kind # "read"
  PROVE  DestageBounded'
<1>1. \A u : u \in DestageIos' <=> u \in DestageIos
  BY DestageIosAre, DestageIosAreNext
<1>2. DestageIos' = DestageIos
  BY <1>1
<1> QED BY <1>2 DEF DestageBounded

(* The destage thread takes a page: it had tested the budget, and nobody     *)
(* else could spend it in between.                                           *)
LEMMA PickBounded ==
  ASSUME BookInv, DestageBounded, AnyDestagePick
  PROVE  DestageBounded'
<1> DEFINE me == <<"destager", Destager>>
<1>1. /\ destager.pc \in {"lock", "spin"} /\ destage_cnt < RaidDisks /\ ios' = ios
      /\ IsFiniteSet(ios) /\ destager \in DestagerStates
  BY DEF AnyDestagePick, BookInv, UsersOK, ThreadsHold, TypeInv, DestagerOK
<1>2. destage_cnt \in Int /\ RaidDisks \in Int
  BY SizesAssumption DEF BookInv, TypeInv, DataOK
<1>3. CASE destage_cnt' = destage_cnt + 1 /\ destager'.pc = "issue"
  <2>1. me \notin DestageIos /\ IsFiniteSet(DestageIos)
    BY <1>1, DestageIosAre, DestageIosFinite
  <2>2. \A u : u \in DestageIos' <=> u \in DestageIos \/ u = me
    BY <1>1, <1>3, DestageIosAre, DestageIosAreNext
  <2>3. DestageIos' = DestageIos \cup {me}
    BY <2>2
  <2> HIDE DEF me
  <2>4. Cardinality(DestageIos') = Cardinality(DestageIos) + 1
    BY <2>1, <2>3, CountUsers
  <2> QED BY <1>1, <1>2, <1>3, <2>4 DEF DestageBounded
<1>4. CASE destage_cnt' = destage_cnt /\ destager'.pc = "spin"
  BY <1>1, <1>4, SameDestageIos
<1>5. \/ destage_cnt' = destage_cnt + 1 /\ destager'.pc = "issue"
      \/ destage_cnt' = destage_cnt /\ destager'.pc = "spin"
  <2>1. [destager EXCEPT !.pc = "spin"].pc = "spin"
    BY <1>1 DEF DestagerStates
  <2>2. \/ /\ destage_cnt' = destage_cnt + 1
           /\ \E s, f : destager' = [pc |-> "issue", slot |-> s, full |-> f]
        \/ destage_cnt' = destage_cnt /\ destager' = [destager EXCEPT !.pc = "spin"]
    BY DEF AnyDestagePick
  <2>3. ASSUME NEW s, NEW f, destager' = [pc |-> "issue", slot |-> s, full |-> f]
        PROVE  destager'.pc = "issue"
    BY <2>3
  <2>4. CASE destage_cnt' = destage_cnt /\ destager' = [destager EXCEPT !.pc = "spin"]
    <3>1. destager'.pc = "spin"
      BY <2>1, <2>4
    <3> QED BY <2>4, <3>1
  <2> QED BY <2>2, <2>3, <2>4, Zenon
<1> QED BY <1>3, <1>4, <1>5

(* It submits the I/O of that page: the I/O is not already under way. *)
LEMMA IssueDestageBounded ==
  ASSUME BookInv, DestageBounded, IssueDestage
  PROVE  DestageBounded'
<1> DEFINE s == destager.slot
           me == <<"destager", Destager>>
           io == [page |-> page[s],
                  kind |-> IF destager.full THEN "destage_write" ELSE "destage_read",
                  by |-> IF start_urio THEN Disk ELSE Destager]
<1>1. /\ destager.pc = "issue" /\ ios' = ios \cup {io} /\ destage_cnt' = destage_cnt
      /\ destager' = IF start_urio THEN IdleDestager ELSE [destager EXCEPT !.pc = "callback"]
  BY DEF IssueDestage, Submit, counterVars
<1>2. /\ s \in Cached /\ destager \in DestagerStates /\ IsFiniteSet(ios)
      /\ \A x, y \in Work(s) : x = y
  BY <1>1 DEF BookInv, TypeInv, DestagerOK, UsersOK, ThreadsHold, OneIoPerPage, Cached
<1>3. destager'.pc # "issue"
  BY <1>1, <1>2 DEF IdleDestager, DestagerStates
<1>4. io.page = page[s] /\ io.kind # "read"
  OBVIOUS
<1>5. io \notin ios
  <2>1. me \in Work(s)
    BY <1>1, UsersAre DEF Reads
  <2>2. io \in ios => <<"io", io>> \in Work(s)
    BY <1>2, <1>4, UsersAre
  <2>3. <<"io", io>> # me
    OBVIOUS
  <2> HIDE DEF io, me, s
  <2> QED BY <1>2, <2>1, <2>2, <2>3
<1> HIDE DEF io, s
<1>6. me \in DestageIos /\ <<"io", io>> \notin DestageIos /\ IsFiniteSet(DestageIos)
  BY <1>1, <1>2, <1>5, DestageIosAre, DestageIosFinite
<1>7. \A u : u \in DestageIos' <=> (u \in DestageIos /\ u # me) \/ u = <<"io", io>>
  BY <1>1, <1>3, <1>4, DestageIosAre, DestageIosAreNext
<1> HIDE DEF me
<1>8. DestageIos' = (DestageIos \ {me}) \cup {<<"io", io>>}
  BY <1>7
<1>9. Cardinality(DestageIos') = Cardinality(DestageIos)
  BY <1>6, <1>8, CountSwap
<1> QED BY <1>1, <1>9 DEF DestageBounded

(* The callback of a destage I/O gives its share of the budget back. *)
LEMMA CallbackBounded ==
  ASSUME BookInv, DestageBounded, NEW io \in ios, Callback(io)
  PROVE  DestageBounded'
<1>1. ios' = ios \ {io} /\ destager' = IF io.by = Destager THEN IdleDestager ELSE destager
  BY DEF Callback, lru_finish_read, lru_finish_destage_read, lru_finish_destage_write, Complete
<1>2. io.by = Destager => destager.pc = "callback"
  BY DEF BookInv, UsersOK, ThreadsHold
<1>3. destager'.pc = "issue" <=> destager.pc = "issue"
  BY <1>1, <1>2 DEF IdleDestager
<1>4. CASE io.kind = "read"
  <2>1. destage_cnt' = destage_cnt
    BY <1>4 DEF Callback, lru_finish_read, lru_finish_destage_read, lru_finish_destage_write,
                counterVars
  <2> QED BY <1>1, <1>3, <1>4, <2>1, SameDestageIos
<1>5. CASE io.kind # "read"
  <2>1. destage_cnt' = destage_cnt - 1
    BY <1>5 DEF Callback, lru_finish_read, lru_finish_destage_read, lru_finish_destage_write
  <2>2. <<"io", io>> \in DestageIos /\ IsFiniteSet(DestageIos)
    BY <1>5, DestageIosAre, DestageIosFinite DEF BookInv
  <2>3. \A u : u \in DestageIos' <=> u \in DestageIos /\ u # <<"io", io>>
    BY <1>1, <1>3, DestageIosAre, DestageIosAreNext
  <2>4. DestageIos' = DestageIos \ {<<"io", io>>}
    BY <2>3
  <2>5. Cardinality(DestageIos') = Cardinality(DestageIos) - 1
    BY <2>2, <2>4, CountUsers
  <2>6. destage_cnt \in Int /\ RaidDisks \in Int
    BY SizesAssumption DEF BookInv, TypeInv, DataOK
  <2> QED BY <2>1, <2>5, <2>6 DEF DestageBounded
<1> QED BY <1>4, <1>5

LEMMA DestageBoundedNext == BookInv /\ DestageBounded /\ [AnyPageNext]_vars => DestageBounded'
<1> SUFFICES ASSUME BookInv, DestageBounded, [AnyPageNext]_vars PROVE DestageBounded'
  OBVIOUS
<1>1. ASSUME NEW pl \in Players, AnyReplacePage(pl) \/ AnyPlayerProceeds(pl)
      PROVE  DestageBounded'
  <2>1. CASE IssueRead(pl)
    <3>1. /\ destager' = destager /\ destage_cnt' = destage_cnt
          /\ \E i : i.kind = "read" /\ ios' = ios \cup {i}
      BY <2>1 DEF IssueRead, Submit, counterVars
    <3> QED BY <3>1, SameDestageIos
  <2>2. CASE /\ UNCHANGED <<destager, ios>>
             /\ ServesPage(pl) \/ FillsPage(pl) \/ GoesToWait(pl) \/ ExchangeSeen(pl)
    <3>1. ServesPage(pl) => destage_cnt' = destage_cnt
      BY DEF ServesPage, Serve, ReadClean, ReadDirtyHit, ReadDirtyMiss, WriteDirty,
                  WriteClean, counterVars
    <3>2. FillsPage(pl) => destage_cnt' = destage_cnt
      BY DEF FillsPage, Evict, TakeFreeClean, InsertDirty, counterVars
    <3>3. GoesToWait(pl) \/ ExchangeSeen(pl) => destage_cnt' = destage_cnt
      BY DEF GoesToWait, ExchangeSeen, counterVars
    <3>4. destage_cnt' = destage_cnt
      BY <2>2, <3>1, <3>2, <3>3
    <3> QED BY <2>2, <3>4, SameDestageIos
  <2> QED BY <1>1, <2>1, <2>2, PlayerActs DEF ExchangeSeen
<1>2. CASE DestageWanted \/ DestageBudget
  <2>1. destager \in DestagerStates
    BY DEF BookInv, TypeInv, DestagerOK
  <2>2. destager.pc # "issue" /\ destager'.pc # "issue" /\ UNCHANGED <<ios, destage_cnt>>
    BY <1>2, <2>1 DEF DestageWanted, DestageBudget, DestagerStates, counterVars
  <2> QED BY <2>2, SameDestageIos
<1>3. CASE AnyDestagePick
  BY <1>3, PickBounded
<1>4. CASE IssueDestage
  BY <1>4, IssueDestageBounded
<1>5. CASE \E io \in ios : Callback(io)
  BY <1>5, CallbackBounded
<1>6. CASE StartRecovery \/ EndRecovery \/ UNCHANGED vars
  <2>1. UNCHANGED <<destager, ios, destage_cnt>>
    BY <1>6 DEF StartRecovery, EndRecovery, vars, counterVars
  <2> QED BY <2>1, SameDestageIos
<1> QED BY <1>1, <1>2, <1>3, <1>4, <1>5, <1>6 DEF AnyPageNext, AnyDestagerProceeds

LEMMA DestageBoundedInit == Init => DestageBounded
<1> SUFFICES ASSUME Init PROVE DestageBounded
  OBVIOUS
<1>1. destage_cnt = 0 /\ ios = {} /\ destager.pc = "check"
  BY DEF Init, IdleDestager
<1>2. DestageIos = {}
  BY <1>1, DestageIosAre
<1>3. Cardinality(DestageIos) = 0
  BY <1>2, FS_EmptySet
<1> QED BY <1>1, <1>3, SizesAssumption DEF DestageBounded

LEMMA DestageBoundedHolds == AnyPageSpec => []DestageBounded
<1>1. BookInv /\ DestageBounded /\ [AnyPageNext]_vars => DestageBounded'
  BY DestageBoundedNext
<1> QED BY <1>1, BookInvHolds, DestageBoundedInit, PTL DEF AnyPageSpec

(* destage_cnt counts the destage I/Os exactly, and stays within raid_disks  *)
(* although the destage thread tests it before it takes the mutex (lru.c).   *)
THEOREM DestageWithinBudget == Spec => []DestageBounded
BY LruTakesAnyPage, DestageBoundedHolds, PTL

-----------------------------------------------------------------------------
(* The dirty page budget.                                                    *)

(* The players that wait in the exchange of WriteClean. *)
Owing == {pl \in Players : player[pl].pc = "wait_exchange"}

LEMMA OwingFinite == IsFiniteSet(Owing) /\ Cardinality(Owing) \in Nat
BY PlayersAssumption, FS_Subset, FS_CardinalityType DEF Owing

(* The lengths of the lists are numbers. *)
LEMMA BudgetNumbers ==
  ASSUME DataOK
  PROVE  /\ Len(dirty_list) \in Int /\ Len(free_dirty_list) \in Int /\ dpage_cnt \in Int
         /\ DPages \in Int
BY SizesAssumption, SlotsAssumption, FS_CardinalityType DEF DataOK

(* A step that leaves the lists' lengths and the players that wait alone. *)
LEMMA SameBudget ==
  ASSUME DirtyBudget, dpage_cnt' = dpage_cnt, Len(dirty_list') = Len(dirty_list),
         Len(free_dirty_list') = Len(free_dirty_list), Owing' = Owing
  PROVE  DirtyBudget'
BY DEF DirtyBudget, Owing

(* A step that makes m dirty pages more and k free dirty pages more, and     *)
(* m + k players owe one.                                                    *)
LEMMA BudgetStep ==
  ASSUME DataOK, DirtyBudget, NEW m \in Int, NEW k \in Int, dpage_cnt' = dpage_cnt + m,
         Len(dirty_list') = Len(dirty_list) + m,
         Len(free_dirty_list') = Len(free_dirty_list) + k,
         Cardinality(Owing') = Cardinality(Owing) + m + k
  PROVE  DirtyBudget'
<1>1. /\ dpage_cnt = Len(dirty_list)
      /\ Len(dirty_list) + Len(free_dirty_list) = DPages + Cardinality(Owing)
  BY DEF DirtyBudget, Owing
<1>2. /\ dpage_cnt' = Len(dirty_list')
      /\ Len(dirty_list') + Len(free_dirty_list') = DPages + Cardinality(Owing')
  <2>1. dpage_cnt' = Len(dirty_list')
    BY <1>1
  <2> DEFINE a == Len(dirty_list)
             b == Len(free_dirty_list)
             o == Cardinality(Owing)
  <2>2. a \in Int /\ b \in Int /\ o \in Int /\ DPages \in Int /\ a + b = DPages + o
    BY <1>1, BudgetNumbers, OwingFinite
  <2>3. /\ Len(dirty_list') = a + m /\ Len(free_dirty_list') = b + k
        /\ Cardinality(Owing') = o + m + k
    OBVIOUS
  <2> HIDE DEF a, b, o
  <2>4. (a + m) + (b + k) = DPages + (o + m + k)
    BY <2>2
  <2> QED BY <2>1, <2>3, <2>4
<1> QED BY <1>2 DEF DirtyBudget, Owing

(* One player moves. *)
LEMMA OwingMoves ==
  ASSUME PlayersOK, NEW pl \in Players, NEW q, player' = [player EXCEPT ![pl] = q]
  PROVE  /\ (q.pc = "wait_exchange" <=> player[pl].pc = "wait_exchange") => Owing' = Owing
         /\ q.pc = "wait_exchange" /\ player[pl].pc # "wait_exchange" =>
              Cardinality(Owing') = Cardinality(Owing) + 1
         /\ q.pc # "wait_exchange" /\ player[pl].pc = "wait_exchange" =>
              Cardinality(Owing') = Cardinality(Owing) - 1
<1>1. player'[pl] = q /\ \A x \in Players \ {pl} : player'[x] = player[x]
  BY DEF PlayersOK
<1>2. \A x : x \in Owing' <=>
        (x \in Owing /\ x # pl) \/ (x = pl /\ q.pc = "wait_exchange")
  BY <1>1 DEF Owing
<1>3. pl \in Owing <=> player[pl].pc = "wait_exchange"
  BY DEF Owing
<1>4. CASE q.pc = "wait_exchange" <=> player[pl].pc = "wait_exchange"
  BY <1>2, <1>3, <1>4
<1>5. CASE q.pc = "wait_exchange" /\ player[pl].pc # "wait_exchange"
  <2>1. Owing' = Owing \cup {pl} /\ pl \notin Owing
    BY <1>2, <1>3, <1>5
  <2> QED BY <1>5, <2>1, OwingFinite, CountUsers
<1>6. CASE q.pc # "wait_exchange" /\ player[pl].pc = "wait_exchange"
  <2>1. Owing' = Owing \ {pl} /\ pl \in Owing
    BY <1>2, <1>3, <1>6
  <2> QED BY <1>6, <2>1, OwingFinite, CountUsers
<1> QED BY <1>4, <1>5, <1>6

(* A request served on a cached page.  A write to a clean page makes one     *)
(* dirty page more; either a free dirty page is given up for it at once or   *)
(* the player stays behind, owing it.                                        *)
LEMMA ServeBudget ==
  ASSUME BookInv, DirtyBudget, NEW pl \in Players, player[pl].pc # "wait_exchange",
         NEW r \in PlayerStates, r.slot \in Cached, NEW held, Serve(pl, r, held)
  PROVE  DirtyBudget'
<1>1. /\ DataOK /\ PlayersOK /\ ListsPartitionSlots /\ r.slot \in Slots
      /\ r.slot \in Clean \/ r.slot \in Dirty
      /\ IsDirty(r.slot) <=> r.slot \in Dirty
      /\ clean_list \in Seq(Slots) /\ dirty_list \in Seq(Slots)
      /\ NoDuplicates(clean_list) /\ NoDuplicates(dirty_list)
  BY ListedSlots, ListsNow DEF BookInv, TypeInv, DataOK, Cached, HashMatchesLists
<1>2. /\ IdlePlayer.pc = "idle" /\ [r EXCEPT !.pc = "issue"].pc = "issue"
      /\ [[r EXCEPT !.slot = NoSlot] EXCEPT !.pc = "wait_exchange"].pc = "wait_exchange"
  BY DEF IdlePlayer, PlayerStates
<1>3. CASE ~WriteClean(pl, r, held)
  <2>1. dpage_cnt' = dpage_cnt /\ free_dirty_list' = free_dirty_list
    BY <1>3 DEF Serve, ReadClean, ReadDirtyHit, ReadDirtyMiss, WriteDirty, counterVars
  <2>2. \/ dirty_list' = dirty_list
        \/ r.slot \in Dirty /\ dirty_list' = MoveToHead(dirty_list, r.slot)
    BY <1>1, <1>3 DEF Serve, ReadClean, ReadDirtyHit, ReadDirtyMiss, WriteDirty
  <2>3. Len(dirty_list') = Len(dirty_list)
    BY <1>1, <2>2, MoveToHeadExact DEF Dirty
  <2>4. \/ player' = [player EXCEPT ![pl] = IdlePlayer]
        \/ player' = [player EXCEPT ![pl] = [r EXCEPT !.pc = "issue"]]
    BY <1>3 DEF Serve, ReadClean, ReadDirtyHit, ReadDirtyMiss, WriteDirty, Return, Suspend
  <2>5. Owing' = Owing
    BY <1>1, <1>2, <2>4, OwingMoves
  <2> QED BY <2>1, <2>3, <2>5, SameBudget
<1>4. CASE WriteClean(pl, r, held)
  <2>1. r.slot \notin Dirty /\ dirty_list' = AddToHead(dirty_list, r.slot)
    BY <1>1, <1>4 DEF WriteClean
  <2>2. Len(dirty_list') = Len(dirty_list) + 1 /\ dpage_cnt' = dpage_cnt + 1
    BY <1>1, <1>4, <2>1, AddToHeadLen DEF WriteClean
  <2>3. CASE ExchangeFreePage /\ Return(pl)
    <3>1. Len(free_dirty_list') = Len(free_dirty_list) - 1
      BY <1>1, <2>3, ExchangeLists
    <3>2. Owing' = Owing
      BY <1>1, <1>2, <2>3, OwingMoves DEF Return
    <3>3. /\ Len(free_dirty_list') = Len(free_dirty_list) + (-1)
          /\ Cardinality(Owing') = Cardinality(Owing) + 1 + (-1)
      BY <1>1, <3>1, <3>2, BudgetNumbers, OwingFinite
    <3> QED BY <1>1, <2>2, <3>3, BudgetStep
  <2>4. CASE /\ Suspend(pl, [r EXCEPT !.slot = NoSlot], "wait_exchange")
             /\ UNCHANGED free_dirty_list
    <3>1. Cardinality(Owing') = Cardinality(Owing) + 1
      BY <1>1, <1>2, <2>4, OwingMoves DEF Suspend
    <3>2. /\ Len(free_dirty_list') = Len(free_dirty_list) + 0
          /\ Cardinality(Owing') = Cardinality(Owing) + 1 + 0
      BY <1>1, <2>4, <3>1, BudgetNumbers, OwingFinite
    <3> QED BY <1>1, <2>2, <3>2, BudgetStep
  <2> QED BY <1>4, <2>3, <2>4 DEF WriteClean
<1> QED BY <1>3, <1>4

(* A page gets a slot. *)
LEMMA FillBudget ==
  ASSUME BookInv, DirtyBudget, NEW pl \in Players, player[pl].pc # "wait_exchange",
         NEW r \in PlayerStates, r.page \in Pages, lru_find(r.page) = {},
         \/ \E s \in IdleOn(clean_list) : Evict(pl, r, s)
         \/ TakeFreeClean(pl, r)
         \/ InsertDirty(pl, r)
  PROVE  DirtyBudget'
<1>1. DataOK /\ PlayersOK /\ ListsPartitionSlots /\ HashMatchesLists
  BY DEF BookInv, TypeInv
<1>2. CASE InsertDirty(pl, r)
  <2>1. /\ Len(dirty_list') = Len(dirty_list) + 1
        /\ Len(free_dirty_list') = Len(free_dirty_list) - 1
        /\ dpage_cnt' = dpage_cnt + 1
    BY <1>1, <1>2, InsertDirtyLists DEF InsertDirty
  <2>2. player' = [player EXCEPT ![pl] = IdlePlayer] /\ IdlePlayer.pc = "idle"
    BY <1>2 DEF InsertDirty, Return, IdlePlayer
  <2>3. Owing' = Owing
    BY <1>1, <2>2, OwingMoves
  <2>4. /\ Len(free_dirty_list') = Len(free_dirty_list) + (-1)
        /\ Cardinality(Owing') = Cardinality(Owing) + 1 + (-1)
    BY <1>1, <2>1, <2>3, BudgetNumbers, OwingFinite
  <2> QED BY <1>1, <2>1, <2>4, BudgetStep
<1>3. CASE \/ \E s \in IdleOn(clean_list) : Evict(pl, r, s)
           \/ TakeFreeClean(pl, r)
  <2>1. PICK s : Install(pl, r, s) /\ UNCHANGED <<dirty_list, free_dirty_list, counterVars>>
    BY <1>3 DEF Evict, TakeFreeClean
  <2> DEFINE q == [[r EXCEPT !.slot = s] EXCEPT !.pc = "issue"]
  <2>2. q.pc = "issue"
    BY DEF PlayerStates
  <2>3. player' = [player EXCEPT ![pl] = q]
    BY <2>1 DEF Install, Suspend
  <2>4. Owing' = Owing
    BY <1>1, <2>2, <2>3, OwingMoves
  <2> QED BY <2>1, <2>4, SameBudget DEF counterVars
<1> QED BY <1>2, <1>3

LEMMA WaitBudget ==
  ASSUME BookInv, DirtyBudget, NEW pl \in Players, player[pl].pc # "wait_exchange",
         NEW r \in PlayerStates, NEW where, where # "wait_exchange",
         Suspend(pl, r, where), UNCHANGED <<listVars, counterVars>>
  PROVE  DirtyBudget'
<1>1. [r EXCEPT !.pc = where].pc = where
  BY DEF PlayerStates
<1>2. Owing' = Owing
  BY <1>1, OwingMoves DEF Suspend, BookInv, TypeInv
<1> QED BY <1>2, SameBudget DEF listVars, counterVars

LEMMA DirtyBudgetNext == BookInv /\ DirtyBudget /\ [AnyPageNext]_vars => DirtyBudget'
<1> SUFFICES ASSUME BookInv, DirtyBudget, [AnyPageNext]_vars PROVE DirtyBudget'
  OBVIOUS
<1>1. /\ DataOK /\ PlayersOK /\ ListsPartitionSlots /\ HashMatchesLists
      /\ IdlePlayer.pc = "idle"
  BY DEF BookInv, TypeInv, IdlePlayer
<1>2. ASSUME NEW pl \in Players, AnyReplacePage(pl) \/ AnyPlayerProceeds(pl) PROVE DirtyBudget'
  <2> DEFINE r == player[pl]
  <2>1. r \in PlayerStates
    BY <1>1 DEF PlayersOK, MayBeAt
  <2>2. CASE r.pc # "wait_exchange" /\ ServesPage(pl)
    BY <2>2, ServeBudget DEF ServesPage
  <2>3. CASE r.pc # "wait_exchange" /\ FillsPage(pl)
    BY <2>3, FillBudget DEF FillsPage
  <2>4. CASE r.pc # "wait_exchange" /\ GoesToWait(pl)
    BY <2>4, WaitBudget DEF GoesToWait
  <2>5. CASE ExchangeSeen(pl)
    <3>1. /\ r.pc = "wait_exchange" /\ ExchangeFreePage
          /\ player' = [player EXCEPT ![pl] = IdlePlayer]
          /\ UNCHANGED <<dirty_list, dpage_cnt>>
      BY <2>5 DEF ExchangeSeen, Return, counterVars
    <3>2. Cardinality(Owing') = Cardinality(Owing) - 1
      BY <1>1, <3>1, OwingMoves
    <3>3. Len(free_dirty_list') = Len(free_dirty_list) - 1
      BY <1>1, <3>1, ExchangeLists
    <3>4. /\ Len(free_dirty_list') = Len(free_dirty_list) + (-1)
          /\ Cardinality(Owing') = Cardinality(Owing) + 0 + (-1)
          /\ dpage_cnt' = dpage_cnt + 0 /\ Len(dirty_list') = Len(dirty_list) + 0
      BY <1>1, <3>1, <3>2, <3>3, BudgetNumbers, OwingFinite
    <3> QED BY <1>1, <3>4, BudgetStep
  <2>6. CASE IssueRead(pl)
    <3>1. r.pc = "issue" /\ UNCHANGED <<listVars, counterVars>>
      BY <2>6 DEF IssueRead
    <3>2. \/ player' = [player EXCEPT ![pl] = IdlePlayer]
          \/ Suspend(pl, r, "callback")
      BY <2>6 DEF IssueRead, Return
    <3>3. CASE player' = [player EXCEPT ![pl] = IdlePlayer]
      <4>1. Owing' = Owing
        BY <1>1, <3>1, <3>3, OwingMoves
      <4> QED BY <3>1, <4>1, SameBudget DEF listVars, counterVars
    <3>4. CASE Suspend(pl, r, "callback")
      BY <2>1, <3>1, <3>4, WaitBudget
    <3> QED BY <3>2, <3>3, <3>4
  <2> QED BY <1>2, <2>2, <2>3, <2>4, <2>5, <2>6, PlayerActs
<1>4. CASE AnyDestagerProceeds \/ StartRecovery \/ EndRecovery \/ UNCHANGED vars
  <2>1. UNCHANGED <<dpage_cnt, dirty_list, free_dirty_list, player>>
    BY <1>4 DEF AnyDestagerProceeds, DestageWanted, DestageBudget, AnyDestagePick, IssueDestage,
                StartRecovery, EndRecovery, vars, counterVars, listVars
  <2> QED BY <2>1, SameBudget DEF Owing
<1>5. ASSUME NEW io \in ios, Callback(io) PROVE DirtyBudget'
  <2>1. Owing' = Owing
    <3>1. player' = IF io.by \in Players THEN [player EXCEPT ![io.by] = IdlePlayer] ELSE player
      BY <1>5 DEF Callback, lru_finish_read, lru_finish_destage_read, lru_finish_destage_write,
                  Complete
    <3>2. io.by \in Players => player[io.by].pc = "callback"
      BY DEF BookInv, UsersOK, ThreadsHold
    <3>3. CASE io.by \in Players
      BY <1>1, <3>1, <3>2, <3>3, OwingMoves
    <3>4. CASE io.by \notin Players
      BY <3>1, <3>4 DEF Owing
    <3> QED BY <3>3, <3>4
  <2>2. CASE UNCHANGED <<dpage_cnt, dirty_list, free_dirty_list>>
    BY <2>1, <2>2, SameBudget
  <2>3. CASE ~UNCHANGED <<dpage_cnt, dirty_list, free_dirty_list>>
    <3>1. PICK s \in lru_find(io.page) :
            /\ IsDirty(s) /\ state' = [state EXCEPT ![s] = @ \cup {"UPTODATE"}]
            /\ dpage_cnt' = dpage_cnt - 1
            /\ hash' = [hash EXCEPT ![HashOf[page[s]]] = @ \ {s}]
            /\ dirty_list' = RemoveNode(dirty_list, s)
            /\ free_dirty_list' = AddToHead(free_dirty_list, s)
            /\ UNCHANGED <<page, clean_list, free_clean_list>>
      BY <1>5, <2>3 DEF Callback, lru_finish_read, lru_finish_destage_read,
                        lru_finish_destage_write, listVars, counterVars
    <3>2. io.page \in Pages /\ state \in [Slots -> SUBSET {"DIRTY", "UPTODATE"}]
      BY DEF BookInv, TypeInv, DataOK, EnvironmentOK, IoRecords
    <3>3. s \in Dirty /\ s \in Slots
      BY <1>1, <3>1, <3>2, FindExact, ListedSlots DEF HashMatchesLists
    <3>4. \A t \in Slots : IsDirty(t)' <=> IsDirty(t)
      BY <3>1, <3>2, <3>3 DEF IsDirty
    <3>5. /\ Len(dirty_list') = Len(dirty_list) - 1
          /\ Len(free_dirty_list') = Len(free_dirty_list) + 1
      BY <1>1, <3>1, <3>3, <3>4, FreeLists
    <3>6. /\ Len(dirty_list') = Len(dirty_list) + (-1) /\ dpage_cnt' = dpage_cnt + (-1)
          /\ Cardinality(Owing') = Cardinality(Owing) + (-1) + 1
      BY <1>1, <2>1, <3>1, <3>5, BudgetNumbers, OwingFinite
    <3> QED BY <1>1, <3>5, <3>6, BudgetStep
  <2> QED BY <2>2, <2>3
<1> QED BY <1>2, <1>4, <1>5 DEF AnyPageNext

LEMMA DirtyBudgetInit == Init => DirtyBudget
<1> SUFFICES ASSUME Init PROVE DirtyBudget
  OBVIOUS
<1>1. DPages \in Nat
  BY SizesAssumption, SlotsAssumption, FS_CardinalityType
<1>2. free_dirty_list \in Seq(Slots)
  BY TypeInvInit DEF TypeInv, DataOK
<1>3. PICK f \in Orders : free_dirty_list = [i \in 1..DPages |-> f[i]]
  BY DEF Init
<1>4. DOMAIN free_dirty_list = 1..DPages
  BY <1>3
<1>5. Len(free_dirty_list) = DPages
  BY <1>1, <1>2, <1>4
<1>6. Owing = {}
  BY DEF Init, IdlePlayer, Owing
<1>7. Cardinality(Owing) = 0
  BY <1>6, FS_EmptySet
<1>8. dpage_cnt = 0 /\ Len(dirty_list) = 0
  BY DEF Init
<1> QED BY <1>1, <1>5, <1>7, <1>8 DEF DirtyBudget, Owing

LEMMA DirtyBudgetHolds == AnyPageSpec => []DirtyBudget
<1>1. BookInv /\ DirtyBudget /\ [AnyPageNext]_vars => DirtyBudget'
  BY DirtyBudgetNext
<1> QED BY <1>1, BookInvHolds, DirtyBudgetInit, PTL DEF AnyPageSpec

(* The dirty and the free dirty pages stay dpages in number, but for the     *)
(* pages that players waiting in the exchange of a write to a clean page     *)
(* still owe, and dpage_cnt counts the dirty ones (lru.c).                   *)
THEOREM DirtyWithinBudget == Spec => []DirtyBudget
BY LruTakesAnyPage, DirtyBudgetHolds, PTL

-----------------------------------------------------------------------------
(* The user's writes.                                                        *)

(* NoLostWrite by slots instead of pages. *)
Marked(p) == \E s \in Dirty : page[s] = p /\ pending[p] \subseteq bm_mask[s]
Saved == \A p \in Pages : pending[p] # {} => Marked(p)

LEMMA SavedIsNoLostWrite == BookInv => (NoLostWrite <=> Saved)
<1> SUFFICES ASSUME BookInv PROVE NoLostWrite <=> Saved
  OBVIOUS
<1>1. \A p \in Pages : lru_find(p) = {s \in Cached : page[s] = p}
  BY FindExact DEF BookInv, TypeInv
<1>2. Dirty \subseteq Cached
  BY DEF Cached
<1> QED BY <1>1, <1>2 DEF NoLostWrite, Saved, Marked

(* A step that writes nothing: dirty pages stay, with their marks. *)
LEMMA SavedKept ==
  ASSUME Saved, pending' = pending,
         \A s \in Dirty : s \in Dirty' /\ page'[s] = page[s] /\ bm_mask[s] \subseteq bm_mask'[s]
  PROVE  Saved'
BY DEF Saved, Marked

(* The user writes a page whose sectors are then all marked in one slot. *)
LEMMA SavedWrite ==
  ASSUME DataOK, Saved, NEW p \in Pages, NEW mask, UserWrote(p, mask),
         NEW s \in Slots, s \in Dirty', page'[s] = p, pending'[p] \subseteq bm_mask'[s],
         \A t \in Dirty \ {s} :
           t \in Dirty' /\ page'[t] = page[t] /\ bm_mask[t] \subseteq bm_mask'[t],
         s \in Dirty => page[s] = p
  PROVE  Saved'
<1>1. \A q \in Pages \ {p} : pending'[q] = pending[q]
  BY DEF DataOK, UserWrote
<1>2. ASSUME NEW q \in Pages, pending'[q] # {} PROVE Marked(q)'
  <2>1. CASE q = p
    BY <2>1 DEF Marked
  <2>2. CASE q # p
    <3>1. PICK t \in Dirty : page[t] = q /\ pending[q] \subseteq bm_mask[t]
      BY <1>1, <1>2, <2>2 DEF Saved, Marked
    <3>2. t # s
      BY <2>2, <3>1
    <3> QED BY <1>1, <2>2, <3>1, <3>2 DEF Marked
  <2> QED BY <2>1, <2>2
<1> QED BY <1>2 DEF Saved

(* A page that is not in the cache, or clean, has nothing unsaved. *)
LEMMA NothingUnsaved ==
  ASSUME BookInv, Saved, NEW p \in Pages, \A s \in Cached : page[s] = p => s \notin Dirty
  PROVE  pending[p] = {}
BY DEF Saved, Marked, Cached

LEMMA ServeSaved ==
  ASSUME BookInv, Saved, NEW pl \in Players, NEW r \in PlayerStates, r.page \in Pages,
         r.slot \in Cached, page[r.slot] = r.page, NEW held, Serve(pl, r, held)
  PROVE  Saved'
<1> DEFINE s == r.slot
           p == r.page
<1>1. /\ DataOK /\ ListsPartitionSlots /\ HashMatchesLists /\ s \in Slots /\ p \in Pages
      /\ IsDirty(s) <=> s \in Dirty
      /\ \A t \in Dirty : page[t] = p => t = s
      /\ r.mask \subseteq Sectors
      /\ Dirty \subseteq Slots
  BY ListedSlots DEF BookInv, TypeInv, Cached, HashMatchesLists, PlayerStates
<1>2. Dirty \subseteq Dirty' /\ page' = page
  BY <1>1, ServeLists
<1>3. /\ bm_mask \in [Slots -> SUBSET Sectors] /\ pending \in [Pages -> SUBSET Sectors]
      /\ dirty_list \in Seq(Slots)
  BY <1>1 DEF DataOK
<1> HIDE DEF s, p
<1>4. pending[p] # {} => s \in Dirty /\ pending[p] \subseteq bm_mask[s]
  BY <1>1 DEF Saved, Marked
<1>5. CASE ReadClean(pl, r, held) \/ ReadDirtyHit(pl, r, held) \/ ReadDirtyMiss(pl, r, held)
  <2>1. pending' = pending /\ bm_mask' = bm_mask
    BY <1>5 DEF ReadClean, ReadDirtyHit, ReadDirtyMiss, ghostVars
  <2> QED BY <1>2, <2>1, SavedKept
<1>6. CASE WriteDirty(pl, r, held) \/ WriteClean(pl, r, held)
  <2>1. UserWrote(p, r.mask)
    BY <1>6 DEF WriteDirty, WriteClean, p
  <2>2. pending'[p] = pending[p] \cup r.mask
    BY <1>1, <1>3, <2>1 DEF UserWrote
  <2>3. \/ bm_mask' = [bm_mask EXCEPT ![s] = @ \cup r.mask] /\ s \in Dirty
        \/ bm_mask' = [bm_mask EXCEPT ![s] = Sectors]
    BY <1>1, <1>6 DEF WriteDirty, WriteClean, s
  <2>4. pending'[p] \subseteq bm_mask'[s]
    <3>1. CASE bm_mask' = [bm_mask EXCEPT ![s] = @ \cup r.mask]
      BY <1>1, <1>3, <1>4, <2>2, <3>1
    <3>2. CASE bm_mask' = [bm_mask EXCEPT ![s] = Sectors]
      BY <1>1, <1>3, <2>2, <3>2
    <3> QED BY <2>3, <3>1, <3>2
  <2>5. \A t \in Slots \ {s} : bm_mask'[t] = bm_mask[t]
    BY <1>3, <2>3
  <2>6. s \in Dirty'
    <3>1. CASE WriteDirty(pl, r, held)
      BY <1>1, <1>2, <3>1 DEF WriteDirty, s
    <3>2. CASE WriteClean(pl, r, held)
      <4>1. dirty_list' = AddToHead(dirty_list, s) /\ s \notin Dirty
        BY <1>1, <3>2 DEF WriteClean, s
      <4> QED BY <1>1, <1>3, <4>1, ListsNow, AddToHeadExact DEF Dirty
    <3> QED BY <1>6, <3>1, <3>2
  <2>7. page'[s] = p /\ page[s] = p
    BY <1>2 DEF s, p
  <2> QED BY <1>1, <1>2, <2>1, <2>4, <2>5, <2>6, <2>7, SavedWrite
<1> QED BY <1>5, <1>6 DEF Serve

LEMMA FillSaved ==
  ASSUME BookInv, Saved, NEW pl \in Players, NEW r \in PlayerStates, r.page \in Pages,
         lru_find(r.page) = {},
         \/ \E s \in IdleOn(clean_list) : Evict(pl, r, s)
         \/ TakeFreeClean(pl, r)
         \/ InsertDirty(pl, r)
  PROVE  Saved'
<1>1. /\ DataOK /\ ListsPartitionSlots /\ HashMatchesLists /\ Dirty \subseteq Slots
      /\ Clean \subseteq Slots /\ r.mask \subseteq Sectors
  BY ListedSlots DEF BookInv, TypeInv, PlayerStates
<1>2. /\ bm_mask \in [Slots -> SUBSET Sectors] /\ pending \in [Pages -> SUBSET Sectors]
      /\ page \in [Slots -> Pages \cup {NoPage}]
  BY <1>1 DEF DataOK
<1>3. ASSUME NEW s \in Slots, s \notin Dirty, Install(pl, r, s), Dirty' = Dirty,
             pending' = pending
      PROVE  Saved'
  <2>1. \A t \in Slots \ {s} : page'[t] = page[t] /\ bm_mask'[t] = bm_mask[t]
    BY <1>2, <1>3 DEF Install
  <2> QED BY <1>1, <1>3, <2>1, SavedKept
<1>4. ASSUME NEW s \in IdleOn(clean_list), Evict(pl, r, s) PROVE Saved'
  <2>1. s \in Clean /\ s \notin Dirty /\ Dirty' = Dirty
    BY <1>1, <1>4, EvictLists, ListsNow
  <2> QED BY <1>1, <1>3, <1>4, <2>1 DEF Evict
<1>5. CASE TakeFreeClean(pl, r)
  <2>1. PICK s \in Free : Install(pl, r, s) /\ UNCHANGED Dirty
    BY <1>1, <1>5, TakeFreeCleanLists
  <2>2. s \in Slots /\ s \notin Dirty
    BY FreeUnused DEF Cached
  <2> QED BY <1>3, <1>5, <2>1, <2>2 DEF TakeFreeClean
<1>6. CASE InsertDirty(pl, r)
  <2>1. PICK s \in Free :
          /\ Dirty' = Dirty \cup {s} /\ page' = [page EXCEPT ![s] = r.page]
          /\ bm_mask' = [bm_mask EXCEPT ![s] = @ \cup r.mask]
    BY <1>1, <1>6, InsertDirtyLists
  <2>2. s \in Slots /\ s \notin Dirty
    BY FreeUnused DEF Cached
  <2>3. pending[r.page] = {}
    <3>1. \A t \in Cached : page[t] # r.page
      BY <1>1, FindExact
    <3> QED BY <3>1, NothingUnsaved
  <2>4. UserWrote(r.page, r.mask)
    BY <1>6 DEF InsertDirty
  <2>5. pending'[r.page] = r.mask
    BY <1>2, <2>3, <2>4 DEF UserWrote
  <2>6. /\ page'[s] = r.page /\ r.mask \subseteq bm_mask'[s]
        /\ \A t \in Slots \ {s} : page'[t] = page[t] /\ bm_mask'[t] = bm_mask[t]
    BY <1>2, <2>1, <2>2
  <2> QED BY <1>1, <2>1, <2>2, <2>4, <2>5, <2>6, SavedWrite
<1> QED BY <1>4, <1>5, <1>6

(* A callback marks sectors; that of a destage write leaves nothing unsaved  *)
(* of its page, whether or not the page stays.                               *)
LEMMA CallbackSaved ==
  ASSUME BookInv, Saved, NEW io \in ios, Callback(io)
  PROVE  Saved'
<1>1. /\ DataOK /\ ListsPartitionSlots /\ HashMatchesLists /\ io.page \in Pages
      /\ Dirty \subseteq Slots /\ Cached \subseteq Slots
  BY ListedSlots DEF BookInv, TypeInv, EnvironmentOK, IoRecords
<1>2. /\ bm_mask \in [Slots -> SUBSET Sectors] /\ pending \in [Pages -> SUBSET Sectors]
      /\ state \in [Slots -> SUBSET {"DIRTY", "UPTODATE"}]
  BY <1>1 DEF DataOK
<1>3. CASE lru_finish_read(io) \/ lru_finish_destage_read(io)
  <2>1. PICK s \in lru_find(io.page) : bm_mask' \in {bm_mask, [bm_mask EXCEPT ![s] = Sectors]}
    BY <1>3 DEF lru_finish_read, lru_finish_destage_read
  <2>2. \A t \in Slots : bm_mask[t] \subseteq bm_mask'[t]
    BY <1>2, <2>1
  <2>3. UNCHANGED <<page, pending, Dirty>>
    BY <1>3 DEF lru_finish_read, lru_finish_destage_read, listVars, Dirty
  <2> QED BY <1>1, <2>2, <2>3, SavedKept
<1>4. CASE lru_finish_destage_write(io)
  <2>1. PICK s \in lru_find(io.page) :
          /\ IsDirty(s) /\ state' = [state EXCEPT ![s] = @ \cup {"UPTODATE"}]
          /\ \/ UNCHANGED <<hash, dirty_list, free_dirty_list>>
             \/ /\ hash' = [hash EXCEPT ![HashOf[page[s]]] = @ \ {s}]
                /\ dirty_list' = RemoveNode(dirty_list, s)
                /\ free_dirty_list' = AddToHead(free_dirty_list, s)
    BY <1>4 DEF lru_finish_destage_write
  <2>2. /\ UNCHANGED <<page, bm_mask, clean_list, free_clean_list>>
        /\ pending' = [pending EXCEPT ![io.page] = {}]
    BY <1>4 DEF lru_finish_destage_write
  <2>3. s \in Cached /\ page[s] = io.page /\ s \in Dirty
    BY <1>1, <2>1, FindExact DEF HashMatchesLists
  <2>4. \A t \in Slots : IsDirty(t)' <=> IsDirty(t)
    BY <1>2, <2>1 DEF IsDirty
  <2>5. Dirty \ {s} \subseteq Dirty'
    <3>1. CASE UNCHANGED dirty_list
      BY <3>1 DEF Dirty
    <3>2. CASE ~UNCHANGED dirty_list
      BY <1>1, <2>1, <2>2, <2>3, <2>4, <3>2, FreeLists
    <3> QED BY <3>1, <3>2
  <2>6. ASSUME NEW q \in Pages, pending'[q] # {} PROVE Marked(q)'
    <3>1. q # io.page /\ pending'[q] = pending[q]
      BY <1>1, <1>2, <2>2, <2>6
    <3>2. PICK t \in Dirty : page[t] = q /\ pending[q] \subseteq bm_mask[t]
      BY <2>6, <3>1 DEF Saved, Marked
    <3>3. t # s
      BY <2>3, <3>1, <3>2
    <3> QED BY <2>2, <2>5, <3>1, <3>2, <3>3 DEF Marked
  <2> QED BY <2>6 DEF Saved
<1> QED BY <1>3, <1>4 DEF Callback

LEMMA SavedNext == BookInv /\ Saved /\ [AnyPageNext]_vars => Saved'
<1> SUFFICES ASSUME BookInv, Saved, [AnyPageNext]_vars PROVE Saved'
  OBVIOUS
<1>1. CASE UNCHANGED <<page, bm_mask, dirty_list, pending>>
  BY <1>1, SavedKept DEF Dirty
<1>2. ASSUME NEW pl \in Players, AnyReplacePage(pl) \/ AnyPlayerProceeds(pl) PROVE Saved'
  <2>1. CASE ServesPage(pl)
    BY <2>1, ServeSaved DEF ServesPage
  <2>2. CASE FillsPage(pl)
    BY <2>2, FillSaved DEF FillsPage
  <2>3. CASE GoesToWait(pl) \/ ExchangeSeen(pl) \/ IssueRead(pl)
    BY <1>1, <2>3 DEF GoesToWait, ExchangeSeen, IssueRead, slotVars, listVars, ghostVars
  <2> QED BY <1>2, <2>1, <2>2, <2>3, PlayerActs
<1>4. CASE AnyDestagerProceeds \/ StartRecovery \/ EndRecovery \/ UNCHANGED vars
  <2>1. UNCHANGED <<page, bm_mask, dirty_list, pending>>
    BY <1>4 DEF AnyDestagerProceeds, DestageWanted, DestageBudget, AnyDestagePick, IssueDestage,
                StartRecovery, EndRecovery, vars, slotVars, listVars, ghostVars
  <2> QED BY <1>1, <2>1
<1>5. ASSUME NEW io \in ios, Callback(io) PROVE Saved'
  BY <1>5, CallbackSaved
<1> QED BY <1>2, <1>4, <1>5 DEF AnyPageNext

LEMMA SavedInit == Init => Saved
BY DEF Init, Saved

LEMMA NoLostWriteHolds == AnyPageSpec => []NoLostWrite
<1>1. BookInv /\ Saved /\ [AnyPageNext]_vars => Saved'
  BY SavedNext
<1>2. AnyPageSpec => []Saved
  BY <1>1, BookInvHolds, SavedInit, PTL DEF AnyPageSpec
<1> QED BY <1>2, BookInvHolds, SavedIsNoLostWrite, PTL

(* Nothing the user wrote is dropped: sectors that are not on disk are       *)
(* marked in the bitmap of a dirty cached page, through evictions, exchanges *)
(* and destage I/Os that overlap later writes (lru.c).                       *)
THEOREM WritesNeverLost == Spec => []NoLostWrite
BY LruTakesAnyPage, NoLostWriteHolds, PTL

-----------------------------------------------------------------------------
(* The write-back cache of WriteBackCache, seen page by page.                *)

(* A destage write of page p is on its way. *)
Writing(p) ==
  \/ \E i \in ios : i.page = p /\ i.kind = "destage_write"
  \/ destager.pc = "issue" /\ destager.full /\ page[destager.slot] = p

(* StatusOf and IoOf by slots instead of lookups. *)
SeenByPage ==
  /\ \A s \in Cached :
       /\ StatusOf(page[s]) = IF IsDirty(s) THEN "dirty" ELSE "clean"
       /\ IsUptodate(s) => IoOf(page[s]) = "none"
       /\ ~IsUptodate(s) => IoOf(page[s]) = IF Writing(page[s]) THEN "write" ELSE "read"
  /\ \A p \in Pages :
       (\A s \in Cached : page[s] # p) => StatusOf(p) = "absent" /\ IoOf(p) = "none"

LEMMA SeenByPageHolds == BookInv => SeenByPage
<1> SUFFICES ASSUME BookInv PROVE SeenByPage
  OBVIOUS
<1>1. \A p \in Pages : lru_find(p) = {s \in Cached : page[s] = p}
  BY FindExact DEF BookInv, TypeInv
<1>2. ASSUME NEW s \in Cached
      PROVE  /\ StatusOf(page[s]) = IF IsDirty(s) THEN "dirty" ELSE "clean"
             /\ IsUptodate(s) => IoOf(page[s]) = "none"
             /\ ~IsUptodate(s) => IoOf(page[s]) = IF Writing(page[s]) THEN "write" ELSE "read"
  <2>1. lru_find(page[s]) = {s}
    BY <1>1 DEF BookInv, HashMatchesLists
  <2>2. StatusOf(page[s]) = IF IsDirty(s) THEN "dirty" ELSE "clean"
    BY <2>1 DEF StatusOf
  <2>3. IoOf(page[s]) = IF IsUptodate(s) THEN "none"
                        ELSE IF Writing(page[s]) THEN "write" ELSE "read"
    BY <2>1 DEF IoOf, Writing
  <2> QED BY <2>2, <2>3
<1>3. ASSUME NEW p \in Pages, \A s \in Cached : page[s] # p
      PROVE  StatusOf(p) = "absent" /\ IoOf(p) = "none"
  <2>1. lru_find(p) = {}
    BY <1>1, <1>3
  <2> QED BY <2>1 DEF StatusOf, IoOf
<1> QED BY <1>2, <1>3 DEF SeenByPage

(* There are no more cached pages than slots. *)
WithinCapacity == Cardinality({p \in Pages : StatusOf(p) # "absent"}) <= Cardinality(Slots)

LEMMA WithinCapacityHolds == BookInv => WithinCapacity
<1> SUFFICES ASSUME BookInv PROVE WithinCapacity
  OBVIOUS
<1> DEFINE T == {p \in Pages : StatusOf(p) # "absent"}
           f == [s \in Cached |-> page[s]]
<1>1. SeenByPage
  BY SeenByPageHolds
<1>2. \A s \in Cached : page[s] \in T
  BY <1>1 DEF SeenByPage, BookInv, HashMatchesLists
<1>3. \A p \in T : \E s \in Cached : page[s] = p
  BY <1>1 DEF SeenByPage
<1> HIDE DEF T
<1>4. f \in Surjection(Cached, T)
  BY <1>2, <1>3 DEF Surjection
<1>5. Cached \subseteq Slots
  BY ListedSlots DEF BookInv, TypeInv
<1>6. IsFiniteSet(Cached) /\ Cardinality(Cached) <= Cardinality(Slots)
  BY <1>5, SlotsAssumption, FS_Subset
<1> HIDE DEF f
<1>7. IsFiniteSet(T) /\ Cardinality(T) <= Cardinality(Cached)
  BY <1>4, <1>6, FS_Surjection
<1>8. /\ Cardinality(T) \in Nat /\ Cardinality(Cached) \in Nat /\ Cardinality(Slots) \in Nat
  BY <1>6, <1>7, SlotsAssumption, FS_CardinalityType
<1> QED BY <1>6, <1>7, <1>8 DEF WithinCapacity, T

CachedListed == Cached \subseteq Slots

LEMMA CachedAreSlots == BookInv => CachedListed
BY ListedSlots DEF BookInv, TypeInv, CachedListed

(* What a page looks like before and after a step. *)
LEMMA Seen ==
  ASSUME BookInv, NEW q \in Pages
  PROVE  /\ \A s \in Cached : page[s] = q =>
              /\ StatusOf(q) = IF IsDirty(s) THEN "dirty" ELSE "clean"
              /\ IsUptodate(s) => IoOf(q) = "none"
              /\ ~IsUptodate(s) => IoOf(q) = IF Writing(q) THEN "write" ELSE "read"
         /\ (\A s \in Cached : page[s] # q) => StatusOf(q) = "absent" /\ IoOf(q) = "none"
BY SeenByPageHolds DEF SeenByPage

LEMMA SeenNext ==
  ASSUME BookInv', NEW q \in Pages
  PROVE  /\ \A s \in Cached' : page'[s] = q =>
              /\ StatusOf(q)' = IF IsDirty(s)' THEN "dirty" ELSE "clean"
              /\ IsUptodate(s)' => IoOf(q)' = "none"
              /\ ~IsUptodate(s)' => IoOf(q)' = IF Writing(q)' THEN "write" ELSE "read"
         /\ (\A s \in Cached' : page'[s] # q) => StatusOf(q)' = "absent" /\ IoOf(q)' = "none"
<1>1. SeenByPage'
  BY SeenByPageHolds, PTL
<1>2. ASSUME NEW s \in Cached', page'[s] = q
      PROVE  /\ StatusOf(q)' = IF IsDirty(s)' THEN "dirty" ELSE "clean"
             /\ IsUptodate(s)' => IoOf(q)' = "none"
             /\ ~IsUptodate(s)' => IoOf(q)' = IF Writing(q)' THEN "write" ELSE "read"
  <2>1. /\ StatusOf(page[s])' = IF IsDirty(s)' THEN "dirty" ELSE "clean"
        /\ IsUptodate(s)' => IoOf(page[s])' = "none"
        /\ ~IsUptodate(s)' => IoOf(page[s])' = IF Writing(page[s])' THEN "write" ELSE "read"
    BY <1>1 DEF SeenByPage
  <2>2. /\ StatusOf(page[s])' = StatusOf(q)' /\ IoOf(page[s])' = IoOf(q)'
        /\ Writing(page[s])' <=> Writing(q)'
    BY <1>2 DEF StatusOf, IoOf, Writing
  <2> QED BY <2>1, <2>2
<1>3. (\A s \in Cached' : page'[s] # q) => StatusOf(q)' = "absent" /\ IoOf(q)' = "none"
  BY <1>1 DEF SeenByPage
<1> QED BY <1>2, <1>3

(* Pages whose slot, state bits and destage write a step leaves alone look   *)
(* the same afterwards.                                                      *)
LEMMA PagesSame ==
  ASSUME BookInv, BookInv', NEW P \in SUBSET Pages,
         \A q \in P, t \in Slots :
           t \in Cached' /\ page'[t] = q <=> t \in Cached /\ page[t] = q,
         \A t \in Cached : page[t] \in P => /\ IsDirty(t)' <=> IsDirty(t)
                                            /\ IsUptodate(t)' <=> IsUptodate(t),
         \A q \in P : Writing(q)' <=> Writing(q)
  PROVE  \A q \in P : StatusOf(q)' = StatusOf(q) /\ IoOf(q)' = IoOf(q)
<1>1. Cached \subseteq Slots /\ Cached' \subseteq Slots
  <2>1. CachedListed'
    BY CachedAreSlots, PTL
  <2> QED BY <2>1, CachedAreSlots DEF CachedListed
<1> SUFFICES ASSUME NEW q \in P PROVE StatusOf(q)' = StatusOf(q) /\ IoOf(q)' = IoOf(q)
  OBVIOUS
<1>2. CASE \E t \in Cached : page[t] = q
  <2>1. PICK t \in Slots : t \in Cached /\ page[t] = q
    BY <1>1, <1>2
  <2>2. t \in Cached' /\ page'[t] = q
    BY <2>1
  <2>3. /\ StatusOf(q) = IF IsDirty(t) THEN "dirty" ELSE "clean"
        /\ IsUptodate(t) => IoOf(q) = "none"
        /\ ~IsUptodate(t) => IoOf(q) = IF Writing(q) THEN "write" ELSE "read"
    BY <2>1, Seen
  <2>4. /\ StatusOf(q)' = IF IsDirty(t)' THEN "dirty" ELSE "clean"
        /\ IsUptodate(t)' => IoOf(q)' = "none"
        /\ ~IsUptodate(t)' => IoOf(q)' = IF Writing(q)' THEN "write" ELSE "read"
    BY <2>2, SeenNext
  <2> QED BY <2>1, <2>3, <2>4
<1>3. CASE \A t \in Cached : page[t] # q
  <2>1. \A t \in Cached' : page'[t] # q
    BY <1>1, <1>3
  <2>2. StatusOf(q) = "absent" /\ IoOf(q) = "none"
    BY <1>3, Seen
  <2>3. StatusOf(q)' = "absent" /\ IoOf(q)' = "none"
    BY <2>1, SeenNext
  <2> QED BY <2>2, <2>3
<1> QED BY <1>2, <1>3

-----------------------------------------------------------------------------
(* The steps of the promise, told page by page.                              *)

(* Every page but those of P looks the same. *)
OthersSame(P) ==
  \A q \in Pages \ P : StatusOf(q)' = StatusOf(q) /\ IoOf(q)' = IoOf(q)

(* The promise counts as the cache does. *)
LEMMA PromiseCounts == \A S : Promise!Cardinality(S) = Cardinality(S)
BY DEF Promise!Cardinality, Cardinality

LEMMA PromiseStutters ==
  ASSUME OthersSame({}), pending' = pending
  PROVE  UNCHANGED Promise!vars
<1>1. [p \in Pages |-> StatusOf(p)]' = [p \in Pages |-> StatusOf(p)]
  BY DEF OthersSame
<1>2. [p \in Pages |-> IoOf(p)]' = [p \in Pages |-> IoOf(p)]
  BY DEF OthersSame
<1> QED BY <1>1, <1>2 DEF Promise!vars

LEMMA PromiseUserWrite ==
  ASSUME WithinCapacity', NEW p \in Pages, NEW mask \in SUBSET Sectors, OthersSame({p}),
         IoOf(p) = "none", StatusOf(p)' = "dirty", IoOf(p)' = "none", UserWrote(p, mask)
  PROVE  Promise!UserWrite(p, mask)
<1>1. [q \in Pages |-> StatusOf(q)]' = [[q \in Pages |-> StatusOf(q)] EXCEPT ![p] = "dirty"]
  BY DEF OthersSame
<1>2. [q \in Pages |-> IoOf(q)]' = [q \in Pages |-> IoOf(q)]
  BY DEF OthersSame
<1>3. Promise!Cardinality(Promise!Cached([q \in Pages |-> StatusOf(q)]'))
        <= Cardinality(Slots)
  <2>1. Promise!Cached([q \in Pages |-> StatusOf(q)]') = {q \in Pages : StatusOf(q)' # "absent"}
    BY DEF Promise!Cached
  <2> QED BY <2>1, PromiseCounts DEF WithinCapacity
<1> QED BY <1>1, <1>2, <1>3 DEF Promise!UserWrite, Promise!AtRest, UserWrote

LEMMA PromiseFetch ==
  ASSUME WithinCapacity', NEW p \in Pages, NEW R \in {{}} \cup {{q} : q \in Pages},
         OthersSame({p} \cup R), StatusOf(p) = "absent", StatusOf(p)' = "clean",
         IoOf(p)' = "read", pending' = pending,
         \A q \in R : /\ StatusOf(q) = "clean" /\ IoOf(q) = "none"
                      /\ StatusOf(q)' = "absent" /\ IoOf(q)' = "none"
  PROVE  Promise!Fetch(p, R)
<1>1. [q \in Pages |-> StatusOf(q)]' =
        [q \in Pages |-> IF q = p THEN "clean"
                         ELSE IF q \in R THEN "absent" ELSE [x \in Pages |-> StatusOf(x)][q]]
  BY DEF OthersSame
<1>2. [q \in Pages |-> IoOf(q)]' = [[q \in Pages |-> IoOf(q)] EXCEPT ![p] = "read"]
  BY DEF OthersSame
<1>3. Promise!Cardinality(Promise!Cached([q \in Pages |-> StatusOf(q)]'))
        <= Cardinality(Slots)
  <2>1. Promise!Cached([q \in Pages |-> StatusOf(q)]') = {q \in Pages : StatusOf(q)' # "absent"}
    BY DEF Promise!Cached
  <2> QED BY <2>1, PromiseCounts DEF WithinCapacity
<1>4. R \subseteq Pages
  OBVIOUS
<1> QED BY <1>1, <1>2, <1>3, <1>4 DEF Promise!Fetch, Promise!AtRest

(* An I/O starts on a dirty page, or ends. *)
LEMMA PromiseIo ==
  ASSUME NEW p \in Pages, OthersSame({p}), StatusOf(p)' = StatusOf(p), pending' = pending
  PROVE  /\ StatusOf(p) = "dirty" /\ IoOf(p) = "none" /\ IoOf(p)' = "read" =>
              Promise!Complement(p)
         /\ StatusOf(p) = "dirty" /\ IoOf(p) = "none" /\ IoOf(p)' = "write" =>
              Promise!Destage(p)
         /\ IoOf(p) = "read" /\ IoOf(p)' = "none" => Promise!FinishRead(p)
<1>1. [q \in Pages |-> StatusOf(q)]' = [q \in Pages |-> StatusOf(q)]
  BY DEF OthersSame
<1>2. [q \in Pages |-> IoOf(q)]' = [[q \in Pages |-> IoOf(q)] EXCEPT ![p] = IoOf(p)']
  BY DEF OthersSame
<1> QED BY <1>1, <1>2
        DEF Promise!Complement, Promise!Destage, Promise!FinishRead, Promise!AtRest

LEMMA PromiseFinishDestage ==
  ASSUME NEW p \in Pages, OthersSame({p}), IoOf(p) = "write", IoOf(p)' = "none",
         StatusOf(p)' \in {StatusOf(p), "absent"}, pending' = [pending EXCEPT ![p] = {}]
  PROVE  Promise!FinishDestage(p)
<1>1. \/ [q \in Pages |-> StatusOf(q)]' = [q \in Pages |-> StatusOf(q)]
      \/ [q \in Pages |-> StatusOf(q)]' = [[q \in Pages |-> StatusOf(q)] EXCEPT ![p] = "absent"]
  <2>1. CASE StatusOf(p)' = StatusOf(p)
    BY <2>1 DEF OthersSame
  <2>2. CASE StatusOf(p)' = "absent"
    BY <2>2 DEF OthersSame
  <2> QED BY <2>1, <2>2
<1>2. [q \in Pages |-> IoOf(q)]' = [[q \in Pages |-> IoOf(q)] EXCEPT ![p] = "none"]
  BY DEF OthersSame
<1> QED BY <1>1, <1>2 DEF Promise!FinishDestage

-----------------------------------------------------------------------------
(* Every critical section is a step of the promise, or none.                 *)

KeepsIt == Promise!Next \/ UNCHANGED Promise!vars

(* A page that is up to date has no destage write on its way. *)
LEMMA NotWriting ==
  ASSUME BookInv, NEW s \in Cached, Work(s) = {} \/ IsUptodate(s)
  PROVE  ~Writing(page[s])
<1>1. Work(s) = {}
  BY DEF BookInv, UsersOK, OneIoPerPage
<1>2. \A i \in ios : i.page # page[s]
  BY <1>1, UsersAre
<1>3. ~Reads(destager, s)
  BY <1>1, UsersAre
<1>4. destager.pc = "issue" => page[destager.slot] # page[s]
  BY <1>3 DEF Reads, BookInv, UsersOK, ThreadsHold, HashMatchesLists, Cached
<1> QED BY <1>2, <1>4 DEF Writing

(* No page that is not in the cache has one, nor after it got a slot. *)
LEMMA NotWritingAbsent ==
  ASSUME BookInv, NEW p \in Pages, lru_find(p) = {}, UNCHANGED <<destager, ios>>,
         NEW s \in Slots, s \notin Dirty, page' = [page EXCEPT ![s] = p]
  PROVE  /\ ~Writing(p)' /\ \A q \in Pages \ {p} : Writing(q)' <=> Writing(q)
         /\ \A t \in Cached : page[t] # p
<1>1. DataOK /\ HashMatchesLists /\ Cached \subseteq Slots
  BY CachedAreSlots DEF BookInv, TypeInv, CachedListed
<1>2. \A t \in Cached : page[t] # p
  BY <1>1, FindExact
<1>3. \A i \in ios : i.page # p
  BY DEF BookInv, UsersOK, CallbackFindsPage
<1>4. destager.pc = "issue" => destager.slot \in Dirty /\ destager.slot \in Cached
  BY DEF BookInv, UsersOK, ThreadsHold, Cached
<1>5. destager.pc = "issue" =>
        page'[destager.slot] = page[destager.slot] /\ page[destager.slot] # p
  BY <1>1, <1>2, <1>4 DEF DataOK
<1> QED BY <1>2, <1>3, <1>5 DEF Writing

LEMMA ServesPromise ==
  ASSUME BookInv, BookInv', NEW pl \in Players, ServesPage(pl), UNCHANGED <<destager, ios>>
  PROVE  KeepsIt
<1>1. PICK r \in PlayerStates : \E held :
        /\ r.page \in Pages /\ r.slot \in Cached /\ page[r.slot] = r.page
        /\ IsUptodate(r.slot) /\ Serve(pl, r, held)
  BY DEF ServesPage
<1> DEFINE s == r.slot
           p == r.page
<1>2. PICK held : Serve(pl, r, held)
  BY <1>1
<1>3. /\ DataOK /\ ListsPartitionSlots /\ HashMatchesLists /\ Cached \subseteq Slots
      /\ state \in [Slots -> SUBSET {"DIRTY", "UPTODATE"}]
      /\ \A t \in Cached : page[t] = p => t = s
      /\ r.mask \in SUBSET Sectors
  BY <1>1, CachedAreSlots DEF BookInv, TypeInv, DataOK, CachedListed, HashMatchesLists, PlayerStates
<1>4. UNCHANGED <<page, Cached>>
  BY <1>1, <1>2, <1>3, ServeLists
<1>5. \A q : Writing(q)' <=> Writing(q)
  BY <1>4 DEF Writing
<1>6. ~Writing(p)
  BY <1>1, NotWriting
<1>7. s \in Cached /\ s \in Slots /\ page[s] = p /\ p \in Pages /\ IsUptodate(s)
  BY <1>1, <1>3
<1>8. IoOf(p) = "none"
  BY <1>7, Seen
<1> HIDE DEF s, p
<1>9. ASSUME \A t \in Slots \ {s} : (IsDirty(t)' <=> IsDirty(t)) /\ (IsUptodate(t)' <=> IsUptodate(t))
      PROVE  OthersSame({p})
  <2>1. \A t \in Cached : page[t] \in Pages \ {p} => /\ IsDirty(t)' <=> IsDirty(t)
                                                     /\ IsUptodate(t)' <=> IsUptodate(t)
    BY <1>3, <1>7, <1>9
  <2> QED BY <1>4, <1>5, <2>1, PagesSame DEF OthersSame
<1>10. CASE ReadClean(pl, r, held) \/ ReadDirtyHit(pl, r, held)
  <2>1. state' = state /\ pending' = pending
    BY <1>10 DEF ReadClean, ReadDirtyHit, ghostVars
  <2>2. \A t : (IsDirty(t)' <=> IsDirty(t)) /\ (IsUptodate(t)' <=> IsUptodate(t))
    BY <2>1 DEF IsDirty, IsUptodate
  <2>3. OthersSame({})
    BY <1>4, <1>5, <2>2, PagesSame DEF OthersSame
  <2> QED BY <2>1, <2>3, PromiseStutters DEF KeepsIt
<1>11. CASE ReadDirtyMiss(pl, r, held)
  <2>1. state' = [state EXCEPT ![s] = @ \ {"UPTODATE"}] /\ pending' = pending /\ IsDirty(s)
    BY <1>11 DEF ReadDirtyMiss, ghostVars, s
  <2>2. IsDirty(s)' /\ ~IsUptodate(s)'
    BY <1>3, <1>7, <2>1 DEF IsDirty, IsUptodate
  <2>3. OthersSame({p})
    BY <1>3, <1>9, <2>1 DEF IsDirty, IsUptodate
  <2>4. StatusOf(p) = "dirty"
    BY <1>7, <2>1, Seen
  <2>5. StatusOf(p)' = "dirty" /\ IoOf(p)' = "read"
    BY <1>4, <1>5, <1>6, <1>7, <2>2, SeenNext
  <2>6. Promise!Complement(p)
    BY <1>7, <1>8, <2>1, <2>3, <2>4, <2>5, PromiseIo
  <2> QED BY <1>7, <2>6 DEF KeepsIt, Promise!Next
<1>12. CASE WriteDirty(pl, r, held) \/ WriteClean(pl, r, held)
  <2>1. UserWrote(p, r.mask)
    BY <1>12 DEF WriteDirty, WriteClean, p
  <2>2. \/ state' = state /\ IsDirty(s)
        \/ state' = [state EXCEPT ![s] = @ \cup {"DIRTY"}]
    BY <1>12 DEF WriteDirty, WriteClean, s
  <2>3. IsDirty(s)' /\ IsUptodate(s)'
    BY <1>3, <1>7, <2>2 DEF IsDirty, IsUptodate
  <2>4. OthersSame({p})
    BY <1>3, <1>9, <2>2 DEF IsDirty, IsUptodate
  <2>5. StatusOf(p)' = "dirty" /\ IoOf(p)' = "none"
    BY <1>4, <1>7, <2>3, SeenNext
  <2>6. WithinCapacity'
    BY WithinCapacityHolds, PTL
  <2>7. Promise!UserWrite(p, r.mask)
    BY <1>3, <1>7, <1>8, <2>1, <2>4, <2>5, <2>6, PromiseUserWrite
  <2> QED BY <1>3, <1>7, <2>7 DEF KeepsIt, Promise!Next
<1> QED BY <1>2, <1>10, <1>11, <1>12 DEF Serve

(* A page gets a slot: by itself or, with an eviction, in another's place.   *)
LEMMA FillsPromise ==
  ASSUME BookInv, BookInv', NEW pl \in Players, FillsPage(pl), UNCHANGED <<destager, ios>>
  PROVE  KeepsIt
<1>1. PICK r \in PlayerStates :
        /\ r.page \in Pages /\ lru_find(r.page) = {}
        /\ \/ \E s \in IdleOn(clean_list) : Evict(pl, r, s)
           \/ TakeFreeClean(pl, r)
           \/ InsertDirty(pl, r)
  BY DEF FillsPage
<1> DEFINE p == r.page
<1>2. /\ DataOK /\ ListsPartitionSlots /\ HashMatchesLists /\ Cached \subseteq Slots
      /\ state \in [Slots -> SUBSET {"DIRTY", "UPTODATE"}]
      /\ page \in [Slots -> Pages \cup {NoPage}]
      /\ Clean \cap Dirty = {} /\ p \in Pages /\ lru_find(p) = {}
      /\ r.mask \in SUBSET Sectors
  BY <1>1, CachedAreSlots, ListsNow
     DEF BookInv, TypeInv, DataOK, CachedListed, PlayerStates
<1>3. WithinCapacity'
  BY WithinCapacityHolds, PTL
<1> HIDE DEF p
<1>4. StatusOf(p) = "absent" /\ IoOf(p) = "none"
  <2>1. \A t \in Cached : page[t] # p
    BY <1>2, FindExact
  <2> QED BY <1>2, <2>1, Seen
<1>5. ASSUME NEW s \in IdleOn(clean_list), Evict(pl, r, s) PROVE KeepsIt
  <2>1. /\ s \in Clean /\ Idle(s) /\ UNCHANGED <<Cached, Dirty>>
    BY <1>1, <1>2, <1>5, EvictLists
  <2>2. s \in Cached /\ s \in Slots /\ s \notin Dirty
    BY <1>2, <2>1 DEF Cached
  <2>q. PICK q \in Pages : q = page[s]
    BY <1>2, <2>2 DEF HashMatchesLists
  <2>3. /\ page' = [page EXCEPT ![s] = p] /\ ~IsDirty(s)' /\ ~IsUptodate(s)'
        /\ \A t \in Slots \ {s} : /\ IsDirty(t)' <=> IsDirty(t)
                                  /\ IsUptodate(t)' <=> IsUptodate(t)
        /\ pending' = pending
    BY <1>2, <1>5, <2>2, InstallSlot DEF Evict, p
  <2>4. /\ ~Writing(p)' /\ \A x \in Pages \ {p} : Writing(x)' <=> Writing(x)
        /\ \A t \in Cached : page[t] # p
    BY <1>2, <2>2, <2>3, NotWritingAbsent
  <2>5. q \in Pages /\ q # p /\ \A t \in Cached \ {s} : page[t] # q
    BY <1>2, <2>q, <2>2, <2>4 DEF HashMatchesLists
  <2>6. StatusOf(q) = "clean" /\ IoOf(q) = "none"
    BY <2>q, <2>1, <2>2, <2>5, <1>2, Seen DEF Idle, HashMatchesLists
  <2>7. page'[s] = p /\ \A t \in Slots \ {s} : page'[t] = page[t]
    BY <1>2, <2>2, <2>3
  <2>8. StatusOf(p)' = "clean" /\ IoOf(p)' = "read"
    BY <1>2, <2>1, <2>2, <2>3, <2>4, <2>7, SeenNext
  <2>9. StatusOf(q)' = "absent" /\ IoOf(q)' = "none"
    <3>1. \A t \in Cached' : page'[t] # q
      BY <1>2, <2>1, <2>5, <2>7
    <3> QED BY <2>5, <3>1, SeenNext
  <2>10. OthersSame({p} \cup {q})
    <3> DEFINE P == Pages \ {p, q}
    <3>1. \A x \in P, t \in Slots : t \in Cached' /\ page'[t] = x <=> t \in Cached /\ page[t] = x
      BY <2>q, <2>1, <2>5, <2>7
    <3>2. \A t \in Cached : page[t] \in P => /\ IsDirty(t)' <=> IsDirty(t)
                                             /\ IsUptodate(t)' <=> IsUptodate(t)
      BY <1>2, <2>q, <2>3
    <3>3. \A x \in P : StatusOf(x)' = StatusOf(x) /\ IoOf(x)' = IoOf(x)
      BY <2>4, <3>1, <3>2, PagesSame
    <3> QED BY <3>3 DEF OthersSame
  <2>11. Promise!Fetch(p, {q})
    BY <1>2, <1>3, <1>4, <2>3, <2>5, <2>6, <2>8, <2>9, <2>10, PromiseFetch
  <2> QED BY <1>2, <2>5, <2>11 DEF KeepsIt, Promise!Next
<1>6. ASSUME NEW s \in Free, Cached' = Cached \cup {s}, page' = [page EXCEPT ![s] = p],
             \A t \in Cached \ {s} : /\ IsDirty(t)' <=> IsDirty(t)
                                     /\ IsUptodate(t)' <=> IsUptodate(t)
      PROVE  OthersSame({p}) /\ ~Writing(p)' /\ s \in Cached' /\ page'[s] = p
  <2>1. s \in Slots /\ s \notin Cached /\ s \notin Dirty
    BY FreeUnused DEF Cached
  <2>2. /\ ~Writing(p)' /\ \A x \in Pages \ {p} : Writing(x)' <=> Writing(x)
    BY <1>2, <1>6, <2>1, NotWritingAbsent
  <2>3. page'[s] = p /\ \A t \in Slots \ {s} : page'[t] = page[t]
    BY <1>2, <1>6, <2>1
  <2> DEFINE P == Pages \ {p}
  <2>4. \A x \in P, t \in Slots : t \in Cached' /\ page'[t] = x <=> t \in Cached /\ page[t] = x
    BY <1>6, <2>1, <2>3
  <2>5. \A t \in Cached : page[t] \in P => /\ IsDirty(t)' <=> IsDirty(t)
                                           /\ IsUptodate(t)' <=> IsUptodate(t)
    BY <1>2, <1>6, <2>1
  <2>6. \A x \in P : StatusOf(x)' = StatusOf(x) /\ IoOf(x)' = IoOf(x)
    BY <2>2, <2>4, <2>5, PagesSame
  <2> QED BY <1>6, <2>2, <2>3, <2>6 DEF OthersSame
<1>7. CASE TakeFreeClean(pl, r)
  <2>1. PICK s \in Free : Install(pl, r, s) /\ Cached' = Cached \cup {s}
    BY <1>1, <1>2, <1>7, TakeFreeCleanLists
  <2>2. s \in Slots
    BY FreeUnused
  <2>3. /\ page' = [page EXCEPT ![s] = p] /\ ~IsDirty(s)' /\ ~IsUptodate(s)'
        /\ \A t \in Slots \ {s} : /\ IsDirty(t)' <=> IsDirty(t)
                                  /\ IsUptodate(t)' <=> IsUptodate(t)
    BY <1>2, <2>1, <2>2, InstallSlot DEF p
  <2>4. OthersSame({p}) /\ ~Writing(p)' /\ s \in Cached' /\ page'[s] = p
    BY <1>2, <1>6, <2>1, <2>3
  <2>5. StatusOf(p)' = "clean" /\ IoOf(p)' = "read"
    BY <1>2, <2>3, <2>4, SeenNext
  <2>6. pending' = pending
    BY <1>7 DEF TakeFreeClean
  <2>7. Promise!Fetch(p, {})
    <3>1. OthersSame({p} \cup {})
      BY <2>4
    <3> QED BY <1>2, <1>3, <1>4, <2>5, <2>6, <3>1, PromiseFetch
  <2> QED BY <1>2, <2>7 DEF KeepsIt, Promise!Next
<1>8. CASE InsertDirty(pl, r)
  <2>1. PICK s \in Free :
          /\ Cached' = Cached \cup {s} /\ Dirty' = Dirty \cup {s}
          /\ page' = [page EXCEPT ![s] = p]
          /\ IsUptodate(s)' /\ \A t \in Slots \ {s} : IsUptodate(t)' <=> IsUptodate(t)
    BY <1>1, <1>2, <1>8, InsertDirtyLists DEF p
  <2>2. s \in Slots /\ state' = [state EXCEPT ![free_dirty_list[1]] = {"UPTODATE", "DIRTY"}]
    BY <1>8, FreeUnused DEF InsertDirty
  <2>3. HashMatchesLists' /\ Cached' \subseteq Slots
    <3>1. CachedListed'
      BY CachedAreSlots, PTL
    <3> QED BY <3>1 DEF BookInv, CachedListed
  <2>4. \A t \in Cached' : IsDirty(t)' <=> t \in Dirty'
    BY <2>3 DEF HashMatchesLists
  <2>5. \A t \in Cached : IsDirty(t) <=> t \in Dirty
    BY <1>2 DEF HashMatchesLists
  <2>6. IsDirty(s)' /\ \A t \in Cached \ {s} : IsDirty(t)' <=> IsDirty(t)
    BY <2>1, <2>4, <2>5
  <2>7. OthersSame({p}) /\ ~Writing(p)' /\ s \in Cached' /\ page'[s] = p
    BY <1>2, <1>6, <2>1, <2>6
  <2>8. StatusOf(p)' = "dirty" /\ IoOf(p)' = "none"
    BY <1>2, <2>1, <2>6, <2>7, SeenNext
  <2>9. UserWrote(p, r.mask)
    BY <1>8 DEF InsertDirty, p
  <2>10. Promise!UserWrite(p, r.mask)
    BY <1>2, <1>3, <1>4, <2>7, <2>8, <2>9, PromiseUserWrite
  <2> QED BY <1>2, <2>10 DEF KeepsIt, Promise!Next
<1> QED BY <1>1, <1>5, <1>7, <1>8

(* A step that moves threads and free pages only. *)
LEMMA QuietPromise ==
  ASSUME BookInv, BookInv', UNCHANGED <<page, state, clean_list, dirty_list, pending>>,
         \A q \in Pages : Writing(q)' <=> Writing(q)
  PROVE  KeepsIt
<1>1. UNCHANGED Cached /\ \A t : (IsDirty(t)' <=> IsDirty(t)) /\ (IsUptodate(t)' <=> IsUptodate(t))
  BY DEF Cached, Clean, Dirty, IsDirty, IsUptodate
<1>2. \A q \in Pages : StatusOf(q)' = StatusOf(q) /\ IoOf(q)' = IoOf(q)
  BY <1>1, PagesSame
<1>3. OthersSame({})
  BY <1>2 DEF OthersSame
<1> QED BY <1>3, PromiseStutters DEF KeepsIt

LEMMA PlayerPromise ==
  ASSUME BookInv, BookInv', NEW pl \in Players, AnyReplacePage(pl) \/ AnyPlayerProceeds(pl)
  PROVE  KeepsIt
<1>1. CASE GoesToWait(pl) /\ UNCHANGED <<destager, ios>>
  <2>1. UNCHANGED <<page, state, clean_list, dirty_list, pending>>
    BY <1>1 DEF GoesToWait, listVars, ghostVars
  <2> QED BY <1>1, <2>1, QuietPromise DEF Writing
<1>2. CASE ExchangeSeen(pl)
  <2>1. UNCHANGED <<page, state, clean_list, dirty_list, pending, destager, ios>>
    BY <1>2 DEF ExchangeSeen, slotVars, ghostVars
  <2> QED BY <2>1, QuietPromise DEF Writing
<1>3. CASE IssueRead(pl)
  <2>1. UNCHANGED <<page, state, clean_list, dirty_list, pending, destager>>
    BY <1>3 DEF IssueRead, slotVars, listVars, ghostVars
  <2>2. \E i : i.kind = "read" /\ ios' = ios \cup {i}
    BY <1>3 DEF IssueRead, Submit
  <2>3. \A q : Writing(q)' <=> Writing(q)
    BY <2>1, <2>2 DEF Writing
  <2> QED BY <2>1, <2>3, QuietPromise
<1> QED BY <1>1, <1>2, <1>3, PlayerActs, ServesPromise, FillsPromise

(* The destage thread takes a page and issues its I/O. *)
LEMMA PickPromise ==
  ASSUME BookInv, BookInv', AnyDestagePick
  PROVE  KeepsIt
<1>1. /\ DataOK /\ HashMatchesLists /\ Cached \subseteq Slots
      /\ state \in [Slots -> SUBSET {"DIRTY", "UPTODATE"}]
      /\ destager \in DestagerStates /\ destager.pc # "issue"
  BY CachedAreSlots DEF AnyDestagePick, BookInv, TypeInv, DataOK, CachedListed, DestagerOK
<1>2. UNCHANGED <<page, clean_list, dirty_list, ios, pending, Cached>>
  BY DEF AnyDestagePick, listVars, ghostVars, Cached, Clean, Dirty
<1>3. CASE state' = state /\ destager' = [destager EXCEPT !.pc = "spin"]
  <2>1. destager'.pc # "issue"
    BY <1>1, <1>3 DEF DestagerStates
  <2>2. \A q : Writing(q)' <=> Writing(q)
    BY <1>1, <1>2, <2>1 DEF Writing
  <2> QED BY <1>2, <1>3, <2>2, QuietPromise
<1>4. ASSUME NEW s \in IdleOn(dirty_list), state' = [state EXCEPT ![s] = @ \ {"UPTODATE"}],
             NEW full, destager' = [pc |-> "issue", slot |-> s, full |-> full]
      PROVE  KeepsIt
  <2>1. s \in Dirty /\ Idle(s)
    <3>1. s \in Dirty
      BY <1>1, IdleOnType DEF DataOK, Dirty
    <3>2. Idle(s)
      BY <1>4 DEF IdleOn
    <3> QED BY <3>1, <3>2
  <2>2. s \in Cached /\ s \in Slots /\ IsDirty(s) /\ IsUptodate(s)
    BY <1>1, <2>1 DEF Cached, Idle, HashMatchesLists
  <2>3. PICK p \in Pages : p = page[s]
    BY <1>1, <2>2 DEF HashMatchesLists
  <2>4. \A t \in Cached \ {s} : page[t] # p
    BY <1>1, <2>2, <2>3 DEF HashMatchesLists
  <2>5. /\ IsDirty(s)' /\ ~IsUptodate(s)'
        /\ \A t \in Slots \ {s} : (IsDirty(t)' <=> IsDirty(t)) /\ (IsUptodate(t)' <=> IsUptodate(t))
    BY <1>1, <1>4, <2>2 DEF IsDirty, IsUptodate
  <2>6. destager'.pc = "issue" /\ destager'.slot = s /\ destager'.full = full
    BY <1>4
  <2>7. \A q \in Pages \ {p} : Writing(q)' <=> Writing(q)
    BY <1>1, <1>2, <2>3, <2>6 DEF Writing
  <2>8. OthersSame({p})
    <3> DEFINE P == Pages \ {p}
    <3>1. \A t \in Cached : page[t] \in P => /\ IsDirty(t)' <=> IsDirty(t)
                                             /\ IsUptodate(t)' <=> IsUptodate(t)
      BY <1>1, <2>3, <2>5
    <3>2. \A x \in P : StatusOf(x)' = StatusOf(x) /\ IoOf(x)' = IoOf(x)
      BY <1>2, <2>7, <3>1, PagesSame
    <3> QED BY <3>2 DEF OthersSame
  <2>9. StatusOf(p) = "dirty" /\ IoOf(p) = "none"
    BY <2>2, <2>3, Seen
  <2>10. StatusOf(p)' = "dirty" /\ IoOf(p)' \in {"read", "write"}
    BY <1>2, <2>2, <2>3, <2>5, SeenNext
  <2>11. Promise!Complement(p) \/ Promise!Destage(p)
    BY <1>2, <2>8, <2>9, <2>10, PromiseIo
  <2> QED BY <2>11 DEF KeepsIt, Promise!Next
<1>5. \/ state' = state /\ destager' = [destager EXCEPT !.pc = "spin"]
      \/ \E s \in IdleOn(dirty_list), full \in BOOLEAN :
           /\ state' = [state EXCEPT ![s] = @ \ {"UPTODATE"}]
           /\ destager' = [pc |-> "issue", slot |-> s, full |-> full]
  <2>1. \A s : (bm_mask[s] = Sectors) \in BOOLEAN
    OBVIOUS
  <2> QED BY <2>1, Zenon DEF AnyDestagePick
<1> QED BY <1>3, <1>4, <1>5

LEMMA DestagerPromise ==
  ASSUME BookInv, BookInv', AnyDestagerProceeds
  PROVE  KeepsIt
<1>1. destager \in DestagerStates
  BY DEF BookInv, TypeInv, DestagerOK
<1>2. CASE DestageWanted \/ DestageBudget
  <2>1. destager.pc # "issue" /\ destager'.pc # "issue"
    BY <1>1, <1>2 DEF DestageWanted, DestageBudget, DestagerStates
  <2>2. UNCHANGED <<page, state, clean_list, dirty_list, pending, ios>>
    BY <1>2 DEF DestageWanted, DestageBudget, slotVars, listVars, ghostVars
  <2>3. \A q : Writing(q)' <=> Writing(q)
    BY <2>1, <2>2 DEF Writing
  <2> QED BY <2>2, <2>3, QuietPromise
<1>3. CASE IssueDestage
  <2> DEFINE kind == IF destager.full THEN "destage_write" ELSE "destage_read"
             io == [page |-> page[destager.slot], kind |-> kind,
                    by |-> IF start_urio THEN Disk ELSE Destager]
  <2>1. /\ UNCHANGED <<page, state, clean_list, dirty_list, pending>>
        /\ destager.pc = "issue" /\ ios' = ios \cup {io}
        /\ destager' = IF start_urio THEN IdleDestager ELSE [destager EXCEPT !.pc = "callback"]
    BY <1>3 DEF IssueDestage, Submit, slotVars, listVars, ghostVars
  <2>2. destager'.pc # "issue"
    BY <1>1, <2>1 DEF IdleDestager, DestagerStates
  <2>3. io.page = page[destager.slot] /\ (io.kind = "destage_write" <=> destager.full)
    <3>1. destager.full \in BOOLEAN
      BY <1>1 DEF DestagerStates
    <3> QED BY <3>1
  <2> HIDE DEF io
  <2>4. \A q : Writing(q)' <=> Writing(q)
    BY <2>1, <2>2, <2>3 DEF Writing
  <2> QED BY <2>1, <2>4, QuietPromise
<1> QED BY <1>2, <1>3, PickPromise DEF AnyDestagerProceeds

(* A callback ends the only I/O of its page. *)
LEMMA CallbackPromise ==
  ASSUME BookInv, BookInv', NEW io \in ios, Callback(io)
  PROVE  KeepsIt
<1>1. /\ DataOK /\ ListsPartitionSlots /\ HashMatchesLists /\ Cached \subseteq Slots
      /\ state \in [Slots -> SUBSET {"DIRTY", "UPTODATE"}] /\ io \in IoRecords
  BY CachedAreSlots DEF BookInv, TypeInv, DataOK, CachedListed, EnvironmentOK
<1>2. /\ page' = page /\ ios' = ios \ {io}
      /\ destager' = IF io.by = Destager THEN IdleDestager ELSE destager
  BY DEF Callback, lru_finish_read, lru_finish_destage_read, lru_finish_destage_write, Complete
<1>3. PICK p \in Pages : p = io.page
  BY <1>1 DEF IoRecords
<1>4. PICK s \in lru_find(p) :
        /\ state' = [state EXCEPT ![s] = @ \cup {"UPTODATE"}]
        /\ \/ UNCHANGED <<clean_list, dirty_list>>
           \/ /\ io.kind = "destage_write" /\ IsDirty(s)
              /\ hash' = [hash EXCEPT ![HashOf[page[s]]] = @ \ {s}]
              /\ dirty_list' = RemoveNode(dirty_list, s)
              /\ free_dirty_list' = AddToHead(free_dirty_list, s)
              /\ UNCHANGED <<clean_list, free_clean_list>>
  BY <1>3 DEF Callback, lru_finish_read, lru_finish_destage_read, lru_finish_destage_write, listVars
<1>5. /\ s \in Cached /\ s \in Slots /\ page[s] = p /\ (IsDirty(s) => s \in Dirty)
      /\ \A t \in Cached \ {s} : page[t] # p
  BY <1>1, <1>4, FindExact DEF HashMatchesLists
<1>6. /\ \A t \in Slots : IsDirty(t)' <=> IsDirty(t)
      /\ IsUptodate(s)' /\ \A t \in Slots \ {s} : IsUptodate(t)' <=> IsUptodate(t)
  BY <1>1, <1>4, <1>5 DEF IsDirty, IsUptodate
<1>7. Cached' = Cached \/ (io.kind = "destage_write" /\ Cached' = Cached \ {s})
  <2>1. CASE UNCHANGED <<clean_list, dirty_list>>
    BY <2>1 DEF Cached, Clean, Dirty
  <2>2. CASE ~UNCHANGED <<clean_list, dirty_list>>
    BY <1>1, <1>2, <1>4, <1>5, <1>6, <2>2, FreeLists
  <2> QED BY <2>1, <2>2
<1>8. <<"io", io>> \in Work(s) /\ \A x, y \in Work(s) : x = y
  BY <1>3, <1>5, UsersAre DEF BookInv, UsersOK, OneIoPerPage
<1>9. /\ ~IsUptodate(s) /\ \A i \in ios : i.page = p => i = io
      /\ destager.pc = "issue" => page[destager.slot] # p
  <2>1. ~IsUptodate(s)
    BY <1>5, <1>8 DEF BookInv, UsersOK, OneIoPerPage
  <2>2. ASSUME NEW i \in ios, i.page = p PROVE i = io
    <3>1. <<"io", i>> \in Work(s)
      BY <1>5, <2>2, UsersAre
    <3>2. <<"io", i>> = <<"io", io>>
      BY <1>8, <3>1
    <3> QED BY <3>2
  <2>3. ASSUME destager.pc = "issue", page[destager.slot] = p PROVE FALSE
    <3>1. destager.slot = s
      BY <1>5, <2>3 DEF BookInv, UsersOK, ThreadsHold, Cached
    <3>2. <<"destager", Destager>> \in Work(s)
      BY <2>3, <3>1, UsersAre DEF Reads
    <3>3. <<"destager", Destager>> = <<"io", io>>
      BY <1>8, <3>2
    <3> QED BY <3>3
  <2> QED BY <2>1, <2>2, <2>3
<1>10. Writing(p) <=> io.kind = "destage_write"
  BY <1>3, <1>9 DEF Writing
<1>11. \A q \in Pages \ {p} : Writing(q)' <=> Writing(q)
  <2>1. io.by = Destager => destager.pc = "callback"
    BY DEF BookInv, UsersOK, ThreadsHold
  <2>2. CASE io.by = Destager
    BY <1>2, <1>3, <2>1, <2>2 DEF Writing, IdleDestager
  <2>3. CASE io.by # Destager
    BY <1>2, <1>3, <2>3 DEF Writing
  <2> QED BY <2>2, <2>3
<1>12. OthersSame({p})
  <2> DEFINE P == Pages \ {p}
  <2>1. \A x \in P, t \in Slots : t \in Cached' /\ page'[t] = x <=> t \in Cached /\ page[t] = x
    BY <1>2, <1>5, <1>7
  <2>2. \A t \in Cached : page[t] \in P => /\ IsDirty(t)' <=> IsDirty(t)
                                           /\ IsUptodate(t)' <=> IsUptodate(t)
    BY <1>1, <1>5, <1>6
  <2>3. \A x \in P : StatusOf(x)' = StatusOf(x) /\ IoOf(x)' = IoOf(x)
    BY <1>11, <2>1, <2>2, PagesSame
  <2> QED BY <2>3 DEF OthersSame
<1>13. /\ StatusOf(p) = IF IsDirty(s) THEN "dirty" ELSE "clean"
       /\ IoOf(p) = IF Writing(p) THEN "write" ELSE "read"
  BY <1>5, <1>9, Seen
<1>14. CASE io.kind # "destage_write"
  <2>1. IoOf(p) = "read" /\ Cached' = Cached
    BY <1>7, <1>10, <1>13, <1>14
  <2>2. StatusOf(p)' = StatusOf(p) /\ IoOf(p)' = "none"
    BY <1>2, <1>5, <1>6, <1>13, <2>1, SeenNext
  <2>3. pending' = pending
    BY <1>14 DEF Callback, lru_finish_read, lru_finish_destage_read, lru_finish_destage_write
  <2>4. Promise!FinishRead(p)
    BY <1>12, <2>1, <2>2, <2>3, PromiseIo
  <2> QED BY <2>4 DEF KeepsIt, Promise!Next
<1>15. CASE io.kind = "destage_write"
  <2>1. IoOf(p) = "write"
    BY <1>10, <1>13, <1>15
  <2>2. StatusOf(p)' \in {StatusOf(p), "absent"} /\ IoOf(p)' = "none"
    <3>1. CASE Cached' = Cached
      BY <1>2, <1>5, <1>6, <1>13, <3>1, SeenNext
    <3>2. CASE Cached' = Cached \ {s}
      <4>1. \A t \in Cached' : page'[t] # p
        BY <1>2, <1>5, <3>2
      <4> QED BY <4>1, SeenNext
    <3> QED BY <1>7, <3>1, <3>2
  <2>3. pending' = [pending EXCEPT ![p] = {}]
    BY <1>3, <1>15 DEF Callback, lru_finish_read, lru_finish_destage_read, lru_finish_destage_write
  <2>4. Promise!FinishDestage(p)
    BY <1>12, <2>1, <2>2, <2>3, PromiseFinishDestage
  <2> QED BY <2>4 DEF KeepsIt, Promise!Next
<1> QED BY <1>14, <1>15

(* A step of the cache is a step of the promise, or changes nothing of it. *)
LEMMA PromiseStep == BookInv /\ BookInv' /\ [AnyPageNext]_vars => [Promise!Next]_(Promise!vars)
<1> SUFFICES ASSUME BookInv, BookInv', [AnyPageNext]_vars PROVE KeepsIt
  BY DEF KeepsIt
<1>1. ASSUME NEW pl \in Players, AnyReplacePage(pl) \/ AnyPlayerProceeds(pl) PROVE KeepsIt
  BY <1>1, PlayerPromise
<1>2. CASE AnyDestagerProceeds
  BY <1>2, DestagerPromise
<1>3. ASSUME NEW io \in ios, Callback(io) PROVE KeepsIt
  BY <1>3, CallbackPromise
<1>4. CASE StartRecovery \/ EndRecovery \/ UNCHANGED vars
  <2>1. UNCHANGED <<page, state, clean_list, dirty_list, pending, destager, ios>>
    BY <1>4 DEF StartRecovery, EndRecovery, vars, slotVars, listVars, ghostVars
  <2> QED BY <2>1, QuietPromise DEF Writing
<1> QED BY <1>1, <1>2, <1>3, <1>4 DEF AnyPageNext

(* The cache starts as the promise does: with nothing in it. *)
LEMMA PromiseStart == Init => Promise!Init
<1> SUFFICES ASSUME Init PROVE Promise!Init
  OBVIOUS
<1>1. BookInv
  BY BookInvInit
<1>2. \A p \in Pages : StatusOf(p) = "absent" /\ IoOf(p) = "none"
  <2>1. Cached = {}
    BY DEF Init, Cached, Clean, Dirty, Elements
  <2> QED BY <1>1, <2>1, Seen
<1>3. pending = [p \in Pages |-> {}]
  BY DEF Init
<1> QED BY <1>2, <1>3 DEF Promise!Init

LEMMA PromiseHolds == AnyPageSpec => KeepsPromise
<1>1. Init => Promise!Init
  BY PromiseStart
<1>2. BookInv /\ BookInv' /\ [AnyPageNext]_vars => [Promise!Next]_(Promise!vars)
  BY PromiseStep
<1> QED BY <1>1, <1>2, BookInvHolds, PTL DEF AnyPageSpec, KeepsPromise, Promise!Spec

(* The critical sections of the players, the destage thread and the          *)
(* callbacks of lru.c, however they interleave, implement the write-back     *)
(* cache of WriteBackCache: one I/O per page at most, no write of the user   *)
(* into a page under I/O, no page evicted while it holds unsaved writes,     *)
(* never more pages than slots.                                              *)
THEOREM CacheKeepsPromise == Spec => KeepsPromise
BY LruTakesAnyPage, PromiseHolds, PTL

=============================================================================
