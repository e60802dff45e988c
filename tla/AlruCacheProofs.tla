--------------------------- MODULE AlruCacheProofs ---------------------------
(***************************************************************************)
(* Proofs about the ALRU cache (modules AlruCache and AlruReclaim), for    *)
(* any number of players, slots, pages, sectors and mirror pairs, and any  *)
(* latencies.                                                              *)
(*                                                                         *)
(* On the variables of LruCache the ALRU cache takes idle pages of the     *)
(* lists, as AnyPageSpec does, so that all that is proved of that holds of *)
(* it.  That the pages it takes are on the lists, though it finds them on  *)
(* the stacks of the pairs, is StackInv, which is proved along with it.    *)
(***************************************************************************)
EXTENDS AlruReclaim, LruPromiseProofs

-----------------------------------------------------------------------------
(* A list and the stacks of the pairs beside it.                             *)

(* The stack has some of the list's elements, in the order of the list.      *)
Agrees(stack, list) ==
  /\ stack \in Seq(Slots) /\ NoDuplicates(stack)
  /\ Elements(stack) \subseteq Elements(list)
  /\ \A x, y \in Elements(stack) : Before(stack, x, y) <=> Before(list, x, y)

(* One side of the cache: a list, its stacks, and the page numbers pg by     *)
(* which they are filed.                                                     *)
Side(list, ds, pg) ==
  /\ list \in Seq(Slots) /\ NoDuplicates(list)
  /\ ds = [d \in Pairs |-> ds[d]]
  /\ \A d \in Pairs :
       Agrees(ds[d], list) /\ Elements(ds[d]) = {s \in Elements(list) : PairOf[pg[s]] = d}

StackInv == Side(clean_list, clean_ds_list, page) /\ Side(dirty_list, dirty_ds_list, page)

(* A node that leaves the list leaves its stack, and the others stay.        *)
LEMMA AgreesRemove ==
  ASSUME NEW list \in Seq(Slots), NoDuplicates(list), NEW s \in Elements(list),
         NEW stack, Agrees(stack, list)
  PROVE  /\ s \notin Elements(stack) => Agrees(stack, RemoveNode(list, s))
         /\ s \in Elements(stack) =>
              /\ Agrees(RemoveNode(stack, s), RemoveNode(list, s))
              /\ Elements(RemoveNode(stack, s)) = Elements(stack) \ {s}
<1>1. Elements(RemoveNode(list, s)) = Elements(list) \ {s}
  BY RemoveNodeExact
<1>2. \A x, y : Before(RemoveNode(list, s), x, y) <=> x # s /\ y # s /\ Before(list, x, y)
  BY RemoveNodeOrder
<1>3. CASE s \notin Elements(stack)
  BY <1>1, <1>2, <1>3 DEF Agrees
<1>4. CASE s \in Elements(stack)
  <2>1. /\ RemoveNode(stack, s) \in Seq(Slots) /\ NoDuplicates(RemoveNode(stack, s))
        /\ Elements(RemoveNode(stack, s)) = Elements(stack) \ {s}
    BY <1>4, RemoveNodeExact DEF Agrees
  <2>2. \A x, y : Before(RemoveNode(stack, s), x, y) <=> x # s /\ y # s /\ Before(stack, x, y)
    BY <1>4, RemoveNodeOrder DEF Agrees
  <2> QED BY <1>1, <1>2, <1>4, <2>1, <2>2 DEF Agrees
<1> QED BY <1>3, <1>4

LEMMA SideRemove ==
  ASSUME NEW list, NEW ds, NEW pg, Side(list, ds, pg),
         NEW s \in Elements(list), PairOf[pg[s]] \in Pairs
  PROVE  Side(RemoveNode(list, s), [ds EXCEPT ![PairOf[pg[s]]] = RemoveNode(@, s)], pg)
<1> DEFINE p == PairOf[pg[s]]
           new == [ds EXCEPT ![p] = RemoveNode(@, s)]
<1>1. /\ RemoveNode(list, s) \in Seq(Slots) /\ NoDuplicates(RemoveNode(list, s))
      /\ Elements(RemoveNode(list, s)) = Elements(list) \ {s}
  BY RemoveNodeExact DEF Side
<1>2. /\ new = [d \in Pairs |-> new[d]]
      /\ \A d \in Pairs : new[d] = IF d = p THEN RemoveNode(ds[d], s) ELSE ds[d]
  BY DEF Side
<1>3. ASSUME NEW d \in Pairs
      PROVE  /\ Agrees(new[d], RemoveNode(list, s))
             /\ Elements(new[d]) = {t \in Elements(RemoveNode(list, s)) : PairOf[pg[t]] = d}
  <2>1. /\ Agrees(ds[d], list)
        /\ Elements(ds[d]) = {t \in Elements(list) : PairOf[pg[t]] = d}
    BY DEF Side
  <2>2. list \in Seq(Slots) /\ NoDuplicates(list)
    BY DEF Side
  <2>3. CASE d = p
    <3>1. s \in Elements(ds[d])
      BY <2>1, <2>3
    <3>2. /\ Agrees(RemoveNode(ds[d], s), RemoveNode(list, s))
          /\ Elements(RemoveNode(ds[d], s)) = Elements(ds[d]) \ {s}
      BY <2>1, <2>2, <3>1, AgreesRemove
    <3> HIDE DEF new, p
    <3> QED BY <1>1, <1>2, <2>1, <2>3, <3>2
  <2>4. CASE d # p
    <3>1. s \notin Elements(ds[d])
      BY <2>1, <2>4
    <3>2. Agrees(ds[d], RemoveNode(list, s))
      BY <2>1, <2>2, <3>1, AgreesRemove
    <3>3. new[d] = ds[d]
      BY <1>2, <2>4
    <3> HIDE DEF new
    <3> QED BY <1>1, <2>1, <2>4, <3>2, <3>3
  <2> QED BY <2>3, <2>4
<1> HIDE DEF new
<1>4. Side(RemoveNode(list, s), new, pg)
  BY <1>1, <1>2, <1>3 DEF Side
<1> QED BY <1>4 DEF new

(* A node that comes to the head of the list comes to the head of its stack. *)
LEMMA AgreesAdd ==
  ASSUME NEW list \in Seq(Slots), NoDuplicates(list), NEW s \in Slots, s \notin Elements(list),
         NEW stack, Agrees(stack, list)
  PROVE  /\ Agrees(stack, AddToHead(list, s))
         /\ Agrees(AddToHead(stack, s), AddToHead(list, s))
         /\ Elements(AddToHead(stack, s)) = Elements(stack) \cup {s}
<1>1. Elements(AddToHead(list, s)) = Elements(list) \cup {s}
  BY AddToHeadExact
<1>2. \A x, y : Before(AddToHead(list, s), x, y) <=>
                  (x = s /\ y \in Elements(list)) \/ Before(list, x, y)
  BY AddToHeadOrder
<1>3. stack \in Seq(Slots) /\ s \notin Elements(stack) /\ Elements(stack) \subseteq Elements(list)
  BY DEF Agrees
<1>4. /\ AddToHead(stack, s) \in Seq(Slots) /\ NoDuplicates(AddToHead(stack, s))
      /\ Elements(AddToHead(stack, s)) = Elements(stack) \cup {s}
  BY <1>3, AddToHeadExact DEF Agrees
<1>5. \A x, y : Before(AddToHead(stack, s), x, y) <=>
                  (x = s /\ y \in Elements(stack)) \/ Before(stack, x, y)
  BY <1>3, AddToHeadOrder
<1>6. Agrees(stack, AddToHead(list, s))
  BY <1>1, <1>2, <1>3 DEF Agrees
<1>7. \A y : ~Before(list, s, y) /\ ~Before(list, y, s) /\ ~Before(stack, s, y) /\ ~Before(stack, y, s)
  BY <1>3 DEF Before, Elements
<1>8. ASSUME NEW x \in Elements(stack) \cup {s}, NEW y \in Elements(stack) \cup {s}
      PROVE  Before(AddToHead(stack, s), x, y) <=> Before(AddToHead(list, s), x, y)
  <2>1. CASE x = s /\ y = s
    BY <1>2, <1>3, <1>5, <1>7, <2>1
  <2>2. CASE x = s /\ y # s
    BY <1>2, <1>3, <1>5, <1>7, <1>8, <2>2
  <2>3. CASE x # s /\ y = s
    BY <1>2, <1>5, <1>7, <2>3
  <2>4. CASE x # s /\ y # s
    BY <1>2, <1>5, <1>8, <2>4 DEF Agrees
  <2> QED BY <2>1, <2>2, <2>3, <2>4
<1> QED BY <1>1, <1>3, <1>4, <1>6, <1>8 DEF Agrees

(* The numbers pg differ from pgNew in the added slot only, if at all.       *)
LEMMA SideAdd ==
  ASSUME NEW list, NEW ds, NEW pg, NEW pgNew, Side(list, ds, pg),
         NEW s \in Slots, s \notin Elements(list), PairOf[pgNew[s]] \in Pairs,
         \A t \in Elements(list) : pgNew[t] = pg[t]
  PROVE  Side(AddToHead(list, s), [ds EXCEPT ![PairOf[pgNew[s]]] = AddToHead(@, s)], pgNew)
<1> DEFINE p == PairOf[pgNew[s]]
           new == [ds EXCEPT ![p] = AddToHead(@, s)]
<1>1. /\ AddToHead(list, s) \in Seq(Slots) /\ NoDuplicates(AddToHead(list, s))
      /\ Elements(AddToHead(list, s)) = Elements(list) \cup {s}
  BY AddToHeadExact DEF Side
<1>2. /\ new = [d \in Pairs |-> new[d]]
      /\ \A d \in Pairs : new[d] = IF d = p THEN AddToHead(ds[d], s) ELSE ds[d]
  BY DEF Side
<1>3. ASSUME NEW d \in Pairs
      PROVE  /\ Agrees(new[d], AddToHead(list, s))
             /\ Elements(new[d]) = {t \in Elements(AddToHead(list, s)) : PairOf[pgNew[t]] = d}
  <2>1. /\ Agrees(ds[d], list)
        /\ Elements(ds[d]) = {t \in Elements(list) : PairOf[pgNew[t]] = d}
    BY DEF Side
  <2>2. list \in Seq(Slots) /\ NoDuplicates(list)
    BY DEF Side
  <2>3. /\ Agrees(ds[d], AddToHead(list, s))
        /\ Agrees(AddToHead(ds[d], s), AddToHead(list, s))
        /\ Elements(AddToHead(ds[d], s)) = Elements(ds[d]) \cup {s}
    BY <2>1, <2>2, AgreesAdd
  <2>4. CASE d = p
    <3>1. new[d] = AddToHead(ds[d], s)
      BY <1>2, <2>4
    <3> HIDE DEF new
    <3> QED BY <1>1, <2>1, <2>3, <2>4, <3>1
  <2>5. CASE d # p
    <3>1. new[d] = ds[d]
      BY <1>2, <2>5
    <3> HIDE DEF new
    <3> QED BY <1>1, <2>1, <2>3, <2>5, <3>1
  <2> QED BY <2>4, <2>5
<1> HIDE DEF new
<1>4. Side(AddToHead(list, s), new, pgNew)
  BY <1>1, <1>2, <1>3 DEF Side
<1> QED BY <1>4 DEF new

(* A node that moves to the heads.                                           *)
LEMMA SideMove ==
  ASSUME NEW list, NEW ds, NEW pg, Side(list, ds, pg),
         NEW s \in Elements(list), PairOf[pg[s]] \in Pairs
  PROVE  Side(MoveToHead(list, s), [ds EXCEPT ![PairOf[pg[s]]] = MoveToHead(@, s)], pg)
<1> DEFINE p == PairOf[pg[s]]
           rest == RemoveNode(list, s)
           left == [ds EXCEPT ![p] = RemoveNode(@, s)]
<1>1. Side(rest, left, pg)
  BY SideRemove
<1>2. s \in Slots /\ s \notin Elements(rest)
  <2>1. list \in Seq(Slots) /\ NoDuplicates(list)
    BY DEF Side
  <2>2. s \in Slots
    BY <2>1 DEF Elements
  <2> QED BY <2>1, <2>2, RemoveNodeExact
<1>3. [ds EXCEPT ![p] = MoveToHead(@, s)] = [left EXCEPT ![p] = AddToHead(@, s)]
  BY DEF Side, MoveToHead
<1> HIDE DEF rest, left
<1>4. Side(AddToHead(rest, s), [left EXCEPT ![p] = AddToHead(@, s)], pg)
  BY <1>1, <1>2, SideAdd
<1> QED BY <1>3, <1>4 DEF MoveToHead, rest

(* A slot that moves to the head with another page: its stack may change.    *)
LEMMA SideEvict ==
  ASSUME NEW list, NEW ds, NEW pg, NEW pgNew, Side(list, ds, pg),
         NEW s \in Elements(list), PairOf[pg[s]] \in Pairs, PairOf[pgNew[s]] \in Pairs,
         \A t \in Elements(list) : t # s => pgNew[t] = pg[t]
  PROVE  Side(MoveToHead(list, s),
              [[ds EXCEPT ![PairOf[pg[s]]] = RemoveNode(@, s)]
                 EXCEPT ![PairOf[pgNew[s]]] = AddToHead(@, s)],
              pgNew)
<1> DEFINE rest == RemoveNode(list, s)
           left == [ds EXCEPT ![PairOf[pg[s]]] = RemoveNode(@, s)]
<1>1. Side(rest, left, pg)
  BY SideRemove
<1>2. s \in Slots /\ Elements(rest) = Elements(list) \ {s}
  <2>1. list \in Seq(Slots) /\ NoDuplicates(list)
    BY DEF Side
  <2>2. s \in Slots
    BY <2>1 DEF Elements
  <2> QED BY <2>1, <2>2, RemoveNodeExact
<1> HIDE DEF rest, left
<1>3. Side(AddToHead(rest, s), [left EXCEPT ![PairOf[pgNew[s]]] = AddToHead(@, s)], pgNew)
  BY <1>1, <1>2, SideAdd
<1> QED BY <1>3 DEF MoveToHead, rest, left

(* Numbers of slots that are not on the list do not matter.                  *)
LEMMA SideKept ==
  ASSUME NEW list, NEW ds, NEW pg, NEW pgNew, Side(list, ds, pg),
         \A t \in Elements(list) : pgNew[t] = pg[t]
  PROVE  Side(list, ds, pgNew)
BY DEF Side

-----------------------------------------------------------------------------
(* The searches.                                                             *)

(* A search of a stack finds an idle page of the stack, and one if there is  *)
(* one that it may take.                                                     *)
LEMMA StackSearch ==
  ASSUME NEW stack \in Seq(Slots), NEW s \in find_alru_page_ds_stack(stack)
  PROVE  s \in Elements(stack) /\ Idle(s)
<1>1. s \in Elements(stack)
  BY ScanType DEF find_alru_page_ds_stack
<1>2. Idle(s)
  BY DEF find_alru_page_ds_stack, LastIdle
<1> QED BY <1>1, <1>2

(* f[i] is where the loop of the searches is after i pairs.                  *)
IsSearch(f, ds_list, tested, stored, n) ==
  f = [i \in 0..n |->
         IF i = 0 THEN [min_lat |-> MinLatStart, found |-> {}]
         ELSE LET found == find_alru_page_ds_stack(ds_list[i - 1])
              IN  IF tested[i - 1] <= f[i - 1].min_lat /\ found # {}
                    THEN [min_lat |-> stored[i - 1], found |-> found]
                    ELSE f[i - 1]]

LEMMA SearchExists ==
  ASSUME NEW ds_list, NEW tested, NEW stored, NEW n \in Nat
  PROVE  \E f : IsSearch(f, ds_list, tested, stored, n)
<1> DEFINE T == {m \in Nat : \E f : IsSearch(f, ds_list, tested, stored, m)}
           turn(i, before) ==
             LET found == find_alru_page_ds_stack(ds_list[i - 1])
             IN  IF tested[i - 1] <= before.min_lat /\ found # {}
                   THEN [min_lat |-> stored[i - 1], found |-> found]
                   ELSE before
<1>1. 0 \in T
  <2>1. IsSearch([i \in 0..0 |-> [min_lat |-> MinLatStart, found |-> {}]], ds_list, tested, stored, 0)
    BY DEF IsSearch
  <2> QED BY <2>1
<1>2. ASSUME NEW m \in 0..(n - 1), m \in T PROVE m + 1 \in T
  <2>1. PICK f : IsSearch(f, ds_list, tested, stored, m)
    BY <1>2
  <2> DEFINE g == [i \in 0..(m + 1) |-> IF i = m + 1 THEN turn(m + 1, f[m]) ELSE f[i]]
  <2>2. ASSUME NEW i \in 0..(m + 1)
        PROVE  g[i] = IF i = 0 THEN [min_lat |-> MinLatStart, found |-> {}]
                      ELSE turn(i, g[i - 1])
    <3>1. CASE i = m + 1
      <4>1. i # 0 /\ i - 1 = m /\ g[m] = f[m] /\ m \in 0..(m + 1)
        BY <3>1
      <4>2. g[i] = turn(m + 1, f[m])
        BY <3>1
      <4> HIDE DEF turn, g
      <4> QED BY <3>1, <4>1, <4>2
    <3>2. CASE i # m + 1
      <4>1. i \in 0..m /\ g[i] = f[i] /\ (i # 0 => g[i - 1] = f[i - 1])
        BY <3>2
      <4>2. f[i] = IF i = 0 THEN [min_lat |-> MinLatStart, found |-> {}] ELSE turn(i, f[i - 1])
        BY <2>1, <4>1 DEF IsSearch
      <4> HIDE DEF turn, g
      <4> QED BY <4>1, <4>2
    <3> QED BY <3>1, <3>2
  <2>3. IsSearch(g, ds_list, tested, stored, m + 1)
    <3>1. g = [i \in 0..(m + 1) |-> g[i]]
      OBVIOUS
    <3> HIDE DEF g
    <3> QED BY <2>2, <3>1 DEF IsSearch
  <2> QED BY <2>3
<1> HIDE DEF T
<1>3. n \in T
  BY <1>1, <1>2, InductionUpTo
<1> QED BY <1>3 DEF T

LEMMA LeastLatencyIsSearch ==
  ASSUME NEW ds_list, NEW tested, NEW stored
  PROVE  \E f : IsSearch(f, ds_list, tested, stored, NPairs) /\ LeastLatency(ds_list, tested, stored) = f[NPairs].found
<1> DEFINE f == CHOOSE g : IsSearch(g, ds_list, tested, stored, NPairs)
<1>1. NPairs \in Nat
  BY PairsAssumption
<1>2. IsSearch(f, ds_list, tested, stored, NPairs)
  BY <1>1, SearchExists
<1>3. LeastLatency(ds_list, tested, stored) = f[NPairs].found
  BY DEF LeastLatency, IsSearch
<1> QED BY <1>2, <1>3

(* The pairs that have a page to offer are, during the whole search, either  *)
(* at most as slow as t or slower.                                           *)
Steady(t, ds_list, tested, stored) ==
  \A d \in Pairs : find_alru_page_ds_stack(ds_list[d]) # {} =>
                     (tested[d] <= t <=> stored[d] <= t)

(* After the loop: nothing was found because no pair has a page to offer, or *)
(* the page is that of a pair at most as slow as t, if there is one.         *)
LEMMA SearchResult ==
  ASSUME NEW ds_list, NEW t \in Latencies,
         NEW tested \in [Pairs -> Latencies], NEW stored \in [Pairs -> Latencies]
  PROVE  LET found == LeastLatency(ds_list, tested, stored)
             offer(d) == find_alru_page_ds_stack(ds_list[d])
         IN  \/ found = {} /\ \A d \in Pairs : offer(d) = {}
             \/ \E d \in Pairs :
                  /\ found = offer(d) /\ found # {}
                  /\ Steady(t, ds_list, tested, stored) =>
                       \A e \in Pairs : offer(e) # {} /\ stored[e] <= t => stored[d] <= t
<1> DEFINE offer(d) == find_alru_page_ds_stack(ds_list[d])
           steady == Steady(t, ds_list, tested, stored)
           Result(r, n) ==
             \/ /\ r.found = {} /\ r.min_lat = MinLatStart
                /\ \A d \in 0..(n - 1) : offer(d) = {}
             \/ \E d \in 0..(n - 1) :
                  /\ r.found = offer(d) /\ r.found # {} /\ r.min_lat = stored[d]
                  /\ steady => \A e \in 0..(n - 1) : offer(e) # {} /\ stored[e] <= t => stored[d] <= t
<1>1. NPairs \in Nat /\ Pairs = 0..(NPairs - 1)
  BY PairsAssumption DEF Pairs
<1>2. /\ t \in Int
      /\ \A d \in Pairs : tested[d] \in Int /\ tested[d] <= MinLatStart /\ stored[d] \in Int
  <2>1. Latencies \subseteq 0..MinLatStart /\ MinLatStart \in Nat
    BY PairsAssumption
  <2>2. ASSUME NEW d \in Pairs
        PROVE  tested[d] \in Int /\ tested[d] <= MinLatStart /\ stored[d] \in Int
    <3>1. tested[d] \in 0..MinLatStart /\ stored[d] \in 0..MinLatStart
      BY <2>1
    <3> QED BY <2>1, <3>1
  <2> QED BY <2>1, <2>2
<1>3. PICK f : /\ IsSearch(f, ds_list, tested, stored, NPairs)
               /\ LeastLatency(ds_list, tested, stored) = f[NPairs].found
  BY LeastLatencyIsSearch
<1>4. steady => \A d \in Pairs : offer(d) # {} => (tested[d] <= t <=> stored[d] <= t)
  BY DEF Steady
<1> DEFINE T == {n \in 0..NPairs : Result(f[n], n)}
<1> HIDE DEF steady
<1>5. 0 \in T
  <2>1. f[0] = [min_lat |-> MinLatStart, found |-> {}]
    BY <1>1, <1>3 DEF IsSearch
  <2> QED BY <1>1, <2>1
<1>6. ASSUME NEW n \in 0..(NPairs - 1), n \in T PROVE n + 1 \in T
  <2>1. n + 1 \in 0..NPairs /\ n + 1 # 0 /\ (n + 1) - 1 = n /\ n \in Pairs
    BY <1>1
  <2>2. f[n + 1] = IF tested[n] <= f[n].min_lat /\ offer(n) # {}
                     THEN [min_lat |-> stored[n], found |-> offer(n)] ELSE f[n]
    BY <1>3, <2>1 DEF IsSearch
  <2>3. Result(f[n], n)
    BY <1>6
  <2>4. 0..((n + 1) - 1) = 0..(n - 1) \cup {n} /\ 0..(n - 1) \subseteq Pairs
    BY <1>1
  <2> HIDE DEF offer
  <2>5. CASE tested[n] <= f[n].min_lat /\ offer(n) # {}
    <3>1. f[n + 1].found = offer(n) /\ f[n + 1].min_lat = stored[n]
      BY <2>2, <2>5
    <3>2. ASSUME steady, NEW e \in 0..(n - 1), offer(e) # {} /\ stored[e] <= t
          PROVE  stored[n] <= t
      <4>1. PICK d \in 0..(n - 1) : f[n].min_lat = stored[d] /\ stored[d] <= t
        BY <2>3, <3>2
      <4>2. tested[n] <= t
        BY <1>2, <2>1, <2>4, <2>5, <4>1
      <4> QED BY <1>4, <2>1, <2>5, <3>2, <4>2
    <3> QED BY <2>1, <2>4, <2>5, <3>1, <3>2
  <2>6. CASE ~(tested[n] <= f[n].min_lat /\ offer(n) # {})
    <3>1. f[n + 1] = f[n]
      BY <2>2, <2>6
    <3>2. CASE offer(n) = {}
      BY <2>1, <2>3, <2>4, <3>1, <3>2
    <3>3. CASE offer(n) # {} /\ ~(tested[n] <= f[n].min_lat)
      <4>1. f[n].min_lat # MinLatStart
        BY <1>2, <2>1, <3>3
      <4>2. PICK d \in 0..(n - 1) :
              /\ f[n].found = offer(d) /\ f[n].found # {} /\ f[n].min_lat = stored[d]
              /\ steady => \A e \in 0..(n - 1) : offer(e) # {} /\ stored[e] <= t => stored[d] <= t
        BY <2>3, <4>1
      <4>3. ASSUME steady, stored[n] <= t PROVE stored[d] <= t
        <5>1. tested[n] <= t
          BY <1>4, <2>1, <3>3, <4>3
        <5> QED BY <1>2, <2>1, <2>4, <3>3, <4>2, <5>1
      <4> QED BY <2>1, <2>4, <3>1, <4>2, <4>3
    <3> QED BY <2>6, <3>2, <3>3
  <2> QED BY <2>5, <2>6
<1> HIDE DEF T, Result
<1>7. NPairs \in 0..NPairs
  BY <1>1
<1>8. NPairs \in T
  BY <1>1, <1>5, <1>6, <1>7, InductionUpTo
<1>9. Result(f[NPairs], NPairs)
  BY <1>8 DEF T
<1> QED BY <1>1, <1>3, <1>9 DEF Result, steady

(* The pages that the searches may return are idle and on the list.          *)
LEMMA SearchTakesIdle ==
  ASSUME StackInv
  PROVE  find_clean_alru_page \subseteq IdleOn(clean_list) /\ find_dirty_alru_page \subseteq IdleOn(dirty_list)
<1>1. ASSUME NEW list, NEW ds, Side(list, ds, page), NEW s \in SearchStacks(ds)
      PROVE  s \in IdleOn(list)
  <2>0. PICK tested \in [Pairs -> Latencies], stored \in [Pairs -> Latencies] :
          s \in LeastLatency(ds, tested, stored)
    BY <1>1 DEF SearchStacks
  <2>1. PICK d \in Pairs : s \in find_alru_page_ds_stack(ds[d])
    <3>1. PICK t : t \in Latencies
      BY PairsAssumption
    <3> QED BY <2>0, <3>1, SearchResult
  <2>2. ds[d] \in Seq(Slots) /\ Elements(ds[d]) \subseteq Elements(list)
    BY <1>1 DEF Side, Agrees
  <2>3. s \in Elements(ds[d]) /\ Idle(s)
    BY <2>1, <2>2, StackSearch
  <2> QED BY <2>2, <2>3 DEF IdleOn
<1>2. ASSUME NEW list \in Seq(Slots), NEW s \in LastIdle(list) PROVE s \in IdleOn(list)
  <2>1. s \in Elements(list) /\ Idle(s)
    BY ScanType DEF LastIdle
  <2> QED BY <2>1 DEF IdleOn
<1>3. clean_list \in Seq(Slots) /\ dirty_list \in Seq(Slots)
  BY DEF StackInv, Side
<1>4. ASSUME NEW list \in Seq(Slots), NEW ds, Side(list, ds, page),
             NEW s \in IF start_urio THEN SearchStacks(ds) ELSE LastIdle(list)
      PROVE  s \in IdleOn(list)
  BY <1>1, <1>2, <1>4
<1>5. /\ \A s \in find_clean_alru_page : s \in IdleOn(clean_list)
      /\ \A s \in find_dirty_alru_page : s \in IdleOn(dirty_list)
  BY <1>3, <1>4 DEF StackInv, find_clean_alru_page, find_dirty_alru_page
<1> QED BY <1>5

(* The page is that of a pair which is fast enough, if there is one.         *)
LEMMA ServedPair == StackInv => LeastBusyPairServed
<1> SUFFICES ASSUME StackInv,
                    NEW tested \in [Pairs -> Latencies], NEW stored \in [Pairs -> Latencies],
                    NEW ds_list \in {clean_ds_list, dirty_ds_list}
             PROVE  LET found == LeastLatency(ds_list, tested, stored)
                        offering == {d \in Pairs : find_alru_page_ds_stack(ds_list[d]) # {}}
                        Fast(t) == {d \in offering : tested[d] <= t /\ stored[d] <= t}
                        Slow(t) == {d \in offering : tested[d] > t /\ stored[d] > t}
                    IN  /\ found = {} <=> offering = {}
                        /\ \A t \in Latencies :
                             Fast(t) # {} /\ Fast(t) \cup Slow(t) = offering =>
                               \A s \in found : PairOf[page[s]] \in Fast(t)
  BY DEF LeastBusyPairServed
<1> DEFINE found == LeastLatency(ds_list, tested, stored)
           offer(d) == find_alru_page_ds_stack(ds_list[d])
           offering == {d \in Pairs : offer(d) # {}}
           Fast(t) == {d \in offering : tested[d] <= t /\ stored[d] <= t}
           Slow(t) == {d \in offering : tested[d] > t /\ stored[d] > t}
<1>1. PICK list : Side(list, ds_list, page)
  BY DEF StackInv
<1>2. ASSUME NEW d \in Pairs, NEW s \in offer(d) PROVE PairOf[page[s]] = d
  <2>1. ds_list[d] \in Seq(Slots) /\ \A t \in Elements(ds_list[d]) : PairOf[page[t]] = d
    BY <1>1 DEF Side, Agrees
  <2>2. s \in Elements(ds_list[d])
    BY <2>1, StackSearch
  <2> QED BY <2>1, <2>2
<1>3. ASSUME NEW t \in Latencies
      PROVE  \/ found = {} /\ \A d \in Pairs : offer(d) = {}
             \/ \E d \in Pairs :
                  /\ found = offer(d) /\ found # {}
                  /\ Steady(t, ds_list, tested, stored) =>
                       \A e \in Pairs : offer(e) # {} /\ stored[e] <= t => stored[d] <= t
  BY SearchResult
<1>4. Latencies # {} /\ Latencies \subseteq Int
  BY PairsAssumption
<1>5. \A d \in Pairs : tested[d] \in Int /\ stored[d] \in Int
  BY <1>4
<1>6. ASSUME NEW t \in Latencies, Fast(t) \cup Slow(t) = offering
      PROVE  Steady(t, ds_list, tested, stored)
  <2>1. ASSUME NEW d \in Pairs, offer(d) # {} PROVE tested[d] <= t <=> stored[d] <= t
    <3>1. d \in Fast(t) \/ d \in Slow(t)
      BY <1>6, <2>1
    <3>2. t \in Int /\ tested[d] \in Int /\ stored[d] \in Int
      BY <1>4, <1>5
    <3> QED BY <3>1, <3>2
  <2> QED BY <2>1 DEF Steady
<1> HIDE DEF found, offer
<1>7. found = {} <=> offering = {}
  BY <1>3, <1>4
<1>8. ASSUME NEW t \in Latencies, Fast(t) # {}, Fast(t) \cup Slow(t) = offering, NEW s \in found
      PROVE  PairOf[page[s]] \in Fast(t)
  <2>1. PICK e \in Pairs : offer(e) # {} /\ stored[e] <= t
    BY <1>8
  <2>2. PICK d \in Pairs : /\ found = offer(d) /\ found # {}
                           /\ stored[d] <= t
    BY <1>3, <1>6, <1>8, <2>1
  <2>3. d \in Fast(t) \cup Slow(t) /\ PairOf[page[s]] = d
    BY <1>2, <1>8, <2>2
  <2>4. t \in Int /\ stored[d] \in Int
    BY <1>4, <1>5
  <2>5. d \notin Slow(t)
    BY <2>2, <2>4
  <2> QED BY <2>3, <2>5
<1> HIDE DEF offering, Fast, Slow
<1>9. (found = {} <=> offering = {})
      /\ \A t \in Latencies : Fast(t) # {} /\ Fast(t) \cup Slow(t) = offering =>
            \A s \in found : PairOf[page[s]] \in Fast(t)
  BY <1>7, <1>8
<1> QED BY <1>9 DEF found, offer, offering, Fast, Slow

LEMMA StackInvImplies == StackInv => StacksFollowLists
BY DEF StackInv, Side, Agrees, StacksFollowLists, FollowsList, OfPair

-----------------------------------------------------------------------------
(* The ALRU cache is a cache that takes any idle page.                       *)

LEMMA AlruHitIsHit ==
  ASSUME NEW pl, NEW r, AlruHit(pl, r)
  PROVE  Hit(pl, r)
<1>1. CASE IsUptodate(r.slot) /\ AlruServe(pl, r, [refs EXCEPT ![r.slot] = @ + 1])
  BY <1>1 DEF AlruServe, AlruReadClean, AlruReadDirtyHit, AlruReadDirtyMiss, AlruWriteDirty,
              AlruWriteClean, Serve, Hit
<1>2. CASE ~IsUptodate(r.slot) /\ Hit(pl, r)
  BY <1>2
<1> QED BY <1>1, <1>2 DEF AlruHit

LEMMA AlruIsAnyPage ==
  ASSUME StackInv, AlruNext
  PROVE  AnyPageNext
<1>1. find_clean_alru_page \subseteq IdleOn(clean_list) /\ find_dirty_alru_page \subseteq IdleOn(dirty_list)
  BY SearchTakesIdle
<1>2. ASSUME NEW pl \in Players, NEW r, AlruReadMiss(pl, r) PROVE AnyReadMiss(pl, r)
  BY <1>1, <1>2 DEF AlruReadMiss, AlruTakeFreeClean, AlruEvict, AnyReadMiss
<1>3. ASSUME NEW pl \in Players, NEW r, AlruWriteMiss(pl, r) PROVE WriteMiss(pl, r)
  BY <1>3 DEF AlruWriteMiss, AlruInsertDirty, WriteMiss
<1>4. ASSUME NEW pl \in Players, AlruReplacePage(pl) PROVE AnyReplacePage(pl)
  BY <1>2, <1>3, <1>4, AlruHitIsHit, Zenon DEF AlruReplacePage, AnyReplacePage, alru_find
<1>5. ASSUME NEW pl \in Players, AlruUptodateSeen(pl) PROVE AnyUptodateSeen(pl)
  BY <1>5 DEF AlruUptodateSeen, AnyUptodateSeen, AlruServe, AlruReadClean, AlruReadDirtyHit,
              AlruReadDirtyMiss, AlruWriteDirty, AlruWriteClean, Serve
<1>6. ASSUME NEW pl \in Players, AlruCleanPageSeen(pl) PROVE AnyCleanPageSeen(pl)
  BY <1>1, <1>6, AlruHitIsHit DEF AlruCleanPageSeen, AnyCleanPageSeen, AlruEvict, alru_find
<1>7. ASSUME NEW pl \in Players, AlruFreeDirtySeen(pl) PROVE AnyFreeDirtySeen(pl)
  BY <1>7, AlruHitIsHit DEF AlruFreeDirtySeen, AnyFreeDirtySeen, AlruInsertDirty, alru_find
<1>8. ASSUME NEW pl \in Players, AlruPlayerProceeds(pl) PROVE AnyPlayerProceeds(pl)
  BY <1>5, <1>6, <1>7, <1>8
     DEF AlruPlayerProceeds, AnyPlayerProceeds, AlruExchangeSeen, AlruIssueRead
<1>9. AlruDestagerProceeds => AnyDestagerProceeds
  <2>1. AlruDestagePick => AnyDestagePick
    BY <1>1 DEF AlruDestagePick, AnyDestagePick
  <2> QED BY <2>1 DEF AlruDestagerProceeds, AnyDestagerProceeds, AlruDestageTests, AlruIssueDestage
<1>10. ASSUME NEW io \in ios, AlruCallback(io) PROVE Callback(io)
  BY <1>10 DEF AlruCallback, alru_finish_read, alru_finish_destage_read,
               alru_finish_destage_write, Callback
<1> QED BY <1>4, <1>8, <1>9, <1>10 DEF AlruNext, AnyPageNext

-----------------------------------------------------------------------------
(* The stacks follow the lists.                                              *)

(* Listed slots have pages, and pages have pairs.                            *)
LEMMA PairsOfPages ==
  ASSUME BookInv
  PROVE  /\ \A p \in Pages : PairOf[p] \in Pairs
         /\ \A s \in Cached : s \in Slots /\ page[s] \in Pages /\ (IsDirty(s) <=> s \in Dirty)
         /\ page \in [Slots -> Pages \cup {NoPage}]
<1>1. Cached \subseteq Slots
  BY ListedSlots DEF BookInv, TypeInv
<1> QED BY <1>1, PairsAssumption DEF BookInv, HashMatchesLists, TypeInv, DataOK

(* Nothing happens to the lists and stacks.                                  *)
StacksRest == UNCHANGED <<page, clean_list, dirty_list, stacks>>

LEMMA RestKeeps == StackInv /\ StacksRest => StackInv'
BY DEF StackInv, StacksRest, stacks

(* The five branches of a hit.                                               *)
LEMMA ServeStacks ==
  ASSUME BookInv, StackInv, NEW pl, NEW r, NEW held, AlruServe(pl, r, held),
         r.slot \in Cached, page[r.slot] = r.page
  PROVE  StackInv'
<1> DEFINE s == r.slot
           p == PairOf[r.page]
<1>1. s \in Slots /\ PairOf[page[s]] = p /\ p \in Pairs /\ (IsDirty(s) <=> s \in Dirty)
  BY PairsOfPages
<1>2. Side(clean_list, clean_ds_list, page) /\ Side(dirty_list, dirty_ds_list, page)
  BY DEF StackInv
<1>3. CASE AlruReadClean(pl, r, held)
  <2>1. /\ clean_list' = MoveToHead(clean_list, s)
        /\ clean_ds_list' = [clean_ds_list EXCEPT ![p] = MoveToHead(@, s)]
        /\ UNCHANGED <<page, dirty_list, dirty_ds_list>> /\ ~IsDirty(s)
    BY <1>3 DEF AlruReadClean, ReadClean, CleanToHead
  <2>2. s \in Elements(clean_list)
    BY <1>1, <2>1 DEF Cached, Clean
  <2> HIDE DEF s, p
  <2>3. Side(clean_list', clean_ds_list', page)
    BY <1>1, <1>2, <2>1, <2>2, SideMove
  <2> QED BY <1>2, <2>1, <2>3 DEF StackInv
<1>4. CASE AlruReadDirtyHit(pl, r, held) \/ AlruReadDirtyMiss(pl, r, held)
             \/ AlruWriteDirty(pl, r, held)
  <2>1. /\ dirty_list' = MoveToHead(dirty_list, s)
        /\ dirty_ds_list' = [dirty_ds_list EXCEPT ![p] = MoveToHead(@, s)]
        /\ UNCHANGED <<page, clean_list, clean_ds_list>> /\ IsDirty(s)
    BY <1>4 DEF AlruReadDirtyHit, ReadDirtyHit, AlruReadDirtyMiss, ReadDirtyMiss,
                AlruWriteDirty, WriteDirty, DirtyToHead
  <2>2. s \in Elements(dirty_list)
    BY <1>1, <2>1 DEF Dirty
  <2> HIDE DEF s, p
  <2>3. Side(dirty_list', dirty_ds_list', page)
    BY <1>1, <1>2, <2>1, <2>2, SideMove
  <2> QED BY <1>2, <2>1, <2>3 DEF StackInv
<1>5. CASE AlruWriteClean(pl, r, held)
  <2>1. /\ clean_list' = RemoveNode(clean_list, s) /\ dirty_list' = AddToHead(dirty_list, s)
        /\ clean_ds_list' = [clean_ds_list EXCEPT ![p] = RemoveNode(@, s)]
        /\ dirty_ds_list' = [dirty_ds_list EXCEPT ![p] = AddToHead(@, s)]
        /\ page' = page /\ ~IsDirty(s)
    BY <1>5 DEF AlruWriteClean, WriteClean, CleanToDirty
  <2>2. s \in Elements(clean_list) /\ s \notin Elements(dirty_list)
    BY <1>1, <2>1 DEF Cached, Clean, Dirty
  <2> HIDE DEF s, p
  <2>3. Side(clean_list', clean_ds_list', page)
    BY <1>1, <1>2, <2>1, <2>2, SideRemove
  <2>4. Side(dirty_list', dirty_ds_list', page)
    BY <1>1, <1>2, <2>1, <2>2, SideAdd
  <2> QED BY <2>1, <2>3, <2>4 DEF StackInv
<1> QED BY <1>3, <1>4, <1>5 DEF AlruServe

(* A page gets a slot: one of a clean page, or a free one.                   *)
LEMMA FillStacks ==
  ASSUME BookInv, StackInv, NEW pl, NEW r, r.page \in Pages,
         \/ \E s \in IdleOn(clean_list) : AlruEvict(pl, r, s)
         \/ AlruTakeFreeClean(pl, r)
         \/ AlruInsertDirty(pl, r)
  PROVE  StackInv'
<1> DEFINE p == PairOf[r.page]
<1>1. p \in Pairs /\ page \in [Slots -> Pages \cup {NoPage}]
  BY PairsOfPages
<1>2. Side(clean_list, clean_ds_list, page) /\ Side(dirty_list, dirty_ds_list, page)
  BY DEF StackInv
<1>3. ListsPartitionSlots /\ DataOK
  BY DEF BookInv, TypeInv
<1>4. ASSUME NEW s \in IdleOn(clean_list), AlruEvict(pl, r, s) PROVE StackInv'
  <2>1. s \in Elements(clean_list) /\ s \in Clean /\ s \in Slots /\ PairOf[page[s]] \in Pairs
    BY PairsOfPages DEF IdleOn, Clean, Cached
  <2>2. /\ page' = [page EXCEPT ![s] = r.page]
        /\ clean_list' = MoveToHead(clean_list, s) /\ UNCHANGED <<dirty_list, dirty_ds_list>>
        /\ clean_ds_list' =
             [[clean_ds_list EXCEPT ![PairOf[page[s]]] = RemoveNode(@, s)]
                EXCEPT ![p] = AddToHead(@, s)]
    BY <1>4 DEF AlruEvict, Evict, Install
  <2>3. page'[s] = r.page /\ \A t \in Slots : t # s => page'[t] = page[t]
    BY <1>1, <2>1, <2>2
  <2>4. \A t \in Elements(clean_list) : t \in Slots
    BY <1>3 DEF DataOK, Elements
  <2>5. \A t \in Elements(dirty_list) : t \in Slots /\ t # s
    BY <1>3, <2>1 DEF DataOK, Elements, ListsPartitionSlots, Dirty
  <2>6. PairOf[page'[s]] = p
    BY <2>3
  <2> HIDE DEF p
  <2>7. Side(clean_list', clean_ds_list', page')
    <3>1. Side(MoveToHead(clean_list, s),
              [[clean_ds_list EXCEPT ![PairOf[page[s]]] = RemoveNode(@, s)]
                 EXCEPT ![PairOf[page'[s]]] = AddToHead(@, s)],
              page')
      BY <1>1, <1>2, <2>1, <2>3, <2>4, <2>6, SideEvict
    <3> QED BY <2>2, <2>6, <3>1
  <2>8. Side(dirty_list', dirty_ds_list', page')
    BY <1>2, <2>2, <2>3, <2>5, SideKept
  <2> QED BY <2>7, <2>8 DEF StackInv
<1>5. ASSUME NEW s \in Free, page' = [page EXCEPT ![s] = r.page]
      PROVE  /\ s \in Slots /\ PairOf[page'[s]] = p
             /\ s \notin Elements(clean_list) /\ s \notin Elements(dirty_list)
             /\ \A t \in Elements(clean_list) : page'[t] = page[t]
             /\ \A t \in Elements(dirty_list) : page'[t] = page[t]
  <2>1. s \in Slots /\ s \notin Elements(clean_list) /\ s \notin Elements(dirty_list)
    BY <1>3 DEF ListsPartitionSlots, Cached, Clean, Dirty
  <2>2. \A t \in Elements(clean_list) \cup Elements(dirty_list) : t \in Slots
    BY <1>3 DEF DataOK, Elements
  <2> QED BY <1>1, <1>5, <2>1, <2>2
<1>6. CASE AlruTakeFreeClean(pl, r)
  <2> DEFINE s == free_clean_list[1]
  <2>1. /\ free_clean_list # <<>> /\ page' = [page EXCEPT ![s] = r.page]
        /\ clean_list' = AddToHead(clean_list, s) /\ UNCHANGED <<dirty_list, dirty_ds_list>>
        /\ clean_ds_list' = [clean_ds_list EXCEPT ![p] = AddToHead(@, s)]
    BY <1>6 DEF AlruTakeFreeClean, TakeFreeClean, Install
  <2>2. s \in Free
    BY <1>3, <2>1, HeadType DEF DataOK, Free
  <2> HIDE DEF s, p
  <2>3. Side(clean_list', clean_ds_list', page')
    <3>1. /\ s \in Slots /\ s \notin Elements(clean_list) /\ PairOf[page'[s]] = p
          /\ \A t \in Elements(clean_list) : page'[t] = page[t]
      BY <1>5, <2>1, <2>2
    <3>2. Side(AddToHead(clean_list, s),
               [clean_ds_list EXCEPT ![PairOf[page'[s]]] = AddToHead(@, s)], page')
      BY <1>1, <1>2, <3>1, SideAdd
    <3> QED BY <2>1, <3>1, <3>2
  <2>4. Side(dirty_list', dirty_ds_list', page')
    BY <1>2, <1>5, <2>1, <2>2, SideKept
  <2> QED BY <2>3, <2>4 DEF StackInv
<1>7. CASE AlruInsertDirty(pl, r)
  <2> DEFINE s == free_dirty_list[1]
  <2>1. /\ free_dirty_list # <<>> /\ page' = [page EXCEPT ![s] = r.page]
        /\ dirty_list' = AddToHead(dirty_list, s) /\ UNCHANGED <<clean_list, clean_ds_list>>
        /\ dirty_ds_list' = [dirty_ds_list EXCEPT ![p] = AddToHead(@, s)]
    BY <1>7 DEF AlruInsertDirty, InsertDirty
  <2>2. s \in Free
    BY <1>3, <2>1, HeadType DEF DataOK, Free
  <2> HIDE DEF s, p
  <2>3. Side(dirty_list', dirty_ds_list', page')
    <3>1. /\ s \in Slots /\ s \notin Elements(dirty_list) /\ PairOf[page'[s]] = p
          /\ \A t \in Elements(dirty_list) : page'[t] = page[t]
      BY <1>5, <2>1, <2>2
    <3>2. Side(AddToHead(dirty_list, s),
               [dirty_ds_list EXCEPT ![PairOf[page'[s]]] = AddToHead(@, s)], page')
      BY <1>1, <1>2, <3>1, SideAdd
    <3> QED BY <2>1, <3>1, <3>2
  <2>4. Side(clean_list', clean_ds_list', page')
    BY <1>2, <1>5, <2>1, <2>2, SideKept
  <2> QED BY <2>3, <2>4 DEF StackInv
<1> QED BY <1>4, <1>6, <1>7

(* A hit, at once or after a wait.                                           *)
LEMMA HitStacks ==
  ASSUME BookInv, StackInv, NEW pl, NEW r \in PlayerStates, r.page \in Pages,
         NEW s \in lru_find(r.page), AlruHit(pl, [r EXCEPT !.slot = s])
  PROVE  StackInv'
<1> DEFINE f == [r EXCEPT !.slot = s]
<1>1. f.slot = s /\ f.page = r.page
  BY DEF PlayerStates
<1>2. s \in Cached /\ page[s] = r.page
  BY FindExact DEF BookInv, TypeInv
<1>3. AlruHit(pl, f)
  OBVIOUS
<1> HIDE DEF f
<1>4. CASE AlruServe(pl, f, [refs EXCEPT ![f.slot] = @ + 1])
  BY <1>1, <1>2, <1>4, ServeStacks
<1>5. CASE ~IsUptodate(f.slot) /\ Hit(pl, f) /\ UNCHANGED stacks
  BY <1>5, RestKeeps DEF Hit, listVars, StacksRest
<1> QED BY <1>3, <1>4, <1>5 DEF AlruHit

LEMMA PlayerStacks ==
  ASSUME BookInv, StackInv, NEW pl \in Players, AlruReplacePage(pl) \/ AlruPlayerProceeds(pl)
  PROVE  StackInv'
<1>1. CASE AlruReplacePage(pl)
  <2>1. PICK p \in Pages, rw \in {"read", "write"}, mask \in Masks :
          LET r == [pc |-> "idle", page |-> p, rw |-> rw, mask |-> mask, slot |-> NoSlot]
          IN  \/ \E s \in alru_find(p) : AlruHit(pl, [r EXCEPT !.slot = s])
              \/ alru_find(p) = {} /\ rw = "read" /\ AlruReadMiss(pl, r)
              \/ alru_find(p) = {} /\ rw = "write" /\ AlruWriteMiss(pl, r)
    BY <1>1 DEF AlruReplacePage
  <2> DEFINE r == [pc |-> "idle", page |-> p, rw |-> rw, mask |-> mask, slot |-> NoSlot]
  <2>2. r \in PlayerStates /\ r.page = p
    <3>1. mask \in SUBSET Sectors
      BY MaskType
    <3> QED BY <3>1 DEF PlayerStates, PlayerPcs
  <2>3. \/ \E s \in lru_find(p) : AlruHit(pl, [r EXCEPT !.slot = s])
        \/ AlruReadMiss(pl, r)
        \/ AlruWriteMiss(pl, r)
    BY <2>1 DEF alru_find
  <2> HIDE DEF r
  <2>4. CASE \E s \in lru_find(p) : AlruHit(pl, [r EXCEPT !.slot = s])
    BY <2>2, <2>4, HitStacks
  <2>5. CASE \/ \E s \in IdleOn(clean_list) : AlruEvict(pl, r, s)
             \/ AlruTakeFreeClean(pl, r)
             \/ AlruInsertDirty(pl, r)
    BY <2>2, <2>5, FillStacks
  <2>6. CASE UNCHANGED <<slotVars, listVars, hash, counterVars, ghostVars, stacks>>
    BY <2>6, RestKeeps DEF StacksRest, slotVars, listVars
  <2>7. CASE AlruReadMiss(pl, r)
    BY <2>5, <2>6, <2>7, SearchTakesIdle DEF AlruReadMiss
  <2>8. CASE AlruWriteMiss(pl, r)
    <3>1. CASE AlruInsertDirty(pl, r)
      BY <2>5, <3>1
    <3>2. CASE free_dirty_list = <<>> /\ WriteMiss(pl, r) /\ UNCHANGED stacks
      BY <2>6, <3>2 DEF WriteMiss, InsertDirty
    <3> QED BY <2>8, <3>1, <3>2 DEF AlruWriteMiss
  <2> QED BY <2>3, <2>4, <2>7, <2>8
<1>2. CASE AlruPlayerProceeds(pl)
  <2> DEFINE r == player[pl]
  <2>1. r \in PlayerStates /\ (r.pc # "idle" => r.page \in Pages)
    BY DEF BookInv, TypeInv, PlayersOK, MayBeAt
  <2>2. CASE AlruUptodateSeen(pl)
    <3>1. r.slot \in Cached /\ page[r.slot] = r.page /\ AlruServe(pl, r, refs)
      BY <2>2 DEF AlruUptodateSeen, BookInv, UsersOK, ThreadsHold
    <3> HIDE DEF r
    <3> QED BY <3>1, ServeStacks
  <2>3. CASE AlruCleanPageSeen(pl) \/ AlruFreeDirtySeen(pl)
    <3>1. /\ r.page \in Pages
          /\ \/ \E s \in IdleOn(clean_list) : AlruEvict(pl, r, s)
             \/ AlruInsertDirty(pl, r)
             \/ \E s \in lru_find(r.page) : AlruHit(pl, [r EXCEPT !.slot = s])
      BY <2>1, <2>3, SearchTakesIdle DEF AlruCleanPageSeen, AlruFreeDirtySeen, alru_find
    <3> HIDE DEF r
    <3> QED BY <2>1, <3>1, FillStacks, HitStacks
  <2>4. CASE AlruExchangeSeen(pl) \/ AlruIssueRead(pl)
    BY <2>4, RestKeeps
       DEF AlruExchangeSeen, ExchangeSeen, AlruIssueRead, IssueRead, StacksRest, slotVars, listVars
  <2> QED BY <1>2, <2>2, <2>3, <2>4 DEF AlruPlayerProceeds
<1> QED BY <1>1, <1>2

(* A page that leaves the cache leaves its pair's dirty stack.               *)
LEMMA CallbackStacks ==
  ASSUME BookInv, StackInv, NEW io \in ios, AlruCallback(io)
  PROVE  StackInv'
<1>1. CASE alru_finish_read(io) \/ alru_finish_destage_read(io)
  BY <1>1, RestKeeps DEF alru_finish_read, lru_finish_read, alru_finish_destage_read,
                         lru_finish_destage_read, StacksRest, listVars
<1>2. CASE alru_finish_destage_write(io)
  <2>1. io.page \in Pages
    BY DEF BookInv, TypeInv, EnvironmentOK, IoRecords
  <2>2. PICK s \in lru_find(io.page) :
          /\ IsDirty(s)
          /\ dirty_list' = IF refs[s] = 1 THEN RemoveNode(dirty_list, s) ELSE dirty_list
    BY <1>2 DEF alru_finish_destage_write, lru_finish_destage_write
  <2>3. PICK t \in lru_find(io.page) :
          dirty_ds_list' = IF refs[t] = 1
            THEN [dirty_ds_list EXCEPT ![PairOf[io.page]] = RemoveNode(@, t)]
            ELSE dirty_ds_list
    BY <1>2 DEF alru_finish_destage_write, alru_find
  <2>4. UNCHANGED <<page, clean_list, clean_ds_list>>
    BY <1>2 DEF alru_finish_destage_write, lru_finish_destage_write
  <2>5. lru_find(io.page) = {x \in Cached : page[x] = io.page}
    BY <2>1, FindExact DEF BookInv, TypeInv
  <2>6. s = t /\ s \in Cached /\ page[s] = io.page
    BY <2>5 DEF BookInv, HashMatchesLists
  <2>7. s \in Elements(dirty_list) /\ PairOf[page[s]] \in Pairs
    BY <2>1, <2>2, <2>6, PairsOfPages DEF Dirty
  <2>8. CASE refs[s] = 1
    <3>1. Side(RemoveNode(dirty_list, s),
               [dirty_ds_list EXCEPT ![PairOf[page[s]]] = RemoveNode(@, s)], page)
      BY <2>7, SideRemove DEF StackInv
    <3> QED BY <2>2, <2>3, <2>4, <2>6, <2>8, <3>1 DEF StackInv
  <2>9. CASE refs[s] # 1
    BY <2>2, <2>3, <2>4, <2>6, <2>9, RestKeeps DEF StacksRest, stacks
  <2> QED BY <2>8, <2>9
<1> QED BY <1>1, <1>2 DEF AlruCallback

LEMMA StackInvNext == BookInv /\ StackInv /\ [AlruNext]_alruVars => StackInv'
<1> SUFFICES ASSUME BookInv, StackInv, [AlruNext]_alruVars PROVE StackInv'
  OBVIOUS
<1>1. ASSUME NEW pl \in Players, AlruReplacePage(pl) \/ AlruPlayerProceeds(pl) PROVE StackInv'
  BY <1>1, PlayerStacks
<1>2. ASSUME NEW io \in ios, AlruCallback(io) PROVE StackInv'
  BY <1>2, CallbackStacks
<1>3. CASE \/ AlruDestagerProceeds
           \/ StartRecovery /\ UNCHANGED stacks
           \/ EndRecovery /\ UNCHANGED stacks
           \/ UNCHANGED alruVars
  <2>1. StacksRest
    BY <1>3 DEF AlruDestagerProceeds, AlruDestageTests, DestageWanted, DestageBudget,
                AlruDestagePick, AlruIssueDestage, IssueDestage, StartRecovery, EndRecovery,
                StacksRest, alruVars, vars, slotVars, listVars, stacks
  <2> QED BY <2>1, RestKeeps
<1> QED BY <1>1, <1>2, <1>3 DEF AlruNext

LEMMA StackInvInit == AlruInit => StackInv
<1> SUFFICES ASSUME AlruInit PROVE StackInv
  OBVIOUS
<1>1. clean_list = <<>> /\ dirty_list = <<>>
  BY DEF AlruInit, Init
<1>2. /\ clean_ds_list = [d \in Pairs |-> <<>>]
      /\ dirty_ds_list = [d \in Pairs |-> <<>>]
  BY DEF AlruInit
<1>3. <<>> \in Seq(Slots) /\ NoDuplicates(<<>>) /\ Elements(<<>>) = {}
  BY DEF NoDuplicates, Elements
<1> QED BY <1>1, <1>2, <1>3 DEF StackInv, Side, Agrees

-----------------------------------------------------------------------------
(* What holds of the ALRU cache.                                             *)

(* A step of the ALRU cache is one of a cache that takes any idle page.      *)
LEMMA AlruStep == StackInv /\ [AlruNext]_alruVars => [AnyPageNext]_vars
BY AlruIsAnyPage DEF alruVars

(* The books are in order, and the stacks follow the lists. *)
LEMMA AlruInvHolds == AlruSpec => [](BookInv /\ StackInv)
<1>1. AlruInit => BookInv /\ StackInv
  BY BookInvInit, StackInvInit DEF AlruInit
<1>2. BookInv /\ StackInv /\ [AlruNext]_alruVars => (BookInv /\ StackInv)'
  BY AlruStep, BookInvNext, StackInvNext
<1> QED BY <1>1, <1>2, PTL DEF AlruSpec

LEMMA AlruTakesAnyPage == AlruSpec => AnyPageSpec
<1>1. AlruInit => Init
  BY DEF AlruInit
<1>2. BookInv /\ StackInv /\ [AlruNext]_alruVars => [AnyPageNext]_vars
  BY AlruStep
<1> QED BY <1>1, <1>2, AlruInvHolds, PTL DEF AlruSpec, AnyPageSpec

(* The cache never leaves its types, do_alru_replacepage's page pointer is   *)
(* never null when it is used, nor is alru_destage's when it submits.        *)
THEOREM AlruTypeCorrect == AlruSpec => []TypeOK
BY AlruTakesAnyPage, TypeInvHolds, TypeInvImpliesTypeOK, PTL

(* A stack has the pages of its pair that are on the list, in the order of   *)
(* the list, so that its tail is the least recently used page of the pair    *)
(* and alru_check_stack (alru.c:1257) never finds a page missing: a page     *)
(* that changes its list, its place or its number does so on the stacks too. *)
THEOREM StacksExact == AlruSpec => []StacksFollowLists
BY AlruInvHolds, StackInvImplies, PTL

(* Though latencies change while a search over the pairs runs, it finds an   *)
(* idle page if any pair has one, and takes it from a pair at most as slow   *)
(* as t if there is one and no pair that has one comes from one side of t to *)
(* the other (find_clean_alru_page, find_dirty_alru_page).                   *)
THEOREM IdlestPairServed == AlruSpec => []LeastBusyPairServed
BY AlruInvHolds, ServedPair, PTL

(* The ALRU cache too shares the slots among the four lists.                 *)
THEOREM AlruSlotsShared == AlruSpec => []ListsPartitionSlots
<1>1. BookInv => ListsPartitionSlots
  BY DEF BookInv
<1> QED BY <1>1, AlruInvHolds, PTL

(* Its hash table too chains exactly the pages of the clean and dirty lists, *)
(* and no page twice, as a player that waited looks for its page again.      *)
THEOREM AlruHashTableExact == AlruSpec => []HashMatchesLists
<1>1. BookInv => HashMatchesLists
  BY DEF BookInv
<1> QED BY <1>1, AlruInvHolds, PTL

(* Its ref_count too is the number of threads and I/Os that use a page, so   *)
(* that a page taken from a stack is nobody's.                               *)
THEOREM AlruRefsExact == AlruSpec => []RefsCountUsers
<1>1. BookInv => RefsCountUsers
  BY DEF BookInv, UsersOK
<1> QED BY <1>1, AlruInvHolds, PTL

(* A page of it has one page I/O at most, and is not up to date meanwhile.   *)
THEOREM AlruOneIoAtATime == AlruSpec => []OneIoPerPage
<1>1. BookInv => OneIoPerPage
  BY DEF BookInv, UsersOK
<1> QED BY <1>1, AlruInvHolds, PTL

(* Its completion callbacks find their pages, and find them dirty after a    *)
(* destage: the "alru bug" branches of alru.c are dead.                      *)
THEOREM AlruCallbacksFindPages == AlruSpec => []CallbackFindsPage
<1>1. BookInv => CallbackFindsPage
  BY DEF BookInv, UsersOK
<1> QED BY <1>1, AlruInvHolds, PTL

(* What its threads hold across a wait or an I/O is still theirs afterwards, *)
(* although its destage thread lets go of alru_mutex in the middle.          *)
THEOREM AlruThreadsKeepHold == AlruSpec => []ThreadsHold
<1>1. BookInv => ThreadsHold
  BY DEF BookInv, UsersOK
<1> QED BY <1>1, AlruInvHolds, PTL

(* It has no more destages under way than destage_threadhold allows.         *)
THEOREM AlruDestageWithinBudget == AlruSpec => []DestageBounded
BY AlruTakesAnyPage, DestageBoundedHolds, PTL

(* Its dirty pages and the players that owe one stay within dpage_num.       *)
THEOREM AlruDirtyWithinBudget == AlruSpec => []DirtyBudget
BY AlruTakesAnyPage, DirtyBudgetHolds, PTL

(* A sector the user wrote is in its bitmap until the disk has it.           *)
THEOREM AlruWritesNeverLost == AlruSpec => []NoLostWrite
BY AlruTakesAnyPage, NoLostWriteHolds, PTL

(* The ALRU cache implements the write-back cache of WriteBackCache.         *)
THEOREM AlruKeepsPromise == AlruSpec => KeepsPromise
BY AlruTakesAnyPage, PromiseHolds, PTL

(* main, the end of the trace and reclaim_alru do nothing to the cache that  *)
(* the cache alone might not do, so all of this holds until it is freed.     *)
THEOREM ProgramRunsCache == ReclaimSpec => AlruSpec
<1>1. ReclaimInit => AlruInit
  BY DEF ReclaimInit
<1>2. [ReclaimNext]_reclaimVars => [AlruNext]_alruVars
  <2> SUFFICES ASSUME [ReclaimNext]_reclaimVars PROVE [AlruNext]_alruVars
    OBVIOUS
  <2>1. CASE \E pl \in Players : PlayTrace(pl)
    BY <2>1 DEF PlayTrace, AlruNext
  <2>2. CASE TraceStartsRecovery
    BY <2>2 DEF TraceStartsRecovery, AlruNext, stacks
  <2>3. CASE DestagerGoesOn \/ OthersGoOn
    BY <2>3 DEF DestagerGoesOn, OthersGoOn, AlruNext
  <2>4. CASE EndTrace \/ EndSleep \/ reclaim_alru \/ UNCHANGED reclaimVars
    BY <2>4 DEF EndTrace, EndSleep, reclaim_alru, reclaimVars
  <2> QED BY <2>1, <2>2, <2>3, <2>4 DEF ReclaimNext
<1> QED BY <1>1, <1>2, PTL DEF ReclaimSpec, AlruSpec

=============================================================================
