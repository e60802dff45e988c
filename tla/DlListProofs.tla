---------------------------- MODULE DlListProofs ----------------------------
(***************************************************************************)
(* What the list operations return: first for any list, then for lists on  *)
(* which no element occurs twice, where removal by node is exact.  Before  *)
(* them, what all the proofs share about numbers: quotients and products,  *)
(* and induction in a form without operator parameters, for what is        *)
(* defined by recursion over positions.                                    *)
(***************************************************************************)
EXTENDS DlList, WellFoundedInduction, TLAPS

-----------------------------------------------------------------------------
(* Numbers.                                                                  *)

(* Quotient and remainder rebuild the number. *)
LEMMA DivMod ==
  ASSUME NEW a \in Nat, NEW b \in Nat \ {0}
  PROVE  /\ a \div b \in Nat /\ a % b \in 0..(b - 1)
         /\ a = (b * (a \div b)) + (a % b)
BY Z3

(* Quotient and remainder are the only ones. *)
LEMMA DivModUnique ==
  ASSUME NEW b \in Nat \ {0}, NEW q \in Nat, NEW r \in 0..(b - 1)
  PROVE  ((b * q) + r) \div b = q /\ ((b * q) + r) % b = r
BY Z3

(* A larger number has no smaller quotient. *)
LEMMA DivMonotonic ==
  ASSUME NEW a \in Nat, NEW b \in Nat, NEW c \in Nat \ {0}, a <= b
  PROVE  a \div c <= b \div c
BY Z3

(* What the provers do not look for in products of variables.                *)
LEMMA Products ==
  ASSUME NEW a \in Nat, NEW b \in Nat, NEW c \in Nat
  PROVE  /\ a * c \in Nat /\ a * c = c * a
         /\ a <= b => c * a <= c * b
         /\ a < b => (c * a) + c <= c * b
         /\ c * (a + 1) = (c * a) + c
BY Z3

Below == {ss \in Nat \X Nat : ss[1] < ss[2]}

(* No sequence of natural numbers descends for ever.                         *)
LEMMA BelowWellFounded == IsWellFoundedOn(Below, Nat)
  BY NatLessThanWellFounded DEF OpToRel, Below

(* A set of natural numbers that is not empty has a least element.           *)
LEMMA LeastNat ==
  ASSUME NEW T \in SUBSET Nat, T # {}
  PROVE  \E x \in T : \A y \in T : x <= y
<1>1. \E x \in T : \A y \in T : <<y, x>> \notin Below
  BY BelowWellFounded, WFMin
<1>2. ASSUME NEW x \in T, NEW y \in T, <<y, x>> \notin Below PROVE x <= y
  BY <1>2 DEF Below
<1> QED BY <1>1, <1>2

(* A set of natural numbers with 0, and with n + 1 for each n below a bound, *)
(* has every number up to the bound.                                         *)
LEMMA InductionUpTo ==
  ASSUME NEW N \in Nat, NEW T, 0 \in T, \A n \in 0..(N - 1) : n \in T => n + 1 \in T
  PROVE  \A n \in 0..N : n \in T
<1> SUFFICES ASSUME NEW m \in 0..N, m \notin T PROVE FALSE
  OBVIOUS
<1> DEFINE missing == {n \in 0..N : n \notin T}
<1>1. missing \in SUBSET Nat /\ missing # {}
  OBVIOUS
<1>2. PICK x \in missing : \A y \in missing : x <= y
  BY <1>1, LeastNat
<1>3. x \in 0..N /\ x \notin T /\ x # 0
  OBVIOUS
<1>4. x - 1 \in 0..(N - 1) /\ (x - 1) + 1 = x
  BY <1>3
<1>5. x - 1 \notin missing
  BY <1>2, <1>4
<1> QED BY <1>3, <1>4, <1>5

(* Adding at the head makes a list of the old elements and the new one.      *)
LEMMA AddToHeadType ==
  ASSUME NEW S, NEW list \in Seq(S), NEW node \in S
  PROVE  /\ AddToHead(list, node) \in Seq(S)
         /\ Elements(AddToHead(list, node)) \subseteq Elements(list) \cup {node}
<1> DEFINE new == AddToHead(list, node)
<1>1. Len(list) \in Nat /\ \A i \in 1..Len(list) : list[i] \in S
  OBVIOUS
<1>2. new \in [1..(Len(list) + 1) -> S]
  BY <1>1 DEF AddToHead
<1>3. new \in Seq(S) /\ Len(new) = Len(list) + 1
  <2>1. Len(list) + 1 \in Nat BY <1>1
  <2> HIDE DEF new
  <2> QED BY <1>2, <2>1
<1>4. \A i \in 1..Len(new) : new[i] = node \/ \E j \in 1..Len(list) : new[i] = list[j]
  <2> SUFFICES ASSUME NEW i \in 1..(Len(list) + 1)
               PROVE  new[i] = node \/ \E j \in 1..Len(list) : new[i] = list[j]
    BY <1>3
  <2>1. new[i] = IF i = 1 THEN node ELSE list[i - 1]
    BY DEF AddToHead
  <2>2. i # 1 => i - 1 \in 1..Len(list)
    BY <1>1
  <2> HIDE DEF new
  <2> QED BY <2>1, <2>2
<1> HIDE DEF new
<1>5. Elements(new) \subseteq Elements(list) \cup {node}
  BY <1>4 DEF Elements
<1> QED BY <1>3, <1>5 DEF new

(* Removal leaves a list of some of the old elements, whether or not the     *)
(* node is on the list.                                                      *)
LEMMA RemoveNodeType ==
  ASSUME NEW S, NEW list \in Seq(S), NEW node
  PROVE  /\ RemoveNode(list, node) \in Seq(S)
         /\ Elements(RemoveNode(list, node)) \subseteq Elements(list)
<1> DEFINE at == CHOOSE i \in 1..Len(list) : list[i] = node
           new == [i \in 1..(Len(list) - 1) |-> IF i < at THEN list[i] ELSE list[i + 1]]
<1>1. RemoveNode(list, node) = new
  BY DEF RemoveNode
<1>2. Len(list) \in Nat /\ \A i \in 1..Len(list) : list[i] \in S
  OBVIOUS
<1>3. \A i \in 1..(Len(list) - 1) : i \in 1..Len(list) /\ i + 1 \in 1..Len(list)
  BY <1>2
<1>4. \A i \in 1..(Len(list) - 1) : new[i] = list[i] \/ new[i] = list[i + 1]
  <2> HIDE DEF at
  <2> QED OBVIOUS
<1>5. PICK n \in Nat : 1..(Len(list) - 1) = 1..n
  <2>1. CASE Len(list) = 0
    BY <2>1, 1..(0 - 1) = 1..0
  <2>2. CASE Len(list) # 0
    BY <1>2, <2>2, Len(list) - 1 \in Nat
  <2> QED BY <2>1, <2>2
<1>6. DOMAIN new = 1..(Len(list) - 1)
  OBVIOUS
<1>7. new \in [1..n -> S]
  <2>1. \A i \in 1..n : new[i] \in S
    BY <1>2, <1>3, <1>4, <1>5
  <2>2. new = [i \in 1..n |-> new[i]]
    BY <1>5
  <2> HIDE DEF new
  <2> QED BY <2>1, <2>2
<1> HIDE DEF new
<1>8. new \in Seq(S) /\ Len(new) = n
  BY <1>7
<1>9. Elements(new) \subseteq Elements(list)
  BY <1>3, <1>4, <1>5, <1>8 DEF Elements
<1> QED BY <1>1, <1>8, <1>9

(* Both together: a move to the head.                                        *)
LEMMA MoveToHeadType ==
  ASSUME NEW S, NEW list \in Seq(S), NEW node \in S
  PROVE  /\ MoveToHead(list, node) \in Seq(S)
         /\ Elements(MoveToHead(list, node)) \subseteq Elements(list) \cup {node}
<1>1. /\ RemoveNode(list, node) \in Seq(S)
      /\ Elements(RemoveNode(list, node)) \subseteq Elements(list)
  BY RemoveNodeType
<1>2. /\ MoveToHead(list, node) \in Seq(S)
      /\ Elements(MoveToHead(list, node)) \subseteq Elements(RemoveNode(list, node)) \cup {node}
  BY <1>1, AddToHeadType DEF MoveToHead
<1> QED BY <1>1, <1>2, Zenon

(* The first page of a list that is not empty is one of its elements.        *)
LEMMA HeadType ==
  ASSUME NEW S, NEW list \in Seq(S), list # <<>>
  PROVE  list[1] \in S /\ list[1] \in Elements(list)
<1>1. Len(list) \in Nat /\ Len(list) # 0
  OBVIOUS
<1>2. 1 \in 1..Len(list)
  BY <1>1
<1> QED BY <1>2 DEF Elements

-----------------------------------------------------------------------------
(* Lists without duplicates.                                                 *)

(* Adding a node that is not on the list.                                    *)
LEMMA AddToHeadExact ==
  ASSUME NEW S, NEW list \in Seq(S), NEW node \in S,
         NoDuplicates(list), node \notin Elements(list)
  PROVE  /\ AddToHead(list, node) \in Seq(S)
         /\ NoDuplicates(AddToHead(list, node))
         /\ Elements(AddToHead(list, node)) = Elements(list) \cup {node}
<1> DEFINE new == AddToHead(list, node)
<1>1. new \in Seq(S) /\ Elements(new) \subseteq Elements(list) \cup {node}
  BY AddToHeadType
<1>2. Len(list) \in Nat
  OBVIOUS
<1>3. DOMAIN new = 1..(Len(list) + 1) /\ new[1] = node
  BY <1>2 DEF AddToHead
<1>4. \A i \in 2..(Len(list) + 1) : new[i] = list[i - 1]
  BY <1>2 DEF AddToHead
<1> HIDE DEF new
<1>5. Len(new) = Len(list) + 1
  BY <1>1, <1>2, <1>3
<1>6. \A i \in 2..(Len(list) + 1) : i - 1 \in 1..Len(list)
  BY <1>2
<1>7. \A i \in 2..(Len(list) + 1) : new[i] # node
  BY <1>4, <1>6 DEF Elements
<1>8. NoDuplicates(new)
  <2> SUFFICES ASSUME NEW i \in 1..(Len(list) + 1), NEW j \in 1..(Len(list) + 1),
                      new[i] = new[j]
               PROVE  i = j
    BY <1>5 DEF NoDuplicates
  <2>1. CASE i = 1 \/ j = 1
    BY <1>2, <1>3, <1>7, <2>1
  <2>2. CASE i # 1 /\ j # 1
    <3>1. i \in 2..(Len(list) + 1) /\ j \in 2..(Len(list) + 1)
      BY <1>2, <2>2
    <3>2. list[i - 1] = list[j - 1]
      BY <1>4, <3>1
    <3>3. i - 1 = j - 1
      BY <1>6, <3>1, <3>2 DEF NoDuplicates
    <3> QED BY <3>3
  <2> QED BY <2>1, <2>2
<1>9. \A x \in Elements(list) : x \in Elements(new)
  <2> SUFFICES ASSUME NEW k \in 1..Len(list) PROVE list[k] \in Elements(new)
    BY DEF Elements
  <2>1. k + 1 \in 2..(Len(list) + 1) /\ (k + 1) - 1 = k
    BY <1>2
  <2>2. new[k + 1] = list[k]
    BY <1>4, <2>1
  <2>3. k + 1 \in 1..Len(new)
    BY <1>2, <1>5
  <2> QED BY <2>2, <2>3 DEF Elements
<1>10. node \in Elements(new)
  <2>1. 1 \in 1..Len(new)
    BY <1>2, <1>5
  <2> QED BY <1>3, <2>1 DEF Elements
<1> QED BY <1>1, <1>8, <1>9, <1>10 DEF new

(* Removing a node that is on the list.                                      *)
LEMMA RemoveNodeExact ==
  ASSUME NEW S, NEW list \in Seq(S), NoDuplicates(list), NEW node \in Elements(list)
  PROVE  /\ RemoveNode(list, node) \in Seq(S)
         /\ NoDuplicates(RemoveNode(list, node))
         /\ Elements(RemoveNode(list, node)) = Elements(list) \ {node}
<1> DEFINE at == CHOOSE i \in 1..Len(list) : list[i] = node
           old(i) == IF i < at THEN i ELSE i + 1
           new == RemoveNode(list, node)
<1>1. Len(list) \in Nat
  OBVIOUS
<1>2. at \in 1..Len(list) /\ list[at] = node
  BY DEF Elements
<1>3. DOMAIN new = 1..(Len(list) - 1)
  BY DEF RemoveNode
<1>4. \A i \in 1..(Len(list) - 1) : new[i] = list[old(i)]
  BY DEF RemoveNode
<1>5. new \in Seq(S) /\ Elements(new) \subseteq Elements(list)
  BY RemoveNodeType
<1> HIDE DEF new, at
<1>6. Len(new) = Len(list) - 1
  BY <1>1, <1>2, <1>3, <1>5
<1>7. \A i \in 1..(Len(list) - 1) : old(i) \in 1..Len(list) /\ old(i) # at
  BY <1>1, <1>2
<1>8. \A i, j \in 1..(Len(list) - 1) : old(i) = old(j) => i = j
  BY <1>1, <1>2
<1>9. \A k \in 1..Len(list) : k # at => \E i \in 1..(Len(list) - 1) : old(i) = k
  <2> SUFFICES ASSUME NEW k \in 1..Len(list), k # at
               PROVE  \E i \in 1..(Len(list) - 1) : old(i) = k
    OBVIOUS
  <2>1. CASE k < at
    <3>1. k \in 1..(Len(list) - 1) /\ old(k) = k
      BY <1>1, <1>2, <2>1
    <3> QED BY <3>1
  <2>2. CASE k > at
    <3>1. k - 1 \in 1..(Len(list) - 1) /\ old(k - 1) = k
      BY <1>1, <1>2, <2>2
    <3> QED BY <3>1
  <2> QED BY <1>1, <1>2, <2>1, <2>2
<1> HIDE DEF old
<1>10. NoDuplicates(new)
  <2> SUFFICES ASSUME NEW i \in 1..(Len(list) - 1), NEW j \in 1..(Len(list) - 1),
                      new[i] = new[j]
               PROVE  i = j
    BY <1>6 DEF NoDuplicates
  <2>1. old(i) = old(j)
    BY <1>4, <1>7 DEF NoDuplicates
  <2> QED BY <1>8, <2>1
<1>11. node \notin Elements(new)
  <2> SUFFICES ASSUME NEW i \in 1..(Len(list) - 1) PROVE new[i] # node
    BY <1>6 DEF Elements
  <2> QED BY <1>2, <1>4, <1>7 DEF NoDuplicates
<1>12. \A x \in Elements(list) \ {node} : x \in Elements(new)
  <2> SUFFICES ASSUME NEW k \in 1..Len(list), list[k] # node PROVE list[k] \in Elements(new)
    BY DEF Elements
  <2>1. PICK i \in 1..(Len(list) - 1) : old(i) = k
    BY <1>2, <1>9
  <2> QED BY <1>4, <1>6, <2>1 DEF Elements
<1> QED BY <1>5, <1>10, <1>11, <1>12 DEF new

(* A list grows by one.                                                      *)
LEMMA AddToHeadLen ==
  ASSUME NEW S, NEW list \in Seq(S), NEW node \in S
  PROVE  Len(AddToHead(list, node)) = Len(list) + 1
<1> DEFINE new == AddToHead(list, node)
<1>1. Len(list) + 1 \in Nat
  OBVIOUS
<1>2. new \in Seq(S)
  BY AddToHeadType
<1>3. DOMAIN new = 1..(Len(list) + 1)
  BY DEF AddToHead
<1> HIDE DEF new
<1>4. Len(new) = Len(list) + 1
  BY <1>1, <1>2, <1>3
<1> QED BY <1>4 DEF new

(* A list that loses one of its nodes shrinks by one.                        *)
LEMMA RemoveNodeLen ==
  ASSUME NEW S, NEW list \in Seq(S), NEW node \in Elements(list)
  PROVE  Len(RemoveNode(list, node)) = Len(list) - 1
<1> DEFINE new == RemoveNode(list, node)
<1>1. PICK i \in 1..Len(list) : list[i] = node
  BY DEF Elements
<1>2. Len(list) - 1 \in Nat
  BY <1>1
<1>3. new \in Seq(S)
  BY RemoveNodeType
<1>4. DOMAIN new = 1..(Len(list) - 1)
  BY DEF RemoveNode
<1> HIDE DEF new
<1>5. Len(new) = Len(list) - 1
  BY <1>2, <1>3, <1>4
<1> QED BY <1>5 DEF new

(* Moving a node to the head keeps what is on the list, and how much.        *)
LEMMA MoveToHeadExact ==
  ASSUME NEW S, NEW list \in Seq(S), NoDuplicates(list), NEW node \in Elements(list)
  PROVE  /\ MoveToHead(list, node) \in Seq(S)
         /\ NoDuplicates(MoveToHead(list, node))
         /\ Elements(MoveToHead(list, node)) = Elements(list)
         /\ Len(MoveToHead(list, node)) = Len(list)
<1> DEFINE rest == RemoveNode(list, node)
<1>1. rest \in Seq(S) /\ NoDuplicates(rest) /\ Elements(rest) = Elements(list) \ {node}
  BY RemoveNodeExact
<1>2. node \in S
  BY DEF Elements
<1>3. Len(rest) = Len(list) - 1
  BY RemoveNodeLen
<1> HIDE DEF rest
<1>4. /\ AddToHead(rest, node) \in Seq(S)
      /\ NoDuplicates(AddToHead(rest, node))
      /\ Elements(AddToHead(rest, node)) = Elements(rest) \cup {node}
  BY <1>1, <1>2, AddToHeadExact
<1>5. Len(AddToHead(rest, node)) = Len(list)
  <2>1. Len(AddToHead(rest, node)) = Len(rest) + 1
    BY <1>1, <1>2, AddToHeadLen
  <2> QED BY <1>3, <2>1
<1> QED BY <1>1, <1>4, <1>5 DEF MoveToHead, rest

-----------------------------------------------------------------------------
(* The order on a list.                                                      *)

(* An added node comes before all others, whose order stays.                 *)
LEMMA AddToHeadOrder ==
  ASSUME NEW S, NEW list \in Seq(S), NEW node \in S, node \notin Elements(list), NEW x, NEW y
  PROVE  Before(AddToHead(list, node), x, y) <=>
           (x = node /\ y \in Elements(list)) \/ Before(list, x, y)
<1> DEFINE new == AddToHead(list, node)
<1>1. Len(list) \in Nat /\ Len(new) = Len(list) + 1
  BY AddToHeadLen
<1>2. new[1] = node /\ \A k \in 1..Len(list) : k + 1 \in 1..Len(new) /\ new[k + 1] = list[k]
  BY <1>1 DEF AddToHead
<1> HIDE DEF new
<1>3. ASSUME NEW k \in 1..Len(new), k # 1 PROVE k - 1 \in 1..Len(list) /\ new[k] = list[k - 1]
  <2>1. k - 1 \in 1..Len(list) /\ (k - 1) + 1 = k
    BY <1>1, <1>3
  <2> QED BY <1>2, <2>1
<1>4. ASSUME NEW i \in 1..Len(new), NEW j \in 1..Len(new), i < j, new[i] = x, new[j] = y
      PROVE  (x = node /\ y \in Elements(list)) \/ Before(list, x, y)
  <2>1. j - 1 \in 1..Len(list) /\ y = list[j - 1]
    BY <1>1, <1>3, <1>4
  <2>2. CASE i = 1
    BY <1>2, <1>4, <2>1, <2>2 DEF Elements
  <2>3. CASE i # 1
    <3>1. i - 1 \in 1..Len(list) /\ x = list[i - 1] /\ i - 1 < j - 1
      BY <1>1, <1>3, <1>4, <2>3
    <3> QED BY <2>1, <3>1 DEF Before
  <2> QED BY <2>2, <2>3
<1>5. ASSUME x = node, NEW j \in 1..Len(list), list[j] = y PROVE Before(new, x, y)
  <2>1. 1 \in 1..Len(new) /\ j + 1 \in 1..Len(new) /\ 1 < j + 1
    BY <1>1
  <2> QED BY <1>2, <1>5, <2>1 DEF Before
<1>6. ASSUME NEW i \in 1..Len(list), NEW j \in 1..Len(list), i < j, list[i] = x, list[j] = y
      PROVE  Before(new, x, y)
  <2>1. i + 1 \in 1..Len(new) /\ j + 1 \in 1..Len(new) /\ i + 1 < j + 1
    BY <1>1, <1>6
  <2> QED BY <1>2, <1>6, <2>1 DEF Before
<1>7. Before(new, x, y) => (x = node /\ y \in Elements(list)) \/ Before(list, x, y)
  BY <1>4 DEF Before
<1>8. (x = node /\ y \in Elements(list)) \/ Before(list, x, y) => Before(new, x, y)
  BY <1>5, <1>6 DEF Before, Elements
<1> QED BY <1>7, <1>8 DEF new

(* Removing a node leaves the order of the others.                           *)
LEMMA RemoveNodeOrder ==
  ASSUME NEW S, NEW list \in Seq(S), NoDuplicates(list), NEW node \in Elements(list), NEW x, NEW y
  PROVE  Before(RemoveNode(list, node), x, y) <=> x # node /\ y # node /\ Before(list, x, y)
<1> DEFINE at == CHOOSE i \in 1..Len(list) : list[i] = node
           old(i) == IF i < at THEN i ELSE i + 1
           new == RemoveNode(list, node)
<1>1. Len(list) \in Nat /\ at \in 1..Len(list) /\ list[at] = node
  BY DEF Elements
<1>2. Len(new) = Len(list) - 1
  BY RemoveNodeLen
<1>3. \A i \in 1..Len(new) : new[i] = list[old(i)]
  BY <1>2 DEF RemoveNode
<1> HIDE DEF new, at
<1>4. \A i \in 1..Len(new) : old(i) \in 1..Len(list) /\ old(i) # at
  BY <1>1, <1>2
<1>5. \A i, j \in 1..Len(new) : i < j <=> old(i) < old(j)
  BY <1>1, <1>2
<1>6. \A k \in 1..Len(list) : k # at => \E i \in 1..Len(new) : old(i) = k
  <2> SUFFICES ASSUME NEW k \in 1..Len(list), k # at
               PROVE  \E i \in 1..Len(new) : old(i) = k
    OBVIOUS
  <2>1. CASE k < at
    <3>1. k \in 1..Len(new) /\ old(k) = k
      BY <1>1, <1>2, <2>1
    <3> QED BY <3>1
  <2>2. CASE k > at
    <3>1. k - 1 \in 1..Len(new) /\ old(k - 1) = k
      BY <1>1, <1>2, <2>2
    <3> QED BY <3>1
  <2> QED BY <1>1, <2>1, <2>2
<1> HIDE DEF old
<1>7. \A k \in 1..Len(list) : list[k] = node <=> k = at
  BY <1>1 DEF NoDuplicates
<1>8. ASSUME NEW i \in 1..Len(new), NEW j \in 1..Len(new), i < j, new[i] = x, new[j] = y
      PROVE  x # node /\ y # node /\ Before(list, x, y)
  BY <1>3, <1>4, <1>5, <1>7, <1>8 DEF Before
<1>9. ASSUME NEW k \in 1..Len(list), NEW l \in 1..Len(list), k < l, list[k] = x, list[l] = y,
             x # node, y # node
      PROVE  Before(new, x, y)
  <2>1. k # at /\ l # at
    BY <1>7, <1>9
  <2>2. PICK i \in 1..Len(new) : old(i) = k
    BY <1>6, <2>1
  <2>3. PICK j \in 1..Len(new) : old(j) = l
    BY <1>6, <2>1
  <2> QED BY <1>3, <1>5, <1>9, <2>2, <2>3 DEF Before
<1>10. Before(new, x, y) => x # node /\ y # node /\ Before(list, x, y)
  BY <1>8 DEF Before
<1>11. x # node /\ y # node /\ Before(list, x, y) => Before(new, x, y)
  BY <1>9 DEF Before
<1> QED BY <1>10, <1>11 DEF new

=============================================================================
