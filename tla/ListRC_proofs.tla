--------------------------- MODULE ListRC_proofs ---------------------------
(***************************************************************************)
(* What list.c does to its nodes, for any number of addresses: the meaning *)
(* of _size, the safety of a loop that removes what it looks at, and the   *)
(* list its callers see (TailList).                                        *)
(***************************************************************************)
EXTENDS ListRC, FiniteSetTheorems, SequenceTheorems, WellFoundedInduction,
        TLAPS

(* SizeCountsAllocated needs the set of allocated nodes to be finite. *)
CountInv == IsFiniteSet(alloc) /\ SizeCountsAllocated

(* What the variables range over, but for _size, which CountInv bounds. *)
NodesOK ==
    /\ alloc \in SUBSET Addr
    /\ prev \in [Addr -> Ptr]
    /\ next \in [Addr -> Ptr]
    /\ head \in Ptr
    /\ cur \in Ptr
    /\ iter \in Ptr

(* The nodes and pointers stay in their ranges whatever the loops do. *)
LEMMA NodesTyped == Spec => []NodesOK
<1>1. Init => NodesOK
  BY DEF Init, NodesOK, Ptr
<1>2. NodesOK /\ [Next]_vars => NodesOK'
  <2> SUFFICES ASSUME NodesOK, [Next]_vars PROVE NodesOK'
    OBVIOUS
  <2> USE DEF NodesOK, Ptr
  <2>1. ASSUME NEW a \in Addr, listInsert(a) PROVE NodesOK'
    BY <2>1 DEF listInsert
  <2>2. ASSUME NEW a \in Addr, listRemove(a) PROVE NodesOK'
    <3>1. HeadAfter(a) \in Ptr
      BY DEF HeadAfter
    <3>2. NextAfter(a) \in [Addr -> Ptr]
      BY DEF NextAfter
    <3>3. PrevAfter(a) \in [Addr -> Ptr]
      BY DEF PrevAfter
    <3> QED
      BY <2>2, <3>1, <3>2, <3>3 DEF listRemove
  <2>3. CASE listIteratorCreate
    BY <2>3 DEF listIteratorCreate
  <2>4. CASE listIteratorNext
    BY <2>4 DEF listIteratorNext
  <2>5. CASE LoopEnd
    BY <2>5 DEF LoopEnd
  <2>6. CASE listDestroy
    BY <2>6 DEF listDestroy
  <2>7. CASE UNCHANGED vars
    BY <2>7 DEF vars
  <2> QED
    BY <2>1, <2>2, <2>3, <2>4, <2>5, <2>6, <2>7 DEF Next
<1> QED
  BY <1>1, <1>2, PTL DEF Spec

(* listInsert leaves the _prev of the old head NULL, so that listRemove    *)
(* takes every node for the head.                                          *)
PrevAlwaysNull == \A a \in Addr : prev[a] = Null

(* No node of any list ever has a _prev. *)
LEMMA PrevStaysNull == Spec => []PrevAlwaysNull
<1>1. Init => PrevAlwaysNull
  BY DEF Init, PrevAlwaysNull
<1>2. NodesOK /\ PrevAlwaysNull /\ [Next]_vars => PrevAlwaysNull'
  <2> SUFFICES ASSUME NodesOK, PrevAlwaysNull, [Next]_vars
               PROVE  PrevAlwaysNull'
    OBVIOUS
  <2> USE DEF NodesOK, PrevAlwaysNull, Ptr
  <2>1. ASSUME NEW a \in Addr, listInsert(a) PROVE PrevAlwaysNull'
    BY <2>1 DEF listInsert
  <2>2. ASSUME NEW a \in Addr, listRemove(a) PROVE PrevAlwaysNull'
    BY <2>2 DEF listRemove, PrevAfter
  <2>3. CASE listDestroy
    BY <2>3 DEF listDestroy
  <2>4. CASE listIteratorCreate \/ listIteratorNext \/ LoopEnd
    BY <2>4 DEF listIteratorCreate, listIteratorNext, LoopEnd
  <2>5. CASE UNCHANGED vars
    BY <2>5 DEF vars
  <2> QED
    BY <2>1, <2>2, <2>3, <2>4, <2>5 DEF Next
<1> QED
  BY <1>1, <1>2, NodesTyped, PTL DEF Spec

(* Only finitely many nodes are ever allocated, and _size counts them. *)
LEMMA Counted == Spec => []CountInv
<1>1. Init => CountInv
  BY FS_EmptySet DEF Init, CountInv, SizeCountsAllocated
<1>2. CountInv /\ [Next]_vars => CountInv'
  <2> SUFFICES ASSUME CountInv, [Next]_vars PROVE CountInv'
    OBVIOUS
  <2> USE DEF CountInv, SizeCountsAllocated
  <2>0. Cardinality(alloc) \in Nat
    BY FS_CardinalityType
  <2>1. ASSUME NEW a \in Addr, listInsert(a) PROVE CountInv'
    BY <2>0, <2>1, FS_AddElement DEF listInsert
  <2>2. ASSUME NEW a \in Addr, listRemove(a) PROVE CountInv'
    BY <2>0, <2>2, FS_RemoveElement DEF listRemove
  <2>3. CASE listDestroy
    BY <2>3, FS_EmptySet DEF listDestroy
  <2>4. CASE listIteratorCreate \/ listIteratorNext \/ LoopEnd
    BY <2>4 DEF listIteratorCreate, listIteratorNext, LoopEnd
  <2>5. CASE UNCHANGED vars
    BY <2>5 DEF vars
  <2> QED
    BY <2>1, <2>2, <2>3, <2>4, <2>5 DEF Next
<1> QED
  BY <1>1, <1>2, PTL DEF Spec

(* _size is the number of nodes that were not freed, reachable or not. *)
THEOREM SizeCounts == Spec => []SizeCountsAllocated
<1>1. CountInv => SizeCountsAllocated
  BY DEF CountInv
<1> QED
  BY <1>1, Counted, PTL

(* Type correctness; that _size is never negative rests on Counted. *)
THEOREM TypeCorrect == Spec => []TypeOK
<1>1. NodesOK /\ CountInv => TypeOK
  BY FS_CardinalityType DEF NodesOK, CountInv, SizeCountsAllocated, TypeOK
<1> QED
  BY <1>1, NodesTyped, Counted, PTL

-----------------------------------------------------------------------------
(* The nodes an iteration meets.                                           *)

(* What follows the first k nodes of s: the next one, or NULL. *)
Following(s, k) == IF k < Len(s) THEN s[k + 1] ELSE Null

(* s is the nodes of the list, from the head on. *)
IsChain(s) ==
    /\ s \in Seq(alloc)
    /\ \A i, j \in DOMAIN s : s[i] = s[j] => i = j
    /\ head = Following(s, 0)
    /\ \A k \in DOMAIN s : next[s[k]] = Following(s, k)

(* The loop's body looks at a node of s, and its iterator is past it. *)
CursorOn(s) ==
    /\ iter # Null => \E k \in DOMAIN s : iter = s[k]
    /\ cur # Null => \E k \in DOMAIN s : cur = s[k] /\ iter = Following(s, k)

(* The inductive invariant: the nodes from the head on form a sequence of  *)
(* distinct allocated nodes that ends in NULL, and the cursor is on it.    *)
ChainInv == \E s : IsChain(s) /\ CursorOn(s)

LEMMA LeastElement ==
    ASSUME NEW S \in SUBSET Nat, S # {}
    PROVE  \E m \in S : \A j \in S : m <= j
<1> DEFINE below == {0 .. k : k \in S}
           R == StrictSubsetOrdering(Nat)
<1>1. below \subseteq FiniteSubsetsOf(Nat)
  <2>1. ASSUME NEW k \in Nat PROVE IsFiniteSet(0 .. k)
    BY FS_Interval
  <2>2. \A k \in Nat : 0 .. k \in SUBSET Nat
    OBVIOUS
  <2> QED
    BY <2>1, <2>2 DEF FiniteSubsetsOf
<1>2. PICK x \in below : \A y \in below : ~(<<y, x>> \in R)
  <2>1. below # {}
    OBVIOUS
  <2>2. IsWellFoundedOn(R, FiniteSubsetsOf(Nat))
    BY FS_StrictSubsetOrderingWellFounded
  <2> HIDE DEF below, R
  <2> QED
    BY <1>1, <2>1, <2>2, WFMin
<1>3. PICK m \in S : x = 0 .. m
  BY <1>2
<1>4. ASSUME NEW j \in S, j < m PROVE FALSE
  <2>1. <<0 .. j, x>> \notin R
    BY <1>2
  <2>2. 0 .. j \in SUBSET Nat /\ x \in SUBSET Nat /\ 0 .. j \subseteq x
    BY <1>3, <1>4
  <2>3. m \in x /\ m \notin 0 .. j
    BY <1>3, <1>4
  <2> QED
    BY <2>1, <2>2, <2>3 DEF StrictSubsetOrdering
<1> QED
  BY <1>3, <1>4

(* A chain has no more nodes than there are addresses. *)
LEMMA ChainIsShort ==
    ASSUME NodesOK, NEW s, IsChain(s)
    PROVE  /\ Len(s) \in Nat
           /\ Cardinality(Addr) \in Nat
           /\ Len(s) <= Cardinality(Addr)
           /\ DOMAIN s = 1 .. Len(s)
           /\ Cardinality(1 .. Len(s)) = Len(s)
           /\ \A k \in 1 .. Len(s) : s[k] \in alloc /\ s[k] # Null
<1>1. s \in Seq(Addr)
  BY SeqMonotonic DEF IsChain, NodesOK
<1>2. Len(s) \in Nat /\ DOMAIN s = 1 .. Len(s) /\ s \in [1 .. Len(s) -> Addr]
  BY <1>1, LenProperties
<1>3. s \in Injection(1 .. Len(s), Addr)
  BY <1>2 DEF IsChain, Injection, IsInjective
<1>4. Cardinality(1 .. Len(s)) <= Cardinality(Addr)
  BY <1>3, FS_Injection, NullAssumption
<1>5. Cardinality(1 .. Len(s)) = Len(s)
  BY <1>2, FS_Interval
<1>6. Cardinality(Addr) \in Nat
  BY NullAssumption, FS_CardinalityType
<1>7. \A k \in 1 .. Len(s) : s[k] \in alloc
  BY ElementOfSeq DEF IsChain
<1>8. \A k \in 1 .. Len(s) : s[k] # Null
  BY <1>2, NullAssumption
<1> QED
  BY <1>2, <1>4, <1>5, <1>6, <1>7, <1>8

(* The recursion of Walk meets the nodes of the chain, then NULL. *)
LEMMA WalkFollows ==
    ASSUME NodesOK, NEW s, IsChain(s)
    PROVE  \A k \in 1 .. Cardinality(Addr) + 1 : Walk[k] = Following(s, k - 1)
<1> DEFINE n == Cardinality(Addr)
           g == [k \in 1 .. n + 1 |-> Following(s, k - 1)]
<1>1. /\ Len(s) \in Nat /\ n \in Nat /\ DOMAIN s = 1 .. Len(s)
      /\ \A k \in 1 .. Len(s) : s[k] # Null
  BY ChainIsShort
<1>2. \A k \in 1 .. n + 1 :
          g[k] = IF k = 1 THEN head
                 ELSE IF g[k - 1] = Null THEN Null ELSE next[g[k - 1]]
  <2> SUFFICES ASSUME NEW k \in 1 .. n + 1
               PROVE  g[k] = IF k = 1 THEN head
                             ELSE IF g[k - 1] = Null THEN Null
                             ELSE next[g[k - 1]]
    OBVIOUS
  <2>1. CASE k = 1
    BY <1>1, <2>1 DEF IsChain
  <2>2. CASE k # 1 /\ k - 2 < Len(s)
    <3>1. k - 1 \in DOMAIN s /\ g[k - 1] = s[k - 1]
      BY <1>1, <2>2 DEF Following
    <3> QED
      BY <1>1, <2>2, <3>1 DEF IsChain
  <2>3. CASE k # 1 /\ ~(k - 2 < Len(s))
    BY <1>1, <2>3 DEF Following
  <2> QED
    BY <2>1, <2>2, <2>3
<1>3. \E f : f = [k \in 1 .. n + 1 |->
                     IF k = 1 THEN head
                     ELSE IF f[k - 1] = Null THEN Null ELSE next[f[k - 1]]]
  <2>1. g = [k \in 1 .. n + 1 |->
                IF k = 1 THEN head
                ELSE IF g[k - 1] = Null THEN Null ELSE next[g[k - 1]]]
    <3>1. g = [k \in 1 .. n + 1 |-> g[k]]
      OBVIOUS
    <3> HIDE DEF g
    <3> QED
      BY <1>2, <3>1
  <2> HIDE DEF g
  <2> QED
    BY <2>1
<1>4. Walk = [k \in 1 .. n + 1 |->
                 IF k = 1 THEN head
                 ELSE IF Walk[k - 1] = Null THEN Null ELSE next[Walk[k - 1]]]
  BY <1>3 DEF Walk
<1>5. \A k \in 1 .. n + 1 :
          Walk[k] = IF k = 1 THEN head
                    ELSE IF Walk[k - 1] = Null THEN Null ELSE next[Walk[k - 1]]
  BY <1>4
<1> DEFINE bad == {k \in 1 .. n + 1 : Walk[k] # g[k]}
<1>6. bad = {}
  <2> SUFFICES ASSUME bad # {} PROVE FALSE
    OBVIOUS
  <2>0. bad \in SUBSET Nat
    BY <1>1
  <2>1. PICK m \in bad : \A j \in bad : m <= j
    <3> HIDE DEF bad
    <3> QED
      BY <2>0, LeastElement
  <2>2. m \in 1 .. n + 1 /\ Walk[m] # g[m]
    BY <2>1
  <2>3. CASE m = 1
    BY <1>2, <1>5, <2>2, <2>3
  <2>4. CASE m # 1
    <3>1. m - 1 \in 1 .. n + 1 /\ m - 1 \notin bad
      BY <1>1, <2>1, <2>2, <2>4
    <3>2. Walk[m - 1] = g[m - 1]
      BY <3>1
    <3> HIDE DEF g
    <3> QED
      BY <1>2, <1>5, <2>2, <2>4, <3>2
  <2> QED
    BY <2>3, <2>4
<1> QED
  BY <1>6

(* An iteration of the list meets exactly the nodes of the chain. *)
LEMMA ChainIs == ASSUME NodesOK, NEW s, IsChain(s) PROVE Chain = s
<1> DEFINE n == Cardinality(Addr)
           met == {k \in 1 .. n : Walk[k] # Null}
<1>1. /\ Len(s) \in Nat /\ n \in Nat /\ Len(s) <= n /\ DOMAIN s = 1 .. Len(s)
      /\ Cardinality(1 .. Len(s)) = Len(s)
      /\ \A k \in 1 .. Len(s) : s[k] # Null
  BY ChainIsShort
<1>2. \A k \in 1 .. n + 1 : Walk[k] = Following(s, k - 1)
  BY WalkFollows
<1>3. \A k \in 1 .. Len(s) : Walk[k] = s[k]
  BY <1>1, <1>2 DEF Following
<1>4. met = 1 .. Len(s)
  BY <1>1, <1>2 DEF Following
<1>5. Cardinality(met) = Len(s)
  <2> HIDE DEF met
  <2> QED
    BY <1>1, <1>4
<1>6. Chain = [k \in 1 .. Len(s) |-> Walk[k]]
  BY <1>5 DEF Chain
<1>7. s = [k \in 1 .. Len(s) |-> s[k]]
  BY <1>1, LenProperties DEF IsChain
<1> QED
  BY <1>3, <1>6, <1>7

(* Walking the list of any state gives its chain, if it has one. *)
LEMMA ChainIsAny == \A s : NodesOK /\ IsChain(s) => Chain = s
BY ChainIs

-----------------------------------------------------------------------------
(* What each operation does to the chain.                                  *)

(* An insertion puts the new node before the others. *)
LEMMA InsertPrepends ==
    ASSUME NodesOK, NEW s, IsChain(s), NEW a \in Addr, listInsert(a)
    PROVE  IsChain(<<a>> \o s)' /\ CursorOn(<<a>> \o s)'
<1> DEFINE t == <<a>> \o s
<1>1. /\ Len(s) \in Nat /\ DOMAIN s = 1 .. Len(s)
      /\ \A k \in 1 .. Len(s) : s[k] \in alloc
  BY ChainIsShort
<1>2. alloc' = alloc \cup {a} /\ a \notin alloc /\ head' = a /\ a # Null
  BY NullAssumption DEF listInsert
<1>3. s \in Seq(alloc') /\ <<a>> \in Seq(alloc')
  BY <1>2, SeqMonotonic DEF IsChain
<1>4. /\ t \in Seq(alloc') /\ Len(t) = Len(s) + 1
      /\ \A k \in 1 .. Len(s) + 1 : t[k] = IF k = 1 THEN a ELSE s[k - 1]
  BY <1>1, <1>3, ConcatProperties
<1>5. DOMAIN t = 1 .. Len(s) + 1
  BY <1>4, LenProperties
<1> HIDE DEF t
<1>6. \A i, j \in DOMAIN t : t[i] = t[j] => i = j
  <2> SUFFICES ASSUME NEW i \in DOMAIN t, NEW j \in DOMAIN t, t[i] = t[j]
               PROVE  i = j
    OBVIOUS
  <2>1. CASE i # 1 /\ j # 1
    <3>1. i - 1 \in DOMAIN s /\ j - 1 \in DOMAIN s
      BY <1>1, <1>5, <2>1
    <3>2. s[i - 1] = s[j - 1]
      BY <1>4, <1>5, <2>1
    <3>3. i - 1 = j - 1
      BY <3>1, <3>2 DEF IsChain
    <3> QED
      BY <1>1, <1>5, <3>3
  <2>2. CASE i = 1 \/ j = 1
    BY <1>1, <1>2, <1>4, <1>5, <2>2
  <2> QED
    BY <2>1, <2>2
<1>7. \A k \in DOMAIN t : next'[t[k]] = Following(t, k)
  <2> SUFFICES ASSUME NEW k \in DOMAIN t
               PROVE  next'[t[k]] = Following(t, k)
    OBVIOUS
  <2>1. next' = [next EXCEPT ![a] = head] /\ next \in [Addr -> Ptr]
    BY DEF listInsert, NodesOK
  <2>2. CASE k = 1
    <3>1. next'[t[k]] = Following(s, 0)
      BY <1>4, <1>5, <2>1, <2>2 DEF IsChain
    <3> QED
      BY <1>1, <1>4, <2>2, <3>1 DEF Following
  <2>3. CASE k # 1
    <3>1. k - 1 \in DOMAIN s /\ t[k] = s[k - 1] /\ t[k] # a
      BY <1>1, <1>2, <1>4, <1>5, <2>3
    <3>2. next'[t[k]] = Following(s, k - 1)
      BY <1>1, <2>1, <3>1 DEF IsChain, NodesOK
    <3> QED
      BY <1>1, <1>4, <1>5, <2>3, <3>2 DEF Following
  <2> QED
    BY <2>2, <2>3
<1>8. head' = Following(t, 0)
  BY <1>1, <1>2, <1>4 DEF Following
<1>9. cur' = Null /\ iter' = Null
  BY DEF listInsert, Idle
<1> QED
  BY <1>4, <1>6, <1>7, <1>8, <1>9 DEF IsChain, CursorOn, t

(* What is left after its i-th node was removed. *)
LEMMA Dropped ==
    ASSUME NEW T, NEW s \in Seq(T), NEW i \in DOMAIN s
    PROVE  LET t == Abstract!DropThrough(s, i)
           IN  /\ Len(s) \in Nat /\ DOMAIN s = 1 .. Len(s)
               /\ Len(t) = Len(s) - i
               /\ DOMAIN t = 1 .. Len(s) - i
               /\ \A k \in 1 .. Len(s) - i : t[k] = s[i + k]
<1> DEFINE t == Abstract!DropThrough(s, i)
<1>1. Len(s) \in Nat /\ DOMAIN s = 1 .. Len(s)
  BY LenProperties
<1>2. \A k \in i + 1 .. Len(s) : s[k] \in T
  BY <1>1, ElementOfSeq
<1>3. /\ t \in Seq(T)
      /\ Len(t) = IF i + 1 <= Len(s) THEN Len(s) - (i + 1) + 1 ELSE 0
      /\ \A k \in 1 .. Len(s) - (i + 1) + 1 : t[k] = s[i + 1 + k - 1]
  BY <1>1, <1>2, SubSeqProperties DEF Abstract!DropThrough
<1>4. DOMAIN t = 1 .. Len(t)
  BY <1>3, LenProperties
<1> HIDE DEF t
<1>5. Len(t) = Len(s) - i
  BY <1>1, <1>3
<1>6. \A k \in 1 .. Len(s) - i : t[k] = s[i + k]
  <2> SUFFICES ASSUME NEW k \in 1 .. Len(s) - i PROVE t[k] = s[i + k]
    OBVIOUS
  <2>1. k \in 1 .. Len(s) - (i + 1) + 1 /\ i + 1 + k - 1 = i + k
    BY <1>1
  <2> QED
    BY <1>3, <2>1
<1> QED
  BY <1>1, <1>4, <1>5, <1>6 DEF t

(* Removing a node drops it and every node inserted after it. *)
LEMMA RemoveDrops ==
    ASSUME NodesOK, PrevAlwaysNull, NEW s, IsChain(s), CursorOn(s),
           NEW a \in Addr, listRemove(a), NEW i \in DOMAIN s, cur = s[i],
           iter = Following(s, i)
    PROVE  /\ IsChain(Abstract!DropThrough(s, i))'
           /\ CursorOn(Abstract!DropThrough(s, i))'
<1> DEFINE t == Abstract!DropThrough(s, i)
<1>1. /\ Len(s) \in Nat /\ DOMAIN s = 1 .. Len(s)
      /\ Len(t) = Len(s) - i
      /\ DOMAIN t = 1 .. Len(s) - i
      /\ \A k \in 1 .. Len(s) - i : t[k] = s[i + k]
  BY Dropped DEF IsChain
<1>2. \A k \in 1 .. Len(s) : s[k] \in alloc
  BY ChainIsShort
<1> HIDE DEF t
<1>3. /\ a = s[i] /\ a \in alloc /\ alloc' = alloc \ {a}
      /\ head' = next[a] /\ next' = next
      /\ cur' = Null /\ iter' = iter
  BY DEF listRemove, HeadAfter, NextAfter, PrevAlwaysNull
<1>4. \A k \in DOMAIN t : t[k] \in alloc'
  <2> SUFFICES ASSUME NEW k \in DOMAIN t PROVE t[k] \in alloc'
    OBVIOUS
  <2>1. i + k \in DOMAIN s /\ i + k # i /\ t[k] = s[i + k]
    BY <1>1
  <2> QED
    BY <1>1, <1>2, <1>3, <2>1 DEF IsChain
<1>5. t \in Seq(alloc')
  <2>1. \A k \in i + 1 .. Len(s) : s[k] \in alloc'
    <3> SUFFICES ASSUME NEW k \in i + 1 .. Len(s) PROVE s[k] \in alloc'
      OBVIOUS
    <3>1. k - i \in DOMAIN t /\ t[k - i] = s[k]
      BY <1>1
    <3> QED
      BY <1>4, <3>1
  <2> QED
    BY <1>1, <2>1, SubSeqProperties DEF t, Abstract!DropThrough
<1>6. \A k, j \in DOMAIN t : t[k] = t[j] => k = j
  <2> SUFFICES ASSUME NEW k \in DOMAIN t, NEW j \in DOMAIN t, t[k] = t[j]
               PROVE  k = j
    OBVIOUS
  <2>1. i + k \in DOMAIN s /\ i + j \in DOMAIN s /\ s[i + k] = s[i + j]
    BY <1>1
  <2>2. i + k = i + j
    BY <2>1 DEF IsChain
  <2> QED
    BY <1>1, <2>2
<1>7. \A k \in 0 .. Len(t) : Following(t, k) = Following(s, i + k)
  BY <1>1 DEF Following
<1>8. head' = Following(t, 0) /\ iter' = Following(t, 0)
  <2>1. Following(t, 0) = Following(s, i)
    BY <1>1, <1>7
  <2> QED
    BY <1>3, <2>1 DEF IsChain
<1>9. \A k \in DOMAIN t : next'[t[k]] = Following(t, k)
  <2> SUFFICES ASSUME NEW k \in DOMAIN t PROVE next'[t[k]] = Following(t, k)
    OBVIOUS
  <2>1. i + k \in DOMAIN s /\ t[k] = s[i + k] /\ k \in 0 .. Len(t)
    BY <1>1
  <2> QED
    BY <1>3, <1>7, <2>1 DEF IsChain
<1>10. iter' # Null => \E k \in DOMAIN t : iter' = t[k]
  <2> SUFFICES ASSUME iter' # Null PROVE \E k \in DOMAIN t : iter' = t[k]
    OBVIOUS
  <2>1. 1 \in DOMAIN t /\ iter' = t[1]
    BY <1>1, <1>8 DEF Following
  <2> QED
    BY <2>1
<1> QED
  BY <1>3, <1>5, <1>6, <1>8, <1>9, <1>10 DEF IsChain, CursorOn, t

(* A step of a loop moves the cursor along the chain. *)
LEMMA NextMovesOn ==
    ASSUME NodesOK, NEW s, IsChain(s), CursorOn(s), listIteratorNext
    PROVE  IsChain(s)' /\ CursorOn(s)'
<1>1. PICK k \in DOMAIN s : iter = s[k]
  BY DEF CursorOn, listIteratorNext
<1>2. /\ Len(s) \in Nat /\ DOMAIN s = 1 .. Len(s)
      /\ cur' = s[k] /\ iter' = Following(s, k)
  BY <1>1, ChainIsShort DEF IsChain, listIteratorNext
<1>3. iter' # Null => \E j \in DOMAIN s : iter' = s[j]
  <2> SUFFICES ASSUME iter' # Null PROVE \E j \in DOMAIN s : iter' = s[j]
    OBVIOUS
  <2>1. k + 1 \in DOMAIN s /\ iter' = s[k + 1]
    BY <1>2 DEF Following
  <2> QED
    BY <2>1
<1>4. IsChain(s)'
  BY DEF IsChain, Following, listIteratorNext
<1> QED
  BY <1>2, <1>3, <1>4 DEF CursorOn, Following

(* Every step of the nodes is a step of the sequence they form. *)
LEMMA StepOfTheChain ==
    ASSUME NodesOK, PrevAlwaysNull, [Next]_vars,
           NEW s, IsChain(s), CursorOn(s)
    PROVE  \E t : /\ IsChain(t)' /\ CursorOn(t)'
                  /\ \/ t = s
                     \/ \E e \in Addr : t = <<e>> \o s
                     \/ \E i \in DOMAIN s : t = Abstract!DropThrough(s, i)
                     \/ t = <<>>
<1>1. ASSUME NEW a \in Addr, listInsert(a)
      PROVE  IsChain(<<a>> \o s)' /\ CursorOn(<<a>> \o s)'
  BY <1>1, InsertPrepends
<1>2. ASSUME NEW a \in Addr, listRemove(a)
      PROVE  \E i \in DOMAIN s : /\ IsChain(Abstract!DropThrough(s, i))'
                                 /\ CursorOn(Abstract!DropThrough(s, i))'
  <2>1. cur # Null
    BY <1>2, NullAssumption DEF listRemove
  <2>2. PICK i \in DOMAIN s : cur = s[i] /\ iter = Following(s, i)
    BY <2>1 DEF CursorOn
  <2> QED
    BY <1>2, <2>2, RemoveDrops
<1>3. CASE listIteratorCreate
  <2>1. head \in Ptr /\ head # Null /\ iter' = head /\ cur' = Null
    BY <1>3 DEF NodesOK, listIteratorCreate, Idle
  <2>2. Len(s) \in Nat /\ DOMAIN s = 1 .. Len(s)
    BY ChainIsShort
  <2>3. 1 \in DOMAIN s /\ head = s[1]
    BY <2>1, <2>2 DEF IsChain, Following
  <2>4. IsChain(s)'
    BY <1>3 DEF IsChain, Following, listIteratorCreate
  <2> QED
    BY <2>1, <2>3, <2>4 DEF CursorOn
<1>4. CASE listIteratorNext
  BY <1>4, NextMovesOn
<1>5. CASE LoopEnd
  BY <1>5 DEF LoopEnd, IsChain, Following, CursorOn
<1>6. CASE listDestroy
  <2>1. IsChain(<<>>)'
    BY <1>6, EmptySeq DEF listDestroy, IsChain, Following
  <2>2. CursorOn(<<>>)'
    BY <1>6 DEF listDestroy, CursorOn, Idle
  <2> QED
    BY <2>1, <2>2
<1>7. CASE UNCHANGED vars
  BY <1>7 DEF vars, IsChain, Following, CursorOn
<1> QED
  BY <1>1, <1>2, <1>3, <1>4, <1>5, <1>6, <1>7 DEF Next

(* The nodes always form a chain, with the cursor of the loop on it. *)
LEMMA ChainKept == Spec => []ChainInv
<1>1. Init => ChainInv
  <2> SUFFICES ASSUME Init PROVE ChainInv
    OBVIOUS
  <2>1. IsChain(<<>>)
    BY EmptySeq DEF Init, IsChain, Following
  <2>2. CursorOn(<<>>)
    BY DEF Init, CursorOn
  <2> QED
    BY <2>1, <2>2 DEF ChainInv
<1>2. NodesOK /\ PrevAlwaysNull /\ ChainInv /\ [Next]_vars => ChainInv'
  <2> SUFFICES ASSUME NodesOK, PrevAlwaysNull, ChainInv, [Next]_vars
               PROVE  ChainInv'
    OBVIOUS
  <2>1. PICK s : IsChain(s) /\ CursorOn(s)
    BY DEF ChainInv
  <2>2. PICK t : IsChain(t)' /\ CursorOn(t)'
    BY <2>1, StepOfTheChain
  <2> QED
    BY <2>2 DEF ChainInv
<1> QED
  BY <1>1, <1>2, NodesTyped, PrevStaysNull, PTL DEF Spec

(* No loop of the servers' callers follows a freed node: the head, the     *)
(* iterator and every node an iteration meets are allocated.               *)
THEOREM NodesAreAllocated == Spec => []NoDanglingNode
<1>1. NodesOK /\ ChainInv => NoDanglingNode
  <2> SUFFICES ASSUME NodesOK, ChainInv PROVE NoDanglingNode
    OBVIOUS
  <2>1. PICK s : IsChain(s) /\ CursorOn(s)
    BY DEF ChainInv
  <2>2. Chain = s
    BY <2>1, ChainIs
  <2>3. /\ Len(s) \in Nat /\ DOMAIN s = 1 .. Len(s)
        /\ \A k \in 1 .. Len(s) : s[k] \in alloc
    BY <2>1, ChainIsShort
  <2>4. head \in alloc \cup {Null}
    BY <2>1, <2>3 DEF IsChain, Following
  <2>5. iter \in alloc \cup {Null}
    BY <2>1, <2>3 DEF CursorOn
  <2> QED
    BY <2>2, <2>3, <2>4, <2>5 DEF NoDanglingNode, Reachable
<1> QED
  BY <1>1, NodesTyped, ChainKept, PTL

(* The list of nodes implements the sequence its callers see: an insertion *)
(* adds one newest element, a removal drops the removed element and every  *)
(* newer one, and a step of a loop leaves the elements alone.              *)
THEOREM NodesImplementTailList == Spec => ImplementsTailList
<1>1. (\A s : NodesOK /\ IsChain(s) => Chain = s)'
  BY ChainIsAny, PTL
<1>2. Init => Abstract!Init
  <2> SUFFICES ASSUME Init PROVE Chain = <<>>
    BY DEF Abstract!Init
  <2>1. IsChain(<<>>)
    BY EmptySeq DEF Init, IsChain, Following
  <2>2. NodesOK
    BY DEF Init, NodesOK, Ptr
  <2> QED
    BY <2>1, <2>2, ChainIsAny
<1>3. /\ NodesOK /\ NodesOK' /\ PrevAlwaysNull /\ ChainInv /\ [Next]_vars
      => [Abstract!Next]_Chain
  <2> SUFFICES ASSUME NodesOK, NodesOK', PrevAlwaysNull, ChainInv, [Next]_vars
               PROVE  [Abstract!Next]_Chain
    OBVIOUS
  <2>1. PICK s : IsChain(s) /\ CursorOn(s)
    BY DEF ChainInv
  <2>2. PICK t : /\ IsChain(t)' /\ CursorOn(t)'
                 /\ \/ t = s
                    \/ \E e \in Addr : t = <<e>> \o s
                    \/ \E i \in DOMAIN s : t = Abstract!DropThrough(s, i)
                    \/ t = <<>>
    BY <2>1, StepOfTheChain
  <2>3. Chain = s
    BY <2>1, ChainIsAny
  <2>4. Chain' = t
    BY <1>1, <2>2
  <2> HIDE DEF Chain
  <2> QED
    BY <2>2, <2>3, <2>4
       DEF Abstract!Next, Abstract!Insert, Abstract!Remove, Abstract!Restart
<1> QED
  BY <1>2, <1>3, NodesTyped, PrevStaysNull, ChainKept, PTL
     DEF Spec, ImplementsTailList, Abstract!Spec
=============================================================================
