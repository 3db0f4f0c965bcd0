------------------------------- MODULE ListRC -------------------------------
(***************************************************************************)
(* The linked list of list.c, node by node: every list of the AS and of    *)
(* the FS (sessions, queued messages, user requests) is one of these.      *)
(* A node is its address; the data it carries plays no part.  The cursor   *)
(* (cur, iter) is the loop all callers write:                              *)
(*     iter = listIteratorCreate(l);                                       *)
(*     while (!listIteratorEmpty(&iter)) {                                 *)
(*         node = iter;  data = listIteratorNext(&iter);  ...              *)
(*         listRemove(l, node, clean);  [break;]                           *)
(***************************************************************************)
EXTENDS Integers, Sequences, FiniteSets

CONSTANTS Addr,     \* the addresses malloc can return
          Null      \* NULL

ASSUME NullAssumption == Null \notin Addr /\ IsFiniteSet(Addr)

VARIABLES alloc,    \* the nodes malloc'ed and not freed
          prev,     \* _prev of each node
          next,     \* _next of each node
          head,     \* list->_head
          size,     \* list->_size
          cur,      \* the node the loop body is looking at
          iter      \* the caller's iterator

vars == <<alloc, prev, next, head, size, cur, iter>>

Ptr == Addr \cup {Null}

TypeOK ==
    /\ alloc \in SUBSET Addr
    /\ prev \in [Addr -> Ptr]
    /\ next \in [Addr -> Ptr]
    /\ head \in Ptr
    /\ size \in Nat
    /\ cur \in Ptr
    /\ iter \in Ptr

Init ==
    /\ alloc = {}
    /\ prev = [a \in Addr |-> Null]
    /\ next = [a \in Addr |-> Null]
    /\ head = Null
    /\ size = 0
    /\ cur = Null
    /\ iter = Null

(* No loop over the list is in progress. *)
Idle == cur = Null /\ iter = Null

listInsert(a) ==
    /\ Idle
    /\ a \notin alloc
    /\ alloc' = alloc \cup {a}
    /\ prev' = [prev EXCEPT ![a] = Null]
    /\ next' = [next EXCEPT ![a] = head]
    /\ head' = a
    /\ size' = size + 1
    /\ UNCHANGED <<cur, iter>>

listIteratorCreate ==
    /\ Idle
    /\ head # Null
    /\ iter' = head
    /\ UNCHANGED <<alloc, prev, next, head, size, cur>>

(* Mutant: the iterator moves on at the end of the body, not before it. *)
NextAfterTheBody ==
    /\ iter # Null
    /\ cur' = iter
    /\ iter' = IF cur = iter THEN next[iter] ELSE iter
    /\ UNCHANGED <<alloc, prev, next, head, size>>

listIteratorNext ==
    /\ iter # Null
    /\ cur' = iter
    /\ iter' = next[iter]
    /\ UNCHANGED <<alloc, prev, next, head, size>>

(* The loop ends: its iterator is empty, or its body breaks or returns. *)
LoopEnd ==
    /\ ~Idle
    /\ cur' = Null
    /\ iter' = Null
    /\ UNCHANGED <<alloc, prev, next, head, size>>

(* The writes of listRemove to the node before and the node after a. *)
HeadAfter(a) == IF prev[a] = Null THEN next[a] ELSE head

NextAfter(a) ==
    IF prev[a] = Null THEN next ELSE [next EXCEPT ![prev[a]] = next[a]]

PrevAfter(a) ==
    IF next[a] = Null THEN prev ELSE [prev EXCEPT ![next[a]] = prev[a]]

(* The loop body removes the node it is looking at. *)
listRemove(a) ==
    /\ a = cur
    /\ a \in alloc
    /\ head' = HeadAfter(a)
    /\ next' = NextAfter(a)
    /\ prev' = PrevAfter(a)
    /\ alloc' = alloc \ {a}
    /\ size' = size - 1
    /\ cur' = Null
    /\ iter' = iter

(* listDestroy, called as the process exits, and listCreate by the next.   *)
listDestroy ==
    /\ Idle
    /\ alloc # {}
    /\ alloc' = {}
    /\ prev' = [a \in Addr |-> Null]
    /\ next' = [a \in Addr |-> Null]
    /\ head' = Null
    /\ size' = 0
    /\ UNCHANGED <<cur, iter>>

Next ==
    \/ \E a \in Addr : listInsert(a) \/ listRemove(a)
    \/ listIteratorCreate
    \/ listIteratorNext
    \/ LoopEnd
    \/ listDestroy

Spec == Init /\ [][Next]_vars

-----------------------------------------------------------------------------
(* The nodes from the head on, as an iteration meets them, and NULL for    *)
(* ever after the last one.                                                *)
Walk[k \in 1 .. Cardinality(Addr) + 1] ==
    IF k = 1 THEN head
    ELSE IF Walk[k - 1] = Null THEN Null ELSE next[Walk[k - 1]]

Chain ==
    LET met == {k \in 1 .. Cardinality(Addr) : Walk[k] # Null}
    IN  [k \in 1 .. Cardinality(met) |-> Walk[k]]

Reachable == {Chain[k] : k \in DOMAIN Chain}

Abstract == INSTANCE TailList WITH Elem <- Addr, list <- Chain

(* What the callers of the code get, RemovesTheGiven below or not: an      *)
(* insertion adds one newest element, a removal leaves the elements older  *)
(* than the removed one, and a loop step leaves the elements alone.        *)
ImplementsTailList == Abstract!Spec

(* A loop that removes the node it looks at never follows a freed node:    *)
(* its iterator, the head and every _next from the head on are allocated.  *)
NoDanglingNode ==
    /\ {head, iter} \subseteq alloc \cup {Null}
    /\ Reachable \subseteq alloc

(* _size counts the nodes that were never freed, whether or not an         *)
(* iteration can still reach them.                                         *)
SizeCountsAllocated == size = Cardinality(alloc)

-----------------------------------------------------------------------------
(* What the repository says and the code does not do. *)

(* list.h:50, "Removes the given element from the list.": what a removal   *)
(* frees is gone from the list, and every other element stays in it.       *)
RemovesTheGiven ==
    [][\A a \in Addr :
          listRemove(a) =>
              Chain' = SelectSeq(Chain, LAMBDA b : b # a)]_vars
=============================================================================
