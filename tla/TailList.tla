------------------------------ MODULE TailList ------------------------------
(***************************************************************************)
(* What the callers of list.c get from a List_t: a sequence, newest        *)
(* element first, from which taking one element out also drops every       *)
(* element inserted after it.  ListRC is the pointer-level list that       *)
(* implements this module, and AS and FS make each of their calls of       *)
(* listRemove such a drop.  It is not what list.h promises: see            *)
(* RemovesTheGiven in ListRC.                                              *)
(***************************************************************************)
EXTENDS Naturals, Sequences

CONSTANT Elem

VARIABLE list

(* The list after listRemove of its i-th element. *)
DropThrough(s, i) == SubSeq(s, i + 1, Len(s))

Init == list = <<>>

Insert(e) == list' = <<e>> \o list

Remove(i) == list' = DropThrough(list, i)

(* The list of a process that ends and is started again. *)
Restart == list' = <<>>

Next ==
    \/ \E e \in Elem : Insert(e)
    \/ \E i \in DOMAIN list : Remove(i)
    \/ Restart

Spec == Init /\ [][Next]_list
=============================================================================
