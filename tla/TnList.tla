------------------------------- MODULE TnList -------------------------------
(***************************************************************************)
(* The circular double-linked lists of src/TNKernel/tn_utils.c.            *)
(*                                                                         *)
(* Every list of the kernel is intrusive: a CDLL_QUEUE is two pointers     *)
(* inside the thing it links, and a task has ONE of them (task_queue) for  *)
(* the ready list and for the wait list of an object.  Nothing says in     *)
(* which list an entry is, or whether it is in one at all: an entry that   *)
(* is removed keeps its pointers, and an entry that is added twice is      *)
(* found from two heads.  The memory is therefore modelled pointer by      *)
(* pointer: L maps each CDLL_QUEUE to its [next, prev], and the operators  *)
(* give the memory afterwards, with the assignments in the code's order.   *)
(***************************************************************************)
EXTENDS Integers, FiniteSets, Sequences

(* queue_reset: a head of an empty list, or an entry in no list.           *)
Reset(L, q) == [L EXCEPT ![q] = [next |-> q, prev |-> q]]

(* is_queue_empty                                                          *)
IsEmpty(L, q) == L[q].next = q /\ L[q].prev = q

(* queue_add_head                                                          *)
AddHead(L, q, e) ==
  LET L1 == [L  EXCEPT ![e] = [next |-> L[q].next, prev |-> q]]
      L2 == [L1 EXCEPT ![L1[e].next].prev = e]
  IN  [L2 EXCEPT ![q].next = e]

(* queue_add_tail                                                          *)
AddTail(L, q, e) ==
  LET L1 == [L  EXCEPT ![e] = [next |-> q, prev |-> L[q].prev]]
      L2 == [L1 EXCEPT ![L1[e].prev].next = e]
  IN  [L2 EXCEPT ![q].prev = e]

(* queue_remove_head: the entry returned is L[q].next, and its own         *)
(* pointers stay as they are.  It returns NULL and changes nothing when    *)
(* there is none, which the callers have excluded.                         *)
RemoveHead(L, q) ==
  IF L[q].next = q THEN L
  ELSE LET e  == L[q].next
           L1 == [L EXCEPT ![L[e].next].prev = q]
       IN  [L1 EXCEPT ![q].next = L1[e].next]

(* queue_remove_tail                                                       *)
RemoveTail(L, q) ==
  IF L[q].prev = q THEN L
  ELSE LET e  == L[q].prev
           L1 == [L EXCEPT ![L[e].prev].next = q]
       IN  [L1 EXCEPT ![q].prev = L1[e].prev]

(* queue_remove_entry                                                      *)
RemoveEntry(L, e) ==
  LET L1 == [L EXCEPT ![L[e].prev].next = L[e].next]
  IN  [L1 EXCEPT ![L1[e].next].prev = L1[e].prev]

-----------------------------------------------------------------------------
(***************************************************************************)
(* What the lists are for.  Ring(L, q, s): the list with head q holds the  *)
(* entries s, each once, in this order, and is linked both ways.           *)
(***************************************************************************)
Linked(L, c, n) ==                   \* c[0] is the head, c[1..n] the entries
  /\ \A i, j \in 0..n : c[i] = c[j] => i = j
  /\ \A i \in 0..n - 1 : L[c[i]].next = c[i + 1] /\ L[c[i + 1]].prev = c[i]
  /\ L[c[n]].next = c[0] /\ L[c[0]].prev = c[n]

Ring(L, q, s) ==
  LET c == [i \in 0..Len(s) |-> IF i = 0 THEN q ELSE s[i]]
  IN  (\A i \in 0..Len(s) : c[i] \in DOMAIN L) /\ Linked(L, c, Len(s))

(* The entries found from q along next: a list whose links are spoilt need *)
(* not come back to q, so no more of them than there are.  Onward(L, q)[n] *)
(* gives at most n entries from each on.                                   *)
Onward(L, q) ==
  LET from[n \in 0..Cardinality(DOMAIN L)] ==
        [e \in DOMAIN L |-> IF e = q \/ n = 0 THEN <<>>
                            ELSE <<e>> \o from[n - 1][L[e].next]]
  IN  from
Walk(L, q) == Onward(L, q)[Cardinality(DOMAIN L)][L[q].next]

(* queue_contains_entry                                                    *)
InList(L, q, e) == \E i \in DOMAIN Walk(L, q) : Walk(L, q)[i] = e

(* The list of head q comes back to q both ways, through distinct entries. *)
WellFormed(L, q) == Ring(L, q, Walk(L, q))
=============================================================================
