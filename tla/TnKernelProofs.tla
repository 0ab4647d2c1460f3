--------------------------- MODULE TnKernelProofs ---------------------------
(***************************************************************************)
(* Proofs about the scheduler of TNKernel (TnKernel), for any number of    *)
(* tasks and priorities, any base priorities, timeouts and time slices,    *)
(* and any program that is Orderly: the lists, which link the TCBs into    *)
(* circles of pointers, stay intact and hold the tasks they should, and a  *)
(* task of the highest priority runs.                                      *)
(*                                                                         *)
(* A list is a circle of pointers of some length; what an operation does   *)
(* to it is proved from the four pointers it sets, and only at the end is  *)
(* the walk of the properties shown to meet the same entries.              *)
(***************************************************************************)
EXTENDS TnKernel, FiniteSetTheorems, SequenceTheorems, WellFoundedInduction, TLAPS

-----------------------------------------------------------------------------
(* Circular lists: q is the head of the list of the entries S, whatever    *)
(* order they are in, and M a memory of list nodes.                        *)

IsList(L, q, S) ==
  \E n \in Nat : \E c \in [0 .. n -> DOMAIN L] :
    /\ c[0] = q /\ Linked(L, c, n)
    /\ \A x : x \in S <=> \E i \in 1 .. n : x = c[i]

\* Links of the nodes N, in both directions.
Memory(N) == [N -> [next: N, prev: N]]

\* queue_add_tail sets four pointers and no other.
LEMMA AddTailIs ==
  ASSUME NEW N, NEW L \in Memory(N), NEW q \in N, NEW e \in N, q # e, L[q].prev # e
  PROVE  /\ AddTail(L, q, e) \in Memory(N)
         /\ \A x \in N :
            /\ AddTail(L, q, e)[x].next = IF x = e THEN q ELSE IF x = L[q].prev THEN e ELSE L[x].next
            /\ AddTail(L, q, e)[x].prev = IF x = e THEN L[q].prev ELSE IF x = q THEN e ELSE L[x].prev
  BY DEF AddTail, Memory

\* queue_add_head sets four pointers and no other.
LEMMA AddHeadIs ==
  ASSUME NEW N, NEW L \in Memory(N), NEW q \in N, NEW e \in N, q # e, L[q].next # e
  PROVE  /\ AddHead(L, q, e) \in Memory(N)
         /\ \A x \in N :
            /\ AddHead(L, q, e)[x].next = IF x = e THEN L[q].next ELSE IF x = q THEN e ELSE L[x].next
            /\ AddHead(L, q, e)[x].prev = IF x = e THEN q ELSE IF x = L[q].next THEN e ELSE L[x].prev
  BY DEF AddHead, Memory

\* queue_remove_entry sets the pointers of the entry's neighbours only.
LEMMA RemoveEntryIs ==
  ASSUME NEW N, NEW L \in Memory(N), NEW e \in N
  PROVE  /\ RemoveEntry(L, e) \in Memory(N)
         /\ \A x \in N :
            /\ RemoveEntry(L, e)[x].next = IF x = L[e].prev THEN L[e].next ELSE L[x].next
            /\ RemoveEntry(L, e)[x].prev = IF x = L[e].next THEN L[e].prev ELSE L[x].prev
  BY DEF RemoveEntry, Memory

\* queue_remove_tail removes the last entry.
LEMMA RemoveTailIs ==
  ASSUME NEW N, NEW L \in Memory(N), NEW q \in N, L[L[q].prev].next = q, L[q].prev # q
  PROVE  RemoveTail(L, q) = RemoveEntry(L, L[q].prev)
  BY DEF RemoveEntry, RemoveTail, Memory

\* Two pointers are all there is to an entry.
LEMMA SameEntry ==
  ASSUME NEW N, NEW L \in Memory(N), NEW M \in Memory(N), NEW x \in N,
         M[x].next = L[x].next, M[x].prev = L[x].prev
  PROVE  M[x] = L[x]
<1>1. L[x] \in [next: N, prev: N] /\ M[x] \in [next: N, prev: N]
  BY DEF Memory
<1> QED
  BY <1>1

\* In a list the pointers of neighbours agree, and head and tail are entries
\* unless it is empty.
LEMMA ListFacts ==
  ASSUME NEW N, NEW L \in Memory(N), NEW q, NEW S, IsList(L, q, S)
  PROVE  /\ q \in N /\ S \subseteq N /\ q \notin S
         /\ L[q].next = q <=> S = {}
         /\ L[q].prev = q <=> S = {}
         /\ S # {} => L[q].next \in S /\ L[q].prev \in S
         /\ L[L[q].next].prev = q /\ L[L[q].prev].next = q
         /\ \A e \in S : /\ L[e].next \in S \cup {q} /\ L[e].prev \in S \cup {q}
                         /\ L[L[e].next].prev = e /\ L[L[e].prev].next = e
                         /\ L[e].next # e
                         /\ (L[e].next = L[e].prev => S = {e})
<1>1. DOMAIN L = N
  BY DEF Memory
<1>0. PICK n \in Nat : \E c \in [0 .. n -> N] :
        /\ c[0] = q /\ Linked(L, c, n)
        /\ \A x : x \in S <=> \E i \in 1 .. n : x = c[i]
  BY <1>1 DEF IsList
<1>2. PICK c \in [0 .. n -> N] :
        /\ c[0] = q /\ Linked(L, c, n)
        /\ \A x : x \in S <=> \E i \in 1 .. n : x = c[i]
  BY <1>0
<1>3. /\ \A i \in 0 .. n : c[i] \in N
      /\ \A i, j \in 0 .. n : c[i] = c[j] => i = j
      /\ \A i \in 0 .. n - 1 : L[c[i]].next = c[i + 1] /\ L[c[i + 1]].prev = c[i]
      /\ L[c[n]].next = c[0] /\ L[c[0]].prev = c[n]
  BY <1>2 DEF Linked
<1>4. q \in N /\ S \subseteq N /\ q \notin S
  BY <1>2, <1>3
<1>5. CASE n = 0
  BY <1>2, <1>3, <1>4, <1>5
<1>6. CASE n > 0
  <2>1. /\ c[1] \in S /\ c[n] \in S /\ L[q].next = c[1] /\ L[q].prev = c[n]
        /\ L[c[1]].prev = q /\ L[c[n]].next = q
    BY <1>2, <1>3, <1>6
  <2>2. ASSUME NEW e \in S
        PROVE  /\ L[e].next \in S \cup {q} /\ L[e].prev \in S \cup {q}
               /\ L[L[e].next].prev = e /\ L[L[e].prev].next = e
               /\ L[e].next # e
               /\ (L[e].next = L[e].prev => S = {e})
    <3>1. PICK i \in 1 .. n : e = c[i]
      BY <1>2
    <3>2. L[e].prev = c[i - 1] /\ i - 1 \in 0 .. n - 1 /\ L[c[i - 1]].next = e
      BY <1>3, <3>1
    <3>3. CASE i = n
      <4>1. L[e].next = c[0] /\ L[c[0]].prev = e
        BY <1>3, <3>1, <3>3
      <4>2. c[0] # e
        BY <1>3, <3>1
      <4>3. ASSUME c[0] = c[i - 1] PROVE S = {e}
        <5>1. n = 1
          BY <1>3, <3>3, <3>2, <4>3
        <5> QED
          BY <5>1, <1>2, <3>1
      <4> QED
        BY <3>2, <4>1, <4>2, <4>3, <1>2
    <3>4. CASE i < n
      <4>1. i \in 0 .. n - 1 /\ i + 1 \in 1 .. n
        BY <3>4
      <4>2. L[e].next = c[i + 1] /\ L[c[i + 1]].prev = e /\ c[i + 1] \in S
        BY <4>1, <1>3, <1>2, <3>1
      <4>3. c[i + 1] # e /\ c[i + 1] # c[i - 1]
        BY <4>1, <1>3, <3>1, <3>2
      <4> QED
        BY <3>2, <4>2, <4>3, <1>2
    <3> QED
      BY <3>3, <3>4
  <2> QED
    BY <1>4, <2>1, <2>2
<1> QED
  BY <1>5, <1>6

\* A list does not depend on what is not in it.
LEMMA ListFrame ==
  ASSUME NEW N, NEW L \in Memory(N), NEW M \in Memory(N), NEW q, NEW S, IsList(L, q, S),
         \A x \in S \cup {q} : M[x] = L[x]
  PROVE  IsList(M, q, S)
<1>1. DOMAIN L = N /\ DOMAIN M = N
  BY DEF Memory
<1>0. PICK n \in Nat : \E c \in [0 .. n -> N] :
        /\ c[0] = q /\ Linked(L, c, n)
        /\ \A x : x \in S <=> \E i \in 1 .. n : x = c[i]
  BY <1>1 DEF IsList
<1>2. PICK c \in [0 .. n -> N] :
        /\ c[0] = q /\ Linked(L, c, n)
        /\ \A x : x \in S <=> \E i \in 1 .. n : x = c[i]
  BY <1>0
<1>3. \A i \in 0 .. n : M[c[i]] = L[c[i]]
  BY <1>2
<1>4. Linked(M, c, n)
  BY <1>2, <1>3 DEF Linked
<1> QED
  BY <1>1, <1>2, <1>4 DEF IsList

\* queue_add_tail, entry by entry: the new one comes last.
LEMMA LinkedAddTail ==
  ASSUME NEW N, NEW L \in Memory(N), NEW n \in Nat, NEW c \in [0 .. n -> N], Linked(L, c, n),
         NEW q, q = c[0], NEW e \in N, \A i \in 0 .. n : c[i] # e
  PROVE  Linked(AddTail(L, q, e), [i \in 0 .. n + 1 |-> IF i = n + 1 THEN e ELSE c[i]], n + 1)
<1> DEFINE M == AddTail(L, q, e)
<1>2. c[0] = q
  OBVIOUS
<1>3. /\ \A i \in 0 .. n : c[i] \in N /\ c[i] # e
      /\ \A i, j \in 0 .. n : c[i] = c[j] => i = j
      /\ \A i \in 0 .. n - 1 : L[c[i]].next = c[i + 1] /\ L[c[i + 1]].prev = c[i]
      /\ L[c[n]].next = q /\ L[q].prev = c[n]
      /\ q \in N
  BY <1>2 DEF Linked
<1>4. /\ M \in Memory(N)
      /\ \A x \in N :
            /\ M[x].next = IF x = e THEN q ELSE IF x = c[n] THEN e ELSE L[x].next
            /\ M[x].prev = IF x = e THEN c[n] ELSE IF x = q THEN e ELSE L[x].prev
  BY <1>3, AddTailIs
<1> HIDE DEF M
<1> DEFINE d == [i \in 0 .. n + 1 |-> IF i = n + 1 THEN e ELSE c[i]]
<1>6. d \in [0 .. n + 1 -> N] /\ d[0] = q /\ d[n + 1] = e /\ \A i \in 0 .. n : d[i] = c[i]
  BY <1>2, <1>3
<1> HIDE DEF d
<1>7. Linked(M, d, n + 1)
  <2>1. \A i, j \in 0 .. n + 1 : d[i] = d[j] => i = j
    BY <1>3, <1>6
  <2>2. \A i \in 0 .. n - 1 : M[c[i]].next = c[i + 1] /\ M[c[i + 1]].prev = c[i]
    <3> SUFFICES ASSUME NEW i \in 0 .. n - 1 PROVE M[c[i]].next = c[i + 1] /\ M[c[i + 1]].prev = c[i]
      OBVIOUS
    <3>1. i \in 0 .. n /\ i + 1 \in 0 .. n /\ i # n /\ i + 1 # 0 /\ 0 \in 0 .. n /\ n \in 0 .. n
      OBVIOUS
    <3>2. c[i] # c[n] /\ c[i + 1] # c[0]
      BY <3>1, <1>3
    <3> QED
      BY <3>1, <3>2, <1>3, <1>4, <1>2
  <2>3. M[c[n]].next = e /\ M[e].prev = c[n] /\ M[e].next = q /\ M[q].prev = e
    BY <1>3, <1>4
  <2>4. \A i \in 0 .. n : M[d[i]].next = d[i + 1] /\ M[d[i + 1]].prev = d[i]
    <3> SUFFICES ASSUME NEW i \in 0 .. n PROVE M[d[i]].next = d[i + 1] /\ M[d[i + 1]].prev = d[i]
      OBVIOUS
    <3>1. CASE i = n
      BY <3>1, <2>3, <1>6
    <3>2. CASE i # n
      <4>1. i \in 0 .. n - 1 /\ d[i] = c[i] /\ d[i + 1] = c[i + 1]
        BY <3>2, <1>6
      <4> QED
        BY <4>1, <2>2
    <3> QED
      BY <3>1, <3>2
  <2> QED
    BY <2>1, <2>3, <2>4, <1>6, SMTT(40) DEF Linked
<1> QED
  BY <1>7 DEF M, d

\* queue_add_tail adds one entry to the list and touches no other list.
LEMMA ListAddTail ==
  ASSUME NEW N, NEW L \in Memory(N), NEW q, NEW S, IsList(L, q, S),
         NEW e \in N, e # q, e \notin S
  PROVE  LET M == AddTail(L, q, e)
         IN  /\ M \in Memory(N) /\ IsList(M, q, S \cup {e})
             /\ M[q].next = IF S = {} THEN e ELSE L[q].next
             /\ \A x \in N \ (S \cup {q, e}) : M[x] = L[x]
<1> DEFINE M == AddTail(L, q, e)
<1>1. DOMAIN L = N
  BY DEF Memory
<1>0. PICK n \in Nat : \E c \in [0 .. n -> N] :
        /\ c[0] = q /\ Linked(L, c, n)
        /\ \A x : x \in S <=> \E i \in 1 .. n : x = c[i]
  BY <1>1 DEF IsList
<1>2. PICK c \in [0 .. n -> N] :
        /\ c[0] = q /\ Linked(L, c, n)
        /\ \A x : x \in S <=> \E i \in 1 .. n : x = c[i]
  BY <1>0
<1>3. /\ \A i \in 0 .. n : c[i] \in N /\ c[i] # e
      /\ \A i, j \in 0 .. n : c[i] = c[j] => i = j
      /\ \A i \in 0 .. n - 1 : L[c[i]].next = c[i + 1] /\ L[c[i + 1]].prev = c[i]
      /\ L[c[n]].next = q /\ L[q].prev = c[n]
      /\ q \in N
  BY <1>2 DEF Linked
<1>4. /\ M \in Memory(N)
      /\ \A x \in N :
            /\ M[x].next = IF x = e THEN q ELSE IF x = c[n] THEN e ELSE L[x].next
            /\ M[x].prev = IF x = e THEN c[n] ELSE IF x = q THEN e ELSE L[x].prev
  BY <1>3, AddTailIs
<1>5. DOMAIN M = N
  BY <1>4 DEF Memory
<1> HIDE DEF M
<1> DEFINE d == [i \in 0 .. n + 1 |-> IF i = n + 1 THEN e ELSE c[i]]
<1>6. d \in [0 .. n + 1 -> N] /\ d[0] = q /\ d[n + 1] = e /\ \A i \in 0 .. n : d[i] = c[i]
  BY <1>2, <1>3
<1> HIDE DEF d
<1>7. Linked(M, d, n + 1)
  BY <1>2, <1>3, LinkedAddTail DEF M, d
<1>8. \A x : x \in S \cup {e} <=> \E i \in 1 .. n + 1 : x = d[i]
  BY <1>2, <1>6
<1>9. n + 1 \in Nat
  OBVIOUS
<1>10. IsList(M, q, S \cup {e})
  BY <1>5, <1>6, <1>7, <1>8, <1>9 DEF IsList
<1>11. M[q].next = IF S = {} THEN e ELSE L[q].next
  <2>1. c[n] = q <=> n = 0
    BY <1>2, <1>3
  <2>2. n = 0 <=> S = {}
    BY <1>2
  <2>3. M[q].next = IF q = c[n] THEN e ELSE L[q].next
    BY <1>3, <1>4
  <2> QED
    BY <2>1, <2>2, <2>3
<1>12. \A x \in N \ (S \cup {q, e}) : M[x] = L[x]
  <2> SUFFICES ASSUME NEW x \in N, x \notin S, x # q, x # e PROVE M[x] = L[x]
    OBVIOUS
  <2>1. x # c[n]
    BY <1>2, <1>3
  <2>2. M[x].next = L[x].next /\ M[x].prev = L[x].prev
    BY <2>1, <1>4
  <2> QED
    BY <2>2, <1>4, SameEntry
<1> QED
  BY <1>4, <1>10, <1>11, <1>12 DEF M

\* queue_add_head adds one entry, as the first, and touches no other list.
LEMMA ListAddHead ==
  ASSUME NEW N, NEW L \in Memory(N), NEW q, NEW S, IsList(L, q, S),
         NEW e \in N, e # q, e \notin S
  PROVE  LET M == AddHead(L, q, e)
         IN  /\ M \in Memory(N) /\ IsList(M, q, S \cup {e})
             /\ \A x \in N \ (S \cup {q, e}) : M[x] = L[x]
<1> DEFINE M == AddHead(L, q, e)
<1>1. DOMAIN L = N
  BY DEF Memory
<1>0. PICK n \in Nat : \E c \in [0 .. n -> N] :
        /\ c[0] = q /\ Linked(L, c, n)
        /\ \A x : x \in S <=> \E i \in 1 .. n : x = c[i]
  BY <1>1 DEF IsList
<1>2. PICK c \in [0 .. n -> N] :
        /\ c[0] = q /\ Linked(L, c, n)
        /\ \A x : x \in S <=> \E i \in 1 .. n : x = c[i]
  BY <1>0
<1> DEFINE f == L[q].next
<1>3. /\ \A i \in 0 .. n : c[i] \in N /\ c[i] # e
      /\ \A i, j \in 0 .. n : c[i] = c[j] => i = j
      /\ \A i \in 0 .. n - 1 : L[c[i]].next = c[i + 1] /\ L[c[i + 1]].prev = c[i]
      /\ L[c[n]].next = q /\ L[q].prev = c[n]
      /\ q \in N /\ f = (IF n = 0 THEN q ELSE c[1])
  BY <1>2 DEF Linked
<1>4. /\ M \in Memory(N)
      /\ \A x \in N :
            /\ M[x].next = IF x = e THEN f ELSE IF x = q THEN e ELSE L[x].next
            /\ M[x].prev = IF x = e THEN q ELSE IF x = f THEN e ELSE L[x].prev
  <2>1. f # e
    BY <1>3
  <2> QED
    BY <2>1, <1>3, AddHeadIs
<1>5. DOMAIN M = N
  BY <1>4 DEF Memory
<1> HIDE DEF M, f
<1> DEFINE d == [i \in 0 .. n + 1 |-> IF i = 0 THEN q ELSE IF i = 1 THEN e ELSE c[i - 1]]
<1>6. d \in [0 .. n + 1 -> N] /\ d[0] = q /\ d[1] = e /\ \A i \in 1 .. n : d[i + 1] = c[i]
  BY <1>2, <1>3
<1> HIDE DEF d
<1>7. Linked(M, d, n + 1)
  <2>1. \A i, j \in 0 .. n + 1 : d[i] = d[j] => i = j
    <3> SUFFICES ASSUME NEW i \in 0 .. n + 1, NEW j \in 0 .. n + 1, d[i] = d[j] PROVE i = j
      OBVIOUS
    <3>1. \A m \in 2 .. n + 1 : d[m] = c[m - 1] /\ m - 1 \in 0 .. n /\ c[m - 1] # e /\ c[m - 1] # q
      <4> SUFFICES ASSUME NEW m \in 2 .. n + 1
                   PROVE d[m] = c[m - 1] /\ m - 1 \in 0 .. n /\ c[m - 1] # e /\ c[m - 1] # q
        OBVIOUS
      <4>1. m - 1 \in 1 .. n /\ m - 1 \in 0 .. n /\ 0 \in 0 .. n /\ (m - 1) + 1 = m /\ m - 1 # 0
        OBVIOUS
      <4> QED
        BY <4>1, <1>6, <1>3, <1>2
    <3>2. i = 0 \/ i = 1 \/ i \in 2 .. n + 1
      OBVIOUS
    <3>3. j = 0 \/ j = 1 \/ j \in 2 .. n + 1
      OBVIOUS
    <3>4. CASE i \in 2 .. n + 1 /\ j \in 2 .. n + 1
      <4>1. i - 1 = j - 1
        BY <3>1, <3>4, <1>3
      <4> QED
        BY <4>1
    <3> QED
      BY <3>1, <3>2, <3>3, <3>4, <1>6
  <2>2. M[q].next = e /\ M[e].prev = q
    BY <1>3, <1>4
  <2>3. CASE n = 0
    <3>1. M[e].next = q /\ M[q].prev = e
      BY <2>3, <1>3, <1>4
    <3> QED
      BY <2>1, <2>2, <2>3, <3>1, <1>6 DEF Linked
  <2>4. CASE n > 0
    <3>1. f = c[1] /\ M[e].next = c[1] /\ M[c[1]].prev = e /\ d[2] = c[1]
      BY <2>4, <1>3, <1>4, <1>6
    <3>2. ASSUME NEW i \in 2 .. n PROVE M[d[i]].next = d[i + 1] /\ M[d[i + 1]].prev = d[i]
      <4>1. i - 1 \in 1 .. n /\ i - 1 \in 0 .. n - 1 /\ i - 1 \in 0 .. n /\ i \in 0 .. n /\ i \in 1 .. n
            /\ (i - 1) + 1 = i /\ i - 1 # 0 /\ i # 1 /\ 0 \in 0 .. n /\ 1 \in 0 .. n
        BY <2>4
      <4>2. d[i] = c[i - 1] /\ d[i + 1] = c[i]
        BY <4>1, <1>6
      <4>3. c[i - 1] # q /\ c[i] # c[1]
        BY <4>1, <1>2, <1>3
      <4>4. L[c[i - 1]].next = c[i] /\ L[c[i]].prev = c[i - 1]
        BY <4>1, <1>3
      <4> QED
        BY <4>1, <4>2, <4>3, <4>4, <1>3, <1>4, <3>1
    <3>3. M[c[n]].next = q /\ M[q].prev = c[n] /\ d[n + 1] = c[n]
      <4>1. c[n] # q /\ c[1] # q
        BY <2>4, <1>2, <1>3
      <4> QED
        BY <4>1, <2>4, <1>3, <1>4, <1>6, <3>1
    <3>4. \A i \in 0 .. n : M[d[i]].next = d[i + 1] /\ M[d[i + 1]].prev = d[i]
      <4> SUFFICES ASSUME NEW i \in 0 .. n PROVE M[d[i]].next = d[i + 1] /\ M[d[i + 1]].prev = d[i]
        OBVIOUS
      <4>1. i = 0 \/ i = 1 \/ i \in 2 .. n
        OBVIOUS
      <4> QED
        BY <4>1, <3>1, <3>2, <2>2, <1>6
    <3> QED
      BY <2>1, <3>3, <3>4, <1>6 DEF Linked
  <2> QED
    BY <2>3, <2>4
<1>8. \A x : x \in S \cup {e} <=> \E i \in 1 .. n + 1 : x = d[i]
  <2>1. \A i \in 1 .. n + 1 : i = 1 \/ (i - 1 \in 1 .. n /\ d[i] = c[i - 1])
    <3> SUFFICES ASSUME NEW i \in 1 .. n + 1, i # 1 PROVE i - 1 \in 1 .. n /\ d[i] = c[i - 1]
      OBVIOUS
    <3>1. i - 1 \in 1 .. n /\ (i - 1) + 1 = i
      OBVIOUS
    <3> QED
      BY <3>1, <1>6
  <2>2. \A i \in 1 .. n : i + 1 \in 1 .. n + 1 /\ d[i + 1] = c[i]
    BY <1>6
  <2>3. 1 \in 1 .. n + 1
    OBVIOUS
  <2> QED
    BY <2>1, <2>2, <2>3, <1>2, <1>6
<1>9. n + 1 \in Nat
  OBVIOUS
<1>10. IsList(M, q, S \cup {e})
  BY <1>5, <1>6, <1>7, <1>8, <1>9 DEF IsList
<1>12. \A x \in N \ (S \cup {q, e}) : M[x] = L[x]
  <2> SUFFICES ASSUME NEW x \in N, x \notin S, x # q, x # e PROVE M[x] = L[x]
    OBVIOUS
  <2>1. x # f
    BY <1>2, <1>3
  <2>2. M[x].next = L[x].next /\ M[x].prev = L[x].prev
    BY <2>1, <1>4
  <2> QED
    BY <2>2, <1>4, SameEntry
<1> QED
  BY <1>4, <1>10, <1>12 DEF M

\* queue_remove_entry, entry by entry: those behind it move up.
LEMMA LinkedRemove ==
  ASSUME NEW N, NEW L \in Memory(N), NEW n \in Nat, NEW c \in [0 .. n -> N], Linked(L, c, n),
         NEW m \in 1 .. n
  PROVE  Linked(RemoveEntry(L, c[m]), [i \in 0 .. n - 1 |-> IF i < m THEN c[i] ELSE c[i + 1]], n - 1)
<1> DEFINE e == c[m]
           q == c[0]
           M == RemoveEntry(L, e)
<1>2. c[0] = q /\ Linked(L, c, n)
  OBVIOUS
<1>3. c[m] = e
  OBVIOUS
<1> HIDE DEF e, q
<1> DEFINE b == IF m = n THEN 0 ELSE m + 1
<1>b. b \in 0 .. n /\ b # m /\ m - 1 \in 0 .. n /\ m \in 0 .. n /\ 0 \in 0 .. n /\ n \in 0 .. n
  OBVIOUS
<1>4. /\ \A i \in 0 .. n : c[i] \in N
      /\ \A i, j \in 0 .. n : c[i] = c[j] => i = j
      /\ \A i \in 0 .. n - 1 : L[c[i]].next = c[i + 1] /\ L[c[i + 1]].prev = c[i]
      /\ L[c[n]].next = q /\ L[q].prev = c[n]
      /\ q \in N /\ e \in N
  BY <1>2, <1>3 DEF Linked
<1>5. L[e].prev = c[m - 1] /\ L[e].next = c[b]
  <2>1. m - 1 \in 0 .. n - 1 /\ (m - 1) + 1 = m /\ (m # n => m \in 0 .. n - 1)
    OBVIOUS
  <2> QED
    BY <2>1, <1>2, <1>3, <1>4
<1>6. /\ M \in Memory(N)
      /\ \A x \in N :
            /\ M[x].next = IF x = c[m - 1] THEN c[b] ELSE L[x].next
            /\ M[x].prev = IF x = c[b] THEN c[m - 1] ELSE L[x].prev
  <2>1. /\ RemoveEntry(L, e) \in Memory(N)
        /\ \A x \in N :
             /\ RemoveEntry(L, e)[x].next = IF x = L[e].prev THEN L[e].next ELSE L[x].next
             /\ RemoveEntry(L, e)[x].prev = IF x = L[e].next THEN L[e].prev ELSE L[x].prev
    BY <1>4, RemoveEntryIs
  <2> QED
    BY <2>1, <1>5
<1>7. DOMAIN M = N
  BY <1>6 DEF Memory
<1> HIDE DEF M
<1> DEFINE d == [i \in 0 .. n - 1 |-> IF i < m THEN c[i] ELSE c[i + 1]]
<1>8. /\ n - 1 \in Nat /\ d \in [0 .. n - 1 -> N] /\ d[0] = q
      /\ \A i \in 0 .. n - 1 : d[i] = IF i < m THEN c[i] ELSE c[i + 1]
  <2>1. n - 1 \in Nat
    OBVIOUS
  <2>2. \A i \in 0 .. n - 1 : i \in 0 .. n /\ i + 1 \in 0 .. n
    OBVIOUS
  <2> QED
    BY <1>2, <1>4, <2>1, <2>2
<1> HIDE DEF d
<1>9. Linked(M, d, n - 1)
  <2>1. \A i, j \in 0 .. n - 1 : d[i] = d[j] => i = j
    <3> SUFFICES ASSUME NEW i \in 0 .. n - 1, NEW j \in 0 .. n - 1, d[i] = d[j] PROVE i = j
      OBVIOUS
    <3>1. i \in 0 .. n /\ j \in 0 .. n /\ i + 1 \in 0 .. n /\ j + 1 \in 0 .. n
      OBVIOUS
    <3> QED
      BY <3>1, <1>4, <1>8
  <2>2. ASSUME NEW i \in 0 .. n - 1, i + 1 \in 0 .. n - 1
        PROVE M[d[i]].next = d[i + 1] /\ M[d[i + 1]].prev = d[i]
    <3>1. CASE i + 1 < m
      <4>1. d[i] = c[i] /\ d[i + 1] = c[i + 1]
        BY <3>1, <2>2, <1>8
      <4>2. i \in 0 .. n /\ i + 1 \in 0 .. n /\ i # m - 1 /\ i + 1 # b
        BY <3>1
      <4>3. c[i] # c[m - 1] /\ c[i + 1] # c[b]
        BY <4>2, <1>4, <1>b
      <4> QED
        BY <4>1, <4>2, <4>3, <1>4, <1>6
    <3>2. CASE i + 1 = m
      <4>1. d[i] = c[m - 1] /\ d[i + 1] = c[b]
        <5>1. i = m - 1 /\ i < m /\ ~(i + 1 < m) /\ m # n /\ (i + 1) + 1 = b
          BY <3>2, <2>2
        <5> QED
          BY <5>1, <2>2, <1>8
      <4> QED
        BY <4>1, <1>4, <1>6, <1>b
    <3>3. CASE i + 1 > m
      <4>1. d[i] = c[i + 1] /\ d[i + 1] = c[i + 2]
        BY <3>3, <2>2, <1>8
      <4>2. i + 1 \in 0 .. n - 1 /\ i + 1 \in 0 .. n /\ i + 2 \in 0 .. n /\ i + 1 # m - 1 /\ i + 2 # b /\ (i + 1) + 1 = i + 2
        BY <3>3, <2>2
      <4>3. c[i + 1] # c[m - 1] /\ c[i + 2] # c[b]
        BY <4>2, <1>4, <1>b
      <4>4. L[c[i + 1]].next = c[i + 2] /\ L[c[i + 2]].prev = c[i + 1]
        BY <4>2, <1>4
      <4> QED
        BY <4>1, <4>2, <4>3, <4>4, <1>4, <1>6
    <3> QED
      BY <3>1, <3>2, <3>3
  <2>3. M[d[n - 1]].next = q /\ M[q].prev = d[n - 1]
    <3>1. CASE m = n
      <4>1. d[n - 1] = c[m - 1] /\ b = 0
        BY <3>1, <1>8
      <4> QED
        BY <4>1, <1>2, <1>4, <1>6, <1>b
    <3>2. CASE m # n
      <4>1. d[n - 1] = c[n] /\ n # m - 1 /\ b # 0
        BY <3>2, <1>8
      <4>2. c[n] # c[m - 1] /\ q # c[b]
        BY <4>1, <1>2, <1>4, <1>b
      <4> QED
        BY <4>1, <4>2, <1>4, <1>6, <1>b
    <3> QED
      BY <3>1, <3>2
  <2>4. \A i \in 0 .. (n - 1) - 1 : i \in 0 .. n - 1 /\ i + 1 \in 0 .. n - 1
    OBVIOUS
  <2> QED
    BY <2>1, <2>2, <2>3, <2>4, <1>8 DEF Linked
<1> QED
  BY <1>9 DEF M, d, e

TakenOut(N, L, q, S, e) ==
  LET M == RemoveEntry(L, e)
  IN  /\ M \in Memory(N) /\ IsList(M, q, S \ {e})
      /\ L[q].next # e => M[q].next = L[q].next
      /\ \A x \in N \ (S \cup {q}) : M[x] = L[x]
      /\ M[e] = L[e]

\* queue_remove_entry takes one entry out, touches no other list, and keeps
\* the first entry when another one is taken out.
LEMMA ListRemove ==
  ASSUME NEW N, NEW L \in Memory(N), NEW q, NEW S, IsList(L, q, S), NEW e \in S
  PROVE  TakenOut(N, L, q, S, e)
<1> DEFINE M == RemoveEntry(L, e)
<1>1. DOMAIN L = N
  BY DEF Memory
<1>0. PICK n \in Nat : \E c \in [0 .. n -> N] :
        /\ c[0] = q /\ Linked(L, c, n)
        /\ \A x : x \in S <=> \E i \in 1 .. n : x = c[i]
  BY <1>1 DEF IsList
<1>2. PICK c \in [0 .. n -> N] :
        /\ c[0] = q /\ Linked(L, c, n)
        /\ \A x : x \in S <=> \E i \in 1 .. n : x = c[i]
  BY <1>0
<1>3. PICK m \in 1 .. n : c[m] = e
  BY <1>2
<1> DEFINE b == IF m = n THEN 0 ELSE m + 1
<1>b. b \in 0 .. n /\ b # m /\ m - 1 \in 0 .. n /\ m \in 0 .. n /\ 0 \in 0 .. n /\ n \in 0 .. n
  OBVIOUS
<1>4. /\ \A i \in 0 .. n : c[i] \in N
      /\ \A i, j \in 0 .. n : c[i] = c[j] => i = j
      /\ \A i \in 0 .. n - 1 : L[c[i]].next = c[i + 1] /\ L[c[i + 1]].prev = c[i]
      /\ L[c[n]].next = q /\ L[q].prev = c[n]
      /\ q \in N /\ e \in N
  BY <1>2, <1>3 DEF Linked
<1>5. L[e].prev = c[m - 1] /\ L[e].next = c[b]
  <2>1. m - 1 \in 0 .. n - 1 /\ (m - 1) + 1 = m /\ (m # n => m \in 0 .. n - 1)
    OBVIOUS
  <2> QED
    BY <2>1, <1>2, <1>3, <1>4
<1>6. /\ M \in Memory(N)
      /\ \A x \in N :
            /\ M[x].next = IF x = c[m - 1] THEN c[b] ELSE L[x].next
            /\ M[x].prev = IF x = c[b] THEN c[m - 1] ELSE L[x].prev
  <2>1. /\ RemoveEntry(L, e) \in Memory(N)
        /\ \A x \in N :
             /\ RemoveEntry(L, e)[x].next = IF x = L[e].prev THEN L[e].next ELSE L[x].next
             /\ RemoveEntry(L, e)[x].prev = IF x = L[e].next THEN L[e].prev ELSE L[x].prev
    BY <1>4, RemoveEntryIs
  <2> QED
    BY <2>1, <1>5
<1>7. DOMAIN M = N
  BY <1>6 DEF Memory
<1> HIDE DEF M
<1> DEFINE d == [i \in 0 .. n - 1 |-> IF i < m THEN c[i] ELSE c[i + 1]]
<1>8. /\ n - 1 \in Nat /\ d \in [0 .. n - 1 -> N] /\ d[0] = q
      /\ \A i \in 0 .. n - 1 : d[i] = IF i < m THEN c[i] ELSE c[i + 1]
  <2>1. n - 1 \in Nat
    OBVIOUS
  <2>2. \A i \in 0 .. n - 1 : i \in 0 .. n /\ i + 1 \in 0 .. n
    OBVIOUS
  <2> QED
    BY <1>2, <1>4, <2>1, <2>2
<1> HIDE DEF d
<1>9. Linked(M, d, n - 1)
  BY <1>2, <1>3, LinkedRemove DEF M, d
<1>10. \A x : x \in S \ {e} <=> \E i \in 1 .. n - 1 : x = d[i]
  <2>1. ASSUME NEW x \in S, x # e PROVE \E i \in 1 .. n - 1 : x = d[i]
    <3>1. PICK i \in 1 .. n : x = c[i]
      BY <2>1, <1>2
    <3>2. i # m
      BY <3>1, <2>1, <1>3
    <3>3. CASE i < m
      BY <3>1, <3>3, <1>8
    <3>4. CASE i > m
      <4>1. i - 1 \in 1 .. n - 1 /\ i - 1 \in 0 .. n - 1 /\ ~(i - 1 < m) /\ (i - 1) + 1 = i
        BY <3>4
      <4> QED
        BY <4>1, <3>1, <1>8
    <3> QED
      BY <3>2, <3>3, <3>4
  <2>2. ASSUME NEW i \in 1 .. n - 1 PROVE d[i] \in S /\ d[i] # e
    <3>1. i \in 0 .. n - 1 /\ i \in 1 .. n /\ i + 1 \in 1 .. n /\ i \in 0 .. n /\ i + 1 \in 0 .. n
      OBVIOUS
    <3>2. CASE i < m
      BY <3>1, <3>2, <1>2, <1>3, <1>4, <1>8, <1>b
    <3>3. CASE ~(i < m)
      <4>1. i + 1 # m /\ d[i] = c[i + 1]
        BY <3>1, <3>3, <1>8
      <4> QED
        BY <4>1, <3>1, <1>2, <1>3, <1>4, <1>b
    <3> QED
      BY <3>2, <3>3
  <2> QED
    BY <2>1, <2>2
<1>11. IsList(M, q, S \ {e})
  BY <1>7, <1>8, <1>9, <1>10 DEF IsList
<1>12. L[q].next # e => M[q].next = L[q].next
  <2>1. ASSUME c[m - 1] = q PROVE L[q].next = e
    <3>1. m - 1 = 0
      BY <2>1, <1>2, <1>4, <1>b
    <3>2. 0 \in 0 .. n - 1 /\ 0 + 1 = m
      BY <3>1
    <3> QED
      BY <3>2, <1>2, <1>3, <1>4
  <2> QED
    BY <2>1, <1>4, <1>6
<1>13. \A x \in N \ (S \cup {q}) : M[x] = L[x]
  <2> SUFFICES ASSUME NEW x \in N, x \notin S, x # q PROVE M[x] = L[x]
    OBVIOUS
  <2>1. \A i \in 0 .. n : x # c[i]
    BY <1>2
  <2>2. M[x].next = L[x].next /\ M[x].prev = L[x].prev
    BY <2>1, <1>b, <1>6
  <2> QED
    BY <2>2, <1>6, SameEntry
<1>14. M[e] = L[e]
  <2>1. c[m - 1] # e /\ c[b] # e
    BY <1>3, <1>4, <1>b
  <2>2. M[e].next = L[e].next /\ M[e].prev = L[e].prev
    BY <2>1, <1>4, <1>6
  <2> QED
    BY <2>2, <1>4, <1>6, SameEntry
<1> QED
  BY <1>6, <1>11, <1>12, <1>13, <1>14 DEF M, TakenOut

-----------------------------------------------------------------------------
(* Walking along a list, as a recursive function does, meets its entries.  *)

\* The order of the numbers, as a relation.
Below == {ss \in Nat \X Nat : ss[1] < ss[2]}

\* It is well-founded.
LEMMA BelowWF == IsWellFoundedOn(Below, Nat)
<1>1. Below = OpToRel(<, Nat)
  BY Zenon DEF Below, OpToRel
<1> QED
  BY <1>1, NatLessThanWellFounded, Zenon

\* A set of numbers that is not empty has a least one.
LEMMA LeastNat ==
  ASSUME NEW T, T \subseteq Nat, T # {}
  PROVE  \E x \in T : \A y \in T : x <= y
<1>1. PICK x \in T : \A y \in T : ~(<<y, x>> \in Below)
  BY BelowWF, WFMin
<1>2. \A y \in T : ~(y < x)
  BY <1>1 DEF Below
<1> QED
  BY <1>1, <1>2

\* The walk from a node is what its recursive definition says.
LEMMA OnwardIsWellDefined ==
  ASSUME NEW L, NEW q, Cardinality(DOMAIN L) \in Nat
  PROVE  Onward(L, q) = [n \in 0 .. Cardinality(DOMAIN L) |->
           [e \in DOMAIN L |-> IF e = q \/ n = 0 THEN <<>> ELSE <<e>> \o Onward(L, q)[n - 1][L[e].next]]]
<1> DEFINE N == Cardinality(DOMAIN L)
           Step(f, n) == [e \in DOMAIN L |-> IF e = q \/ n = 0 THEN <<>> ELSE <<e>> \o f[n - 1][L[e].next]]
           Good(f, m) == f = [n \in 0 .. m |-> Step(f, n)]
           T == {m \in Nat : \A f : ~Good(f, m)}
<1>1. T = {}
  <2> SUFFICES ASSUME T # {} PROVE FALSE
    OBVIOUS
  <2>1. PICK m \in T : \A y \in T : m <= y
    BY LeastNat, T \subseteq Nat
  <2>2. m # 0
    <3> DEFINE g == [n \in 0 .. 0 |-> Step(<<>>, 0)]
    <3>1. \A f, h : Step(f, 0) = Step(h, 0)
      OBVIOUS
    <3> HIDE DEF Step
    <3>2. Good(g, 0)
      BY <3>1
    <3> QED
      BY <3>2, <2>1
  <2>3. m - 1 \in Nat /\ m - 1 \notin T
    <3>1. m \in Nat
      BY <2>1
    <3>2. m - 1 \in Nat /\ ~(m <= m - 1)
      BY <3>1, <2>2
    <3> HIDE DEF T
    <3> QED
      BY <2>1, <3>2
  <2>4. PICK f : Good(f, m - 1)
    BY <2>3
  <2> DEFINE g == [n \in 0 .. m |-> IF n = m THEN Step(f, m) ELSE f[n]]
  <2>5. \A n \in 0 .. m : Step(g, n) = Step(f, n)
    <3> SUFFICES ASSUME NEW n \in 0 .. m PROVE Step(g, n) = Step(f, n)
      OBVIOUS
    <3>1. CASE n = 0
      BY <3>1
    <3>2. CASE n # 0
      <4>1. n - 1 \in 0 .. m /\ n - 1 # m
        BY <3>2, <2>3
      <4>2. g[n - 1] = f[n - 1]
        BY <4>1
      <4> QED
        BY <4>2
    <3> QED
      BY <3>1, <3>2
  <2> HIDE DEF Step
  <2>6. \A n \in 0 .. m : g[n] = Step(f, n)
    <3>1. \A n \in 0 .. m : n # m => n \in 0 .. m - 1
      BY <2>3
    <3> QED
      BY <2>4, <3>1
  <2>7. Good(g, m)
    BY <2>5, <2>6
  <2> QED
    BY <2>7, <2>1
<1>2. \E f : Good(f, N)
  BY <1>1
<1>3. Onward(L, q) = CHOOSE f : Good(f, N)
  BY DEF Onward
<1> QED
  BY <1>2, <1>3

\* What a walk that begins with e consists of.
LEMMA Prepended ==
  ASSUME NEW e, NEW n \in Nat, NEW c, NEW N, NEW w \in [1 .. n -> N], e \in N
  PROVE  /\ <<e>> \o w \in [1 .. n + 1 -> N]
         /\ (<<e>> \o w)[1] = e /\ \A j \in 1 .. n : (<<e>> \o w)[j + 1] = w[j]
<1>1. w \in Seq(N) /\ Len(w) = n /\ <<e>> \in Seq(N) /\ Len(<<e>>) = 1 /\ <<e>>[1] = e
  OBVIOUS
<1> DEFINE v == <<e>> \o w
<1>2. /\ v \in Seq(N) /\ Len(v) = 1 + n
      /\ \A i \in 1 .. 1 + n : v[i] = IF i <= 1 THEN <<e>>[i] ELSE w[i - 1]
  BY <1>1, ConcatProperties
<1> HIDE DEF v
<1>3. v \in [1 .. n + 1 -> N]
  BY <1>2
<1>4. v[1] = e
  BY <1>1, <1>2
<1>5. \A j \in 1 .. n : v[j + 1] = w[j]
  BY <1>2
<1> QED
  BY <1>3, <1>4, <1>5 DEF v

\* A list of distinct nodes is shorter than the number of nodes.
LEMMA RingSize ==
  ASSUME NEW N, IsFiniteSet(N), NEW n \in Nat, NEW c \in [0 .. n -> N],
         \A i, j \in 0 .. n : c[i] = c[j] => i = j
  PROVE  Cardinality(N) \in Nat /\ n < Cardinality(N)
<1>1. c \in Injection(0 .. n, N)
  BY DEF Injection, IsInjective
<1>2. IsFiniteSet(0 .. n) /\ Cardinality(0 .. n) = n + 1
  BY FS_Interval
<1>3. Cardinality(0 .. n) <= Cardinality(N)
  BY <1>1, FS_Injection
<1> QED
  BY <1>2, <1>3, FS_CardinalityType

\* The walk along next from q on meets the entries up to q one after another.
LEMMA WalkAlong ==
  ASSUME NEW N, IsFiniteSet(N), NEW L, DOMAIN L = N,
         NEW n \in Nat, NEW c \in [0 .. n -> N], \A i, j \in 0 .. n : c[i] = c[j] => i = j,
         \A i \in 0 .. n - 1 : L[c[i]].next = c[i + 1], L[c[n]].next = c[0]
  PROVE  /\ Walk(L, c[0]) \in [1 .. n -> N]
         /\ \A i \in 1 .. n : Walk(L, c[0])[i] = c[i]
<1> DEFINE q == c[0]
           Z == Cardinality(N)
           from == Onward(L, q)
           Part(d) == [j \in 1 .. d |-> c[(n - d) + j]]
           Is(d) == \A m \in d .. Z : from[m][L[c[n - d]].next] = Part(d)
           T == {d \in 0 .. n : ~Is(d)}
<1>1. DOMAIN L = N
  OBVIOUS
<1>2. Z \in Nat /\ n < Z
  BY RingSize
<1>3. from = [m \in 0 .. Z |->
           [e \in N |-> IF e = q \/ m = 0 THEN <<>> ELSE <<e>> \o from[m - 1][L[e].next]]]
  BY <1>1, <1>2, OnwardIsWellDefined
<1>4. /\ \A i \in 0 .. n : c[i] \in N
      /\ \A i, j \in 0 .. n : c[i] = c[j] => i = j
      /\ \A i \in 0 .. n - 1 : L[c[i]].next = c[i + 1]
      /\ L[c[n]].next = q /\ q \in N
  OBVIOUS
<1> HIDE DEF from, Z, q
<1>5. \A m \in 0 .. Z : \A e \in N :
        from[m][e] = IF e = q \/ m = 0 THEN <<>> ELSE <<e>> \o from[m - 1][L[e].next]
  <2>1. ASSUME NEW m \in 0 .. Z
        PROVE from[m] = [e \in N |-> IF e = q \/ m = 0 THEN <<>> ELSE <<e>> \o from[m - 1][L[e].next]]
    BY <1>3
  <2> SUFFICES ASSUME NEW m \in 0 .. Z, NEW e \in N
               PROVE from[m][e] = IF e = q \/ m = 0 THEN <<>> ELSE <<e>> \o from[m - 1][L[e].next]
    OBVIOUS
  <2> QED
    BY <2>1, ZenonT(60)
<1>6. Is(0)
  <2>1. Part(0) = <<>>
    OBVIOUS
  <2>2. L[c[n - 0]].next = q
    BY <1>4
  <2>3. \A m \in 0 .. Z : from[m][q] = <<>>
    BY <1>4, <1>5
  <2> QED
    BY <2>1, <2>2, <2>3
<1>7. ASSUME NEW d \in 0 .. n, d # 0, Is(d - 1) PROVE Is(d)
  <2>1. d - 1 \in Nat /\ (d - 1) + 1 = d /\ n - d \in 0 .. n - 1 /\ (n - d) + 1 \in 0 .. n /\ (n - d) + 1 = n - (d - 1)
        /\ 0 \in 0 .. n /\ (n - d) + 1 # 0
    BY <1>7
  <2> DEFINE e == c[(n - d) + 1]
  <2>2. e \in N /\ e # q /\ L[c[n - d]].next = e /\ c[n - (d - 1)] = e
    BY <2>1, <1>4 DEF q
  <2>3. Part(d - 1) \in [1 .. d - 1 -> N]
    <3>1. \A j \in 1 .. d - 1 : (n - (d - 1)) + j \in 0 .. n
      BY <2>1
    <3> QED
      BY <3>1, <1>4
  <2>4. <<e>> \o Part(d - 1) = Part(d)
    <3> DEFINE w == Part(d - 1)
    <3>1. \A j \in 1 .. d - 1 : w[j] = c[(n - (d - 1)) + j]
      OBVIOUS
    <3>0. w \in [1 .. d - 1 -> N] /\ e \in N /\ d - 1 \in Nat /\ (d - 1) + 1 = d
      BY <2>1, <2>2, <2>3
    <3> HIDE DEF w, e
    <3>2. /\ <<e>> \o w \in [1 .. d -> N]
          /\ (<<e>> \o w)[1] = e /\ \A j \in 1 .. d - 1 : (<<e>> \o w)[j + 1] = w[j]
      <4>1. /\ <<e>> \o w \in [1 .. (d - 1) + 1 -> N]
            /\ (<<e>> \o w)[1] = e /\ \A j \in 1 .. d - 1 : (<<e>> \o w)[j + 1] = w[j]
        BY <3>0, Prepended
      <4> QED
        BY <4>1, <3>0
    <3>3. ASSUME NEW j \in 1 .. d PROVE (<<e>> \o w)[j] = c[(n - d) + j]
      <4>1. CASE j = 1
        BY <4>1, <3>2 DEF e
      <4>2. CASE j # 1
        <5>1. j - 1 \in 1 .. d - 1 /\ (j - 1) + 1 = j /\ (n - (d - 1)) + (j - 1) = (n - d) + j
          BY <4>2, <2>1
        <5>2. w[j - 1] = c[(n - (d - 1)) + (j - 1)]
          BY <5>1, <3>1
        <5>3. (<<e>> \o w)[(j - 1) + 1] = w[j - 1]
          BY <5>1, <3>2
        <5> QED
          BY <5>1, <5>2, <5>3, Zenon
      <4> QED
        BY <4>1, <4>2
    <3>4. <<e>> \o w = [j \in 1 .. d |-> c[(n - d) + j]]
      BY <3>2, <3>3
    <3> QED
      BY <3>4 DEF w, e
  <2> HIDE DEF Part, e
  <2>5. ASSUME NEW m \in d .. Z PROVE from[m][e] = Part(d)
    <3>1. m \in 0 .. Z /\ m # 0 /\ m - 1 \in d - 1 .. Z
      BY <2>1, <1>2, <1>7
    <3>2. from[m - 1][L[e].next] = Part(d - 1)
      BY <3>1, <1>7, <2>2
    <3>3. e \in N /\ e # q
      BY <2>2
    <3>4. from[m][e] = IF e = q \/ m = 0 THEN <<>> ELSE <<e>> \o from[m - 1][L[e].next]
      BY <3>1, <3>3, <1>5, Zenon
    <3>5. from[m][e] = <<e>> \o from[m - 1][L[e].next]
      BY <3>1, <3>3, <3>4, Zenon
    <3> QED
      BY <3>2, <3>5, <2>4, Zenon
  <2> QED
    BY <2>2, <2>5
<1>8. T = {}
  <2> SUFFICES ASSUME T # {} PROVE FALSE
    OBVIOUS
  <2>1. T \subseteq Nat
    OBVIOUS
  <2> HIDE DEF Is
  <2>2. PICK d \in T : \A y \in T : d <= y
    BY <2>1, LeastNat
  <2>3. d \in 0 .. n /\ ~Is(d) /\ d # 0
    BY <2>2, <1>6
  <2>4. d - 1 \in 0 .. n /\ ~(d <= d - 1)
    BY <2>3
  <2>5. Is(d - 1)
    BY <2>2, <2>4
  <2> QED
    BY <2>3, <2>5, <1>7
<1>9. Is(n)
  <2> HIDE DEF Is
  <2> QED
    BY <1>8
<1>10. from[Z][L[q].next] = Part(n)
  <2>1. Z \in n .. Z /\ c[n - n] = q
    BY <1>2 DEF q
  <2> QED
    BY <1>9, <2>1
<1>11. Part(n) = [i \in 1 .. n |-> c[i]]
  OBVIOUS
<1>12. Walk(L, c[0]) = [i \in 1 .. n |-> c[i]]
  BY <1>1, <1>10, <1>11 DEF Walk, from, q, Z
<1> QED
  BY <1>4, <1>12

\* So does the walk along a list.
LEMMA WalkIs ==
  ASSUME NEW N, IsFiniteSet(N), NEW L \in Memory(N),
         NEW n \in Nat, NEW c \in [0 .. n -> N], Linked(L, c, n)
  PROVE  /\ Walk(L, c[0]) \in [1 .. n -> N]
         /\ \A i \in 1 .. n : Walk(L, c[0])[i] = c[i]
<1>1. DOMAIN L = N
  BY DEF Memory
<1>2. /\ \A i, j \in 0 .. n : c[i] = c[j] => i = j
      /\ \A i \in 0 .. n - 1 : L[c[i]].next = c[i + 1]
      /\ L[c[n]].next = c[0]
  BY DEF Linked
<1> QED
  BY <1>1, <1>2, WalkAlong

\* So a list is well formed and its walk meets exactly the entries.
LEMMA ListIsIntact ==
  ASSUME NEW N, IsFiniteSet(N), NEW L \in Memory(N), NEW q, NEW S, IsList(L, q, S)
  PROVE  /\ WellFormed(L, q)
         /\ {Walk(L, q)[i] : i \in DOMAIN Walk(L, q)} = S
         /\ Walk(L, q) \in Seq(N)
<1>1. DOMAIN L = N
  BY DEF Memory
<1>0. PICK n \in Nat : \E c \in [0 .. n -> N] :
        /\ c[0] = q /\ Linked(L, c, n)
        /\ \A x : x \in S <=> \E i \in 1 .. n : x = c[i]
  BY <1>1 DEF IsList
<1>2. PICK c \in [0 .. n -> N] :
        /\ c[0] = q /\ Linked(L, c, n)
        /\ \A x : x \in S <=> \E i \in 1 .. n : x = c[i]
  BY <1>0
<1> DEFINE w == Walk(L, q)
<1>3. w \in [1 .. n -> N] /\ \A i \in 1 .. n : w[i] = c[i]
  BY <1>2, WalkIs
<1> HIDE DEF w
<1>4. w \in Seq(N) /\ DOMAIN w = 1 .. n /\ Len(w) = n /\ \A i \in 1 .. n : w[i] = c[i]
  <2>1. w \in Seq(N) /\ Len(w) = n
    BY <1>3
  <2> QED
    BY <2>1, <1>3
<1>5. c = [i \in 0 .. n |-> IF i = 0 THEN q ELSE w[i]]
  <2>1. \A i \in 0 .. n : i # 0 => i \in 1 .. n
    OBVIOUS
  <2> QED
    BY <2>1, <1>2, <1>4
<1>6. \A i \in 0 .. n : c[i] \in N
  OBVIOUS
<1>7. Ring(L, q, w)
  BY <1>1, <1>2, <1>4, <1>5, <1>6 DEF Ring
<1> QED
  BY <1>2, <1>4, <1>7 DEF WellFormed, w

\* A list whose entries are known in their order.
RingOf(q, s) == [i \in 0 .. Len(s) |-> IF i = 0 THEN q ELSE s[i]]

RingIs(N, L, q, s) ==
  /\ q \in N /\ RingOf(q, s) \in [0 .. Len(s) -> N] /\ Linked(L, RingOf(q, s), Len(s))
  /\ Len(s) \in Nat /\ \A i \in 1 .. Len(s) : s[i] \in N /\ s[i] # q
  /\ \A i, j \in 1 .. Len(s) : s[i] = s[j] => i = j
  /\ IsList(L, q, {s[i] : i \in 1 .. Len(s)})

\* A ring is a list, its head is no entry and no entry comes twice.
LEMMA RingFacts ==
  ASSUME NEW N, NEW L \in Memory(N), NEW q, NEW s \in Seq(N), Ring(L, q, s)
  PROVE  RingIs(N, L, q, s)
<1> DEFINE n == Len(s)
           c == RingOf(q, s)
<1>1. DOMAIN L = N /\ n \in Nat
  BY DEF Memory
<1>2. (\A i \in 0 .. n : c[i] \in N) /\ Linked(L, c, n)
  BY <1>1 DEF Ring, RingOf
<1>3. c[0] = q /\ \A i \in 1 .. n : c[i] = s[i]
  BY <1>1 DEF RingOf
<1>4. c \in [0 .. n -> N]
  BY <1>2 DEF RingOf
<1> HIDE DEF c, n
<1>5. \A i, j \in 0 .. n : c[i] = c[j] => i = j
  BY <1>2 DEF Linked
<1>6. \A i \in 1 .. n : i \in 0 .. n /\ i # 0
  BY <1>1
<1>7. 0 \in 0 .. n
  BY <1>1
<1>8. IsList(L, q, {s[i] : i \in 1 .. n})
  <2>1. \A x : x \in {s[i] : i \in 1 .. n} <=> \E i \in 1 .. n : x = c[i]
    BY <1>3
  <2> QED
    BY <2>1, <1>1, <1>2, <1>3, <1>4 DEF IsList
<1>9. \A i \in 1 .. n : s[i] \in N /\ s[i] # q
  <2> SUFFICES ASSUME NEW i \in 1 .. n PROVE s[i] \in N /\ s[i] # q
    OBVIOUS
  <2>1. c[i] # c[0]
    BY <1>5, <1>6, <1>7
  <2> QED
    BY <2>1, <1>2, <1>3, <1>6
<1>10. \A i, j \in 1 .. n : s[i] = s[j] => i = j
  BY <1>3, <1>5, <1>6
<1> QED
  BY <1>1, <1>2, <1>3, <1>4, <1>7, <1>8, <1>9, <1>10 DEF c, n, RingIs

\* What makes a ring of a sequence.
LEMMA RingFrom ==
  ASSUME NEW N, NEW L \in Memory(N), NEW q, NEW s \in Seq(N),
         NEW n, n = Len(s), NEW c \in [0 .. n -> N], Linked(L, c, n), c[0] = q,
         \A i \in 1 .. n : c[i] = s[i]
  PROVE  Ring(L, q, s)
<1>1. DOMAIN L = N /\ n \in Nat
  BY DEF Memory
<1>2. c = [i \in 0 .. n |-> IF i = 0 THEN q ELSE s[i]]
  <2>1. \A i \in 0 .. n : i # 0 => i \in 1 .. n
    BY <1>1
  <2> QED
    BY <2>1
<1> QED
  BY <1>1, <1>2 DEF Ring

\* A ring does not depend on what is not in it.
LEMMA RingFrame ==
  ASSUME NEW N, NEW L \in Memory(N), NEW M \in Memory(N), NEW q, NEW s \in Seq(N), Ring(L, q, s),
         M[q] = L[q], \A i \in 1 .. Len(s) : M[s[i]] = L[s[i]]
  PROVE  Ring(M, q, s)
<1> DEFINE n == Len(s)
           c == RingOf(q, s)
<1>0. RingIs(N, L, q, s)
  BY RingFacts
<1>1. c \in [0 .. n -> N] /\ Linked(L, c, n) /\ n \in Nat
  BY <1>0 DEF RingIs
<1>2. c[0] = q /\ \A i \in 1 .. n : c[i] = s[i]
  BY <1>1 DEF RingOf
<1> HIDE DEF c, n
<1>3. \A i \in 0 .. n : M[c[i]] = L[c[i]]
  <2>1. \A i \in 0 .. n : i = 0 \/ i \in 1 .. n
    BY <1>1
  <2> QED
    BY <2>1, <1>2 DEF n
<1>4. Linked(M, c, n)
  <2>1. \A i \in 0 .. n - 1 : i \in 0 .. n /\ i + 1 \in 0 .. n
    BY <1>1
  <2>2. 0 \in 0 .. n /\ n \in 0 .. n
    BY <1>1
  <2> QED
    BY <1>1, <1>3, <2>1, <2>2 DEF Linked
<1> QED
  BY <1>1, <1>2, <1>4, RingFrom DEF n

\* The walk along a ring is its sequence.
LEMMA RingWalk ==
  ASSUME NEW N, IsFiniteSet(N), NEW L \in Memory(N), NEW q, NEW s \in Seq(N), Ring(L, q, s)
  PROVE  Walk(L, q) = s
<1> DEFINE n == Len(s)
           c == RingOf(q, s)
<1>0. RingIs(N, L, q, s)
  BY RingFacts
<1>1. c \in [0 .. n -> N] /\ Linked(L, c, n) /\ n \in Nat
  BY <1>0 DEF RingIs
<1>2. c[0] = q /\ \A i \in 1 .. n : c[i] = s[i]
  BY <1>1 DEF RingOf
<1> HIDE DEF c
<1>3. Walk(L, q) \in [1 .. n -> N] /\ \A i \in 1 .. n : Walk(L, q)[i] = c[i]
  BY <1>1, <1>2, WalkIs
<1>4. s \in [1 .. n -> N]
  OBVIOUS
<1> DEFINE w == Walk(L, q)
<1>5. w \in [1 .. n -> N] /\ \A i \in 1 .. n : w[i] = s[i]
  BY <1>2, <1>3
<1> HIDE DEF n, w
<1>6. w = [i \in 1 .. n |-> w[i]] /\ s = [i \in 1 .. n |-> s[i]]
  BY <1>4, <1>5
<1>7. [i \in 1 .. n |-> w[i]] = [i \in 1 .. n |-> s[i]]
  BY <1>5
<1> QED
  BY <1>6, <1>7 DEF w

\* queue_add_tail appends to the sequence and touches no other list.
LEMMA RingAddTail ==
  ASSUME NEW N, NEW L \in Memory(N), NEW q, NEW s \in Seq(N), Ring(L, q, s),
         NEW e \in N, e # q, \A i \in 1 .. Len(s) : s[i] # e
  PROVE  LET M == AddTail(L, q, e)
         IN  /\ M \in Memory(N) /\ Ring(M, q, Append(s, e))
             /\ \A x \in N : x # q /\ x # e /\ (\A i \in 1 .. Len(s) : x # s[i]) => M[x] = L[x]
<1> DEFINE n == Len(s)
           c == RingOf(q, s)
           M == AddTail(L, q, e)
           S == {s[i] : i \in 1 .. n}
<1>0. RingIs(N, L, q, s)
  BY RingFacts
<1>1. c \in [0 .. n -> N] /\ Linked(L, c, n) /\ n \in Nat /\ IsList(L, q, S) /\ q \in N
  BY <1>0 DEF RingIs
<1>2. c[0] = q /\ \A i \in 1 .. n : c[i] = s[i]
  BY <1>1 DEF RingOf
<1>3. M \in Memory(N) /\ \A x \in N \ (S \cup {q, e}) : M[x] = L[x]
  <2>1. e \notin S
    OBVIOUS
  <2> HIDE DEF S
  <2> QED
    BY <1>1, <2>1, ListAddTail
<1> HIDE DEF c
<1> DEFINE d == [i \in 0 .. n + 1 |-> IF i = n + 1 THEN e ELSE c[i]]
<1>4. \A i \in 0 .. n : c[i] # e
  <2>1. \A i \in 0 .. n : i = 0 \/ i \in 1 .. n
    BY <1>1
  <2> QED
    BY <2>1, <1>2
<1>5. Linked(M, d, n + 1)
  <2> HIDE DEF n
  <2> QED
    BY <1>1, <1>2, <1>4, LinkedAddTail
<1>6. Append(s, e) \in Seq(N) /\ Len(Append(s, e)) = n + 1
  OBVIOUS
<1>7. d \in [0 .. n + 1 -> N] /\ d[0] = q /\ \A i \in 1 .. n + 1 : d[i] = Append(s, e)[i]
  <2>1. \A i \in 0 .. n + 1 : i # n + 1 => i \in 0 .. n
    BY <1>1
  <2>2. ASSUME NEW i \in 1 .. n + 1 PROVE d[i] = Append(s, e)[i]
    <3>1. CASE i = n + 1
      BY <3>1
    <3>2. CASE i # n + 1
      <4>1. i \in 1 .. n
        BY <3>2, <1>1
      <4> QED
        BY <4>1, <3>2, <1>2
    <3> QED
      BY <3>1, <3>2
  <2>3. 0 # n + 1 /\ 0 \in 0 .. n + 1
    BY <1>1
  <2> QED
    BY <1>1, <1>2, <2>1, <2>2, <2>3
<1> HIDE DEF d, M
<1>8. Ring(M, q, Append(s, e))
  BY <1>3, <1>5, <1>6, <1>7, RingFrom
<1> QED
  BY <1>3, <1>8 DEF M

\* A sequence without its entry m.
Without(s, m) == [i \in 1 .. Len(s) - 1 |-> IF i < m THEN s[i] ELSE s[i + 1]]

\* Its type, its length, and its entries.
Shortened(T, s, m, w) ==
  /\ w \in Seq(T) /\ Len(w) = Len(s) - 1
  /\ \A i \in 1 .. Len(s) - 1 : w[i] = IF i < m THEN s[i] ELSE s[i + 1]
  /\ (\A i, j \in 1 .. Len(s) : s[i] = s[j] => i = j) =>
       \A x : (\E i \in 1 .. Len(s) - 1 : w[i] = x) <=> x # s[m] /\ \E i \in 1 .. Len(s) : s[i] = x
LEMMA WithoutIs ==
  ASSUME NEW T, NEW s \in Seq(T), NEW m \in 1 .. Len(s)
  PROVE  Shortened(T, s, m, Without(s, m))
<1> DEFINE n == Len(s)
           w == Without(s, m)
<1>1. n \in Nat /\ n - 1 \in Nat /\ s \in [1 .. n -> T]
  OBVIOUS
<1> HIDE DEF n
<1>2. \A i \in 1 .. n - 1 : i \in 1 .. n /\ i + 1 \in 1 .. n
  BY <1>1
<1>3. w = [i \in 1 .. n - 1 |-> IF i < m THEN s[i] ELSE s[i + 1]]
  BY DEF Without, n
<1> HIDE DEF w
<1>4. w \in [1 .. n - 1 -> T] /\ \A i \in 1 .. n - 1 : w[i] = IF i < m THEN s[i] ELSE s[i + 1]
  BY <1>1, <1>2, <1>3
<1>5. w \in Seq(T) /\ Len(w) = n - 1
  BY <1>1, <1>4
<1>6. ASSUME \A i, j \in 1 .. n : s[i] = s[j] => i = j, NEW x
      PROVE  (\E i \in 1 .. n - 1 : w[i] = x) <=> x # s[m] /\ \E i \in 1 .. n : s[i] = x
  <2>0. m \in 1 .. n
    BY DEF n
  <2>1. ASSUME NEW i \in 1 .. n - 1, w[i] = x
        PROVE  x # s[m] /\ \E j \in 1 .. n : s[j] = x
    <3>1. CASE i < m
      <4>1. i # m /\ i \in 1 .. n
        BY <3>1, <1>2, <1>1, <2>0
      <4> QED
        BY <4>1, <3>1, <2>0, <2>1, <1>4, <1>6
    <3>2. CASE ~(i < m)
      <4>1. i + 1 # m /\ i + 1 \in 1 .. n
        BY <3>2, <1>2, <1>1, <2>0
      <4> QED
        BY <4>1, <3>2, <2>0, <2>1, <1>4, <1>6
    <3> QED
      BY <3>1, <3>2
  <2>2. ASSUME NEW i \in 1 .. n, s[i] = x, x # s[m]
        PROVE  \E j \in 1 .. n - 1 : w[j] = x
    <3>1. CASE i < m
      <4>1. i \in 1 .. n - 1
        BY <3>1, <1>1, <2>0
      <4> QED
        BY <4>1, <3>1, <2>2, <1>4
    <3>2. CASE i > m
      <4>1. i - 1 \in 1 .. n - 1 /\ ~(i - 1 < m) /\ (i - 1) + 1 = i
        BY <3>2, <1>1, <2>0
      <4> QED
        BY <4>1, <2>2, <1>4
    <3> QED
      BY <3>1, <3>2, <2>0, <2>2, <1>1
  <2> QED
    BY <2>1, <2>2
<1> QED
  BY <1>4, <1>5, <1>6 DEF n, w, Shortened

\* queue_remove_entry takes the entry out of the sequence and touches no
\* other list.
LEMMA RingRemove ==
  ASSUME NEW N, NEW L \in Memory(N), NEW q, NEW s \in Seq(N), Ring(L, q, s), NEW m \in 1 .. Len(s)
  PROVE  LET M == RemoveEntry(L, s[m])
         IN  /\ M \in Memory(N) /\ Ring(M, q, Without(s, m))
             /\ \A x \in N : x # q /\ (\A i \in 1 .. Len(s) : x # s[i]) => M[x] = L[x]
             /\ M[s[m]] = L[s[m]]
<1>r. RingIs(N, L, q, s)
  BY RingFacts
<1>0. /\ q \in N /\ RingOf(q, s) \in [0 .. Len(s) -> N] /\ Linked(L, RingOf(q, s), Len(s))
      /\ Len(s) \in Nat /\ \A i \in 1 .. Len(s) : s[i] \in N /\ s[i] # q
      /\ \A i, j \in 1 .. Len(s) : s[i] = s[j] => i = j
      /\ IsList(L, q, {s[i] : i \in 1 .. Len(s)})
  BY <1>r, Zenon DEF RingIs
<1> DEFINE n == Len(s)
           c == RingOf(q, s)
           M == RemoveEntry(L, s[m])
           S == {s[i] : i \in 1 .. n}
<1>1. c \in [0 .. n -> N] /\ Linked(L, c, n) /\ n \in Nat /\ IsList(L, q, S) /\ q \in N /\ m \in 1 .. n
  BY <1>0
<1>2. c[0] = q /\ \A i \in 1 .. n : c[i] = s[i]
  BY <1>1 DEF RingOf
<1>3. M \in Memory(N) /\ (\A x \in N \ (S \cup {q}) : M[x] = L[x]) /\ M[s[m]] = L[s[m]]
  <2>1. s[m] \in S
    OBVIOUS
  <2> HIDE DEF S
  <2>2. TakenOut(N, L, q, S, s[m])
    BY <1>1, <2>1, ListRemove
  <2> QED
    BY <2>2 DEF TakenOut
<1> DEFINE w == Without(s, m)
<1>4. /\ w \in Seq(N) /\ Len(w) = n - 1
      /\ \A i \in 1 .. n - 1 : w[i] = IF i < m THEN s[i] ELSE s[i + 1]
  <2>1. Shortened(N, s, m, Without(s, m))
    BY WithoutIs
  <2> QED
    BY <2>1, Zenon DEF Shortened
<1> HIDE DEF c, w
<1> DEFINE d == [i \in 0 .. n - 1 |-> IF i < m THEN c[i] ELSE c[i + 1]]
<1>5. Linked(M, d, n - 1)
  <2>1. M = RemoveEntry(L, c[m])
    BY <1>2
  <2> HIDE DEF n, M
  <2> QED
    BY <1>1, <2>1, LinkedRemove
<1>6. \A i \in 0 .. n - 1 : i \in 0 .. n /\ i + 1 \in 1 .. n /\ i + 1 \in 0 .. n /\ (i = 0 => i < m)
  BY <1>1
<1>7. d \in [0 .. n - 1 -> N] /\ d[0] = q /\ \A i \in 1 .. n - 1 : d[i] = w[i]
  <2>1. 0 \in 0 .. n - 1 /\ \A i \in 1 .. n - 1 : i \in 0 .. n - 1 /\ i \in 1 .. n
    BY <1>1
  <2> HIDE DEF n
  <2>2. d \in [0 .. n - 1 -> N]
    BY <1>1, <1>6
  <2> QED
    BY <2>1, <2>2, <1>2, <1>4, <1>6
<1> HIDE DEF d, M
<1>8. Ring(M, q, w)
  BY <1>3, <1>4, <1>5, <1>7, RingFrom
<1> QED
  BY <1>3, <1>8 DEF M, w

\* queue_remove_head removes the first entry.
LEMMA RemoveHeadIs ==
  ASSUME NEW N, NEW L \in Memory(N), NEW q \in N, L[L[q].next].prev = q, L[q].next # q
  PROVE  RemoveHead(L, q) = RemoveEntry(L, L[q].next)
  BY ZenonT(60) DEF RemoveEntry, RemoveHead, Memory

\* The head of a ring points to the first of the sequence.
LEMMA RingHead ==
  ASSUME NEW N, NEW L \in Memory(N), NEW q, NEW s \in Seq(N), Ring(L, q, s)
  PROVE  /\ IsEmpty(L, q) <=> s = <<>>
         /\ L[q].next = q <=> s = <<>>
         /\ s # <<>> => /\ 1 \in 1 .. Len(s) /\ L[q].next = s[1] /\ L[s[1]].prev = q
                        /\ RemoveHead(L, q) = RemoveEntry(L, s[1])
<1>r. RingIs(N, L, q, s)
  BY RingFacts
<1>0. /\ q \in N /\ RingOf(q, s) \in [0 .. Len(s) -> N] /\ Linked(L, RingOf(q, s), Len(s))
      /\ Len(s) \in Nat /\ \A i \in 1 .. Len(s) : s[i] \in N /\ s[i] # q
      /\ \A i, j \in 1 .. Len(s) : s[i] = s[j] => i = j
      /\ IsList(L, q, {s[i] : i \in 1 .. Len(s)})
  BY <1>r, Zenon DEF RingIs
<1> DEFINE n == Len(s)
           c == RingOf(q, s)
<1>1. c \in [0 .. n -> N] /\ Linked(L, c, n) /\ n \in Nat /\ q \in N
  BY <1>0
<1>2. c[0] = q /\ \A i \in 1 .. n : c[i] = s[i]
  BY <1>1 DEF RingOf
<1>3. \A i \in 1 .. n : s[i] \in N /\ s[i] # q
  BY <1>0
<1>4. s = <<>> <=> n = 0
  OBVIOUS
<1> HIDE DEF c, n
<1>5. CASE n = 0
  BY <1>1, <1>2, <1>4, <1>5 DEF Linked, IsEmpty
<1>6. CASE n # 0
  <2>1. 0 \in 0 .. n - 1 /\ 1 \in 1 .. n /\ 0 + 1 = 1
    BY <1>1, <1>6
  <2>2. L[c[0]].next = c[0 + 1] /\ L[c[0 + 1]].prev = c[0]
    BY <1>1, <2>1 DEF Linked
  <2>3. L[q].next = s[1] /\ L[s[1]].prev = q
    BY <2>1, <2>2, <1>2
  <2>4. s[1] # q
    BY <2>1, <1>3
  <2>5. RemoveHead(L, q) = RemoveEntry(L, s[1])
    BY <2>3, <2>4, <1>1, RemoveHeadIs
  <2> QED
    BY <2>1, <2>3, <2>4, <2>5, <1>4, <1>6 DEF IsEmpty, n
<1> QED
  BY <1>5, <1>6

\* An image of a finite set is finite.
LEMMA FiniteImage ==
  ASSUME NEW S, IsFiniteSet(S), NEW T, NEW f, T = {f[x] : x \in S}
  PROVE  IsFiniteSet(T)
<1> DEFINE g == [x \in S |-> f[x]]
<1>1. g \in Surjection(S, T)
  <2>1. g \in [S -> T]
    OBVIOUS
  <2>2. \A y \in T : \E x \in S : g[x] = y
    OBVIOUS
  <2> QED
    BY <2>1, <2>2 DEF Surjection
<1> HIDE DEF g
<1> QED
  BY <1>1, FS_Surjection

\* The kernel has finitely many list nodes.
LEMMA NodeFinite == IsFiniteSet(Node)
<1>1. IsFiniteSet(Task) /\ IsFiniteSet(WaitQ) /\ NumPrio \in Nat /\ Mutex \subseteq WaitQ
  BY CoreAssumption
<1>2. IsFiniteSet(Prio) /\ IsFiniteSet(Mutex)
  BY <1>1, FS_Interval, FS_Subset DEF Prio
<1>3. IsFiniteSet({Ready(x) : x \in Prio})
  <2> DEFINE f == [x \in Prio |-> Ready(x)]
             T == {Ready(x) : x \in Prio}
  <2>1. T = {f[x] : x \in Prio}
    OBVIOUS
  <2> HIDE DEF f, T
  <2>2. IsFiniteSet(T)
    BY <1>2, <2>1, FiniteImage
  <2> QED
    BY <2>2 DEF T
<1>4. IsFiniteSet({Wait(x) : x \in WaitQ})
  <2> DEFINE f == [x \in WaitQ |-> Wait(x)]
             T == {Wait(x) : x \in WaitQ}
  <2>1. T = {f[x] : x \in WaitQ}
    OBVIOUS
  <2> HIDE DEF f, T
  <2>2. IsFiniteSet(T)
    BY <1>1, <2>1, FiniteImage
  <2> QED
    BY <2>2 DEF T
<1>5. IsFiniteSet({Held(x) : x \in Task})
  <2> DEFINE f == [x \in Task |-> Held(x)]
             T == {Held(x) : x \in Task}
  <2>1. T = {f[x] : x \in Task}
    OBVIOUS
  <2> HIDE DEF f, T
  <2>2. IsFiniteSet(T)
    BY <1>1, <2>1, FiniteImage
  <2> QED
    BY <2>2 DEF T
<1>6. IsFiniteSet({Tq(x) : x \in Task})
  <2> DEFINE f == [x \in Task |-> Tq(x)]
             T == {Tq(x) : x \in Task}
  <2>1. T = {f[x] : x \in Task}
    OBVIOUS
  <2> HIDE DEF f, T
  <2>2. IsFiniteSet(T)
    BY <1>1, <2>1, FiniteImage
  <2> QED
    BY <2>2 DEF T
<1>7. IsFiniteSet({Tm(x) : x \in Task})
  <2> DEFINE f == [x \in Task |-> Tm(x)]
             T == {Tm(x) : x \in Task}
  <2>1. T = {f[x] : x \in Task}
    OBVIOUS
  <2> HIDE DEF f, T
  <2>2. IsFiniteSet(T)
    BY <1>1, <2>1, FiniteImage
  <2> QED
    BY <2>2 DEF T
<1>8. IsFiniteSet({Bq(x) : x \in Task})
  <2> DEFINE f == [x \in Task |-> Bq(x)]
             T == {Bq(x) : x \in Task}
  <2>1. T = {f[x] : x \in Task}
    OBVIOUS
  <2> HIDE DEF f, T
  <2>2. IsFiniteSet(T)
    BY <1>1, <2>1, FiniteImage
  <2> QED
    BY <2>2 DEF T
<1>9. IsFiniteSet({Mq(x) : x \in Mutex})
  <2> DEFINE f == [x \in Mutex |-> Mq(x)]
             T == {Mq(x) : x \in Mutex}
  <2>1. T = {f[x] : x \in Mutex}
    OBVIOUS
  <2> HIDE DEF f, T
  <2>2. IsFiniteSet(T)
    BY <1>2, <2>1, FiniteImage
  <2> QED
    BY <2>2 DEF T
<1>10. IsFiniteSet({Lq(x) : x \in Mutex})
  <2> DEFINE f == [x \in Mutex |-> Lq(x)]
             T == {Lq(x) : x \in Mutex}
  <2>1. T = {f[x] : x \in Mutex}
    OBVIOUS
  <2> HIDE DEF f, T
  <2>2. IsFiniteSet(T)
    BY <1>2, <2>1, FiniteImage
  <2> QED
    BY <2>2 DEF T
<1>11. IsFiniteSet({}) /\ IsFiniteSet({TimeoutList}) /\ IsFiniteSet({Locked, Blocked})
  <2>1. IsFiniteSet({Locked} \cup {Blocked})
    BY FS_Singleton, FS_Union
  <2>2. {Locked} \cup {Blocked} = {Locked, Blocked}
    OBVIOUS
  <2> QED
    BY <2>1, <2>2, FS_EmptySet, FS_Singleton
<1> HIDE DEF Ready, Wait, Held, Tq, Tm, Bq, Mq, Lq, TimeoutList, Locked, Blocked
<1>12. IsFiniteSet(Heads)
  <2>1. IsFiniteSet({Locked, Blocked} \cup {Held(t) : t \in Task})
    BY <1>5, <1>11, FS_Union
  <2>2. IsFiniteSet(IF Mutex = {} THEN {} ELSE {Locked, Blocked} \cup {Held(t) : t \in Task})
    BY <2>1, <1>11
  <2>3. IsFiniteSet({Ready(p) : p \in Prio} \cup {TimeoutList})
    BY <1>3, <1>11, FS_Union
  <2>4. IsFiniteSet({Ready(p) : p \in Prio} \cup {TimeoutList} \cup {Wait(q) : q \in WaitQ})
    BY <1>4, <2>3, FS_Union
  <2> QED
    BY <2>2, <2>4, FS_Union DEF Heads
<1>13. IsFiniteSet({Bq(t) : t \in Task} \cup {Mq(m) : m \in Mutex})
  BY <1>8, <1>9, FS_Union
<1>14. IsFiniteSet({Bq(t) : t \in Task} \cup {Mq(m) : m \in Mutex} \cup {Lq(m) : m \in Mutex})
  BY <1>10, <1>13, FS_Union
<1>15. IsFiniteSet(IF Mutex = {} THEN {} ELSE {Bq(t) : t \in Task}
          \cup {Mq(m) : m \in Mutex} \cup {Lq(m) : m \in Mutex})
  BY <1>11, <1>14
<1>16. IsFiniteSet(Heads \cup {Tq(t) : t \in Task})
  BY <1>6, <1>12, FS_Union
<1>17. IsFiniteSet(Heads \cup {Tq(t) : t \in Task} \cup {Tm(t) : t \in Task})
  BY <1>7, <1>16, FS_Union
<1> QED
  BY <1>15, <1>17, FS_Union DEF Node

-----------------------------------------------------------------------------
(* The lists of the kernel: the ready list of each priority holds the ready *)
(* tasks R of that priority by f, the timeout list the tasks W, and the    *)
(* wait queue q of an object the tasks wq[q] in this order.  A task has one *)
(* task_queue: it is in at most one of these lists by it.                  *)

At(R, f, p) == {Tq(u) : u \in {v \in R : f[v] = p}}
Tqs(s) == [i \in 1 .. Len(s) |-> Tq(s[i])]
Queued(wq) == {t \in Task : \E q \in WaitQ : \E i \in 1 .. Len(wq[q]) : wq[q][i] = t}
WaitLists(L, wq) ==
  /\ wq \in [WaitQ -> Seq(Task)]
  /\ \A q \in WaitQ : Ring(L, Wait(q), Tqs(wq[q]))
  /\ \A q, r \in WaitQ : \A i \in 1 .. Len(wq[q]) : \A j \in 1 .. Len(wq[r]) :
       wq[q][i] = wq[r][j] => q = r
Listed(L, f, R, W, wq) ==
  /\ WaitLists(L, wq) /\ R \cap Queued(wq) = {}
  /\ L \in Memory(Node) /\ R \subseteq Task /\ W \subseteq Task
  /\ \A p \in Prio : IsList(L, Ready(p), At(R, f, p))
  /\ IsList(L, TimeoutList, {Tm(u) : u \in W})

\* The nodes are nodes, and different ones.
LEMMA NodeFacts ==
  /\ \A p \in Prio : Ready(p) \in Node
  /\ TimeoutList \in Node
  /\ \A t \in Task : Tq(t) \in Node /\ Tm(t) \in Node
  /\ \A q \in WaitQ : Wait(q) \in Node
  /\ \A t, u : Tq(t) # Tm(u) /\ Tq(t) # Ready(u) /\ Tm(t) # Ready(u) /\ Ready(t) # TimeoutList
               /\ Tq(t) # TimeoutList /\ Tm(t) # TimeoutList
               /\ Wait(t) # Ready(u) /\ Wait(t) # Tq(u) /\ Wait(t) # Tm(u) /\ Wait(t) # TimeoutList
  /\ \A t, u : Tq(t) = Tq(u) => t = u
  /\ \A t, u : Tm(t) = Tm(u) => t = u
  /\ \A t, u : Ready(t) = Ready(u) => t = u
  /\ \A t, u : Wait(t) = Wait(u) => t = u
  /\ \A t : TaskOf(Tq(t)) = t /\ Tm(t)[2] = t
<1>1. /\ \A p \in Prio : Ready(p) \in Node
      /\ TimeoutList \in Node
      /\ \A t \in Task : Tq(t) \in Node /\ Tm(t) \in Node
      /\ \A q \in WaitQ : Wait(q) \in Node
  BY Zenon DEF Node, Heads
<1>2. /\ \A t, u : Tq(t) # Tm(u) /\ Tq(t) # Ready(u) /\ Tm(t) # Ready(u) /\ Ready(t) # TimeoutList
               /\ Tq(t) # TimeoutList /\ Tm(t) # TimeoutList
               /\ Wait(t) # Ready(u) /\ Wait(t) # Tq(u) /\ Wait(t) # Tm(u) /\ Wait(t) # TimeoutList
      /\ \A t, u : Tq(t) = Tq(u) => t = u
      /\ \A t, u : Tm(t) = Tm(u) => t = u
      /\ \A t, u : Ready(t) = Ready(u) => t = u
      /\ \A t, u : Wait(t) = Wait(u) => t = u
      /\ \A t : TaskOf(Tq(t)) = t /\ Tm(t)[2] = t
  BY DEF Tq, Tm, Ready, TimeoutList, Wait, TaskOf
<1> QED
  BY <1>1, <1>2

\* The sequence of the TCBs' task_queues.
LEMMA TqsIs ==
  ASSUME NEW s \in Seq(Task)
  PROVE  Tqs(s) \in Seq(Node) /\ Len(Tqs(s)) = Len(s) /\ \A i \in 1 .. Len(s) : Tqs(s)[i] = Tq(s[i])
<1> DEFINE n == Len(s)
<1>1. n \in Nat /\ \A i \in 1 .. n : Tq(s[i]) \in Node
  BY NodeFacts
<1>2. Tqs(s) = [i \in 1 .. n |-> Tq(s[i])]
  BY DEF Tqs
<1> HIDE DEF n
<1>3. Tqs(s) \in [1 .. n -> Node] /\ \A i \in 1 .. n : Tqs(s)[i] = Tq(s[i])
  BY <1>1, <1>2
<1>4. Tqs(s) \in Seq(Node) /\ Len(Tqs(s)) = n
  BY <1>1, <1>3
<1> QED
  BY <1>3, <1>4 DEF n

\* The wait queues depend on their heads and on the tasks in them.
LEMMA WaitFrame ==
  ASSUME NEW L \in Memory(Node), NEW M \in Memory(Node), NEW wq, WaitLists(L, wq),
         \A q \in WaitQ : M[Wait(q)] = L[Wait(q)], \A u \in Queued(wq) : M[Tq(u)] = L[Tq(u)]
  PROVE  WaitLists(M, wq)
<1>1. ASSUME NEW q \in WaitQ PROVE Ring(M, Wait(q), Tqs(wq[q]))
  <2> DEFINE s == wq[q]
  <2>1. s \in Seq(Task) /\ Ring(L, Wait(q), Tqs(s))
    BY DEF WaitLists
  <2>2. Tqs(s) \in Seq(Node) /\ Len(Tqs(s)) = Len(s) /\ \A i \in 1 .. Len(s) : Tqs(s)[i] = Tq(s[i])
    BY <2>1, TqsIs
  <2>3. \A i \in 1 .. Len(s) : s[i] \in Queued(wq)
    BY <2>1 DEF Queued
  <2> DEFINE z == Tqs(s)
             h == Wait(q)
  <2>4. \A i \in 1 .. Len(z) : M[z[i]] = L[z[i]]
    BY <2>2, <2>3
  <2>5. z \in Seq(Node) /\ Ring(L, h, z) /\ M[h] = L[h]
    BY <2>1, <2>2
  <2> HIDE DEF z, h
  <2>6. Ring(M, h, z)
    BY <2>4, <2>5, RingFrame
  <2> QED
    BY <2>6 DEF z, h
<1> QED
  BY <1>1 DEF WaitLists

\* A task added to the tail of its priority's list.
LEMMA ReadyAdd ==
  ASSUME NEW L, NEW f, NEW R, NEW W, NEW wq, Listed(L, f, R, W, wq),
         NEW t \in Task, t \notin R, t \notin Queued(wq), f[t] \in Prio
  PROVE  LET M == AddTail(L, Ready(f[t]), Tq(t))
         IN  /\ Listed(M, f, R \cup {t}, W, wq)
             /\ M[Ready(f[t])].next = IF \E u \in R : f[u] = f[t] THEN L[Ready(f[t])].next ELSE Tq(t)
             /\ \A r \in Prio : r # f[t] => M[Ready(r)] = L[Ready(r)]
<1> DEFINE p == f[t]
           M == AddTail(L, Ready(p), Tq(t))
           S == At(R, f, p)
<1>0. L \in Memory(Node) /\ R \subseteq Task /\ W \subseteq Task /\ IsList(L, Ready(p), S)
  BY DEF Listed
<1>1. Tq(t) \in Node /\ Tq(t) # Ready(p) /\ Tq(t) \notin S /\ Ready(p) \in Node
  BY NodeFacts DEF At
<1>2. /\ M \in Memory(Node) /\ IsList(M, Ready(p), S \cup {Tq(t)})
      /\ M[Ready(p)].next = IF S = {} THEN Tq(t) ELSE L[Ready(p)].next
      /\ \A x \in Node \ (S \cup {Ready(p), Tq(t)}) : M[x] = L[x]
  <2> DEFINE q == Ready(p)
             e == Tq(t)
  <2>1. IsList(L, q, S) /\ L \in Memory(Node) /\ e \in Node /\ e # q /\ e \notin S
    BY <1>0, <1>1
  <2> HIDE DEF S, p, q, e
  <2>2. LET A == AddTail(L, q, e)
        IN  /\ A \in Memory(Node) /\ IsList(A, q, S \cup {e})
            /\ A[q].next = IF S = {} THEN e ELSE L[q].next
            /\ \A x \in Node \ (S \cup {q, e}) : A[x] = L[x]
    BY <2>1, ListAddTail
  <2> QED
    BY <2>2 DEF q, e
<1>3. S = {} <=> ~\E u \in R : f[u] = p
  BY DEF At
<1> HIDE DEF M
<1>4. At(R \cup {t}, f, p) = S \cup {Tq(t)}
  BY DEF At
<1>5. ASSUME NEW r \in Prio, r # p
      PROVE  IsList(M, Ready(r), At(R \cup {t}, f, r)) /\ M[Ready(r)] = L[Ready(r)]
  <2>1. At(R \cup {t}, f, r) = At(R, f, r)
    BY <1>5 DEF At
  <2>2. At(R, f, r) \subseteq Node /\ Ready(r) \in Node
    BY <1>0, NodeFacts DEF At
  <2>3. \A x \in At(R, f, r) \cup {Ready(r)} : x \notin S /\ x # Ready(p) /\ x # Tq(t)
    BY <1>5, NodeFacts DEF At
  <2>4. \A x \in At(R, f, r) \cup {Ready(r)} : M[x] = L[x]
    BY <2>2, <2>3, <1>2
  <2>5. IsList(L, Ready(r), At(R, f, r))
    BY DEF Listed
  <2> QED
    BY <2>1, <2>4, <2>5, <1>0, <1>2, ListFrame
<1>6. IsList(M, TimeoutList, {Tm(u) : u \in W})
  <2>1. \A x \in {Tm(u) : u \in W} \cup {TimeoutList} :
            x \in Node /\ x \notin S /\ x # Ready(p) /\ x # Tq(t)
    <3>1. \A u \in W : Tm(u) \in Node /\ Tm(u) \notin S /\ Tm(u) # Ready(p) /\ Tm(u) # Tq(t)
      BY <1>0, NodeFacts DEF At
    <3>2. TimeoutList \in Node /\ TimeoutList \notin S /\ TimeoutList # Ready(p) /\ TimeoutList # Tq(t)
      BY <1>0, NodeFacts DEF At
    <3> QED
      BY <3>1, <3>2
  <2>2. \A x \in {Tm(u) : u \in W} \cup {TimeoutList} : M[x] = L[x]
    BY <2>1, <1>2
  <2>3. IsList(L, TimeoutList, {Tm(u) : u \in W})
    BY DEF Listed
  <2> QED
    BY <2>2, <2>3, <1>0, <1>2, ListFrame
<1>w. WaitLists(M, wq)
  <2>1. ASSUME NEW q \in WaitQ PROVE M[Wait(q)] = L[Wait(q)]
    <3>1. Wait(q) \in Node /\ Wait(q) \notin S /\ Wait(q) # Ready(p) /\ Wait(q) # Tq(t)
      BY NodeFacts DEF At
    <3> QED
      BY <3>1, <1>2
  <2>2. ASSUME NEW u \in Queued(wq) PROVE M[Tq(u)] = L[Tq(u)]
    <3>1. u \in Task /\ u \notin R
      BY DEF Listed, Queued
    <3>2. Tq(u) \in Node /\ Tq(u) \notin S /\ Tq(u) # Ready(p) /\ Tq(u) # Tq(t)
      BY <3>1, NodeFacts DEF At
    <3> QED
      BY <3>2, <1>2
  <2>3. WaitLists(L, wq)
    BY DEF Listed
  <2> QED
    BY <2>1, <2>2, <2>3, <1>0, <1>2, WaitFrame
<1>d. (R \cup {t}) \cap Queued(wq) = {}
  BY DEF Listed
<1>7. Listed(M, f, R \cup {t}, W, wq)
  BY <1>0, <1>2, <1>4, <1>5, <1>6, <1>w, <1>d DEF Listed
<1> QED
  BY <1>2, <1>3, <1>5, <1>7 DEF M

\* A task taken out of the list it is ready in.
LEMMA ReadyRemove ==
  ASSUME NEW L, NEW f, NEW R, NEW W, NEW wq, Listed(L, f, R, W, wq), NEW t \in R, f[t] \in Prio
  PROVE  LET M == RemoveEntry(L, Tq(t))
         IN  /\ Listed(M, f, R \ {t}, W, wq)
             /\ L[Ready(f[t])].next # Tq(t) => M[Ready(f[t])].next = L[Ready(f[t])].next
             /\ \A r \in Prio : r # f[t] => M[Ready(r)] = L[Ready(r)]
<1> DEFINE p == f[t]
           M == RemoveEntry(L, Tq(t))
           S == At(R, f, p)
<1>0. L \in Memory(Node) /\ R \subseteq Task /\ W \subseteq Task /\ IsList(L, Ready(p), S)
  BY DEF Listed
<1>1. Tq(t) \in S
  BY DEF At
<1>2. /\ M \in Memory(Node) /\ IsList(M, Ready(p), S \ {Tq(t)})
      /\ L[Ready(p)].next # Tq(t) => M[Ready(p)].next = L[Ready(p)].next
      /\ \A x \in Node \ (S \cup {Ready(p)}) : M[x] = L[x]
  <2> HIDE DEF M, S, p
  <2>1. TakenOut(Node, L, Ready(p), S, Tq(t))
    BY <1>0, <1>1, ListRemove
  <2> QED
    BY <2>1 DEF TakenOut, M
<1> HIDE DEF M
<1>4. At(R \ {t}, f, p) = S \ {Tq(t)}
  BY NodeFacts DEF At
<1>5. ASSUME NEW r \in Prio, r # p
      PROVE  IsList(M, Ready(r), At(R \ {t}, f, r)) /\ M[Ready(r)] = L[Ready(r)]
  <2>1. At(R \ {t}, f, r) = At(R, f, r)
    BY <1>5 DEF At
  <2>2. At(R, f, r) \subseteq Node /\ Ready(r) \in Node
    BY <1>0, NodeFacts DEF At
  <2>3. \A x \in At(R, f, r) \cup {Ready(r)} : x \notin S /\ x # Ready(p)
    BY <1>5, NodeFacts DEF At
  <2>4. \A x \in At(R, f, r) \cup {Ready(r)} : M[x] = L[x]
    BY <2>2, <2>3, <1>2
  <2>5. IsList(L, Ready(r), At(R, f, r))
    BY DEF Listed
  <2> QED
    BY <2>1, <2>4, <2>5, <1>0, <1>2, ListFrame
<1>6. IsList(M, TimeoutList, {Tm(u) : u \in W})
  <2>1. \A x \in {Tm(u) : u \in W} \cup {TimeoutList} :
            x \in Node /\ x \notin S /\ x # Ready(p)
    BY <1>0, NodeFacts DEF At
  <2>2. \A x \in {Tm(u) : u \in W} \cup {TimeoutList} : M[x] = L[x]
    BY <2>1, <1>2
  <2>3. IsList(L, TimeoutList, {Tm(u) : u \in W})
    BY DEF Listed
  <2> QED
    BY <2>2, <2>3, <1>0, <1>2, ListFrame
<1>w. WaitLists(M, wq)
  <2>1. ASSUME NEW q \in WaitQ PROVE M[Wait(q)] = L[Wait(q)]
    <3>1. Wait(q) \in Node /\ Wait(q) \notin S /\ Wait(q) # Ready(p)
      BY NodeFacts DEF At
    <3> QED
      BY <3>1, <1>2
  <2>2. ASSUME NEW u \in Queued(wq) PROVE M[Tq(u)] = L[Tq(u)]
    <3>1. u \in Task /\ u \notin R
      BY DEF Listed, Queued
    <3>2. Tq(u) \in Node /\ Tq(u) \notin S /\ Tq(u) # Ready(p)
      BY <3>1, NodeFacts DEF At
    <3> QED
      BY <3>2, <1>2
  <2>3. WaitLists(L, wq)
    BY DEF Listed
  <2> QED
    BY <2>1, <2>2, <2>3, <1>0, <1>2, WaitFrame
<1>d. (R \ {t}) \cap Queued(wq) = {}
  BY DEF Listed
<1>7. Listed(M, f, R \ {t}, W, wq)
  BY <1>0, <1>2, <1>4, <1>5, <1>6, <1>w, <1>d DEF Listed
<1> QED
  BY <1>2, <1>5, <1>7 DEF M

\* A task added to the timeout list.
LEMMA TimedAdd ==
  ASSUME NEW L, NEW f, NEW R, NEW W, NEW wq, Listed(L, f, R, W, wq), NEW t \in Task, t \notin W
  PROVE  LET M == AddTail(L, TimeoutList, Tm(t))
         IN  /\ Listed(M, f, R, W \cup {t}, wq)
             /\ \A r \in Prio : M[Ready(r)] = L[Ready(r)]
<1> DEFINE M == AddTail(L, TimeoutList, Tm(t))
           S == {Tm(u) : u \in W}
<1>0. L \in Memory(Node) /\ R \subseteq Task /\ W \subseteq Task /\ IsList(L, TimeoutList, S)
  BY DEF Listed
<1>1. Tm(t) \in Node /\ Tm(t) # TimeoutList /\ Tm(t) \notin S
  BY NodeFacts
<1>2. /\ M \in Memory(Node) /\ IsList(M, TimeoutList, S \cup {Tm(t)})
      /\ \A x \in Node \ (S \cup {TimeoutList, Tm(t)}) : M[x] = L[x]
  <2> HIDE DEF M, S
  <2> DEFINE q == TimeoutList
             e == Tm(t)
  <2>1. IsList(L, q, S) /\ L \in Memory(Node) /\ e \in Node /\ e # q /\ e \notin S
    BY <1>0, <1>1
  <2> HIDE DEF q, e
  <2>2. LET A == AddTail(L, q, e)
        IN  /\ A \in Memory(Node) /\ IsList(A, q, S \cup {e})
            /\ \A x \in Node \ (S \cup {q, e}) : A[x] = L[x]
    BY <2>1, ListAddTail
  <2> QED
    BY <2>2 DEF q, e, M
<1> HIDE DEF M
<1>3. {Tm(u) : u \in W \cup {t}} = S \cup {Tm(t)}
  OBVIOUS
<1>4. ASSUME NEW r \in Prio
      PROVE  IsList(M, Ready(r), At(R, f, r)) /\ M[Ready(r)] = L[Ready(r)]
  <2>1. \A x \in At(R, f, r) \cup {Ready(r)} :
          x \in Node /\ x \notin S /\ x # TimeoutList /\ x # Tm(t)
    BY <1>0, NodeFacts DEF At
  <2>2. \A x \in At(R, f, r) \cup {Ready(r)} : M[x] = L[x]
    BY <2>1, <1>2
  <2>3. IsList(L, Ready(r), At(R, f, r))
    BY DEF Listed
  <2> QED
    BY <2>2, <2>3, <1>0, <1>2, ListFrame
<1>w. WaitLists(M, wq)
  <2>1. ASSUME NEW q \in WaitQ PROVE M[Wait(q)] = L[Wait(q)]
    <3>1. Wait(q) \in Node /\ Wait(q) \notin S /\ Wait(q) # TimeoutList /\ Wait(q) # Tm(t)
      BY NodeFacts
    <3> QED
      BY <3>1, <1>2
  <2>2. ASSUME NEW u \in Queued(wq) PROVE M[Tq(u)] = L[Tq(u)]
    <3>1. u \in Task /\ u \notin R
      BY DEF Listed, Queued
    <3>2. Tq(u) \in Node /\ Tq(u) \notin S /\ Tq(u) # TimeoutList /\ Tq(u) # Tm(t)
      BY <3>1, NodeFacts
    <3> QED
      BY <3>2, <1>2
  <2>3. WaitLists(L, wq)
    BY DEF Listed
  <2> QED
    BY <2>1, <2>2, <2>3, <1>0, <1>2, WaitFrame
<1>5. Listed(M, f, R, W \cup {t}, wq)
  BY <1>0, <1>2, <1>3, <1>4, <1>w DEF Listed
<1> QED
  BY <1>4, <1>5 DEF M

\* A task taken out of the timeout list.
LEMMA TimedRemove ==
  ASSUME NEW L, NEW f, NEW R, NEW W, NEW wq, Listed(L, f, R, W, wq), NEW t \in W
  PROVE  LET M == RemoveEntry(L, Tm(t))
         IN  /\ Listed(M, f, R, W \ {t}, wq)
             /\ \A r \in Prio : M[Ready(r)] = L[Ready(r)]
<1> DEFINE M == RemoveEntry(L, Tm(t))
           S == {Tm(u) : u \in W}
<1>0. L \in Memory(Node) /\ R \subseteq Task /\ W \subseteq Task /\ IsList(L, TimeoutList, S)
  BY DEF Listed
<1>1. Tm(t) \in S
  OBVIOUS
<1>2. /\ M \in Memory(Node) /\ IsList(M, TimeoutList, S \ {Tm(t)})
      /\ \A x \in Node \ (S \cup {TimeoutList}) : M[x] = L[x]
  <2> HIDE DEF M, S
  <2>1. TakenOut(Node, L, TimeoutList, S, Tm(t))
    BY <1>0, <1>1, ListRemove
  <2> QED
    BY <2>1 DEF TakenOut, M
<1> HIDE DEF M
<1>3. {Tm(u) : u \in W \ {t}} = S \ {Tm(t)}
  BY NodeFacts
<1>4. ASSUME NEW r \in Prio
      PROVE  IsList(M, Ready(r), At(R, f, r)) /\ M[Ready(r)] = L[Ready(r)]
  <2>1. \A x \in At(R, f, r) \cup {Ready(r)} :
          x \in Node /\ x \notin S /\ x # TimeoutList
    BY <1>0, NodeFacts DEF At
  <2>2. \A x \in At(R, f, r) \cup {Ready(r)} : M[x] = L[x]
    BY <2>1, <1>2
  <2>3. IsList(L, Ready(r), At(R, f, r))
    BY DEF Listed
  <2> QED
    BY <2>2, <2>3, <1>0, <1>2, ListFrame
<1>w. WaitLists(M, wq)
  <2>1. ASSUME NEW q \in WaitQ PROVE M[Wait(q)] = L[Wait(q)]
    <3>1. Wait(q) \in Node /\ Wait(q) \notin S /\ Wait(q) # TimeoutList
      BY NodeFacts
    <3> QED
      BY <3>1, <1>2
  <2>2. ASSUME NEW u \in Queued(wq) PROVE M[Tq(u)] = L[Tq(u)]
    <3>1. u \in Task /\ u \notin R
      BY DEF Listed, Queued
    <3>2. Tq(u) \in Node /\ Tq(u) \notin S /\ Tq(u) # TimeoutList
      BY <3>1, NodeFacts
    <3> QED
      BY <3>2, <1>2
  <2>3. WaitLists(L, wq)
    BY DEF Listed
  <2> QED
    BY <2>1, <2>2, <2>3, <1>0, <1>2, WaitFrame
<1>5. Listed(M, f, R, W \ {t}, wq)
  BY <1>0, <1>2, <1>3, <1>4, <1>w DEF Listed
<1> QED
  BY <1>4, <1>5 DEF M

\* The lists depend on the priorities of ready tasks only.
LEMMA ListedSame ==
  ASSUME NEW L, NEW f, NEW g, NEW R, NEW W, NEW wq, Listed(L, f, R, W, wq), \A u \in R : g[u] = f[u]
  PROVE  Listed(L, g, R, W, wq)
<1>1. \A p \in Prio : At(R, g, p) = At(R, f, p)
  BY DEF At
<1> QED
  BY <1>1 DEF Listed

\* The first entry of a ready list is a ready task of that priority.
LEMMA HeadOf ==
  ASSUME NEW L, NEW f, NEW R, NEW W, NEW wq, Listed(L, f, R, W, wq), NEW p \in Prio
  PROVE  /\ IsEmpty(L, Ready(p)) <=> ~\E u \in R : f[u] = p
         /\ L[Ready(p)].next = Ready(p) <=> ~\E u \in R : f[u] = p
         /\ ~IsEmpty(L, Ready(p)) =>
              \E u \in R : f[u] = p /\ L[Ready(p)].next = Tq(u)
<1>1. IsList(L, Ready(p), At(R, f, p)) /\ L \in Memory(Node)
  BY DEF Listed
<1>2. /\ L[Ready(p)].next = Ready(p) <=> At(R, f, p) = {}
      /\ L[Ready(p)].prev = Ready(p) <=> At(R, f, p) = {}
      /\ At(R, f, p) # {} => L[Ready(p)].next \in At(R, f, p)
  BY <1>1, ListFacts
<1>3. At(R, f, p) = {} <=> ~\E u \in R : f[u] = p
  BY DEF At
<1>4. At(R, f, p) # {} => \E u \in R : f[u] = p /\ L[Ready(p)].next = Tq(u)
  BY <1>2 DEF At
<1> QED
  BY <1>2, <1>3, <1>4 DEF IsEmpty

\* Round robin moves the last entry to the head: the list keeps its tasks.
LEMMA Rotated ==
  ASSUME NEW L, NEW f, NEW R, NEW W, NEW wq, Listed(L, f, R, W, wq), NEW p \in Prio, ~IsEmpty(L, Ready(p))
  PROVE  Listed(AddHead(RemoveTail(L, Ready(p)), Ready(p), L[Ready(p)].prev), f, R, W, wq)
<1> DEFINE q == Ready(p)
           S == At(R, f, p)
           e == L[q].prev
           M1 == RemoveTail(L, q)
           M == AddHead(M1, q, e)
<1>0. L \in Memory(Node) /\ R \subseteq Task /\ W \subseteq Task /\ IsList(L, q, S) /\ q \in Node
  BY NodeFacts DEF Listed
<1>1. S # {}
  BY HeadOf DEF At
<1> HIDE DEF S
<1>2. e \in S /\ e \in Node /\ e # q /\ L[e].next = q
  BY <1>0, <1>1, ListFacts
<1>3. M1 = RemoveEntry(L, e)
  BY <1>0, <1>2, RemoveTailIs
<1>4. /\ M1 \in Memory(Node) /\ IsList(M1, q, S \ {e})
      /\ \A x \in Node \ (S \cup {q}) : M1[x] = L[x]
  <2> HIDE DEF M1, e, q
  <2>1. TakenOut(Node, L, q, S, e)
    BY <1>0, <1>2, ListRemove
  <2> QED
    BY <2>1, <1>3 DEF TakenOut
<1>5. /\ M \in Memory(Node) /\ IsList(M, q, (S \ {e}) \cup {e})
      /\ \A x \in Node \ ((S \ {e}) \cup {q, e}) : M[x] = M1[x]
  <2>1. e \notin S \ {e}
    OBVIOUS
  <2> DEFINE S1 == S \ {e}
  <2> HIDE DEF M1, e, q, S1
  <2>2. IsList(M1, q, S1) /\ e \notin S1
    BY <1>4, <2>1 DEF S1
  <2>3. LET A == AddHead(M1, q, e)
        IN  /\ A \in Memory(Node) /\ IsList(A, q, S1 \cup {e})
            /\ \A x \in Node \ (S1 \cup {q, e}) : A[x] = M1[x]
    BY <2>2, <1>2, <1>4, ListAddHead
  <2> QED
    BY <2>3 DEF S1
<1>6. (S \ {e}) \cup {e} = S
  BY <1>2
<1> HIDE DEF M, M1, e
<1>7. \A x \in Node : x \notin S /\ x # q => M[x] = L[x]
  BY <1>2, <1>4, <1>5
<1>8. ASSUME NEW r \in Prio, r # p
      PROVE  IsList(M, Ready(r), At(R, f, r))
  <2>1. \A x \in At(R, f, r) \cup {Ready(r)} : x \in Node /\ x \notin S /\ x # q
    BY <1>0, <1>8, NodeFacts DEF At, S
  <2>2. \A x \in At(R, f, r) \cup {Ready(r)} : M[x] = L[x]
    BY <2>1, <1>7
  <2>3. IsList(L, Ready(r), At(R, f, r))
    BY DEF Listed
  <2> QED
    BY <2>2, <2>3, <1>0, <1>5, ListFrame
<1>9. IsList(M, TimeoutList, {Tm(u) : u \in W})
  <2>1. \A x \in {Tm(u) : u \in W} \cup {TimeoutList} : x \in Node /\ x \notin S /\ x # q
    BY <1>0, NodeFacts DEF At, S
  <2>2. \A x \in {Tm(u) : u \in W} \cup {TimeoutList} : M[x] = L[x]
    BY <2>1, <1>7
  <2>3. IsList(L, TimeoutList, {Tm(u) : u \in W})
    BY DEF Listed
  <2> QED
    BY <2>2, <2>3, <1>0, <1>5, ListFrame
<1>w. WaitLists(M, wq)
  <2>1. ASSUME NEW q1 \in WaitQ PROVE M[Wait(q1)] = L[Wait(q1)]
    <3>1. Wait(q1) \in Node /\ Wait(q1) \notin S /\ Wait(q1) # q
      BY NodeFacts DEF At, S
    <3> QED
      BY <3>1, <1>7
  <2>2. ASSUME NEW u \in Queued(wq) PROVE M[Tq(u)] = L[Tq(u)]
    <3>1. u \in Task /\ u \notin R
      BY DEF Listed, Queued
    <3>2. Tq(u) \in Node /\ Tq(u) \notin S /\ Tq(u) # q
      BY <3>1, NodeFacts DEF At, S
    <3> QED
      BY <3>2, <1>7
  <2>3. WaitLists(L, wq)
    BY DEF Listed
  <2> QED
    BY <2>1, <2>2, <2>3, <1>0, <1>5, WaitFrame
<1>10. Listed(M, f, R, W, wq)
  BY <1>0, <1>5, <1>6, <1>8, <1>9, <1>w DEF Listed, S
<1> QED
  BY <1>10 DEF M, M1, e

\* task_set_dormant_state resets only nodes that are in none of these lists.
LEMMA WasReset ==
  ASSUME NEW L, NEW f, NEW R, NEW W, NEW wq, Listed(L, f, R, W, wq), NEW t \in Task, t \notin R, t \notin W,
         t \notin Queued(wq)
  PROVE  LET X == {Tq(t), Tm(t), Bq(t), Held(t)}
             M == [n \in Node |-> IF n \in X THEN [next |-> n, prev |-> n] ELSE L[n]]
         IN  /\ Listed(M, f, R, W, wq)
             /\ \A r \in Prio : M[Ready(r)] = L[Ready(r)]
<1> DEFINE X == {Tq(t), Tm(t), Bq(t), Held(t)}
           M == [n \in Node |-> IF n \in X THEN [next |-> n, prev |-> n] ELSE L[n]]
<1>0. L \in Memory(Node) /\ R \subseteq Task /\ W \subseteq Task
  BY DEF Listed
<1>1. M \in Memory(Node)
  BY <1>0 DEF Memory
<1>2. /\ \A r \in Prio : Ready(r) \in Node \ X
      /\ TimeoutList \in Node \ X
      /\ \A q \in WaitQ : Wait(q) \in Node \ X
      /\ \A u \in Task : u # t => Tq(u) \in Node \ X /\ Tm(u) \in Node \ X
  <2>1. /\ \A r \in Prio : Ready(r) \notin X
        /\ TimeoutList \notin X
        /\ \A q \in WaitQ : Wait(q) \notin X
        /\ \A u \in Task : u # t => Tq(u) \notin X /\ Tm(u) \notin X
    BY DEF Tq, Tm, Bq, Held, Ready, TimeoutList, Wait
  <2> QED
    BY <2>1, NodeFacts
<1>3. \A x \in Node \ X : M[x] = L[x]
  OBVIOUS
<1> HIDE DEF M, X
<1>4. ASSUME NEW r \in Prio PROVE IsList(M, Ready(r), At(R, f, r))
  <2>1. \A x \in At(R, f, r) : x \in Node \ X
    <3>1. \A x \in At(R, f, r) : \E u \in Task : u # t /\ x = Tq(u)
      BY <1>0 DEF At
    <3> QED
      BY <3>1, <1>2
  <2>2. \A x \in At(R, f, r) \cup {Ready(r)} : M[x] = L[x]
    BY <2>1, <1>2, <1>3
  <2>3. IsList(L, Ready(r), At(R, f, r))
    BY DEF Listed
  <2> QED
    BY <2>2, <2>3, <1>0, <1>1, ListFrame
<1>5. IsList(M, TimeoutList, {Tm(u) : u \in W})
  <2>1. \A x \in {Tm(u) : u \in W} : x \in Node \ X
    <3>1. \A x \in {Tm(u) : u \in W} : \E u \in Task : u # t /\ x = Tm(u)
      BY <1>0
    <3> QED
      BY <3>1, <1>2
  <2>2. \A x \in {Tm(u) : u \in W} \cup {TimeoutList} : M[x] = L[x]
    BY <2>1, <1>2, <1>3
  <2>3. IsList(L, TimeoutList, {Tm(u) : u \in W})
    BY DEF Listed
  <2> QED
    BY <2>2, <2>3, <1>0, <1>1, ListFrame
<1>w. WaitLists(M, wq)
  <2>1. ASSUME NEW q \in WaitQ PROVE M[Wait(q)] = L[Wait(q)]
    BY <1>2, <1>3
  <2>2. ASSUME NEW u \in Queued(wq) PROVE M[Tq(u)] = L[Tq(u)]
    <3>1. u \in Task /\ u \notin R
      BY DEF Listed, Queued
    <3>2. u # t
      OBVIOUS
    <3> QED
      BY <3>1, <3>2, <1>2, <1>3
  <2>3. WaitLists(L, wq)
    BY DEF Listed
  <2> QED
    BY <2>1, <2>2, <2>3, <1>0, <1>1, WaitFrame
<1>6. Listed(M, f, R, W, wq)
  BY <1>0, <1>1, <1>4, <1>5, <1>w DEF Listed
<1> QED
  BY <1>2, <1>3, <1>6 DEF M, X

-----------------------------------------------------------------------------
(* The wait queues of the objects.                                         *)

\* A wait queue, its sequence of nodes and what it consists of.
LEMMA WaitFacts ==
  ASSUME NEW L \in Memory(Node), NEW wq, WaitLists(L, wq), NEW q \in WaitQ
  PROVE  /\ wq[q] \in Seq(Task) /\ Len(wq[q]) \in Nat
         /\ Tqs(wq[q]) \in Seq(Node) /\ Len(Tqs(wq[q])) = Len(wq[q])
         /\ \A i \in 1 .. Len(wq[q]) : Tqs(wq[q])[i] = Tq(wq[q][i])
         /\ Ring(L, Wait(q), Tqs(wq[q]))
         /\ \A i \in 1 .. Len(wq[q]) : wq[q][i] \in Task /\ wq[q][i] \in Queued(wq)
         /\ \A i, j \in 1 .. Len(wq[q]) : wq[q][i] = wq[q][j] => i = j
<1> DEFINE s == wq[q]
           z == Tqs(s)
           h == Wait(q)
<1>1. s \in Seq(Task) /\ Ring(L, h, z) /\ Len(s) \in Nat
  BY DEF WaitLists
<1>2. z \in Seq(Node) /\ Len(z) = Len(s) /\ \A i \in 1 .. Len(s) : z[i] = Tq(s[i])
  BY <1>1, TqsIs
<1>3. \A i \in 1 .. Len(s) : s[i] \in Task /\ s[i] \in Queued(wq)
  BY <1>1 DEF Queued
<1> HIDE DEF z, h
<1>4. RingIs(Node, L, h, z)
  BY <1>1, <1>2, RingFacts
<1>5. \A i, j \in 1 .. Len(z) : z[i] = z[j] => i = j
  BY <1>4, Zenon DEF RingIs
<1>6. \A i, j \in 1 .. Len(s) : s[i] = s[j] => i = j
  <2> SUFFICES ASSUME NEW i \in 1 .. Len(s), NEW j \in 1 .. Len(s), s[i] = s[j] PROVE i = j
    OBVIOUS
  <2>1. z[i] = z[j] /\ i \in 1 .. Len(z) /\ j \in 1 .. Len(z)
    BY <1>2
  <2> QED
    BY <2>1, <1>5
<1> QED
  BY <1>1, <1>2, <1>3, <1>6 DEF z, h

\* The walk along a wait queue meets its tasks in their order; the head of a
\* queue that is not empty is the first of them.
WaitWalkIs(L, q, s) ==
  /\ Walk(L, Wait(q)) = Tqs(s) /\ WellFormed(L, Wait(q))
  /\ IsEmpty(L, Wait(q)) <=> s = <<>>
  /\ L[Wait(q)].next = Wait(q) <=> s = <<>>
  /\ s # <<>> => /\ 1 \in 1 .. Len(s) /\ s[1] \in Task
                 /\ L[Wait(q)].next = Tq(s[1]) /\ TaskOf(L[Wait(q)].next) = s[1]
                 /\ RemoveHead(L, Wait(q)) = RemoveEntry(L, Tq(s[1]))
LEMMA WaitWalk ==
  ASSUME NEW L \in Memory(Node), NEW wq, WaitLists(L, wq), NEW q \in WaitQ
  PROVE  WaitWalkIs(L, q, wq[q])
<1> DEFINE s == wq[q]
           z == Tqs(s)
           h == Wait(q)
<1>1. /\ s \in Seq(Task) /\ Len(s) \in Nat /\ z \in Seq(Node) /\ Len(z) = Len(s)
      /\ \A i \in 1 .. Len(s) : z[i] = Tq(s[i])
      /\ Ring(L, h, z) /\ \A i \in 1 .. Len(s) : s[i] \in Task
  BY WaitFacts
<1> HIDE DEF z, h
<1>2. Walk(L, h) = z
  BY <1>1, NodeFinite, RingWalk
<1>3. WellFormed(L, h)
  BY <1>1, <1>2 DEF WellFormed
<1>4. /\ IsEmpty(L, h) <=> z = <<>>
      /\ L[h].next = h <=> z = <<>>
      /\ z # <<>> => /\ 1 \in 1 .. Len(z) /\ L[h].next = z[1] /\ L[z[1]].prev = h
                     /\ RemoveHead(L, h) = RemoveEntry(L, z[1])
  BY <1>1, RingHead
<1>5. z = <<>> <=> s = <<>>
  BY <1>1
<1>6. s # <<>> => z[1] = Tq(s[1]) /\ s[1] \in Task /\ TaskOf(Tq(s[1])) = s[1]
  BY <1>1, <1>4, <1>5, NodeFacts
<1> HIDE DEF s
<1>7. s # <<>> => /\ 1 \in 1 .. Len(s) /\ s[1] \in Task /\ L[h].next = Tq(s[1])
                  /\ TaskOf(L[h].next) = s[1] /\ RemoveHead(L, h) = RemoveEntry(L, Tq(s[1]))
  BY <1>1, <1>4, <1>5, <1>6
<1>8. WaitWalkIs(L, q, s)
  BY <1>2, <1>3, <1>4, <1>5, <1>7 DEF WaitWalkIs, z, h
<1> QED
  BY <1>8 DEF s

\* A task added to a wait queue is its last, and no other list changes.
LEMMA WaitAdd ==
  ASSUME NEW L, NEW f, NEW R, NEW W, NEW wq, Listed(L, f, R, W, wq), NEW q \in WaitQ,
         NEW t \in Task, t \notin R, t \notin Queued(wq)
  PROVE  LET M == AddTail(L, Wait(q), Tq(t))
         IN  /\ Listed(M, f, R, W, [wq EXCEPT ![q] = Append(@, t)])
             /\ \A r \in Prio : M[Ready(r)] = L[Ready(r)]
<1> DEFINE M == AddTail(L, Wait(q), Tq(t))
           s == wq[q]
           z == Tqs(s)
           h == Wait(q)
           e == Tq(t)
           S == {Tq(s[i]) : i \in 1 .. Len(s)}
           new == [wq EXCEPT ![q] = Append(@, t)]
<1>0. L \in Memory(Node) /\ R \subseteq Task /\ W \subseteq Task /\ WaitLists(L, wq) /\ R \cap Queued(wq) = {}
  BY DEF Listed
<1>1. /\ s \in Seq(Task) /\ Len(s) \in Nat /\ z \in Seq(Node) /\ Len(z) = Len(s)
      /\ \A i \in 1 .. Len(s) : z[i] = Tq(s[i])
      /\ Ring(L, h, z) /\ \A i \in 1 .. Len(s) : s[i] \in Task /\ s[i] \in Queued(wq)
  BY <1>0, WaitFacts
<1>2. e \in Node /\ h \in Node /\ e # h /\ \A i \in 1 .. Len(z) : z[i] # e
  <2>1. \A i \in 1 .. Len(s) : s[i] # t
    BY <1>1
  <2>2. \A i \in 1 .. Len(s) : Tq(s[i]) # Tq(t)
    BY <2>1, NodeFacts
  <2>3. e \in Node /\ h \in Node /\ e # h
    BY NodeFacts
  <2> HIDE DEF z, h
  <2> QED
    BY <1>1, <2>2, <2>3
<1>3. /\ M \in Memory(Node) /\ Ring(M, h, Append(z, e))
      /\ \A x \in Node : x # h /\ x # e /\ (\A i \in 1 .. Len(z) : x # z[i]) => M[x] = L[x]
  <2> HIDE DEF z, h, e, M
  <2>1. LET A == AddTail(L, h, e)
        IN  /\ A \in Memory(Node) /\ Ring(A, h, Append(z, e))
            /\ \A x \in Node : x # h /\ x # e /\ (\A i \in 1 .. Len(z) : x # z[i]) => A[x] = L[x]
    BY <1>0, <1>1, <1>2, RingAddTail
  <2> QED
    BY <2>1 DEF M, h, e
<1>4. \A x \in Node : x # h /\ x # e /\ x \notin S => M[x] = L[x]
  <2>1. \A x : x \notin S => \A i \in 1 .. Len(z) : x # z[i]
    BY <1>1
  <2> HIDE DEF S, z, e, h, M
  <2> QED
    BY <2>1, <1>3
<1> HIDE DEF M
<1>5. Append(z, e) = Tqs(Append(s, t))
  <2> DEFINE n == Len(s)
             v == Append(s, t)
             y == Append(z, e)
  <2>1. v \in Seq(Task) /\ Len(v) = n + 1 /\ y \in Seq(Node) /\ Len(y) = n + 1
    BY <1>1, <1>2
  <2>2. ASSUME NEW i \in 1 .. n + 1 PROVE y[i] = Tq(v[i])
    <3>1. CASE i = n + 1
      BY <3>1, <1>1
    <3>2. CASE i # n + 1
      <4>1. i \in 1 .. n
        BY <3>2, <1>1
      <4> HIDE DEF z, e, S
      <4> QED
        BY <4>1, <1>1
    <3> QED
      BY <3>1, <3>2
  <2> HIDE DEF v, y
  <2>3. y = [i \in 1 .. n + 1 |-> y[i]]
    BY <2>1
  <2>4. Tqs(v) = [i \in 1 .. n + 1 |-> Tq(v[i])]
    BY <2>1 DEF Tqs
  <2>5. y = Tqs(v)
    BY <2>2, <2>3, <2>4
  <2> QED
    BY <2>5 DEF v, y
<1>6. /\ new \in [WaitQ -> Seq(Task)] /\ new[q] = Append(s, t)
      /\ \A r \in WaitQ : r # q => new[r] = wq[r]
  <2>1. wq \in [WaitQ -> Seq(Task)]
    BY <1>0 DEF WaitLists
  <2> QED
    BY <2>1, <1>1
<1> HIDE DEF new
<1>7. Queued(new) = Queued(wq) \cup {t}
  <2>1. \A i \in 1 .. Len(s) : i \in 1 .. Len(Append(s, t)) /\ Append(s, t)[i] = s[i]
    BY <1>1
  <2>2. Len(s) + 1 \in 1 .. Len(Append(s, t)) /\ Append(s, t)[Len(s) + 1] = t
    BY <1>1
  <2>3. \A i \in 1 .. Len(Append(s, t)) : i = Len(s) + 1 \/ i \in 1 .. Len(s)
    BY <1>1
  <2>4. ASSUME NEW u \in Queued(wq) PROVE u \in Queued(new)
    <3>1. PICK r \in WaitQ : \E i \in 1 .. Len(wq[r]) : wq[r][i] = u
      BY DEF Queued
    <3>2. CASE r = q
      <4>1. PICK i \in 1 .. Len(s) : s[i] = u
        BY <3>1, <3>2
      <4>2. i \in 1 .. Len(new[q]) /\ new[q][i] = u
        BY <4>1, <2>1, <1>6
      <4> QED
        BY <4>2 DEF Queued
    <3>3. CASE r # q
      <4>1. \E i \in 1 .. Len(new[r]) : new[r][i] = u
        BY <3>1, <3>3, <1>6
      <4> QED
        BY <4>1 DEF Queued
    <3> QED
      BY <3>2, <3>3
  <2>5. t \in Queued(new)
    <3>1. \E i \in 1 .. Len(new[q]) : new[q][i] = t
      BY <2>2, <1>6
    <3> QED
      BY <3>1 DEF Queued
  <2>6. ASSUME NEW u \in Queued(new), u # t PROVE u \in Queued(wq)
    <3>1. u \in Task
      BY DEF Queued
    <3>2. PICK r \in WaitQ : \E i \in 1 .. Len(new[r]) : new[r][i] = u
      BY DEF Queued
    <3>3. \E i \in 1 .. Len(wq[r]) : wq[r][i] = u
      <4>1. CASE r = q
        BY <4>1, <3>2, <2>1, <2>2, <2>3, <2>6, <1>6
      <4>2. CASE r # q
        BY <4>2, <3>2, <1>6
      <4> QED
        BY <4>1, <4>2
    <3> QED
      BY <3>1, <3>3 DEF Queued
  <2> QED
    BY <2>4, <2>5, <2>6
<1>8. ASSUME NEW r \in WaitQ, r # q
      PROVE  /\ Ring(M, Wait(r), Tqs(wq[r]))
             /\ \A i \in 1 .. Len(wq[r]) : wq[r][i] # t /\ \A j \in 1 .. Len(s) : wq[r][i] # s[j]
  <2> DEFINE v == wq[r]
             y == Tqs(v)
             g == Wait(r)
  <2>1. /\ v \in Seq(Task) /\ Len(v) \in Nat /\ y \in Seq(Node) /\ Len(y) = Len(v)
        /\ \A i \in 1 .. Len(v) : y[i] = Tq(v[i])
        /\ Ring(L, g, y) /\ \A i \in 1 .. Len(v) : v[i] \in Task /\ v[i] \in Queued(wq)
    BY <1>0, WaitFacts
  <2>2. \A i \in 1 .. Len(v) : v[i] # t /\ \A j \in 1 .. Len(s) : v[i] # s[j]
    <3>1. \A i \in 1 .. Len(v) : \A j \in 1 .. Len(s) : v[i] = s[j] => r = q
      BY <1>0 DEF WaitLists
    <3> QED
      BY <3>1, <2>1, <1>8
  <2>3. M[g] = L[g]
    <3>1. g \in Node /\ g # h /\ g # e /\ g \notin S
      BY <1>8, NodeFacts
    <3> QED
      BY <3>1, <1>4
  <2>4. \A i \in 1 .. Len(y) : M[y[i]] = L[y[i]]
    <3> SUFFICES ASSUME NEW i \in 1 .. Len(y) PROVE M[y[i]] = L[y[i]]
      OBVIOUS
    <3>1. y[i] = Tq(v[i]) /\ v[i] \in Task /\ v[i] # t /\ \A j \in 1 .. Len(s) : v[i] # s[j]
      BY <2>1, <2>2
    <3>2. Tq(v[i]) \in Node /\ Tq(v[i]) # h /\ Tq(v[i]) # e /\ Tq(v[i]) \notin S
      BY <3>1, NodeFacts
    <3> QED
      BY <3>1, <3>2, <1>4
  <2> HIDE DEF g, y
  <2>5. Ring(M, g, y)
    BY <2>1, <2>3, <2>4, <1>0, <1>3, RingFrame
  <2> QED
    BY <2>2, <2>5 DEF g, y
<1>9. WaitLists(M, new)
  <2>1. ASSUME NEW r \in WaitQ PROVE Ring(M, Wait(r), Tqs(new[r]))
    <3>1. CASE r = q
      BY <3>1, <1>3, <1>5, <1>6
    <3>2. CASE r # q
      BY <3>2, <1>6, <1>8
    <3> QED
      BY <3>1, <3>2
  <2>2. \A i \in 1 .. Len(new[q]) : new[q][i] = t \/ \E j \in 1 .. Len(s) : new[q][i] = s[j]
    <3>1. \A i \in 1 .. Len(Append(s, t)) : i = Len(s) + 1 \/ i \in 1 .. Len(s)
      BY <1>1
    <3>2. \A i \in 1 .. Len(s) : Append(s, t)[i] = s[i]
      BY <1>1
    <3>3. Append(s, t)[Len(s) + 1] = t
      BY <1>1
    <3> QED
      BY <3>1, <3>2, <3>3, <1>6
  <2>3. ASSUME NEW r1 \in WaitQ, NEW r2 \in WaitQ, NEW i \in 1 .. Len(new[r1]), NEW j \in 1 .. Len(new[r2]),
               new[r1][i] = new[r2][j]
        PROVE  r1 = r2
    <3>1. CASE r1 = q /\ r2 # q
      BY <3>1, <2>2, <2>3, <1>6, <1>8
    <3>2. CASE r1 # q /\ r2 = q
      BY <3>2, <2>2, <2>3, <1>6, <1>8
    <3>3. CASE r1 # q /\ r2 # q
      BY <3>3, <2>3, <1>0, <1>6 DEF WaitLists
    <3> QED
      BY <3>1, <3>2, <3>3
  <2> QED
    BY <2>1, <2>3, <1>6 DEF WaitLists
<1>10. ASSUME NEW p \in Prio
       PROVE  IsList(M, Ready(p), At(R, f, p)) /\ M[Ready(p)] = L[Ready(p)]
  <2>1. \A x \in At(R, f, p) \cup {Ready(p)} : x \in Node /\ x # h /\ x # e /\ x \notin S
    <3>1. \A x \in At(R, f, p) : \E u \in Task : x = Tq(u) /\ u # t /\ \A i \in 1 .. Len(s) : u # s[i]
      BY <1>0, <1>1 DEF At
    <3>2. ASSUME NEW x \in At(R, f, p) PROVE x \in Node /\ x # h /\ x # e /\ x \notin S
      <4>1. PICK u \in Task : x = Tq(u) /\ u # t /\ \A i \in 1 .. Len(s) : u # s[i]
        BY <3>1
      <4> QED
        BY <4>1, NodeFacts
    <3> QED
      BY <3>2, NodeFacts
  <2>2. \A x \in At(R, f, p) \cup {Ready(p)} : M[x] = L[x]
    BY <2>1, <1>4
  <2>3. IsList(L, Ready(p), At(R, f, p))
    BY DEF Listed
  <2> QED
    BY <2>2, <2>3, <1>0, <1>3, ListFrame
<1>11. IsList(M, TimeoutList, {Tm(u) : u \in W})
  <2>1. \A x \in {Tm(u) : u \in W} \cup {TimeoutList} : x \in Node /\ x # h /\ x # e /\ x \notin S
    BY <1>0, NodeFacts
  <2>2. \A x \in {Tm(u) : u \in W} \cup {TimeoutList} : M[x] = L[x]
    BY <2>1, <1>4
  <2>3. IsList(L, TimeoutList, {Tm(u) : u \in W})
    BY DEF Listed
  <2> QED
    BY <2>2, <2>3, <1>0, <1>3, ListFrame
<1>12. Listed(M, f, R, W, new)
  <2>1. R \cap Queued(new) = {}
    BY <1>0, <1>7
  <2> QED
    BY <2>1, <1>0, <1>3, <1>9, <1>10, <1>11 DEF Listed
<1> QED
  BY <1>10, <1>12 DEF M, new

\* A task taken out of a wait queue, from wherever it is, and no other list
\* changes; its own pointers stay.
WaitOut(L, f, R, W, wq, q, m) ==
  LET M == RemoveEntry(L, Tq(wq[q][m]))
      new == [wq EXCEPT ![q] = Without(@, m)]
  IN  /\ Listed(M, f, R, W, new)
      /\ \A r \in Prio : M[Ready(r)] = L[Ready(r)]
      /\ Queued(new) = Queued(wq) \ {wq[q][m]}
LEMMA WaitRemove ==
  ASSUME NEW L, NEW f, NEW R, NEW W, NEW wq, Listed(L, f, R, W, wq), NEW q \in WaitQ,
         NEW m \in 1 .. Len(wq[q])
  PROVE  WaitOut(L, f, R, W, wq, q, m)
<1> DEFINE s == wq[q]
           t == s[m]
           M == RemoveEntry(L, Tq(t))
           z == Tqs(s)
           h == Wait(q)
           S == {Tq(s[i]) : i \in 1 .. Len(s)}
           v == Without(s, m)
           new == [wq EXCEPT ![q] = Without(@, m)]
<1>0. L \in Memory(Node) /\ R \subseteq Task /\ W \subseteq Task /\ WaitLists(L, wq) /\ R \cap Queued(wq) = {}
  BY DEF Listed
<1>1. /\ s \in Seq(Task) /\ Len(s) \in Nat /\ z \in Seq(Node) /\ Len(z) = Len(s)
      /\ \A i \in 1 .. Len(s) : z[i] = Tq(s[i])
      /\ Ring(L, h, z) /\ (\A i \in 1 .. Len(s) : s[i] \in Task /\ s[i] \in Queued(wq))
      /\ \A i, j \in 1 .. Len(s) : s[i] = s[j] => i = j
  BY <1>0, WaitFacts
<1>2. m \in 1 .. Len(s) /\ m \in 1 .. Len(z)
  BY <1>1
<1> HIDE DEF s, z, h, v
<1>3. /\ v \in Seq(Task) /\ Len(v) = Len(s) - 1
      /\ \A i \in 1 .. Len(s) - 1 : v[i] = IF i < m THEN s[i] ELSE s[i + 1]
      /\ \A x : (\E i \in 1 .. Len(s) - 1 : v[i] = x) <=> x # t /\ \E i \in 1 .. Len(s) : s[i] = x
  <2>1. Shortened(Task, s, m, Without(s, m))
    BY <1>1, <1>2, WithoutIs
  <2> QED
    BY <2>1, <1>1, Zenon DEF Shortened, v
<1>4. Without(z, m) = Tqs(v)
  <2> DEFINE y == Without(z, m)
  <2>1. /\ y \in Seq(Node) /\ Len(y) = Len(z) - 1
        /\ \A i \in 1 .. Len(z) - 1 : y[i] = IF i < m THEN z[i] ELSE z[i + 1]
    <3>1. Shortened(Node, z, m, Without(z, m))
      BY <1>1, <1>2, WithoutIs
    <3> QED
      BY <3>1, Zenon DEF Shortened
  <2> HIDE DEF y
  <2>2. \A i \in 1 .. Len(s) - 1 : i \in 1 .. Len(s) /\ i + 1 \in 1 .. Len(s)
    BY <1>1
  <2>3. \A i \in 1 .. Len(s) - 1 : y[i] = Tq(v[i])
    <3> SUFFICES ASSUME NEW i \in 1 .. Len(s) - 1 PROVE y[i] = Tq(v[i])
      OBVIOUS
    <3>1. y[i] = (IF i < m THEN z[i] ELSE z[i + 1]) /\ v[i] = IF i < m THEN s[i] ELSE s[i + 1]
      BY <2>1, <1>1, <1>3
    <3>2. z[i] = Tq(s[i]) /\ z[i + 1] = Tq(s[i + 1])
      BY <2>2, <1>1
    <3> QED
      BY <3>1, <3>2
  <2>4. y = [i \in 1 .. Len(s) - 1 |-> y[i]]
    BY <2>1, <1>1
  <2>5. Tqs(v) = [i \in 1 .. Len(s) - 1 |-> Tq(v[i])]
    BY <1>3 DEF Tqs
  <2>6. [i \in 1 .. Len(s) - 1 |-> y[i]] = [i \in 1 .. Len(s) - 1 |-> Tq(v[i])]
    BY <2>3
  <2> QED
    BY <2>4, <2>5, <2>6 DEF y
<1>5. /\ M \in Memory(Node) /\ Ring(M, h, Tqs(v))
      /\ \A x \in Node : x # h /\ (\A i \in 1 .. Len(z) : x # z[i]) => M[x] = L[x]
  <2>1. z[m] = Tq(t)
    BY <1>1, <1>2
  <2> HIDE DEF M, t
  <2>2. LET A == RemoveEntry(L, z[m])
        IN  /\ A \in Memory(Node) /\ Ring(A, h, Without(z, m))
            /\ \A x \in Node : x # h /\ (\A i \in 1 .. Len(z) : x # z[i]) => A[x] = L[x]
            /\ A[z[m]] = L[z[m]]
    BY <1>0, <1>1, <1>2, RingRemove
  <2> QED
    BY <2>1, <2>2, <1>4 DEF M
<1>6. \A x \in Node : x # h /\ x \notin S => M[x] = L[x]
  <2>1. \A x : x \notin S => \A i \in 1 .. Len(z) : x # z[i]
    BY <1>1
  <2> HIDE DEF S, M
  <2> QED
    BY <2>1, <1>5
<1> HIDE DEF M
<1>7. /\ new \in [WaitQ -> Seq(Task)] /\ new[q] = v
      /\ \A r \in WaitQ : r # q => new[r] = wq[r]
  <2>1. wq \in [WaitQ -> Seq(Task)]
    BY <1>0 DEF WaitLists
  <2> QED
    BY <2>1, <1>3 DEF v, s
<1> HIDE DEF new
<1>8. Queued(new) = Queued(wq) \ {t}
  <2>1. ASSUME NEW u \in Queued(new) PROVE u \in Queued(wq) /\ u # t
    <3>1. u \in Task
      BY DEF Queued
    <3>2. PICK r \in WaitQ : \E i \in 1 .. Len(new[r]) : new[r][i] = u
      BY DEF Queued
    <3>3. CASE r = q
      <4>1. \E i \in 1 .. Len(s) - 1 : v[i] = u
        BY <3>2, <3>3, <1>3, <1>7
      <4>2. u # t /\ \E i \in 1 .. Len(wq[q]) : wq[q][i] = u
        BY <4>1, <1>3 DEF s
      <4> QED
        BY <3>1, <4>2 DEF Queued
    <3>4. CASE r # q
      <4>1. PICK i \in 1 .. Len(wq[r]) : wq[r][i] = u
        BY <3>2, <3>4, <1>7
      <4>2. u # t
        <5>1. m \in 1 .. Len(wq[q]) /\ wq[q][m] = t
          BY DEF s
        <5> QED
          BY <5>1, <4>1, <3>4, <1>0 DEF WaitLists
      <4> QED
        BY <3>1, <4>1, <4>2 DEF Queued
    <3> QED
      BY <3>3, <3>4
  <2>2. ASSUME NEW u \in Queued(wq), u # t PROVE u \in Queued(new)
    <3>1. u \in Task
      BY DEF Queued
    <3>2. PICK r \in WaitQ : \E i \in 1 .. Len(wq[r]) : wq[r][i] = u
      BY DEF Queued
    <3>3. \E i \in 1 .. Len(new[r]) : new[r][i] = u
      <4>1. CASE r = q
        <5>1. \E i \in 1 .. Len(s) : s[i] = u
          BY <4>1, <3>2 DEF s
        <5>2. \E i \in 1 .. Len(s) - 1 : v[i] = u
          BY <5>1, <2>2, <1>3
        <5> QED
          BY <5>2, <4>1, <1>3, <1>7
      <4>2. CASE r # q
        BY <4>2, <3>2, <1>7
      <4> QED
        BY <4>1, <4>2
    <3> QED
      BY <3>1, <3>3 DEF Queued
  <2> QED
    BY <2>1, <2>2
<1>9. ASSUME NEW r \in WaitQ, r # q
      PROVE  /\ Ring(M, Wait(r), Tqs(wq[r]))
             /\ \A i \in 1 .. Len(wq[r]) : \A j \in 1 .. Len(s) : wq[r][i] # s[j]
  <2> DEFINE a == wq[r]
             y == Tqs(a)
             g == Wait(r)
  <2>1. /\ a \in Seq(Task) /\ Len(a) \in Nat /\ y \in Seq(Node) /\ Len(y) = Len(a)
        /\ \A i \in 1 .. Len(a) : y[i] = Tq(a[i])
        /\ Ring(L, g, y) /\ \A i \in 1 .. Len(a) : a[i] \in Task /\ a[i] \in Queued(wq)
    BY <1>0, WaitFacts
  <2>2. \A i \in 1 .. Len(a) : \A j \in 1 .. Len(s) : a[i] # s[j]
    <3>1. \A i \in 1 .. Len(a) : \A j \in 1 .. Len(s) : a[i] = s[j] => r = q
      BY <1>0 DEF WaitLists, s
    <3> QED
      BY <3>1, <1>9
  <2>3. M[g] = L[g]
    <3>1. g \in Node /\ g # h /\ g \notin S
      BY <1>9, NodeFacts DEF h
    <3> QED
      BY <3>1, <1>6
  <2>4. \A i \in 1 .. Len(y) : M[y[i]] = L[y[i]]
    <3> SUFFICES ASSUME NEW i \in 1 .. Len(y) PROVE M[y[i]] = L[y[i]]
      OBVIOUS
    <3>1. y[i] = Tq(a[i]) /\ a[i] \in Task /\ \A j \in 1 .. Len(s) : a[i] # s[j]
      BY <2>1, <2>2
    <3>2. Tq(a[i]) \in Node /\ Tq(a[i]) # h /\ Tq(a[i]) \notin S
      BY <3>1, NodeFacts DEF h
    <3> QED
      BY <3>1, <3>2, <1>6
  <2> HIDE DEF g, y
  <2>5. Ring(M, g, y)
    BY <2>1, <2>3, <2>4, <1>0, <1>5, RingFrame
  <2> QED
    BY <2>2, <2>5 DEF g, y
<1>10. WaitLists(M, new)
  <2>1. ASSUME NEW r \in WaitQ PROVE Ring(M, Wait(r), Tqs(new[r]))
    <3>1. CASE r = q
      BY <3>1, <1>5, <1>7 DEF h
    <3>2. CASE r # q
      BY <3>2, <1>7, <1>9
    <3> QED
      BY <3>1, <3>2
  <2>2. \A i \in 1 .. Len(new[q]) : \E j \in 1 .. Len(s) : new[q][i] = s[j]
    <3> SUFFICES ASSUME NEW i \in 1 .. Len(new[q]) PROVE \E j \in 1 .. Len(s) : s[j] = new[q][i]
      BY Zenon
    <3>1. \E j \in 1 .. Len(s) - 1 : v[j] = new[q][i]
      BY <1>3, <1>7
    <3> QED
      BY <3>1, <1>3
  <2>3. ASSUME NEW r1 \in WaitQ, NEW r2 \in WaitQ, NEW i \in 1 .. Len(new[r1]), NEW j \in 1 .. Len(new[r2]),
               new[r1][i] = new[r2][j]
        PROVE  r1 = r2
    <3>1. CASE r1 = q /\ r2 # q
      BY <3>1, <2>2, <2>3, <1>7, <1>9
    <3>2. CASE r1 # q /\ r2 = q
      BY <3>2, <2>2, <2>3, <1>7, <1>9
    <3>3. CASE r1 # q /\ r2 # q
      BY <3>3, <2>3, <1>0, <1>7 DEF WaitLists
    <3> QED
      BY <3>1, <3>2, <3>3
  <2> QED
    BY <2>1, <2>3, <1>7 DEF WaitLists
<1>11. ASSUME NEW p \in Prio
       PROVE  IsList(M, Ready(p), At(R, f, p)) /\ M[Ready(p)] = L[Ready(p)]
  <2>1. \A x \in At(R, f, p) \cup {Ready(p)} : x \in Node /\ x # h /\ x \notin S
    <3>1. \A x \in At(R, f, p) : \E u \in Task : x = Tq(u) /\ \A i \in 1 .. Len(s) : u # s[i]
      BY <1>0, <1>1 DEF At
    <3>2. ASSUME NEW x \in At(R, f, p) PROVE x \in Node /\ x # h /\ x \notin S
      <4>1. PICK u \in Task : x = Tq(u) /\ \A i \in 1 .. Len(s) : u # s[i]
        BY <3>1
      <4> QED
        BY <4>1, NodeFacts DEF h
    <3> QED
      BY <3>2, NodeFacts DEF h
  <2>2. \A x \in At(R, f, p) \cup {Ready(p)} : M[x] = L[x]
    BY <2>1, <1>6
  <2>3. IsList(L, Ready(p), At(R, f, p))
    BY DEF Listed
  <2> QED
    BY <2>2, <2>3, <1>0, <1>5, ListFrame
<1>12. IsList(M, TimeoutList, {Tm(u) : u \in W})
  <2>1. \A x \in {Tm(u) : u \in W} \cup {TimeoutList} : x \in Node /\ x # h /\ x \notin S
    BY <1>0, NodeFacts DEF h
  <2>2. \A x \in {Tm(u) : u \in W} \cup {TimeoutList} : M[x] = L[x]
    BY <2>1, <1>6
  <2>3. IsList(L, TimeoutList, {Tm(u) : u \in W})
    BY DEF Listed
  <2> QED
    BY <2>2, <2>3, <1>0, <1>5, ListFrame
<1>13. Listed(M, f, R, W, new)
  <2>1. R \cap Queued(new) = {}
    BY <1>0, <1>8
  <2> QED
    BY <2>1, <1>0, <1>5, <1>10, <1>11, <1>12 DEF Listed
<1>14. M = RemoveEntry(L, Tq(wq[q][m])) /\ new = [wq EXCEPT ![q] = Without(@, m)] /\ t = wq[q][m]
  BY DEF M, new, s
<1> QED
  BY <1>8, <1>11, <1>13, <1>14 DEF WaitOut

\* queue_reset of the head of a queue that is empty changes nothing.
LEMMA WaitReset ==
  ASSUME NEW L \in Memory(Node), NEW wq, WaitLists(L, wq), NEW q \in WaitQ, wq[q] = <<>>
  PROVE  Reset(L, Wait(q)) = L
<1> DEFINE h == Wait(q)
<1>1. WaitWalkIs(L, q, wq[q])
  BY WaitWalk
<1>2. L[h].next = h /\ L[h].prev = h /\ h \in Node
  BY <1>1, NodeFacts DEF WaitWalkIs, IsEmpty
<1> HIDE DEF h
<1>3. L[h] = [next |-> h, prev |-> h]
  <2>1. L[h] \in [next: Node, prev: Node]
    BY <1>2 DEF Memory
  <2> QED
    BY <2>1, <1>2
<1>4. Reset(L, h) = L
  BY <1>2, <1>3 DEF Reset, Memory
<1> QED
  BY <1>4 DEF h

-----------------------------------------------------------------------------
(* What the scheduler keeps between any two steps of it, R being the tasks *)
(* that are ready and wq the wait queues: the lists, the bit map and the   *)
(* next task to run.                                                       *)

Timers(K) == {t \in Task : K.tick[t] # Forever}
Chosen(K, R) == K.next \in R /\ \A u \in R : K.prio[K.next] <= K.prio[u]
AtHead(K) == K.link[Ready(K.prio[K.next])].next = Tq(K.next)
Sched(K, R, wq) ==
  /\ K \in Kernel /\ Listed(K.link, K.prio, R, Timers(K), wq)
  /\ K.bmp = {K.prio[u] : u \in R}
  /\ Chosen(K, R)

\* What an operation on the ready lists leaves alone.
Frame(J, K) ==
  /\ J.reason = K.reason /\ J.tick = K.tick /\ J.activate = K.activate
  /\ J.exists = K.exists /\ J.curr = K.curr /\ J.request = K.request
  /\ J.pwait = K.pwait /\ J.rc = K.rc /\ J.elem = K.elem /\ J.ewait = K.ewait

\* The types of the fields the scheduler uses.
LEMMA KernelFields ==
  ASSUME NEW K \in Kernel
  PROVE  /\ K.state \in [Task -> State] /\ K.prio \in [Task -> Prio]
         /\ K.reason \in [Task -> Reason] /\ K.tick \in [Task -> Nat \cup {Forever}]
         /\ K.activate \in [Task -> 0 .. 1] /\ K.exists \in [Task -> BOOLEAN]
         /\ K.link \in Memory(Node) /\ K.bmp \in SUBSET Prio
         /\ K.next \in Task /\ K.curr \in Task /\ K.request \in BOOLEAN
         /\ K.pwait \in [Task -> WaitQ \cup {Null}] /\ K.rc \in [Task -> Rc]
         /\ K.elem \in [Task -> Elem \cup {Null}]
         /\ K.ewait \in [Task -> [pattern: SUBSET Flag, or: BOOLEAN]]
  BY DEF Kernel, Memory

\* What the assumptions on the constants come to.
LEMMA ConstantFacts == NumPrio \in Nat \ {0} /\ Prio \subseteq Nat /\ Idle \in Task /\ Wild \notin Task
                   /\ Null \notin Task /\ Forever \notin Nat /\ User \subseteq Task /\ Idle \notin User
                   /\ Base \in [Task -> Prio]
  BY CoreAssumption DEF Prio, User

\* task_to_runnable: one more task is ready, and the next task is right.
LEMMA ToRunnableIs ==
  ASSUME NEW K, NEW R, NEW wq, Sched(K, R, wq), NEW t \in Task, t \notin R, t \notin Queued(wq)
  PROVE  LET J == ToRunnable(K, t)
         IN  /\ Sched(J, R \cup {t}, wq) /\ Frame(J, K)
             /\ J.state = [K.state EXCEPT ![t] = "runnable"] /\ J.prio = K.prio
             /\ J.next = IF K.prio[t] < K.prio[K.next] THEN t ELSE K.next
             /\ AtHead(K) => AtHead(J)
<1> DEFINE p == K.prio[t]
           L == AddTail(K.link, Ready(p), Tq(t))
           b == K.bmp \cup {p}
           x == IF p < K.prio[K.next] THEN t ELSE K.next
           W == Timers(K)
           J == ToRunnable(K, t)
<1>0. /\ K \in Kernel /\ Listed(K.link, K.prio, R, W, wq) /\ R \subseteq Task
      /\ K.bmp = {K.prio[u] : u \in R}
      /\ K.next \in R /\ \A u \in R : K.prio[K.next] <= K.prio[u]
  BY DEF Sched, Chosen, Listed
<1>1. p \in Prio /\ K.next # Wild /\ x \in Task /\ K.prio \in [Task -> Prio]
  BY <1>0, KernelFields, ConstantFacts
<1>2. /\ Listed(L, K.prio, R \cup {t}, W, wq)
      /\ L[Ready(p)].next = IF \E u \in R : K.prio[u] = p THEN K.link[Ready(p)].next ELSE Tq(t)
      /\ \A r \in Prio : r # p => L[Ready(r)] = K.link[Ready(r)]
  <2> DEFINE f == K.prio
             M == K.link
  <2>1. Listed(M, f, R, W, wq) /\ f[t] \in Prio
    BY <1>0, <1>1
  <2> HIDE DEF f, M, W
  <2>2. LET A == AddTail(M, Ready(f[t]), Tq(t))
        IN  /\ Listed(A, f, R \cup {t}, W, wq)
            /\ A[Ready(f[t])].next = IF \E u \in R : f[u] = f[t] THEN M[Ready(f[t])].next ELSE Tq(t)
            /\ \A r \in Prio : r # f[t] => A[Ready(r)] = M[Ready(r)]
    BY <2>1, ReadyAdd
  <2> QED
    BY <2>2 DEF f, M
<1>3. L \in Memory(Node) /\ b \in SUBSET Prio
  BY <1>1, <1>2, <1>0, KernelFields DEF Listed
<1>4. J = [K EXCEPT !.state[t] = "runnable", !.link = L, !.bmp = b, !.next = x]
  BY <1>0, <1>1 DEF ToRunnable, Kernel
<1> HIDE DEF L, b, x, J, p, W
<1>5. /\ J \in Kernel /\ Frame(J, K)
      /\ J.state = [K.state EXCEPT ![t] = "runnable"] /\ J.prio = K.prio
      /\ J.link = L /\ J.bmp = b /\ J.next = x
  BY <1>0, <1>1, <1>3, <1>4 DEF Kernel, Memory, Frame, State
<1>6. Timers(J) = W
  BY <1>5 DEF Frame, Timers, W
<1>7. J.bmp = {J.prio[u] : u \in R \cup {t}}
  BY <1>0, <1>5 DEF b, p
<1>8. Chosen(J, R \cup {t})
  <2>1. \A u \in R \cup {t} : K.prio[u] \in Nat
    BY <1>0, <1>1, ConstantFacts
  <2> QED
    BY <2>1, <1>0, <1>5 DEF Chosen, x, p
<1>9. Sched(J, R \cup {t}, wq)
  BY <1>2, <1>5, <1>6, <1>7, <1>8 DEF Sched
<1>10. ASSUME AtHead(K) PROVE AtHead(J)
  <2>1. \A u \in R \cup {t} : K.prio[u] \in Nat /\ K.prio[u] \in Prio
    BY <1>0, <1>1, ConstantFacts
  <2>2. CASE p < K.prio[K.next]
    <3>1. ~\E u \in R : K.prio[u] = p
      BY <2>1, <2>2, <1>0 DEF p
    <3> QED
      BY <3>1, <2>2, <1>2, <1>5 DEF AtHead, x, p
  <2>3. CASE ~(p < K.prio[K.next])
    <3>1. J.next = K.next
      BY <2>3, <1>5 DEF x
    <3>2. L[Ready(K.prio[K.next])].next = K.link[Ready(K.prio[K.next])].next
      BY <2>1, <1>0, <1>2
    <3> QED
      BY <3>1, <3>2, <1>5, <1>10 DEF AtHead
  <2> QED
    BY <2>2, <2>3
<1> QED
  BY <1>5, <1>9, <1>10 DEF x, p, J

\* find_next_task_to_run finds the first task of the highest priority.
LEMMA FindNextIs ==
  ASSUME NEW K \in Kernel, NEW R, NEW wq, R # {}, Listed(K.link, K.prio, R, Timers(K), wq),
         K.bmp = {K.prio[u] : u \in R}
  PROVE  LET J == FindNext(K)
         IN  /\ Sched(J, R, wq) /\ Frame(J, K) /\ AtHead(J)
             /\ J.state = K.state /\ J.prio = K.prio /\ J.link = K.link
<1> DEFINE p == CHOOSE p \in K.bmp : \A r \in K.bmp : p <= r
           J == FindNext(K)
<1>1. R \subseteq Task /\ K.prio \in [Task -> Prio] /\ K.bmp # {} /\ K.bmp \subseteq Nat
  <2>1. K.bmp \in SUBSET Prio /\ Prio \subseteq Nat
    BY KernelFields, ConstantFacts
  <2>2. K.bmp # {}
    OBVIOUS
  <2> QED
    BY <2>1, <2>2, KernelFields DEF Listed
<1>2. \E y \in K.bmp : \A r \in K.bmp : y <= r
  BY <1>1, LeastNat
<1>3. p \in K.bmp /\ \A r \in K.bmp : p <= r
  BY <1>2
<1> HIDE DEF p
<1>4. PICK v \in R : K.prio[v] = p
  BY <1>3
<1>5. p \in Prio /\ ~IsEmpty(K.link, Ready(p))
  BY <1>1, <1>4, HeadOf
<1>6. PICK u \in R : K.prio[u] = p /\ K.link[Ready(p)].next = Tq(u)
  BY <1>5, HeadOf
<1>7. J = [K EXCEPT !.next = u]
  BY <1>1, <1>6, NodeFacts DEF FindNext, p
<1> HIDE DEF J
<1>8. /\ J \in Kernel /\ Frame(J, K) /\ J.state = K.state /\ J.prio = K.prio
      /\ J.link = K.link /\ J.bmp = K.bmp /\ J.next = u
  BY <1>1, <1>6, <1>7 DEF Kernel, Frame
<1>9. Timers(J) = Timers(K)
  BY <1>8 DEF Frame, Timers
<1>10. Chosen(J, R)
  BY <1>3, <1>6, <1>8 DEF Chosen
<1>11. Sched(J, R, wq) /\ AtHead(J)
  BY <1>6, <1>8, <1>9, <1>10 DEF Sched, AtHead
<1> QED
  BY <1>8, <1>11 DEF J

\* The task leaves its ready list; the bit map is not yet up to date.
LEMMA UnlinkedIs ==
  ASSUME NEW K, NEW R, NEW wq, Sched(K, R, wq), NEW t \in R
  PROVE  LET U == Unlinked(K, t)
         IN  /\ U \in Kernel /\ Frame(U, K) /\ U.state = K.state /\ U.prio = K.prio
             /\ U.bmp = K.bmp /\ U.next = K.next
             /\ Listed(U.link, K.prio, R \ {t}, Timers(K), wq)
             /\ K.link[Ready(K.prio[t])].next # Tq(t)
                  => U.link[Ready(K.prio[t])].next = K.link[Ready(K.prio[t])].next
             /\ \A r \in Prio : r # K.prio[t] => U.link[Ready(r)] = K.link[Ready(r)]
<1> DEFINE L == RemoveEntry(K.link, Tq(t))
           W == Timers(K)
           U == Unlinked(K, t)
<1>0. /\ K \in Kernel /\ Listed(K.link, K.prio, R, W, wq) /\ t \in Task /\ K.prio[t] \in Prio
  BY KernelFields DEF Sched, Listed
<1>2. /\ Listed(L, K.prio, R \ {t}, W, wq)
      /\ K.link[Ready(K.prio[t])].next # Tq(t)
           => L[Ready(K.prio[t])].next = K.link[Ready(K.prio[t])].next
      /\ \A r \in Prio : r # K.prio[t] => L[Ready(r)] = K.link[Ready(r)]
  <2> DEFINE f == K.prio
             M == K.link
  <2>1. Listed(M, f, R, W, wq) /\ f[t] \in Prio
    BY <1>0
  <2> HIDE DEF f, M, W
  <2>2. LET A == RemoveEntry(M, Tq(t))
        IN  /\ Listed(A, f, R \ {t}, W, wq)
            /\ M[Ready(f[t])].next # Tq(t) => A[Ready(f[t])].next = M[Ready(f[t])].next
            /\ \A r \in Prio : r # f[t] => A[Ready(r)] = M[Ready(r)]
    BY <2>1, ReadyRemove
  <2> QED
    BY <2>2 DEF f, M
<1>3. L \in Memory(Node)
  BY <1>2 DEF Listed
<1>4. U = [K EXCEPT !.link = L]
  BY <1>0 DEF Unlinked, Kernel
<1> HIDE DEF L, U, W
<1>5. /\ U \in Kernel /\ Frame(U, K) /\ U.state = K.state /\ U.prio = K.prio
      /\ U.bmp = K.bmp /\ U.next = K.next /\ U.link = L
  BY <1>0, <1>3, <1>4 DEF Kernel, Memory, Frame
<1> QED
  BY <1>2, <1>5 DEF U, W

\* task_to_non_runnable, for a task that is not the only one that is ready.
LEMMA ToNonRunnableIs ==
  ASSUME NEW K, NEW R, NEW wq, Sched(K, R, wq), NEW t \in R, R # {t}
  PROVE  LET J == ToNonRunnable(K, t)
         IN  /\ Sched(J, R \ {t}, wq) /\ Frame(J, K)
             /\ J.state = K.state /\ J.prio = K.prio
             /\ AtHead(K) => AtHead(J)
             /\ AtHead(K) /\ K.next # t => J.next = K.next
<1> DEFINE p == K.prio[t]
           U == Unlinked(K, t)
           V == [U EXCEPT !.bmp = @ \ {p}]
           W == Timers(K)
           S == R \ {t}
           J == ToNonRunnable(K, t)
<1>0. /\ K \in Kernel /\ R \subseteq Task /\ p \in Prio /\ S # {}
      /\ K.bmp = {K.prio[u] : u \in R} /\ K.prio \in [Task -> Prio]
      /\ K.next \in R /\ \A u \in R : K.prio[K.next] <= K.prio[u]
  BY KernelFields DEF Sched, Chosen, Listed
<1>1. /\ U \in Kernel /\ Frame(U, K) /\ U.state = K.state /\ U.prio = K.prio
      /\ U.bmp = K.bmp /\ U.next = K.next
      /\ Listed(U.link, K.prio, S, W, wq)
      /\ K.link[Ready(p)].next # Tq(t) => U.link[Ready(p)].next = K.link[Ready(p)].next
      /\ \A r \in Prio : r # p => U.link[Ready(r)] = K.link[Ready(r)]
  BY UnlinkedIs, SMTT(40)
<1>2. /\ V \in Kernel /\ Frame(V, K) /\ V.state = K.state /\ V.prio = K.prio
      /\ V.bmp = K.bmp \ {p} /\ V.next = K.next /\ V.link = U.link
  <2> HIDE DEF U, p
  <2> QED
    BY <1>1 DEF Kernel, Frame
<1>3. IsEmpty(U.link, Ready(p)) <=> ~\E u \in S : K.prio[u] = p
  BY <1>0, <1>1, HeadOf
<1>4. J = IF IsEmpty(U.link, Ready(p)) THEN FindNext(V)
          ELSE IF U.next = t THEN [U EXCEPT !.next = TaskOf(U.link[Ready(p)].next)]
          ELSE U
  BY DEF ToNonRunnable, Leaves
<1> HIDE DEF U, V, J
<1>5. Timers(U) = W /\ Timers(V) = W
  BY <1>1, <1>2 DEF Frame, Timers
<1>6. \A u \in Task : K.prio[u] \in Nat
  BY <1>0, ConstantFacts
<1>7. CASE IsEmpty(U.link, Ready(p))
  <2>1. V.bmp = {V.prio[u] : u \in S}
    BY <1>0, <1>2, <1>3, <1>7
  <2>2. Sched(J, S, wq) /\ Frame(J, V) /\ AtHead(J) /\ J.state = V.state /\ J.prio = V.prio /\ J.link = V.link
    BY <1>0, <1>1, <1>2, <1>4, <1>5, <1>7, <2>1, FindNextIs
  <2>3. ASSUME AtHead(K), K.next # t PROVE J.next = K.next
    <3>1. K.next \in S /\ K.prio[K.next] # p /\ K.prio[K.next] \in Prio
      BY <1>0, <1>3, <1>7, <2>3
    <3>2. J.next \in S /\ \A u \in S : K.prio[J.next] <= K.prio[u]
      BY <2>2, <1>2 DEF Sched, Chosen
    <3>3. K.prio[J.next] = K.prio[K.next]
      BY <3>1, <3>2, <1>0, <1>6
    <3>4. J.link[Ready(K.prio[K.next])].next = Tq(K.next)
      BY <3>1, <2>2, <2>3, <1>1, <1>2 DEF AtHead
    <3>5. J.link[Ready(K.prio[K.next])].next = Tq(J.next)
      BY <3>3, <2>2, <1>2 DEF AtHead
    <3> QED
      BY <3>4, <3>5, NodeFacts
  <2>4. Frame(J, K)
    BY <2>2, <1>2 DEF Frame
  <2> QED
    BY <2>2, <2>3, <2>4, <1>2 DEF J
<1>8. CASE ~IsEmpty(U.link, Ready(p)) /\ K.next = t
  <2>1. PICK u \in S : K.prio[u] = p /\ U.link[Ready(p)].next = Tq(u)
    BY <1>8, <1>0, <1>1, HeadOf
  <2>2. J = [U EXCEPT !.next = u]
    BY <1>1, <1>4, <1>8, <2>1, NodeFacts
  <2>3. /\ J \in Kernel /\ Frame(J, K) /\ J.state = K.state /\ J.prio = K.prio
        /\ J.bmp = K.bmp /\ J.next = u /\ J.link = U.link
    BY <1>0, <1>1, <2>2 DEF Kernel, Frame
  <2>4. J.bmp = {J.prio[v] : v \in S}
    BY <2>1, <2>3, <1>0
  <2>5. Chosen(J, S)
    BY <2>1, <2>3, <1>0, <1>8 DEF Chosen
  <2>6. Timers(J) = W
    BY <2>3 DEF Frame, Timers
  <2>7. Sched(J, S, wq) /\ AtHead(J)
    BY <2>1, <2>3, <2>4, <2>5, <2>6, <1>1 DEF Sched, AtHead
  <2> QED
    BY <2>3, <2>7, <1>8 DEF J
<1>9. CASE ~IsEmpty(U.link, Ready(p)) /\ K.next # t
  <2>1. J = U
    BY <1>1, <1>4, <1>9
  <2>2. J.bmp = {J.prio[v] : v \in S}
    BY <2>1, <1>0, <1>1, <1>3, <1>9
  <2>3. Chosen(J, S)
    BY <2>1, <1>0, <1>1, <1>9 DEF Chosen
  <2>4. Sched(J, S, wq)
    BY <2>1, <2>2, <2>3, <1>1, <1>5 DEF Sched
  <2>5. ASSUME AtHead(K) PROVE AtHead(J)
    <3>1. CASE K.prio[K.next] = p
      <4>1. K.link[Ready(p)].next # Tq(t)
        BY <3>1, <2>5, <1>9, NodeFacts DEF AtHead
      <4> QED
        BY <4>1, <3>1, <2>1, <2>5, <1>1 DEF AtHead
    <3>2. CASE K.prio[K.next] # p
      BY <3>2, <2>1, <2>5, <1>0, <1>1 DEF AtHead
    <3> QED
      BY <3>1, <3>2
  <2> QED
    BY <2>1, <2>4, <2>5, <1>1 DEF J
<1> QED
  BY <1>7, <1>8, <1>9

\* The task is moved to the ready list of another priority.
LEMMA MovedIs ==
  ASSUME NEW K, NEW R, NEW wq, Sched(K, R, wq), NEW t \in R, NEW p \in Prio
  PROVE  LET V == Moved(Unlinked(K, t), t, K.prio[t], p)
         IN  /\ V \in Kernel /\ Frame(V, K) /\ V.state = K.state /\ V.next = K.next
             /\ V.prio = [K.prio EXCEPT ![t] = p]
             /\ Listed(V.link, V.prio, R, Timers(V), wq)
             /\ V.bmp = {V.prio[u] : u \in R}
             /\ (~\E u \in R \ {t} : K.prio[u] = p) => V.link[Ready(p)].next = Tq(t)
             /\ AtHead(K) /\ K.next # t
                  => V.link[Ready(K.prio[K.next])].next = Tq(K.next)
<1> DEFINE old == K.prio[t]
           U == Unlinked(K, t)
           V == Moved(U, t, old, p)
           W == Timers(K)
           S == R \ {t}
           g == [K.prio EXCEPT ![t] = p]
           b == (IF IsEmpty(U.link, Ready(old)) THEN U.bmp \ {old} ELSE U.bmp) \cup {p}
           L == AddTail(U.link, Ready(p), Tq(t))
<1>0. /\ K \in Kernel /\ R \subseteq Task /\ t \in Task /\ old \in Prio /\ t \notin S /\ t \notin Queued(wq)
      /\ K.bmp = {K.prio[u] : u \in R} /\ K.prio \in [Task -> Prio]
      /\ K.next \in R /\ \A u \in R : K.prio[K.next] <= K.prio[u]
  BY KernelFields DEF Sched, Chosen, Listed
<1>1. /\ U \in Kernel /\ Frame(U, K) /\ U.state = K.state /\ U.prio = K.prio
      /\ U.bmp = K.bmp /\ U.next = K.next
      /\ Listed(U.link, K.prio, S, W, wq)
      /\ K.link[Ready(old)].next # Tq(t) => U.link[Ready(old)].next = K.link[Ready(old)].next
      /\ \A r \in Prio : r # old => U.link[Ready(r)] = K.link[Ready(r)]
  BY UnlinkedIs
<1>2. g[t] = p /\ (\A u \in S : g[u] = K.prio[u]) /\ g \in [Task -> Prio]
  BY <1>0
<1>3. IsEmpty(U.link, Ready(old)) <=> ~\E u \in S : K.prio[u] = old
  BY <1>0, <1>1, HeadOf
<1>4. b = {g[u] : u \in R}
  <2> HIDE DEF U, g
  <2>1. \A u \in R : u = t \/ u \in S
    OBVIOUS
  <2>2. CASE IsEmpty(U.link, Ready(old))
    BY <2>1, <2>2, <1>0, <1>1, <1>2, <1>3
  <2>3. CASE ~IsEmpty(U.link, Ready(old))
    BY <2>1, <2>3, <1>0, <1>1, <1>2, <1>3
  <2> QED
    BY <2>2, <2>3
<1> HIDE DEF U, g, old
<1>5. Listed(U.link, g, S, W, wq)
  BY <1>1, <1>2, ListedSame
<1>6. /\ Listed(L, g, S \cup {t}, W, wq)
      /\ L[Ready(p)].next = IF \E u \in S : g[u] = p THEN U.link[Ready(p)].next ELSE Tq(t)
      /\ \A r \in Prio : r # p => L[Ready(r)] = U.link[Ready(r)]
  <2> DEFINE M == U.link
  <2>1. Listed(M, g, S, W, wq) /\ g[t] \in Prio /\ g[t] = p /\ t \notin S /\ t \in Task /\ t \notin Queued(wq)
    BY <1>0, <1>2, <1>5
  <2> HIDE DEF M, W, S
  <2>2. LET A == AddTail(M, Ready(g[t]), Tq(t))
        IN  /\ Listed(A, g, S \cup {t}, W, wq)
            /\ A[Ready(g[t])].next = IF \E u \in S : g[u] = g[t] THEN M[Ready(g[t])].next ELSE Tq(t)
            /\ \A r \in Prio : r # g[t] => A[Ready(r)] = M[Ready(r)]
    BY <2>1, ReadyAdd
  <2> QED
    BY <2>1, <2>2 DEF M
<1>7. S \cup {t} = R
  OBVIOUS
<1>8. V = [U EXCEPT !.prio[t] = p, !.link = L, !.bmp = b]
  BY <1>1 DEF Moved, Kernel
<1>9. L \in Memory(Node) /\ b \in SUBSET Prio
  BY <1>0, <1>2, <1>4, <1>6 DEF Listed
<1> HIDE DEF V, L, b
<1>10. /\ V \in Kernel /\ Frame(V, K) /\ V.state = K.state /\ V.next = K.next
       /\ V.prio = g /\ V.link = L /\ V.bmp = b
  BY <1>0, <1>1, <1>8, <1>9 DEF Kernel, Memory, Frame, g
<1>11. Timers(V) = W
  BY <1>10 DEF Frame, Timers
<1>12. (~\E u \in S : K.prio[u] = p) => V.link[Ready(p)].next = Tq(t)
  BY <1>2, <1>6, <1>10
<1>13. ASSUME AtHead(K), K.next # t PROVE V.link[Ready(K.prio[K.next])].next = Tq(K.next)
  <2> DEFINE r == K.prio[K.next]
  <2>0. r \in Prio /\ K.next \in S /\ K.link[Ready(r)].next = Tq(K.next)
    BY <1>0, <1>13 DEF AtHead
  <2>1. U.link[Ready(r)].next = Tq(K.next)
    <3>1. Tq(K.next) # Tq(t)
      BY <1>13, NodeFacts
    <3> QED
      BY <3>1, <2>0, <1>1
  <2>2. CASE r = p
    <3>1. \E u \in S : g[u] = p
      BY <2>0, <2>2, <1>2
    <3> QED
      BY <3>1, <2>1, <2>2, <1>6, <1>10
  <2>3. CASE r # p
    BY <2>0, <2>1, <2>3, <1>6, <1>10
  <2> QED
    BY <2>2, <2>3
<1>14. Listed(V.link, V.prio, R, Timers(V), wq)
  BY <1>6, <1>7, <1>10, <1>11
<1>15. V.bmp = {V.prio[u] : u \in R}
  BY <1>4, <1>10
<1>16. V.prio = [K.prio EXCEPT ![t] = p]
  BY <1>10 DEF g
<1> QED
  BY <1>10, <1>12, <1>13, <1>14, <1>15, <1>16 DEF V, U, old

\* change_running_task_priority keeps the ready tasks and the choice right.
LEMMA ChangeRunningIs ==
  ASSUME NEW K, NEW R, NEW wq, Sched(K, R, wq), NEW t \in R, NEW p \in Prio
  PROVE  LET J == ChangeRunning(K, t, p)
         IN  /\ Sched(J, R, wq) /\ Frame(J, K) /\ J.state = K.state
             /\ J.prio = [K.prio EXCEPT ![t] = p]
             /\ AtHead(K) => AtHead(J)
<1> DEFINE old == K.prio[t]
           V == Moved(Unlinked(K, t), t, old, p)
           J == ChangeRunning(K, t, p)
<1>0. /\ K \in Kernel /\ R \subseteq Task /\ t \in Task /\ old \in Prio
      /\ K.prio \in [Task -> Prio] /\ \A u \in Task : K.prio[u] \in Nat
      /\ K.next \in R /\ \A u \in R : K.prio[K.next] <= K.prio[u]
      /\ p \in Nat /\ old \in Nat
  BY KernelFields, ConstantFacts DEF Sched, Chosen, Listed
<1>1. /\ V \in Kernel /\ Frame(V, K) /\ V.state = K.state /\ V.next = K.next
      /\ V.prio = [K.prio EXCEPT ![t] = p]
      /\ Listed(V.link, V.prio, R, Timers(V), wq)
      /\ V.bmp = {V.prio[u] : u \in R}
      /\ (~\E u \in R \ {t} : K.prio[u] = p) => V.link[Ready(p)].next = Tq(t)
      /\ AtHead(K) /\ K.next # t => V.link[Ready(K.prio[K.next])].next = Tq(K.next)
  BY MovedIs
<1>2. J = IF V.next = t THEN IF p >= old THEN FindNext(V) ELSE V
          ELSE IF p < V.prio[V.next] THEN [V EXCEPT !.next = t] ELSE V
  BY DEF ChangeRunning, Rechosen
<1> HIDE DEF V, J
<1>3. V.prio[t] = p /\ \A u \in R : u # t => V.prio[u] = K.prio[u]
  BY <1>0, <1>1
<1>4. CASE K.next = t /\ p >= old
  <2>1. J = FindNext(V)
    BY <1>1, <1>2, <1>4
  <2>2. Sched(J, R, wq) /\ Frame(J, V) /\ AtHead(J) /\ J.state = V.state /\ J.prio = V.prio
    BY <2>1, <1>1, FindNextIs
  <2> QED
    BY <2>2, <1>1 DEF Frame, J
<1>5. CASE K.next = t /\ ~(p >= old)
  <2>1. J = V
    BY <1>1, <1>2, <1>5
  <2>2. Chosen(V, R)
    BY <1>0, <1>1, <1>3, <1>5 DEF Chosen
  <2>3. ~\E u \in R \ {t} : K.prio[u] = p
    BY <1>0, <1>5
  <2>4. AtHead(V)
    BY <2>3, <1>1, <1>3, <1>5 DEF AtHead
  <2> QED
    BY <2>1, <2>2, <2>4, <1>1 DEF Sched, J
<1>6. CASE K.next # t /\ p < K.prio[K.next]
  <2>1. J = [V EXCEPT !.next = t]
    BY <1>0, <1>1, <1>2, <1>3, <1>6
  <2>2. /\ J \in Kernel /\ Frame(J, K) /\ J.state = K.state /\ J.next = t
        /\ J.prio = V.prio /\ J.link = V.link /\ J.bmp = V.bmp
    BY <2>1, <1>0, <1>1 DEF Kernel, Frame
  <2>3. Chosen(J, R)
    BY <2>2, <1>0, <1>3, <1>6 DEF Chosen
  <2>4. ~\E u \in R \ {t} : K.prio[u] = p
    BY <1>0, <1>6
  <2>5. AtHead(J)
    BY <2>2, <2>4, <1>1, <1>3 DEF AtHead
  <2>6. Timers(J) = Timers(V)
    BY <2>2, <1>1 DEF Frame, Timers
  <2>7. Sched(J, R, wq)
    BY <2>2, <2>3, <2>6, <1>1 DEF Sched
  <2> QED
    BY <2>2, <2>5, <2>7, <1>1 DEF J
<1>7. CASE K.next # t /\ ~(p < K.prio[K.next])
  <2>1. J = V
    BY <1>0, <1>1, <1>2, <1>3, <1>7
  <2>2. Chosen(V, R)
    BY <1>0, <1>1, <1>3, <1>7 DEF Chosen
  <2>3. AtHead(K) => AtHead(V)
    BY <1>0, <1>1, <1>3, <1>7 DEF AtHead
  <2> QED
    BY <2>1, <2>2, <2>3, <1>1 DEF Sched, J
<1> QED
  BY <1>4, <1>5, <1>6, <1>7

\* task_set_dormant_state, for a task in no list: its priority is its base one.
LEMMA DormantIs ==
  ASSUME NEW K, NEW R, NEW wq, Sched(K, R, wq), NEW t \in Task, t \notin R,
         t \notin Queued(wq), K.tick[t] = Forever
  PROVE  LET J == Dormant(K, t)
         IN  /\ Sched(J, R, wq) /\ J.next = K.next
             /\ J.state = [K.state EXCEPT ![t] = "dormant"]
             /\ J.prio = [K.prio EXCEPT ![t] = Base[t]]
             /\ J.reason = [K.reason EXCEPT ![t] = "none"]
             /\ J.tick = K.tick /\ J.activate = K.activate
             /\ J.exists = K.exists /\ J.curr = K.curr /\ J.request = K.request
             /\ J.pwait = [K.pwait EXCEPT ![t] = Null] /\ J.rc = [K.rc EXCEPT ![t] = "ok"]
             /\ J.elem = [K.elem EXCEPT ![t] = Null] /\ J.ewait = [K.ewait EXCEPT ![t] = NoEvent]
             /\ AtHead(K) => AtHead(J)
<1> DEFINE X == {Tq(t), Tm(t), Bq(t), Held(t)}
           L == [n \in Node |-> IF n \in X THEN [next |-> n, prev |-> n] ELSE K.link[n]]
           W == Timers(K)
           J == Dormant(K, t)
<1>0. /\ K \in Kernel /\ Listed(K.link, K.prio, R, W, wq) /\ R \subseteq Task
      /\ K.bmp = {K.prio[u] : u \in R} /\ K.prio \in [Task -> Prio]
      /\ K.next \in R /\ \A u \in R : K.prio[K.next] <= K.prio[u]
  BY KernelFields DEF Sched, Chosen, Listed
<1>1. /\ Listed(L, K.prio, R, W, wq)
      /\ \A r \in Prio : L[Ready(r)] = K.link[Ready(r)]
  <2> DEFINE M == K.link
             f == K.prio
  <2>1. Listed(M, f, R, W, wq) /\ t \notin W
    BY <1>0 DEF Timers
  <2> HIDE DEF M, f, W
  <2>2. LET Y == {Tq(t), Tm(t), Bq(t), Held(t)}
            A == [n \in Node |-> IF n \in Y THEN [next |-> n, prev |-> n] ELSE M[n]]
        IN  /\ Listed(A, f, R, W, wq)
            /\ \A r \in Prio : A[Ready(r)] = M[Ready(r)]
    BY <2>1, WasReset
  <2> QED
    BY <2>2 DEF M, f
<1>2. L \in Memory(Node)
  BY <1>1 DEF Listed
<1>3. J = [K EXCEPT !.link = L,
                !.pwait[t] = Null, !.blk[t] = Null, !.prio[t] = Base[t],
                !.state[t] = "dormant", !.reason[t] = "none", !.rc[t] = "ok",
                !.ewait[t] = NoEvent, !.elem[t] = Null,
                !.tick[t] = Forever, !.wakeup[t] = 0, !.slice[t] = 0]
  BY <1>0, ZenonT(60) DEF Dormant, Kernel
<1> HIDE DEF L, J, X
<1>4. Base[t] \in Prio /\ NoEvent \in [pattern: SUBSET Flag, or: BOOLEAN]
  BY ConstantFacts DEF NoEvent
<1>5. J \in Kernel
  <2>1. /\ J.state = [K.state EXCEPT ![t] = "dormant"]
        /\ J.prio = [K.prio EXCEPT ![t] = Base[t]]
        /\ J.reason = [K.reason EXCEPT ![t] = "none"] /\ J.rc = [K.rc EXCEPT ![t] = "ok"]
        /\ J.pwait = [K.pwait EXCEPT ![t] = Null] /\ J.blk = [K.blk EXCEPT ![t] = Null]
        /\ J.tick = [K.tick EXCEPT ![t] = Forever]
        /\ J.slice = [K.slice EXCEPT ![t] = 0] /\ J.wakeup = [K.wakeup EXCEPT ![t] = 0]
        /\ J.activate = K.activate /\ J.exists = K.exists
        /\ J.elem = [K.elem EXCEPT ![t] = Null] /\ J.ewait = [K.ewait EXCEPT ![t] = NoEvent]
        /\ J.holder = K.holder /\ J.attr = K.attr /\ J.link = L /\ J.bmp = K.bmp
        /\ J.next = K.next /\ J.curr = K.curr /\ J.request = K.request
    BY <1>0, <1>3 DEF Kernel
  <2>2. /\ J.state \in [Task -> State] /\ J.prio \in [Task -> Prio]
        /\ J.reason \in [Task -> Reason] /\ J.rc \in [Task -> Rc]
        /\ J.pwait \in [Task -> WaitQ \cup {Null}] /\ J.blk \in [Task -> Task \cup {Null}]
        /\ J.tick \in [Task -> Nat \cup {Forever}]
        /\ J.slice \in [Task -> Nat] /\ J.wakeup \in [Task -> 0 .. 1]
        /\ J.activate \in [Task -> 0 .. 1] /\ J.exists \in [Task -> BOOLEAN]
        /\ J.elem \in [Task -> Elem \cup {Null}]
    BY <2>1, <1>0, <1>4 DEF Kernel, State, Reason, Rc
  <2>3. /\ J.ewait \in [Task -> [pattern: SUBSET Flag, or: BOOLEAN]]
        /\ J.holder \in [Mutex -> Task \cup {Null}]
        /\ J.attr \in [Mutex -> {"inherit", "ceiling"}]
        /\ J.link \in [Node -> [next: Node, prev: Node]] /\ J.bmp \in SUBSET Prio
        /\ J.next \in Task /\ J.curr \in Task /\ J.request \in BOOLEAN
    BY <2>1, <1>0, <1>2, <1>4 DEF Kernel, Memory
  <2>4. J = [state |-> J.state, prio |-> J.prio, reason |-> J.reason, rc |-> J.rc,
             pwait |-> J.pwait, blk |-> J.blk, tick |-> J.tick, slice |-> J.slice,
             wakeup |-> J.wakeup, activate |-> J.activate, exists |-> J.exists,
             elem |-> J.elem, ewait |-> J.ewait, holder |-> J.holder, attr |-> J.attr,
             link |-> J.link, bmp |-> J.bmp, next |-> J.next, curr |-> J.curr,
             request |-> J.request]
    BY <1>0, <1>3 DEF Kernel
  <2> QED
    BY <2>2, <2>3, <2>4 DEF Kernel
<1>6. /\ J.link = L /\ J.bmp = K.bmp /\ J.next = K.next
      /\ J.state = [K.state EXCEPT ![t] = "dormant"]
      /\ J.prio = [K.prio EXCEPT ![t] = Base[t]]
      /\ J.reason = [K.reason EXCEPT ![t] = "none"]
      /\ J.tick = [K.tick EXCEPT ![t] = Forever] /\ J.activate = K.activate
      /\ J.exists = K.exists /\ J.curr = K.curr /\ J.request = K.request
  BY <1>0, <1>3 DEF Kernel
<1>w. /\ J.pwait = [K.pwait EXCEPT ![t] = Null] /\ J.rc = [K.rc EXCEPT ![t] = "ok"]
      /\ J.elem = [K.elem EXCEPT ![t] = Null] /\ J.ewait = [K.ewait EXCEPT ![t] = NoEvent]
  BY <1>0, <1>3 DEF Kernel
<1>7. J.tick = K.tick
  BY <1>0, <1>6, KernelFields
<1>8. \A u \in R : J.prio[u] = K.prio[u]
  BY <1>0, <1>6
<1>9. Listed(J.link, J.prio, R, Timers(J), wq)
  <2>1. Timers(J) = W
    BY <1>7 DEF Timers
  <2> DEFINE f == K.prio
             g == J.prio
  <2>2. Listed(L, f, R, W, wq) /\ \A u \in R : g[u] = f[u]
    BY <1>1, <1>8
  <2> HIDE DEF f, g, W
  <2>3. Listed(L, g, R, W, wq)
    BY <2>2, ListedSame
  <2> QED
    BY <2>1, <2>3, <1>6 DEF g
<1>10. Sched(J, R, wq)
  BY <1>0, <1>5, <1>6, <1>8, <1>9 DEF Sched, Chosen
<1>11. AtHead(K) => AtHead(J)
  BY <1>0, <1>1, <1>6, <1>8 DEF AtHead
<1> QED
  BY <1>6, <1>7, <1>10, <1>11, <1>w DEF J

\* A task that ends is ready again if an activation is pending.
RestartLeaves(J, K, R, wq, t) ==
  LET again == K.activate[t] > 0
  IN  /\ Sched(J, IF again THEN R \cup {t} ELSE R, wq)
      /\ J.state = [K.state EXCEPT ![t] = IF again THEN "runnable" ELSE "dormant"]
      /\ J.prio = [K.prio EXCEPT ![t] = Base[t]]
      /\ J.reason = [K.reason EXCEPT ![t] = "none"]
      /\ J.activate = [K.activate EXCEPT ![t] = 0]
      /\ J.tick = K.tick /\ J.exists = K.exists
      /\ J.curr = K.curr /\ J.request = K.request
      /\ J.pwait = [K.pwait EXCEPT ![t] = Null] /\ J.rc = [K.rc EXCEPT ![t] = "ok"]
      /\ J.elem = [K.elem EXCEPT ![t] = Null] /\ J.ewait = [K.ewait EXCEPT ![t] = NoEvent]
      /\ AtHead(K) => AtHead(J)
      /\ ~again => J.next = K.next
LEMMA RestartIs ==
  ASSUME NEW K, NEW R, NEW wq, Sched(K, R, wq), NEW t \in Task, t \notin R,
         t \notin Queued(wq), K.tick[t] = Forever
  PROVE  RestartLeaves(Restart(K, t), K, R, wq, t)
<1> DEFINE J == Restart(K, t)
           D == Dormant(K, t)
           A == [D EXCEPT !.activate[t] = @ - 1]
<1>0. K \in Kernel /\ K.state \in [Task -> State] /\ K.activate \in [Task -> 0 .. 1]
  BY KernelFields DEF Sched
<1>1. /\ Sched(D, R, wq) /\ D.next = K.next
      /\ D.state = [K.state EXCEPT ![t] = "dormant"]
      /\ D.prio = [K.prio EXCEPT ![t] = Base[t]]
      /\ D.reason = [K.reason EXCEPT ![t] = "none"]
      /\ D.tick = K.tick /\ D.activate = K.activate
      /\ D.exists = K.exists /\ D.curr = K.curr /\ D.request = K.request
      /\ D.pwait = [K.pwait EXCEPT ![t] = Null] /\ D.rc = [K.rc EXCEPT ![t] = "ok"]
      /\ D.elem = [K.elem EXCEPT ![t] = Null] /\ D.ewait = [K.ewait EXCEPT ![t] = NoEvent]
      /\ AtHead(K) => AtHead(D)
  BY DormantIs
<1>2. J = IF K.activate[t] > 0 THEN ToRunnable(A, t) ELSE D
  BY DEF Restart
<1> HIDE DEF J, D
<1>3. CASE ~(K.activate[t] > 0)
  <2>1. K.activate = [K.activate EXCEPT ![t] = 0]
    BY <1>0, <1>3
  <2>2. J = D
    BY <1>2, <1>3
  <2> QED
    BY <2>1, <2>2, <1>1, <1>3 DEF J, RestartLeaves
<1>4. CASE K.activate[t] > 0
  <2>1. D \in Kernel /\ D.activate[t] - 1 = 0 /\ D.activate \in [Task -> 0 .. 1]
    BY <1>0, <1>1, <1>4 DEF Sched
  <2>2. A = [D EXCEPT !.activate[t] = 0]
    BY <2>1 DEF Kernel
  <2> HIDE DEF A
  <2>6. A \in Kernel
    <3> DEFINE a == [D.activate EXCEPT ![t] = 0]
    <3>1. a \in [Task -> 0 .. 1]
      BY <2>1
    <3>2. A = [D EXCEPT !.activate = a]
      BY <2>1, <2>2 DEF Kernel
    <3> HIDE DEF a
    <3> QED
      BY <2>1, <3>1, <3>2 DEF Kernel
  <2>3. /\ A.next = D.next /\ A.state = D.state /\ A.prio = D.prio
        /\ A.reason = D.reason /\ A.tick = D.tick /\ A.exists = D.exists
        /\ A.curr = D.curr /\ A.request = D.request /\ A.link = D.link /\ A.bmp = D.bmp
        /\ A.activate = [D.activate EXCEPT ![t] = 0]
        /\ A.pwait = D.pwait /\ A.rc = D.rc /\ A.elem = D.elem /\ A.ewait = D.ewait
    BY <2>1, <2>2 DEF Kernel
  <2>4. Sched(A, R, wq) /\ (AtHead(D) => AtHead(A))
    BY <2>3, <2>6, <1>1 DEF Sched, AtHead, Chosen, Timers
  <2>5. /\ Sched(J, R \cup {t}, wq) /\ Frame(J, A)
        /\ J.state = [A.state EXCEPT ![t] = "runnable"] /\ J.prio = A.prio
        /\ AtHead(A) => AtHead(J)
    BY <2>4, <1>2, <1>4, ToRunnableIs
  <2>7. J.state = [K.state EXCEPT ![t] = "runnable"]
    BY <2>3, <2>5, <1>0, <1>1
  <2> QED
    BY <2>3, <2>4, <2>5, <2>7, <1>1, <1>4 DEF J, Frame, RestartLeaves
<1> QED
  BY <1>3, <1>4

\* task_wait_complete: the timer is off, the task is ready unless suspended.
LEMMA WaitEndsIs ==
  ASSUME NEW K, NEW R, NEW wq, Sched(K, R, wq), NEW t \in Task, t \notin R,
         t \notin Queued(wq)
  PROVE  LET J == WaitEnds(K, t)
         IN  /\ Sched(J, IF Suspended(K, t) THEN R ELSE R \cup {t}, wq)
             /\ J.state = [K.state EXCEPT ![t] = IF Suspended(K, t) THEN "suspend" ELSE "runnable"]
             /\ J.prio = K.prio
             /\ J.reason = [K.reason EXCEPT ![t] = "none"]
             /\ J.tick = [K.tick EXCEPT ![t] = Forever]
             /\ J.activate = K.activate /\ J.exists = K.exists
             /\ J.curr = K.curr /\ J.request = K.request
             /\ J.pwait = [K.pwait EXCEPT ![t] = Null] /\ J.rc = [K.rc EXCEPT ![t] = "ok"]
             /\ J.elem = K.elem /\ J.ewait = K.ewait
             /\ AtHead(K) => AtHead(J)
             /\ Suspended(K, t) => J.next = K.next
<1> DEFINE W == Timers(K)
           L == IF K.tick[t] = Forever THEN K.link ELSE RemoveEntry(K.link, Tm(t))
           K1 == [K EXCEPT !.reason[t] = "none", !.pwait[t] = Null, !.rc[t] = "ok",
                           !.link = IF K.tick[t] = Forever THEN @
                               ELSE RemoveEntry(@, Tm(t)),
                           !.tick[t] = Forever]
           J == WaitEnds(K, t)
<1>0. /\ K \in Kernel /\ Listed(K.link, K.prio, R, W, wq) /\ R \subseteq Task
      /\ K.bmp = {K.prio[u] : u \in R}
      /\ K.tick \in [Task -> Nat \cup {Forever}] /\ K.state \in [Task -> State]
      /\ K.prio \in [Task -> Prio]
      /\ K.next \in R /\ \A u \in R : K.prio[K.next] <= K.prio[u]
  BY KernelFields DEF Sched, Chosen, Listed
<1>1. /\ Listed(L, K.prio, R, W \ {t}, wq)
      /\ \A r \in Prio : L[Ready(r)] = K.link[Ready(r)]
  <2>1. CASE K.tick[t] = Forever
    <3>1. W \ {t} = W
      BY <2>1 DEF Timers
    <3> QED
      BY <2>1, <3>1, <1>0
  <2>2. CASE K.tick[t] # Forever
    <3> DEFINE M == K.link
               f == K.prio
    <3>1. Listed(M, f, R, W, wq) /\ t \in W
      BY <1>0, <2>2 DEF Timers
    <3> HIDE DEF M, f, W
    <3>2. LET A == RemoveEntry(M, Tm(t))
          IN  /\ Listed(A, f, R, W \ {t}, wq)
              /\ \A r \in Prio : A[Ready(r)] = M[Ready(r)]
      BY <3>1, TimedRemove
    <3> QED
      BY <2>2, <3>2 DEF M, f
  <2> QED
    BY <2>1, <2>2
<1>2. L \in Memory(Node)
  BY <1>1 DEF Listed
<1>3. K1 = [K EXCEPT !.reason[t] = "none", !.pwait[t] = Null, !.rc[t] = "ok",
                     !.link = L, !.tick[t] = Forever]
  BY <1>0 DEF Kernel
<1>4. J = IF Suspended(K, t) THEN [K1 EXCEPT !.state[t] = "suspend"] ELSE ToRunnable(K1, t)
  BY DEF WaitEnds
<1> HIDE DEF L, K1, J, W
<1>5. /\ K1 \in Kernel
      /\ K1.link = L /\ K1.bmp = K.bmp /\ K1.next = K.next /\ K1.state = K.state
      /\ K1.prio = K.prio /\ K1.reason = [K.reason EXCEPT ![t] = "none"]
      /\ K1.tick = [K.tick EXCEPT ![t] = Forever] /\ K1.activate = K.activate
      /\ K1.exists = K.exists /\ K1.curr = K.curr /\ K1.request = K.request
      /\ K1.pwait = [K.pwait EXCEPT ![t] = Null] /\ K1.rc = [K.rc EXCEPT ![t] = "ok"]
      /\ K1.elem = K.elem /\ K1.ewait = K.ewait
  BY <1>0, <1>2, <1>3 DEF Kernel, Memory, Reason, Rc
<1>6. Timers(K1) = W \ {t}
  BY <1>0, <1>5 DEF Timers, W
<1>7. Sched(K1, R, wq) /\ (AtHead(K) => AtHead(K1))
  BY <1>0, <1>1, <1>5, <1>6 DEF Sched, Chosen, AtHead
<1>8. CASE Suspended(K, t)
  <2>1. J = [K1 EXCEPT !.state[t] = "suspend"]
    BY <1>4, <1>8
  <2>2. /\ J \in Kernel /\ J.state = [K1.state EXCEPT ![t] = "suspend"]
        /\ J.link = K1.link /\ J.bmp = K1.bmp /\ J.next = K1.next /\ J.prio = K1.prio
        /\ Frame(J, K1)
    BY <2>1, <1>5 DEF Kernel, State, Frame
  <2>3. Timers(J) = Timers(K1)
    BY <2>2 DEF Timers, Frame
  <2>4. Sched(J, R, wq) /\ (AtHead(K1) => AtHead(J))
    BY <2>2, <2>3, <1>7 DEF Sched, Chosen, AtHead
  <2> QED
    BY <2>2, <2>4, <1>5, <1>7, <1>8 DEF J, Frame
<1>9. CASE ~Suspended(K, t)
  <2>1. J = ToRunnable(K1, t)
    BY <1>4, <1>9
  <2>2. /\ Sched(J, R \cup {t}, wq) /\ Frame(J, K1)
        /\ J.state = [K1.state EXCEPT ![t] = "runnable"] /\ J.prio = K1.prio
        /\ AtHead(K1) => AtHead(J)
    BY <2>1, <1>7, ToRunnableIs
  <2> QED
    BY <2>2, <1>5, <1>7, <1>9 DEF J, Frame
<1> QED
  BY <1>8, <1>9

\* task_curr_to_wait_action: the task leaves the ready list for the wait queue
\* q, if there is one, and for the timeout list, if its wait has a timeout.
WaitsIn(wq, q, t) == IF q = Null THEN wq ELSE [wq EXCEPT ![q] = Append(@, t)]
LEMMA CurrToWaitIs ==
  ASSUME NEW K, NEW R, NEW wq, Sched(K, R, wq), K.curr \in R, R # {K.curr}, K.tick[K.curr] = Forever,
         NEW q \in WaitQ \cup {Null}, NEW why \in Reason,
         NEW timeout \in (Nat \ {0}) \cup {Forever}
  PROVE  LET t == K.curr
             J == CurrToWait(K, q, why, timeout)
         IN  /\ Sched(J, R \ {t}, WaitsIn(wq, q, t))
             /\ J.state = [K.state EXCEPT ![t] = "wait"]
             /\ J.prio = K.prio
             /\ J.reason = [K.reason EXCEPT ![t] = why]
             /\ J.tick = [K.tick EXCEPT ![t] = timeout]
             /\ J.activate = K.activate /\ J.exists = K.exists
             /\ J.curr = K.curr /\ J.request = K.request
             /\ J.pwait = [K.pwait EXCEPT ![t] = IF q = Null THEN @ ELSE q]
             /\ J.rc = K.rc /\ J.elem = K.elem /\ J.ewait = K.ewait
             /\ AtHead(K) => AtHead(J)
<1> DEFINE t == K.curr
           W == Timers(K)
           U == ToNonRunnable(K, t)
           Lq1 == IF q = Null THEN U.link ELSE AddTail(U.link, Wait(q), Tq(t))
           L == IF timeout = Forever THEN Lq1 ELSE AddTail(Lq1, TimeoutList, Tm(t))
           new == WaitsIn(wq, q, t)
           J == CurrToWait(K, q, why, timeout)
<1>0. /\ K \in Kernel /\ t \in Task /\ K.state \in [Task -> State] /\ t \notin Queued(wq)
      /\ K.reason \in [Task -> Reason] /\ K.tick \in [Task -> Nat \cup {Forever}]
  <2>1. K \in Kernel /\ t \in Task /\ t \notin Queued(wq)
    BY KernelFields DEF Sched, Listed
  <2> QED
    BY <2>1, KernelFields
<1>1. /\ Sched(U, R \ {t}, wq) /\ Frame(U, K) /\ U.state = K.state /\ U.prio = K.prio
      /\ AtHead(K) => AtHead(U)
  BY ToNonRunnableIs
<1>2. J = [U EXCEPT !.state[t] = "wait", !.reason[t] = why, !.tick[t] = timeout,
                    !.pwait[t] = IF q = Null THEN @ ELSE q,
                    !.link = IF timeout = Forever THEN IF q = Null THEN @ ELSE AddTail(@, Wait(q), Tq(t))
                             ELSE AddTail(IF q = Null THEN @ ELSE AddTail(@, Wait(q), Tq(t)), TimeoutList, Tm(t))]
  BY DEF CurrToWait
<1>3. J = [U EXCEPT !.state[t] = "wait", !.reason[t] = why, !.tick[t] = timeout,
                    !.pwait[t] = IF q = Null THEN @ ELSE q, !.link = L]
  BY <1>1, <1>2 DEF Kernel, Sched
<1> HIDE DEF U, J
<1>4. /\ U \in Kernel /\ Listed(U.link, K.prio, R \ {t}, W, wq) /\ U.bmp = {U.prio[u] : u \in R \ {t}}
      /\ Chosen(U, R \ {t}) /\ t \notin W
  <2>1. Timers(U) = W
    BY <1>1 DEF Frame, Timers
  <2>2. t \notin W
    BY DEF Timers
  <2> HIDE DEF W
  <2> QED
    BY <2>1, <2>2, <1>1 DEF Sched
<1> DEFINE V == IF timeout = Forever THEN W ELSE W \cup {t}
<1>a. /\ Listed(Lq1, K.prio, R \ {t}, W, new)
      /\ \A r \in Prio : Lq1[Ready(r)] = U.link[Ready(r)]
  <2>1. CASE q = Null
    BY <2>1, <1>4 DEF WaitsIn
  <2>2. CASE q # Null
    <3> DEFINE M == U.link
               f == K.prio
               S == R \ {t}
    <3>1. Listed(M, f, S, W, wq) /\ q \in WaitQ /\ t \in Task /\ t \notin S /\ t \notin Queued(wq)
      BY <1>0, <1>4, <2>2
    <3> HIDE DEF M, f, W, S, t
    <3>2. LET A == AddTail(M, Wait(q), Tq(t))
          IN  /\ Listed(A, f, S, W, [wq EXCEPT ![q] = Append(@, t)])
              /\ \A r \in Prio : A[Ready(r)] = M[Ready(r)]
      BY <3>1, WaitAdd
    <3> QED
      BY <2>2, <3>2 DEF M, f, S, WaitsIn
  <2> QED
    BY <2>1, <2>2
<1> HIDE DEF Lq1, new
<1>5. /\ Listed(L, K.prio, R \ {t}, V, new)
      /\ \A r \in Prio : L[Ready(r)] = U.link[Ready(r)]
  <2>1. CASE timeout = Forever
    BY <2>1, <1>a
  <2>2. CASE timeout # Forever
    <3> DEFINE f == K.prio
               S == R \ {t}
    <3>1. Listed(Lq1, f, S, W, new) /\ t \notin W /\ t \in Task
      BY <1>0, <1>4, <1>a
    <3> HIDE DEF f, W, S, t
    <3>2. LET A == AddTail(Lq1, TimeoutList, Tm(t))
          IN  /\ Listed(A, f, S, W \cup {t}, new)
              /\ \A r \in Prio : A[Ready(r)] = Lq1[Ready(r)]
      BY <3>1, TimedAdd
    <3> QED
      BY <2>2, <3>2, <1>a DEF f, S
  <2> QED
    BY <2>1, <2>2
<1>6. L \in Memory(Node)
  BY <1>5 DEF Listed
<1> HIDE DEF L
<1>7. /\ J.link = L /\ J.bmp = U.bmp /\ J.next = U.next
      /\ J.state = [U.state EXCEPT ![t] = "wait"]
      /\ J.reason = [U.reason EXCEPT ![t] = why]
      /\ J.tick = [U.tick EXCEPT ![t] = timeout] /\ J.prio = U.prio
      /\ J.activate = U.activate /\ J.exists = U.exists /\ J.curr = U.curr /\ J.request = U.request
      /\ J.pwait = [U.pwait EXCEPT ![t] = IF q = Null THEN @ ELSE q]
      /\ J.rc = U.rc /\ J.elem = U.elem /\ J.ewait = U.ewait
  <2> HIDE DEF t
  <2> QED
    BY <1>0, <1>3, <1>4, <1>6 DEF Kernel
<1>12. J \in Kernel
  <2> DEFINE s == [U.state EXCEPT ![t] = "wait"]
             r == [U.reason EXCEPT ![t] = why]
             c == [U.tick EXCEPT ![t] = timeout]
             w == [U.pwait EXCEPT ![t] = IF q = Null THEN @ ELSE q]
  <2>1. s \in [Task -> State] /\ r \in [Task -> Reason] /\ c \in [Task -> Nat \cup {Forever}]
    BY <1>0, <1>4, KernelFields DEF State
  <2>2. w \in [Task -> WaitQ \cup {Null}]
    <3>1. U.pwait \in [Task -> WaitQ \cup {Null}]
      BY <1>4, KernelFields
    <3> QED
      BY <3>1, <1>0
  <2>3. J = [U EXCEPT !.state = s, !.reason = r, !.tick = c, !.pwait = w, !.link = L]
    BY <1>3, <1>4 DEF Kernel
  <2> HIDE DEF s, r, c, w
  <2> QED
    BY <2>1, <2>2, <2>3, <1>4, <1>6 DEF Kernel, Memory
<1>8. Timers(J) = V
  BY <1>0, <1>1, <1>7 DEF Timers, Frame
<1>9. Sched(J, R \ {t}, new)
  BY <1>1, <1>4, <1>5, <1>7, <1>8, <1>12 DEF Sched, Chosen
<1>10. U.next \in Task /\ U.prio[U.next] \in Prio
  BY <1>4, KernelFields
<1>11. AtHead(U) => AtHead(J)
  BY <1>10, <1>5, <1>7 DEF AtHead
<1> QED
  BY <1>1, <1>7, <1>9, <1>11 DEF J, Frame, new

\* A task is taken out of a wait queue.
LEMMA TakenIs ==
  ASSUME NEW K, NEW R, NEW wq, Sched(K, R, wq), NEW q \in WaitQ, NEW m \in 1 .. Len(wq[q])
  PROVE  LET J == [K EXCEPT !.link = RemoveEntry(@, Tq(wq[q][m]))]
             new == [wq EXCEPT ![q] = Without(@, m)]
         IN  /\ Sched(J, R, new) /\ Queued(new) = Queued(wq) \ {wq[q][m]}
             /\ Frame(J, K) /\ J.state = K.state /\ J.prio = K.prio /\ J.next = K.next
             /\ AtHead(K) => AtHead(J)
<1> DEFINE L == RemoveEntry(K.link, Tq(wq[q][m]))
           J == [K EXCEPT !.link = RemoveEntry(@, Tq(wq[q][m]))]
           new == [wq EXCEPT ![q] = Without(@, m)]
           W == Timers(K)
<1>0. /\ K \in Kernel /\ Listed(K.link, K.prio, R, W, wq) /\ K.bmp = {K.prio[u] : u \in R} /\ Chosen(K, R)
      /\ K.next \in Task /\ K.prio[K.next] \in Prio
  BY KernelFields DEF Sched
<1>1. /\ Listed(L, K.prio, R, W, new) /\ Queued(new) = Queued(wq) \ {wq[q][m]}
      /\ \A r \in Prio : L[Ready(r)] = K.link[Ready(r)]
  <2> DEFINE M == K.link
             f == K.prio
  <2> HIDE DEF M, f, W
  <2>1. Listed(M, f, R, W, wq)
    BY <1>0 DEF M, f
  <2>2. WaitOut(M, f, R, W, wq, q, m)
    BY <2>1, WaitRemove
  <2> QED
    BY <2>2 DEF WaitOut, M, f
<1>2. L \in Memory(Node)
  BY <1>1 DEF Listed
<1>3. J = [K EXCEPT !.link = L]
  BY <1>0 DEF Kernel
<1> HIDE DEF L, J, W, new
<1>4. /\ J \in Kernel /\ Frame(J, K) /\ J.state = K.state /\ J.prio = K.prio
      /\ J.bmp = K.bmp /\ J.next = K.next /\ J.link = L
  BY <1>0, <1>2, <1>3 DEF Kernel, Memory, Frame
<1>5. Timers(J) = W
  BY <1>4 DEF Frame, Timers, W
<1>6. Sched(J, R, new) /\ (AtHead(K) => AtHead(J))
  BY <1>0, <1>1, <1>4, <1>5 DEF Sched, Chosen, AtHead
<1> QED
  BY <1>1, <1>4, <1>6 DEF J, new

\* queue_remove_head takes the first task out of a wait queue.
LEMMA HeadTaken ==
  ASSUME NEW K, NEW R, NEW wq, Sched(K, R, wq), NEW q \in WaitQ, wq[q] # <<>>
  PROVE  /\ 1 \in 1 .. Len(wq[q])
         /\ [K EXCEPT !.link = RemoveHead(@, Wait(q))] = [K EXCEPT !.link = RemoveEntry(@, Tq(wq[q][1]))]
<1>1. K \in Kernel /\ K.link \in Memory(Node) /\ WaitLists(K.link, wq)
  BY KernelFields DEF Sched, Listed
<1>2. WaitWalkIs(K.link, q, wq[q])
  BY <1>1, WaitWalk
<1>3. 1 \in 1 .. Len(wq[q]) /\ RemoveHead(K.link, Wait(q)) = RemoveEntry(K.link, Tq(wq[q][1]))
  BY <1>2 DEF WaitWalkIs
<1>4. K = [K EXCEPT !.link = K.link]
  BY <1>1 DEF Kernel
<1> QED
  BY <1>1, <1>3 DEF Kernel

-----------------------------------------------------------------------------
(* What holds of the kernel's data between any two steps of a service.  A  *)
(* task waits in the queue of an object, pwait, or it sleeps.  v: a task   *)
(* whose wait is about to end, which is in no queue any longer.            *)

Runnables(K) == {t \in Task : K.state[t] = "runnable"}

\* The tasks of the wait queues in their order.
Queues(K) ==
  [q \in WaitQ |-> [i \in DOMAIN Entries(K, Wait(q)) |-> TaskOf(Entries(K, Wait(q))[i])]]
In(wq, q, t) == \E i \in 1 .. Len(wq[q]) : wq[q][i] = t

\* What a task that waits in a queue waits for.
Why(q) == IF q = "sem" THEN "sem" ELSE IF q = "send" THEN "wsend"
          ELSE IF q = "receive" THEN "wreceive" ELSE IF q = "mem" THEN "wfixmem"
          ELSE "event"

\* What only services the program uses bring about.
Called(K, t) ==
  /\ K.activate[t] > 0 => services \cap {"activate", "iactivate"} # {}
  /\ Suspended(K, t) => "suspend" \in services
OneTask(K, wq, t) ==
  /\ ~K.exists[t] => K.state[t] = "dormant"
  /\ K.tick[t] # Forever => Waiting(K, t) /\ K.pwait[t] = Null /\ K.tick[t] > 0
  /\ K.reason[t] = IF ~Waiting(K, t) THEN "none"
                   ELSE IF K.pwait[t] = Null THEN "sleep" ELSE Why(K.pwait[t])
  /\ K.pwait[t] # Null => /\ Waiting(K, t)
                          /\ services \cap {"release_wait", "irelease_wait"} = {}
  /\ Waiting(K, t) /\ K.pwait[t] = Null => "sleep" \in services
  /\ \A q \in WaitQ : In(wq, q, t) <=> K.pwait[t] = q
  /\ Called(K, t)
Tasks(K) == \A t \in Task : OneTask(K, Queues(K), t)

SoundBut(K, wq, v) ==
  /\ Sched(K, Runnables(K), wq)
  /\ K.state[Idle] = "runnable"
  /\ \A t \in Task : t # v => OneTask(K, wq, t)
Leaving(K, wq, v) ==
  /\ K.exists[v] /\ Waiting(K, v) /\ K.reason[v] \notin ByMutex
  /\ v \notin Queued(wq) /\ Called(K, v)
Sound(K) == SoundBut(K, Queues(K), Wild)

\* What the service a task has called sees of its wait.
View(J, K, t) ==
  /\ J.pwait[t] = K.pwait[t] /\ J.rc[t] = K.rc[t] /\ J.elem[t] = K.elem[t]
  /\ J.ewait[t] = K.ewait[t] /\ J.reason[t] = K.reason[t]
  /\ Waiting(J, t) <=> Waiting(K, t)

\* The queues are what the scheduler's data say.
LEMMA QueuesAre ==
  ASSUME NEW K, NEW R, NEW wq, Sched(K, R, wq)
  PROVE  Queues(K) = wq
<1>1. K.link \in Memory(Node) /\ WaitLists(K.link, wq) /\ wq \in [WaitQ -> Seq(Task)]
  BY DEF Sched, Listed, WaitLists
<1>2. ASSUME NEW q \in WaitQ
      PROVE  [i \in DOMAIN Entries(K, Wait(q)) |-> TaskOf(Entries(K, Wait(q))[i])] = wq[q]
  <2> DEFINE s == wq[q]
             z == Tqs(s)
  <2>1. Entries(K, Wait(q)) = z
    BY <1>1, WaitWalk DEF WaitWalkIs, Entries
  <2>2. /\ s \in Seq(Task) /\ z \in Seq(Node) /\ Len(z) = Len(s) /\ Len(s) \in Nat
        /\ \A i \in 1 .. Len(s) : z[i] = Tq(s[i]) /\ s[i] \in Task
    BY <1>1, WaitFacts
  <2> HIDE DEF z, s
  <2>3. DOMAIN z = 1 .. Len(s) /\ s = [i \in 1 .. Len(s) |-> s[i]]
    BY <2>2
  <2>4. \A i \in 1 .. Len(s) : TaskOf(z[i]) = s[i]
    BY <2>2, NodeFacts
  <2> QED
    BY <2>1, <2>3, <2>4 DEF s
<1> QED
  BY <1>1, <1>2 DEF Queues

\* A task is in some queue, or in none.
LEMMA QueuedIs ==
  ASSUME NEW wq, NEW t \in Task
  PROVE  t \in Queued(wq) <=> \E q \in WaitQ : In(wq, q, t)
BY DEF Queued, In

\* Data that satisfy the conditions with some queues satisfy them.
LEMMA SoundFrom ==
  ASSUME NEW K, NEW wq, Sched(K, Runnables(K), wq), K.state[Idle] = "runnable",
         \A t \in Task : OneTask(K, wq, t)
  PROVE  Sound(K) /\ Queues(K) = wq
<1>1. Queues(K) = wq
  BY QueuesAre
<1> QED
  BY <1>1 DEF Sound, SoundBut

\* The same of a task in two states of the kernel.
LEMMA OneTaskSame ==
  ASSUME NEW J, NEW K, NEW wq, NEW new, NEW t \in Task, OneTask(K, wq, t),
         J.exists[t] = K.exists[t], J.state[t] = K.state[t], J.tick[t] = K.tick[t],
         J.reason[t] = K.reason[t], J.pwait[t] = K.pwait[t], J.activate[t] = K.activate[t],
         \A q \in WaitQ : In(new, q, t) <=> In(wq, q, t)
  PROVE  OneTask(J, new, t)
BY DEF OneTask, Waiting, Called, Suspended

\* A task that waits for nothing.
LEMMA OneTaskFree ==
  ASSUME NEW J \in Kernel, NEW wq, NEW t \in Task, J.exists[t] \/ J.state[t] = "dormant",
         ~Waiting(J, t), J.tick[t] = Forever, J.reason[t] = "none", J.pwait[t] = Null,
         Called(J, t), t \notin Queued(wq)
  PROVE  OneTask(J, wq, t)
<1>1. \A q \in WaitQ : q # Null
  BY CoreAssumption
<1>2. \A q \in WaitQ : ~In(wq, q, t)
  BY QueuedIs
<1> QED
  BY <1>1, <1>2 DEF OneTask

\* The end of a wait, by a service, an interrupt or the tick.
Completed(J, K, wq, t) ==
  /\ Sound(J) /\ Queues(J) = wq
  /\ J.prio = K.prio /\ J.curr = K.curr /\ J.request = K.request
  /\ \A u \in Task : K.state[u] = "runnable" => J.state[u] = "runnable"
  /\ AtHead(K) => AtHead(J)
  /\ Suspended(K, t) => J.next = K.next
  /\ ~Waiting(J, t) /\ J.reason[t] = "none" /\ J.pwait[t] = Null /\ J.rc[t] = "ok"
  /\ J.elem[t] = K.elem[t] /\ J.ewait[t] = K.ewait[t]
  /\ \A u \in Task : u # t => View(J, K, u) /\ J.state[u] = K.state[u]
LEMMA WaitOver ==
  ASSUME NEW K, NEW wq, NEW t \in Task, SoundBut(K, wq, t), Leaving(K, wq, t)
  PROVE  Completed(WaitComplete(K, t), K, wq, t) /\ (Wakes(K, t) <=> ~Suspended(K, t))
<1> DEFINE R == Runnables(K)
           J == WaitEnds(K, t)
<1>0. /\ Sched(K, R, wq) /\ t \notin R /\ t # Wild /\ K.reason[t] \notin ByMutex /\ t # Idle
      /\ K.state \in [Task -> State] /\ K.tick \in [Task -> Nat \cup {Forever}]
      /\ K.reason \in [Task -> Reason] /\ t \notin Queued(wq) /\ Waiting(K, t)
      /\ K.pwait \in [Task -> WaitQ \cup {Null}] /\ K.rc \in [Task -> Rc]
      /\ K.state[Idle] = "runnable" /\ Idle \in Task
  <2>1. Sched(K, R, wq) /\ K \in Kernel
    BY DEF SoundBut, Sched
  <2> QED
    BY <2>1, ConstantFacts, KernelFields DEF SoundBut, Waiting, Runnables, Leaving
<1>1. /\ Sched(J, IF Suspended(K, t) THEN R ELSE R \cup {t}, wq)
      /\ J.state = [K.state EXCEPT ![t] = IF Suspended(K, t) THEN "suspend" ELSE "runnable"]
      /\ J.prio = K.prio
      /\ J.reason = [K.reason EXCEPT ![t] = "none"]
      /\ J.tick = [K.tick EXCEPT ![t] = Forever]
      /\ J.activate = K.activate /\ J.exists = K.exists
      /\ J.curr = K.curr /\ J.request = K.request
      /\ J.pwait = [K.pwait EXCEPT ![t] = Null] /\ J.rc = [K.rc EXCEPT ![t] = "ok"]
      /\ J.elem = K.elem /\ J.ewait = K.ewait
      /\ AtHead(K) => AtHead(J)
      /\ Suspended(K, t) => J.next = K.next
  BY <1>0, WaitEndsIs
<1>2. WaitComplete(K, t) = J
  BY <1>0 DEF WaitComplete
<1>3. Wakes(K, t) <=> ~Suspended(K, t)
  BY <1>0, <1>2 DEF Wakes
<1> HIDE DEF J
<1>4. Runnables(J) = IF Suspended(K, t) THEN R ELSE R \cup {t}
  BY <1>0, <1>1 DEF Runnables
<1>5. \A u \in Task : K.state[u] = "runnable" => J.state[u] = "runnable"
  BY <1>0, <1>1 DEF Runnables
<1>6. ASSUME NEW u \in Task PROVE OneTask(J, wq, u)
  <2>1. CASE u = t
    <3>1. J \in Kernel /\ K.exists[t] /\ Called(K, t)
      BY <1>1 DEF Leaving, Sched
    <3>2. ~Waiting(J, t) /\ J.tick[t] = Forever /\ J.reason[t] = "none" /\ J.pwait[t] = Null
      BY <1>0, <1>1 DEF Waiting
    <3>3. Called(J, t) /\ J.exists[t]
      BY <3>1, <1>1 DEF Called, Suspended
    <3> QED
      BY <3>1, <3>2, <3>3, <2>1, <1>0, OneTaskFree
  <2>2. CASE u # t
    <3>1. OneTask(K, wq, u)
      BY <2>2 DEF SoundBut
    <3>2. /\ J.exists[u] = K.exists[u] /\ J.state[u] = K.state[u] /\ J.tick[u] = K.tick[u]
          /\ J.reason[u] = K.reason[u] /\ J.pwait[u] = K.pwait[u] /\ J.activate[u] = K.activate[u]
      BY <2>2, <1>0, <1>1
    <3> QED
      BY <3>1, <3>2, OneTaskSame
  <2> QED
    BY <2>1, <2>2
<1>7. J.state[Idle] = "runnable"
  BY <1>0, <1>1
<1>8. Sound(J) /\ Queues(J) = wq
  BY <1>1, <1>4, <1>6, <1>7, SoundFrom
<1>9. /\ ~Waiting(J, t) /\ J.reason[t] = "none" /\ J.pwait[t] = Null /\ J.rc[t] = "ok"
      /\ J.elem[t] = K.elem[t] /\ J.ewait[t] = K.ewait[t]
  BY <1>0, <1>1 DEF Waiting
<1>10. \A u \in Task : u # t => View(J, K, u) /\ J.state[u] = K.state[u]
  BY <1>0, <1>1 DEF View, Waiting
<1>11. Completed(J, K, wq, t)
  BY <1>1, <1>5, <1>8, <1>9, <1>10 DEF Completed
<1> QED
  BY <1>2, <1>3, <1>11

\* The round robin rotates a list, without slices it does nothing.
LEMMA RoundRobinIs ==
  ASSUME NEW K, NEW R, NEW wq, Sched(K, R, wq), ticks \in [Prio -> Nat]
  PROVE  LET J == RoundRobin(K)
         IN  /\ Sched(J, R, wq) /\ Frame(J, K) /\ J.state = K.state
             /\ J.prio = K.prio /\ J.next = K.next
             /\ ticks = [p \in Prio |-> 0] => J = K
<1> DEFINE t == K.curr
           p == K.prio[t]
           q == Ready(p)
           e == K.link[q].prev
           L == IF IsEmpty(K.link, q) \/ K.link[K.link[q].next].next = q
                 THEN K.link ELSE AddHead(RemoveTail(K.link, q), q, e)
           W == Timers(K)
           J == RoundRobin(K)
<1>0. /\ K \in Kernel /\ t \in Task /\ p \in Prio /\ Listed(K.link, K.prio, R, W, wq)
      /\ K.bmp = {K.prio[u] : u \in R} /\ Chosen(K, R) /\ R \subseteq Task
  BY KernelFields DEF Sched, Listed
<1>1. Listed(L, K.prio, R, W, wq)
  <2> DEFINE M == K.link
             f == K.prio
  <2>1. Listed(M, f, R, W, wq)
    BY <1>0
  <2>2. ASSUME ~IsEmpty(M, q) PROVE Listed(AddHead(RemoveTail(M, q), q, M[q].prev), f, R, W, wq)
    <3> HIDE DEF M, f, W, p
    <3> QED
      BY <2>1, <2>2, <1>0, Rotated
  <2> QED
    BY <2>1, <2>2
<1>2. L \in Memory(Node)
  BY <1>1 DEF Listed
<1>3. J = IF ticks[p] = 0 THEN K
          ELSE IF K.slice[t] + 1 <= ticks[p] THEN [K EXCEPT !.slice[t] = @ + 1]
          ELSE [K EXCEPT !.slice[t] = 0, !.link = L]
  BY DEF RoundRobin
<1>4. ticks = [r \in Prio |-> 0] => J = K
  BY <1>0, <1>3
<1> HIDE DEF J, L, p, W
<1>5. CASE J = K
  BY <1>0, <1>4, <1>5 DEF Sched, Frame, J, W
<1>6. CASE J = [K EXCEPT !.slice[t] = K.slice[t] + 1]
  <2>1. /\ J \in Kernel /\ Frame(J, K) /\ J.state = K.state /\ J.prio = K.prio
        /\ J.next = K.next /\ J.link = K.link /\ J.bmp = K.bmp
    <3> DEFINE s == [K.slice EXCEPT ![t] = K.slice[t] + 1]
    <3>1. K.slice \in [Task -> Nat]
      BY <1>0 DEF Kernel
    <3>2. s \in [Task -> Nat]
      BY <1>0, <3>1
    <3>3. J = [K EXCEPT !.slice = s]
      BY <1>0, <1>6 DEF Kernel
    <3> HIDE DEF s
    <3> QED
      BY <1>0, <3>2, <3>3 DEF Kernel, Frame
  <2>2. Timers(J) = W
    BY <2>1 DEF Timers, Frame, W
  <2>3. Sched(J, R, wq)
    BY <1>0, <2>1, <2>2 DEF Sched, Chosen
  <2> QED
    BY <2>1, <2>3, <1>4 DEF J
<1>7. CASE J = [K EXCEPT !.slice[t] = 0, !.link = L]
  <2>1. /\ J \in Kernel /\ Frame(J, K) /\ J.state = K.state /\ J.prio = K.prio
        /\ J.next = K.next /\ J.link = L /\ J.bmp = K.bmp
    BY <1>0, <1>2, <1>7 DEF Kernel, Memory, Frame
  <2>2. Timers(J) = W
    BY <2>1 DEF Timers, Frame, W
  <2>3. Sched(J, R, wq)
    BY <1>0, <1>1, <2>1, <2>2 DEF Sched, Chosen
  <2> QED
    BY <2>1, <2>3, <1>4 DEF J
<1>8. J = K \/ J = [K EXCEPT !.slice[t] = K.slice[t] + 1] \/ J = [K EXCEPT !.slice[t] = 0, !.link = L]
  BY <1>0, <1>3 DEF Kernel
<1> QED
  BY <1>5, <1>6, <1>7, <1>8

-----------------------------------------------------------------------------
(* The tick, one timer after another.                                      *)

IsIteration(f, N, S, a, G) ==
  f \in [0 .. N -> S] /\ f[0] = a /\ \A n \in 1 .. N : f[n] = G[n][f[n - 1]]

\* A function defined by recursion over numbers exists.
LEMMA Iterable ==
  ASSUME NEW N \in Nat, NEW S, NEW a \in S, NEW G \in [1 .. N -> [S -> S]]
  PROVE  \E f : IsIteration(f, N, S, a, G)
<1> DEFINE Good(f, m) == f \in [0 .. m -> S] /\ f[0] = a /\ \A n \in 1 .. m : f[n] = G[n][f[n - 1]]
           T == {m \in 0 .. N : \A f : ~Good(f, m)}
<1>1. T = {}
  <2> SUFFICES ASSUME T # {} PROVE FALSE
    OBVIOUS
  <2>0. T \subseteq Nat
    OBVIOUS
  <2>1. PICK m \in T : \A y \in T : m <= y
    BY <2>0, LeastNat
  <2>2. m # 0
    <3>1. Good([n \in 0 .. 0 |-> a], 0)
      OBVIOUS
    <3> HIDE DEF Good
    <3> QED
      BY <3>1, <2>1
  <2>3. m - 1 \in 0 .. N /\ ~(m <= m - 1) /\ m \in 1 .. N /\ m - 1 \in 0 .. m - 1
    BY <2>1, <2>2
  <2>10. m - 1 \notin T
    <3> HIDE DEF T
    <3> QED
      BY <2>1, <2>3
  <2>11. \E f : Good(f, m - 1)
    <3> HIDE DEF Good
    <3> QED
      BY <2>10, <2>3
  <2>4. PICK f : Good(f, m - 1)
    BY <2>11
  <2> DEFINE g == [n \in 0 .. m |-> IF n = m THEN G[m][f[m - 1]] ELSE f[n]]
  <2>5. G[m][f[m - 1]] \in S
    BY <2>3, <2>4
  <2>6. \A n \in 0 .. m : n # m => n \in 0 .. m - 1
    BY <2>3
  <2>7. g \in [0 .. m -> S] /\ g[0] = a
    BY <2>2, <2>3, <2>4, <2>5, <2>6
  <2>8. ASSUME NEW n \in 1 .. m PROVE g[n] = G[n][g[n - 1]]
    <3>1. n \in 0 .. m /\ n - 1 \in 0 .. m /\ n - 1 # m /\ (n # m => n \in 1 .. m - 1)
      BY <2>3
    <3>2. g[n - 1] = f[n - 1]
      BY <3>1
    <3> QED
      BY <3>1, <3>2, <2>4
  <2>9. Good(g, m)
    BY <2>7, <2>8
  <2> HIDE DEF Good, g
  <2> QED
    BY <2>1, <2>9
<1> HIDE DEF Good
<1>2. \E f : Good(f, N)
  <2>1. N \in 0 .. N
    OBVIOUS
  <2> QED
    BY <1>1, <2>1
<1> QED
  BY <1>2 DEF Good, IsIteration

\* Induction along an interval.
LEMMA CountedUp ==
  ASSUME NEW N \in Nat, NEW X, 0 \in X, \A n \in 1 .. N : n - 1 \in X => n \in X
  PROVE  0 .. N \subseteq X
<1> DEFINE T == 0 .. N \ X
<1> SUFFICES ASSUME T # {} PROVE FALSE
  OBVIOUS
<1>1. T \subseteq Nat
  OBVIOUS
<1>2. PICK m \in T : \A y \in T : m <= y
  BY <1>1, LeastNat
<1>3. m # 0 /\ m \in 1 .. N /\ m - 1 \in 0 .. N /\ ~(m <= m - 1)
  BY <1>2
<1> QED
  BY <1>2, <1>3

\* Where the tick may take the kernel's data from K: tasks become ready, and a
\* switch is requested when the next task changes.
Spares(J, K, S) == \A t \in Task \ S : K.reason[t] # "sleep" => View(J, K, t)
Onwards(K) ==
  {J \in Kernel :
     /\ Sound(J) /\ J.prio = K.prio /\ J.curr = K.curr
     /\ \A u \in Task : K.state[u] = "runnable" => J.state[u] = "runnable"
     /\ AtHead(K) => AtHead(J)
     /\ K.request => J.request
     /\ J.request \/ J.next = K.next
     /\ Queues(J) = Queues(K) /\ Spares(J, K, {})}

\* One timer after another goes onwards.
LEMMA OnwardsTrans ==
  ASSUME NEW K, NEW J \in Onwards(K)
  PROVE  Onwards(J) \subseteq Onwards(K)
<1> SUFFICES ASSUME NEW M \in Onwards(J) PROVE M \in Onwards(K)
  OBVIOUS
<1>1. Spares(M, K, {})
  BY DEF Onwards, Spares, View
<1> QED
  BY <1>1 DEF Onwards

\* One timer: counted down, or the task's sleep is over.
LEMMA TickEntryIs ==
  ASSUME NEW K, Sound(K), NEW t \in Task
  PROVE  TickEntry(K, Tm(t)) \in Onwards(K)
<1> DEFINE J == TickEntry(K, Tm(t))
           K1 == [K EXCEPT !.tick[t] = @ - 1]
           wq == Queues(K)
<1>0. /\ K \in Kernel /\ K.tick \in [Task -> Nat \cup {Forever}] /\ t # Wild
      /\ Sched(K, Runnables(K), wq) /\ K.state[Idle] = "runnable" /\ Wild \notin Task
      /\ \A u \in Task : OneTask(K, wq, u)
  BY ConstantFacts, KernelFields DEF Sound, SoundBut, Sched
<1>1. J = IF K.tick[t] = Forever \/ K.tick[t] = 0 THEN K
          ELSE IF K1.tick[t] > 0 THEN K1
          ELSE IF ~Wakes(K1, t) THEN WaitComplete(K1, t)
          ELSE [WaitComplete(K1, t) EXCEPT !.request = TRUE, !.rc[t] = "timeout"]
  BY NodeFacts DEF TickEntry
<1> HIDE DEF wq
<1>2. CASE K.tick[t] = Forever \/ K.tick[t] = 0
  BY <1>0, <1>1, <1>2 DEF Onwards, Spares, View
<1>3. CASE ~(K.tick[t] = Forever \/ K.tick[t] = 0)
  <2>0. K.tick[t] \in Nat /\ K.tick[t] # 0 /\ K.tick[t] - 1 \in Nat /\ t \in Timers(K)
    BY <1>0, <1>3 DEF Timers
  <2> DEFINE c == [K.tick EXCEPT ![t] = K.tick[t] - 1]
  <2>1. c \in [Task -> Nat \cup {Forever}] /\ (\A u \in Task : u # t => c[u] = K.tick[u])
        /\ c[t] = K.tick[t] - 1
    BY <1>0, <2>0
  <2>2. K1 = [K EXCEPT !.tick = c]
    BY <1>0 DEF Kernel
  <2> HIDE DEF c
  <2>3. /\ K1 \in Kernel /\ K1.tick = c
        /\ K1.state = K.state /\ K1.prio = K.prio /\ K1.reason = K.reason
        /\ K1.activate = K.activate /\ K1.exists = K.exists /\ K1.curr = K.curr
        /\ K1.request = K.request /\ K1.link = K.link /\ K1.bmp = K.bmp /\ K1.next = K.next
        /\ K1.pwait = K.pwait /\ K1.rc = K.rc /\ K1.elem = K.elem /\ K1.ewait = K.ewait
    BY <1>0, <2>1, <2>2 DEF Kernel
  <2> HIDE DEF K1
  <2>4. Timers(K1) = Timers(K)
    BY <2>0, <2>1, <2>3, ConstantFacts DEF Timers
  <2>5. Sched(K1, Runnables(K1), wq) /\ K1.state[Idle] = "runnable"
    BY <2>3, <2>4, <1>0 DEF Sched, Runnables, Chosen
  <2>6. \A u \in Task : u # t => OneTask(K1, wq, u)
    BY <2>1, <2>3, <1>0, OneTaskSame
  <2>7. (AtHead(K) => AtHead(K1)) /\ \A u \in Task : View(K1, K, u)
    BY <2>3 DEF AtHead, View, Waiting
  <2>t. Waiting(K, t) /\ K.pwait[t] = Null /\ K.reason[t] = "sleep" /\ Called(K, t) /\ K.exists[t]
    <3>1. OneTask(K, wq, t) /\ K.tick[t] # Forever
      BY <1>0, <2>0 DEF Timers
    <3> QED
      BY <3>1 DEF OneTask, Waiting
  <2>8. CASE c[t] > 0
    <3>1. OneTask(K1, wq, t)
      BY <1>0, <2>3, <2>8, <2>t DEF OneTask, Waiting, Called, Suspended
    <3>2. Sound(K1) /\ Queues(K1) = wq
      BY <3>1, <2>5, <2>6, SoundFrom
    <3>3. J = K1
      BY <1>1, <1>3, <2>3, <2>8
    <3> QED
      BY <3>2, <3>3, <2>3, <2>7 DEF Onwards, Spares, wq
  <2>9. CASE ~(c[t] > 0)
    <3> DEFINE C == WaitComplete(K1, t)
    <3>a. SoundBut(K1, wq, t) /\ Leaving(K1, wq, t)
      <4>1. t \notin Queued(wq)
        <5>1. \A q \in WaitQ : q # Null
          BY CoreAssumption
        <5>2. \A q \in WaitQ : ~In(wq, q, t)
          BY <5>1, <1>0, <2>t DEF OneTask
        <5> QED
          BY <5>2, QueuedIs
      <4>2. Called(K1, t) /\ Waiting(K1, t) /\ K1.exists[t] /\ K1.reason[t] \notin ByMutex
        BY <2>3, <2>t DEF Called, Suspended, Waiting, ByMutex
      <4> QED
        BY <4>1, <4>2, <2>5, <2>6 DEF SoundBut, Leaving
    <3>1. Completed(C, K1, wq, t) /\ (Wakes(K1, t) <=> ~Suspended(K1, t))
      BY <3>a, WaitOver
    <3>2. J = IF ~Wakes(K1, t) THEN C ELSE [C EXCEPT !.request = TRUE, !.rc[t] = "timeout"]
      BY <1>1, <1>3, <2>3, <2>9
    <3> HIDE DEF C, J
    <3>3. C \in Kernel
      BY <3>1 DEF Completed, Sound, SoundBut, Sched
    <3>v. Spares(C, K, {})
      BY <3>1, <2>7, <2>t DEF Spares, Completed, View
    <3>4. CASE ~Wakes(K1, t)
      BY <3>1, <3>2, <3>3, <3>4, <3>v, <2>3, <2>7 DEF Onwards, J, Completed, wq
    <3>5. CASE Wakes(K1, t)
      <4>1. J = [C EXCEPT !.request = TRUE, !.rc[t] = "timeout"]
        BY <3>2, <3>5
      <4>2. /\ J \in Kernel /\ J.tick = C.tick
            /\ J.state = C.state /\ J.prio = C.prio /\ J.reason = C.reason
            /\ J.activate = C.activate /\ J.exists = C.exists /\ J.curr = C.curr
            /\ J.request = TRUE /\ J.link = C.link /\ J.bmp = C.bmp /\ J.next = C.next
            /\ J.pwait = C.pwait /\ J.elem = C.elem /\ J.ewait = C.ewait
            /\ \A u \in Task : u # t => J.rc[u] = C.rc[u]
        BY <3>3, <4>1 DEF Kernel, Rc
      <4>3. Queues(J) = Queues(C)
        BY <4>2 DEF Queues, Entries
      <4>4. Sched(J, Runnables(J), wq) /\ J.state[Idle] = "runnable"
        BY <3>1, <4>2 DEF Completed, Sound, SoundBut, Sched, Runnables, Timers, Chosen
      <4>5. \A u \in Task : OneTask(J, wq, u)
        <5>1. \A u \in Task : OneTask(C, wq, u)
          BY <3>1, <1>0 DEF Completed, Sound, SoundBut
        <5> QED
          BY <5>1, <4>2, OneTaskSame
      <4>6. Sound(J) /\ Queues(J) = wq
        BY <4>4, <4>5, SoundFrom
      <4>7. AtHead(C) => AtHead(J)
        BY <4>2 DEF AtHead
      <4>8. Spares(J, K, {})
        BY <4>2, <3>v, <2>t DEF Spares, View, Waiting
      <4> QED
        BY <3>1, <4>2, <4>6, <4>7, <4>8, <2>3, <2>7 DEF Onwards, J, Completed, wq
    <3> QED
      BY <3>4, <3>5
  <2> QED
    BY <2>8, <2>9
<1> QED
  BY <1>2, <1>3

\* The whole of the timeout list.
LEMMA TickedIs ==
  ASSUME NEW K, Sound(K), NEW w, Len(w) \in Nat,
         \A i \in 1 .. Len(w) : \E t \in Task : w[i] = Tm(t)
  PROVE  Ticked(K, w) \in Onwards(K)
<1> DEFINE N == Len(w)
           S == Onwards(K)
           Is(f) == f = [n \in 0 .. N |-> IF n = 0 THEN K ELSE TickEntry(f[n - 1], w[n])]
           after == CHOOSE f : Is(f)
           G == [n \in 1 .. N |-> [J \in S |-> TickEntry(J, w[n])]]
<1>1. K \in S
  BY DEF Onwards, Sound, SoundBut, Sched, Spares, View
<1>2. ASSUME NEW J \in S, NEW n \in 1 .. N PROVE TickEntry(J, w[n]) \in S
  <2>1. Sound(J)
    BY DEF Onwards
  <2>2. PICK t \in Task : w[n] = Tm(t)
    OBVIOUS
  <2>3. TickEntry(J, w[n]) \in Onwards(J)
    BY <2>1, <2>2, TickEntryIs
  <2> QED
    BY <2>3, OnwardsTrans
<1> HIDE DEF S
<1>3. G \in [1 .. N -> [S -> S]]
  BY <1>2
<1>4. \A n \in 1 .. N : \A J \in S : G[n][J] = TickEntry(J, w[n])
  <2>1. ASSUME NEW n \in 1 .. N PROVE G[n] = [J \in S |-> TickEntry(J, w[n])]
    OBVIOUS
  <2> HIDE DEF G
  <2> QED
    BY <2>1
<1> HIDE DEF G
<1>11. \E f : IsIteration(f, N, S, K, G)
  <2>1. N \in Nat
    OBVIOUS
  <2> HIDE DEF N
  <2> QED
    BY <2>1, <1>1, <1>3, Iterable
<1>5. PICK f \in [0 .. N -> S] : f[0] = K /\ \A n \in 1 .. N : f[n] = G[n][f[n - 1]]
  BY <1>11 DEF IsIteration
<1>6. Is(f)
  <2>1. \A n \in 0 .. N : f[n] = IF n = 0 THEN K ELSE TickEntry(f[n - 1], w[n])
    <3>1. ASSUME NEW n \in 0 .. N, n # 0 PROVE f[n] = TickEntry(f[n - 1], w[n])
      <4>1. n \in 1 .. N /\ n - 1 \in 0 .. N
        BY <3>1
      <4> QED
        BY <4>1, <1>4, <1>5
    <3> QED
      BY <3>1, <1>5
  <2> QED
    BY <2>1
<1>7. Is(after)
  <2> HIDE DEF Is
  <2> QED
    BY <1>6
<1>8. Ticked(K, w) = after[N]
  BY DEF Ticked
<1> HIDE DEF after
<1> DEFINE X == {n \in 0 .. N : after[n] \in S}
<1>9. after[0] = K /\ \A n \in 1 .. N : after[n] = TickEntry(after[n - 1], w[n])
  BY <1>7
<1> HIDE DEF Is
<1>10. 0 .. N \subseteq X
  <2>1. 0 \in X
    BY <1>1, <1>9
  <2>2. \A n \in 1 .. N : n - 1 \in X => n \in X
    BY <1>2, <1>9
  <2> HIDE DEF X
  <2> QED
    BY <2>1, <2>2, CountedUp
<1> QED
  BY <1>8, <1>10 DEF S

-----------------------------------------------------------------------------
(* The start: the idle task, then the tasks in their order.                *)

\* Lists whose nodes point to themselves are empty.
NoQueues == [q \in WaitQ |-> <<>>]
LEMMA EmptyLists ==
  LET L == [n \in Node |-> [next |-> n, prev |-> n]]
  IN  \A f : Listed(L, f, {}, {}, NoQueues)
<1> DEFINE L == [n \in Node |-> [next |-> n, prev |-> n]]
<1>1. L \in Memory(Node) /\ DOMAIN L = Node
  BY DEF Memory
<1>2. ASSUME NEW q \in Node PROVE IsList(L, q, {})
  <2> DEFINE c == [i \in 0 .. 0 |-> q]
  <2>1. c \in [0 .. 0 -> Node] /\ c[0] = q /\ Linked(L, c, 0)
    BY DEF Linked
  <2>2. \A x : x \in {} <=> \E i \in 1 .. 0 : x = c[i]
    OBVIOUS
  <2> HIDE DEF c, L
  <2> QED
    BY <1>1, <2>1, <2>2 DEF IsList
<1> HIDE DEF L
<1>3. \A f, p : At({}, f, p) = {} /\ {Tm(u) : u \in {}} = {}
  BY DEF At
<1>4. ASSUME NEW f, NEW p \in Prio PROVE IsList(L, Ready(p), At({}, f, p))
  <2>1. At({}, f, p) = {}
    BY <1>3
  <2>2. Ready(p) \in Node
    BY NodeFacts
  <2> QED
    BY <1>2, <2>1, <2>2
<1>5. IsList(L, TimeoutList, {Tm(u) : u \in {}})
  BY <1>2, <1>3, NodeFacts
<1>7. ASSUME NEW q \in WaitQ PROVE Ring(L, Wait(q), Tqs(NoQueues[q]))
  <2> DEFINE h == Wait(q)
             n == 0
             c == [i \in 0 .. n |-> h]
             e == <<>>
  <2>0. h \in Node
    BY NodeFacts
  <2>1. c \in [0 .. n -> Node] /\ c[0] = h
    BY <2>0
  <2>2. Linked(L, c, n)
    BY <2>0, <2>1 DEF Linked, L
  <2>3. e \in Seq(Node) /\ n = Len(e) /\ (\A i \in 1 .. n : c[i] = e[i])
    OBVIOUS
  <2>4. Tqs(NoQueues[q]) = e
    BY DEF Tqs, NoQueues
  <2> HIDE DEF c, h, e, n
  <2>5. Ring(L, h, e)
    BY <1>1, <2>1, <2>2, <2>3, RingFrom
  <2> QED
    BY <2>4, <2>5 DEF h
<1>8. WaitLists(L, NoQueues) /\ Queued(NoQueues) = {}
  <2>1. \A q \in WaitQ : NoQueues[q] = <<>> /\ 1 .. Len(NoQueues[q]) = {}
    BY DEF NoQueues
  <2>2. NoQueues \in [WaitQ -> Seq(Task)]
    BY DEF NoQueues
  <2> QED
    BY <2>1, <2>2, <1>7 DEF WaitLists, Queued
<1>6. \A f : Listed(L, f, {}, {}, NoQueues)
  BY <1>1, <1>4, <1>5, <1>8 DEF Listed
<1> QED
  BY <1>6 DEF L

\* queue_add_tail keeps pointers pointers.
LEMMA AddTailTyped ==
  ASSUME NEW L \in Memory(Node), NEW q \in Node, NEW e \in Node
  PROVE  AddTail(L, q, e) \in Memory(Node)
BY DEF AddTail, Memory

\* task_to_runnable keeps the types, whatever the lists are.
LEMMA ToRunnableTyped ==
  ASSUME NEW K \in Kernel, NEW t \in Task
  PROVE  ToRunnable(K, t) \in Kernel
<1> DEFINE p == K.prio[t]
           L == AddTail(K.link, Ready(p), Tq(t))
           b == K.bmp \cup {p}
           x == IF K.next = Wild THEN t ELSE IF p < K.prio[K.next] THEN t ELSE K.next
<1>1. p \in Prio /\ b \in SUBSET Prio /\ x \in Task
  BY KernelFields
<1>2. L \in Memory(Node)
  BY <1>1, KernelFields, AddTailTyped, NodeFacts
<1>3. ToRunnable(K, t) = [K EXCEPT !.state[t] = "runnable", !.link = L, !.bmp = b, !.next = x]
  BY DEF ToRunnable, Kernel
<1> DEFINE s == [K.state EXCEPT ![t] = "runnable"]
<1>4. s \in [Task -> State]
  BY KernelFields DEF State
<1>5. ToRunnable(K, t) = [K EXCEPT !.state = s, !.link = L, !.bmp = b, !.next = x]
  BY <1>3 DEF Kernel
<1> HIDE DEF L, b, x, s
<1> QED
  BY <1>1, <1>2, <1>4, <1>5, ZenonT(60) DEF Kernel, Memory

\* The idle task is the first to be ready.
LEMMA IdleStarted ==
  ASSUME NEW p \in Programs
  PROVE  LET J == ToRunnable(Blank(p), Idle)
             created == {Idle} \cup {p.created[i] : i \in DOMAIN p.created}
         IN  /\ Sched(J, {Idle}, NoQueues) /\ AtHead(J)
             /\ J.state = [t \in Task |-> IF t = Idle THEN "runnable" ELSE "dormant"]
             /\ J.prio = Base
             /\ J.reason = [t \in Task |-> "none"] /\ J.tick = [t \in Task |-> Forever]
             /\ J.activate = [t \in Task |-> 0]
             /\ J.exists = [t \in Task |-> t \in created] /\ J.request = FALSE
             /\ J.pwait = [t \in Task |-> Null]
<1> DEFINE B == Blank(p)
           created == {Idle} \cup {p.created[i] : i \in DOMAIN p.created}
           Z == [n \in Node |-> [next |-> n, prev |-> n]]
           L == AddTail(Z, Ready(NumPrio), Tq(Idle))
           J == ToRunnable(B, Idle)
<1>0. /\ p.attr \in {"inherit", "ceiling"} /\ NumPrio \in Prio /\ Base \in [Task -> Prio]
      /\ Idle \in Task /\ Base[Idle] = NumPrio
  BY CoreAssumption, KernelAssumption DEF Prio
<1>1. /\ B.state = [t \in Task |-> "dormant"] /\ B.prio = Base
      /\ B.reason = [t \in Task |-> "none"] /\ B.tick = [t \in Task |-> Forever]
      /\ B.activate = [t \in Task |-> 0] /\ B.exists = [t \in Task |-> t \in created]
      /\ B.request = FALSE /\ B.link = Z /\ B.bmp = {} /\ B.next = Wild /\ B.curr = Idle
      /\ B.rc = [t \in Task |-> "ok"] /\ B.pwait = [t \in Task |-> Null]
      /\ B.blk = [t \in Task |-> Null] /\ B.slice = [t \in Task |-> 0]
      /\ B.wakeup = [t \in Task |-> 0] /\ B.elem = [t \in Task |-> Null]
      /\ B.ewait = [t \in Task |-> NoEvent] /\ B.holder = [m \in Mutex |-> Null]
      /\ B.attr = [m \in Mutex |-> p.attr]
  BY DEF Blank
<1>2. B = [state |-> B.state, prio |-> B.prio, reason |-> B.reason, rc |-> B.rc,
           pwait |-> B.pwait, blk |-> B.blk, tick |-> B.tick, slice |-> B.slice,
           wakeup |-> B.wakeup, activate |-> B.activate, exists |-> B.exists,
           elem |-> B.elem, ewait |-> B.ewait, holder |-> B.holder, attr |-> B.attr,
           link |-> B.link, bmp |-> B.bmp, next |-> B.next, curr |-> B.curr,
           request |-> B.request]
  BY DEF Blank
<1>3. Listed(Z, Base, {}, {}, NoQueues)
  BY EmptyLists
<1> HIDE DEF B
<1>4. Listed(L, Base, {Idle}, {}, NoQueues) /\ L[Ready(NumPrio)].next = Tq(Idle)
  <2> DEFINE R == {}
             W == {}
             t == Idle
             wq == NoQueues
  <2>1. Listed(Z, Base, R, W, wq) /\ t \in Task /\ t \notin R /\ Base[t] \in Prio /\ t \notin Queued(wq)
    BY <1>0, <1>3 DEF Queued, NoQueues
  <2>2. R \cup {t} = {Idle} /\ ~\E u \in R : Base[u] = Base[t]
    OBVIOUS
  <2> HIDE DEF R, W, t, Z, wq
  <2>3. LET A == AddTail(Z, Ready(Base[t]), Tq(t))
        IN  /\ Listed(A, Base, R \cup {t}, W, wq)
            /\ A[Ready(Base[t])].next = IF \E u \in R : Base[u] = Base[t] THEN Z[Ready(Base[t])].next ELSE Tq(t)
            /\ \A r \in Prio : r # Base[t] => A[Ready(r)] = Z[Ready(r)]
    BY <2>1, ReadyAdd
  <2> QED
    BY <2>2, <2>3, <1>0 DEF t, W, wq
<1>5. L \in Memory(Node)
  BY <1>4 DEF Listed
<1> HIDE DEF Z
<1> DEFINE s == [t \in Task |-> IF t = Idle THEN "runnable" ELSE "dormant"]
<1>12. s = [B.state EXCEPT ![Idle] = "runnable"]
  BY <1>0, <1>1
<1>6. J = [B EXCEPT !.state = s, !.link = L, !.bmp = {NumPrio}, !.next = Idle]
  BY <1>0, <1>1, <1>2, <1>12, ZenonT(60) DEF ToRunnable
<1> HIDE DEF J, L, s
<1>7. /\ J.state = s /\ J.prio = Base /\ Frame(J, B) /\ J.link = L
      /\ J.bmp = {NumPrio} /\ J.next = Idle
      /\ J.rc = B.rc /\ J.pwait = B.pwait /\ J.blk = B.blk /\ J.slice = B.slice
      /\ J.wakeup = B.wakeup /\ J.elem = B.elem /\ J.ewait = B.ewait
      /\ J.holder = B.holder /\ J.attr = B.attr
  BY <1>1, <1>2, <1>6 DEF Frame
<1>13. J = [state |-> J.state, prio |-> J.prio, reason |-> J.reason, rc |-> J.rc,
            pwait |-> J.pwait, blk |-> J.blk, tick |-> J.tick, slice |-> J.slice,
            wakeup |-> J.wakeup, activate |-> J.activate, exists |-> J.exists,
            elem |-> J.elem, ewait |-> J.ewait, holder |-> J.holder, attr |-> J.attr,
            link |-> J.link, bmp |-> J.bmp, next |-> J.next, curr |-> J.curr,
            request |-> J.request]
  BY <1>2, <1>6
<1>14. J \in Kernel
  <2>1. /\ J.state \in [Task -> State] /\ J.prio \in [Task -> Prio]
        /\ J.reason \in [Task -> Reason] /\ J.rc \in [Task -> Rc]
        /\ J.pwait \in [Task -> WaitQ \cup {Null}] /\ J.blk \in [Task -> Task \cup {Null}]
        /\ J.tick \in [Task -> Nat \cup {Forever}]
        /\ J.slice \in [Task -> Nat] /\ J.wakeup \in [Task -> 0 .. 1]
        /\ J.activate \in [Task -> 0 .. 1] /\ J.exists \in [Task -> BOOLEAN]
        /\ J.elem \in [Task -> Elem \cup {Null}]
    BY <1>0, <1>1, <1>7 DEF State, Reason, Rc, Frame, s
  <2>2. /\ J.ewait \in [Task -> [pattern: SUBSET Flag, or: BOOLEAN]]
        /\ J.holder \in [Mutex -> Task \cup {Null}]
        /\ J.attr \in [Mutex -> {"inherit", "ceiling"}]
    <3>1. NoEvent \in [pattern: SUBSET Flag, or: BOOLEAN]
      BY DEF NoEvent
    <3> QED
      BY <3>1, <1>0, <1>1, <1>7
  <2>3. J.link \in [Node -> [next: Node, prev: Node]]
    BY <1>5, <1>7 DEF Memory
  <2>4. /\ J.bmp \in SUBSET Prio
        /\ J.next \in Task /\ J.curr \in Task /\ J.request \in BOOLEAN
    <3>1. J.bmp = {NumPrio} /\ J.next = Idle /\ J.curr = B.curr /\ J.request = B.request
      BY <1>7 DEF Frame
    <3>2. B.curr = Idle /\ B.request = FALSE
      BY <1>1
    <3>3. J.bmp \subseteq Prio
      BY <3>1, <1>0
    <3> QED
      BY <3>1, <3>2, <3>3, <1>0
  <2> QED
    BY <2>1, <2>2, <2>3, <2>4, <1>13 DEF Kernel
<1>9. Timers(J) = {}
  BY <1>1, <1>7 DEF Timers, Frame
<1>10. Sched(J, {Idle}, NoQueues)
  <2>1. J.bmp = {J.prio[u] : u \in {Idle}} /\ Chosen(J, {Idle})
    BY <1>0, <1>7, ConstantFacts DEF Chosen
  <2> QED
    BY <2>1, <1>4, <1>7, <1>9, <1>14 DEF Sched
<1>11. AtHead(J)
  BY <1>0, <1>4, <1>7 DEF AtHead
<1> QED
  BY <1>1, <1>7, <1>10, <1>11 DEF Frame, J, B, s

\* The kernel while it starts: the tasks R are ready, the others dormant.
Fresh(J, created, R) ==
  /\ Sched(J, R, NoQueues) /\ AtHead(J)
  /\ J.state = [t \in Task |-> IF t \in R THEN "runnable" ELSE "dormant"]
  /\ J.reason = [t \in Task |-> "none"] /\ J.tick = [t \in Task |-> Forever]
  /\ J.activate = [t \in Task |-> 0]
  /\ J.exists = [t \in Task |-> t \in created] /\ J.request = FALSE
  /\ J.pwait = [t \in Task |-> Null]

\* All created tasks are ready when the kernel starts.
LEMMA StartedIs ==
  ASSUME NEW p \in Programs
  PROVE  LET created == {Idle} \cup {p.created[i] : i \in DOMAIN p.created}
         IN  Fresh(Started(p), created, created)
<1> DEFINE c == p.created
           N == Len(c)
           created == {Idle} \cup {c[i] : i \in DOMAIN c}
           a == ToRunnable(Blank(p), Idle)
           R(n) == {Idle} \cup {c[i] : i \in 1 .. n}
           Is(f) == f = [n \in 0 .. N |-> IF n = 0 THEN a ELSE ToRunnable(f[n - 1], c[n])]
           after == CHOOSE f : Is(f)
           G == [n \in 1 .. N |-> [J \in Kernel |-> ToRunnable(J, c[n])]]
<1>0. /\ c \in Seq(User) /\ N \in Nat /\ DOMAIN c = 1 .. N
      /\ \A i, j \in 1 .. N : c[i] = c[j] => i = j
      /\ \A i \in 1 .. N : c[i] \in User /\ c[i] \in Task /\ c[i] # Idle
  <2>1. c \in Seq(User) /\ \A i, j \in DOMAIN c : c[i] = c[j] => i = j
    BY KernelAssumption
  <2> HIDE DEF c
  <2>2. N \in Nat /\ DOMAIN c = 1 .. N /\ \A i \in 1 .. N : c[i] \in User
    BY <2>1
  <2> QED
    BY <2>1, <2>2, ConstantFacts
<1>1. Fresh(a, created, R(0)) /\ a \in Kernel
  <2>1. R(0) = {Idle}
    OBVIOUS
  <2> HIDE DEF R, a, created
  <2>2. /\ Sched(a, {Idle}, NoQueues) /\ AtHead(a)
        /\ a.state = [t \in Task |-> IF t = Idle THEN "runnable" ELSE "dormant"]
        /\ a.reason = [t \in Task |-> "none"] /\ a.tick = [t \in Task |-> Forever]
        /\ a.activate = [t \in Task |-> 0]
        /\ a.exists = [t \in Task |-> t \in created] /\ a.request = FALSE
        /\ a.pwait = [t \in Task |-> Null]
    BY IdleStarted DEF a, created
  <2> QED
    BY <2>1, <2>2 DEF Fresh, Sched
<1> HIDE DEF a
<1>2. ASSUME NEW n \in 1 .. N, NEW J, Fresh(J, created, R(n - 1))
      PROVE  Fresh(ToRunnable(J, c[n]), created, R(n))
  <2> DEFINE t == c[n]
             M == ToRunnable(J, t)
             Q == R(n - 1)
  <2>1. n - 1 \in Nat /\ t \in Task /\ t \notin Q /\ R(n) = Q \cup {t}
    <3>1. n - 1 \in Nat /\ (\A i \in 1 .. n - 1 : i \in 1 .. N /\ i # n)
          /\ 1 .. n = (1 .. n - 1) \cup {n}
      BY <1>0
    <3> QED
      BY <3>1, <1>0
  <2>2. Fresh(J, created, Q)
    BY <1>2
  <2> HIDE DEF t, Q, R, created
  <2>3. /\ Sched(M, Q \cup {t}, NoQueues) /\ Frame(M, J)
        /\ M.state = [J.state EXCEPT ![t] = "runnable"] /\ M.prio = J.prio
        /\ AtHead(J) => AtHead(M)
    <3>1. t \notin Queued(NoQueues)
      BY DEF Queued, NoQueues
    <3> QED
      BY <3>1, <2>1, <2>2, ToRunnableIs DEF Fresh
  <2> HIDE DEF M
  <2>4. M.state = [u \in Task |-> IF u \in Q \cup {t} THEN "runnable" ELSE "dormant"]
    BY <2>1, <2>2, <2>3 DEF Fresh
  <2>5. Fresh(M, created, R(n))
    BY <2>1, <2>2, <2>3, <2>4 DEF Fresh, Frame
  <2> QED
    BY <2>5 DEF M, t
<1>3. G \in [1 .. N -> [Kernel -> Kernel]]
  <2>1. ASSUME NEW n \in 1 .. N, NEW J \in Kernel PROVE ToRunnable(J, c[n]) \in Kernel
    BY <1>0, ToRunnableTyped
  <2> QED
    BY <2>1
<1>4. \A n \in 1 .. N : \A J \in Kernel : G[n][J] = ToRunnable(J, c[n])
  <2>1. ASSUME NEW n \in 1 .. N PROVE G[n] = [J \in Kernel |-> ToRunnable(J, c[n])]
    OBVIOUS
  <2> HIDE DEF G
  <2> QED
    BY <2>1
<1> HIDE DEF G
<1>11. \E f : IsIteration(f, N, Kernel, a, G)
  <2> HIDE DEF N
  <2> QED
    BY <1>0, <1>1, <1>3, Iterable
<1>5. PICK f \in [0 .. N -> Kernel] : f[0] = a /\ \A n \in 1 .. N : f[n] = G[n][f[n - 1]]
  BY <1>11 DEF IsIteration
<1>6. Is(f)
  <2>1. \A n \in 0 .. N : f[n] = IF n = 0 THEN a ELSE ToRunnable(f[n - 1], c[n])
    <3>1. ASSUME NEW n \in 0 .. N, n # 0 PROVE f[n] = ToRunnable(f[n - 1], c[n])
      <4>1. n \in 1 .. N /\ n - 1 \in 0 .. N
        BY <3>1, <1>0
      <4> QED
        BY <4>1, <1>4, <1>5
    <3> QED
      BY <3>1, <1>5
  <2> QED
    BY <2>1
<1>7. Is(after)
  <2> HIDE DEF Is
  <2> QED
    BY <1>6
<1>8. Started(p) = after[N]
  BY DEF Started, a
<1> HIDE DEF after
<1> DEFINE X == {n \in 0 .. N : Fresh(after[n], created, R(n))}
<1>9. after[0] = a /\ \A n \in 1 .. N : after[n] = ToRunnable(after[n - 1], c[n])
  <2>1. N \in Nat /\ after = [n \in 0 .. N |-> IF n = 0 THEN a ELSE ToRunnable(after[n - 1], c[n])]
    BY <1>0, <1>7
  <2> HIDE DEF N, Is
  <2>2. 0 \in 0 .. N /\ \A n \in 1 .. N : n \in 0 .. N /\ n # 0
    BY <2>1
  <2> QED
    BY <2>1, <2>2
<1> HIDE DEF Is
<1>10. 0 .. N \subseteq X
  <2>1. 0 \in X
    BY <1>0, <1>1, <1>9
  <2>2. \A n \in 1 .. N : n - 1 \in X => n \in X
    <3> HIDE DEF R, created
    <3> QED
      BY <1>2, <1>9
  <2> HIDE DEF X
  <2> QED
    BY <2>1, <2>2, <1>0, CountedUp
<1>12. R(N) = created
  BY <1>0
<1> QED
  <2>0. N \in 0 .. N
    BY <1>0
  <2>1. N \in X
    <3> HIDE DEF X, N
    <3> QED
      BY <1>10, <2>0
  <2> HIDE DEF R
  <2>2. Fresh(after[N], created, R(N))
    BY <2>1
  <2> QED
    BY <1>8, <1>12, <2>2

-----------------------------------------------------------------------------
(* The inductive invariant.  While the program starts no task on creation  *)
(* and does not terminate tasks under time slices, a task that runs its own *)
(* code IS the next task to run; under SwitchesAsked it has its priority.  *)
(* The head of the next task's list is that task unless slices rotate it:  *)
(* that is why taking another task out of the list leaves next alone.      *)
(* A task that waits in a queue is inside the object's service.            *)

Exact == /\ "start_on_creation" \notin services
         /\ ~({"tslice_ticks", "terminate"} \subseteq services)

\* The running task is ready, as urgent as the next one, or the next one.
RunsRight(K) ==
  /\ K.state[K.curr] = "runnable"
  /\ SwitchesAsked => K.prio[K.curr] = K.prio[K.next]
  /\ Exact => K.curr = K.next

\* Where a task can be: in its own code and the services of tasks, or in a
\* service of an object.  At Runs it runs, elsewhere it is on its way out.
Spots == ({"user", "switch", "exit", "stuck"} \X {Null})
         \cup ({"waits", "waited", "delTest", "delFound", "delEmpty", "delMasked", "delSwitch"}
                 \X WaitQ)
Runs(place) == place \in {"user", "waited", "delTest", "delFound", "delEmpty", "delMasked"}
Within(K, P) ==
  \A t \in Task : /\ P[t][2] # Null => K.reason[t] # "sleep"
                  /\ K.pwait[t] # Null => P[t] \in {"waits", "waited"} \X {K.pwait[t]}

KInv ==
  /\ Sound(k) /\ ~k.request /\ Orderly(services)
  /\ "tslice_ticks" \notin services => AtHead(k) /\ ticks = [p \in Prio |-> 0]
  /\ pc \in [Task -> Spots] /\ ticks \in [Prio -> Nat]
  /\ Runs(Place(k.curr)) => RunsRight(k)
  /\ Within(k, pc)

\* What the invariant says of the data, in the form the steps use it.
LEMMA SoundFacts ==
  ASSUME NEW K, Sound(K)
  PROVE  /\ K \in Kernel /\ K.state \in [Task -> State] /\ K.prio \in [Task -> Prio]
         /\ K.tick \in [Task -> Nat \cup {Forever}] /\ K.next \in Task /\ K.curr \in Task
         /\ K.state[Idle] = "runnable" /\ K.state[K.next] = "runnable"
         /\ Idle \in Runnables(K) /\ Sched(K, Runnables(K), Queues(K))
         /\ \A t \in Task : t \in Runnables(K) <=> K.state[t] = "runnable"
         /\ \A t \in Task : OneTask(K, Queues(K), t)
<1>1. K \in Kernel /\ Wild \notin Task
  BY ConstantFacts DEF Sound, SoundBut, Sched
<1> QED
  BY <1>1, KernelFields, ConstantFacts DEF Sound, SoundBut, Sched, Chosen, Runnables

\* Of a task that does not wait, and of one that is in no queue.
LEMMA FreeFacts ==
  ASSUME NEW K, NEW wq, NEW t \in Task, OneTask(K, wq, t)
  PROVE  /\ ~Waiting(K, t) => K.tick[t] = Forever /\ K.reason[t] = "none" /\ K.pwait[t] = Null
         /\ K.pwait[t] = Null => t \notin Queued(wq)
         /\ K.exists[t] \/ K.state[t] = "dormant"
         /\ Called(K, t)
         /\ K.reason[t] \notin ByMutex
<1>1. \A q \in WaitQ : q # Null
  BY CoreAssumption
<1>2. K.pwait[t] = Null => t \notin Queued(wq)
  BY <1>1, QueuedIs DEF OneTask
<1>3. \A q : Why(q) \notin ByMutex
  BY DEF Why, ByMutex
<1> QED
  BY <1>2, <1>3 DEF OneTask, ByMutex

\* What a task waits in is determined by the queues.
LEMMA SamePwait ==
  ASSUME NEW K, NEW J, Sound(K), Sound(J), NEW t \in Task,
         \A q \in WaitQ : In(Queues(J), q, t) <=> In(Queues(K), q, t)
  PROVE  J.pwait[t] = K.pwait[t]
<1>1. /\ K.pwait[t] \in WaitQ \cup {Null} /\ J.pwait[t] \in WaitQ \cup {Null}
      /\ \A q \in WaitQ : In(Queues(K), q, t) <=> K.pwait[t] = q
      /\ \A q \in WaitQ : In(Queues(J), q, t) <=> J.pwait[t] = q
  BY SoundFacts, KernelFields DEF OneTask
<1> QED
  BY <1>1

\* The kernel starts in the invariant.
LEMMA InitInv ==
  ASSUME \A p \in Programs : Orderly(p.services)
  PROVE  Init => KInv
<1> SUFFICES ASSUME Init PROVE KInv
  OBVIOUS
<1>1. PICK p \in Programs : k = [Started(p) EXCEPT !.curr = Started(p).next] /\ services = p.services
  BY DEF Init
<1> DEFINE K == Started(p)
           created == {Idle} \cup {p.created[i] : i \in DOMAIN p.created}
<1>2. Fresh(K, created, created)
  BY StartedIs
<1>3. created \subseteq Task /\ Idle \in created
  BY <1>2 DEF Fresh, Sched, Listed
<1> HIDE DEF K, created
<1>4. K \in Kernel /\ K.next \in created /\ K.next \in Task
  BY <1>2, <1>3 DEF Fresh, Sched, Chosen
<1>5. k = [K EXCEPT !.curr = K.next]
  BY <1>1 DEF K
<1>6. /\ k \in Kernel /\ k.state = K.state /\ k.prio = K.prio /\ k.reason = K.reason
      /\ k.tick = K.tick /\ k.activate = K.activate /\ k.exists = K.exists
      /\ k.link = K.link /\ k.bmp = K.bmp /\ k.next = K.next /\ k.curr = K.next
      /\ k.request = K.request /\ k.pwait = K.pwait
  BY <1>4, <1>5 DEF Kernel
<1>7. Runnables(k) = created
  BY <1>2, <1>3, <1>6 DEF Fresh, Runnables
<1>8. Timers(k) = Timers(K)
  BY <1>6 DEF Timers
<1>9. Sched(k, Runnables(k), NoQueues) /\ AtHead(k)
  BY <1>2, <1>6, <1>7, <1>8 DEF Fresh, Sched, Chosen, AtHead
<1>p. \A t \in Task : k.reason[t] = "none" /\ k.pwait[t] = Null
  BY <1>2, <1>6 DEF Fresh
<1>10. Sound(k)
  <2>1. k.state[Idle] = "runnable"
    BY <1>2, <1>3, <1>6 DEF Fresh
  <2>2. ASSUME NEW t \in Task PROVE OneTask(k, NoQueues, t)
    <3>1. k.exists[t] = (t \in created) /\ k.tick[t] = Forever /\ k.reason[t] = "none"
          /\ k.activate[t] = 0 /\ k.pwait[t] = Null
      BY <1>2, <1>6 DEF Fresh
    <3>2. k.state[t] = IF t \in created THEN "runnable" ELSE "dormant"
      BY <1>2, <1>6 DEF Fresh
    <3>3. t \notin Queued(NoQueues)
      BY DEF Queued, NoQueues
    <3>4. ~(0 > 0)
      OBVIOUS
    <3>5. ~Waiting(k, t) /\ Called(k, t)
      BY <3>1, <3>2, <3>4 DEF Waiting, Called, Suspended
    <3> QED
      BY <3>1, <3>2, <3>3, <3>5, <1>6, OneTaskFree
  <2> QED
    BY <1>9, <2>1, <2>2, SoundFrom
<1>11. RunsRight(k)
  BY <1>2, <1>3, <1>4, <1>6 DEF RunsRight, Fresh
<1>12. pc \in [Task -> Spots] /\ ticks \in [Prio -> Nat] /\ ticks = [r \in Prio |-> 0]
  BY DEF Init, Spots
<1>13. Within(k, pc)
  BY <1>p DEF Within
<1> QED
  BY <1>1, <1>2, <1>6, <1>9, <1>10, <1>11, <1>12, <1>13 DEF KInv, Fresh

\* A step that leaves such data as K keeps it.
LEMMA InvKept ==
  ASSUME KInv, NEW K, Sound(K), ~K.request, k' = K, services' = services,
         "tslice_ticks" \notin services => AtHead(K) /\ ticks' = ticks,
         pc' \in [Task -> Spots], ticks' \in [Prio -> Nat],
         Runs(pc'[K.curr][1]) => RunsRight(K), Within(K, pc')
  PROVE  KInv'
<1>0. Queues(k)' = Queues(K)
  BY DEF Queues, Entries
<1>1. Sound(k)'
  BY <1>0 DEF Sound, SoundBut, OneTask, Called, Suspended
<1>2. RunsRight(K) => RunsRight(k)'
  BY DEF RunsRight, Exact, SwitchesAsked
<1>3. AtHead(K) => AtHead(k)'
  BY DEF AtHead
<1>4. Within(k, pc)'
  BY DEF Within
<1> QED
  BY <1>1, <1>2, <1>3, <1>4 DEF KInv, Place

\* What a step of the kernel does to the tasks inside the services of objects:
\* it leaves them alone, or ends them.
Restarts == services \cap {"terminate", "create"} # {}
Aside(K, P) ==
  \A t \in Task : \/ P[t] = pc[t] /\ View(K, k, t)
                  \/ P[t][2] = Null /\ K.pwait[t] = Null /\ (pc[t][2] = Null \/ Restarts)
OneOut(J, K) == \E q \in WaitQ : \E m \in 1 .. Len(Queues(K)[q]) :
                  Queues(J) = [Queues(K) EXCEPT ![q] = Without(@, m)]
Shrinks(J, K) == Queues(J) = Queues(K) \/ ("terminate" \in services /\ OneOut(J, K))
Apart == Aside(k', pc') /\ Shrinks(k', k)

\* Such a step.
LEMMA StepIs ==
  ASSUME KInv, NEW K, Sound(K), ~K.request, k' = K, services' = services,
         "tslice_ticks" \notin services => AtHead(K) /\ ticks' = ticks,
         pc' \in [Task -> Spots], ticks' \in [Prio -> Nat],
         Runs(pc'[K.curr][1]) => RunsRight(K), Aside(K, pc'), Shrinks(K, k)
  PROVE  KInv' /\ Apart
<1>1. Within(K, pc')
  BY DEF KInv, Within, Aside, View
<1>2. KInv'
  BY <1>1, InvKept
<1> QED
  BY <1>2 DEF Apart

\* The next task is always one that may run.
LEMMA NextRuns ==
  ASSUME NEW K, Sound(K), K.next = K.curr
  PROVE  RunsRight(K)
BY DEF Sound, SoundBut, Sched, Chosen, Runnables, RunsRight

\* The running task may go on if it stays ready and next stays the same.
LEMMA StillRuns ==
  ASSUME NEW K, NEW J, Sound(K), RunsRight(K), J.curr = K.curr, J.next = K.next,
         \A u \in Task : K.state[u] = "runnable" => J.state[u] = "runnable" /\ J.prio[u] = K.prio[u]
  PROVE  RunsRight(J)
<1>1. K.next \in Task /\ K.curr \in Task /\ K.state[K.next] = "runnable"
  BY KernelFields DEF Sound, SoundBut, Sched, Chosen, Runnables
<1> QED
  BY <1>1 DEF RunsRight

-----------------------------------------------------------------------------
(* What the services do to the kernel's data.                              *)

Kept(J, K) == /\ Sound(J) /\ J.curr = K.curr /\ J.request = K.request
              /\ AtHead(K) => AtHead(J)
              /\ Queues(J) = Queues(K)

\* tn_task_suspend of a ready task.
LEMMA SuspendReady ==
  ASSUME NEW K, Sound(K), NEW u \in User, K.state[u] = "runnable", "suspend" \in services
  PROVE  LET J == ToNonRunnable([K EXCEPT !.state[u] = "suspend"], u)
         IN  Kept(J, K) /\ Spares(J, K, {})
<1> DEFINE R == Runnables(K)
           wq == Queues(K)
           s == [K.state EXCEPT ![u] = "suspend"]
           A == [K EXCEPT !.state = s]
           J == ToNonRunnable(A, u)
<1>0. /\ K \in Kernel /\ u \in Task /\ u # Idle /\ u \in R /\ Idle \in R
      /\ K.state \in [Task -> State] /\ Sched(K, R, wq) /\ K.state[Idle] = "runnable"
      /\ R \subseteq Task /\ \A t \in Task : OneTask(K, wq, t)
  BY SoundFacts, ConstantFacts DEF Runnables
<1>1. s \in [Task -> State] /\ s[u] = "suspend" /\ \A t \in Task : t # u => s[t] = K.state[t]
  BY <1>0 DEF State
<1>2. [K EXCEPT !.state[u] = "suspend"] = A
  BY <1>0 DEF Kernel
<1>11. Runnables(K) = R /\ Queues(K) = wq
  OBVIOUS
<1> HIDE DEF s, R, wq
<1>3. /\ A \in Kernel /\ Frame(A, K) /\ A.state = s /\ A.prio = K.prio /\ A.link = K.link
      /\ A.bmp = K.bmp /\ A.next = K.next
  BY <1>0, <1>1 DEF Kernel, Frame
<1> HIDE DEF A
<1>4. Sched(A, R, wq) /\ (AtHead(K) => AtHead(A))
  BY <1>0, <1>3 DEF Sched, Timers, Chosen, AtHead, Frame
<1>5. /\ Sched(J, R \ {u}, wq) /\ Frame(J, A)
      /\ J.state = A.state /\ J.prio = A.prio
      /\ AtHead(A) => AtHead(J)
  <2>1. R # {u}
    BY <1>0
  <2> QED
    BY <2>1, <1>0, <1>4, ToNonRunnableIs
<1> HIDE DEF J
<1>6. Runnables(J) = R \ {u}
  BY <1>1, <1>3, <1>5, <1>11 DEF Runnables
<1>7. ~Waiting(K, u) /\ ~Waiting(J, u)
  BY <1>0, <1>1, <1>3, <1>5 DEF Waiting
<1>8. ASSUME NEW t \in Task PROVE OneTask(J, wq, t)
  <2>1. CASE t = u
    <3>1. /\ K.tick[u] = Forever /\ K.reason[u] = "none" /\ K.pwait[u] = Null
          /\ u \notin Queued(wq) /\ K.exists[u] /\ Called(K, u)
      BY <1>0, <1>7, FreeFacts
    <3>2. /\ J.tick[u] = Forever /\ J.reason[u] = "none" /\ J.pwait[u] = Null
          /\ J.exists[u] /\ Called(J, u) /\ J \in Kernel
      BY <3>1, <1>3, <1>5 DEF Frame, Called, Suspended, Sched
    <3> QED
      BY <3>1, <3>2, <1>0, <1>7, <2>1, OneTaskFree
  <2>2. CASE t # u
    BY <2>2, <1>0, <1>1, <1>3, <1>5, OneTaskSame DEF Frame
  <2> QED
    BY <2>1, <2>2
<1>9. Sound(J) /\ Queues(J) = wq
  BY <1>0, <1>1, <1>3, <1>5, <1>6, <1>8, SoundFrom
<1>10. Spares(J, K, {})
  BY <1>1, <1>3, <1>5, <1>7 DEF Spares, View, Frame, Waiting
<1> QED
  BY <1>2, <1>3, <1>4, <1>5, <1>9, <1>10, <1>11 DEF Frame, J, Kept

\* Kernel data that differ in nothing the scheduler looks at.
Alike(J, K) ==
  /\ J \in Kernel /\ J.link = K.link /\ J.bmp = K.bmp /\ J.next = K.next /\ J.prio = K.prio
  /\ J.tick = K.tick /\ J.curr = K.curr /\ J.request = K.request
  /\ Runnables(J) = Runnables(K) /\ J.state[Idle] = K.state[Idle]
  /\ J.pwait = K.pwait /\ J.rc = K.rc /\ J.elem = K.elem /\ J.ewait = K.ewait
  /\ J.reason = K.reason

\* Such data are as sound.
LEMMA AlikeSound ==
  ASSUME NEW K, NEW J, Sound(K), Alike(J, K), \A t \in Task : OneTask(J, Queues(K), t),
         \A t \in Task : Waiting(J, t) <=> Waiting(K, t)
  PROVE  /\ Kept(J, K) /\ Spares(J, K, {}) /\ J.next = K.next
         /\ (RunsRight(K) => RunsRight(J))
<1>0. Sched(J, Runnables(J), Queues(K)) /\ J.state[Idle] = "runnable"
  BY DEF Sound, SoundBut, Alike, Sched, Timers, Chosen
<1>1. Sound(J) /\ Queues(J) = Queues(K)
  BY <1>0, SoundFrom
<1>2. \A u \in Task : K.state[u] = "runnable" => J.state[u] = "runnable" /\ J.prio[u] = K.prio[u]
  BY DEF Alike, Runnables
<1>3. RunsRight(K) => RunsRight(J)
  BY <1>2, StillRuns DEF Alike
<1>4. Spares(J, K, {}) /\ (AtHead(K) => AtHead(J))
  BY DEF Alike, Spares, View, AtHead
<1> QED
  BY <1>1, <1>3, <1>4 DEF Alike, Kept

\* The state of a task that is not ready changes with what it waits for.
LEMMA StateSet ==
  ASSUME NEW K, Sound(K), NEW u \in User, NEW x \in {"wait", "waitsusp"}, Waiting(K, u),
         x = "waitsusp" => "suspend" \in services
  PROVE  LET J == [K EXCEPT !.state[u] = x]
         IN  Kept(J, K) /\ Spares(J, K, {}) /\ (RunsRight(K) => RunsRight(J))
<1> DEFINE s == [K.state EXCEPT ![u] = x]
           J == [K EXCEPT !.state[u] = x]
           wq == Queues(K)
<1>0. /\ K \in Kernel /\ u \in Task /\ u # Idle /\ K.state \in [Task -> State]
      /\ \A t \in Task : OneTask(K, wq, t)
  BY SoundFacts, ConstantFacts
<1>1. s \in [Task -> State] /\ s[u] = x /\ \A t \in Task : t # u => s[t] = K.state[t]
  BY <1>0 DEF State
<1>2. J = [K EXCEPT !.state = s]
  BY <1>0 DEF Kernel
<1> HIDE DEF s, J, wq
<1>3. /\ J \in Kernel /\ Frame(J, K) /\ J.state = s /\ J.prio = K.prio /\ J.link = K.link
      /\ J.bmp = K.bmp /\ J.next = K.next
  BY <1>0, <1>1, <1>2 DEF Kernel, Frame
<1>4. Runnables(J) = Runnables(K) /\ J.state[Idle] = K.state[Idle]
  BY <1>0, <1>1, <1>3, ConstantFacts DEF Runnables, Waiting
<1>5. \A t \in Task : (Waiting(J, t) <=> Waiting(K, t)) /\ (J.state[t] = "dormant" <=> K.state[t] = "dormant")
  BY <1>0, <1>1, <1>3 DEF Waiting
<1>c. \A t \in Task : Called(J, t)
  <2> SUFFICES ASSUME NEW t \in Task PROVE Called(J, t)
    OBVIOUS
  <2>1. OneTask(K, wq, t)
    BY <1>0
  <2> QED
    BY <2>1, <1>1, <1>3 DEF OneTask, Frame, Called, Suspended
<1>6. \A t \in Task : OneTask(J, wq, t)
  BY <1>0, <1>3, <1>5, <1>c DEF OneTask, Frame
<1>7. Alike(J, K)
  BY <1>3, <1>4 DEF Alike, Frame
<1> QED
  BY <1>5, <1>6, <1>7, AlikeSound DEF J, wq

\* tn_task_resume and tn_task_activate: a task that is in no list gets ready.
LEMMA MadeReady ==
  ASSUME NEW K, Sound(K), NEW u \in User, K.exists[u], K.state[u] \in {"dormant", "suspend"}
  PROVE  LET J == ToRunnable(K, u)
         IN  /\ Kept(J, K) /\ Spares(J, K, {})
             /\ J.next \in {u, K.next} /\ J.prio = K.prio
             /\ \A t \in Task : K.state[t] = "runnable" => J.state[t] = "runnable"
<1> DEFINE R == Runnables(K)
           wq == Queues(K)
           J == ToRunnable(K, u)
<1>0. /\ K \in Kernel /\ u \in Task /\ u # Idle /\ u \notin R
      /\ K.state \in [Task -> State] /\ Sched(K, R, wq) /\ K.state[Idle] = "runnable"
      /\ R \subseteq Task /\ (\A t \in Task : OneTask(K, wq, t)) /\ ~Waiting(K, u)
  BY SoundFacts, ConstantFacts DEF Runnables, Waiting
<1> HIDE DEF wq
<1>a. /\ K.tick[u] = Forever /\ K.reason[u] = "none" /\ K.pwait[u] = Null
      /\ u \notin Queued(wq) /\ Called(K, u)
  BY <1>0, FreeFacts
<1>1. /\ Sched(J, R \cup {u}, wq) /\ Frame(J, K)
      /\ J.state = [K.state EXCEPT ![u] = "runnable"] /\ J.prio = K.prio
      /\ J.next = IF K.prio[u] < K.prio[K.next] THEN u ELSE K.next
      /\ AtHead(K) => AtHead(J)
  BY <1>0, <1>a, ToRunnableIs
<1> HIDE DEF J
<1>2. Runnables(J) = R \cup {u}
  BY <1>0, <1>1 DEF Runnables
<1>3. ~Waiting(J, u)
  BY <1>0, <1>1 DEF Waiting
<1>4. ASSUME NEW t \in Task PROVE OneTask(J, wq, t)
  <2>1. CASE t = u
    <3>1. /\ J.tick[u] = Forever /\ J.reason[u] = "none" /\ J.pwait[u] = Null
          /\ J.exists[u] /\ Called(J, u) /\ J \in Kernel
      BY <1>1, <1>a DEF Frame, Called, Suspended, Sched
    <3> QED
      BY <3>1, <1>0, <1>a, <1>3, <2>1, OneTaskFree
  <2>2. CASE t # u
    BY <2>2, <1>0, <1>1, OneTaskSame DEF Frame
  <2> QED
    BY <2>1, <2>2
<1>5. Sound(J) /\ Queues(J) = wq
  BY <1>0, <1>1, <1>2, <1>4, SoundFrom, ConstantFacts
<1>6. Spares(J, K, {})
  BY <1>0, <1>1, <1>3 DEF Spares, View, Frame, Waiting
<1> QED
  BY <1>0, <1>1, <1>5, <1>6 DEF Frame, J, Kept, wq

\* A wait of the running task: the idle task is always left to run.
FallsAsleepIs(J, K, q, why) ==
  /\ Sound(J) /\ J.curr = K.curr /\ J.request = K.request
  /\ AtHead(K) => AtHead(J)
  /\ Queues(J) = WaitsIn(Queues(K), q, K.curr)
  /\ J.pwait[K.curr] = q /\ Waiting(J, K.curr) /\ J.reason[K.curr] = why
  /\ J.rc = K.rc /\ J.elem = K.elem /\ J.ewait = K.ewait
  /\ \A t \in Task : t # K.curr => View(J, K, t)
LEMMA FallsAsleep ==
  ASSUME NEW K, Sound(K), K.state[K.curr] = "runnable", K.curr # Idle,
         NEW q \in WaitQ \cup {Null}, NEW why \in Reason,
         NEW timeout \in (Nat \ {0}) \cup {Forever},
         q = Null => "sleep" \in services /\ why = "sleep",
         q # Null => /\ services \cap {"release_wait", "irelease_wait"} = {}
                     /\ why = Why(q) /\ timeout = Forever
  PROVE  FallsAsleepIs(CurrToWait(K, q, why, timeout), K, q, why)
<1> DEFINE R == Runnables(K)
           wq == Queues(K)
           t == K.curr
           J == CurrToWait(K, q, why, timeout)
           new == WaitsIn(wq, q, t)
<1>0. /\ K \in Kernel /\ t \in Task /\ t # Idle /\ t \in R /\ Idle \in R
      /\ K.state \in [Task -> State] /\ Sched(K, R, wq) /\ K.state[Idle] = "runnable"
      /\ R \subseteq Task /\ K.reason \in [Task -> Reason] /\ ~Waiting(K, t)
      /\ K.tick \in [Task -> Nat \cup {Forever}] /\ Idle \in Task
      /\ K.pwait \in [Task -> WaitQ \cup {Null}]
      /\ \A u \in Task : OneTask(K, wq, u)
  BY SoundFacts, ConstantFacts, KernelFields DEF Runnables, Waiting
<1> HIDE DEF wq, new
<1>a. /\ K.tick[t] = Forever /\ K.reason[t] = "none" /\ K.pwait[t] = Null
      /\ t \notin Queued(wq) /\ Called(K, t) /\ K.exists[t]
  BY <1>0, FreeFacts
<1>1. /\ Sched(J, R \ {t}, new)
      /\ J.state = [K.state EXCEPT ![t] = "wait"]
      /\ J.prio = K.prio
      /\ J.reason = [K.reason EXCEPT ![t] = why]
      /\ J.tick = [K.tick EXCEPT ![t] = timeout]
      /\ J.activate = K.activate /\ J.exists = K.exists
      /\ J.curr = K.curr /\ J.request = K.request
      /\ J.pwait = [K.pwait EXCEPT ![t] = IF q = Null THEN @ ELSE q]
      /\ J.rc = K.rc /\ J.elem = K.elem /\ J.ewait = K.ewait
      /\ AtHead(K) => AtHead(J)
  <2>1. R # {t}
    BY <1>0
  <2> QED
    BY <2>1, <1>0, <1>a, CurrToWaitIs DEF new
<1> HIDE DEF J
<1>2. Runnables(J) = R \ {t}
  BY <1>0, <1>1 DEF Runnables
<1>3. /\ J.pwait[t] = q /\ J.state[t] = "wait" /\ J.reason[t] = why /\ J.tick[t] = timeout
      /\ Waiting(J, t) /\ J.exists[t] /\ Called(J, t)
  BY <1>0, <1>1, <1>a DEF Waiting, Called, Suspended
<1>w. wq \in [WaitQ -> Seq(Task)] /\ \A r \in WaitQ : r # Null
  BY <1>0, CoreAssumption DEF Sched, Listed, WaitLists
<1>b. \A r \in WaitQ : \A u \in Task :
        In(new, r, u) <=> In(wq, r, u) \/ (u = t /\ r = q)
  <2> SUFFICES ASSUME NEW r \in WaitQ, NEW u \in Task
      PROVE In(new, r, u) <=> In(wq, r, u) \/ (u = t /\ r = q)
    OBVIOUS
  <2>1. CASE q = Null \/ r # q
    <3>1. new[r] = wq[r] /\ r # q
      BY <2>1, <1>w DEF WaitsIn, new
    <3> QED
      BY <3>1 DEF In
  <2>2. CASE q # Null /\ r = q
    <3> DEFINE s == wq[q]
               z == Append(s, t)
    <3>1. new[r] = z /\ s \in Seq(Task)
      BY <2>2, <1>w DEF WaitsIn, new
    <3> HIDE DEF s, t
    <3>2. Len(s) \in Nat /\ Len(z) = Len(s) + 1 /\ z[Len(s) + 1] = t
          /\ \A i \in 1 .. Len(s) : z[i] = s[i]
      BY <3>1
    <3>3. 1 .. Len(z) = (1 .. Len(s)) \cup {Len(s) + 1}
      BY <3>2
    <3> HIDE DEF z
    <3>4. (\E i \in 1 .. Len(z) : z[i] = u) <=> (\E i \in 1 .. Len(s) : s[i] = u) \/ u = t
      BY <3>2, <3>3
    <3> QED
      BY <3>1, <3>4, <2>2 DEF In, s
  <2> QED
    BY <2>1, <2>2
<1>4. ASSUME NEW u \in Task PROVE OneTask(J, new, u)
  <2>1. CASE u = t
    <3>1. \A r \in WaitQ : ~In(wq, r, t)
      BY <1>a, <1>0, QueuedIs
    <3>2. \A r \in WaitQ : In(new, r, t) <=> J.pwait[t] = r
      BY <3>1, <1>b, <1>3, <1>0
    <3>3. timeout # Forever => timeout > 0 /\ q = Null
      OBVIOUS
    <3> QED
      BY <2>1, <1>3, <3>2, <3>3 DEF OneTask
  <2>2. CASE u # t
    <3>1. OneTask(K, wq, u) /\ \A r \in WaitQ : In(new, r, u) <=> In(wq, r, u)
      BY <2>2, <1>0, <1>b
    <3>2. /\ J.exists[u] = K.exists[u] /\ J.state[u] = K.state[u] /\ J.tick[u] = K.tick[u]
          /\ J.reason[u] = K.reason[u] /\ J.pwait[u] = K.pwait[u] /\ J.activate[u] = K.activate[u]
      BY <2>2, <1>0, <1>1
    <3> QED
      BY <3>1, <3>2, OneTaskSame
  <2> QED
    BY <2>1, <2>2
<1>5. Sound(J) /\ Queues(J) = new
  BY <1>0, <1>1, <1>2, <1>4, SoundFrom
<1>6. \A u \in Task : u # t => View(J, K, u)
  BY <1>0, <1>1 DEF View, Waiting
<1> QED
  BY <1>1, <1>3, <1>5, <1>6 DEF J, FallsAsleepIs, wq, new

\* The count of wakeups does not concern the scheduler.
LEMMA WakeupSet ==
  ASSUME NEW K, Sound(K), NEW u \in Task, NEW x \in 0 .. 1
  PROVE  LET J == [K EXCEPT !.wakeup[u] = x]
         IN  /\ Kept(J, K) /\ Spares(J, K, {}) /\ J.next = K.next
             /\ J.prio = K.prio /\ J.state = K.state
             /\ (RunsRight(K) => RunsRight(J))
<1> DEFINE s == [K.wakeup EXCEPT ![u] = x]
           J == [K EXCEPT !.wakeup[u] = x]
<1>0. K \in Kernel /\ (\A t \in Task : OneTask(K, Queues(K), t)) /\ K.wakeup \in [Task -> 0 .. 1]
  BY SoundFacts DEF Kernel
<1>1. s \in [Task -> 0 .. 1]
  BY <1>0
<1>2. J = [K EXCEPT !.wakeup = s]
  BY <1>0 DEF Kernel
<1> HIDE DEF s, J
<1>3. /\ J \in Kernel /\ Frame(J, K) /\ J.state = K.state /\ J.prio = K.prio /\ J.link = K.link
      /\ J.bmp = K.bmp /\ J.next = K.next
  BY <1>0, <1>1, <1>2 DEF Kernel, Frame
<1>4. Alike(J, K)
  BY <1>3 DEF Alike, Frame, Runnables
<1>5. \A t \in Task : OneTask(J, Queues(K), t) /\ (Waiting(J, t) <=> Waiting(K, t))
  BY <1>0, <1>3, OneTaskSame DEF Frame, Waiting
<1> QED
  BY <1>3, <1>4, <1>5, AlikeSound DEF J

\* Nor does the count of activations.
LEMMA ActivateSet ==
  ASSUME NEW K, Sound(K), NEW u \in Task, services \cap {"activate", "iactivate"} # {}
  PROVE  LET J == [K EXCEPT !.activate[u] = 1]
         IN  /\ Kept(J, K) /\ Spares(J, K, {}) /\ J.next = K.next
             /\ J.prio = K.prio /\ J.state = K.state
             /\ (RunsRight(K) => RunsRight(J))
<1> DEFINE s == [K.activate EXCEPT ![u] = 1]
           J == [K EXCEPT !.activate[u] = 1]
<1>0. K \in Kernel /\ (\A t \in Task : OneTask(K, Queues(K), t)) /\ K.activate \in [Task -> 0 .. 1]
  BY SoundFacts, KernelFields
<1>1. s \in [Task -> 0 .. 1]
  BY <1>0
<1>2. J = [K EXCEPT !.activate = s]
  BY <1>0 DEF Kernel
<1> HIDE DEF s, J
<1>3. /\ J \in Kernel /\ J.state = K.state /\ J.prio = K.prio /\ J.link = K.link
      /\ J.bmp = K.bmp /\ J.next = K.next /\ J.reason = K.reason /\ J.tick = K.tick
      /\ J.exists = K.exists /\ J.curr = K.curr /\ J.request = K.request
      /\ J.pwait = K.pwait /\ J.rc = K.rc /\ J.elem = K.elem /\ J.ewait = K.ewait
  BY <1>0, <1>1, <1>2 DEF Kernel
<1>4. Alike(J, K)
  BY <1>3 DEF Alike, Runnables
<1>5. \A t \in Task : OneTask(J, Queues(K), t) /\ (Waiting(J, t) <=> Waiting(K, t))
  BY <1>0, <1>3 DEF OneTask, Waiting, Called, Suspended
<1> QED
  BY <1>3, <1>4, <1>5, AlikeSound DEF J

\* Nor does the deletion of a dormant task.
LEMMA ExistsSet ==
  ASSUME NEW K, Sound(K), NEW u \in Task, K.state[u] = "dormant"
  PROVE  LET J == [K EXCEPT !.exists[u] = FALSE]
         IN  /\ Kept(J, K) /\ Spares(J, K, {}) /\ J.next = K.next
             /\ J.prio = K.prio /\ J.state = K.state /\ J.pwait = K.pwait
             /\ (\A t \in Task : View(J, K, t))
             /\ (RunsRight(K) => RunsRight(J))
<1> DEFINE s == [K.exists EXCEPT ![u] = FALSE]
           J == [K EXCEPT !.exists[u] = FALSE]
<1>0. K \in Kernel /\ (\A t \in Task : OneTask(K, Queues(K), t)) /\ K.exists \in [Task -> BOOLEAN]
  BY SoundFacts, KernelFields
<1>1. s \in [Task -> BOOLEAN] /\ \A t \in Task : ~s[t] => t = u \/ ~K.exists[t]
  BY <1>0
<1>2. J = [K EXCEPT !.exists = s]
  BY <1>0 DEF Kernel
<1> HIDE DEF s, J
<1>3. /\ J \in Kernel /\ J.state = K.state /\ J.prio = K.prio /\ J.link = K.link
      /\ J.bmp = K.bmp /\ J.next = K.next /\ J.reason = K.reason /\ J.tick = K.tick
      /\ J.exists = s /\ J.curr = K.curr /\ J.request = K.request /\ J.activate = K.activate
      /\ J.pwait = K.pwait /\ J.rc = K.rc /\ J.elem = K.elem /\ J.ewait = K.ewait
  BY <1>0, <1>1, <1>2 DEF Kernel
<1>4. Alike(J, K)
  BY <1>3 DEF Alike, Runnables
<1>5. \A t \in Task : OneTask(J, Queues(K), t) /\ (Waiting(J, t) <=> Waiting(K, t))
  BY <1>0, <1>1, <1>3 DEF OneTask, Waiting, Called, Suspended
<1>6. \A t \in Task : View(J, K, t)
  BY <1>3 DEF View, Waiting
<1> QED
  BY <1>3, <1>4, <1>5, <1>6, AlikeSound DEF J

\* The end of a task's sleep, and of any wait the program can release.
LEMMA WokenIs ==
  ASSUME NEW K, Sound(K), NEW u \in User, Waiting(K, u), K.pwait[u] = Null
  PROVE  LET J == WaitComplete(K, u)
         IN  /\ Kept(J, K) /\ Spares(J, K, {}) /\ J.prio = K.prio
             /\ \A t \in Task : K.state[t] = "runnable" => J.state[t] = "runnable"
             /\ Wakes(K, u) \/ J.next = K.next
<1> DEFINE wq == Queues(K)
           J == WaitComplete(K, u)
<1>1. u \in Task /\ (\A t \in Task : OneTask(K, wq, t)) /\ Sound(K)
  BY SoundFacts, ConstantFacts
<1> HIDE DEF wq
<1>2. SoundBut(K, wq, u)
  BY <1>1 DEF Sound, SoundBut, wq
<1>3. K.exists[u] /\ u \notin Queued(wq) /\ K.reason[u] \notin ByMutex /\ Called(K, u)
  <2>1. K.state[u] # "dormant"
    BY DEF Waiting
  <2> QED
    BY <2>1, <1>1, FreeFacts
<1>4. Completed(J, K, wq, u) /\ (Wakes(K, u) <=> ~Suspended(K, u))
  BY <1>1, <1>2, <1>3, WaitOver DEF Leaving
<1>5. K.reason[u] = "sleep"
  BY <1>1 DEF OneTask
<1> HIDE DEF J
<1>6. Spares(J, K, {})
  BY <1>4, <1>5 DEF Spares, Completed
<1> QED
  BY <1>4, <1>6 DEF Completed, Kept, J, wq

\* A wait queue a task is taken out of keeps the others.
LEMMA OthersStay ==
  ASSUME NEW K, NEW R, NEW wq, Sched(K, R, wq), NEW q \in WaitQ, NEW m \in 1 .. Len(wq[q]),
         NEW r \in WaitQ, NEW t \in Task
  PROVE  In([wq EXCEPT ![q] = Without(@, m)], r, t) <=> In(wq, r, t) /\ (r # q \/ t # wq[q][m])
<1> DEFINE s == wq[q]
           w == Without(s, m)
           new == [wq EXCEPT ![q] = Without(@, m)]
<1>1. K.link \in Memory(Node) /\ WaitLists(K.link, wq) /\ wq \in [WaitQ -> Seq(Task)]
  BY DEF Sched, Listed, WaitLists
<1>2. /\ s \in Seq(Task) /\ Len(s) \in Nat /\ \A i, j \in 1 .. Len(s) : s[i] = s[j] => i = j
  BY <1>1, WaitFacts
<1>3. Shortened(Task, s, m, w)
  BY <1>2, WithoutIs
<1>4. new = [wq EXCEPT ![q] = w]
  OBVIOUS
<1> HIDE DEF w, new
<1>5. CASE r # q
  BY <1>1, <1>4, <1>5 DEF In, new
<1>6. CASE r = q
  <2>1. new[q] = w
    BY <1>1, <1>4
  <2>2. Len(w) = Len(s) - 1
        /\ ((\E i \in 1 .. Len(s) - 1 : w[i] = t) <=> t # s[m] /\ \E i \in 1 .. Len(s) : s[i] = t)
    BY <1>2, <1>3 DEF Shortened
  <2>3. (\E i \in 1 .. Len(w) : w[i] = t) <=> t # s[m] /\ \E i \in 1 .. Len(s) : s[i] = t
    BY <2>2
  <2>4. (\E i \in 1 .. Len(new[r]) : new[r][i] = t) <=> t # s[m] /\ \E i \in 1 .. Len(s) : s[i] = t
    BY <2>1, <2>3, <1>6
  <2> QED
    BY <2>4, <1>6 DEF In, s, new
<1> QED
  BY <1>5, <1>6

\* What tn_task_exit and tn_task_terminate leave of a task.
Ended(J, K, wq, t) ==
  /\ Sound(J) /\ Queues(J) = wq
  /\ J.state = [K.state EXCEPT ![t] = IF K.activate[t] > 0 THEN "runnable" ELSE "dormant"]
  /\ J.prio = [K.prio EXCEPT ![t] = Base[t]]
  /\ J.curr = K.curr /\ J.request = K.request
  /\ AtHead(K) => AtHead(J)
  /\ K.activate[t] > 0 \/ J.next = K.next
  /\ J.pwait[t] = Null
  /\ \A u \in Task : u # t => View(J, K, u)

\* A task that has left its list ends.
LEMMA EndsReady ==
  ASSUME NEW K, NEW R, NEW wq, Sched(K, R, wq), NEW t \in User, t \notin R, t \notin Queued(wq),
         K.tick[t] = Forever, K.state[Idle] = "runnable", K.exists[t],
         \A u \in Task : u # t => OneTask(K, wq, u),
         \A u \in Task : u # t => (u \in R <=> K.state[u] = "runnable")
  PROVE  Ended(Restart(K, t), K, wq, t)
<1> DEFINE J == Restart(K, t)
           again == K.activate[t] > 0
           x == IF again THEN "runnable" ELSE "dormant"
<1>0. /\ K \in Kernel /\ t \in Task /\ t # Idle /\ Idle \in Task /\ R \subseteq Task
      /\ K.state \in [Task -> State] /\ K.activate \in [Task -> 0 .. 1]
      /\ K.reason \in [Task -> Reason] /\ K.pwait \in [Task -> WaitQ \cup {Null}]
      /\ K.rc \in [Task -> Rc] /\ K.elem \in [Task -> Elem \cup {Null}]
      /\ K.ewait \in [Task -> [pattern: SUBSET Flag, or: BOOLEAN]]
      /\ K.tick \in [Task -> Nat \cup {Forever}]
  BY KernelFields, ConstantFacts DEF Sched, Listed
<1>1. /\ Sched(J, IF again THEN R \cup {t} ELSE R, wq)
      /\ J.state = [K.state EXCEPT ![t] = x]
      /\ J.prio = [K.prio EXCEPT ![t] = Base[t]]
      /\ J.reason = [K.reason EXCEPT ![t] = "none"]
      /\ J.activate = [K.activate EXCEPT ![t] = 0]
      /\ J.tick = K.tick /\ J.exists = K.exists
      /\ J.curr = K.curr /\ J.request = K.request
      /\ J.pwait = [K.pwait EXCEPT ![t] = Null] /\ J.rc = [K.rc EXCEPT ![t] = "ok"]
      /\ J.elem = [K.elem EXCEPT ![t] = Null] /\ J.ewait = [K.ewait EXCEPT ![t] = NoEvent]
      /\ AtHead(K) => AtHead(J)
      /\ ~again => J.next = K.next
  <2>1. t \in Task /\ Sched(K, R, wq) /\ t \notin R /\ t \notin Queued(wq) /\ K.tick[t] = Forever
    BY <1>0
  <2> QED
    <3>1. RestartLeaves(Restart(K, t), K, R, wq, t)
      BY <2>1, RestartIs
    <3> QED
      BY <3>1 DEF RestartLeaves
<1> HIDE DEF J
<1>2. Runnables(J) = IF again THEN R \cup {t} ELSE R
  <2>1. x = "runnable" <=> again
    OBVIOUS
  <2> HIDE DEF x, again
  <2> QED
    BY <2>1, <1>0, <1>1 DEF Runnables
<1>3. ASSUME NEW u \in Task PROVE OneTask(J, wq, u)
  <2>1. CASE u = t
    <3>1. /\ J.state[t] = x /\ J.tick[t] = Forever /\ J.exists[t]
          /\ J.activate[t] = 0 /\ J.reason[t] = "none" /\ J.pwait[t] = Null
      BY <1>0, <1>1
    <3>2. ~Waiting(J, t) /\ Called(J, t) /\ J \in Kernel
      BY <3>1, <1>1 DEF Waiting, Called, Suspended, Sched
    <3> HIDE DEF x
    <3> QED
      BY <3>1, <3>2, <2>1, <1>0, OneTaskFree
  <2>2. CASE u # t
    <3>1. /\ J.state[u] = K.state[u] /\ J.tick[u] = K.tick[u] /\ J.exists[u] = K.exists[u]
          /\ J.activate[u] = K.activate[u] /\ J.reason[u] = K.reason[u]
          /\ J.pwait[u] = K.pwait[u] /\ OneTask(K, wq, u)
      BY <1>0, <1>1, <2>2
    <3> QED
      BY <3>1, OneTaskSame
  <2> QED
    BY <2>1, <2>2
<1>4. J.state[Idle] = "runnable"
  BY <1>0, <1>1
<1>5. Sound(J) /\ Queues(J) = wq
  <2>1. Sched(J, Runnables(J), wq)
    BY <1>1, <1>2
  <2> QED
    BY <2>1, <1>3, <1>4, SoundFrom
<1>6. J.pwait[t] = Null /\ \A u \in Task : u # t => View(J, K, u)
  BY <1>0, <1>1 DEF View, Waiting
<1> QED
  BY <1>1, <1>5, <1>6 DEF J, Ended

\* tn_task_exit: the idle task is always left to run.
LEMMA ExitIs ==
  ASSUME NEW K, Sound(K), K.state[K.curr] = "runnable", K.curr # Idle, Mutex = {},
         NEW delete \in BOOLEAN, delete => services \cap {"activate", "iactivate"} = {}
  PROVE  LET t == K.curr
             J == [Restart(ToNonRunnable(UnlockAll(K, t), t), t) EXCEPT !.exists[t] = @ /\ ~delete]
         IN  Kept(J, K) /\ Spares(J, K, {t}) /\ J.pwait[t] = Null
<1> DEFINE R == Runnables(K)
           wq == Queues(K)
           t == K.curr
           N == ToNonRunnable(K, t)
           E == Restart(N, t)
           J == [E EXCEPT !.exists[t] = E.exists[t] /\ ~delete]
<1>0. /\ K \in Kernel /\ t \in Task /\ t \in User /\ Idle \in R /\ t \in R
      /\ Sched(K, R, wq) /\ K.state[Idle] = "runnable" /\ R \subseteq Task
      /\ UnlockAll(K, t) = K /\ Idle # t
      /\ \A u \in Task : u \in R <=> K.state[u] = "runnable"
      /\ \A u \in Task : OneTask(K, wq, u)
  BY SoundFacts, ConstantFacts DEF Runnables, UnlockAll, User
<1>1. /\ Sched(N, R \ {t}, wq) /\ Frame(N, K) /\ N.state = K.state /\ N.prio = K.prio
      /\ AtHead(K) => AtHead(N)
  <2>1. R # {t}
    BY <1>0
  <2> HIDE DEF R, wq
  <2> QED
    BY <2>1, <1>0, ToNonRunnableIs
<1>q. Queues(K) = wq
  OBVIOUS
<1> HIDE DEF wq
<1>a. ~Waiting(K, t)
  BY <1>0 DEF Waiting
<1>2. N.tick[t] = Forever /\ N.exists[t] /\ t \notin Queued(wq) /\ Called(N, t)
  BY <1>0, <1>1, <1>a, FreeFacts DEF Frame, Called, Suspended
<1>3. \A u \in Task : OneTask(N, wq, u)
  BY <1>0, <1>1, OneTaskSame DEF Frame
<1>9. \A u \in Task : u # t => (u \in R \ {t} <=> N.state[u] = "runnable")
  BY <1>0, <1>1
<1>10. N.state[Idle] = "runnable" /\ t \notin R \ {t}
  BY <1>0, <1>1
<1> DEFINE Q == R \ {t}
<1> HIDE DEF N, R
<1>4. Ended(E, N, wq, t)
  <2>1. /\ Sched(N, Q, wq) /\ t \in User /\ t \notin Q /\ N.tick[t] = Forever
        /\ N.state[Idle] = "runnable" /\ N.exists[t] /\ t \notin Queued(wq)
        /\ \A u \in Task : u # t => OneTask(N, wq, u)
        /\ \A u \in Task : u # t => (u \in Q <=> N.state[u] = "runnable")
    BY <1>0, <1>1, <1>2, <1>3, <1>9, <1>10
  <2> HIDE DEF t, Q
  <2> QED
    BY <2>1, EndsReady
<1> HIDE DEF E
<1>5. /\ Sound(E) /\ E.curr = N.curr /\ E.request = N.request /\ (AtHead(N) => AtHead(E))
      /\ E.state = [N.state EXCEPT ![t] = IF N.activate[t] > 0 THEN "runnable" ELSE "dormant"]
      /\ Queues(E) = wq /\ E.pwait[t] = Null /\ \A u \in Task : u # t => View(E, N, u)
  BY <1>4 DEF Ended
<1>6. /\ E.curr = K.curr /\ E.request = K.request /\ (AtHead(K) => AtHead(E))
      /\ \A u \in Task : u # t => View(E, K, u)
  BY <1>1, <1>5 DEF Frame, View, Waiting
<1>7. E \in Kernel /\ E.exists \in [Task -> BOOLEAN] /\ N.state \in [Task -> State]
  BY <1>1, <1>5, SoundFacts, KernelFields DEF Sched
<1>8. Kept(J, E) /\ \A u \in Task : View(J, E, u)
  <2>1. CASE ~delete
    <3>1. [E.exists EXCEPT ![t] = E.exists[t] /\ ~delete] = E.exists
      BY <1>0, <1>7, <2>1
    <3>2. J = [E EXCEPT !.exists = E.exists]
      BY <3>1, <1>7 DEF Kernel
    <3>3. J = E
      BY <3>2, <1>7 DEF Kernel
    <3> HIDE DEF J
    <3> QED
      BY <3>3, <1>5 DEF Kept, View
  <2>2. CASE delete
    <3>1. ~(N.activate[t] > 0)
      BY <1>2, <2>2 DEF Called, Suspended
    <3>2. E.state[t] = "dormant"
      BY <3>1, <1>0, <1>5, <1>7
    <3>3. J = [E EXCEPT !.exists[t] = FALSE]
      BY <1>0, <1>7, <2>2 DEF Kernel
    <3> DEFINE M == [E EXCEPT !.exists[t] = FALSE]
    <3>4. Kept(M, E) /\ \A u \in Task : View(M, E, u)
      BY <1>0, <1>5, <3>2, ExistsSet
    <3> HIDE DEF M, J
    <3> QED
      BY <3>3, <3>4 DEF M
  <2> QED
    BY <2>1, <2>2
<1> HIDE DEF J
<1>11. Kept(J, K)
  BY <1>5, <1>6, <1>8, <1>q DEF Kept
<1>12. Spares(J, K, {t}) /\ J.pwait[t] = Null
  BY <1>0, <1>5, <1>6, <1>8 DEF Spares, View
<1>13. UnlockAll(K, t) = K
  BY <1>0
<1> QED
  BY <1>11, <1>12, <1>13 DEF J, N, E

\* A task to be terminated, out of its list.
Stopped(K, u) ==
  IF K.state[u] = "runnable" THEN ToNonRunnable(K, u)
  ELSE IF Waiting(K, u) THEN [K EXCEPT !.link = RemoveEntry(@, Tq(u))] ELSE K

\* It leaves the ready list or the queue it waits in, if it is in one.
StoppedIs(J, K, u, wq) ==
  /\ Sched(J, Runnables(K) \ {u}, wq) /\ Frame(J, K)
  /\ J.state = K.state /\ J.prio = K.prio
  /\ AtHead(K) => AtHead(J)
  /\ AtHead(K) /\ K.next # u => J.next = K.next
  /\ u \notin Queued(wq)
  /\ \A t \in Task : t # u => \A q \in WaitQ : In(wq, q, t) <=> In(Queues(K), q, t)
  /\ wq = Queues(K) \/ \E q \in WaitQ : \E m \in 1 .. Len(Queues(K)[q]) :
                         wq = [Queues(K) EXCEPT ![q] = Without(@, m)]
LEMMA Stops ==
  ASSUME NEW K, Sound(K), NEW u \in User, K.reason[u] # "sleep"
  PROVE  \E wq : StoppedIs(Stopped(K, u), K, u, wq)
<1> DEFINE R == Runnables(K)
           wq == Queues(K)
           N == Stopped(K, u)
<1>0. /\ K \in Kernel /\ u \in Task /\ Idle \in R /\ Sched(K, R, wq) /\ R \subseteq Task /\ Idle # u
      /\ (u \in R <=> K.state[u] = "runnable") /\ OneTask(K, wq, u)
  BY SoundFacts, ConstantFacts DEF Runnables
<1> HIDE DEF R, wq
<1>1. CASE K.state[u] = "runnable"
  <2>1. R # {u} /\ u \in R /\ ~Waiting(K, u)
    BY <1>0, <1>1 DEF Waiting
  <2>2. N = ToNonRunnable(K, u) /\ u \notin Queued(wq)
    BY <2>1, <1>0, <1>1, FreeFacts DEF Stopped
  <2> HIDE DEF N
  <2>3. StoppedIs(N, K, u, wq)
    BY <2>1, <2>2, <1>0, ToNonRunnableIs DEF StoppedIs, R, wq
  <2> QED
    BY <2>3 DEF N
<1>2. CASE Waiting(K, u)
  <2>1. K.pwait[u] # Null /\ K.pwait[u] \in WaitQ /\ In(wq, K.pwait[u], u) /\ K.state[u] # "runnable"
    BY <1>0, <1>2, KernelFields DEF OneTask, Waiting
  <2> DEFINE q == K.pwait[u]
  <2>2. PICK m \in 1 .. Len(wq[q]) : wq[q][m] = u
    BY <2>1 DEF In
  <2> DEFINE new == [wq EXCEPT ![q] = Without(@, m)]
             M == [K EXCEPT !.link = RemoveEntry(@, Tq(wq[q][m]))]
  <2> HIDE DEF q
  <2>3. q \in WaitQ /\ N = M
    BY <2>1, <2>2, <1>2 DEF Stopped, q
  <2> HIDE DEF N, M, new
  <2>4. /\ Sched(M, R, new) /\ Queued(new) = Queued(wq) \ {u}
        /\ Frame(M, K) /\ M.state = K.state /\ M.prio = K.prio /\ M.next = K.next
        /\ AtHead(K) => AtHead(M)
    <3>1. Sched(K, R, wq) /\ q \in WaitQ /\ m \in 1 .. Len(wq[q])
      BY <1>0, <2>3
    <3>2. /\ Sched(M, R, new) /\ Queued(new) = Queued(wq) \ {wq[q][m]}
          /\ Frame(M, K) /\ M.state = K.state /\ M.prio = K.prio /\ M.next = K.next
          /\ AtHead(K) => AtHead(M)
      BY <3>1, TakenIs DEF new, M
    <3> QED
      BY <3>2, <2>2
  <2>5. \A t \in Task : t # u => \A r \in WaitQ : In(new, r, t) <=> In(wq, r, t)
    BY <2>2, <2>3, <1>0, OthersStay DEF new
  <2>6. R \ {u} = R
    BY <1>0, <2>1
  <2>7. \E r \in WaitQ : \E i \in 1 .. Len(wq[r]) : new = [wq EXCEPT ![r] = Without(@, i)]
    BY <2>3 DEF new
  <2>8. StoppedIs(N, K, u, new)
    BY <2>3, <2>4, <2>5, <2>6, <2>7 DEF StoppedIs, R, wq
  <2> QED
    BY <2>8 DEF N
<1>3. CASE K.state[u] # "runnable" /\ ~Waiting(K, u)
  <2>1. N = K /\ R \ {u} = R /\ u \notin Queued(wq)
    BY <1>0, <1>3, FreeFacts DEF Stopped
  <2> HIDE DEF N
  <2>2. StoppedIs(N, K, u, wq)
    BY <2>1, <1>0 DEF StoppedIs, R, wq, Frame
  <2> QED
    BY <2>2 DEF N
<1> QED
  BY <1>1, <1>2, <1>3

\* tn_task_terminate of a task that does not sleep; when it is not started
\* again the running task stays as urgent as the next one.
TerminateLeaves(J, K, u) ==
  /\ Sound(J) /\ J.curr = K.curr /\ J.request = K.request
  /\ AtHead(K) => AtHead(J)
  /\ Spares(J, K, {u}) /\ J.pwait[u] = Null
  /\ Queues(J) = Queues(K) \/ OneOut(J, K)
  /\ ("tslice_ticks" \notin services => AtHead(K)) /\ "terminate" \in services
     /\ ~(K.activate[u] > 0) /\ RunsRight(K) => RunsRight(J)
LEMMA TerminateIs ==
  ASSUME NEW K, Sound(K), NEW u \in User, K.exists[u], K.state[u] # "dormant",
         K.reason[u] # "sleep", u # K.curr
  PROVE  TerminateLeaves(Restart(Stopped(K, u), u), K, u)
<1> DEFINE R == Runnables(K)
           N == Stopped(K, u)
           J == Restart(N, u)
           Q == R \ {u}
<1>0. /\ K \in Kernel /\ u \in Task /\ Idle \in R /\ K.curr \in Task /\ K.next \in Task
      /\ Sched(K, R, Queues(K)) /\ K.state[Idle] = "runnable" /\ R \subseteq Task
      /\ Idle # u /\ Idle \in Task /\ K.prio \in [Task -> Prio] /\ Prio \subseteq Nat
      /\ (\A v \in Task : v \in R <=> K.state[v] = "runnable")
      /\ (\A v \in Task : OneTask(K, Queues(K), v))
  BY SoundFacts, ConstantFacts DEF Runnables
<1>w. PICK wq : StoppedIs(N, K, u, wq)
  BY Stops
<1>1. /\ Sched(N, Q, wq) /\ Frame(N, K) /\ N.state = K.state /\ N.prio = K.prio
      /\ AtHead(K) => AtHead(N)
      /\ AtHead(K) /\ K.next # u => N.next = K.next
      /\ u \notin Queued(wq)
  BY <1>w DEF StoppedIs
<1>2. N.tick[u] = Forever /\ N.exists[u] /\ N.activate[u] = K.activate[u]
  <2>1. K.tick[u] = Forever
    BY <1>0 DEF OneTask
  <2> QED
    BY <2>1, <1>1 DEF Frame
<1>3. ASSUME NEW v \in Task, v # u PROVE OneTask(N, wq, v)
  <2>1. \A q \in WaitQ : In(wq, q, v) <=> In(Queues(K), q, v)
    BY <1>3, <1>w DEF StoppedIs
  <2>2. OneTask(K, Queues(K), v)
    BY <1>0
  <2> HIDE DEF N
  <2> QED
    BY <2>1, <2>2, <1>1, OneTaskSame DEF Frame
<1>4. Ended(J, N, wq, u)
  <2>1. /\ Sched(N, Q, wq) /\ u \notin Q /\ N.tick[u] = Forever /\ u \notin Queued(wq)
        /\ N.state[Idle] = "runnable" /\ N.exists[u]
        /\ (\A v \in Task : v # u => OneTask(N, wq, v))
        /\ \A v \in Task : v # u => (v \in Q <=> N.state[v] = "runnable")
    BY <1>0, <1>1, <1>2, <1>3
  <2> HIDE DEF N, Q
  <2> QED
    BY <2>1, EndsReady
<1> HIDE DEF J, N, R, Q
<1>5. /\ Sound(J) /\ J.curr = K.curr /\ J.request = K.request /\ (AtHead(K) => AtHead(J))
      /\ J.pwait[u] = Null /\ Queues(J) = wq
  BY <1>1, <1>4 DEF Ended, Frame
<1>7. Spares(J, K, {u})
  BY <1>1, <1>4 DEF Ended, Frame, Spares, View, Waiting
<1>8. Queues(J) = Queues(K) \/ OneOut(J, K)
  BY <1>5, <1>w DEF OneOut, StoppedIs
<1>6. ASSUME "tslice_ticks" \notin services => AtHead(K), "terminate" \in services,
             ~(K.activate[u] > 0), RunsRight(K)
      PROVE  RunsRight(J)
  <2>1. /\ J.state = [K.state EXCEPT ![u] = "dormant"]
        /\ J.prio = [K.prio EXCEPT ![u] = Base[u]] /\ J.next = N.next
    BY <1>1, <1>2, <1>4, <1>6 DEF Ended
  <2>2. J.state[K.curr] = "runnable" /\ K.curr \in R
    BY <2>1, <1>0, <1>6, SoundFacts DEF RunsRight
  <2>3. Exact => J.curr = J.next
    BY <2>1, <1>1, <1>5, <1>6 DEF RunsRight, Exact
  <2>4. SwitchesAsked => J.prio[J.curr] = J.prio[J.next]
    <3>1. J.next \in Task /\ J.state[J.next] = "runnable" /\ J.prio[J.next] <= J.prio[K.curr]
      BY <1>0, <1>5, <2>2, SoundFacts DEF Sched, Chosen, Runnables
    <3>2. K.state \in [Task -> State]
      BY <1>0, KernelFields
    <3>3. J.next # u /\ K.state[J.next] = "runnable"
      BY <3>1, <3>2, <2>1, <1>0
    <3>4. K.prio[K.next] <= K.prio[J.next]
      BY <3>1, <3>3, <1>0 DEF Sched, Chosen
    <3>5. J.prio[K.curr] = K.prio[K.curr] /\ J.prio[J.next] = K.prio[J.next]
      BY <3>1, <3>3, <2>1, <1>0
    <3>6. K.prio[K.curr] \in Nat /\ K.prio[J.next] \in Nat /\ K.prio[K.next] \in Nat
      BY <3>1, <1>0
    <3>7. SwitchesAsked => K.prio[K.curr] = K.prio[K.next]
      BY <1>6 DEF RunsRight
    <3> QED
      BY <3>1, <3>4, <3>5, <3>6, <3>7, <1>5
  <2> QED
    BY <2>2, <2>3, <2>4, <1>5 DEF RunsRight
<1> QED
  BY <1>5, <1>6, <1>7, <1>8 DEF J, N, TerminateLeaves

\* tn_task_create: a deleted task is in no list, so it may be reset.
CreateLeaves(D, K, u) ==
  /\ Kept(D, K) /\ Spares(D, K, {u})
  /\ RunsRight(K) => RunsRight(D)
  /\ D.exists[u] /\ D.state[u] = "dormant" /\ D.state = K.state
LEMMA CreateIs ==
  ASSUME NEW K, Sound(K), NEW u \in User, ~K.exists[u]
  PROVE  CreateLeaves(Dormant([K EXCEPT !.exists[u] = TRUE, !.activate[u] = 0], u), K, u)
<1> DEFINE R == Runnables(K)
           wq == Queues(K)
           a == [K.activate EXCEPT ![u] = 0]
           e == [K.exists EXCEPT ![u] = TRUE]
           A == [K EXCEPT !.exists = e, !.activate = a]
           D == Dormant(A, u)
<1>q. Queues(K) = wq
  OBVIOUS
<1> HIDE DEF wq
<1>0. /\ K \in Kernel /\ u \in Task /\ Idle \in R /\ K.curr \in Task /\ K.next \in Task
      /\ Sched(K, R, wq) /\ K.state[Idle] = "runnable" /\ R \subseteq Task
      /\ Idle # u /\ Idle \in Task /\ K.state[u] = "dormant" /\ u \notin R
      /\ \A t \in Task : OneTask(K, wq, t)
  <2>1. /\ K \in Kernel /\ u \in Task /\ Idle \in R /\ K.curr \in Task /\ K.next \in Task
        /\ Sched(K, R, wq) /\ K.state[Idle] = "runnable" /\ R \subseteq Task
        /\ Idle # u /\ Idle \in Task /\ \A t \in Task : OneTask(K, wq, t)
    BY <1>q, SoundFacts, ConstantFacts DEF Runnables
  <2>2. OneTask(K, wq, u)
    BY <2>1
  <2>3. K.state[u] = "dormant"
    BY <2>2 DEF OneTask
  <2> QED
    BY <2>1, <2>3 DEF Runnables
<1>t. /\ K.state \in [Task -> State] /\ K.activate \in [Task -> 0 .. 1]
      /\ K.exists \in [Task -> BOOLEAN] /\ K.prio \in [Task -> Prio]
      /\ K.reason \in [Task -> Reason] /\ K.pwait \in [Task -> WaitQ \cup {Null}]
      /\ K.rc \in [Task -> Rc] /\ K.elem \in [Task -> Elem \cup {Null}]
      /\ K.ewait \in [Task -> [pattern: SUBSET Flag, or: BOOLEAN]]
  BY <1>0, KernelFields
<1>f. /\ ~Waiting(K, u) /\ K.tick[u] = Forever /\ K.reason[u] = "none" /\ K.pwait[u] = Null
      /\ u \notin Queued(wq)
  <2>1. ~Waiting(K, u)
    BY <1>0 DEF Waiting
  <2> QED
    BY <2>1, <1>0, FreeFacts
<1>1. /\ a \in [Task -> 0 .. 1] /\ e \in [Task -> BOOLEAN] /\ e[u] /\ a[u] = 0
      /\ \A t \in Task : t # u => a[t] = K.activate[t] /\ e[t] = K.exists[t]
  BY <1>0, <1>t
<1>2. [K EXCEPT !.exists[u] = TRUE, !.activate[u] = 0] = A
  BY <1>0 DEF Kernel
<1> HIDE DEF a, e
<1>3. /\ A \in Kernel /\ A.state = K.state /\ A.prio = K.prio /\ A.link = K.link
      /\ A.bmp = K.bmp /\ A.next = K.next /\ A.reason = K.reason /\ A.tick = K.tick
      /\ A.exists = e /\ A.activate = a /\ A.curr = K.curr /\ A.request = K.request
      /\ A.pwait = K.pwait /\ A.rc = K.rc /\ A.elem = K.elem /\ A.ewait = K.ewait
  BY <1>0, <1>1, ZenonT(60) DEF Kernel
<1> HIDE DEF A
<1>4. Sched(A, R, wq) /\ (AtHead(K) => AtHead(A))
  BY <1>0, <1>3 DEF Sched, Timers, Chosen, AtHead
<1>6. /\ Sched(D, R, wq) /\ D.next = A.next
      /\ D.state = [A.state EXCEPT ![u] = "dormant"]
      /\ D.prio = [A.prio EXCEPT ![u] = Base[u]]
      /\ D.reason = [A.reason EXCEPT ![u] = "none"]
      /\ D.tick = A.tick /\ D.activate = A.activate
      /\ D.exists = A.exists /\ D.curr = A.curr /\ D.request = A.request
      /\ D.pwait = [A.pwait EXCEPT ![u] = Null] /\ D.rc = [A.rc EXCEPT ![u] = "ok"]
      /\ D.elem = [A.elem EXCEPT ![u] = Null] /\ D.ewait = [A.ewait EXCEPT ![u] = NoEvent]
      /\ AtHead(A) => AtHead(D)
  <2> HIDE DEF R
  <2>1. u \in Task /\ u \notin R /\ A.tick[u] = Forever /\ u \notin Queued(wq)
    BY <1>0, <1>3, <1>f
  <2> QED
    BY <2>1, <1>4, DormantIs
<1> HIDE DEF D
<1>7. D.state = K.state /\ \A t \in Task : t # u => D.prio[t] = K.prio[t]
  BY <1>0, <1>t, <1>3, <1>6
<1>8. ASSUME NEW t \in Task PROVE OneTask(D, wq, t)
  <2>1. CASE t = u
    <3>1. /\ D.exists[u] /\ D.tick[u] = Forever /\ D.reason[u] = "none" /\ D.pwait[u] = Null
          /\ D.activate[u] = 0 /\ D \in Kernel
      BY <1>0, <1>t, <1>f, <1>1, <1>3, <1>6 DEF Sched
    <3>s. D.state[u] = "dormant"
      BY <1>7, <1>0
    <3>2. ~Waiting(D, u) /\ Called(D, u)
      BY <3>1, <3>s DEF Waiting, Called, Suspended
    <3> QED
      BY <3>1, <3>2, <1>f, <2>1, OneTaskFree
  <2>2. CASE t # u
    <3>1. /\ D.exists[t] = K.exists[t] /\ D.state[t] = K.state[t] /\ D.tick[t] = K.tick[t]
          /\ D.reason[t] = K.reason[t] /\ D.pwait[t] = K.pwait[t] /\ D.activate[t] = K.activate[t]
      BY <2>2, <1>0, <1>t, <1>1, <1>3, <1>6, <1>7
    <3> QED
      BY <3>1, <1>0, OneTaskSame
  <2> QED
    BY <2>1, <2>2
<1>9. Runnables(D) = R
  BY <1>7 DEF Runnables
<1>10. Sound(D) /\ Queues(D) = wq
  <2>1. Sched(D, Runnables(D), wq) /\ D.state[Idle] = "runnable"
    BY <1>0, <1>6, <1>7, <1>9
  <2> QED
    BY <2>1, <1>8, SoundFrom
<1>11. RunsRight(K) => RunsRight(D)
  <2>1. \A t \in Task : K.state[t] = "runnable" => D.state[t] = "runnable" /\ D.prio[t] = K.prio[t]
    BY <1>0, <1>7
  <2>2. D.curr = K.curr /\ D.next = K.next
    BY <1>3, <1>6
  <2> QED
    BY <2>1, <2>2, StillRuns
<1>12. Spares(D, K, {u})
  BY <1>t, <1>3, <1>6, <1>7 DEF Spares, View, Waiting
<1>13. Kept(D, K)
  BY <1>q, <1>3, <1>4, <1>6, <1>10 DEF Kept
<1>14. D.exists[u] /\ D.state[u] = "dormant"
  BY <1>0, <1>1, <1>3, <1>6, <1>7
<1> QED
  BY <1>2, <1>7, <1>11, <1>12, <1>13, <1>14 DEF D, CreateLeaves

\* tn_task_change_priority of a ready task.
LEMMA PriorityRuns ==
  ASSUME NEW K, Sound(K), NEW u \in User, NEW p \in Prio, K.state[u] = "runnable"
  PROVE  LET J == ChangeRunning(K, u, p)
         IN  Kept(J, K) /\ Spares(J, K, {}) /\ J.state = K.state
<1> DEFINE R == Runnables(K)
           wq == Queues(K)
           J == ChangeRunning(K, u, p)
<1>0. /\ Sched(K, R, wq) /\ u \in R /\ K.state[Idle] = "runnable"
      /\ \A t \in Task : OneTask(K, wq, t)
  BY SoundFacts, ConstantFacts DEF Runnables
<1>q. Queues(K) = wq
  OBVIOUS
<1> HIDE DEF wq
<1>1. /\ Sched(J, R, wq) /\ Frame(J, K) /\ J.state = K.state
      /\ AtHead(K) => AtHead(J)
  <2> HIDE DEF R
  <2> QED
    <3>1. Sched(K, R, wq) /\ u \in R /\ p \in Prio
      BY <1>0
    <3>2. /\ Sched(J, R, wq) /\ Frame(J, K) /\ J.state = K.state
          /\ J.prio = [K.prio EXCEPT ![u] = p]
          /\ AtHead(K) => AtHead(J)
      BY <3>1, ChangeRunningIs
    <3> QED
      BY <3>2
<1> HIDE DEF J
<1>2. Runnables(J) = R
  BY <1>1 DEF Runnables
<1>3. \A t \in Task : OneTask(J, wq, t)
  BY <1>0, <1>1, OneTaskSame DEF Frame
<1>4. Sound(J) /\ Queues(J) = wq
  BY <1>0, <1>1, <1>2, <1>3, SoundFrom
<1>5. Spares(J, K, {})
  BY <1>1 DEF Spares, View, Frame, Waiting
<1> QED
  BY <1>1, <1>4, <1>5, <1>q DEF Frame, J, Kept

\* tn_task_change_priority of a task that is not ready.
LEMMA PrioritySet ==
  ASSUME NEW K, Sound(K), NEW u \in User, NEW p \in Prio, K.state[u] # "runnable"
  PROVE  LET J == [K EXCEPT !.prio[u] = p]
         IN  Kept(J, K) /\ Spares(J, K, {}) /\ (RunsRight(K) => RunsRight(J))
<1> DEFINE R == Runnables(K)
           wq == Queues(K)
           f == [K.prio EXCEPT ![u] = p]
           J == [K EXCEPT !.prio[u] = p]
<1>0. /\ K \in Kernel /\ Sched(K, R, wq) /\ u \notin R /\ K.state[Idle] = "runnable"
      /\ R \subseteq Task /\ u \in Task /\ K.prio \in [Task -> Prio] /\ K.next \in R
      /\ \A t \in Task : OneTask(K, wq, t)
  BY SoundFacts, ConstantFacts DEF Runnables, Sched, Chosen
<1>q. Queues(K) = wq
  OBVIOUS
<1> HIDE DEF wq
<1>1. f \in [Task -> Prio] /\ \A v \in R : f[v] = K.prio[v]
  BY <1>0
<1>2. J = [K EXCEPT !.prio = f]
  BY <1>0 DEF Kernel
<1> HIDE DEF f, J
<1>3. /\ J \in Kernel /\ J.state = K.state /\ J.prio = f /\ J.link = K.link
      /\ J.bmp = K.bmp /\ J.next = K.next /\ Frame(J, K)
  BY <1>0, <1>1, <1>2 DEF Kernel, Frame
<1>4. Runnables(J) = R /\ Timers(J) = Timers(K)
  BY <1>3 DEF Runnables, Timers, Frame
<1> HIDE DEF R
<1>5. Listed(J.link, J.prio, R, Timers(J), wq)
  <2> DEFINE L == K.link
             h == K.prio
             W == Timers(K)
  <2>1. Listed(L, h, R, W, wq) /\ \A v \in R : f[v] = h[v]
    BY <1>0, <1>1 DEF Sched
  <2> HIDE DEF L, h, W
  <2>2. Listed(L, f, R, W, wq)
    BY <2>1, ListedSame
  <2> QED
    BY <2>2, <1>3, <1>4 DEF L, W
<1>6. J.bmp = {J.prio[v] : v \in R} /\ Chosen(J, R)
  BY <1>0, <1>1, <1>3 DEF Sched, Chosen
<1>7. Sched(J, R, wq)
  BY <1>3, <1>5, <1>6 DEF Sched
<1>8. \A t \in Task : OneTask(J, wq, t)
  BY <1>0, <1>3, OneTaskSame DEF Frame
<1>9. Sound(J) /\ Queues(J) = wq
  <2>1. J.state[Idle] = "runnable" /\ Sched(J, Runnables(J), wq)
    BY <1>0, <1>3, <1>4, <1>7
  <2> QED
    BY <2>1, <1>8, SoundFrom
<1>10. AtHead(K) => AtHead(J)
  BY <1>0, <1>1, <1>3 DEF AtHead
<1>11. RunsRight(K) => RunsRight(J)
  <2>1. \A t \in Task : K.state[t] = "runnable" => J.state[t] = "runnable" /\ J.prio[t] = K.prio[t]
    BY <1>0, <1>1, <1>3 DEF R, Runnables
  <2> QED
    BY <2>1, <1>3, StillRuns DEF Frame
<1>12. Spares(J, K, {})
  BY <1>3 DEF Spares, View, Frame, Waiting
<1> QED
  BY <1>3, <1>9, <1>10, <1>11, <1>12, <1>q DEF J, Frame, Kept

-----------------------------------------------------------------------------
(* Each service keeps the invariant, and the services of objects apart.    *)

\* A task in the services of tasks waits in no queue.
LEMMA PlainFacts ==
  ASSUME KInv, NEW t \in Task, pc[t][1] \in {"user", "switch", "exit", "stuck"}
  PROVE  pc[t][2] = Null /\ k.pwait[t] = Null
<1>1. pc[t] \in Spots /\ (k.pwait[t] # Null => pc[t] \in {"waits", "waited"} \X {k.pwait[t]})
  BY DEF KInv, Within
<1>2. pc[t][2] = Null
  BY <1>1 DEF Spots
<1>3. k.pwait[t] = Null
  BY <1>1
<1> QED
  BY <1>2, <1>3

\* What holds when the running task calls a service.
LEMMA CallFacts ==
  ASSUME KInv, NEW s, Calls(s)
  PROVE  /\ s \in services /\ k.curr # Idle /\ RunsRight(k) /\ k.curr \in Task
         /\ k.state[k.curr] = "runnable" /\ Sound(k) /\ ~k.request /\ Orderly(services)
         /\ "tslice_ticks" \notin services => AtHead(k)
         /\ pc \in [Task -> Spots] /\ pc[k.curr] = <<"user", Null>> /\ k.pwait[k.curr] = Null
<1>1. k.curr \in Task /\ Place(k.curr) = "user"
  BY SoundFacts DEF KInv, Calls
<1>2. pc[k.curr] = <<"user", Null>>
  BY <1>1 DEF KInv, Place, Spots
<1>3. k.pwait[k.curr] = Null
  BY <1>1, <1>2, PlainFacts
<1> QED
  BY <1>1, <1>2, <1>3 DEF KInv, Calls, RunsRight, Runs

\* A step with the same queues leaves the tasks alone that it does not touch.
Afresh(P, K, t) == P[t][2] = Null /\ K.pwait[t] = Null /\ (pc[t][2] = Null \/ Restarts)
LEMMA AsideIs ==
  ASSUME KInv, NEW K, Sound(K), Queues(K) = Queues(k), NEW S, Spares(K, k, S), NEW P,
         \A t \in Task : (P[t] = pc[t] /\ t \notin S) \/ Afresh(P, k, t)
  PROVE  Aside(K, P)
<1> SUFFICES ASSUME NEW t \in Task
             PROVE  (P[t] = pc[t] /\ View(K, k, t)) \/ Afresh(P, K, t)
  BY DEF Aside, Afresh
<1>1. K.pwait[t] = k.pwait[t]
  BY SamePwait DEF KInv
<1>2. CASE Afresh(P, k, t)
  BY <1>1, <1>2 DEF Afresh
<1>3. CASE P[t] = pc[t] /\ t \notin S /\ k.reason[t] # "sleep"
  BY <1>3 DEF Spares
<1>4. CASE P[t] = pc[t] /\ k.reason[t] = "sleep"
  <2>1. pc[t][2] = Null
    BY <1>4 DEF KInv, Within
  <2>2. OneTask(k, Queues(k), t)
    BY SoundFacts DEF KInv
  <2>3. k.pwait[t] = Null
    BY <2>2, <1>4 DEF OneTask, Why
  <2> QED
    BY <2>1, <2>3, <1>1, <1>4 DEF Afresh
<1> QED
  BY <1>2, <1>3, <1>4

\* A service that leaves the kernel's data as K.
Leads(K) == Kept(K, k) /\ Spares(K, k, {k.curr})
Stays(K) == Kept(K, k) /\ Spares(K, k, {}) /\ (RunsRight(k) => RunsRight(K))

\* Such a service keeps the invariant when the task goes to a place.
LEMMA GoesIs ==
  ASSUME KInv, NEW K, Leads(K), k' = K, UNCHANGED <<ticks, services>>,
         pc[k.curr][1] \in {"user", "switch", "exit", "stuck"},
         NEW place \in {"user", "switch", "exit", "stuck"},
         pc' = Goes(k.curr, place, Null), place = "user" => RunsRight(K)
  PROVE  KInv' /\ Apart
<1>1. k.curr \in Task /\ pc \in [Task -> Spots] /\ k.pwait[k.curr] = Null /\ pc[k.curr][2] = Null
  BY SoundFacts, PlainFacts DEF KInv
<1>2. pc' \in [Task -> Spots] /\ pc'[k.curr] = <<place, Null>>
  BY <1>1 DEF Goes, Spots
<1>3. \A t \in Task : t # k.curr => pc'[t] = pc[t]
  BY <1>1 DEF Goes
<1>4. Aside(K, pc')
  <2> DEFINE P == pc'
  <2>1. \A t \in Task : (P[t] = pc[t] /\ t \notin {k.curr}) \/ Afresh(P, k, t)
    BY <1>1, <1>2, <1>3 DEF Afresh
  <2> HIDE DEF P
  <2>2. Aside(K, P)
    BY <2>1, AsideIs DEF Leads, Kept
  <2> QED
    BY <2>2 DEF P
<1>5. Runs(pc'[K.curr][1]) => RunsRight(K)
  BY <1>2 DEF Runs, Leads, Kept
<1> QED
  BY <1>2, <1>4, <1>5, StepIs DEF Leads, KInv, Kept, Shrinks

\* ... or stays where it is.
LEMMA StaysIs ==
  ASSUME KInv, NEW K, Stays(K), k' = K, UNCHANGED <<ticks, services, pc>>
  PROVE  KInv' /\ Apart
<1>1. Runs(pc'[K.curr][1]) => RunsRight(K)
  BY DEF KInv, Place, Stays, Kept
<1>2. Aside(K, pc)
  BY AsideIs DEF Stays, Kept
<1>3. Aside(K, pc') /\ pc' \in [Task -> Spots]
  BY <1>2 DEF KInv
<1> QED
  BY <1>1, <1>3, StepIs DEF Stays, KInv, Kept, Shrinks

\* ... or switches when the next task is another one.
LEMMA SwitchedIs ==
  ASSUME KInv, NEW K, Leads(K), k' = K, UNCHANGED <<ticks, services>>,
         Place(k.curr) = "user", SwitchIfNext(K)
  PROVE  KInv' /\ Apart
<1>0. pc[k.curr][1] \in {"user", "switch", "exit", "stuck"}
  BY DEF Place
<1>1. CASE K.next # K.curr
  <2>1. pc' = Goes(k.curr, "switch", Null)
    BY <1>1 DEF SwitchIfNext, SwitchIf
  <2> QED
    BY <1>0, <2>1, GoesIs
<1>2. CASE K.next = K.curr
  <2>1. pc' = Goes(k.curr, "user", Null)
    BY <1>2 DEF SwitchIfNext, SwitchIf
  <2>2. RunsRight(K)
    BY <1>2, NextRuns DEF Leads, Kept
  <2> QED
    BY <1>0, <2>1, <2>2, GoesIs
<1> QED
  BY <1>1, <1>2

\* A service that switches under a condition of its own keeps it.
LEMMA SwitchIfIs ==
  ASSUME KInv, NEW K, Leads(K), k' = K, UNCHANGED <<ticks, services>>, NEW c \in BOOLEAN,
         Place(k.curr) = "user", SwitchIf(c), c \/ RunsRight(K)
  PROVE  KInv' /\ Apart
<1>0. pc[k.curr][1] \in {"user", "switch", "exit", "stuck"}
  BY DEF Place
<1>1. CASE c
  <2>1. pc' = Goes(k.curr, "switch", Null)
    BY <1>1 DEF SwitchIf
  <2> QED
    BY <1>0, <2>1, GoesIs
<1>2. CASE ~c
  <2>1. pc' = Goes(k.curr, "user", Null)
    BY <1>2 DEF SwitchIf
  <2> QED
    BY <1>0, <2>1, <1>2, GoesIs
<1> QED
  BY <1>1, <1>2

\* What spares all tasks spares all but one.
LEMMA LeadsFrom ==
  ASSUME NEW K, Kept(K, k), Spares(K, k, {})
  PROVE  Leads(K)
BY DEF Leads, Spares

\* tn_task_suspend keeps the invariant.
LEMMA SuspendStep ==
  ASSUME KInv, NEW u \in User, Suspend(u), UNCHANGED <<ticks, services>>
  PROVE  KInv' /\ Apart
<1>1. /\ Sound(k) /\ k.exists[u] /\ ~Suspended(k, u) /\ k.state[u] # "dormant"
      /\ Place(k.curr) = "user" /\ "suspend" \in services
  BY CallFacts DEF Suspend, Calls
<1>2. CASE k.state[u] = "runnable"
  <2> DEFINE K == ToNonRunnable([k EXCEPT !.state[u] = "suspend"], u)
  <2>1. k' = K /\ SwitchIfNext(K)
    BY <1>2 DEF Suspend
  <2>2. Kept(K, k) /\ Spares(K, k, {})
    BY <1>1, <1>2, SuspendReady
  <2> HIDE DEF K
  <2>3. Leads(K)
    BY <2>2, LeadsFrom
  <2> QED
    BY <1>1, <2>1, <2>3, SwitchedIs
<1>3. CASE k.state[u] # "runnable"
  <2> DEFINE K == [k EXCEPT !.state[u] = "waitsusp"]
  <2>1. k' = K /\ UNCHANGED pc
    BY <1>3 DEF Suspend
  <2>2. Waiting(k, u)
    <3>1. k.state[u] \in State
      BY <1>1, SoundFacts, ConstantFacts
    <3> QED
      BY <3>1, <1>1, <1>3 DEF State, Waiting, Suspended
  <2>3. Stays(K)
    BY <1>1, <1>3, <2>2, StateSet DEF Stays
  <2> HIDE DEF K
  <2> QED
    BY <2>1, <2>3, StaysIs
<1> QED
  BY <1>2, <1>3

\* tn_task_resume keeps it.
LEMMA ResumeStep ==
  ASSUME KInv, NEW u \in User, Resume(u), UNCHANGED <<ticks, services>>
  PROVE  KInv' /\ Apart
<1>1. /\ Sound(k) /\ k.exists[u] /\ k.state[u] \in {"suspend", "waitsusp"}
      /\ Place(k.curr) = "user"
  BY CallFacts DEF Resume, Suspended, Calls
<1>2. CASE Waiting(k, u)
  <2> DEFINE K == [k EXCEPT !.state[u] = "wait"]
  <2>1. k' = K /\ UNCHANGED pc
    BY <1>2 DEF Resume
  <2>3. Stays(K)
    BY <1>1, <1>2, StateSet DEF Stays
  <2> HIDE DEF K
  <2> QED
    BY <2>1, <2>3, StaysIs
<1>3. CASE ~Waiting(k, u)
  <2> DEFINE K == ToRunnable(k, u)
  <2>1. k' = K /\ SwitchIfNext(K)
    BY <1>3 DEF Resume
  <2>2. k.state[u] = "suspend"
    BY <1>1, <1>3 DEF Waiting
  <2>3. Kept(K, k) /\ Spares(K, k, {})
    BY <1>1, <2>2, MadeReady
  <2> HIDE DEF K
  <2>4. Leads(K)
    BY <2>3, LeadsFrom
  <2> QED
    BY <1>1, <2>1, <2>4, SwitchedIs
<1> QED
  BY <1>2, <1>3

\* tn_task_sleep keeps it.
LEMMA SleepStep ==
  ASSUME KInv, NEW timeout \in Timeouts \cup {Forever}, Sleep(timeout),
         UNCHANGED <<ticks, services>>
  PROVE  KInv' /\ Apart
<1>1. /\ Sound(k) /\ "sleep" \in services /\ k.curr \in Task /\ k.curr # Idle
      /\ k.state[k.curr] = "runnable" /\ timeout \in (Nat \ {0}) \cup {Forever}
      /\ pc[k.curr][1] = "user"
  BY CallFacts, KernelAssumption DEF Sleep
<1>2. CASE k.wakeup[k.curr] > 0
  <2> DEFINE x == k.wakeup[k.curr] - 1
             K == [k EXCEPT !.wakeup[k.curr] = x]
  <2>1. k' = K /\ UNCHANGED pc
    BY <1>2 DEF Sleep
  <2>2. x \in 0 .. 1
    <3>1. k.wakeup[k.curr] \in 0 .. 1
      BY <1>1, SoundFacts DEF Kernel
    <3> QED
      BY <3>1, <1>2
  <2>3. Stays(K)
    <3> HIDE DEF x
    <3> QED
      BY <1>1, <2>2, WakeupSet DEF Stays
  <2> HIDE DEF K
  <2> QED
    BY <2>1, <2>3, StaysIs
<1>3. CASE ~(k.wakeup[k.curr] > 0)
  <2> DEFINE K == CurrToWait(k, Null, "sleep", timeout)
  <2>1. k' = K /\ pc' = Goes(k.curr, "switch", Null)
    BY <1>3 DEF Sleep, SwitchIf
  <2>2. FallsAsleepIs(K, k, Null, "sleep")
    <3>1. "sleep" \in Reason
      BY DEF Reason
    <3> QED
      BY <1>1, <3>1, FallsAsleep
  <2> HIDE DEF K
  <2>3. Leads(K)
    BY <2>2 DEF Leads, Kept, FallsAsleepIs, WaitsIn, Spares
  <2> QED
    BY <1>1, <2>1, <2>3, GoesIs
<1> QED
  BY <1>2, <1>3

\* The end of a sleep, and whether it asks for a switch.
LEMMA WokenLeads ==
  ASSUME Sound(k), NEW u \in User, Waiting(k, u), k.pwait[u] = Null
  PROVE  Leads(WaitComplete(k, u)) /\ (RunsRight(k) => Wakes(k, u) \/ RunsRight(WaitComplete(k, u)))
<1> DEFINE K == WaitComplete(k, u)
<1>1. /\ Kept(K, k) /\ Spares(K, k, {}) /\ K.prio = k.prio
      /\ \A t \in Task : k.state[t] = "runnable" => K.state[t] = "runnable"
      /\ Wakes(k, u) \/ K.next = k.next
  BY WokenIs
<1> HIDE DEF K
<1>2. RunsRight(k) /\ ~Wakes(k, u) => RunsRight(K)
  BY <1>1, StillRuns DEF Kept
<1> QED
  BY <1>1, <1>2, LeadsFrom DEF K

\* A wakeup that is counted.
LEMMA CountedLeads ==
  ASSUME Sound(k), k.wakeup[k.curr] = 0
  PROVE  LET K == [k EXCEPT !.wakeup[k.curr] = @ + 1]
         IN  Stays(K) /\ K.next = k.next /\ K.prio = k.prio /\ K.state = k.state
<1> DEFINE x == 1
           K == [k EXCEPT !.wakeup[k.curr] = x]
<1>1. k \in Kernel /\ k.curr \in Task
  BY SoundFacts
<1>2. [k EXCEPT !.wakeup[k.curr] = @ + 1] = K
  BY <1>1 DEF Kernel
<1>3. x \in 0 .. 1
  OBVIOUS
<1> HIDE DEF x
<1>4. /\ Kept(K, k) /\ Spares(K, k, {}) /\ K.next = k.next
      /\ K.prio = k.prio /\ K.state = k.state
      /\ (RunsRight(k) => RunsRight(K))
  BY <1>1, <1>3, WakeupSet
<1> HIDE DEF K
<1> QED
  BY <1>2, <1>4 DEF Stays

\* A sleeping task is in no queue.
LEMMA SleepingFacts ==
  ASSUME Sound(k), NEW u \in User, Sleeping(k, u)
  PROVE  Waiting(k, u) /\ k.pwait[u] = Null
<1>1. OneTask(k, Queues(k), u)
  BY SoundFacts, ConstantFacts
<1> QED
  BY <1>1 DEF OneTask, Sleeping, Why

\* tn_task_wakeup keeps it.
LEMMA WakeupStep ==
  ASSUME KInv, NEW u \in User, Wakeup(u), UNCHANGED <<ticks, services>>
  PROVE  KInv' /\ Apart
<1>1. /\ Sound(k) /\ RunsRight(k) /\ CanWake(u) /\ k' = WakeupOf(u)
      /\ SwitchIf(Sleeping(k, u) /\ Wakes(k, u)) /\ Place(k.curr) = "user"
      /\ pc[k.curr][1] = "user"
  BY CallFacts DEF Wakeup, Calls
<1>2. CASE Sleeping(k, u)
  <2> DEFINE K == WaitComplete(k, u)
             c == Sleeping(k, u) /\ Wakes(k, u)
  <2>1. k' = K
    BY <1>1, <1>2 DEF WakeupOf
  <2>2. Leads(K) /\ (c \/ RunsRight(K))
    BY <1>1, <1>2, WokenLeads, SleepingFacts
  <2>3. c \in BOOLEAN /\ SwitchIf(c)
    BY <1>1 DEF Sleeping, Wakes
  <2> HIDE DEF K, c
  <2> QED
    BY <1>1, <2>1, <2>2, <2>3, SwitchIfIs
<1>3. CASE ~Sleeping(k, u)
  <2> DEFINE K == [k EXCEPT !.wakeup[k.curr] = @ + 1]
  <2>1. k' = K /\ k.wakeup[k.curr] = 0
    BY <1>1, <1>3 DEF WakeupOf, CanWake
  <2>2. Stays(K)
    BY <1>1, <2>1, CountedLeads
  <2>3. pc' = Goes(k.curr, "user", Null)
    BY <1>1, <1>3 DEF SwitchIf
  <2> HIDE DEF K
  <2>4. Leads(K) /\ RunsRight(K)
    BY <1>1, <2>2, LeadsFrom DEF Stays
  <2> QED
    BY <1>1, <2>1, <2>4, <2>3, GoesIs
<1> QED
  BY <1>2, <1>3

\* tn_task_release_wait keeps it.
LEMMA ReleaseWaitStep ==
  ASSUME KInv, NEW u \in User, ReleaseWait(u), UNCHANGED <<ticks, services>>
  PROVE  KInv' /\ Apart
<1> DEFINE K == WaitComplete(k, u)
           c == Wakes(k, u)
<1>1. /\ Sound(k) /\ RunsRight(k) /\ Waiting(k, u) /\ k' = K /\ SwitchIf(c)
      /\ Place(k.curr) = "user" /\ "release_wait" \in services
  BY CallFacts DEF ReleaseWait, Calls
<1>4. k.pwait[u] = Null
  <2>1. OneTask(k, Queues(k), u)
    BY <1>1, SoundFacts, ConstantFacts
  <2> QED
    BY <1>1, <2>1 DEF OneTask
<1>2. Leads(K) /\ (c \/ RunsRight(K))
  BY <1>1, <1>4, WokenLeads
<1>3. c \in BOOLEAN
  BY DEF Wakes
<1> HIDE DEF K, c
<1> QED
  BY <1>1, <1>2, <1>3, SwitchIfIs

\* tn_task_activate keeps it.
LEMMA ActivateStep ==
  ASSUME KInv, NEW u \in User, Activate(u), UNCHANGED <<ticks, services>>
  PROVE  KInv' /\ Apart
<1>1. /\ Sound(k) /\ "activate" \in services /\ k.exists[u] /\ u \in Task
      /\ Place(k.curr) = "user"
  BY CallFacts, ConstantFacts DEF Activate, Calls
<1>2. CASE k.state[u] = "dormant"
  <2> DEFINE K == ToRunnable(k, u)
  <2>1. k' = K /\ SwitchIfNext(K)
    BY <1>2 DEF Activate
  <2>3. Kept(K, k) /\ Spares(K, k, {})
    BY <1>1, <1>2, MadeReady
  <2> HIDE DEF K
  <2>4. Leads(K)
    BY <2>3, LeadsFrom
  <2> QED
    BY <1>1, <2>1, <2>4, SwitchedIs
<1>3. CASE k.state[u] # "dormant"
  <2> DEFINE K == [k EXCEPT !.activate[u] = 1]
  <2>1. k' = K /\ UNCHANGED pc
    BY <1>3 DEF Activate
  <2>2. services \cap {"activate", "iactivate"} # {}
    BY <1>1
  <2>3. Stays(K)
    BY <1>1, <2>2, ActivateSet DEF Stays
  <2> HIDE DEF K
  <2> QED
    BY <2>1, <2>3, StaysIs
<1> QED
  BY <1>2, <1>3

\* tn_task_exit keeps it.
LEMMA ExitStep ==
  ASSUME KInv, Mutex = {}, NEW delete \in BOOLEAN, Exit(delete), UNCHANGED <<ticks, services>>
  PROVE  KInv' /\ Apart
<1> DEFINE t == k.curr
           K == [Restart(ToNonRunnable(UnlockAll(k, t), t), t) EXCEPT !.exists[t] = @ /\ ~delete]
<1>1. /\ Sound(k) /\ k.state[t] = "runnable" /\ t # Idle /\ pc[k.curr][1] = "user"
      /\ delete => services \cap {"activate", "iactivate"} = {}
  BY CallFacts DEF Exit, Orderly
<1>2. k' = K /\ pc' = Goes(k.curr, "exit", Null)
  BY DEF Exit
<1>3. Leads(K)
  BY <1>1, ExitIs DEF Leads
<1> HIDE DEF K
<1> QED
  BY <1>1, <1>2, <1>3, GoesIs

\* tn_task_terminate keeps it: the task leaves the queue it waits in.
LEMMA TerminateStep ==
  ASSUME KInv, Mutex = {}, NEW u \in User, Terminate(u), UNCHANGED <<ticks, services>>
  PROVE  KInv' /\ Apart
<1> DEFINE K == Restart(Stopped(k, u), u)
<1>1. /\ Sound(k) /\ RunsRight(k) /\ "terminate" \in services /\ Orderly(services)
      /\ "tslice_ticks" \notin services => AtHead(k)
      /\ k.exists[u] /\ k.state[u] # "dormant" /\ u # k.curr /\ u \in Task /\ k.curr \in Task
      /\ pc \in [Task -> Spots] /\ pc[k.curr] = <<"user", Null>> /\ k.pwait[k.curr] = Null
  BY CallFacts, ConstantFacts DEF Terminate
<1>2. \A t \in Task : k.reason[t] # "sleep"
  <2>1. \A t \in Task : OneTask(k, Queues(k), t)
    BY <1>1, SoundFacts
  <2>2. \A q : Why(q) # "sleep"
    BY DEF Why
  <2> QED
    BY <2>1, <2>2, <1>1 DEF OneTask, Orderly
<1>3. k' = K
  <2>1. \A J : UnlockAll(J, u) = J
    BY DEF UnlockAll
  <2>2. OneTask(k, Queues(k), u)
    BY <1>1, SoundFacts
  <2>3. k.tick[u] = Forever
    <3>1. Waiting(k, u) => k.pwait[u] # Null
      BY <2>2, <1>2, <1>1 DEF OneTask
    <3> QED
      BY <3>1, <2>2 DEF OneTask
  <2>4. CASE k.state[u] = "runnable"
    BY <2>1, <2>4 DEF Terminate, Stopped, Waiting
  <2>5. CASE k.state[u] \in {"wait", "waitsusp"}
    BY <2>1, <2>3, <2>5 DEF Terminate, Stopped, Waiting
  <2>6. CASE k.state[u] \notin {"runnable", "wait", "waitsusp"}
    BY <2>1, <2>6 DEF Terminate, Stopped, Waiting
  <2> QED
    BY <2>4, <2>5, <2>6
<1>4. TerminateLeaves(K, k, u)
  BY <1>1, <1>2, TerminateIs
<1> HIDE DEF K
<1>5. pc' = [Goes(u, "user", Null) EXCEPT
               ![k.curr] = IF k.activate[u] > 0 /\ K.next # k.curr THEN <<"switch", Null>> ELSE @]
  BY <1>3 DEF Terminate
<1>6. /\ pc' \in [Task -> Spots]
      /\ pc'[k.curr] = IF k.activate[u] > 0 /\ K.next # k.curr THEN <<"switch", Null>>
                       ELSE <<"user", Null>>
      /\ pc'[u] = <<"user", Null>> /\ \A t \in Task : t # u /\ t # k.curr => pc'[t] = pc[t]
  BY <1>1, <1>5 DEF Goes, Spots
<1>7. Runs(pc'[K.curr][1]) => RunsRight(K)
  BY <1>1, <1>4, <1>6, NextRuns DEF TerminateLeaves, Runs
<1>r. Restarts
  BY DEF Terminate, Calls, Restarts
<1>8. Aside(K, pc')
  <2> SUFFICES ASSUME NEW t \in Task
               PROVE  (pc'[t] = pc[t] /\ View(K, k, t)) \/ (pc'[t][2] = Null /\ K.pwait[t] = Null)
    BY <1>r DEF Aside
  <2>1. CASE t = u
    BY <2>1, <1>4, <1>6 DEF TerminateLeaves
  <2>2. CASE t # u
    <3>1. View(K, k, t)
      BY <2>2, <1>2, <1>4 DEF TerminateLeaves, Spares
    <3>2. CASE t = k.curr
      BY <3>1, <3>2, <1>1, <1>6 DEF View
    <3>3. CASE t # k.curr
      BY <2>2, <3>1, <3>3, <1>6
    <3> QED
      BY <3>2, <3>3
  <2> QED
    BY <2>1, <2>2
<1>9. Shrinks(K, k)
  BY <1>1, <1>4 DEF TerminateLeaves, Shrinks
<1> QED
  BY <1>1, <1>3, <1>4, <1>6, <1>7, <1>8, <1>9, StepIs DEF KInv, TerminateLeaves

\* tn_task_delete keeps it.
LEMMA DeleteStep ==
  ASSUME KInv, NEW u \in User, Delete(u), UNCHANGED <<ticks, services>>
  PROVE  KInv' /\ Apart
<1> DEFINE K == [k EXCEPT !.exists[u] = FALSE]
<1>1. /\ Sound(k) /\ u \in Task /\ k.state[u] = "dormant" /\ k' = K /\ UNCHANGED pc
  BY CallFacts, ConstantFacts DEF Delete
<1>2. Stays(K)
  BY <1>1, ExistsSet DEF Stays
<1> HIDE DEF K
<1> QED
  BY <1>1, <1>2, StaysIs

\* tn_task_create keeps it.
LEMMA CreateStep ==
  ASSUME KInv, NEW u \in User, NEW start \in BOOLEAN, Create(u, start), UNCHANGED <<ticks, services>>
  PROVE  KInv' /\ Apart
<1> DEFINE D == Dormant([k EXCEPT !.exists[u] = TRUE, !.activate[u] = 0], u)
           K == IF start THEN ToRunnable(D, u) ELSE D
<1>1. /\ Sound(k) /\ RunsRight(k) /\ ~k.exists[u] /\ u \in Task /\ k.curr \in Task
      /\ k' = K /\ pc' = Goes(u, "user", Null)
      /\ pc \in [Task -> Spots]
      /\ start => "start_on_creation" \in services
  BY CallFacts, ConstantFacts DEF Create
<1>2. CreateLeaves(D, k, u) /\ RunsRight(D)
  <2>1. CreateLeaves(D, k, u)
    BY <1>1, CreateIs
  <2> QED
    BY <2>1, <1>1 DEF CreateLeaves
<1> HIDE DEF D, K
<1>3. pc' \in [Task -> Spots] /\ pc'[u] = <<"user", Null>> /\ \A t \in Task : t # u => pc'[t] = pc[t]
  BY <1>1 DEF Goes, Spots
<1>r. Restarts
  BY DEF Create, Calls, Restarts
<1>p. k.pwait[u] = Null
  <2>1. OneTask(k, Queues(k), u)
    BY <1>1, SoundFacts
  <2>2. ~Waiting(k, u)
    BY <2>1, <1>1 DEF OneTask, Waiting
  <2> QED
    BY <2>1, <2>2 DEF OneTask
<1>4. Kept(K, k) /\ Spares(K, k, {u}) /\ RunsRight(K)
  <2>1. CASE ~start
    BY <2>1, <1>2 DEF CreateLeaves, K
  <2>2. CASE start
    <3>1. K = ToRunnable(D, u)
      BY <2>2 DEF K
    <3>2. /\ Kept(K, D) /\ Spares(K, D, {})
          /\ \A t \in Task : D.state[t] = "runnable" => K.state[t] = "runnable"
      BY <1>2, <3>1, MadeReady DEF CreateLeaves, Kept
    <3>3. ~SwitchesAsked /\ ~Exact /\ k.curr \in Task
      BY <1>1, <2>2 DEF SwitchesAsked, Exact
    <3>4. RunsRight(K)
      BY <1>1, <1>2, <3>2, <3>3 DEF RunsRight, Kept, CreateLeaves
    <3>5. Kept(K, k)
      BY <1>2, <3>2 DEF Kept, CreateLeaves
    <3>6. Spares(K, k, {u})
      BY <1>2, <3>2 DEF Spares, CreateLeaves, View
    <3> QED
      BY <3>4, <3>5, <3>6
  <2> QED
    BY <2>1, <2>2
<1>5. Aside(K, pc')
  <2> DEFINE P == pc'
  <2>1. \A t \in Task : (P[t] = pc[t] /\ t \notin {u}) \/ Afresh(P, k, t)
    BY <1>3, <1>p, <1>r DEF Afresh
  <2> HIDE DEF P
  <2>2. Aside(K, P)
    BY <2>1, <1>4, AsideIs DEF Kept
  <2> QED
    BY <2>2 DEF P
<1> QED
  BY <1>1, <1>3, <1>4, <1>5, StepIs DEF Kept, KInv, Shrinks

\* tn_task_change_priority keeps it: it asks for a switch when next changes,
\* which is enough while next is the running task.
LEMMA ChangePriorityStep ==
  ASSUME KInv, NEW u \in User, NEW priority \in 0 .. NumPrio - 1,
         ChangePriority(u, priority), UNCHANGED <<ticks, services>>
  PROVE  KInv' /\ Apart
<1> DEFINE p == IF priority = 0 THEN Base[u] ELSE priority
           K == ChangeRunning(k, u, p)
           S == [k EXCEPT !.prio[u] = p]
<1>1. /\ Sound(k) /\ RunsRight(k) /\ "change_priority" \in services /\ u \in Task
      /\ "tslice_ticks" \notin services => AtHead(k)
      /\ Place(k.curr) = "user"
  BY CallFacts, ConstantFacts DEF ChangePriority, Calls
<1>2. p \in Prio
  BY <1>1, ConstantFacts DEF Prio
<1>3. IF k.state[u] = "runnable"
      THEN k' = K /\ SwitchIf(K.next # k.next)
      ELSE k' = S /\ UNCHANGED pc
  BY DEF ChangePriority
<1> HIDE DEF p
<1>4. CASE k.state[u] = "runnable"
  <2>0. Kept(K, k) /\ Spares(K, k, {}) /\ K.state = k.state
    BY <1>1, <1>2, <1>4, PriorityRuns
  <2> HIDE DEF K
  <2>1. Leads(K) /\ K.state = k.state
    BY <2>0, LeadsFrom
  <2> DEFINE c == K.next # k.next
  <2>2. ASSUME ~c PROVE RunsRight(K)
    <3>1. CASE SwitchesAsked
      <4>1. Exact
        BY <3>1, <1>1 DEF SwitchesAsked, Exact
      <4>2. K.next = K.curr
        BY <4>1, <2>0, <2>2, <1>1 DEF RunsRight, Kept
      <4> QED
        BY <4>2, <2>0, NextRuns DEF Kept
    <3>2. CASE ~SwitchesAsked
      BY <3>2, <2>0, <2>2, <1>1 DEF RunsRight, Kept
    <3> QED
      BY <3>1, <3>2
  <2>3. k' = K /\ SwitchIf(c) /\ c \in BOOLEAN
    BY <1>3, <1>4
  <2> HIDE DEF c
  <2> QED
    BY <1>1, <2>1, <2>2, <2>3, SwitchIfIs
<1>5. CASE k.state[u] # "runnable"
  <2>1. Stays(S)
    BY <1>1, <1>2, <1>5, PrioritySet DEF Stays
  <2>2. k' = S /\ UNCHANGED pc
    BY <1>3, <1>5
  <2> HIDE DEF S
  <2> QED
    BY <2>1, <2>2, StaysIs
<1> QED
  BY <1>4, <1>5

\* A step that leaves the kernel's data as they are.
LEMMA SameAside ==
  ASSUME KInv, k' = k, pc' = pc
  PROVE  Aside(k, pc')
BY DEF Aside, View

\* tn_sys_tslice_ticks keeps it.
LEMMA TsliceTicksStep ==
  ASSUME KInv, NEW s \in Slices, TsliceTicks(s[1], s[2]), UNCHANGED services
  PROVE  KInv' /\ Apart
<1>1. s[1] \in Nat /\ s[2] \in Nat
  BY KernelAssumption, ConstantFacts
<1>2. "tslice_ticks" \in services /\ UNCHANGED <<k, pc>>
  BY CallFacts DEF TsliceTicks
<1>3. ticks' \in [Prio -> Nat]
  BY <1>1 DEF TsliceTicks, KInv
<1>4. /\ Sound(k) /\ ~k.request /\ pc' \in [Task -> Spots]
      /\ (Runs(pc'[k.curr][1]) => RunsRight(k)) /\ Aside(k, pc')
  BY <1>2, SameAside DEF KInv, Place
<1>5. Shrinks(k, k)
  BY DEF Shrinks
<1> QED
  BY <1>2, <1>3, <1>4, <1>5, StepIs

\* The switch: the running task becomes the one chosen to run next.
LEMMA Switched ==
  ASSUME Sound(k)
  PROVE  LET K == [k EXCEPT !.curr = k.next]
         IN  /\ Sound(K) /\ RunsRight(K) /\ K.request = k.request /\ (AtHead(k) => AtHead(K))
             /\ Queues(K) = Queues(k) /\ Spares(K, k, {})
<1> DEFINE K == [k EXCEPT !.curr = k.next]
           wq == Queues(k)
<1>0. /\ k \in Kernel /\ k.next \in Task /\ Sched(k, Runnables(k), wq) /\ k.state[Idle] = "runnable"
      /\ \A t \in Task : OneTask(k, wq, t)
  BY SoundFacts
<1> HIDE DEF wq
<1>1. /\ K \in Kernel /\ K.state = k.state /\ K.prio = k.prio /\ K.link = k.link
      /\ K.bmp = k.bmp /\ K.next = k.next /\ K.reason = k.reason /\ K.tick = k.tick
      /\ K.exists = k.exists /\ K.activate = k.activate /\ K.curr = k.next
      /\ K.request = k.request
      /\ K.pwait = k.pwait /\ K.rc = k.rc /\ K.elem = k.elem /\ K.ewait = k.ewait
  BY <1>0 DEF Kernel
<1> HIDE DEF K
<1>2. Sched(K, Runnables(K), wq) /\ (AtHead(k) => AtHead(K))
  BY <1>0, <1>1 DEF Sched, Runnables, Timers, Chosen, AtHead
<1>3. \A t \in Task : OneTask(K, wq, t)
  BY <1>0, <1>1, OneTaskSame
<1>4. Sound(K) /\ Queues(K) = wq
  BY <1>0, <1>1, <1>2, <1>3, SoundFrom
<1>5. RunsRight(K)
  BY <1>1, <1>4, NextRuns
<1>6. Spares(K, k, {})
  BY <1>1 DEF Spares, View, Waiting
<1> QED
  BY <1>1, <1>2, <1>4, <1>5, <1>6 DEF K, wq

\* What a switch does with the place of the task that ran.
LEMMA SwitchStep ==
  ASSUME KInv, k' = [k EXCEPT !.curr = k.next], UNCHANGED <<ticks, services>>,
         pc[k.curr][1] \in {"switch", "exit", "stuck"},
         NEW place \in {"user", "stuck"}, pc' = Goes(k.curr, place, Null)
  PROVE  KInv' /\ Apart
<1> DEFINE K == [k EXCEPT !.curr = k.next]
<1>1. /\ Sound(K) /\ RunsRight(K) /\ ~K.request /\ (AtHead(k) => AtHead(K))
      /\ Queues(K) = Queues(k) /\ Spares(K, k, {})
  BY Switched DEF KInv
<1>2. k.curr \in Task /\ pc \in [Task -> Spots] /\ k.pwait[k.curr] = Null /\ pc[k.curr][2] = Null
  BY SoundFacts, PlainFacts DEF KInv
<1>3. /\ k' = K /\ pc' \in [Task -> Spots] /\ pc'[k.curr] = <<place, Null>>
      /\ \A t \in Task : t # k.curr => pc'[t] = pc[t]
  BY <1>2 DEF Goes, Spots
<1> HIDE DEF K
<1>4. Aside(K, pc')
  <2> DEFINE P == pc'
  <2>1. \A t \in Task : (P[t] = pc[t] /\ t \notin {}) \/ Afresh(P, k, t)
    BY <1>2, <1>3 DEF Afresh
  <2> HIDE DEF P
  <2>2. Aside(K, P)
    BY <2>1, <1>1, AsideIs
  <2> QED
    BY <2>2 DEF P
<1> QED
  BY <1>1, <1>3, <1>4, StepIs DEF KInv, Shrinks

\* tn_switch_context and tn_switch_context_exit keep it.
LEMMA SwitchContextStep ==
  ASSUME KInv, SwitchContext, UNCHANGED <<ticks, services>>
  PROVE  KInv' /\ Apart
BY SwitchStep DEF SwitchContext, Place

LEMMA SwitchContextExitStep ==
  ASSUME KInv, SwitchContextExit, UNCHANGED <<ticks, services>>
  PROVE  KInv' /\ Apart
<1> DEFINE place == IF Place(k.curr) = "exit" THEN "user" ELSE "stuck"
<1>1. /\ k' = [k EXCEPT !.curr = k.next] /\ pc[k.curr][1] \in {"switch", "exit", "stuck"}
      /\ place \in {"user", "stuck"} /\ pc' = Goes(k.curr, place, Null)
  BY DEF SwitchContextExit, Place
<1> HIDE DEF place
<1> QED
  BY <1>1, SwitchStep

-----------------------------------------------------------------------------
(* Each interrupt keeps the invariant.                                     *)

\* A handler leaves the kernel's data as K.
Arrives(K) == /\ Sound(K) /\ K.curr = k.curr
              /\ "tslice_ticks" \notin services => AtHead(K)
              /\ K.request \/ (RunsRight(k) => RunsRight(K))

\* The way out of an interrupt changes nothing but the running task.
IrqLeaves(J, K) ==
  /\ Sound(J) /\ ~J.request /\ Queues(J) = Queues(K)
  /\ \A t \in Task : View(J, K, t)
  /\ "tslice_ticks" \notin services => AtHead(J)
  /\ Runs(pc'[J.curr][1]) => RunsRight(J)
  /\ pc' \in [Task -> Spots]
  /\ \A t \in Task : pc'[t] = pc[t] \/ (pc[t][1] = "exit" /\ pc'[t] = <<"stuck", Null>>)
LEMMA IrqExitIs ==
  ASSUME KInv, NEW K, Arrives(K), IrqExit(K)
  PROVE  IrqLeaves(k', K)
<1>0. /\ K \in Kernel /\ K.next \in Task /\ Sched(K, Runnables(K), Queues(K))
      /\ K.state[Idle] = "runnable" /\ K.request \in BOOLEAN
      /\ pc \in [Task -> Spots] /\ ticks \in [Prio -> Nat]
      /\ (\A t \in Task : OneTask(K, Queues(K), t))
      /\ k.curr \in Task
  BY SoundFacts, KernelFields DEF Arrives, KInv
<1> DEFINE wq == Queues(K)
<1> HIDE DEF wq
<1>1. CASE K.request
  <2> DEFINE J == [K EXCEPT !.request = FALSE, !.curr = K.next]
  <2>1. /\ J \in Kernel /\ J.state = K.state /\ J.prio = K.prio /\ J.link = K.link
        /\ J.bmp = K.bmp /\ J.next = K.next /\ J.reason = K.reason /\ J.tick = K.tick
        /\ J.exists = K.exists /\ J.activate = K.activate /\ J.curr = K.next
        /\ J.request = FALSE
        /\ J.pwait = K.pwait /\ J.rc = K.rc /\ J.elem = K.elem /\ J.ewait = K.ewait
    BY <1>0 DEF Kernel
  <2>2. k' = J /\ pc' = IF Place(k.curr) = "exit" THEN Goes(k.curr, "stuck", Null) ELSE pc
    BY <1>1 DEF IrqExit
  <2> HIDE DEF J
  <2>3. Sched(J, Runnables(J), wq) /\ (AtHead(K) => AtHead(J))
    BY <1>0, <2>1 DEF Sched, Runnables, Timers, Chosen, AtHead, wq
  <2>4. \A t \in Task : OneTask(J, wq, t)
    BY <1>0, <2>1, OneTaskSame DEF wq
  <2>5. Sound(J) /\ Queues(J) = wq
    BY <1>0, <2>1, <2>3, <2>4, SoundFrom
  <2>6. RunsRight(J)
    BY <2>1, <2>5, NextRuns
  <2>7. /\ pc' \in [Task -> Spots]
        /\ \A t \in Task : pc'[t] = pc[t] \/ (pc[t][1] = "exit" /\ pc'[t] = <<"stuck", Null>>)
    BY <1>0, <2>2 DEF Goes, Spots, Place
  <2>8. \A t \in Task : View(J, K, t)
    BY <2>1 DEF View, Waiting
  <2>9. IrqLeaves(J, K)
    BY <2>1, <2>3, <2>5, <2>6, <2>7, <2>8 DEF Arrives, IrqLeaves, wq
  <2> QED
    BY <2>2, <2>9
<1>2. CASE ~K.request
  <2>1. k' = K /\ UNCHANGED pc
    BY <1>2 DEF IrqExit
  <2>2. Runs(pc'[K.curr][1]) => RunsRight(K)
    BY <1>2, <2>1 DEF Arrives, KInv, Place
  <2>3. IrqLeaves(K, K)
    BY <1>0, <1>2, <2>1, <2>2 DEF Arrives, IrqLeaves, View
  <2> QED
    BY <2>1, <2>3
<1> QED
  BY <1>1, <1>2

\* An interrupt that leaves the queues and the waiting tasks alone.
LEMMA IrqKeeps ==
  ASSUME KInv, NEW K, Arrives(K), Queues(K) = Queues(k), Spares(K, k, {}),
         IrqExit(K), UNCHANGED <<ticks, services>>
  PROVE  KInv' /\ Apart
<1> DEFINE J == k'
           P == pc'
<1>1. IrqLeaves(J, K)
  BY IrqExitIs
<1>2. k' = J /\ pc' = P
  OBVIOUS
<1>3. \A t \in Task : (P[t] = pc[t] /\ t \notin {}) \/ Afresh(P, k, t)
  <2> SUFFICES ASSUME NEW t \in Task
               PROVE  (P[t] = pc[t] /\ t \notin {}) \/ Afresh(P, k, t)
    OBVIOUS
  <2>1. CASE pc[t][1] = "exit" /\ P[t] = <<"stuck", Null>>
    BY <2>1, PlainFacts DEF Afresh
  <2> QED
    BY <1>1, <2>1 DEF IrqLeaves
<1>6. pc' \in [Task -> Spots] /\ (Runs(pc'[J.curr][1]) => RunsRight(J)) /\ ticks' \in [Prio -> Nat]
  BY <1>1 DEF KInv, IrqLeaves
<1> HIDE DEF J, P
<1>4. Spares(J, k, {})
  BY <1>1 DEF IrqLeaves, Spares, View
<1>5. Aside(J, P)
  BY <1>1, <1>3, <1>4, AsideIs DEF IrqLeaves
<1>7. Aside(J, pc')
  BY <1>2, <1>5
<1>8. /\ Sound(J) /\ ~J.request /\ ("tslice_ticks" \notin services => AtHead(J) /\ ticks' = ticks)
      /\ Shrinks(J, k)
  BY <1>1 DEF IrqLeaves, Shrinks
<1> QED
  BY <1>2, <1>6, <1>7, <1>8, StepIs

\* A handler that requests a switch if it is needed.
RequestIs(J, K, c) ==
  /\ Arrives(J) /\ Queues(J) = Queues(K) /\ \A t \in Task : View(J, K, t)
LEMMA Requested ==
  ASSUME KInv, NEW K, Sound(K), K.curr = k.curr, ~K.request, AtHead(k) => AtHead(K),
         NEW c \in BOOLEAN, c \/ (RunsRight(k) => RunsRight(K))
  PROVE  RequestIs(Request(K, c), K, c)
<1> DEFINE J == Request(K, c)
           wq == Queues(K)
<1>0. /\ K \in Kernel /\ Sched(K, Runnables(K), wq) /\ K.curr = k.curr
      /\ K.state[Idle] = "runnable" /\ ~K.request /\ (K.request \/ c) = c
      /\ "tslice_ticks" \notin services => AtHead(K)
      /\ \A t \in Task : OneTask(K, wq, t)
  BY SoundFacts DEF KInv
<1> HIDE DEF wq
<1>1. J = [K EXCEPT !.request = c]
  BY <1>0 DEF Request, Kernel
<1> HIDE DEF J
<1>2. /\ J \in Kernel /\ J.state = K.state /\ J.prio = K.prio /\ J.link = K.link
      /\ J.bmp = K.bmp /\ J.next = K.next /\ J.reason = K.reason /\ J.tick = K.tick
      /\ J.exists = K.exists /\ J.activate = K.activate /\ J.curr = K.curr
      /\ J.request = c
      /\ J.pwait = K.pwait /\ J.rc = K.rc /\ J.elem = K.elem /\ J.ewait = K.ewait
  BY <1>0, <1>1 DEF Kernel
<1>4. Sched(J, Runnables(J), wq) /\ (AtHead(K) => AtHead(J))
  BY <1>0, <1>2 DEF Sched, Runnables, Timers, Chosen, AtHead
<1>5. \A t \in Task : OneTask(J, wq, t)
  BY <1>0, <1>2, OneTaskSame
<1>6. Sound(J) /\ Queues(J) = wq
  BY <1>0, <1>2, <1>4, <1>5, SoundFrom
<1>7. RunsRight(K) => RunsRight(J)
  BY <1>2, StillRuns
<1>8. \A t \in Task : View(J, K, t)
  BY <1>2 DEF View, Waiting
<1>9. Arrives(J)
  BY <1>0, <1>2, <1>4, <1>6, <1>7 DEF Arrives
<1> QED
  BY <1>6, <1>8, <1>9 DEF J, wq, RequestIs

\* Such an interrupt by a service that leads to K.
LEMMA IrqService ==
  ASSUME KInv, NEW K, Kept(K, k), Spares(K, k, {}), NEW c \in BOOLEAN,
         c \/ (RunsRight(k) => RunsRight(K)),
         IrqExit(Request(K, c)), UNCHANGED <<ticks, services>>
  PROVE  KInv' /\ Apart
<1> DEFINE J == Request(K, c)
<1>1. RequestIs(J, K, c)
  BY Requested DEF Kept, KInv
<1> HIDE DEF J
<1>2. Spares(J, k, {}) /\ Queues(J) = Queues(k) /\ Arrives(J)
  BY <1>1 DEF RequestIs, Spares, View, Kept
<1> QED
  BY <1>2, IrqKeeps DEF J

\* tn_task_iwakeup keeps it.
LEMMA IWakeupStep ==
  ASSUME KInv, NEW u \in User, IWakeup(u), UNCHANGED <<ticks, services>>
  PROVE  KInv' /\ Apart
<1> DEFINE K == WakeupOf(u)
           c == Sleeping(k, u) /\ Wakes(k, u)
<1>1. CanWake(u) /\ IrqExit(Request(K, c)) /\ Sound(k)
  BY DEF IWakeup, KInv
<1>2. Kept(K, k) /\ Spares(K, k, {}) /\ (c \/ (RunsRight(k) => RunsRight(K)))
  <2>1. CASE Sleeping(k, u)
    <3>1. Waiting(k, u) /\ k.pwait[u] = Null /\ K = WaitComplete(k, u)
      BY <1>1, <2>1, SleepingFacts DEF WakeupOf
    <3>2. Leads(WaitComplete(k, u)) /\ (RunsRight(k) => Wakes(k, u) \/ RunsRight(WaitComplete(k, u)))
      BY <1>1, <3>1, WokenLeads
    <3>3. Spares(WaitComplete(k, u), k, {})
      BY <1>1, <3>1, WokenIs
    <3> HIDE DEF K
    <3> QED
      BY <2>1, <3>1, <3>2, <3>3 DEF Leads
  <2>2. CASE ~Sleeping(k, u)
    <3>1. K = [k EXCEPT !.wakeup[k.curr] = @ + 1] /\ k.wakeup[k.curr] = 0
      BY <1>1, <2>2 DEF WakeupOf, CanWake
    <3> HIDE DEF K
    <3>2. Stays(K)
      BY <1>1, <3>1, CountedLeads
    <3> QED
      BY <3>2 DEF Stays
  <2> QED
    BY <2>1, <2>2
<1>3. c \in BOOLEAN
  BY DEF Sleeping, Wakes
<1> HIDE DEF K, c
<1> QED
  BY <1>1, <1>2, <1>3, IrqService

\* tn_task_irelease_wait keeps it.
LEMMA IReleaseWaitStep ==
  ASSUME KInv, NEW u \in User, IReleaseWait(u), UNCHANGED <<ticks, services>>
  PROVE  KInv' /\ Apart
<1> DEFINE K == WaitComplete(k, u)
           c == Wakes(k, u)
<1>1. Waiting(k, u) /\ IrqExit(Request(K, c)) /\ Sound(k) /\ "irelease_wait" \in services
  BY DEF IReleaseWait, KInv
<1>4. k.pwait[u] = Null
  <2>1. OneTask(k, Queues(k), u)
    BY <1>1, SoundFacts, ConstantFacts
  <2> QED
    BY <1>1, <2>1 DEF OneTask
<1>2. Leads(K) /\ (c \/ (RunsRight(k) => RunsRight(K)))
  BY <1>1, <1>4, WokenLeads
<1>5. Spares(K, k, {})
  BY <1>1, <1>4, WokenIs
<1>3. c \in BOOLEAN
  BY DEF Wakes
<1> HIDE DEF K, c
<1> QED
  BY <1>1, <1>2, <1>3, <1>5, IrqService DEF Leads

\* tn_task_iactivate keeps it.
LEMMA IActivateStep ==
  ASSUME KInv, NEW u \in User, IActivate(u), UNCHANGED <<ticks, services>>
  PROVE  KInv' /\ Apart
<1>1. Sound(k) /\ "iactivate" \in services /\ k.exists[u] /\ u \in Task /\ ~k.request
      /\ ("tslice_ticks" \notin services => AtHead(k))
  BY ConstantFacts DEF IActivate, KInv
<1>2. CASE k.state[u] = "dormant"
  <2> DEFINE K == ToRunnable(k, u)
             c == K.next # K.curr
  <2>1. IrqExit(Request(K, c))
    BY <1>2 DEF IActivate
  <2>2. Kept(K, k) /\ Spares(K, k, {})
    BY <1>1, <1>2, MadeReady
  <2> HIDE DEF K
  <2>3. c \in BOOLEAN /\ (c \/ RunsRight(K))
    BY <2>2, NextRuns DEF Kept
  <2> HIDE DEF c
  <2> QED
    BY <2>1, <2>2, <2>3, IrqService
<1>3. CASE k.state[u] # "dormant"
  <2> DEFINE K == [k EXCEPT !.activate[u] = 1]
  <2>1. IrqExit(K)
    BY <1>3 DEF IActivate
  <2>2. services \cap {"activate", "iactivate"} # {}
    BY <1>1
  <2>3. Kept(K, k) /\ Spares(K, k, {}) /\ (RunsRight(k) => RunsRight(K))
    BY <1>1, <2>2, ActivateSet
  <2> HIDE DEF K
  <2>4. Arrives(K) /\ Queues(K) = Queues(k)
    BY <1>1, <2>3 DEF Arrives, Kept
  <2> QED
    BY <2>1, <2>3, <2>4, IrqKeeps
<1> QED
  BY <1>2, <1>3

\* The tick walks along timers.
LEMMA EntriesAreTimers ==
  ASSUME NEW K, Sound(K)
  PROVE  LET w == Entries(K, TimeoutList)
         IN  Len(w) \in Nat /\ \A i \in 1 .. Len(w) : \E t \in Task : w[i] = Tm(t)
<1> DEFINE w == Entries(K, TimeoutList)
           S == {Tm(u) : u \in Timers(K)}
           L == K.link
<1>1. L \in Memory(Node) /\ IsList(L, TimeoutList, S) /\ TimeoutList \in Node
  BY NodeFacts DEF Sound, SoundBut, Sched, Listed
<1>2. w = Walk(L, TimeoutList)
  BY DEF Entries
<1> HIDE DEF L, S, w
<1>3. w \in Seq(Node)
  BY <1>1, <1>2, NodeFinite, ListIsIntact
<1>4. S = {w[i] : i \in DOMAIN w} /\ Len(w) \in Nat /\ DOMAIN w = 1 .. Len(w)
  BY <1>1, <1>2, <1>3, NodeFinite, ListIsIntact
<1>5. ASSUME NEW i \in 1 .. Len(w) PROVE \E t \in Task : w[i] = Tm(t)
  <2>1. w[i] \in S
    BY <1>4
  <2> QED
    BY <2>1 DEF S, Timers
<1> QED
  BY <1>4, <1>5 DEF w

\* What the round robin of the tick does.
LEMMA RotatedIs ==
  ASSUME KInv
  PROVE  LET J == RoundRobin(k)
         IN  /\ Sound(J) /\ J.curr = k.curr /\ J.request = k.request
             /\ J.state = k.state /\ J.prio = k.prio /\ J.next = k.next
             /\ J.reason = k.reason /\ Queues(J) = Queues(k) /\ Spares(J, k, {})
             /\ "tslice_ticks" \notin services => AtHead(J)
<1> DEFINE R == Runnables(k)
           J == RoundRobin(k)
           wq == Queues(k)
<1>0. /\ Sched(k, R, wq) /\ k.state[Idle] = "runnable" /\ ticks \in [Prio -> Nat]
      /\ \A t \in Task : OneTask(k, wq, t)
  BY SoundFacts DEF KInv
<1>q. Queues(k) = wq
  OBVIOUS
<1> HIDE DEF wq
<1>1. /\ Sched(J, R, wq) /\ Frame(J, k) /\ J.state = k.state
      /\ J.prio = k.prio /\ J.next = k.next
      /\ ticks = [p \in Prio |-> 0] => J = k
  <2> HIDE DEF R
  <2> QED
    BY <1>0, RoundRobinIs
<1> HIDE DEF J
<1>2. Runnables(J) = R
  BY <1>1 DEF Runnables
<1>3. \A t \in Task : OneTask(J, wq, t)
  BY <1>0, <1>1, OneTaskSame DEF Frame
<1>4. Sound(J) /\ Queues(J) = wq
  BY <1>0, <1>1, <1>2, <1>3, SoundFrom
<1>5. "tslice_ticks" \notin services => AtHead(J)
  BY <1>1 DEF KInv
<1>6. Spares(J, k, {})
  BY <1>1 DEF Frame, Spares, View, Waiting
<1> QED
  BY <1>1, <1>4, <1>5, <1>6, <1>q DEF J, Frame

\* tn_tick_int_processing keeps it.
LEMMA TickStep ==
  ASSUME KInv, Tick, UNCHANGED <<ticks, services>>
  PROVE  KInv' /\ Apart
<1> DEFINE J == RoundRobin(k)
           w == Entries(k, TimeoutList)
           K == Ticked(J, w)
<1>1. IrqExit(K)
  BY DEF Tick
<1>2. /\ Sound(J) /\ J.curr = k.curr /\ J.request = k.request
      /\ J.state = k.state /\ J.prio = k.prio /\ J.next = k.next
      /\ J.reason = k.reason /\ Queues(J) = Queues(k) /\ Spares(J, k, {})
      /\ "tslice_ticks" \notin services => AtHead(J)
  BY RotatedIs
<1>3. Len(w) \in Nat /\ \A i \in 1 .. Len(w) : \E t \in Task : w[i] = Tm(t)
  BY EntriesAreTimers DEF KInv
<1> HIDE DEF J, w
<1>4. K \in Onwards(J)
  BY <1>2, <1>3, TickedIs
<1> HIDE DEF K
<1>5. ~K.request /\ RunsRight(k) => RunsRight(K)
  <2>1. SUFFICES ASSUME ~K.request, RunsRight(k) PROVE RunsRight(K)
    OBVIOUS
  <2>2. /\ K.curr = k.curr /\ K.next = k.next
        /\ \A u \in Task : k.state[u] = "runnable" => K.state[u] = "runnable" /\ K.prio[u] = k.prio[u]
    BY <1>2, <1>4, <2>1 DEF Onwards
  <2> QED
    BY <2>1, <2>2, StillRuns DEF KInv
<1>6. Arrives(K)
  BY <1>2, <1>4, <1>5 DEF Arrives, Onwards
<1>7. Queues(K) = Queues(k) /\ Spares(K, k, {})
  BY <1>2, <1>4 DEF Onwards, Spares, View
<1> QED
  BY <1>1, <1>6, <1>7, IrqKeeps

-----------------------------------------------------------------------------
(* The theorems.  Mutex = {}: the system has no mutexes (the application   *)
(* creates none), so that no task waits for one or has one to unlock.      *)

\* A step of the kernel keeps the invariant, and does not touch the tasks in
\* the services of objects, except that it may end one.
LEMMA KernelStepIs ==
  ASSUME Mutex = {}, KInv, KernelStep
  PROVE  KInv' /\ Apart
<1>1. UNCHANGED services
  BY DEF KernelStep
<1>2. CASE TaskService /\ UNCHANGED ticks
  <2>1. ASSUME NEW timeout \in Timeouts \cup {Forever}, Sleep(timeout) PROVE KInv' /\ Apart
    BY <1>1, <1>2, <2>1, SleepStep
  <2>2. ASSUME NEW delete \in BOOLEAN, Exit(delete) PROVE KInv' /\ Apart
    BY <1>1, <1>2, <2>2, ExitStep
  <2>3. ASSUME NEW u \in User, Suspend(u) PROVE KInv' /\ Apart
    BY <1>1, <1>2, <2>3, SuspendStep
  <2>4. ASSUME NEW u \in User, Resume(u) PROVE KInv' /\ Apart
    BY <1>1, <1>2, <2>4, ResumeStep
  <2>5. ASSUME NEW u \in User, Wakeup(u) PROVE KInv' /\ Apart
    BY <1>1, <1>2, <2>5, WakeupStep
  <2>6. ASSUME NEW u \in User, ReleaseWait(u) PROVE KInv' /\ Apart
    BY <1>1, <1>2, <2>6, ReleaseWaitStep
  <2>7. ASSUME NEW u \in User, Activate(u) PROVE KInv' /\ Apart
    BY <1>1, <1>2, <2>7, ActivateStep
  <2>8. ASSUME NEW u \in User, Terminate(u) PROVE KInv' /\ Apart
    BY <1>1, <1>2, <2>8, TerminateStep
  <2>9. ASSUME NEW u \in User, Delete(u) PROVE KInv' /\ Apart
    BY <1>1, <1>2, <2>9, DeleteStep
  <2>10. ASSUME NEW u \in User, NEW start \in BOOLEAN, Create(u, start) PROVE KInv' /\ Apart
    BY <1>1, <1>2, <2>10, CreateStep
  <2>11. ASSUME NEW u \in User, NEW p \in 0 .. NumPrio - 1, ChangePriority(u, p)
         PROVE  KInv' /\ Apart
    BY <1>1, <1>2, <2>11, ChangePriorityStep
  <2> QED
    BY <1>2, <2>1, <2>2, <2>3, <2>4, <2>5, <2>6, <2>7, <2>8, <2>9, <2>10, <2>11 DEF TaskService
<1>3. ASSUME NEW s \in Slices, TsliceTicks(s[1], s[2]) PROVE KInv' /\ Apart
  BY <1>1, <1>3, TsliceTicksStep
<1>4. CASE SwitchContext /\ UNCHANGED ticks
  BY <1>1, <1>4, SwitchContextStep
<1>5. CASE SwitchContextExit /\ UNCHANGED ticks
  BY <1>1, <1>5, SwitchContextExitStep
<1>6. CASE Tick /\ UNCHANGED ticks
  BY <1>1, <1>6, TickStep
<1>7. ASSUME NEW u \in User, IWakeup(u), UNCHANGED ticks PROVE KInv' /\ Apart
  BY <1>1, <1>7, IWakeupStep
<1>8. ASSUME NEW u \in User, IReleaseWait(u), UNCHANGED ticks PROVE KInv' /\ Apart
  BY <1>1, <1>8, IReleaseWaitStep
<1>9. ASSUME NEW u \in User, IActivate(u), UNCHANGED ticks PROVE KInv' /\ Apart
  BY <1>1, <1>9, IActivateStep
<1> QED
  BY <1>2, <1>3, <1>4, <1>5, <1>6, <1>7, <1>8, <1>9 DEF KernelStep, Service, Interrupt

\* In the program of tasks alone no task is in the service of an object.
Alone == \A t \in Task : pc[t][2] = Null
LEMMA StepInv ==
  ASSUME Mutex = {}
  PROVE  KInv /\ Alone /\ [Next]_vars => KInv' /\ Alone'
<1> SUFFICES ASSUME KInv, Alone, [Next]_vars PROVE KInv' /\ Alone'
  OBVIOUS
<1>1. CASE UNCHANGED vars
  <2>1. /\ Sound(k) /\ ~k.request
        /\ "tslice_ticks" \notin services => AtHead(k)
        /\ pc \in [Task -> Spots] /\ ticks \in [Prio -> Nat]
        /\ Runs(pc[k.curr][1]) => RunsRight(k)
        /\ Within(k, pc)
    BY DEF KInv, Place
  <2>2. k' = k /\ pc' = pc /\ ticks' = ticks /\ services' = services
    BY <1>1 DEF vars
  <2>3. Within(k, pc')
    BY <2>1, <2>2
  <2>4. KInv'
    BY <2>1, <2>2, <2>3, InvKept
  <2> QED
    BY <2>2, <2>4 DEF Alone
<1>2. CASE Next
  <2>1. KInv' /\ Apart
    BY <1>2, KernelStepIs DEF Next
  <2> QED
    BY <2>1 DEF Alone, Apart, Aside
<1> QED
  BY <1>1, <1>2

\* The inductive invariant of the scheduler (tn_tasks.c, tn.c): whatever
\* services and interrupts do, the lists, the bit map, the timers and the next
\* task agree with the states of the tasks, and the task that runs may run.
THEOREM SchedulerInvariant ==
  ASSUME Mutex = {}, \A p \in Programs : Orderly(p.services)
  PROVE  Spec => [](KInv /\ Alone)
<1>1. Init => KInv
  BY InitInv
<1>2. Init => Alone
  BY DEF Init, Alone
<1>3. KInv /\ Alone /\ [Next]_vars => (KInv /\ Alone)'
  BY StepInv
<1> QED
  BY <1>1, <1>2, <1>3, PTL DEF Spec

\* The lists, as the properties state them.
LEMMA ListsAre ==
  ASSUME Sound(k)
  PROVE  /\ \A p \in Prio :
              /\ WellFormed(k.link, Ready(p))
              /\ Members(k, Ready(p)) = At(Runnables(k), k.prio, p)
         /\ WellFormed(k.link, TimeoutList)
         /\ Members(k, TimeoutList) = {Tm(t) : t \in Timers(k)}
<1> DEFINE L == k.link
<1>1. /\ L \in Memory(Node)
      /\ \A p \in Prio : IsList(L, Ready(p), At(Runnables(k), k.prio, p))
      /\ IsList(L, TimeoutList, {Tm(t) : t \in Timers(k)})
  BY DEF Sound, SoundBut, Sched, Listed
<1>2. \A q : Members(k, q) = {Walk(L, q)[i] : i \in DOMAIN Walk(L, q)}
  BY DEF Members, Entries
<1> HIDE DEF L
<1>3. \A p \in Prio :
        /\ WellFormed(L, Ready(p))
        /\ {Walk(L, Ready(p))[i] : i \in DOMAIN Walk(L, Ready(p))} = At(Runnables(k), k.prio, p)
  BY <1>1, NodeFinite, ListIsIntact
<1>4. /\ WellFormed(L, TimeoutList)
      /\ {Walk(L, TimeoutList)[i] : i \in DOMAIN Walk(L, TimeoutList)} = {Tm(t) : t \in Timers(k)}
  BY <1>1, NodeFinite, ListIsIntact
<1> QED
  BY <1>2, <1>3, <1>4 DEF L

\* The types.
LEMMA InvTypes == KInv /\ Alone => TypeOK
<1> SUFFICES ASSUME KInv, Alone PROVE TypeOK
  OBVIOUS
<1>1. pc \in [Task -> Spots] /\ ticks \in [Prio -> Nat] /\ k \in Kernel
  BY SoundFacts DEF KInv
<1>2. ASSUME NEW t \in Task PROVE pc[t] \in {"user", "switch", "exit", "stuck"} \X {Null}
  <2>1. pc[t] \in Spots /\ pc[t][2] = Null /\ Null \notin WaitQ
    BY <1>1, CoreAssumption DEF Alone
  <2> QED
    BY <2>1 DEF Spots
<1> QED
  BY <1>1, <1>2 DEF TypeOK

\* The ready lists.
LEMMA InvReady == KInv => ReadyListsHold
<1> SUFFICES ASSUME KInv PROVE ReadyListsHold
  OBVIOUS
<1>1. ASSUME NEW p \in Prio PROVE At(Runnables(k), k.prio, p) = {Tq(t) : t \in RunnableAt(p)}
  <2>1. {v \in Runnables(k) : k.prio[v] = p} = RunnableAt(p)
    BY DEF Runnables, RunnableAt
  <2> QED
    BY <2>1 DEF At
<1>2. k.bmp = {p \in Prio : RunnableAt(p) # {}}
  <2>1. k.bmp = {k.prio[u] : u \in Runnables(k)} /\ k.prio \in [Task -> Prio]
    BY SoundFacts DEF KInv, Sched
  <2> QED
    BY <2>1 DEF Runnables, RunnableAt
<1> QED
  BY <1>1, <1>2, ListsAre DEF ReadyListsHold, KInv

\* The timeout list.
LEMMA InvTimeouts == KInv => TimeoutListHolds
<1> SUFFICES ASSUME KInv PROVE TimeoutListHolds
  OBVIOUS
<1>1. \A t \in Task : OneTask(k, Queues(k), t)
  BY SoundFacts DEF KInv
<1>2. \A t \in Task : k.tick[t] # Forever => Waiting(k, t) /\ k.tick[t] > 0
  BY <1>1 DEF OneTask
<1> QED
  BY <1>2, ListsAre DEF TimeoutListHolds, Timers, KInv

\* The next and the running task.
LEMMA InvHighest == KInv => HighestRuns
<1> SUFFICES ASSUME KInv PROVE HighestRuns
  OBVIOUS
<1>1. /\ k.next \in Task /\ k.state[k.next] = "runnable"
      /\ \A u \in Task : k.state[u] = "runnable" => k.prio[k.next] <= k.prio[u]
  BY SoundFacts DEF KInv, Sched, Chosen, Runnables
<1>2. Place(k.curr) = "user" /\ SwitchesAsked
        => k.state[k.curr] = "runnable" /\ k.prio[k.curr] = k.prio[k.next]
  BY DEF KInv, RunsRight, Runs
<1> QED
  BY <1>1, <1>2 DEF HighestRuns

\* The deleted tasks.
LEMMA InvDeleted == KInv => DeletedIsDormant
<1> SUFFICES ASSUME KInv PROVE DeletedIsDormant
  OBVIOUS
<1>1. \A t \in Task : OneTask(k, Queues(k), t)
  BY SoundFacts DEF KInv
<1> QED
  BY <1>1 DEF DeletedIsDormant, OneTask

\* The kernel's data keep the types of tn.h: a pointer to a task, tn_curr_run_
\* task or tn_next_task_to_run among them, always points to a task.
THEOREM KernelTypes ==
  ASSUME Mutex = {}, \A p \in Programs : Orderly(p.services)
  PROVE  Spec => []TypeOK
BY SchedulerInvariant, InvTypes, PTL

\* The ready lists are intact and hold exactly the RUNNABLE tasks, each once and
\* at its priority, and the bit map shows the lists that are not empty.
THEOREM ReadyLists ==
  ASSUME Mutex = {}, \A p \in Programs : Orderly(p.services)
  PROVE  Spec => []ReadyListsHold
BY SchedulerInvariant, InvReady, PTL

\* The timeout list is intact and holds exactly the tasks with a timeout to come.
THEOREM TimeoutListIntact ==
  ASSUME Mutex = {}, \A p \in Programs : Orderly(p.services)
  PROVE  Spec => []TimeoutListHolds
BY SchedulerInvariant, InvTimeouts, PTL

\* A task of the highest priority runs, however services, their switches and
\* interrupts interleave (but for the programs SwitchesAsked leaves out).
THEOREM Preemption ==
  ASSUME Mutex = {}, \A p \in Programs : Orderly(p.services)
  PROVE  Spec => []HighestRuns
BY SchedulerInvariant, InvHighest, PTL

\* A TCB that no longer exists is in no list, so it may be created anew.
THEOREM DeletedTasks ==
  ASSUME Mutex = {}, \A p \in Programs : Orderly(p.services)
  PROVE  Spec => []DeletedIsDormant
BY SchedulerInvariant, InvDeleted, PTL

=============================================================================
