-------------------------- MODULE TnObjectsProofs --------------------------
(***************************************************************************)
(* Proofs about the kernel with its semaphores, data queues, events and    *)
(* memory pools, for any number of tasks and priorities and any program    *)
(* that is Careful: nobody waits for what is there, a wait ends with the   *)
(* answer it deserves, nothing that is sent is lost, every block is in one *)
(* place, and no delete leaves a waiting task behind.                      *)
(*                                                                         *)
(* TnObjectProofs has the steps of semaphores and events; here are those   *)
(* of data queues and memory pools, then the objects are put together.     *)
(***************************************************************************)
EXTENDS TnObjectProofs

-----------------------------------------------------------------------------
(* The FIFO of a data queue.                                               *)

\* Sequences cut and put together.
LEMMA CutFirst ==
  ASSUME NEW S, NEW s \in Seq(S), NEW p \in Seq(S), s # <<>>
  PROVE  Head(s \o p) = s[1] /\ Tail(s \o p) = Tail(s) \o p /\ s \o p # <<>>
<1>1. s \o p \in Seq(S) /\ Len(s \o p) = Len(s) + Len(p) /\ Len(s) >= 1
  OBVIOUS
<1>2. Tail(s) \in Seq(S) /\ Len(Tail(s)) = Len(s) - 1 /\ s \o p # <<>>
      /\ Tail(s \o p) \in Seq(S) /\ Tail(s) \o p \in Seq(S)
  BY <1>1
<1>3. \A i \in 1 .. Len(s) - 1 + Len(p) : Tail(s \o p)[i] = (Tail(s) \o p)[i]
  BY <1>1, <1>2
<1>4. Len(Tail(s \o p)) = Len(s) - 1 + Len(p) /\ Len(Tail(s) \o p) = Len(s) - 1 + Len(p)
  BY <1>1, <1>2
<1>5. Tail(s \o p) = Tail(s) \o p
  BY <1>2, <1>3, <1>4, SeqEqual
<1>6. Head(s \o p) = s[1]
  BY <1>1
<1> QED
  BY <1>2, <1>5, <1>6

LEMMA MoveFirst ==
  ASSUME NEW S, NEW s \in Seq(S), NEW p \in Seq(S), p # <<>>
  PROVE  Append(s, p[1]) \o Tail(p) = s \o p
<1>1. /\ Append(s, p[1]) \in Seq(S) /\ Tail(p) \in Seq(S) /\ Len(p) \in Nat /\ Len(p) >= 1
      /\ Len(Append(s, p[1])) = Len(s) + 1 /\ Len(Tail(p)) = Len(p) - 1 /\ Len(s) \in Nat
  OBVIOUS
<1>2. /\ \A i \in 1 .. Len(s) : Append(s, p[1])[i] = s[i]
      /\ Append(s, p[1])[Len(s) + 1] = p[1]
      /\ \A i \in 1 .. Len(p) - 1 : Tail(p)[i] = p[i + 1]
  BY <1>1
<1> DEFINE a == Append(s, p[1])
           b == Tail(p)
<1>3. /\ a \in Seq(S) /\ b \in Seq(S) /\ Len(a) = Len(s) + 1 /\ Len(b) = Len(p) - 1
      /\ \A i \in 1 .. Len(s) : a[i] = s[i]
      /\ a[Len(s) + 1] = p[1]
      /\ \A i \in 1 .. Len(p) - 1 : b[i] = p[i + 1]
  BY <1>1, <1>2
<1> HIDE DEF a, b
<1>4. a \o b \in Seq(S) /\ s \o p \in Seq(S) /\ Len(a \o b) = Len(s \o p)
  <2>1. a \o b \in Seq(S) /\ Len(a \o b) = Len(s) + 1 + (Len(p) - 1)
    BY <1>3, ConcatProperties, SMTT(60)
  <2>2. s \o p \in Seq(S) /\ Len(s \o p) = Len(s) + Len(p)
    BY ConcatProperties
  <2> QED
    BY <1>1, <2>1, <2>2
<1>5. ASSUME NEW i \in 1 .. Len(a \o b) PROVE (a \o b)[i] = (s \o p)[i]
  <2>1. i \in Int /\ 1 <= i /\ i <= Len(s) + Len(p)
    BY <1>1, <1>3, <1>5
  <2>2. CASE i <= Len(s)
    <3>1. (a \o b)[i] = a[i] /\ (s \o p)[i] = s[i] /\ i \in 1 .. Len(s)
      BY <1>1, <1>3, <2>1, <2>2
    <3> QED
      BY <1>3, <3>1
  <2>3. CASE i = Len(s) + 1
    <3>1. (a \o b)[i] = a[i] /\ (s \o p)[i] = p[1]
      BY <1>1, <1>3, <2>1, <2>3
    <3> QED
      BY <1>3, <3>1, <2>3
  <2>4. CASE i > Len(s) + 1
    <3>1. /\ (a \o b)[i] = b[i - (Len(s) + 1)] /\ (s \o p)[i] = p[i - Len(s)]
          /\ i - (Len(s) + 1) \in 1 .. Len(p) - 1
      BY <1>1, <1>3, <2>1, <2>4
    <3>2. b[i - (Len(s) + 1)] = p[(i - (Len(s) + 1)) + 1]
      BY <1>3, <3>1
    <3>3. (i - (Len(s) + 1)) + 1 = i - Len(s)
      BY <1>1, <2>1
    <3> QED
      BY <3>1, <3>2, <3>3
  <2> QED
    BY <1>1, <2>1, <2>2, <2>3, <2>4
<1>6. a \o b = s \o p
  BY <1>4, <1>5, SeqEqual
<1> QED
  BY <1>6 DEF a, b

LEMMA CutMiddle ==
  ASSUME NEW S, NEW s \in Seq(S), NEW p \in Seq(S), p # <<>>
  PROVE  RemoveAt(s \o p, Len(s) + 1) = s \o Tail(p)
<1> DEFINE c == s \o p
           n == Len(s)
<1>1. c \in Seq(S) /\ Len(c) = n + Len(p) /\ n \in Nat /\ Len(p) \in Nat /\ Len(p) >= 1
      /\ Tail(p) \in Seq(S)
  OBVIOUS
<1>2. SubSeq(c, 1, n) = s
  <2>1. SubSeq(c, 1, n) \in Seq(S) /\ Len(SubSeq(c, 1, n)) = n
    BY <1>1
  <2>2. \A i \in 1 .. n : SubSeq(c, 1, n)[i] = s[i]
    BY <1>1
  <2> QED
    BY <2>1, <2>2, <1>1, SeqEqual
<1>3. SubSeq(c, n + 2, Len(c)) = Tail(p)
  <2>1. CASE Len(p) = 1
    <3>1. Tail(p) = <<>>
      BY <2>1, <1>1
    <3>2. SubSeq(c, n + 2, Len(c)) = <<>>
      BY <2>1, <1>1, SubSeqEmpty
    <3> QED
      BY <3>1, <3>2
  <2>2. CASE Len(p) > 1
    <3>1. n + 2 \in n + 1 .. n + Len(p) /\ Len(c) \in n + 1 .. n + Len(p)
          /\ (n + 2) - n = 2 /\ Len(c) - n = Len(p)
      BY <2>2, <1>1
    <3> HIDE DEF c
    <3>2. SubSeq(s \o p, n + 2, Len(c)) = SubSeq(p, (n + 2) - n, Len(c) - n)
      BY <3>1, SubSeqOfConcat2
    <3>3. Tail(p) = SubSeq(p, 2, Len(p))
      BY TailIsSubSeq
    <3> QED
      BY <3>1, <3>2, <3>3 DEF c
  <2> QED
    BY <2>1, <2>2, <1>1
<1>4. (n + 1) - 1 = n /\ (n + 1) + 1 = n + 2
  BY <1>1
<1> HIDE DEF c, n
<1>5. RemoveAt(c, n + 1) = s \o Tail(p)
  BY <1>2, <1>3, <1>4 DEF RemoveAt
<1> QED
  BY <1>5 DEF c, n

LEMMA WithoutFirstIs ==
  ASSUME NEW S, NEW p \in Seq(S), p # <<>>
  PROVE  Without(p, 1) = Tail(p)
<1>1. Len(p) \in Nat /\ Len(p) >= 1 /\ Tail(p) \in Seq(S) /\ Len(Tail(p)) = Len(p) - 1
  OBVIOUS
<1>2. \A i \in 1 .. Len(p) - 1 : Tail(p)[i] = p[i + 1]
  BY <1>1
<1>3. Tail(p) = [i \in 1 .. Len(p) - 1 |-> Tail(p)[i]]
  <2>1. Tail(p) \in [1 .. Len(Tail(p)) -> S]
    BY <1>1, LenProperties
  <2> QED
    BY <1>1, <2>1
<1>4. [i \in 1 .. Len(p) - 1 |-> Tail(p)[i]] = [i \in 1 .. Len(p) - 1 |-> p[i + 1]]
  BY <1>2
<1>5. Without(p, 1) = [i \in 1 .. Len(p) - 1 |-> p[i + 1]]
  BY <1>1 DEF Without
<1> QED
  BY <1>3, <1>4, <1>5

-----------------------------------------------------------------------------
(* dque_fifo_write and dque_fifo_read.                                     *)

\* A queue with n entries, how many elements are in it, and which they are.
Index(n) == {0} \cup 0 .. n - 1
Fifo(n) == [num_entries: {n}, exists: BOOLEAN, data_fifo: [0 .. n - 1 -> Data \cup {Null}],
            header_cnt: Index(n), tail_cnt: Index(n)]
Count(D) == IF D.num_entries = 0 THEN 0
            ELSE IF D.header_cnt >= D.tail_cnt THEN D.header_cnt - D.tail_cnt
            ELSE D.header_cnt + D.num_entries - D.tail_cnt
Cell(D, i) == IF D.tail_cnt + i - 1 < D.num_entries THEN D.tail_cnt + i - 1
              ELSE D.tail_cnt + i - 1 - D.num_entries
Stored(D) == [i \in 1 .. Count(D) |-> D.data_fifo[Cell(D, i)]]
Following(c, n) == IF c + 1 >= n THEN 0 ELSE c + 1
Gained(D, d, n) == [D EXCEPT !.data_fifo[D.header_cnt] = d, !.header_cnt = Following(@, n)]
Lost(D, n) == [D EXCEPT !.tail_cnt = Following(@, n)]

\* The remainder of a number less than twice n.
LEMMA Wrap ==
  ASSUME NEW n \in Nat, n > 0, NEW a \in Nat, a < n + n
  PROVE  a % n = IF a < n THEN a ELSE a - n
<1>1. CASE a < n
  BY <1>1
<1>2. CASE a >= n
  BY <1>2
<1> QED
  BY <1>1, <1>2

LEMMA CountFacts ==
  ASSUME NEW n \in Nat, NEW D \in Fifo(n)
  PROVE  /\ Count(D) \in Nat /\ (n > 0 => Count(D) <= n - 1)
         /\ n > 0 => (Count(D) = 0 <=> D.tail_cnt = D.header_cnt)
         /\ n > 0 => (Count(D) = n - 1 <=> \/ D.tail_cnt = 0 /\ D.header_cnt = n - 1
                                           \/ D.header_cnt = D.tail_cnt - 1)
         /\ \A i \in 1 .. Count(D) : Cell(D, i) \in 0 .. n - 1
         /\ Stored(D) \in Seq(Data \cup {Null}) /\ Len(Stored(D)) = Count(D)
         /\ \A i \in 1 .. Count(D) : Stored(D)[i] = D.data_fifo[Cell(D, i)]
<1> DEFINE h == D.header_cnt
           t == D.tail_cnt
<1>1. D.num_entries = n /\ h \in Index(n) /\ t \in Index(n)
      /\ D.data_fifo \in [0 .. n - 1 -> Data \cup {Null}]
  BY DEF Fifo
<1>2. h \in Nat /\ t \in Nat /\ (n > 0 => h <= n - 1 /\ t <= n - 1)
  BY <1>1 DEF Index
<1>3. Count(D) = IF n = 0 THEN 0 ELSE IF h >= t THEN h - t ELSE h + n - t
  BY <1>1 DEF Count
<1>4. \A i : Cell(D, i) = IF t + i - 1 < n THEN t + i - 1 ELSE t + i - 1 - n
  BY <1>1 DEF Cell
<1> HIDE DEF h, t
<1>5. Count(D) \in Nat /\ (n > 0 => Count(D) <= n - 1)
  BY <1>2, <1>3
<1>6. n > 0 => (Count(D) = 0 <=> t = h)
  BY <1>2, <1>3
<1>7. n > 0 => (Count(D) = n - 1 <=> (t = 0 /\ h = n - 1) \/ h = t - 1)
  BY <1>2, <1>3
<1>8. \A i \in 1 .. Count(D) : Cell(D, i) \in 0 .. n - 1
  BY <1>2, <1>3, <1>4
<1>9. /\ Stored(D) \in Seq(Data \cup {Null}) /\ Len(Stored(D)) = Count(D)
      /\ \A i \in 1 .. Count(D) : Stored(D)[i] = D.data_fifo[Cell(D, i)]
  BY <1>1, <1>5, <1>8 DEF Stored
<1> QED
  BY <1>5, <1>6, <1>7, <1>8, <1>9 DEF h, t

\* An element is put behind the others,
LEMMA FifoGains ==
  ASSUME NEW n \in Nat, n > 0, NEW D \in Fifo(n), Count(D) < n - 1, NEW d \in Data,
         NEW W, W = Gained(D, d, n)
  PROVE  W \in Fifo(n) /\ W.exists = D.exists /\ Stored(W) = Append(Stored(D), d)
         /\ Count(W) = Count(D) + 1
<1> DEFINE h == D.header_cnt
           t == D.tail_cnt
           f == D.data_fifo
           g == [f EXCEPT ![h] = d]
           S == Data \cup {Null}
<1>1. D.num_entries = n /\ h \in Index(n) /\ t \in Index(n) /\ f \in [0 .. n - 1 -> S]
      /\ D.exists \in BOOLEAN
  BY DEF Fifo
<1>2. h \in 0 .. n - 1 /\ t \in 0 .. n - 1
  BY <1>1 DEF Index
<1>3. Following(h, n) \in 0 .. n - 1
  BY <1>2 DEF Following
<1>4. g \in [0 .. n - 1 -> S] /\ g[h] = d /\ \A i \in 0 .. n - 1 : i # h => g[i] = f[i]
  BY <1>1, <1>2
<1>5. /\ W \in Fifo(n) /\ W.exists = D.exists /\ W.num_entries = n /\ W.tail_cnt = t
      /\ W.header_cnt = Following(h, n) /\ W.data_fifo = g
  <2>1. W = [D EXCEPT !.data_fifo = g, !.header_cnt = Following(h, n)]
    BY DEF Fifo, Gained
  <2>2. Following(h, n) \in Index(n)
    BY <1>3 DEF Index
  <2> HIDE DEF g
  <2> QED
    BY <1>1, <1>4, <2>1, <2>2 DEF Fifo
<1> HIDE DEF g
<1>6. Count(D) = IF h >= t THEN h - t ELSE h + n - t
  BY <1>1 DEF Count
<1>7. Count(W) = IF Following(h, n) >= t THEN Following(h, n) - t ELSE Following(h, n) + n - t
  BY <1>5 DEF Count
<1> HIDE DEF h, t, f, S
<1>8. Count(W) = Count(D) + 1
  BY <1>2, <1>6, <1>7 DEF Following
<1>9. /\ Stored(D) \in Seq(S) /\ Len(Stored(D)) = Count(D) /\ Count(D) \in Nat
      /\ \A i \in 1 .. Count(D) : Cell(D, i) \in 0 .. n - 1 /\ Stored(D)[i] = f[Cell(D, i)]
      /\ Stored(W) \in Seq(S) /\ Len(Stored(W)) = Count(W)
      /\ \A i \in 1 .. Count(W) : Stored(W)[i] = g[Cell(W, i)]
  BY <1>5, CountFacts DEF f, S
<1>10. \A i : Cell(W, i) = Cell(D, i) /\ Cell(D, i) = IF t + i - 1 < n THEN t + i - 1 ELSE t + i - 1 - n
  BY <1>1, <1>5 DEF Cell, t
<1>11. Cell(D, Count(D) + 1) = h /\ \A i \in 1 .. Count(D) : Cell(D, i) # h
  BY <1>2, <1>6, <1>10
<1>12. d \in S
  BY DEF S
<1>13. \A i \in 1 .. Count(D) + 1 : Stored(W)[i] = Append(Stored(D), d)[i]
  <2> SUFFICES ASSUME NEW i \in 1 .. Count(D) + 1 PROVE Stored(W)[i] = Append(Stored(D), d)[i]
    OBVIOUS
  <2>1. Stored(W)[i] = g[Cell(D, i)]
    BY <1>8, <1>9, <1>10
  <2>2. CASE i = Count(D) + 1
    <3>1. Append(Stored(D), d)[i] = d
      BY <2>2, <1>9, <1>12, AppendProperties
    <3> QED
      BY <2>1, <2>2, <3>1, <1>4, <1>11
  <2>3. CASE i \in 1 .. Count(D)
    <3>1. Append(Stored(D), d)[i] = Stored(D)[i]
      BY <2>3, <1>9, <1>12, AppendProperties
    <3> QED
      BY <2>1, <2>3, <3>1, <1>4, <1>9, <1>11
  <2> QED
    BY <2>2, <2>3, <1>9
<1>14. Append(Stored(D), d) \in Seq(S) /\ Len(Append(Stored(D), d)) = Count(D) + 1
  BY <1>9, <1>12, AppendProperties
<1>15. Stored(W) = Append(Stored(D), d)
  BY <1>8, <1>9, <1>13, <1>14, SeqEqual
<1> QED
  BY <1>5, <1>8, <1>15

\* and the first one is taken.
LEMMA FifoLoses ==
  ASSUME NEW n \in Nat, n > 0, NEW D \in Fifo(n), Count(D) > 0,
         NEW R, R = Lost(D, n)
  PROVE  R \in Fifo(n) /\ R.exists = D.exists /\ Stored(R) = Tail(Stored(D))
         /\ Count(R) = Count(D) - 1 /\ Stored(D)[1] = D.data_fifo[D.tail_cnt]
         /\ R.header_cnt = D.header_cnt
<1> DEFINE h == D.header_cnt
           t == D.tail_cnt
           f == D.data_fifo
           S == Data \cup {Null}
<1>1. D.num_entries = n /\ h \in Index(n) /\ t \in Index(n) /\ f \in [0 .. n - 1 -> S]
      /\ D.exists \in BOOLEAN
  BY DEF Fifo
<1>2. h \in 0 .. n - 1 /\ t \in 0 .. n - 1
  BY <1>1 DEF Index
<1>3. Following(t, n) \in 0 .. n - 1
  BY <1>2 DEF Following
<1>5. /\ R \in Fifo(n) /\ R.exists = D.exists /\ R.num_entries = n
      /\ R.tail_cnt = Following(t, n) /\ R.header_cnt = h /\ R.data_fifo = f
  <2>1. R = [D EXCEPT !.tail_cnt = Following(t, n)]
    BY DEF Fifo, Lost
  <2>2. Following(t, n) \in Index(n)
    BY <1>3 DEF Index
  <2> QED
    BY <1>1, <2>1, <2>2 DEF Fifo
<1>6. Count(D) = IF h >= t THEN h - t ELSE h + n - t
  BY <1>1 DEF Count
<1>7. Count(R) = IF h >= Following(t, n) THEN h - Following(t, n) ELSE h + n - Following(t, n)
  BY <1>5 DEF Count
<1>h. h = D.header_cnt
  OBVIOUS
<1> HIDE DEF h, t, f, S
<1>8. Count(R) = Count(D) - 1
  BY <1>2, <1>6, <1>7 DEF Following
<1>9. /\ Stored(D) \in Seq(S) /\ Len(Stored(D)) = Count(D) /\ Count(D) \in Nat
      /\ \A i \in 1 .. Count(D) : Cell(D, i) \in 0 .. n - 1 /\ Stored(D)[i] = f[Cell(D, i)]
      /\ Stored(R) \in Seq(S) /\ Len(Stored(R)) = Count(R)
      /\ \A i \in 1 .. Count(R) : Stored(R)[i] = f[Cell(R, i)]
  BY <1>5, CountFacts DEF f, S
<1>10. /\ \A i : Cell(D, i) = IF t + i - 1 < n THEN t + i - 1 ELSE t + i - 1 - n
       /\ \A i : Cell(R, i) = IF Following(t, n) + i - 1 < n THEN Following(t, n) + i - 1
                              ELSE Following(t, n) + i - 1 - n
  BY <1>1, <1>5 DEF Cell, t
<1>11. \A i \in 1 .. Count(D) - 1 : Cell(R, i) = Cell(D, i + 1)
  BY <1>2, <1>6, <1>10 DEF Following
<1>12. Cell(D, 1) = t
  BY <1>2, <1>10
<1>13. /\ Tail(Stored(D)) \in Seq(S) /\ Len(Tail(Stored(D))) = Count(D) - 1
       /\ \A i \in 1 .. Count(D) - 1 : Tail(Stored(D))[i] = Stored(D)[i + 1]
  BY <1>9
<1>14. \A i \in 1 .. Count(D) - 1 : Stored(R)[i] = Tail(Stored(D))[i]
  <2> SUFFICES ASSUME NEW i \in 1 .. Count(D) - 1 PROVE Stored(R)[i] = Tail(Stored(D))[i]
    OBVIOUS
  <2>1. i + 1 \in 1 .. Count(D)
    BY <1>9
  <2> QED
    BY <2>1, <1>8, <1>9, <1>11, <1>13
<1>15. Stored(R) = Tail(Stored(D))
  BY <1>8, <1>9, <1>13, <1>14, SeqEqual
<1>16. 1 \in 1 .. Count(D)
  BY <1>9
<1>17. Stored(D)[1] = f[t]
  BY <1>9, <1>12, <1>16
<1> QED
  BY <1>5, <1>8, <1>15, <1>17, <1>h DEF f, t

-----------------------------------------------------------------------------
(* What the services do to the elements of a data queue.                   *)

\* The queue D with its senders s, their elements p and the receivers r; o is
\* what has been sent and not received, when it can be told (sure).
Vacant(D) == Count(D) = 0
Crammed(D) == D.num_entries = 0 \/ Count(D) = D.num_entries - 1
Proper(sure, D, o, s, r, p) ==
  /\ D.num_entries \in Capacities \cup {0} /\ D \in Fifo(D.num_entries)
  /\ s \in Seq(Task) /\ r \in Seq(Task) /\ p \in Seq(Data) /\ Len(p) = Len(s)
  /\ ~D.exists => s = <<>> /\ r = <<>>
  /\ D.exists /\ r # <<>> => Vacant(D) /\ s = <<>>
  /\ D.exists /\ s # <<>> => Crammed(D)
  /\ sure => o \in Seq(Data) /\ (D.exists => o = Stored(D) \o p)

LEMMA QueueFifo ==
  ASSUME NEW sure, NEW D, NEW o, NEW s, NEW r, NEW p, Proper(sure, D, o, s, r, p)
  PROVE  LET n == D.num_entries
         IN  /\ n \in Nat /\ D \in Fifo(n) /\ Count(D) \in Nat /\ (n > 0 => Count(D) <= n - 1)
             /\ Stored(D) \in Seq(Data \cup {Null}) /\ Len(Stored(D)) = Count(D)
             /\ p \in Seq(Data \cup {Null}) /\ (Vacant(D) => Stored(D) = <<>>)
             /\ n = 0 => Vacant(D)
<1> DEFINE n == D.num_entries
<1>1. n \in Nat /\ D \in Fifo(n)
  <2>1. n \in Capacities \cup {0} /\ D \in Fifo(n)
    BY DEF Proper
  <2>2. Capacities \cup {0} \subseteq Nat
    BY QueueAssumption
  <2> QED
    BY <2>1, <2>2
<1>2. /\ Count(D) \in Nat /\ (n > 0 => Count(D) <= n - 1)
      /\ Stored(D) \in Seq(Data \cup {Null}) /\ Len(Stored(D)) = Count(D)
  BY <1>1, CountFacts
<1>3. p \in Seq(Data \cup {Null})
  BY SeqMonotonic DEF Proper
<1>4. Vacant(D) => Stored(D) = <<>>
  BY <1>2 DEF Vacant
<1>5. n = 0 => Vacant(D)
  BY DEF Vacant, Count
<1> QED
  BY <1>1, <1>2, <1>3, <1>4, <1>5

LEMMA ElementStored ==
  ASSUME NEW sure, NEW D, NEW o, NEW s, NEW r, NEW p, Proper(sure, D, o, s, r, p),
         D.exists, r = <<>>, ~Crammed(D), NEW d \in Data,
         NEW W, W = Gained(D, d, D.num_entries)
  PROVE  Proper(sure, W, Append(o, d), s, r, p)
<1> DEFINE n == D.num_entries
           S == Data \cup {Null}
<1>1. /\ n \in Nat /\ D \in Fifo(n) /\ Count(D) \in Nat /\ (n > 0 => Count(D) <= n - 1)
      /\ Stored(D) \in Seq(S) /\ n \in Capacities \cup {0}
      /\ s = <<>> /\ p = <<>>
  BY QueueFifo DEF Proper
<1>2. n > 0 /\ Count(D) < n - 1
  BY <1>1 DEF Crammed
<1>3. /\ W \in Fifo(n) /\ W.exists = D.exists /\ Stored(W) = Append(Stored(D), d)
      /\ Count(W) = Count(D) + 1
  <2>1. n \in Nat /\ n > 0 /\ D \in Fifo(n) /\ Count(D) < n - 1 /\ d \in Data
        /\ W = Gained(D, d, n)
    BY <1>1, <1>2
  <2> HIDE DEF n
  <2>2. W \in Fifo(n)
    BY <2>1, FifoGains
  <2>3. W.exists = D.exists
    BY <2>1, FifoGains
  <2>4. Stored(W) = Append(Stored(D), d)
    BY <2>1, FifoGains
  <2>5. Count(W) = Count(D) + 1
    BY <2>1, FifoGains
  <2> QED
    BY <2>2, <2>3, <2>4, <2>5
<1>4. W.num_entries = n
  BY <1>3 DEF Fifo
<1>5. Append(Stored(D) \o p, d) = Append(Stored(D), d) \o p
  <2>1. Stored(D) \o p = Stored(D)
    BY <1>1, ConcatEmptySeq
  <2>2. Append(Stored(D), d) \in Seq(S)
    BY <1>1, AppendProperties
  <2> QED
    BY <2>1, <2>2, <1>1, ConcatEmptySeq
<1>6. ASSUME sure PROVE Append(o, d) \in Seq(Data) /\ Append(o, d) = Stored(W) \o p
  BY <1>3, <1>5, <1>6, AppendProperties DEF Proper
<1> QED
  BY <1>1, <1>3, <1>4, <1>6 DEF Proper

LEMMA SenderComes ==
  ASSUME NEW sure, NEW D, NEW o, NEW s, NEW r, NEW p, Proper(sure, D, o, s, r, p),
         D.exists, r = <<>>, Crammed(D), NEW d \in Data, NEW t \in Task
  PROVE  Proper(sure, D, Append(o, d), Append(s, t), r, Append(p, d))
<1> DEFINE S == Data \cup {Null}
<1>1. Stored(D) \in Seq(S) /\ p \in Seq(S) /\ d \in S /\ p \in Seq(Data) /\ s \in Seq(Task)
      /\ Len(p) = Len(s)
  BY QueueFifo DEF Proper
<1>2. Append(Stored(D) \o p, d) = Stored(D) \o Append(p, d)
  <2>1. /\ Stored(D) \o p \in Seq(S) /\ Append(p, d) = p \o <<d>> /\ <<d>> \in Seq(S)
        /\ Append(Stored(D) \o p, d) = (Stored(D) \o p) \o <<d>>
    BY <1>1, AppendIsConcat, ConcatProperties
  <2> HIDE DEF S
  <2>2. (Stored(D) \o p) \o <<d>> = Stored(D) \o (p \o <<d>>)
    BY <1>1, <2>1, ConcatAssociative
  <2> QED
    BY <2>1, <2>2
<1>3. Append(p, d) \in Seq(Data) /\ Append(s, t) \in Seq(Task) /\ Len(Append(p, d)) = Len(Append(s, t))
  BY <1>1, AppendProperties
<1>4. ASSUME sure PROVE Append(o, d) \in Seq(Data) /\ Append(o, d) = Stored(D) \o Append(p, d)
  BY <1>2, <1>4, AppendProperties DEF Proper
<1> QED
  BY <1>3, <1>4 DEF Proper

LEMMA ReceiverComes ==
  ASSUME NEW sure, NEW D, NEW o, NEW s, NEW r, NEW p, Proper(sure, D, o, s, r, p),
         D.exists, Vacant(D), s = <<>>, NEW t \in Task
  PROVE  Proper(sure, D, o, s, Append(r, t), p)
BY AppendProperties DEF Proper

LEMMA ReceiverGoes ==
  ASSUME NEW sure, NEW D, NEW o, NEW s, NEW r, NEW p, Proper(sure, D, o, s, r, p),
         r # <<>>, NEW x \in Seq(Task)
  PROVE  Proper(sure, D, o, s, x, p)
BY DEF Proper

LEMMA ElementRead ==
  ASSUME NEW sure, NEW D, NEW o, NEW s, NEW r, NEW p, Proper(sure, D, o, s, r, p),
         D.exists, ~Vacant(D), s = <<>>,
         NEW R, R = Lost(D, D.num_entries)
  PROVE  Proper(sure, R, Tail(o), s, r, p)
<1> DEFINE n == D.num_entries
           S == Data \cup {Null}
<1>1. /\ n \in Nat /\ D \in Fifo(n) /\ Count(D) \in Nat /\ Stored(D) \in Seq(S)
      /\ Len(Stored(D)) = Count(D) /\ n \in Capacities \cup {0} /\ (n = 0 => Vacant(D))
      /\ p = <<>> /\ p \in Seq(S) /\ r = <<>>
  <2>1. n \in Capacities \cup {0} /\ p = <<>> /\ r = <<>>
    BY DEF Proper
  <2> QED
    BY <2>1, QueueFifo
<1>2. n > 0 /\ Count(D) > 0 /\ Stored(D) # <<>>
  BY <1>1 DEF Vacant
<1>3. R \in Fifo(n) /\ R.exists = D.exists /\ Stored(R) = Tail(Stored(D))
  BY <1>1, <1>2, FifoLoses
<1>4. R.num_entries = n
  BY <1>3 DEF Fifo
<1> HIDE DEF S
<1>5. Tail(Stored(D) \o p) = Tail(Stored(D)) \o p /\ Stored(D) \o p # <<>>
  BY <1>1, <1>2, CutFirst
<1>6. ASSUME sure PROVE Tail(o) \in Seq(Data) /\ Tail(o) = Stored(R) \o p
  BY <1>3, <1>5, <1>6, HeadTailProperties DEF Proper
<1> QED
  BY <1>1, <1>3, <1>4, <1>6 DEF Proper

LEMMA SenderServed ==
  ASSUME NEW sure, NEW D, NEW o, NEW s, NEW r, NEW p, Proper(sure, D, o, s, r, p),
         D.exists, s # <<>>,
         NEW R, R = Lost(D, D.num_entries),
         NEW W, W = IF Vacant(D) THEN D ELSE Gained(R, p[1], D.num_entries)
  PROVE  Proper(sure, W, Tail(o), Tail(s), r, Tail(p))
<1> DEFINE n == D.num_entries
           S == Data \cup {Null}
<1>1. /\ n \in Nat /\ D \in Fifo(n) /\ Count(D) \in Nat /\ Stored(D) \in Seq(S)
      /\ Len(Stored(D)) = Count(D) /\ n \in Capacities \cup {0} /\ (n = 0 => Vacant(D))
      /\ (Vacant(D) => Stored(D) = <<>>)
      /\ p \in Seq(Data) /\ s \in Seq(Task) /\ Len(p) = Len(s) /\ p \in Seq(S) /\ r = <<>>
      /\ Crammed(D)
  BY QueueFifo DEF Proper
<1>2. /\ p # <<>> /\ p[1] \in Data /\ Tail(p) \in Seq(Data) /\ Tail(s) \in Seq(Task)
      /\ Len(Tail(p)) = Len(Tail(s))
  BY <1>1
<1>3. Tail(p) \in Seq(S)
  BY <1>2, SeqMonotonic
<1>d. sure => o \in Seq(Data) /\ o = Stored(D) \o p
  BY DEF Proper
<1>4. CASE Vacant(D)
  <2>1. Stored(D) \o p = p /\ Stored(D) \o Tail(p) = Tail(p)
    BY <1>1, <1>3, <1>4, ConcatEmptySeq
  <2>2. ASSUME sure PROVE Tail(o) \in Seq(Data) /\ Tail(o) = Stored(D) \o Tail(p)
    BY <1>2, <1>d, <2>1, <2>2
  <2>3. W = D
    BY <1>4
  <2> QED
    BY <1>1, <1>2, <2>2, <2>3 DEF Proper
<1>5. CASE ~Vacant(D)
  <2>1. n > 0 /\ Count(D) > 0 /\ Stored(D) # <<>>
    BY <1>1, <1>5 DEF Vacant
  <2>2. /\ R \in Fifo(n) /\ R.exists = D.exists /\ Stored(R) = Tail(Stored(D))
        /\ Count(R) = Count(D) - 1
    BY <1>1, <2>1, FifoLoses
  <2>3. Count(D) = n - 1
    BY <1>1, <2>1 DEF Crammed
  <2>4. Count(R) < n - 1 /\ Count(R) + 1 = n - 1
    BY <1>1, <2>2, <2>3
  <2>5. W = Gained(R, p[1], n)
    BY <1>5
  <2>6. /\ W \in Fifo(n) /\ W.exists = R.exists /\ Stored(W) = Append(Stored(R), p[1])
        /\ Count(W) = n - 1
    BY <1>1, <1>2, <2>1, <2>2, <2>4, <2>5, FifoGains
  <2>7. W.num_entries = n
    BY <2>6 DEF Fifo
  <2>8. Crammed(W)
    BY <2>6, <2>7 DEF Crammed
  <2>9. Stored(R) \in Seq(S)
    BY <1>1, <2>2, CountFacts
  <2> HIDE DEF S
  <2>10. /\ Tail(Stored(D) \o p) = Tail(Stored(D)) \o p /\ Stored(D) \o p # <<>>
         /\ Append(Stored(R), p[1]) \o Tail(p) = Stored(R) \o p
    BY <1>1, <1>2, <2>1, <2>9, CutFirst, MoveFirst
  <2>11. ASSUME sure PROVE Tail(o) \in Seq(Data) /\ Tail(o) = Stored(W) \o Tail(p)
    BY <1>d, <2>2, <2>6, <2>10, <2>11, HeadTailProperties
  <2> QED
    BY <1>1, <1>2, <2>2, <2>6, <2>7, <2>8, <2>11 DEF Proper
<1> QED
  BY <1>4, <1>5

LEMMA SenderGoes ==
  ASSUME NEW sure, NEW D, NEW o, NEW s, NEW r, NEW p, Proper(sure, D, o, s, r, p), s # <<>>
  PROVE  Proper(sure, D, RemoveAt(o, Count(D) + 1), Tail(s), r, Tail(p))
<1> DEFINE S == Data \cup {Null}
<1>1. /\ Stored(D) \in Seq(S) /\ Len(Stored(D)) = Count(D) /\ Count(D) \in Nat
      /\ p \in Seq(Data) /\ s \in Seq(Task) /\ Len(p) = Len(s) /\ p \in Seq(S) /\ D.exists
  BY QueueFifo DEF Proper
<1>2. /\ p # <<>> /\ Tail(p) \in Seq(Data) /\ Tail(s) \in Seq(Task) /\ Len(Tail(p)) = Len(Tail(s))
  BY <1>1
<1>3. RemoveAt(Stored(D) \o p, Count(D) + 1) = Stored(D) \o Tail(p)
  <2> HIDE DEF S
  <2> QED
    BY <1>1, <1>2, CutMiddle
<1>4. ASSUME sure PROVE RemoveAt(o, Count(D) + 1) \in Seq(Data)
  <2>1. o \in Seq(Data) /\ o = Stored(D) \o p
    BY <1>1, <1>4 DEF Proper
  <2>2. Len(o) = Count(D) + Len(p) /\ Len(p) \in Nat /\ Len(p) >= 1
    <3>1. Len(Stored(D) \o p) = Len(Stored(D)) + Len(p)
      BY <1>1, ConcatProperties
    <3>2. Len(p) \in Nat /\ Len(p) >= 1
      BY <1>1, <1>2
    <3> QED
      BY <3>1, <3>2, <2>1, <1>1
  <2>3. SubSeq(o, 1, (Count(D) + 1) - 1) \in Seq(Data)
    BY <1>1, <2>1, <2>2
  <2>4. SubSeq(o, (Count(D) + 1) + 1, Len(o)) \in Seq(Data)
    BY <1>1, <2>1, <2>2
  <2> QED
    BY <2>3, <2>4, ConcatProperties DEF RemoveAt
<1> QED
  BY <1>1, <1>2, <1>3, <1>4 DEF Proper

LEMMA QueueGone ==
  ASSUME NEW sure, NEW D, NEW o, NEW s, NEW r, NEW p, Proper(sure, D, o, s, r, p),
         s = <<>>, r = <<>>, NEW W, W = [D EXCEPT !.exists = FALSE]
  PROVE  Proper(sure, W, o, s, r, p)
<1> DEFINE n == D.num_entries
<1>1. D \in Fifo(n) /\ n \in Capacities \cup {0}
  BY DEF Proper
<1>2. W \in Fifo(n) /\ W.exists = FALSE /\ W.num_entries = n
  BY <1>1 DEF Fifo
<1> QED
  BY <1>1, <1>2 DEF Proper

LEMMA QueueBegins ==
  ASSUME NEW sure, NEW n \in Capacities \cup {0}, NEW x \in BOOLEAN,
         NEW W, W = [NewQueue(n) EXCEPT !.exists = x]
  PROVE  Proper(sure, W, <<>>, <<>>, <<>>, <<>>)
<1>1. n \in Nat
  BY QueueAssumption
<1>2. W \in Fifo(n) /\ W.exists = x /\ W.num_entries = n /\ W.tail_cnt = 0 /\ W.header_cnt = 0
  BY <1>1 DEF Fifo, NewQueue, Index
<1>3. Count(W) = 0
  BY <1>1, <1>2 DEF Count
<1>4. Stored(W) = <<>>
  BY <1>1, <1>2, <1>3, CountFacts
<1> QED
  BY <1>2, <1>4 DEF Proper

LEMMA QueueNew ==
  ASSUME NEW sure, NEW D, NEW o, NEW s, NEW r, NEW p, Proper(sure, D, o, s, r, p),
         s = <<>>, r = <<>>, NEW n \in Capacities \cup {0}, NEW x \in BOOLEAN,
         NEW W, W = [NewQueue(n) EXCEPT !.exists = x]
  PROVE  Proper(sure, W, <<>>, s, r, p)
<1>1. p = <<>>
  BY DEF Proper
<1>2. Proper(sure, W, <<>>, <<>>, <<>>, <<>>)
  BY QueueBegins
<1> QED
  BY <1>1, <1>2

-----------------------------------------------------------------------------
(* Data queues.                                                            *)

Sending == Queues(k)["send"]
Receiving == Queues(k)["receive"]
Pending == [i \in 1 .. Len(Sending) |-> k.elem[Sending[i]]]
Told == ~({"queue_send", "terminate"} \subseteq services)

\* The end of a delete, when it has no receivers to look for: the senders are gone.
LastPlaces == DeletePlaces \X {"receive"}
Concluding ==
  "queue_receive" \notin services =>
    \A t \in Task : pc[t] \in LastPlaces =>
      t = k.curr /\ Sending = <<>> /\ pc[t][1] # "delSwitch"
QueueInv ==
  /\ Proper(Told, dque, order, Sending, Receiving, Pending)
  /\ "queue_send" \notin services => Sending = <<>>
  /\ "queue_receive" \notin services => Receiving = <<>>
  /\ Concluding

LEMMA QueueWaitQ ==
  /\ "send" \in WaitQ /\ "receive" \in WaitQ /\ "send" # Null /\ "receive" # Null
  /\ Data \subseteq Elem /\ Capacities \subseteq Nat
BY QueueAssumption, CoreAssumption

\* What the code tests and does, in the terms of the number of elements.
LEMMA QueueTests ==
  ASSUME QueueInv
  PROVE  /\ (FifoEmpty <=> Vacant(dque)) /\ (Full <=> Crammed(dque))
         /\ NumEntries \in Nat /\ dque \in Fifo(NumEntries)
         /\ Contents = Stored(dque) /\ Len(Contents) = Count(dque)
         /\ \A d : FifoWrite(dque, d) = Gained(dque, d, NumEntries)
         /\ FifoRead = Lost(dque, NumEntries)
         /\ \A d : FifoWrite(FifoRead, d) = Gained(FifoRead, d, NumEntries)
<1> DEFINE n == NumEntries
<1>1. /\ n \in Nat /\ dque \in Fifo(n) /\ Count(dque) \in Nat /\ (n > 0 => Count(dque) <= n - 1)
      /\ Stored(dque) \in Seq(Data \cup {Null}) /\ Len(Stored(dque)) = Count(dque)
  BY QueueFifo DEF QueueInv, NumEntries
<1>2. /\ n > 0 => (Count(dque) = 0 <=> dque.tail_cnt = dque.header_cnt)
      /\ n > 0 => (Count(dque) = n - 1 <=> \/ dque.tail_cnt = 0 /\ dque.header_cnt = n - 1
                                           \/ dque.header_cnt = dque.tail_cnt - 1)
  BY <1>1, CountFacts
<1>3. n = dque.num_entries
  BY DEF NumEntries
<1>4. FifoEmpty <=> Vacant(dque)
  <2>1. CASE n = 0
    BY <2>1, <1>3 DEF FifoEmpty, Vacant, Count
  <2>2. CASE n > 0
    BY <2>2, <1>1, <1>2 DEF FifoEmpty, Vacant
  <2> QED
    BY <2>1, <2>2, <1>1
<1>5. Full <=> Crammed(dque)
  <2>1. CASE n = 0
    BY <2>1, <1>3 DEF Full, Crammed
  <2>2. CASE n > 0
    BY <2>2, <1>1, <1>2, <1>3 DEF Full, Crammed
  <2> QED
    BY <2>1, <2>2, <1>1
<1>6. Contents = Stored(dque)
  <2> DEFINE h == dque.header_cnt
             t == dque.tail_cnt
             m == IF n = 0 THEN 0 ELSE (h + n - t) % n
  <2>1. n > 0 => h \in 0 .. n - 1 /\ t \in 0 .. n - 1
    BY <1>1 DEF Fifo, Index
  <2>2. m = Count(dque)
    <3>1. CASE n = 0
      BY <3>1, <1>3 DEF Count
    <3>2. CASE n > 0
      <4>1. h + n - t \in Nat /\ h + n - t < n + n
        BY <3>2, <1>1, <2>1
      <4>2. (h + n - t) % n = IF h + n - t < n THEN h + n - t ELSE (h + n - t) - n
        <5> DEFINE a == h + n - t
        <5>1. a \in Nat /\ a < n + n /\ n \in Nat /\ n > 0
          BY <4>1, <3>2, <1>1
        <5> HIDE DEF a, n
        <5>2. a % n = IF a < n THEN a ELSE a - n
          BY <5>1, Wrap
        <5> QED
          BY <5>2, Zenon DEF a
      <4>3. Count(dque) = IF h >= t THEN h - t ELSE h + n - t
        BY <3>2, <1>3 DEF Count
      <4> HIDE DEF h, t, n
      <4> QED
        BY <4>2, <4>3, <3>2, <1>1, <2>1
    <3> QED
      BY <3>1, <3>2, <1>1
  <2>3. \A i \in 1 .. Count(dque) : (t + i - 1) % n = Cell(dque, i)
    <3> SUFFICES ASSUME NEW i \in 1 .. Count(dque) PROVE (t + i - 1) % n = Cell(dque, i)
      OBVIOUS
    <3>1. n > 0
      BY <1>1, <1>3 DEF Count
    <3>2. t + i - 1 \in Nat /\ t + i - 1 < n + n
      BY <3>1, <1>1, <2>1
    <3>3. (t + i - 1) % n = IF t + i - 1 < n THEN t + i - 1 ELSE (t + i - 1) - n
      <4> DEFINE a == t + i - 1
      <4>1. a \in Nat /\ a < n + n /\ n \in Nat /\ n > 0
        BY <3>1, <3>2, <1>1
      <4> HIDE DEF a, n
      <4>2. a % n = IF a < n THEN a ELSE a - n
        BY <4>1, Wrap
      <4> QED
        BY <4>2, Zenon DEF a
    <3>4. t \in Int /\ i \in Int /\ n \in Int
      BY <3>1, <1>1, <2>1
    <3>5. Cell(dque, i) = IF t + i - 1 < n THEN t + i - 1 ELSE t + i - 1 - n
      BY <1>3 DEF Cell
    <3> HIDE DEF t, n
    <3> QED
      BY <3>3, <3>4, <3>5
  <2>4. Contents = [i \in 1 .. m |-> dque.data_fifo[(t + i - 1) % n]]
    BY DEF Contents
  <2>5. [i \in 1 .. Count(dque) |-> dque.data_fifo[(t + i - 1) % n]]
          = [i \in 1 .. Count(dque) |-> dque.data_fifo[Cell(dque, i)]]
    BY <2>3
  <2> HIDE DEF m
  <2> QED
    BY <2>2, <2>4, <2>5 DEF Stored
<1>7. /\ \A d : FifoWrite(dque, d) = Gained(dque, d, n)
      /\ FifoRead = Lost(dque, n)
      /\ \A d : FifoWrite(FifoRead, d) = Gained(FifoRead, d, n)
  BY DEF FifoWrite, FifoRead, Gained, Lost, NextCnt, Following
<1> QED
  BY <1>1, <1>4, <1>5, <1>6, <1>7

\* The senders and receivers are tasks, and wait there.
LEMMA QueueTasks ==
  ASSUME Steady, NEW q \in {"send", "receive"}
  PROVE  /\ Queues(k)[q] \in Seq(Task)
         /\ \A i \in 1 .. Len(Queues(k)[q]) :
              LET t == Queues(k)[q][i]
              IN  /\ t \in Task /\ k.pwait[t] = q /\ Inside(pc[t], q)
                  /\ \A j \in 1 .. Len(Queues(k)[q]) : Queues(k)[q][j] = t => i = j
<1>1. q \in WaitQ /\ q # Null /\ Sound(k)
  BY QueueWaitQ DEF Steady, KInv
<1>2. Listed(k.link, k.prio, Runnables(k), Timers(k), Queues(k))
  BY <1>1, SoundFacts DEF Sched
<1>3. WaitLists(k.link, Queues(k)) /\ k.link \in Memory(Node)
  BY <1>2 DEF Listed
<1>4. Queues(k)[q] \in Seq(Task)
  BY <1>1, <1>3 DEF WaitLists
<1>5. ASSUME NEW i \in 1 .. Len(Queues(k)[q])
      PROVE  /\ Queues(k)[q][i] \in Task /\ k.pwait[Queues(k)[q][i]] = q
             /\ Inside(pc[Queues(k)[q][i]], q)
  <2>1. QueueFacts(k, q, i)
    BY <1>1, InQueue
  <2>2. Queues(k)[q][i] \in Task /\ k.pwait[Queues(k)[q][i]] = q
    BY <2>1 DEF QueueFacts, User
  <2> QED
    BY <1>1, <2>2, WaitingFacts
<1>6. \A i, j \in 1 .. Len(Queues(k)[q]) : Queues(k)[q][i] = Queues(k)[q][j] => i = j
  BY <1>1, <1>3, WaitFacts
<1> QED
  BY <1>4, <1>5, <1>6

\* Nobody else concludes a delete.
LEMMA ConcludingKept ==
  ASSUME QueueInv, services' = services,
         \A t \in Task : pc'[t] = pc[t] \/ pc'[t] \notin LastPlaces,
         \/ pc[k.curr] \notin LastPlaces
         \/ k'.curr = k.curr /\ Sending' = Sending
  PROVE  Concluding'
<1> SUFFICES ASSUME "queue_receive" \notin services, NEW t \in Task, pc'[t] \in LastPlaces
             PROVE  t = k'.curr /\ Sending' = <<>> /\ pc'[t][1] # "delSwitch"
  BY DEF Concluding
<1>1. pc'[t] = pc[t] /\ t = k.curr /\ Sending = <<>> /\ pc[t][1] # "delSwitch"
  BY DEF QueueInv, Concluding
<1> QED
  BY <1>1

\* A wait list is not touched, nor what its tasks wait with.
LEMMA PendingKept ==
  ASSUME Steady, Sending' = Sending, \A i \in 1 .. Len(Sending) : k'.elem[Sending[i]] = k.elem[Sending[i]]
  PROVE  Pending' = Pending
<1>1. Pending' = [i \in 1 .. Len(Sending) |-> k'.elem[Sending[i]]]
  BY DEF Pending
<1>2. [i \in 1 .. Len(Sending) |-> k'.elem[Sending[i]]] = [i \in 1 .. Len(Sending) |-> k.elem[Sending[i]]]
  OBVIOUS
<1> QED
  BY <1>1, <1>2 DEF Pending

-----------------------------------------------------------------------------
(* What the wait lists of a data queue become.                             *)

LEMMA PendingLess ==
  ASSUME Steady, QueueInv, Sending # <<>>, Sending' = Without(Sending, 1),
         \A u \in Task : u # Sending[1] => k'.elem[u] = k.elem[u]
  PROVE  Sending' = Tail(Sending) /\ Pending' = Tail(Pending) /\ Pending[1] = k.elem[Sending[1]]
<1> DEFINE n == Len(Sending)
<1>1. /\ Sending \in Seq(Task) /\ n \in Nat /\ n >= 1 /\ Len(Pending) = n /\ Pending \in Seq(Data)
      /\ Tail(Pending) \in Seq(Data) /\ Len(Tail(Pending)) = n - 1
      /\ Tail(Sending) \in Seq(Task) /\ Len(Tail(Sending)) = n - 1
  BY DEF QueueInv, Proper
<1>2. Sending' = Tail(Sending)
  BY <1>1, WithoutFirstIs
<1>3. \A i \in 1 .. n - 1 : Sending'[i] = Sending[i + 1] /\ i + 1 \in 1 .. n /\ i + 1 # 1
  BY <1>1, <1>2
<1>t. \A i \in 1 .. n : /\ Sending[i] \in Task
                        /\ \A j \in 1 .. n : Sending[j] = Sending[i] => i = j
  BY QueueTasks DEF Sending
<1>4. \A i \in 1 .. n - 1 : k'.elem[Sending'[i]] = k.elem[Sending[i + 1]]
  <2> SUFFICES ASSUME NEW i \in 1 .. n - 1 PROVE k'.elem[Sending'[i]] = k.elem[Sending[i + 1]]
    OBVIOUS
  <2>1. Sending[i + 1] \in Task /\ Sending[i + 1] # Sending[1] /\ 1 \in 1 .. n
    BY <1>1, <1>3, <1>t
  <2> QED
    BY <1>3, <2>1
<1>5. Pending = [i \in 1 .. n |-> k.elem[Sending[i]]]
  BY DEF Pending
<1>6. Pending' = [i \in 1 .. n - 1 |-> k'.elem[Sending'[i]]]
  BY <1>1, <1>2 DEF Pending
<1>7. [i \in 1 .. n - 1 |-> k'.elem[Sending'[i]]] = [i \in 1 .. n - 1 |-> k.elem[Sending[i + 1]]]
  BY <1>4
<1>8. \A i \in 1 .. n - 1 : Tail(Pending)[i] = Pending[i + 1] /\ Pending[i + 1] = k.elem[Sending[i + 1]]
  BY <1>1, <1>3, <1>5
<1>9. Tail(Pending) = [i \in 1 .. n - 1 |-> Tail(Pending)[i]]
  <2>1. Tail(Pending) \in [1 .. Len(Tail(Pending)) -> Data]
    BY <1>1, LenProperties
  <2> QED
    BY <1>1, <2>1
<1>10. [i \in 1 .. n - 1 |-> Tail(Pending)[i]] = [i \in 1 .. n - 1 |-> k.elem[Sending[i + 1]]]
  BY <1>8
<1>11. Pending[1] = k.elem[Sending[1]]
  BY <1>1, <1>5
<1> QED
  BY <1>2, <1>6, <1>7, <1>9, <1>10, <1>11

LEMMA PendingMore ==
  ASSUME Steady, QueueInv, NEW t \in Task, k.pwait[t] = Null, Sending' = Append(Sending, t),
         \A u \in Task : u # t => k'.elem[u] = k.elem[u], k'.elem[t] \in Data
  PROVE  Pending' = Append(Pending, k'.elem[t])
<1> DEFINE n == Len(Sending)
           d == k'.elem[t]
<1>1. /\ Sending \in Seq(Task) /\ n \in Nat /\ Len(Pending) = n /\ Pending \in Seq(Data)
  BY DEF QueueInv, Proper
<1>d. d \in Data /\ d = k'.elem[t]
  OBVIOUS
<1>2. \A i \in 1 .. n : Sending[i] \in Task /\ Sending[i] # t
  BY QueueTasks, QueueWaitQ DEF Sending
<1> HIDE DEF d
<1>3. /\ Len(Sending') = n + 1 /\ Sending'[n + 1] = t
      /\ \A i \in 1 .. n : Sending'[i] = Sending[i]
  BY <1>1, AppendProperties
<1>4. /\ Append(Pending, d) \in Seq(Data) /\ Len(Append(Pending, d)) = n + 1
      /\ Append(Pending, d)[n + 1] = d
      /\ \A i \in 1 .. n : Append(Pending, d)[i] = Pending[i]
  BY <1>1, <1>d, AppendProperties
<1>5. Pending' = [i \in 1 .. n + 1 |-> k'.elem[Sending'[i]]]
  BY <1>3 DEF Pending
<1>6. \A i \in 1 .. n + 1 : k'.elem[Sending'[i]] = Append(Pending, d)[i]
  <2> SUFFICES ASSUME NEW i \in 1 .. n + 1 PROVE k'.elem[Sending'[i]] = Append(Pending, d)[i]
    OBVIOUS
  <2>1. CASE i = n + 1
    BY <2>1, <1>3, <1>4, <1>d
  <2>2. CASE i \in 1 .. n
    <3>1. Pending[i] = k.elem[Sending[i]]
      BY <2>2 DEF Pending
    <3> QED
      BY <2>2, <3>1, <1>2, <1>3, <1>4
  <2> QED
    BY <2>1, <2>2, <1>1
<1>7. Append(Pending, d) = [i \in 1 .. n + 1 |-> Append(Pending, d)[i]]
  <2>1. Append(Pending, d) \in [1 .. Len(Append(Pending, d)) -> Data]
    BY <1>4, LenProperties
  <2> QED
    BY <1>4, <2>1
<1>8. [i \in 1 .. n + 1 |-> k'.elem[Sending'[i]]] = [i \in 1 .. n + 1 |-> Append(Pending, d)[i]]
  BY <1>6
<1> QED
  BY <1>5, <1>7, <1>8 DEF d

\* What every step of the queue's services comes to.
QueueOwn == Steady' /\ Beside({"send", "receive"}) /\ QueueInv'
LEMMA QueueBeside ==
  ASSUME NEW q \in {"send", "receive"}, Beside({q})
  PROVE  Beside({"send", "receive"})
BY DEF Beside
LEMMA QueueKeeps ==
  ASSUME services' = services, Concluding',
         Proper(Told, dque', order', Sending', Receiving', Pending'),
         "queue_send" \notin services => Sending' = <<>>,
         "queue_receive" \notin services => Receiving' = <<>>
  PROVE  QueueInv'
<1>1. Told' = Told
  BY DEF Told
<1> QED
  BY <1>1 DEF QueueInv

LEMMA QueueStill ==
  ASSUME Steady, QueueInv, UNCHANGED <<k, pc, ticks, services>>,
         Proper(Told, dque', order', Sending, Receiving, Pending)
  PROVE  QueueOwn
<1>1. Minor("send")
  BY StillMinor
<1>2. Sending' = Sending /\ Receiving' = Receiving /\ Pending' = Pending /\ Concluding'
  BY DEF Sending, Receiving, Pending, QueueInv, Concluding
<1>3. QueueInv'
  BY <1>2, QueueKeeps DEF QueueInv
<1> QED
  BY <1>1, <1>3, QueueWaitQ, MinorBeside, QueueBeside DEF QueueOwn

LEMMA QueueMinor ==
  ASSUME Steady, QueueInv, NEW q \in {"send", "receive"}, Minor(q), services' = services,
         Concluding', Proper(Told, dque', order', Sending, Receiving, Pending)
  PROVE  QueueOwn
<1>1. Sending' = Sending /\ Receiving' = Receiving
  BY DEF Minor, Sending, Receiving
<1>2. \A i \in 1 .. Len(Sending) : k'.elem[Sending[i]] = k.elem[Sending[i]]
  BY QueueTasks DEF Minor, View, Sending
<1>3. Pending' = Pending
  BY <1>1, <1>2, PendingKept
<1>4. QueueInv'
  BY <1>1, <1>3, QueueKeeps DEF QueueInv
<1> QED
  BY <1>4, QueueWaitQ, MinorBeside, QueueBeside DEF QueueOwn

LEMMA SenderFallen ==
  ASSUME Steady, QueueInv, NEW V, Fallen("send", V), services' = services,
         V.elem[k.curr] \in Data, dque' = dque, order' = Append(order, V.elem[k.curr]),
         dque.exists, Receiving = <<>>, Crammed(dque), "queue_send" \in services
  PROVE  QueueOwn
<1> DEFINE t == k.curr
           d == V.elem[t]
<1>1. /\ t \in Task /\ k.pwait[t] = Null /\ k'.elem[t] = d /\ d \in Data
      /\ \A u \in Task : u # t => k'.elem[u] = k.elem[u]
      /\ Sending' = Append(Sending, t) /\ Receiving' = Receiving
      /\ order' = Append(order, d)
  <2>1. DOMAIN Queues(k) = WaitQ
    BY DEF Queues
  <2> QED
    BY <2>1, QueueWaitQ DEF Fallen, View, Sending, Receiving
<1> HIDE DEF d
<1>2. Pending' = Append(Pending, d)
  <2>1. k'.elem[t] \in Data
    BY <1>1
  <2> HIDE DEF t
  <2> QED
    BY <1>1, <2>1, PendingMore
<1>3. Proper(Told, dque', order', Sending', Receiving', Pending')
  <2>1. Proper(Told, dque, Append(order, d), Append(Sending, t), Receiving, Append(Pending, d))
    BY <1>1, SenderComes DEF QueueInv
  <2> QED
    BY <1>1, <1>2, <2>1
<1>4. Concluding'
  <2>1. pc[t] \notin LastPlaces /\ \A u \in Task : pc'[u] = pc[u] \/ pc'[u] \notin LastPlaces
    BY DEF Fallen, LastPlaces, DeletePlaces
  <2> QED
    BY <2>1, ConcludingKept
<1>5. "queue_receive" \notin services => Receiving' = <<>>
  BY <1>1
<1>6. QueueInv'
  BY <1>3, <1>4, <1>5, QueueKeeps
<1> QED
  BY <1>6, QueueWaitQ, FallenBeside, QueueBeside DEF QueueOwn, Fallen

LEMMA ReceiverFallen ==
  ASSUME Steady, QueueInv, Fallen("receive", k), services' = services, UNCHANGED qvars,
         dque.exists, Sending = <<>>, Vacant(dque), "queue_receive" \in services
  PROVE  QueueOwn
<1> DEFINE t == k.curr
<1>1. /\ t \in Task /\ Sending' = <<>> /\ Receiving' = Append(Receiving, t)
  <2>1. DOMAIN Queues(k) = WaitQ
    BY DEF Queues
  <2> QED
    BY <2>1, QueueWaitQ DEF Fallen, Sending, Receiving
<1>2. Pending' = Pending
  BY <1>1, PendingKept
<1>3. Proper(Told, dque', order', Sending', Receiving', Pending')
  <2>1. Proper(Told, dque, order, Sending, Append(Receiving, t), Pending)
    BY <1>1, ReceiverComes DEF QueueInv
  <2> QED
    BY <1>1, <1>2, <2>1 DEF qvars
<1>4. Concluding'
  <2>1. pc[t] \notin LastPlaces /\ \A u \in Task : pc'[u] = pc[u] \/ pc'[u] \notin LastPlaces
    BY DEF Fallen, LastPlaces, DeletePlaces
  <2> QED
    BY <2>1, ConcludingKept
<1>6. QueueInv'
  BY <1>1, <1>3, <1>4, QueueKeeps
<1> QED
  BY <1>6, QueueWaitQ, FallenBeside, QueueBeside DEF QueueOwn, Fallen

LEMMA ReceiverHanded ==
  ASSUME Steady, QueueInv, NEW V, Handed("receive", V), services' = services, UNCHANGED qvars,
         dque.exists, pc[k.curr] \notin LastPlaces
  PROVE  QueueOwn
<1> DEFINE x == Without(Receiving, 1)
<1>1. Sending' = Sending /\ Receiving' = x /\ Receiving # <<>>
  <2>1. DOMAIN Queues(k) = WaitQ
    BY DEF Queues
  <2> QED
    BY <2>1, QueueWaitQ DEF Handed, Sending, Receiving
<1>2. Sending = <<>> /\ Receiving \in Seq(Task)
  BY <1>1 DEF QueueInv, Proper
<1>3. x \in Seq(Task)
  <2>1. x = Tail(Receiving)
    BY <1>1, <1>2, WithoutFirstIs
  <2> QED
    BY <1>1, <1>2, <2>1
<1> HIDE DEF x
<1>4. Pending' = Pending
  BY <1>1, <1>2, PendingKept
<1>5. Proper(Told, dque', order', Sending', Receiving', Pending')
  <2>1. Proper(Told, dque, order, Sending, x, Pending)
    BY <1>1, <1>3, ReceiverGoes DEF QueueInv
  <2> QED
    BY <1>1, <1>4, <2>1 DEF qvars
<1>6. Concluding'
  <2>1. \A u \in Task : pc'[u] = pc[u] \/ pc'[u] \notin LastPlaces
    BY QueueWaitQ DEF Handed, LastPlaces
  <2> QED
    BY <2>1, ConcludingKept
<1>7. QueueInv'
  BY <1>1, <1>2, <1>5, <1>6, QueueKeeps DEF QueueInv
<1> QED
  BY <1>7, QueueWaitQ, HandedBeside, QueueBeside DEF QueueOwn, Handed

LEMMA SenderHanded ==
  ASSUME Steady, QueueInv, NEW V, Handed("send", V), services' = services,
         dque.exists, pc[k.curr] \notin LastPlaces,
         order' = Tail(order),
         dque' = IF Vacant(dque) THEN dque
                 ELSE Gained(Lost(dque, NumEntries), k.elem[Sending[1]], NumEntries)
  PROVE  QueueOwn
<1>1. /\ Sending' = Without(Sending, 1) /\ Receiving' = Receiving /\ Sending # <<>>
      /\ \A u \in Task : u # Sending[1] => k'.elem[u] = k.elem[u]
  <2>1. DOMAIN Queues(k) = WaitQ
    BY DEF Queues
  <2> QED
    BY <2>1, QueueWaitQ DEF Handed, Sending, Receiving, View
<1>2. Sending' = Tail(Sending) /\ Pending' = Tail(Pending) /\ Pending[1] = k.elem[Sending[1]]
  BY <1>1, PendingLess
<1>3. Proper(Told, dque', order', Sending', Receiving', Pending')
  <2> DEFINE D == dque'
             R == Lost(dque, NumEntries)
  <2>1. D = IF Vacant(dque) THEN dque ELSE Gained(R, Pending[1], dque.num_entries)
    BY <1>2 DEF NumEntries
  <2>2. R = Lost(dque, dque.num_entries)
    BY DEF NumEntries
  <2> HIDE DEF D, R
  <2>3. Proper(Told, D, Tail(order), Tail(Sending), Receiving, Tail(Pending))
    BY <1>1, <2>1, <2>2, SenderServed DEF QueueInv
  <2> QED
    BY <1>1, <1>2, <2>3 DEF D
<1>4. Concluding'
  <2>1. \A u \in Task : pc'[u] = pc[u] \/ pc'[u] \notin LastPlaces
    BY QueueWaitQ DEF Handed, LastPlaces
  <2> QED
    BY <2>1, ConcludingKept
<1>5. /\ "queue_send" \in services
      /\ "queue_receive" \notin services => Receiving' = <<>>
  BY <1>1 DEF QueueInv
<1>6. QueueInv'
  BY <1>3, <1>4, <1>5, QueueKeeps
<1> QED
  BY <1>6, QueueWaitQ, HandedBeside, QueueBeside DEF QueueOwn, Handed

-----------------------------------------------------------------------------
(* The services of a data queue.                                           *)

\* The places of a task that is in the delete loop for the senders.
LEMMA NotLast ==
  ASSUME Steady, k.curr \in Task, NEW q, q # "receive", pc[k.curr][2] = q
  PROVE  pc[k.curr] \notin LastPlaces
BY DEF LastPlaces

LEMMA SendTurned ==
  ASSUME Steady, QueueInv, Turned("send"), services' = services, dque' = dque,
         order' = IF k' = k THEN order ELSE RemoveAt(order, Len(Contents) + 1)
  PROVE  QueueOwn
<1>0. /\ k.curr \in Task /\ pc[k.curr] \notin LastPlaces
      /\ \A u \in Task : pc'[u] = pc[u] \/ pc'[u] \notin LastPlaces
      /\ Steady' /\ Beside({"send", "receive"})
  BY QueueWaitQ, TurnedBeside, QueueBeside DEF Turned, LastPlaces
<1>1. Concluding'
  BY <1>0, ConcludingKept
<1>2. CASE k' = k
  <2>1. Sending' = Sending /\ Receiving' = Receiving /\ Pending' = Pending
    BY <1>2 DEF Sending, Receiving, Pending
  <2>2. QueueInv'
    BY <1>1, <1>2, <2>1, QueueKeeps DEF QueueInv
  <2> QED
    BY <1>0, <2>2 DEF QueueOwn
<1>3. CASE Dropped("send")
  <2>1. /\ Sending' = Without(Sending, 1) /\ Receiving' = Receiving /\ Sending # <<>>
        /\ \A u \in Task : u # Sending[1] => k'.elem[u] = k.elem[u]
    <3>1. DOMAIN Queues(k) = WaitQ
      BY DEF Queues
    <3> QED
      BY <1>3, <3>1, QueueWaitQ DEF Dropped, Sending, Receiving, View
  <2>2. k' # k
    BY <1>3, QueueWaitQ DEF Dropped
  <2>3. Sending' = Tail(Sending) /\ Pending' = Tail(Pending)
    BY <2>1, PendingLess
  <2>4. Proper(Told, dque, RemoveAt(order, Count(dque) + 1), Tail(Sending), Receiving, Tail(Pending))
    BY <2>1, SenderGoes DEF QueueInv
  <2>5. Len(Contents) = Count(dque)
    BY QueueTests
  <2>6. Proper(Told, dque', order', Sending', Receiving', Pending')
    BY <2>1, <2>2, <2>3, <2>4, <2>5
  <2>7. "queue_send" \in services /\ ("queue_receive" \notin services => Receiving' = <<>>)
    BY <2>1 DEF QueueInv
  <2>8. QueueInv'
    BY <1>1, <2>6, <2>7, QueueKeeps
  <2> QED
    BY <1>0, <2>8 DEF QueueOwn
<1> QED
  BY <1>2, <1>3 DEF Turned

LEMMA ReceiveTurned ==
  ASSUME Steady, QueueInv, Turned("receive"), services' = services, UNCHANGED qvars,
         pc[k.curr] \in LastPlaces,
         Receiving = <<>> => k' = k /\ pc'[k.curr][1] # "delSwitch"
  PROVE  QueueOwn
<1>0. /\ k.curr \in Task /\ Steady' /\ Beside({"send", "receive"})
      /\ \A u \in Task : u # k.curr => pc'[u] = pc[u]
  BY QueueWaitQ, TurnedBeside, QueueBeside DEF Turned
<1>1. /\ Sending' = Sending
      /\ \A i \in 1 .. Len(Sending) : k'.elem[Sending[i]] = k.elem[Sending[i]]
      /\ Receiving' = Receiving \/ (Receiving # <<>> /\ Receiving' = Without(Receiving, 1))
  <2>1. CASE k' = k
    BY <2>1 DEF Sending, Receiving
  <2>2. CASE Dropped("receive")
    <3>1. DOMAIN Queues(k) = WaitQ
      BY DEF Queues
    <3>2. \A i \in 1 .. Len(Sending) : Sending[i] \in Task /\ k.pwait[Sending[i]] = "send"
      BY QueueTasks DEF Sending
    <3> QED
      BY <2>2, <3>1, <3>2, QueueWaitQ DEF Dropped, Sending, Receiving, View
  <2> QED
    BY <2>1, <2>2 DEF Turned
<1>2. Pending' = Pending
  BY <1>1, PendingKept
<1>3. Receiving \in Seq(Task) /\ Receiving' \in Seq(Task)
  <2>1. Receiving \in Seq(Task)
    BY DEF QueueInv, Proper
  <2>2. CASE Receiving' = Receiving
    BY <2>1, <2>2
  <2>3. CASE Receiving # <<>> /\ Receiving' = Without(Receiving, 1)
    BY <2>1, <2>3, WithoutFirstIs
  <2> QED
    BY <1>1, <2>1, <2>2, <2>3
<1>4. Proper(Told, dque', order', Sending', Receiving', Pending')
  <2>1. CASE Receiving' = Receiving
    BY <1>1, <1>2, <2>1 DEF QueueInv, qvars
  <2>2. CASE Receiving # <<>>
    <3> DEFINE x == Receiving'
    <3>1. x \in Seq(Task)
      BY <1>3
    <3> HIDE DEF x
    <3>2. Proper(Told, dque, order, Sending, x, Pending)
      BY <2>2, <3>1, ReceiverGoes DEF QueueInv
    <3> QED
      BY <1>1, <1>2, <3>2 DEF x, qvars
  <2> QED
    BY <1>1, <2>1, <2>2
<1>5. ASSUME "queue_receive" \notin services PROVE Receiving = <<>> /\ Receiving' = <<>>
  BY <1>1, <1>5 DEF QueueInv
<1>6. Concluding'
  <2> SUFFICES ASSUME "queue_receive" \notin services, NEW t \in Task, pc'[t] \in LastPlaces
               PROVE  t = k'.curr /\ Sending' = <<>> /\ pc'[t][1] # "delSwitch"
    BY DEF Concluding
  <2>1. Sending = <<>> /\ Receiving = <<>>
    BY <1>0, <1>5 DEF QueueInv, Concluding
  <2>2. t = k.curr
    BY <1>0 DEF QueueInv, Concluding
  <2> QED
    BY <1>1, <2>1, <2>2
<1>7. "queue_send" \notin services => Sending' = <<>>
  BY <1>1 DEF QueueInv
<1>8. QueueInv'
  BY <1>4, <1>5, <1>6, <1>7, QueueKeeps
<1> QED
  BY <1>0, <1>8 DEF QueueOwn

\* While a delete concludes, no interrupt makes a task run.
LEMMA IrqNotLast ==
  ASSUME Steady, services \cap Preempting # {}, k.curr \in Task
  PROVE  pc[k.curr] \notin LastPlaces
<1> SUFFICES ASSUME pc[k.curr] \in LastPlaces PROVE FALSE
  OBVIOUS
<1>1. pc[k.curr][1] \in DeletePlaces /\ pc[k.curr][2] = "receive"
  BY DEF LastPlaces
<1>2. "queue_delete" \in services
  BY <1>1 DEF Steady, Closing, Deleter
<1> QED
  BY <1>2 DEF Steady, Closing, Careful, Deleting
LEMMA CallNotLast ==
  ASSUME Steady, NEW s, Calls(s)
  PROVE  pc[k.curr] \notin LastPlaces /\ k.curr \in Task /\ Runs(pc[k.curr][1])
<1>1. pc[k.curr][1] = "user"
  BY DEF Calls, Place
<1>2. Runs(pc[k.curr][1])
  BY <1>1 DEF Runs
<1> QED
  BY <1>1, <1>2, RunningFacts DEF LastPlaces, DeletePlaces

-----------------------------------------------------------------------------
LEMMA QueueFirst ==
  ASSUME Steady, NEW q \in {"send", "receive"}
  PROVE  AtFirst(k, q) /\ q \in WaitQ /\ Sound(k)
         /\ (NoWaiters("send") <=> Sending = <<>>) /\ (NoWaiters("receive") <=> Receiving = <<>>)
<1>1. AtFirst(k, q) /\ AtFirst(k, "send") /\ AtFirst(k, "receive")
  BY QueueWaitQ, FirstIs DEF Steady, KInv
<1> QED
  BY <1>1, QueueWaitQ DEF AtFirst, NoWaiters, Sending, Receiving, Steady, KInv

LEMMA QueueStores ==
  ASSUME Steady, QueueInv, NEW d \in Data, dque.exists, Store(d), UNCHANGED <<ticks, services>>
  PROVE  QueueOwn
<1>1. Receiving = <<>> /\ ~Crammed(dque) /\ dque' = Gained(dque, d, dque.num_entries)
  <2>1. NoWaiters("receive") /\ ~Full /\ dque' = FifoWrite(dque, d)
    BY DEF Store, Receivers
  <2>2. FifoWrite(dque, d) = Gained(dque, d, NumEntries) /\ (Full <=> Crammed(dque))
    BY QueueTests
  <2> QED
    BY <2>1, <2>2, QueueFirst DEF NumEntries
<1>2. Proper(Told, dque', order', Sending, Receiving, Pending)
  <2> DEFINE W == dque'
  <2>1. W = Gained(dque, d, dque.num_entries)
    BY <1>1
  <2> HIDE DEF W
  <2>2. Proper(Told, W, Append(order, d), Sending, Receiving, Pending)
    BY <1>1, <2>1, ElementStored DEF QueueInv
  <2> QED
    BY <2>2 DEF W, Store
<1> QED
  BY <1>2, QueueStill DEF Store

LEMMA QueueHands ==
  ASSUME Steady, QueueInv, NEW d \in Data, dque.exists, ~NoWaiters("receive"),
         UNCHANGED <<ticks, services, dque, order>>,
         \/ k' = HandedOver(d) /\ Calls("queue_send") /\ SwitchIf(Wakes(k, First("receive")))
         \/ "queue_isend" \in services /\ k.curr \in Task
            /\ IrqExit(Request(HandedOver(d), Wakes(k, First("receive"))))
  PROVE  QueueOwn
<1> DEFINE V == [WithoutFirst("receive") EXCEPT
                   !.elem = IF First("receive") = Wild THEN @ ELSE [@ EXCEPT ![First("receive")] = d]]
<1>1. Sound(k) /\ d \in Elem \cup {Null}
  BY QueueWaitQ DEF Steady, KInv
<1>2. FirstOutIs("receive", d)
  BY <1>1, QueueWaitQ, FirstOut
<1>3. Out(V, k, "receive", 1)
  BY <1>2 DEF FirstOutIs
<1>4. HandedOver(d) = WaitComplete(V, First("receive"))
  BY DEF HandedOver, Receivers
<1> HIDE DEF V
<1>5. CASE k' = HandedOver(d) /\ Calls("queue_send") /\ SwitchIf(Wakes(k, First("receive")))
  <2>1. Handed("receive", V)
    BY <1>3, <1>4, <1>5, QueueWaitQ, HandStep
  <2>2. pc[k.curr] \notin LastPlaces
    BY <1>5, CallNotLast
  <2> QED
    BY <2>1, <2>2, ReceiverHanded DEF qvars
<1>6. CASE "queue_isend" \in services /\ k.curr \in Task
           /\ IrqExit(Request(HandedOver(d), Wakes(k, First("receive"))))
  <2>1. services \cap Preempting # {}
    BY <1>6 DEF Preempting
  <2>2. Handed("receive", V)
    BY <1>3, <1>4, <1>6, <2>1, QueueWaitQ, HandIrq
  <2>3. pc[k.curr] \notin LastPlaces
    BY <1>6, <2>1, IrqNotLast
  <2> QED
    BY <2>2, <2>3, ReceiverHanded DEF qvars
<1> QED
  BY <1>5, <1>6

LEMMA QueueFalls ==
  ASSUME Steady, QueueInv, NEW d \in Data, SendWaits(d, Forever), UNCHANGED <<ticks, services>>
  PROVE  QueueOwn
<1> DEFINE V == [k EXCEPT !.elem[k.curr] = d]
<1>c. Calls("queue_send") /\ k.curr \in Task
  BY CallNotLast DEF SendWaits
<1>1. Written(V) /\ V.elem[k.curr] = d
  <2>1. k \in Kernel
    BY SoundFacts DEF Steady, KInv
  <2>2. k.elem \in [Task -> Elem \cup {Null}] /\ k.ewait \in [Task -> [pattern: SUBSET Flag, or: BOOLEAN]]
        /\ d \in Elem
    BY <2>1, QueueWaitQ DEF Kernel
  <2> DEFINE a == [k.elem EXCEPT ![k.curr] = d]
  <2>3. a \in [Task -> Elem \cup {Null}] /\ a[k.curr] = d /\ \A u \in Task : u # k.curr => a[u] = k.elem[u]
    BY <1>c, <2>2
  <2>4. V = [k EXCEPT !.elem = a]
    OBVIOUS
  <2> HIDE DEF a, V
  <2>5. V.elem = a /\ V.ewait = k.ewait /\ V = [k EXCEPT !.elem = V.elem, !.ewait = V.ewait]
    BY <2>1, <2>4 DEF Kernel
  <2> QED
    BY <2>2, <2>3, <2>5 DEF Written
<1>2. /\ k' = CurrToWait(V, "send", Why("send"), Forever) /\ pc' = Goes(k.curr, "waits", "send")
      /\ "queue_send" \in WaitingServices
  BY DEF SendWaits, Why, Senders, WaitingServices
<1> HIDE DEF V
<1>3. Fallen("send", V)
  BY <1>1, <1>2, <1>c, QueueWaitQ, WaitStep
<1>4. Receiving = <<>> /\ Crammed(dque) /\ dque.exists /\ dque' = dque /\ order' = Append(order, d)
  BY QueueFirst, QueueTests DEF SendWaits, Receivers
<1>5. "queue_send" \in services
  BY <1>c DEF Calls
<1> QED
  BY <1>1, <1>3, <1>4, <1>5, SenderFallen

LEMMA QueueReads ==
  ASSUME Steady, QueueInv, Take, NoWaiters("send"), UNCHANGED <<k, pc, ticks, services>>
  PROVE  QueueOwn
<1>1. Sending = <<>> /\ ~Vacant(dque) /\ dque' = Lost(dque, dque.num_entries) /\ dque.exists
  BY QueueFirst, QueueTests DEF Take, Something, QueueAfter, NumEntries, Senders
<1>2. Proper(Told, dque', order', Sending, Receiving, Pending)
  <2> DEFINE W == dque'
  <2>1. W = Lost(dque, dque.num_entries)
    BY <1>1
  <2> HIDE DEF W
  <2>2. Proper(Told, W, Tail(order), Sending, Receiving, Pending)
    BY <1>1, <2>1, ElementRead DEF QueueInv
  <2> QED
    BY <2>2 DEF W, Take
<1> QED
  BY <1>2, QueueStill

LEMMA QueueServes ==
  ASSUME Steady, QueueInv, Take, ~NoWaiters("send"), UNCHANGED <<ticks, services>>,
         \/ k' = Served /\ Calls("queue_receive") /\ SwitchIf(Wakes(k, First("send")))
         \/ "queue_ireceive" \in services /\ k.curr \in Task
            /\ IrqExit(Request(Served, Wakes(k, First("send"))))
  PROVE  QueueOwn
<1> DEFINE V == WithoutFirst("send")
<1>1. Sound(k) /\ Served = WaitComplete(V, First("send"))
  BY DEF Steady, KInv, Served, Senders
<1>2. FirstOutIs("send", Null)
  BY <1>1, QueueWaitQ, FirstOut
<1>3. Out(V, k, "send", 1) /\ First("send") = Sending[1] /\ First("send") # Wild
  BY <1>2 DEF FirstOutIs, Sending
<1> HIDE DEF V
<1>4. /\ dque.exists /\ order' = Tail(order)
      /\ dque' = IF Vacant(dque) THEN dque
                 ELSE Gained(Lost(dque, NumEntries), k.elem[Sending[1]], NumEntries)
  BY <1>3, QueueTests DEF Take, QueueAfter, Senders, DataOf
<1>5. CASE k' = Served /\ Calls("queue_receive") /\ SwitchIf(Wakes(k, First("send")))
  <2>1. Handed("send", V)
    BY <1>1, <1>3, <1>5, QueueWaitQ, HandStep
  <2>2. pc[k.curr] \notin LastPlaces
    BY <1>5, CallNotLast
  <2> QED
    BY <1>4, <2>1, <2>2, SenderHanded
<1>6. CASE "queue_ireceive" \in services /\ k.curr \in Task
           /\ IrqExit(Request(Served, Wakes(k, First("send"))))
  <2>1. services \cap Preempting # {}
    BY <1>6 DEF Preempting
  <2>2. Handed("send", V)
    BY <1>1, <1>3, <1>6, <2>1, QueueWaitQ, HandIrq
  <2>3. pc[k.curr] \notin LastPlaces
    BY <1>6, <2>1, IrqNotLast
  <2> QED
    BY <1>4, <2>2, <2>3, SenderHanded
<1> QED
  BY <1>5, <1>6

LEMMA QueueWaits ==
  ASSUME Steady, QueueInv, ReceiveWaits(Forever), UNCHANGED <<ticks, services>>
  PROVE  QueueOwn
<1>1. Written(k)
  <2>1. k \in Kernel
    BY SoundFacts DEF Steady, KInv
  <2> QED
    BY <2>1, KernelFields DEF Written, Kernel
<1>2. /\ k' = CurrToWait(k, "receive", Why("receive"), Forever)
      /\ pc' = Goes(k.curr, "waits", "receive")
      /\ Calls("queue_receive") /\ "queue_receive" \in WaitingServices
      /\ UNCHANGED qvars /\ dque.exists /\ "queue_receive" \in services
  BY DEF ReceiveWaits, WaitIn, Why, WaitingServices, Receivers, Calls
<1>3. Fallen("receive", k)
  BY <1>1, <1>2, QueueWaitQ, WaitStep
<1>4. Sending = <<>> /\ Vacant(dque)
  BY QueueFirst, QueueTests DEF ReceiveWaits, Something, Senders
<1> QED
  BY <1>2, <1>3, <1>4, ReceiverFallen

-----------------------------------------------------------------------------
LEMMA QueueCreates ==
  ASSUME Steady, QueueInv, NEW n \in Capacities, QueueCreate(n), UNCHANGED <<ticks, services>>
  PROVE  QueueOwn
<1>1. Sending = <<>> /\ Receiving = <<>> /\ Sound(k) /\ k \in Kernel
  BY SoundFacts DEF QueueCreate, QueueInv, Proper, Steady, KInv
<1>2. \A q \in {"send", "receive"} : Reset(k.link, Wait(q)) = k.link
  <2> SUFFICES ASSUME NEW q \in {"send", "receive"} PROVE Reset(k.link, Wait(q)) = k.link
    OBVIOUS
  <2>1. [k EXCEPT !.link = Reset(@, Wait(q))] = k
    BY <1>1, QueueWaitQ, ResetEmpty DEF Sending, Receiving
  <2> QED
    BY <1>1, <2>1 DEF Kernel
<1>3. k' = k
  <2>1. k' = [k EXCEPT !.link = Reset(Reset(@, Wait("send")), Wait("receive"))]
    BY DEF QueueCreate, Senders, Receivers
  <2>2. Reset(k.link, Wait("send")) = k.link /\ Reset(k.link, Wait("receive")) = k.link
    BY <1>2
  <2> QED
    BY <1>1, <2>1, <2>2 DEF Kernel
<1>4. Proper(Told, dque', order', Sending, Receiving, Pending)
  <2> DEFINE W == dque'
  <2>1. W = [NewQueue(n) EXCEPT !.exists = TRUE]
    <3>1. W = NewQueue(n)
      BY DEF QueueCreate
    <3>2. NewQueue(n) \in [num_entries: {n}, data_fifo: {NewQueue(n).data_fifo}, header_cnt: {0},
                           tail_cnt: {0}, exists: {TRUE}]
      BY DEF NewQueue
    <3> HIDE DEF W
    <3> QED
      BY <3>1, <3>2
  <2>2. order' = <<>>
    BY DEF QueueCreate
  <2> HIDE DEF W
  <2>3. n \in Capacities \cup {0}
    OBVIOUS
  <2>4. Proper(Told, W, <<>>, Sending, Receiving, Pending)
    BY <1>1, <2>1, <2>3, QueueNew DEF QueueInv
  <2> QED
    BY <2>2, <2>4 DEF W
<1> QED
  BY <1>3, <1>4, QueueStill DEF QueueCreate

\* The delete loop for the receivers begins.
LEMMA QueueGoesOn ==
  ASSUME Steady, QueueInv, QueueDeleteGoesOn, UNCHANGED <<order, ticks, services>>
  PROVE  QueueOwn
<1>1. /\ Queues(k)["send"] = <<>> /\ Runs(pc[k.curr][1]) /\ pc[k.curr][2] = "send"
      /\ k.curr \in Task /\ pc[k.curr][1] \in {"delEmpty", "delMasked"}
      /\ Deleter("send") \in services
  BY QueueWaitQ, LoopOver DEF QueueDeleteGoesOn, Senders
<1>2. PICK place \in {"delTest", "delMasked"} : pc' = Goes(k.curr, place, "receive") /\ k' = k
  BY DEF QueueDeleteGoesOn, Receivers
<1>3. Steady'
  <2>1. Runs(place) /\ place # "delEmpty" /\ Deleter("receive") \in services
    BY <1>1 DEF Runs, Deleter
  <2>2. <<place, "receive">> \in Spots
    BY QueueWaitQ DEF Spots
  <2> QED
    BY <1>1, <1>2, <2>1, <2>2, QueueWaitQ, PlaceStep
<1>4. pc'[k.curr] = <<place, "receive">> /\ \A u \in Task : u # k.curr => pc'[u] = pc[u]
  BY <1>1, <1>2 DEF Goes, Steady, KInv
<1>5. Beside({"send", "receive"})
  BY <1>1, <1>2, <1>4, SameView DEF Beside
<1>6. Sending = <<>> /\ Sending' = Sending /\ Receiving' = Receiving /\ Pending' = Pending
  BY <1>1, <1>2 DEF Sending, Receiving, Pending
<1>7. Concluding'
  <2> SUFFICES ASSUME "queue_receive" \notin services, NEW t \in Task, pc'[t] \in LastPlaces
               PROVE  t = k'.curr /\ Sending' = <<>> /\ pc'[t][1] # "delSwitch"
    BY DEF Concluding
  <2>1. t = k.curr
    BY <1>4 DEF QueueInv, Concluding
  <2> QED
    BY <1>2, <1>4, <1>6, <2>1
<1>8. dque' = dque /\ order' = order
  BY DEF QueueDeleteGoesOn
<1>9. QueueInv'
  BY <1>6, <1>7, <1>8, QueueKeeps DEF QueueInv
<1> QED
  BY <1>3, <1>5, <1>9 DEF QueueOwn

LEMMA QueueEnds ==
  ASSUME Steady, QueueInv, QueueCareful(services), QueueDeleteEnds, UNCHANGED <<order, ticks, services>>
  PROVE  QueueOwn
<1>1. /\ Receiving = <<>> /\ pc[k.curr][2] = "receive" /\ k.curr \in Task
      /\ pc[k.curr][1] \in {"delEmpty", "delMasked"} /\ "queue_delete" \in services
  BY QueueWaitQ, LoopOver DEF QueueDeleteEnds, Receivers, Receiving, Deleter
<1>2. Minor("receive") /\ k' = k /\ pc' = Goes(k.curr, "user", Null)
  BY QueueWaitQ, DeleteOver DEF QueueDeleteEnds, Receivers
<1>3. pc[k.curr] \in LastPlaces
  <2>1. pc \in [Task -> Spots]
    BY DEF Steady, KInv
  <2> QED
    BY <1>1, <2>1 DEF LastPlaces, DeletePlaces, Spots
<1>4. Sending = <<>>
  <2>1. CASE "queue_receive" \in services
    BY <1>1, <2>1 DEF QueueCareful, QueueInv
  <2>2. CASE "queue_receive" \notin services
    BY <1>1, <1>3, <2>2 DEF QueueInv, Concluding
  <2> QED
    BY <2>1, <2>2
<1>5. Concluding'
  <2>1. \A t \in Task : pc'[t] = pc[t] \/ pc'[t] \notin LastPlaces
    BY <1>1, <1>2 DEF Goes, Steady, KInv, LastPlaces, DeletePlaces
  <2>2. k'.curr = k.curr /\ Sending' = Sending
    BY <1>2 DEF Sending
  <2> QED
    BY <2>1, <2>2, ConcludingKept
<1>6. Proper(Told, dque', order', Sending, Receiving, Pending)
  <2> DEFINE W == dque'
  <2>1. W = [dque EXCEPT !.exists = FALSE]
    BY DEF QueueDeleteEnds
  <2> HIDE DEF W
  <2>2. Proper(Told, W, order, Sending, Receiving, Pending)
    BY <1>1, <1>4, <2>1, QueueGone DEF QueueInv
  <2> QED
    BY <2>2 DEF W
<1> QED
  BY <1>2, <1>5, <1>6, QueueMinor

LEMMA QueuePasses ==
  ASSUME Steady, QueueInv, NEW q \in {"send", "receive"}, WaitSwitches(q) \/ WaitReturns(q),
         UNCHANGED qvars, UNCHANGED <<ticks, services>>
  PROVE  QueueOwn
<1>1. Minor(q)
  BY QueueWaitQ, SwitchesMinor, ReturnsMinor
<1>2. pc[k.curr] \notin LastPlaces /\ \A t \in Task : pc'[t] = pc[t] \/ pc'[t] \notin LastPlaces
  BY DEF WaitSwitches, WaitReturns, Goes, Steady, KInv, LastPlaces, DeletePlaces
<1>3. Concluding'
  BY <1>2, ConcludingKept
<1> QED
  BY <1>1, <1>3, QueueMinor DEF QueueInv, qvars

LEMMA QueueSwitches ==
  ASSUME Steady, QueueInv, NEW q \in {"send", "receive"}, DeleteSwitches(q),
         UNCHANGED qvars, UNCHANGED <<ticks, services>>
  PROVE  QueueOwn
<1>1. Minor(q)
  BY QueueWaitQ, SwitchesMinor
<1>2. pc[k.curr] = <<"delSwitch", q>> /\ pc' = Goes(k.curr, "delTest", q) /\ pc \in [Task -> Spots]
  BY DEF DeleteSwitches, Steady, KInv
<1>3. Concluding'
  <2>1. CASE q = "send"
    <3>1. pc[k.curr] \notin LastPlaces /\ \A t \in Task : pc'[t] = pc[t] \/ pc'[t] \notin LastPlaces
      BY <1>2, <2>1 DEF Goes, LastPlaces
    <3> QED
      BY <3>1, ConcludingKept
  <2>2. CASE q = "receive"
    <3>1. k.curr \in Task
      BY SoundFacts DEF Steady, KInv, Kernel
    <3>2. "queue_receive" \in services
      <4>1. pc[k.curr] \in LastPlaces /\ pc[k.curr][1] = "delSwitch"
        BY <1>2, <2>2 DEF LastPlaces, DeletePlaces
      <4> QED
        BY <3>1, <4>1 DEF QueueInv, Concluding
    <3> QED
      BY <3>2 DEF Concluding
  <2> QED
    BY <2>1, <2>2
<1> QED
  BY <1>1, <1>3, QueueMinor DEF QueueInv, qvars

LEMMA QueueTurns ==
  ASSUME Steady, QueueInv, UNCHANGED <<dque, ticks, services>>, QueueDeleteTakes
  PROVE  QueueOwn
<1>1. CASE /\ DeleteTakes("send", WithoutFirst("send"))
           /\ order' = IF k' = k THEN order ELSE RemoveAt(order, Len(Contents) + 1)
  <2>1. Turned("send")
    BY <1>1, QueueWaitQ, TakeStep
  <2> QED
    BY <1>1, <2>1, SendTurned
<1>2. CASE DeleteTakes("receive", WithoutFirst("receive")) /\ UNCHANGED order
  <2>1. Turned("receive")
    BY <1>2, QueueWaitQ, TakeStep
  <2>2. pc[k.curr] \in LastPlaces
    BY <1>2 DEF DeleteTakes, LastPlaces, DeletePlaces
  <2>3. ASSUME Receiving = <<>> PROVE k' = k /\ pc'[k.curr][1] # "delSwitch"
    <3>1. AtFirst(k, "receive")
      BY QueueFirst
    <3>2. k' = k /\ pc' = Goes(k.curr, "delMasked", "receive")
      BY <1>2, <2>3, <3>1 DEF DeleteTakes, AtFirst, Receiving
    <3> QED
      BY <2>1, <3>2 DEF Goes, Turned, Steady, KInv
  <2> QED
    BY <1>2, <2>1, <2>2, <2>3, ReceiveTurned DEF qvars
<1> QED
  BY <1>1, <1>2 DEF QueueDeleteTakes, Senders, Receivers

LEMMA QueueLooks ==
  ASSUME Steady, QueueInv, NEW q \in {"send", "receive"}, DeleteTests(q),
         UNCHANGED qvars, UNCHANGED <<ticks, services>>
  PROVE  QueueOwn
<1>1. Turned(q) /\ k' = k
  BY QueueWaitQ, TestsStep DEF DeleteTests
<1>2. CASE q = "send"
  BY <1>1, <1>2, SendTurned DEF qvars
<1>3. CASE q = "receive"
  <2>1. pc[k.curr] \in LastPlaces
    BY <1>3 DEF DeleteTests, LastPlaces, DeletePlaces
  <2>2. pc'[k.curr][1] # "delSwitch"
    BY <1>1 DEF DeleteTests, Goes, Turned, Steady, KInv
  <2> QED
    BY <1>1, <1>3, <2>1, <2>2, ReceiveTurned
<1> QED
  BY <1>2, <1>3

LEMMA QueueStepIs ==
  ASSUME Steady, QueueInv, QueueCareful(services), QueueTimeouts \subseteq {Forever}, QueueStep
  PROVE  QueueOwn
<1>0. UNCHANGED <<ticks, services>>
  BY DEF QueueStep
<1>c. k.curr \in Task
  BY SoundFacts DEF Steady, KInv, Kernel
<1>1. ASSUME NEW d \in Data, SendNow(d) PROVE QueueOwn
  <2>1. dque.exists /\ Calls("queue_send")
    BY <1>1 DEF SendNow
  <2>2. CASE Store(d)
    BY <1>0, <2>1, <2>2, QueueStores
  <2>3. CASE /\ ~NoWaiters(Receivers) /\ k' = HandedOver(d) /\ SwitchIf(Wakes(k, First(Receivers)))
             /\ UNCHANGED qvars
    BY <1>0, <2>1, <2>3, QueueHands DEF Receivers, qvars
  <2> QED
    BY <1>1, <2>2, <2>3 DEF SendNow
<1>2. ASSUME NEW d \in Data, ISend(d) PROVE QueueOwn
  <2>1. dque.exists /\ "queue_isend" \in services
    BY <1>2 DEF ISend
  <2>2. CASE Store(d)
    BY <1>0, <2>1, <2>2, QueueStores
  <2>3. CASE /\ ~NoWaiters(Receivers) /\ UNCHANGED qvars
             /\ IrqExit(Request(HandedOver(d), Wakes(k, First(Receivers))))
    BY <1>0, <1>c, <2>1, <2>3, QueueHands DEF Receivers, qvars
  <2> QED
    BY <1>2, <2>2, <2>3 DEF ISend
<1>3. ASSUME NEW d \in Data, NEW timeout \in QueueTimeouts, SendWaits(d, timeout) PROVE QueueOwn
  <2>1. SendWaits(d, Forever)
    BY <1>3
  <2> QED
    BY <1>0, <2>1, QueueFalls
<1>4. ASSUME ReceiveNow PROVE QueueOwn
  <2>1. CASE NoWaiters("send")
    BY <1>0, <1>4, <2>1, QueueReads DEF ReceiveNow, Senders
  <2>2. CASE ~NoWaiters("send")
    BY <1>0, <1>4, <2>2, QueueServes DEF ReceiveNow, Senders
  <2> QED
    BY <2>1, <2>2
<1>5. ASSUME IReceive PROVE QueueOwn
  <2>1. CASE NoWaiters("send")
    BY <1>0, <1>5, <2>1, QueueReads DEF IReceive, Senders
  <2>2. CASE ~NoWaiters("send")
    BY <1>0, <1>5, <1>c, <2>2, QueueServes DEF IReceive, Senders
  <2> QED
    BY <2>1, <2>2
<1>6. ASSUME NEW timeout \in QueueTimeouts, ReceiveWaits(timeout) PROVE QueueOwn
  <2>1. ReceiveWaits(Forever)
    BY <1>6
  <2> QED
    BY <1>0, <2>1, QueueWaits
<1>7. ASSUME NEW n \in Capacities, QueueCreate(n) PROVE QueueOwn
  BY <1>0, <1>7, QueueCreates
<1>8. ASSUME QueueDelete, UNCHANGED order PROVE QueueOwn
  <2>1. Calls("queue_delete") /\ k' = k /\ pc' = Goes(k.curr, "delTest", "send") /\ dque' = dque
    BY <1>8 DEF QueueDelete, Senders
  <2>2. Minor("send")
    BY <1>0, <2>1, QueueWaitQ, DeleteBegins DEF Deleter
  <2>3. pc[k.curr] \notin LastPlaces /\ \A t \in Task : pc'[t] = pc[t] \/ pc'[t] \notin LastPlaces
    BY <2>1, CallNotLast DEF Goes, Steady, KInv, LastPlaces
  <2>4. Concluding'
    BY <1>0, <2>3, ConcludingKept
  <2> QED
    BY <1>0, <1>8, <2>1, <2>2, <2>4, QueueMinor DEF QueueInv
<1> QED
  BY <1>0, <1>1, <1>2, <1>3, <1>4, <1>5, <1>6, <1>7, <1>8, QueueGoesOn, QueueEnds, QueuePasses,
     QueueSwitches, QueueTurns, QueueLooks DEF QueueStep, Senders, Receivers

-----------------------------------------------------------------------------
(* The blocks of a memory pool.                                            *)

Named(F) == {F[i] : i \in 1 .. Len(F)}
\* F is the free list of pool P.
FreeChain(P, F) ==
  /\ P \in [free_list: Block \cup {Null}, fblkcnt: 0 .. NumBlocks, exists: BOOLEAN,
            cell: [Block -> Block \cup {Null}]]
  /\ F \in Seq(Block) /\ Len(F) = P.fblkcnt
  /\ \A i, j \in 1 .. Len(F) : F[i] = F[j] => i = j
  /\ P.free_list = IF Len(F) = 0 THEN Null ELSE F[1]
  /\ \A i \in 1 .. Len(F) : P.cell[F[i]] = IF i = Len(F) THEN Null ELSE F[i + 1]
\* A block is free, with the application, or on its way to one of the tasks in W.
Shared(F, W, e, O) ==
  /\ O \subseteq Block /\ \A b \in O : b \notin Named(F)
  /\ \A t \in W : e[t] \in Block /\ e[t] \notin Named(F) /\ e[t] \notin O
  /\ \A t, u \in W : e[t] = e[u] => t = u
  /\ \A b \in Block : b \in Named(F) \/ b \in O \/ \E t \in W : e[t] = b

LEMMA PoolWaitQ ==
  /\ "mem" \in WaitQ /\ "mem" # Null /\ Block \subseteq Elem /\ Null \notin Block
  /\ NumBlocks \in Nat /\ NumBlocks >= 2
BY MemAssumption, CoreAssumption

\* There are NumBlocks blocks.
LEMMA BlockCount == IsFiniteSet(Block) /\ Cardinality(Block) = NumBlocks
<1> DEFINE f == [i \in 1 .. NumBlocks |-> <<"block", i>>]
<1>1. f \in [1 .. NumBlocks -> Block] /\ \A i, j \in 1 .. NumBlocks : f[i] = f[j] => i = j
  BY DEF Block
<1>2. \A b \in Block : \E i \in 1 .. NumBlocks : f[i] = b
  BY DEF Block
<1> HIDE DEF f
<1>3. ExistsBijection(1 .. NumBlocks, Block)
  BY <1>1, <1>2 DEF ExistsBijection, Bijection, Injection, Surjection, IsInjective
<1>4. NumBlocks \in Nat
  BY PoolWaitQ
<1>5. IsFiniteSet(1 .. NumBlocks) /\ Cardinality(1 .. NumBlocks) = NumBlocks
  BY <1>4, FS_Interval
<1> QED
  BY <1>3, <1>5, FS_Bijection

\* A sequence without repetitions is as long as its entries are many.
LEMMA NamedCount ==
  ASSUME NEW S, NEW F \in Seq(S), \A i, j \in 1 .. Len(F) : F[i] = F[j] => i = j
  PROVE  IsFiniteSet(Named(F)) /\ Cardinality(Named(F)) = Len(F) /\ Named(F) \subseteq S
<1> DEFINE n == Len(F)
           f == [i \in 1 .. n |-> F[i]]
<1>1. n \in Nat /\ \A i \in 1 .. n : F[i] \in S
  OBVIOUS
<1>2. f \in [1 .. n -> Named(F)] /\ \A i, j \in 1 .. n : f[i] = f[j] => i = j
  BY DEF Named
<1>3. \A b \in Named(F) : \E i \in 1 .. n : f[i] = b
  BY DEF Named
<1>4. Named(F) \subseteq S
  BY <1>1 DEF Named
<1> HIDE DEF f
<1>5. ExistsBijection(1 .. n, Named(F))
  BY <1>2, <1>3 DEF ExistsBijection, Bijection, Injection, Surjection, IsInjective
<1> HIDE DEF n
<1>6. IsFiniteSet(1 .. n) /\ Cardinality(1 .. n) = n
  BY <1>1, FS_Interval
<1> QED
  BY <1>4, <1>5, <1>6, FS_Bijection DEF n

\* The first block of the free list is taken.
LEMMA BlockTaken ==
  ASSUME NEW P, NEW F, NEW W, NEW e, NEW O, FreeChain(P, F), Shared(F, W, e, O), P.fblkcnt > 0,
         NEW R, R = [P EXCEPT !.free_list = P.cell[@], !.fblkcnt = @ - 1]
  PROVE  /\ P.free_list \in Block /\ R.exists = P.exists
         /\ \E G : FreeChain(R, G) /\ Shared(G, W, e, O \cup {P.free_list})
<1> DEFINE n == Len(F)
           G == Tail(F)
           x == P.free_list
<1>1. /\ F \in Seq(Block) /\ n \in Nat /\ n = P.fblkcnt /\ n >= 1 /\ n <= NumBlocks
      /\ P.cell \in [Block -> Block \cup {Null}] /\ P.exists \in BOOLEAN
  BY DEF FreeChain
<1>2. x = F[1] /\ F[1] \in Block /\ \A i \in 1 .. n : F[i] \in Block
  BY <1>1 DEF FreeChain
<1>3. G \in Seq(Block) /\ Len(G) = n - 1 /\ \A i \in 1 .. n - 1 : G[i] = F[i + 1] /\ i + 1 \in 1 .. n
  BY <1>1
<1>4. /\ R.free_list = P.cell[x] /\ R.fblkcnt = n - 1 /\ R.exists = P.exists /\ R.cell = P.cell
      /\ R \in [free_list: Block \cup {Null}, fblkcnt: 0 .. NumBlocks, exists: BOOLEAN,
                cell: [Block -> Block \cup {Null}]]
  <2> DEFINE y == P.cell[x]
  <2>1. y \in Block \cup {Null} /\ n - 1 \in 0 .. NumBlocks
    BY <1>1, <1>2, PoolWaitQ
  <2>2. R = [P EXCEPT !.free_list = y, !.fblkcnt = n - 1]
    BY <1>1 DEF FreeChain
  <2> HIDE DEF y, x
  <2>3. R.free_list = y /\ R.fblkcnt = n - 1 /\ R.cell = P.cell
        /\ R \in [free_list: Block \cup {Null}, fblkcnt: 0 .. NumBlocks, exists: BOOLEAN,
                  cell: [Block -> Block \cup {Null}]]
    BY <1>1, <2>1, <2>2 DEF FreeChain
  <2>4. R.exists = P.exists
    BY <2>2 DEF FreeChain
  <2> QED
    BY <2>3, <2>4 DEF y
<1>5. \A i, j \in 1 .. n : F[i] = F[j] => i = j
  BY DEF FreeChain
<1>6. \A i \in 1 .. n : P.cell[F[i]] = IF i = n THEN Null ELSE F[i + 1]
  BY DEF FreeChain
<1>7. \A b : b \in Named(F) <=> b = x \/ b \in Named(G)
  <2> SUFFICES ASSUME NEW b PROVE b \in Named(F) <=> b = x \/ b \in Named(G)
    OBVIOUS
  <2>1. b \in Named(F) => b = x \/ b \in Named(G)
    <3> SUFFICES ASSUME NEW i \in 1 .. n, b = F[i], b # x PROVE b \in Named(G)
      BY DEF Named
    <3>1. i # 1 /\ i - 1 \in 1 .. n - 1 /\ (i - 1) + 1 = i
      BY <1>1, <1>2
    <3>2. G[i - 1] = b
      BY <1>3, <3>1
    <3> QED
      BY <1>3, <3>1, <3>2 DEF Named
  <2>2. x \in Named(F)
    BY <1>1, <1>2 DEF Named
  <2>3. b \in Named(G) => b \in Named(F)
    BY <1>3 DEF Named
  <2> QED
    BY <2>1, <2>2, <2>3
<1>8. x \notin Named(G)
  <2> SUFFICES ASSUME NEW i \in 1 .. n - 1, G[i] = x PROVE FALSE
    BY <1>3 DEF Named
  <2>1. F[i + 1] = F[1] /\ i + 1 \in 1 .. n /\ 1 \in 1 .. n /\ i + 1 # 1
    BY <1>1, <1>2, <1>3
  <2> QED
    BY <2>1, <1>5
<1> HIDE DEF G, x
<1>9. FreeChain(R, G)
  <2> DEFINE m == Len(G)
  <2>0. m = n - 1 /\ m \in Nat
    BY <1>1, <1>3
  <2>1. \A i, j \in 1 .. m : G[i] = G[j] => i = j
    <3> SUFFICES ASSUME NEW i \in 1 .. m, NEW j \in 1 .. m, G[i] = G[j] PROVE i = j
      OBVIOUS
    <3>1. F[i + 1] = F[j + 1] /\ i + 1 \in 1 .. n /\ j + 1 \in 1 .. n
      BY <1>3, <2>0
    <3>2. i + 1 = j + 1
      BY <3>1, <1>5
    <3> QED
      BY <3>2, <2>0
  <2>2. R.free_list = IF m = 0 THEN Null ELSE G[1]
    <3>1. CASE n = 1
      BY <3>1, <1>1, <1>2, <1>4, <1>6, <2>0 DEF x
    <3>2. CASE n # 1
      <4>1. 1 \in 1 .. n /\ 1 \in 1 .. n - 1 /\ m # 0 /\ 1 + 1 = 2
        BY <3>2, <1>1, <2>0
      <4>2. P.cell[F[1]] = F[2] /\ G[1] = F[2]
        BY <3>2, <4>1, <1>3, <1>6
      <4> QED
        BY <4>1, <4>2, <1>2, <1>4 DEF x
    <3> QED
      BY <3>1, <3>2
  <2>3. \A i \in 1 .. m : R.cell[G[i]] = IF i = m THEN Null ELSE G[i + 1]
    <3> SUFFICES ASSUME NEW i \in 1 .. m PROVE R.cell[G[i]] = IF i = m THEN Null ELSE G[i + 1]
      OBVIOUS
    <3>1. i \in 1 .. n - 1 /\ i + 1 \in 1 .. n /\ (i + 1 = n <=> i = m)
      BY <2>0, <1>1
    <3>2. P.cell[F[i + 1]] = IF i + 1 = n THEN Null ELSE F[(i + 1) + 1]
      BY <3>1, <1>6
    <3>3. CASE i = m
      BY <3>1, <3>2, <3>3, <1>3, <1>4
    <3>4. CASE i # m
      <4>1. i + 1 \in 1 .. n - 1
        BY <3>1, <3>4, <2>0
      <4>2. G[i + 1] = F[(i + 1) + 1] /\ G[i] = F[i + 1]
        BY <3>1, <4>1, <1>3
      <4> QED
        BY <4>2, <3>1, <3>2, <3>4, <1>4
    <3> QED
      BY <3>3, <3>4
  <2> QED
    BY <1>3, <1>4, <2>0, <2>1, <2>2, <2>3 DEF FreeChain
<1>10. Shared(G, W, e, O \cup {x})
  BY <1>2, <1>7, <1>8 DEF Shared
<1> QED
  BY <1>2, <1>4, <1>9, <1>10 DEF x

\* A block the application has is put in front of the free list.
PutBack(P, b) == IF P.fblkcnt < NumBlocks
                 THEN [P EXCEPT !.cell[b] = P.free_list, !.free_list = b, !.fblkcnt = @ + 1]
                 ELSE P
LEMMA BlockPut ==
  ASSUME NEW P, NEW F, NEW W, NEW e, NEW O, FreeChain(P, F), Shared(F, W, e, O), NEW b \in O,
         NEW R, R = PutBack(P, b)
  PROVE  /\ R.exists = P.exists /\ \E G : FreeChain(R, G) /\ Shared(G, W, e, O \ {b})
<1> DEFINE n == Len(F)
           G == <<b>> \o F
<1>1. /\ F \in Seq(Block) /\ n \in Nat /\ n = P.fblkcnt /\ n <= NumBlocks /\ NumBlocks \in Nat
      /\ P.cell \in [Block -> Block \cup {Null}] /\ P.exists \in BOOLEAN
      /\ P.free_list \in Block \cup {Null}
      /\ b \in Block /\ b \notin Named(F)
  BY PoolWaitQ DEF FreeChain, Shared
<1>2. n < NumBlocks
  <2>1. IsFiniteSet(Named(F)) /\ Cardinality(Named(F)) = n /\ Named(F) \subseteq Block
    BY <1>1, NamedCount DEF FreeChain
  <2>2. IsFiniteSet(Block) /\ Cardinality(Block) = NumBlocks
    BY BlockCount
  <2>3. n # NumBlocks
    <3> SUFFICES ASSUME n = NumBlocks PROVE FALSE
      OBVIOUS
    <3>1. Named(F) = Block
      BY <2>1, <2>2, FS_Subset
    <3> QED
      BY <1>1, <3>1
  <2> QED
    BY <1>1, <2>3
<1>3. /\ G \in Seq(Block) /\ Len(G) = n + 1 /\ G[1] = b
      /\ \A i \in 2 .. n + 1 : G[i] = F[i - 1] /\ i - 1 \in 1 .. n
  <2>1. <<b>> \in Seq(Block) /\ Len(<<b>>) = 1 /\ <<b>>[1] = b
    BY <1>1
  <2>2. /\ G \in Seq(Block) /\ Len(G) = 1 + n
        /\ \A i \in 1 .. 1 + n : G[i] = IF i <= 1 THEN <<b>>[i] ELSE F[i - 1]
    BY <1>1, <2>1, ConcatProperties
  <2> HIDE DEF G
  <2>3. 1 \in 1 .. 1 + n /\ 1 <= 1
    BY <1>1
  <2>4. G[1] = b
    BY <2>1, <2>2, <2>3
  <2>5. ASSUME NEW i \in 2 .. n + 1 PROVE G[i] = F[i - 1] /\ i - 1 \in 1 .. n
    <3>1. i \in 1 .. 1 + n /\ ~(i <= 1) /\ i - 1 \in 1 .. n
      BY <1>1
    <3> QED
      BY <2>2, <3>1
  <2>6. Len(G) = n + 1
    BY <1>1, <2>2
  <2> QED
    BY <2>2, <2>4, <2>5, <2>6
<1>4. /\ R.free_list = b /\ R.fblkcnt = n + 1 /\ R.exists = P.exists
      /\ R.cell = [P.cell EXCEPT ![b] = P.free_list]
      /\ R \in [free_list: Block \cup {Null}, fblkcnt: 0 .. NumBlocks, exists: BOOLEAN,
                cell: [Block -> Block \cup {Null}]]
  <2> DEFINE c == [P.cell EXCEPT ![b] = P.free_list]
  <2>1. c \in [Block -> Block \cup {Null}]
    BY <1>1
  <2>2. R = [P EXCEPT !.cell = c, !.free_list = b, !.fblkcnt = n + 1]
    BY <1>1, <1>2 DEF FreeChain, PutBack
  <2>3. n + 1 \in 0 .. NumBlocks
    BY <1>1, <1>2
  <2> HIDE DEF c
  <2>4. R.free_list = b /\ R.fblkcnt = n + 1 /\ R.exists = P.exists /\ R.cell = c
        /\ R \in [free_list: Block \cup {Null}, fblkcnt: 0 .. NumBlocks, exists: BOOLEAN,
                  cell: [Block -> Block \cup {Null}]]
    BY <1>1, <2>1, <2>2, <2>3 DEF FreeChain
  <2> QED
    BY <2>4 DEF c
<1>5. \A i, j \in 1 .. n : F[i] = F[j] => i = j
  BY DEF FreeChain
<1>6. /\ \A i \in 1 .. n : P.cell[F[i]] = IF i = n THEN Null ELSE F[i + 1]
      /\ P.free_list = IF n = 0 THEN Null ELSE F[1]
      /\ \A i \in 1 .. n : F[i] \in Block /\ F[i] # b
  BY <1>1 DEF FreeChain, Named
<1>7. \A x : x \in Named(G) <=> x = b \/ x \in Named(F)
  <2> SUFFICES ASSUME NEW x PROVE x \in Named(G) <=> x = b \/ x \in Named(F)
    OBVIOUS
  <2> HIDE DEF G
  <2>1. ASSUME NEW i \in 1 .. n + 1 PROVE G[i] = b \/ G[i] \in Named(F)
    <3>1. i = 1 \/ i \in 2 .. n + 1
      BY <1>1
    <3> QED
      BY <3>1, <1>3 DEF Named
  <2>2. b \in Named(G)
    <3>1. 1 \in 1 .. n + 1
      BY <1>1
    <3> QED
      BY <3>1, <1>3 DEF Named
  <2>3. ASSUME NEW i \in 1 .. n PROVE F[i] \in Named(G)
    <3>1. i + 1 \in 2 .. n + 1 /\ i + 1 \in 1 .. n + 1 /\ (i + 1) - 1 = i
      BY <1>1
    <3>2. G[i + 1] = F[i]
      BY <1>3, <3>1
    <3> QED
      BY <3>1, <3>2, <1>3 DEF Named
  <2> QED
    BY <2>1, <2>2, <2>3, <1>3 DEF Named
<1> HIDE DEF G
<1>8. FreeChain(R, G)
  <2> DEFINE m == Len(G)
  <2>0. m = n + 1 /\ m \in Nat /\ m # 0
    BY <1>1, <1>3
  <2>1. \A i, j \in 1 .. m : G[i] = G[j] => i = j
    <3> SUFFICES ASSUME NEW i \in 1 .. m, NEW j \in 1 .. m, G[i] = G[j] PROVE i = j
      OBVIOUS
    <3>1. (i = 1 \/ i \in 2 .. n + 1) /\ (j = 1 \/ j \in 2 .. n + 1)
      BY <2>0, <1>1
    <3>2. CASE i = 1 \/ j = 1
      BY <3>1, <3>2, <1>3, <1>6
    <3>3. CASE i \in 2 .. n + 1 /\ j \in 2 .. n + 1
      <4>1. F[i - 1] = F[j - 1] /\ i - 1 \in 1 .. n /\ j - 1 \in 1 .. n
        BY <3>3, <1>3
      <4>2. i - 1 = j - 1
        BY <4>1, <1>5
      <4> QED
        BY <4>2, <2>0
    <3> QED
      BY <3>1, <3>2, <3>3
  <2>2. R.free_list = IF m = 0 THEN Null ELSE G[1]
    BY <2>0, <1>3, <1>4
  <2>3. \A i \in 1 .. m : R.cell[G[i]] = IF i = m THEN Null ELSE G[i + 1]
    <3> SUFFICES ASSUME NEW i \in 1 .. m PROVE R.cell[G[i]] = IF i = m THEN Null ELSE G[i + 1]
      OBVIOUS
    <3>1. CASE i = 1
      <4>1. R.cell[b] = P.free_list
        BY <1>1, <1>4
      <4>2. n # 0 => 2 \in 2 .. n + 1 /\ 1 + 1 = 2 /\ 2 - 1 = 1
        BY <1>1
      <4>3. n # 0 => G[1 + 1] = F[1]
        BY <4>2, <1>3
      <4>4. 1 = m <=> n = 0
        BY <2>0, <1>1
      <4> QED
        BY <3>1, <4>1, <4>3, <4>4, <1>3, <1>6
    <3>2. CASE i \in 2 .. n + 1
      <4>1. G[i] = F[i - 1] /\ i - 1 \in 1 .. n /\ (i = m <=> i - 1 = n) /\ (i - 1) + 1 = i
        BY <3>2, <2>0, <1>1, <1>3
      <4>2. P.cell[F[i - 1]] = IF i - 1 = n THEN Null ELSE F[i]
        BY <4>1, <1>6
      <4>3. R.cell[F[i - 1]] = P.cell[F[i - 1]]
        BY <4>1, <1>1, <1>4, <1>6
      <4>4. i # m => i + 1 \in 2 .. n + 1 /\ (i + 1) - 1 = i
        BY <3>2, <2>0, <1>1
      <4>5. i # m => G[i + 1] = F[i]
        BY <4>4, <1>3
      <4> QED
        BY <4>1, <4>2, <4>3, <4>5
    <3> QED
      BY <3>1, <3>2, <2>0, <1>1
  <2> QED
    BY <1>3, <1>4, <2>0, <2>1, <2>2, <2>3 DEF FreeChain
<1>9. Shared(G, W, e, O \ {b})
  BY <1>1, <1>7 DEF Shared
<1> QED
  BY <1>4, <1>8, <1>9

-----------------------------------------------------------------------------
(* Blocks on their way to tasks, and the pool as its services see it.      *)

LEMMA BlockHanded ==
  ASSUME NEW F, NEW W, NEW e, NEW O, Shared(F, W, e, O), NEW b \in O, NEW t, t \notin W,
         NEW g, g[t] = b, \A u \in W : g[u] = e[u]
  PROVE  Shared(F, W \cup {t}, g, O \ {b})
BY DEF Shared
LEMMA BlockReturned ==
  ASSUME NEW F, NEW W, NEW e, NEW O, Shared(F, W, e, O), NEW t \in W
  PROVE  Shared(F, W \ {t}, e, O \cup {e[t]})
BY DEF Shared
LEMMA BlockStays ==
  ASSUME NEW F, NEW W, NEW e, NEW O, Shared(F, W, e, O), NEW g, \A u \in W : g[u] = e[u]
  PROVE  Shared(F, W, g, O)
BY DEF Shared

\* A new pool: every block is free.
LEMMA PoolBegins ==
  ASSUME NEW x \in BOOLEAN, NEW P, P = [NewPool EXCEPT !.exists = x], NEW e
  PROVE  \E F : FreeChain(P, F) /\ Shared(F, {}, e, {})
<1> DEFINE F == [i \in 1 .. NumBlocks |-> <<"block", i>>]
           n == Len(F)
<1>1. NumBlocks \in Nat /\ NumBlocks >= 2
  BY PoolWaitQ
<1>2. F \in Seq(Block) /\ n = NumBlocks /\ \A i \in 1 .. n : F[i] = <<"block", i>> /\ F[i] \in Block
  BY <1>1 DEF Block
<1>3. \A i, j \in 1 .. n : F[i] = F[j] => i = j
  BY <1>2
<1>c. NewPool.cell \in [Block -> Block \cup {Null}]
  <2>1. ASSUME NEW b \in Block
        PROVE  (IF b[2] = NumBlocks THEN Null ELSE <<"block", b[2] + 1>>) \in Block \cup {Null}
    BY <1>1 DEF Block
  <2> QED
    BY <2>1 DEF NewPool
<1>p. /\ P.free_list = <<"block", 1>> /\ P.fblkcnt = NumBlocks /\ P.cell = NewPool.cell
      /\ P \in [free_list: Block \cup {Null}, fblkcnt: 0 .. NumBlocks, exists: BOOLEAN,
                cell: [Block -> Block \cup {Null}]]
  <2> DEFINE c == NewPool.cell
  <2>1. <<"block", 1>> \in Block /\ NumBlocks \in 0 .. NumBlocks /\ c \in [Block -> Block \cup {Null}]
    BY <1>1, <1>c DEF Block
  <2>2. P = [free_list |-> <<"block", 1>>, fblkcnt |-> NumBlocks, exists |-> x, cell |-> c]
    BY DEF NewPool
  <2> HIDE DEF c
  <2>3. P.free_list = <<"block", 1>> /\ P.fblkcnt = NumBlocks /\ P.cell = c
    BY <2>2
  <2>4. x \in BOOLEAN
    OBVIOUS
  <2>5. P \in [free_list: Block \cup {Null}, fblkcnt: 0 .. NumBlocks, exists: BOOLEAN,
               cell: [Block -> Block \cup {Null}]]
    <3> DEFINE a == <<"block", 1>>
               A == Block \cup {Null}
               C == [Block -> Block \cup {Null}]
    <3>1. a \in A /\ NumBlocks \in 0 .. NumBlocks /\ c \in C /\ x \in BOOLEAN
      BY <2>1
    <3>2. P = [free_list |-> a, fblkcnt |-> NumBlocks, exists |-> x, cell |-> c]
      BY <2>2
    <3> HIDE DEF a, A, C
    <3>3. P \in [free_list: A, fblkcnt: 0 .. NumBlocks, exists: BOOLEAN, cell: C]
      <4> DEFINE D == 0 .. NumBlocks
                 m == NumBlocks
                 B == BOOLEAN
      <4>1. a \in A /\ m \in D /\ c \in C /\ x \in B
        BY <3>1
      <4>2. P = [free_list |-> a, fblkcnt |-> m, exists |-> x, cell |-> c]
        BY <3>2
      <4> HIDE DEF D, m, B
      <4>3. [free_list |-> a, fblkcnt |-> m, exists |-> x, cell |-> c]
              \in [free_list: A, fblkcnt: D, exists: B, cell: C]
        BY <4>1
      <4>4. P \in [free_list: A, fblkcnt: D, exists: B, cell: C]
        BY <4>2, <4>3
      <4> QED
        BY <4>4 DEF D, B
    <3> QED
      BY <3>3 DEF A, C
  <2> QED
    BY <2>3, <2>5 DEF c
<1>4. \A i \in 1 .. n : P.cell[F[i]] = IF i = n THEN Null ELSE F[i + 1]
  <2> SUFFICES ASSUME NEW i \in 1 .. n PROVE P.cell[F[i]] = IF i = n THEN Null ELSE F[i + 1]
    OBVIOUS
  <2>1. F[i] \in Block /\ F[i] = <<"block", i>> /\ F[i][2] = i
    BY <1>2
  <2>2. \A b \in Block : NewPool.cell[b] = IF b[2] = NumBlocks THEN Null ELSE <<"block", b[2] + 1>>
    BY DEF NewPool
  <2>3. P.cell[F[i]] = IF i = NumBlocks THEN Null ELSE <<"block", i + 1>>
    BY <1>p, <2>1, <2>2
  <2>4. i # n => i + 1 \in 1 .. n
    BY <1>1, <1>2
  <2> HIDE DEF F
  <2> QED
    BY <1>2, <2>3, <2>4
<1>5. Named(F) = Block
  BY <1>2 DEF Named, Block
<1> HIDE DEF F
<1>6. FreeChain(P, F)
  <2>1. n # 0 /\ 1 \in 1 .. n
    BY <1>1, <1>2
  <2> QED
    BY <1>2, <1>3, <1>4, <1>p, <2>1 DEF FreeChain
<1>7. Shared(F, {}, e, {})
  BY <1>5 DEF Shared
<1> QED
  BY <1>6, <1>7

\* Walking along the free list meets its blocks.
LEMMA FreeListIs ==
  ASSUME NEW F, FreeChain(fmp, F)
  PROVE  FreeList = F
<1> DEFINE n == Len(F)
           N == Block \cup {Null}
           L == [b \in N |-> [next |-> IF b = Null THEN fmp.free_list ELSE fmp.cell[b]]]
           c == [i \in 0 .. n |-> IF i = 0 THEN Null ELSE F[i]]
<1>1. /\ F \in Seq(Block) /\ n \in Nat /\ \A i \in 1 .. n : F[i] \in Block /\ F[i] # Null
      /\ \A i, j \in 1 .. n : F[i] = F[j] => i = j
      /\ fmp.free_list = IF n = 0 THEN Null ELSE F[1]
      /\ \A i \in 1 .. n : fmp.cell[F[i]] = IF i = n THEN Null ELSE F[i + 1]
  BY PoolWaitQ DEF FreeChain
<1>2. IsFiniteSet(N) /\ DOMAIN L = N
  BY BlockCount, FS_AddElement
<1>3. /\ \A b \in Block : L[b].next = fmp.cell[b]
      /\ L[Null].next = fmp.free_list
  BY PoolWaitQ
<1>4. c \in [0 .. n -> N] /\ c[0] = Null /\ \A i \in 1 .. n : c[i] = F[i]
  BY <1>1
<1>5. FreeList = Walk(L, Null)
  BY DEF FreeList
<1> HIDE DEF c, L, N
<1>6. \A i, j \in 0 .. n : c[i] = c[j] => i = j
  <2> SUFFICES ASSUME NEW i \in 0 .. n, NEW j \in 0 .. n, c[i] = c[j] PROVE i = j
    OBVIOUS
  <2>1. (i = 0 \/ i \in 1 .. n) /\ (j = 0 \/ j \in 1 .. n)
    OBVIOUS
  <2> QED
    BY <2>1, <1>1, <1>4
<1>7. \A i \in 0 .. n - 1 : L[c[i]].next = c[i + 1]
  <2> SUFFICES ASSUME NEW i \in 0 .. n - 1 PROVE L[c[i]].next = c[i + 1]
    OBVIOUS
  <2>1. i + 1 \in 1 .. n /\ n # 0 /\ c[i + 1] = F[i + 1] /\ i # n
    BY <1>1, <1>4
  <2>2. CASE i = 0
    BY <2>1, <2>2, <1>1, <1>3, <1>4
  <2>3. CASE i \in 1 .. n
    BY <2>1, <2>3, <1>1, <1>3, <1>4
  <2> QED
    BY <2>2, <2>3, <1>1
<1>8. L[c[n]].next = c[0]
  <2>1. n = 0 \/ n \in 1 .. n
    BY <1>1
  <2> QED
    BY <2>1, <1>1, <1>3, <1>4
<1>9. /\ Walk(L, c[0]) \in [1 .. n -> N]
      /\ \A i \in 1 .. n : Walk(L, c[0])[i] = c[i]
  <2>1. /\ IsFiniteSet(N) /\ DOMAIN L = N /\ n \in Nat /\ c \in [0 .. n -> N]
        /\ \A i, j \in 0 .. n : c[i] = c[j] => i = j
        /\ \A i \in 0 .. n - 1 : L[c[i]].next = c[i + 1]
        /\ L[c[n]].next = c[0]
    BY <1>1, <1>2, <1>4, <1>6, <1>7, <1>8
  <2> HIDE DEF n
  <2>2. Walk(L, c[0]) \in [1 .. n -> N]
    BY <2>1, WalkAlong
  <2>3. \A i \in 1 .. n : Walk(L, c[0])[i] = c[i]
    BY <2>1, WalkAlong
  <2> QED
    BY <2>2, <2>3
<1> DEFINE w == Walk(L, c[0])
<1>10. w \in [1 .. n -> N] /\ \A i \in 1 .. n : w[i] = F[i]
  BY <1>4, <1>9
<1> HIDE DEF w
<1>11. w = [i \in 1 .. n |-> F[i]]
  BY <1>10
<1>12. F = [i \in 1 .. n |-> F[i]]
  <2>1. F \in [1 .. Len(F) -> Block]
    BY <1>1, LenProperties
  <2> QED
    BY <2>1
<1> QED
  BY <1>4, <1>5, <1>11, <1>12 DEF w

\* The tasks to which a block is on its way.
Way == {t \in Task : Inside(pc[t], "mem") /\ k.pwait[t] = Null /\ k.rc[t] = "ok"}
\* No task is stopped with a block on its way to it, and none comes to think so.
Regained == "fmem_get" \in services => ~Restarts /\ ~({"suspend", "fmem_delete"} \subseteq services)
PoolInv ==
  /\ \E F : FreeChain(fmp, F) /\ Shared(F, Way, k.elem, owned)
  /\ fmp.fblkcnt > 0 => Queues(k)["mem"] = <<>>
  /\ "fmem_get" \notin services => \A t \in Task : ~Inside(pc[t], "mem")
MemInv ==
  /\ "exists" \in DOMAIN fmp
  /\ ~fmp.exists => Queues(k)["mem"] = <<>>
  /\ Regained => PoolInv

LEMMA WaySame ==
  ASSUME \A t \in Task : Inside(pc'[t], "mem") <=> Inside(pc[t], "mem"),
         \A t \in Task : Inside(pc[t], "mem") => View(k', k, t)
  PROVE  Way' = Way /\ \A t \in Way : k'.elem[t] = k.elem[t]
BY DEF Way, View

LEMMA PoolMoves ==
  ASSUME PoolInv, services' = services,
         \E F : FreeChain(fmp', F) /\ Shared(F, Way, k.elem, owned'),
         Way' = Way, \A t \in Way : k'.elem[t] = k.elem[t],
         fmp'.fblkcnt > 0 => Queues(k')["mem"] = <<>>,
         \A t \in Task : Inside(pc'[t], "mem") => Inside(pc[t], "mem") \/ "fmem_get" \in services
  PROVE  PoolInv'
<1>1. PICK F : FreeChain(fmp', F) /\ Shared(F, Way, k.elem, owned')
  OBVIOUS
<1>2. Shared(F, Way, k'.elem, owned')
  <2> DEFINE e == k.elem
             g == k'.elem
             O == owned'
             W == Way
  <2>1. Shared(F, W, e, O) /\ \A t \in W : g[t] = e[t]
    BY <1>1
  <2> HIDE DEF e, g, O, W
  <2>2. Shared(F, W, g, O)
    BY <2>1, BlockStays
  <2> QED
    BY <2>2 DEF g, O, W
<1>3. \E G : FreeChain(fmp', G) /\ Shared(G, Way', k'.elem, owned')
  BY <1>1, <1>2
<1>4. "fmem_get" \notin services => \A t \in Task : ~Inside(pc'[t], "mem")
  BY DEF PoolInv
<1> QED
  BY <1>3, <1>4 DEF PoolInv

\* What every step of the pool's services comes to.
MemOwn == Steady' /\ Beside({"mem"}) /\ MemInv'
SamePlaces == \A t \in Task : Inside(pc'[t], "mem") <=> Inside(pc[t], "mem")
PoolSplit(P, O) == \E F : FreeChain(P, F) /\ Shared(F, Way, k.elem, O)

LEMMA MemInvNext ==
  ASSUME MemInv, services' = services, "exists" \in DOMAIN fmp',
         ~fmp'.exists => Queues(k')["mem"] = <<>>, Regained => PoolInv'
  PROVE  MemInv'
<1>1. Regained' <=> Regained
  BY DEF Regained, Restarts
<1> QED
  BY <1>1 DEF MemInv

LEMMA MemMinor ==
  ASSUME MemInv, Minor("mem"), services' = services, SamePlaces,
         "exists" \in DOMAIN fmp', ~fmp'.exists => Queues(k)["mem"] = <<>>,
         Regained => PoolSplit(fmp', owned') /\ (fmp'.fblkcnt > 0 => Queues(k)["mem"] = <<>>)
  PROVE  MemInv'
<1>1. Queues(k') = Queues(k) /\ \A u \in Task : View(k', k, u)
  BY DEF Minor
<1>2. Way' = Way /\ \A t \in Way : k'.elem[t] = k.elem[t]
  BY <1>1, WaySame DEF SamePlaces
<1>3. ASSUME Regained
      PROVE  PoolInv'
  <2>1. PoolInv /\ \E F : FreeChain(fmp', F) /\ Shared(F, Way, k.elem, owned')
    BY <1>3 DEF MemInv, PoolSplit
  <2>2. fmp'.fblkcnt > 0 => Queues(k')["mem"] = <<>>
    BY <1>1, <1>3
  <2>3. \A t \in Task : Inside(pc'[t], "mem") => Inside(pc[t], "mem") \/ "fmem_get" \in services
    BY DEF SamePlaces
  <2> QED
    BY <1>2, <2>1, <2>2, <2>3, PoolMoves
<1> QED
  BY <1>1, <1>3, MemInvNext

LEMMA PoolIsSplit ==
  ASSUME MemInv, Regained
  PROVE  /\ PoolInv /\ PoolSplit(fmp, owned) /\ fmp.fblkcnt \in Nat
         /\ (fmp.fblkcnt > 0 => Queues(k)["mem"] = <<>>)
<1>1. PICK F : FreeChain(fmp, F) /\ Shared(F, Way, k.elem, owned)
  BY DEF MemInv, PoolInv
<1>2. fmp.fblkcnt \in Nat
  BY <1>1 DEF FreeChain
<1> QED
  BY <1>1, <1>2 DEF MemInv, PoolInv, PoolSplit

\* Steps that leave the kernel alone.
LEMMA MemStill ==
  ASSUME Steady, MemInv, UNCHANGED <<k, pc, ticks, services>>,
         "exists" \in DOMAIN fmp', ~fmp'.exists => Queues(k)["mem"] = <<>>,
         Regained => PoolSplit(fmp', owned') /\ (fmp'.fblkcnt > 0 => Queues(k)["mem"] = <<>>)
  PROVE  MemOwn
<1>1. Minor("mem") /\ SamePlaces
  BY StillMinor DEF SamePlaces
<1>2. MemInv'
  BY <1>1, MemMinor
<1> QED
  BY <1>1, <1>2, PoolWaitQ, MinorBeside DEF MemOwn

LEMMA MemTakes ==
  ASSUME Steady, MemInv, MemGets, UNCHANGED <<ticks, services>>
  PROVE  MemOwn
<1>0. /\ fmp.exists /\ fmp.fblkcnt > 0 /\ fmp' = FmGet /\ UNCHANGED <<k, pc>>
      /\ owned' = owned \cup {fmp.free_list}
  BY DEF MemGets
<1>1. "exists" \in DOMAIN fmp' /\ fmp'.exists = fmp.exists
  BY <1>0 DEF FmGet, MemInv
<1>2. ASSUME Regained
      PROVE  PoolSplit(fmp', owned') /\ (fmp'.fblkcnt > 0 => Queues(k)["mem"] = <<>>)
  <2>1. PICK F : FreeChain(fmp, F) /\ Shared(F, Way, k.elem, owned)
    BY <1>2 DEF MemInv, PoolInv
  <2> DEFINE R == fmp'
             e == k.elem
  <2>2. R = [fmp EXCEPT !.free_list = fmp.cell[@], !.fblkcnt = @ - 1]
    BY <1>0 DEF FmGet
  <2>3. FreeChain(fmp, F) /\ Shared(F, Way, e, owned) /\ fmp.fblkcnt > 0
    BY <1>0, <2>1
  <2> HIDE DEF R, e
  <2>4. \E G : FreeChain(R, G) /\ Shared(G, Way, e, owned \cup {fmp.free_list})
    BY <2>2, <2>3, BlockTaken
  <2> QED
    BY <1>0, <1>2, <2>4, PoolIsSplit DEF R, e, PoolSplit
<1> QED
  BY <1>0, <1>1, <1>2, MemStill

LEMMA MemFrees ==
  ASSUME Steady, MemInv, fmp.exists, NEW b \in owned, Frees(b), owned' = owned \ {b},
         UNCHANGED <<ticks, services>>
  PROVE  MemOwn
<1>0. fmp' = FmPut(b) /\ UNCHANGED <<k, pc>> /\ NoWaiters("mem")
  BY DEF Frees
<1>1. "exists" \in DOMAIN fmp' /\ fmp'.exists = fmp.exists
  BY <1>0 DEF FmPut, MemInv
<1>2. Queues(k)["mem"] = <<>>
  <2>1. AtFirst(k, "mem")
    BY PoolWaitQ, FirstIs DEF Steady, KInv
  <2> QED
    BY <1>0, <2>1 DEF AtFirst, NoWaiters
<1>3. ASSUME Regained
      PROVE  PoolSplit(fmp', owned')
  <2>1. PICK F : FreeChain(fmp, F) /\ Shared(F, Way, k.elem, owned)
    BY <1>3 DEF MemInv, PoolInv
  <2> DEFINE R == fmp'
             P == fmp
             O == owned
             W == Way
             e == k.elem
  <2>2. R = PutBack(P, b)
    BY <1>0 DEF FmPut, PutBack
  <2>3. FreeChain(P, F) /\ Shared(F, W, e, O) /\ b \in O
    BY <2>1
  <2> HIDE DEF R, e, P, O, W
  <2>4. \E G : FreeChain(R, G) /\ Shared(G, W, e, O \ {b})
    BY <2>2, <2>3, BlockPut
  <2> QED
    BY <2>4 DEF R, O, W, e, PoolSplit
<1> QED
  BY <1>0, <1>1, <1>2, <1>3, MemStill

\* A block is handed to the task that waits longest.
LEMMA MemHanded ==
  ASSUME MemInv, Steady, NEW b \in owned, NEW V, Handed("mem", V),
         V.elem[Queues(k)["mem"][1]] = b, services' = services, fmp' = fmp, owned' = owned \ {b}
  PROVE  MemInv'
<1> DEFINE t == Queues(k)["mem"][1]
<1>1. /\ t \in Task /\ k.pwait[t] = "mem" /\ Queues(k)["mem"] # <<>>
      /\ k'.pwait[t] = Null /\ k'.rc[t] = "ok" /\ k'.elem[t] = b
      /\ \A u \in Task : u # t => View(k', k, u)
      /\ \A u \in Task : pc'[u] = pc[u] \/ (pc[u][2] = Null /\ pc'[u][2] = Null)
  BY DEF Handed
<1>2. Inside(pc[t], "mem")
  BY <1>1, PoolWaitQ, WaitingFacts
<1> HIDE DEF t
<1>3. SamePlaces
  BY <1>1, PoolWaitQ DEF SamePlaces, Inside
<1>4. t \notin Way /\ Way' = Way \cup {t} /\ \A u \in Way : k'.elem[u] = k.elem[u]
  <2>1. t \notin Way
    BY <1>1, PoolWaitQ DEF Way
  <2>2. t \in Way'
    BY <1>1, <1>2, <1>3 DEF Way, SamePlaces
  <2>3. ASSUME NEW u \in Task, u # t
        PROVE  (u \in Way' <=> u \in Way) /\ k'.elem[u] = k.elem[u]
    BY <1>1, <1>3, <2>3 DEF Way, SamePlaces, View
  <2>4. Way \subseteq Task /\ Way' \subseteq Task
    BY DEF Way
  <2> QED
    BY <1>1, <2>1, <2>2, <2>3, <2>4
<1>5. ASSUME Regained
      PROVE  PoolInv'
  <2>1. PoolInv /\ ~(fmp.fblkcnt > 0)
    BY <1>1, <1>5 DEF MemInv, PoolInv
  <2>2. PICK F : FreeChain(fmp, F) /\ Shared(F, Way, k.elem, owned)
    BY <2>1 DEF PoolInv
  <2> DEFINE e == k.elem
             g == k'.elem
             W == Way
             O == owned
  <2>3. Shared(F, W, e, O) /\ b \in O /\ t \notin W /\ g[t] = b /\ \A u \in W : g[u] = e[u]
    BY <1>1, <1>4, <2>2
  <2> HIDE DEF e, g, W, O
  <2>4. Shared(F, W \cup {t}, g, O \ {b})
    BY <2>3, BlockHanded
  <2>5. Shared(F, Way', k'.elem, owned')
    BY <1>4, <2>4 DEF g, W, O
  <2>6. \E G : FreeChain(fmp', G) /\ Shared(G, Way', k'.elem, owned')
    BY <2>2, <2>5
  <2>7. "fmem_get" \notin services' => \A u \in Task : ~Inside(pc'[u], "mem")
    BY <1>3, <2>1 DEF PoolInv, SamePlaces
  <2> QED
    BY <2>1, <2>6, <2>7 DEF PoolInv
<1> QED
  BY <1>1, <1>5, MemInvNext DEF MemInv

LEMMA MemFallen ==
  ASSUME MemInv, Steady, NEW V, Fallen("mem", V), "fmem_get" \in services,
         services' = services, fmp' = fmp, owned' = owned, fmp.exists, fmp.fblkcnt = 0
  PROVE  MemInv'
<1> DEFINE t == k.curr
<1>1. /\ t \in Task /\ pc[t] = <<"user", Null>> /\ k'.pwait[t] = "mem"
      /\ \A u \in Task : u # t => View(k', k, u) /\ pc'[u] = pc[u]
  BY DEF Fallen
<1> HIDE DEF t
<1>2. Way' = Way /\ \A u \in Way : k'.elem[u] = k.elem[u]
  <2>1. t \notin Way /\ t \notin Way'
    BY <1>1, PoolWaitQ DEF Way, Inside
  <2>2. ASSUME NEW u \in Task, u # t
        PROVE  (u \in Way' <=> u \in Way) /\ k'.elem[u] = k.elem[u]
    BY <1>1, <2>2 DEF Way, View
  <2>3. Way \subseteq Task /\ Way' \subseteq Task
    BY DEF Way
  <2> QED
    BY <2>1, <2>2, <2>3
<1>3. ASSUME Regained
      PROVE  PoolInv'
  <2>1. PoolInv /\ \E F : FreeChain(fmp', F) /\ Shared(F, Way, k.elem, owned')
    BY <1>3 DEF MemInv, PoolInv
  <2>2. ~(fmp'.fblkcnt > 0)
    BY PoolWaitQ
  <2> QED
    BY <1>2, <2>1, <2>2, PoolMoves
<1> QED
  BY <1>3, MemInvNext DEF MemInv

\* The delete loop.
LEMMA MemTurned ==
  ASSUME MemInv, Steady, Turned("mem"), ~Inside(pc[k.curr], "mem"), services' = services,
         UNCHANGED <<fmp, owned>>
  PROVE  MemInv'
<1>0. /\ \A u \in Task : u # k.curr => pc'[u] = pc[u]
      /\ k.curr \in Task /\ pc'[k.curr] \in DeletePlaces \X {"mem"} /\ Steady'
      /\ ~Inside(pc'[k.curr], "mem")
  BY DEF Turned, Inside, DeletePlaces
<1>1. SamePlaces
  BY <1>0 DEF SamePlaces
<1>2. CASE k' = k
  <2>1. Way' = Way /\ \A t \in Way : k'.elem[t] = k.elem[t]
    BY <1>1, <1>2 DEF SamePlaces, Way
  <2>2. ASSUME Regained
        PROVE  PoolInv'
    BY <1>1, <1>2, <2>1, <2>2, PoolMoves DEF MemInv, PoolInv, SamePlaces
  <2> QED
    BY <1>2, <2>2, MemInvNext DEF MemInv
<1>3. CASE Dropped("mem")
  <2> DEFINE t == Queues(k)["mem"][1]
  <2>1. "fmem_delete" \in services
    BY <1>0, PoolWaitQ DEF Steady, Closing, Deleter
  <2>2. /\ t \in Task /\ k.pwait[t] = "mem" /\ k'.pwait[t] = Null
        /\ k'.rc[t] = IF Suspended(k, t) THEN "ok" ELSE "dlt"
        /\ Suspended(k, t) => "suspend" \in services
        /\ \A u \in Task : u # t => View(k', k, u)
        /\ 1 \in 1 .. Len(Queues(k)["mem"])
    BY <1>3 DEF Dropped
  <2>3. Inside(pc[t], "mem")
    BY <2>2, PoolWaitQ, WaitingFacts
  <2>4. Queues(k)["mem"] # <<>>
    BY <2>2
  <2> HIDE DEF t
  <2>5. ASSUME Regained
        PROVE  PoolInv'
    <3>1. PoolInv /\ "fmem_get" \in services /\ ~(fmp.fblkcnt > 0)
      BY <2>2, <2>3, <2>4, <2>5 DEF MemInv, PoolInv
    <3>2. k'.rc[t] = "dlt"
      BY <2>1, <2>2, <2>5, <3>1 DEF Regained
    <3>3. Way' = Way /\ \A u \in Way : k'.elem[u] = k.elem[u]
      <4>1. t \notin Way /\ t \notin Way'
        BY <2>2, <3>2, PoolWaitQ DEF Way
      <4>2. ASSUME NEW u \in Task, u # t
            PROVE  (u \in Way' <=> u \in Way) /\ k'.elem[u] = k.elem[u]
        BY <1>1, <2>2, <4>2 DEF Way, View, SamePlaces
      <4>3. Way \subseteq Task /\ Way' \subseteq Task
        BY DEF Way
      <4> QED
        BY <4>1, <4>2, <4>3
    <3>4. \E F : FreeChain(fmp', F) /\ Shared(F, Way, k.elem, owned')
      BY <3>1 DEF PoolInv
    <3> QED
      BY <3>1, <3>3, <3>4, PoolMoves
  <2> QED
    BY <2>4, <2>5, MemInvNext DEF MemInv
<1> QED
  BY <1>2, <1>3 DEF Turned

\* A task comes back with its block.
LEMMA MemComesBack ==
  ASSUME MemInv, Steady, MemReturns, UNCHANGED <<ticks, services>>
  PROVE  MemOwn
<1> DEFINE t == k.curr
<1>1. /\ Minor("mem") /\ k' = k /\ pc[t] = <<"waited", "mem">> /\ pc' = Goes(t, "user", Null)
      /\ owned' = (IF k.rc[t] = "ok" THEN owned \cup {k.elem[t]} ELSE owned) /\ fmp' = fmp
  BY PoolWaitQ, ReturnsMinor DEF MemReturns
<1>2. t \in Task /\ k.pwait[t] = Null /\ pc \in [Task -> Spots]
  BY <1>1, RunningFacts DEF Runs
<1> HIDE DEF t
<1>3. pc'[t] = <<"user", Null>> /\ \A u \in Task : u # t => pc'[u] = pc[u]
  BY <1>1, <1>2 DEF Goes
<1>4. t \notin Way' /\ (t \in Way <=> k.rc[t] = "ok")
      /\ \A u \in Task : u # t => (u \in Way' <=> u \in Way)
  BY <1>1, <1>2, <1>3, PoolWaitQ DEF Way, Inside
<1>5. Way' = Way \ {t}
  BY <1>4 DEF Way
<1>6. ASSUME Regained
      PROVE  PoolInv'
  <2>1. PoolInv
    BY <1>6 DEF MemInv
  <2>2. PICK F : FreeChain(fmp, F) /\ Shared(F, Way, k.elem, owned)
    BY <2>1 DEF PoolInv
  <2>3. Shared(F, Way', k'.elem, owned')
    <3> DEFINE e == k.elem
               W == Way
               O == owned
    <3>1. Shared(F, W, e, O)
      BY <2>2
    <3>2. CASE k.rc[t] = "ok"
      <4>1. t \in W /\ owned' = O \cup {e[t]} /\ Way' = W \ {t} /\ k'.elem = e
        BY <1>1, <1>4, <1>5, <3>2
      <4> HIDE DEF e, W, O
      <4>2. Shared(F, W \ {t}, e, O \cup {e[t]})
        BY <3>1, <4>1, BlockReturned
      <4> QED
        BY <4>1, <4>2
    <3>3. CASE k.rc[t] # "ok"
      <4>1. owned' = O /\ Way' = W /\ k'.elem = e
        BY <1>1, <1>4, <1>5, <3>3
      <4> HIDE DEF e, W, O
      <4> QED
        BY <3>1, <4>1
    <3> QED
      BY <3>2, <3>3
  <2>4. \E G : FreeChain(fmp', G) /\ Shared(G, Way', k'.elem, owned')
    BY <1>1, <2>2, <2>3
  <2>5. \A u \in Task : Inside(pc'[u], "mem") => Inside(pc[u], "mem")
    BY <1>3, PoolWaitQ DEF Inside
  <2>6. fmp'.fblkcnt > 0 => Queues(k')["mem"] = <<>>
    BY <1>1, <2>1 DEF PoolInv
  <2> QED
    BY <2>1, <2>4, <2>5, <2>6 DEF PoolInv
<1>7. MemInv'
  BY <1>1, <1>6, MemInvNext DEF MemInv
<1> QED
  BY <1>1, <1>7, PoolWaitQ, MinorBeside DEF MemOwn

LEMMA MemHands ==
  ASSUME Steady, MemInv, NEW b \in Block, b \in owned, ~NoWaiters("mem"),
         \/ k' = HandsBlock(b) /\ Calls("fmem_release") /\ SwitchIf(Wakes(k, First("mem")))
         \/ /\ "fmem_irelease" \in services
            /\ IrqExit(Request(HandsBlock(b), Wakes(k, First("mem")))),
         UNCHANGED <<fmp, ticks, services>>, owned' = owned \ {b}
  PROVE  MemOwn
<1> DEFINE V == [WithoutFirst("mem") EXCEPT
                   !.elem = IF First("mem") = Wild THEN @ ELSE [@ EXCEPT ![First("mem")] = b]]
<1>1. Sound(k) /\ b \in Elem \cup {Null} /\ HandsBlock(b) = WaitComplete(V, First("mem"))
  BY PoolWaitQ DEF Steady, KInv, HandsBlock
<1>2. FirstOutIs("mem", b)
  BY <1>1, PoolWaitQ, FirstOut
<1>3. Out(V, k, "mem", 1) /\ V.elem[Queues(k)["mem"][1]] = b
  BY <1>2 DEF FirstOutIs
<1> HIDE DEF V
<1>4. Handed("mem", V)
  <2>1. CASE k' = HandsBlock(b) /\ Calls("fmem_release") /\ SwitchIf(Wakes(k, First("mem")))
    BY <1>1, <1>3, <2>1, PoolWaitQ, HandStep
  <2>2. CASE "fmem_irelease" \in services /\ IrqExit(Request(HandsBlock(b), Wakes(k, First("mem"))))
    <3>1. services \cap Preempting # {}
      BY <2>2 DEF Preempting
    <3> QED
      BY <1>1, <1>3, <2>2, <3>1, PoolWaitQ, HandIrq
  <2> QED
    BY <2>1, <2>2
<1>5. MemInv'
  BY <1>3, <1>4, MemHanded
<1> QED
  BY <1>4, <1>5, PoolWaitQ, HandedBeside DEF MemOwn

LEMMA MemFalls ==
  ASSUME Steady, MemInv, MemWaits(Forever), UNCHANGED <<ticks, services>>
  PROVE  MemOwn
<1>1. Written(k)
  <2>1. k \in Kernel
    BY SoundFacts DEF Steady, KInv
  <2> QED
    BY <2>1, KernelFields DEF Written, Kernel
<1>2. /\ k' = CurrToWait(k, "mem", Why("mem"), Forever) /\ pc' = Goes(k.curr, "waits", "mem")
      /\ Calls("fmem_get") /\ "fmem_get" \in WaitingServices /\ "fmem_get" \in services
      /\ fmp' = fmp /\ owned' = owned /\ fmp.exists /\ fmp.fblkcnt = 0
  BY DEF MemWaits, WaitIn, Why, WaitingServices, Calls, mvars
<1>3. Fallen("mem", k)
  BY <1>1, <1>2, PoolWaitQ, WaitStep
<1>4. MemInv'
  BY <1>2, <1>3, MemFallen
<1> QED
  BY <1>3, <1>4, PoolWaitQ, FallenBeside DEF MemOwn

\* A pool that is made, or is gone.
LEMMA NewPoolIs == NewPool = [NewPool EXCEPT !.exists = TRUE] /\ NewPool.exists
                   /\ "exists" \in DOMAIN NewPool
<1> DEFINE c == NewPool.cell
           a == <<"block", 1>>
           n == NumBlocks
           x == TRUE
<1>1. NewPool = [free_list |-> a, fblkcnt |-> n, exists |-> x, cell |-> c]
  BY DEF NewPool
<1>2. NewPool.exists
  BY DEF NewPool
<1> HIDE DEF a, c, n, x
<1>3. NewPool = [NewPool EXCEPT !.exists = x] /\ "exists" \in DOMAIN NewPool
  BY <1>1
<1> QED
  BY <1>2, <1>3 DEF x
LEMMA PoolGone ==
  ASSUME NEW P, NEW F, FreeChain(P, F), NEW x \in BOOLEAN
  PROVE  FreeChain([P EXCEPT !.exists = x], F)
<1> DEFINE A == Block \cup {Null}
           D == 0 .. NumBlocks
           B == BOOLEAN
           C == [Block -> Block \cup {Null}]
           R == [P EXCEPT !.exists = x]
<1>1. P \in [free_list: A, fblkcnt: D, exists: B, cell: C] /\ x \in B
  BY DEF FreeChain
<1> HIDE DEF A, B, C, D
<1>2. /\ R \in [free_list: A, fblkcnt: D, exists: B, cell: C]
  BY <1>1
<1>3. R.free_list = P.free_list /\ R.fblkcnt = P.fblkcnt /\ R.cell = P.cell
  BY <1>1
<1> HIDE DEF R
<1>4. R \in [free_list: Block \cup {Null}, fblkcnt: 0 .. NumBlocks, exists: BOOLEAN,
             cell: [Block -> Block \cup {Null}]]
  BY <1>2 DEF A, B, C, D
<1>5. FreeChain(R, F)
  BY <1>3, <1>4 DEF FreeChain
<1> QED
  BY <1>5 DEF R

LEMMA MemCreates ==
  ASSUME Steady, MemInv, MemCreate, UNCHANGED <<ticks, services>>
  PROVE  MemOwn
<1>1. Queues(k)["mem"] = <<>> /\ Sound(k) /\ \A t \in Task : pc[t][2] # "mem"
  BY DEF MemCreate, MemInv, Steady, KInv
<1>2. k' = k
  BY <1>1, PoolWaitQ, ResetEmpty DEF MemCreate
<1>3. Way = {}
  BY <1>1 DEF Way, Inside
<1>4. PoolSplit(fmp', owned')
  <2> DEFINE P == fmp'
             e == k.elem
             x == TRUE
  <2>1. P = [NewPool EXCEPT !.exists = x] /\ x \in BOOLEAN
    BY NewPoolIs DEF MemCreate
  <2> HIDE DEF P, e, x
  <2>2. \E F : FreeChain(P, F) /\ Shared(F, {}, e, {})
    BY <2>1, PoolBegins
  <2> QED
    BY <1>3, <2>2 DEF P, e, PoolSplit, MemCreate
<1>5. "exists" \in DOMAIN fmp'
  BY NewPoolIs DEF MemCreate
<1> QED
  BY <1>1, <1>2, <1>4, <1>5, MemStill DEF MemCreate

LEMMA MemEnds ==
  ASSUME Steady, MemInv, MemDeleteEnds, UNCHANGED <<owned, ticks, services>>
  PROVE  MemOwn
<1>1. Minor("mem") /\ Queues(k)["mem"] = <<>>
  BY PoolWaitQ, DeleteOver DEF MemDeleteEnds
<1>2. /\ k.curr \in Task /\ pc[k.curr][1] \in {"delEmpty", "delMasked"} /\ pc \in [Task -> Spots]
      /\ pc' = Goes(k.curr, "user", Null)
  BY PoolWaitQ, LoopOver DEF MemDeleteEnds, Steady, KInv
<1>3. SamePlaces
  BY <1>2 DEF SamePlaces, Inside, Goes
<1>4. fmp' = [fmp EXCEPT !.exists = FALSE]
  BY DEF MemDeleteEnds
<1>5. "exists" \in DOMAIN fmp'
  BY <1>4 DEF MemInv
<1>6. ASSUME Regained
      PROVE  PoolSplit(fmp', owned')
  <2>1. PICK F : FreeChain(fmp, F) /\ Shared(F, Way, k.elem, owned)
    BY <1>6 DEF MemInv, PoolInv
  <2>2. FreeChain(fmp', F)
    BY <1>4, <2>1, PoolGone
  <2> QED
    BY <2>1, <2>2 DEF PoolSplit
<1>7. MemInv'
  BY <1>1, <1>3, <1>5, <1>6, MemMinor
<1> QED
  BY <1>1, <1>7, PoolWaitQ, MinorBeside DEF MemOwn

LEMMA MemMinorOwn ==
  ASSUME Steady, MemInv, Minor("mem"), services' = services, SamePlaces, UNCHANGED <<fmp, owned>>
  PROVE  MemOwn
<1>1. MemInv'
  BY MemMinor, PoolIsSplit DEF MemInv
<1> QED
  BY <1>1, PoolWaitQ, MinorBeside DEF MemOwn

LEMMA MemStepIs ==
  ASSUME Steady, MemInv, MemTimeouts \subseteq {Forever}, MemStep
  PROVE  MemOwn
<1>0. UNCHANGED <<ticks, services>> /\ pc \in [Task -> Spots]
  BY DEF MemStep, Steady, KInv
<1>1. CASE MemGets
  BY <1>0, <1>1, MemTakes
<1>2. CASE MemReturns
  BY <1>0, <1>2, MemComesBack
<1>3. CASE MemCreate
  BY <1>0, <1>3, MemCreates
<1>4. CASE \E timeout \in MemTimeouts : MemWaits(timeout)
  BY <1>0, <1>4, MemFalls
<1>5. CASE \E b \in Block : MemRelease(b) \/ MemIRelease(b)
  <2>1. PICK b \in Block : MemRelease(b) \/ MemIRelease(b)
    BY <1>5
  <2>2. b \in owned /\ fmp.exists /\ owned' = owned \ {b}
    BY <2>1 DEF MemRelease, MemIRelease
  <2>3. CASE Frees(b)
    BY <1>0, <2>2, <2>3, MemFrees
  <2>4. CASE ~Frees(b)
    <3>1. ~NoWaiters("mem") /\ UNCHANGED fmp
      BY <2>1, <2>4 DEF MemRelease, MemIRelease
    <3>2. \/ k' = HandsBlock(b) /\ Calls("fmem_release") /\ SwitchIf(Wakes(k, First("mem")))
          \/ /\ "fmem_irelease" \in services
             /\ IrqExit(Request(HandsBlock(b), Wakes(k, First("mem"))))
      BY <2>1, <2>4 DEF MemRelease, MemIRelease
    <3> QED
      BY <1>0, <2>2, <3>1, <3>2, MemHands
  <2> QED
    BY <2>3, <2>4
<1>6. CASE MemDelete /\ UNCHANGED owned
  <2>1. Calls(Deleter("mem")) /\ k' = k /\ pc' = Goes(k.curr, "delTest", "mem") /\ fmp' = fmp
        /\ Calls("fmem_delete")
    BY <1>6 DEF MemDelete, Deleter
  <2>2. Minor("mem")
    BY <1>0, <2>1, PoolWaitQ, DeleteBegins
  <2>3. SamePlaces
    BY <1>0, <2>1 DEF SamePlaces, Inside, Goes, Calls, Place
  <2> QED
    BY <1>0, <1>6, <2>1, <2>2, <2>3, MemMinorOwn
<1>7. CASE MemDeleteEnds /\ UNCHANGED owned
  BY <1>0, <1>7, MemEnds
<1>8. CASE (WaitSwitches("mem") \/ DeleteLoop("mem", WithoutFirst("mem"))) /\ UNCHANGED mvars
  <2>0. UNCHANGED <<fmp, owned>>
    BY <1>8 DEF mvars
  <2>1. CASE WaitSwitches("mem") \/ DeleteSwitches("mem")
    <3>1. Minor("mem")
      BY <1>0, <2>1, PoolWaitQ, SwitchesMinor
    <3>2. SamePlaces
      BY <1>0, <2>1 DEF SamePlaces, Inside, Goes, WaitSwitches, DeleteSwitches
    <3> QED
      BY <1>0, <2>0, <3>1, <3>2, MemMinorOwn
  <2>2. CASE DeleteTests("mem") \/ DeleteTakes("mem", WithoutFirst("mem"))
    <3>1. Turned("mem")
      BY <1>0, <2>2, PoolWaitQ, TestsStep, TakeStep
    <3>2. ~Inside(pc[k.curr], "mem")
      BY <2>2 DEF Inside, DeleteTests, DeleteTakes
    <3>3. MemInv'
      BY <1>0, <2>0, <3>1, <3>2, MemTurned
    <3> QED
      BY <3>1, <3>3, PoolWaitQ, TurnedBeside DEF MemOwn
  <2> QED
    BY <1>8, <2>1, <2>2 DEF DeleteLoop
<1> QED
  BY <1>1, <1>2, <1>3, <1>4, <1>5, <1>6, <1>7, <1>8 DEF MemStep

-----------------------------------------------------------------------------
(* The objects together: what a step leaves alone.                         *)

\* What a step of another object, or of the kernel, does to a queue.
LessAt(q) ==
  /\ Queues(k)[q] = <<>> => Queues(k')[q] = <<>>
  /\ \A t \in Task : Inside(pc'[t], q) => Inside(pc[t], q) /\ View(k', k, t)
SameAt(q) ==
  /\ LessAt(q) /\ Queues(k')[q] = Queues(k)[q]
  /\ \A t \in Task : Inside(pc[t], q) => Inside(pc'[t], q)

LEMMA BesideSame ==
  ASSUME NEW Q, Beside(Q), NEW q \in WaitQ, q \notin Q
  PROVE  SameAt(q)
<1>1. q # Null
  BY CoreAssumption
<1>2. Queues(k')[q] = Queues(k)[q]
  BY DEF Beside
<1>3. \A t \in Task : \/ pc'[t] = pc[t] /\ View(k', k, t)
                      \/ pc[t][2] \in Q \cup {Null} /\ pc'[t][2] \in Q \cup {Null}
  BY DEF Beside
<1>4. ASSUME NEW t \in Task
      PROVE  /\ Inside(pc'[t], q) => Inside(pc[t], q) /\ View(k', k, t)
             /\ Inside(pc[t], q) => Inside(pc'[t], q)
  BY <1>1, <1>3 DEF Inside
<1> QED
  BY <1>2, <1>4 DEF SameAt, LessAt

LEMMA ApartLess ==
  ASSUME Apart, NEW q \in WaitQ
  PROVE  /\ LessAt(q)
         /\ Queues(k')[q] = Queues(k)[q] \/ "terminate" \in services
         /\ ~Restarts => \A t \in Task : Inside(pc[t], q) => Inside(pc'[t], q)
<1>1. q # Null
  BY CoreAssumption
<1>2. \A t \in Task : \/ pc'[t] = pc[t] /\ View(k', k, t)
                      \/ pc'[t][2] = Null /\ (pc[t][2] = Null \/ Restarts)
  BY DEF Apart, Aside
<1>3. ASSUME NEW t \in Task
      PROVE  /\ Inside(pc'[t], q) => Inside(pc[t], q) /\ View(k', k, t)
             /\ ~Restarts => (Inside(pc[t], q) => Inside(pc'[t], q))
  BY <1>1, <1>2 DEF Inside
<1>4. Queues(k)[q] = <<>> => Queues(k')[q] = <<>>
  <2>1. CASE Queues(k') = Queues(k)
    BY <2>1
  <2>2. CASE OneOut(k', k)
    <3>1. PICK r \in WaitQ : \E m \in 1 .. Len(Queues(k)[r]) :
                  Queues(k') = [Queues(k) EXCEPT ![r] = Without(@, m)]
      BY <2>2 DEF OneOut
    <3>2. PICK m \in 1 .. Len(Queues(k)[r]) : Queues(k') = [Queues(k) EXCEPT ![r] = Without(@, m)]
      BY <3>1
    <3>3. Queues(k)[r] # <<>>
      BY <3>2
    <3>4. r # q => Queues(k')[q] = Queues(k)[q]
      BY <3>2, QueuesElse
    <3> QED
      BY <3>3, <3>4
  <2> QED
    BY <2>1, <2>2 DEF Apart, Shrinks
<1> QED
  BY <1>3, <1>4 DEF LessAt, Apart, Shrinks

\* A task waits in the queue it says it waits in.
LEMMA FoundIn ==
  ASSUME NEW K, Sound(K), NEW t \in Task, NEW q \in WaitQ, K.pwait[t] = q
  PROVE  \E m \in 1 .. Len(Queues(K)[q]) : Queues(K)[q][m] = t
<1>1. OneTask(K, Queues(K), t)
  BY SoundFacts
<1>2. In(Queues(K), q, t)
  BY <1>1 DEF OneTask
<1> QED
  BY <1>2 DEF In

\* Who still waits in the queue has waited there before.
LEMMA StillThere ==
  ASSUME Steady, Steady', services' = services, NEW q \in WaitQ, LessAt(q),
         NEW m \in 1 .. Len(Queues(k')[q])
  PROVE  LET t == Queues(k')[q][m]
         IN  /\ t \in Task /\ k.pwait[t] = q /\ View(k', k, t)
             /\ \E i \in 1 .. Len(Queues(k)[q]) : Queues(k)[q][i] = t
<1> DEFINE t == Queues(k')[q][m]
<1>1. Sound(k') /\ Sound(k) /\ q # Null
  BY SoundNext, CoreAssumption DEF Steady, KInv
<1>2. t \in Task /\ k'.pwait[t] = q
  BY <1>1, InQueue DEF QueueFacts, User
<1> HIDE DEF t
<1>3. pc'[t] \in {"waits", "waited"} \X {q}
  BY <1>1, <1>2 DEF Steady, KInv, Within
<1>4. Inside(pc'[t], q)
  BY <1>3 DEF Inside
<1>5. View(k', k, t)
  BY <1>2, <1>4 DEF LessAt
<1>6. k.pwait[t] = q
  BY <1>2, <1>5 DEF View
<1> QED
  BY <1>1, <1>2, <1>5, <1>6, FoundIn DEF t

\* Each object's part of the invariant outlives the steps of the others.
LEMMA SemAside ==
  ASSUME SemInv, services' = services, UNCHANGED <<sem, granted>>, LessAt("sem")
  PROVE  SemInv'
<1>1. Signalled'
  BY DEF SemInv, Signalled, LessAt, View
<1> QED
  BY <1>1 DEF SemInv, LessAt

LEMMA EventAside ==
  ASSUME Steady, Steady', EventInv, services' = services, UNCHANGED <<evf, asked>>, LessAt("event")
  PROVE  EventInv'
<1> DEFINE W == Queues(k')["event"]
<1>1. ASSUME NEW i \in 1 .. Len(W)
      PROVE  \E j \in 1 .. Len(Waiters) : Waiters[j] = W[i] /\ k'.ewait[W[i]] = k.ewait[W[i]]
  BY EventWaitQ, StillThere DEF View, Waiters
<1>2. ASSUME NEW t \in Task, Inside(pc'[t], "event")
      PROVE  Asks(t)'
  <2>1. Asks(t) /\ View(k', k, t)
    BY <1>2 DEF EventInv, LessAt
  <2> QED
    BY <2>1 DEF Asks, View
<1>3. evf'.exists => \A i \in 1 .. Len(W) : ~Released(k'.ewait[W[i]], evf'.pattern)
  BY <1>1 DEF EventInv
<1>4. ~evf'.exists => W = <<>>
  BY DEF EventInv, LessAt, Waiters
<1>5. /\ evf' \in [pattern: SUBSET Flag, attr: [single: BOOLEAN, clr: BOOLEAN], exists: BOOLEAN]
      /\ asked' \in [Task -> [pattern: SUBSET Flag, or: BOOLEAN]]
  BY DEF EventInv
<1> QED
  BY <1>2, <1>3, <1>4, <1>5 DEF EventInv, Waiters

LEMMA MemAside ==
  ASSUME MemInv, services' = services, UNCHANGED <<fmp, owned>>, LessAt("mem"),
         Regained => SameAt("mem") \/ "fmem_get" \notin services
  PROVE  MemInv'
<1>1. ~fmp'.exists => Queues(k')["mem"] = <<>>
  BY DEF MemInv, LessAt
<1>2. ASSUME Regained
      PROVE  PoolInv'
  <2>1. PoolInv
    BY <1>2 DEF MemInv
  <2>2. \A t \in Task : Inside(pc'[t], "mem") <=> Inside(pc[t], "mem")
    BY <1>2, <2>1 DEF SameAt, LessAt, PoolInv
  <2>3. Way' = Way /\ \A t \in Way : k'.elem[t] = k.elem[t]
    BY <2>2, WaySame DEF LessAt
  <2>4. fmp'.fblkcnt > 0 => Queues(k')["mem"] = <<>>
    BY <2>1 DEF PoolInv, LessAt
  <2>5. \E F : FreeChain(fmp', F) /\ Shared(F, Way, k.elem, owned')
    BY <2>1 DEF PoolInv
  <2> QED
    BY <2>1, <2>2, <2>3, <2>4, <2>5, PoolMoves
<1> QED
  BY <1>1, <1>2, MemInvNext DEF MemInv

LEMMA QueueAside ==
  ASSUME Steady, Steady', QueueInv, services' = services, UNCHANGED <<dque, order>>,
         LessAt("send"), LessAt("receive"), Concluding',
         Sending' = Sending \/ "terminate" \in services
  PROVE  QueueInv'
<1> DEFINE s == Sending'
           r == Receiving'
           p == Pending'
<1>0. "send" \in WaitQ /\ "receive" \in WaitQ /\ Sound(k')
  BY QueueWaitQ, SoundNext
<1>1. s \in Seq(Task) /\ r \in Seq(Task)
  <2>1. WaitLists(k'.link, Queues(k'))
    BY <1>0, SoundFacts DEF Sched, Listed
  <2>2. Queues(k') \in [WaitQ -> Seq(Task)]
    BY <2>1 DEF WaitLists
  <2> QED
    BY <1>0, <2>2 DEF Sending, Receiving
<1>2. (Sending = <<>> => s = <<>>) /\ (Receiving = <<>> => r = <<>>)
  BY DEF LessAt, Sending, Receiving
<1>3. \A i \in 1 .. Len(s) : \E j \in 1 .. Len(Sending) :
         Sending[j] = s[i] /\ k'.elem[s[i]] = k.elem[s[i]]
  BY <1>0, StillThere DEF View, Sending
<1>4. Proper(Told, dque, order, Sending, Receiving, Pending)
  BY DEF QueueInv
<1>5. Proper(Told, dque, order, s, r, p)
  <2>1. CASE s = Sending
    <3>1. \A i \in 1 .. Len(Sending) : k'.elem[Sending[i]] = k.elem[Sending[i]]
      BY <1>3, <2>1
    <3>2. p = Pending
      BY <2>1, <3>1, PendingKept
    <3>3. CASE Receiving = <<>>
      BY <1>2, <1>4, <2>1, <3>2, <3>3
    <3>4. CASE Receiving # <<>>
      <4> DEFINE a == Told
                 q == Receiving
                 u == Sending
                 d == Pending
      <4>1. Proper(a, dque, order, u, q, d) /\ q # <<>> /\ r \in Seq(Task) /\ s = u /\ p = d
        BY <1>1, <1>4, <2>1, <3>2, <3>4
      <4> HIDE DEF a, q, u, d, r, s, p
      <4>2. Proper(a, dque, order, u, r, d)
        BY <4>1, ReceiverGoes
      <4> QED
        BY <4>1, <4>2 DEF a
    <3> QED
      BY <3>3, <3>4
  <2>2. CASE s # Sending
    <3>1. Sending # <<>> /\ ~Told
      BY <1>2, <2>2 DEF Told, QueueInv
    <3>2. \A i \in 1 .. Len(Sending) : k.elem[Sending[i]] \in Data
      <4>1. Pending \in Seq(Data) /\ Len(Pending) = Len(Sending)
        BY <1>4 DEF Proper
      <4>2. ASSUME NEW i \in 1 .. Len(Sending) PROVE k.elem[Sending[i]] \in Data
        <5>1. Pending[i] \in Data
          BY <4>1
        <5> QED
          BY <5>1 DEF Pending
      <4> QED
        BY <4>2
    <3>3. p \in Seq(Data) /\ Len(p) = Len(s)
      <4>1. p = [i \in 1 .. Len(s) |-> k'.elem[s[i]]]
        BY DEF Pending, Sending
      <4> DEFINE g == k'.elem
      <4>a. p = [i \in 1 .. Len(s) |-> g[s[i]]] /\ s \in Seq(Task)
        BY <1>1, <4>1
      <4>b. \A i \in 1 .. Len(s) : \E j \in 1 .. Len(Sending) : Sending[j] = s[i] /\ g[s[i]] = k.elem[s[i]]
        BY <1>3
      <4> HIDE DEF p, s, g
      <4>2. Len(s) \in Nat
        BY <4>a
      <4>3. ASSUME NEW i \in 1 .. Len(s) PROVE g[s[i]] \in Data
        <5>1. PICK j \in 1 .. Len(Sending) : Sending[j] = s[i] /\ g[s[i]] = k.elem[s[i]]
          BY <4>b
        <5>2. k.elem[Sending[j]] \in Data
          BY <3>2
        <5> QED
          BY <5>1, <5>2
      <4> QED
        BY <4>a, <4>2, <4>3
    <3>4. /\ dque.num_entries \in Capacities \cup {0} /\ dque \in Fifo(dque.num_entries)
          /\ ~dque.exists => Sending = <<>> /\ Receiving = <<>>
          /\ dque.exists /\ Receiving # <<>> => Vacant(dque) /\ Sending = <<>>
          /\ dque.exists /\ Sending # <<>> => Crammed(dque)
      BY <1>4 DEF Proper
    <3> HIDE DEF s, r, p
    <3>5. /\ ~dque.exists => s = <<>> /\ r = <<>>
          /\ dque.exists /\ r # <<>> => Vacant(dque) /\ s = <<>>
          /\ dque.exists /\ s # <<>> => Crammed(dque)
      BY <1>2, <3>1, <3>4
    <3> QED
      BY <1>1, <3>1, <3>3, <3>4, <3>5 DEF Proper
  <2> QED
    BY <2>1, <2>2
<1>6. Proper(Told, dque', order', Sending', Receiving', Pending')
  BY <1>5
<1>7. ("queue_send" \notin services => Sending' = <<>>)
      /\ ("queue_receive" \notin services => Receiving' = <<>>)
  BY <1>2 DEF QueueInv
<1> QED
  BY <1>6, <1>7, QueueKeeps

\* While the delete of the queue is at its end, no other step moves the tasks.
AtLast == pc[k.curr][1] \in DeletePlaces /\ pc[k.curr][2] = "receive" /\ services \cap Preempting = {}
LEMMA LastIs ==
  ASSUME Steady, QueueInv, "queue_receive" \notin services, pc[k.curr] \in LastPlaces
  PROVE  AtLast /\ pc[k.curr][1] # "delSwitch"
<1>1. k.curr \in Task
  BY KernelFields, SoundFacts DEF Steady, KInv
<1>2. pc[k.curr][1] \in DeletePlaces /\ pc[k.curr][2] = "receive" /\ pc[k.curr][1] # "delSwitch"
  BY <1>1 DEF LastPlaces, QueueInv, Concluding
<1>3. "queue_delete" \in services
  BY <1>1, <1>2 DEF Steady, Closing, Deleter
<1>4. services \cap Preempting = {}
  BY <1>3 DEF Steady, Closing, Careful, Deleting
<1> QED
  BY <1>2, <1>4 DEF AtLast

LEMMA SemAtLast ==
  ASSUME AtLast, SemStep
  PROVE  k' = k /\ pc' = pc
BY DEF AtLast, DeletePlaces, Preempting, SemStep, Acquire, AcquireReturns, Polling, IPolling, Signal,
       ISignal, SemCreate, SemDelete, SemDeleteEnds, WaitSwitches, DeleteLoop, DeleteTests,
       DeleteTakes, DeleteSwitches, DeleteLoopOver, WaitReturns, Calls, Place

LEMMA EventAtLast ==
  ASSUME AtLast, EventStep
  PROVE  k' = k /\ pc' = pc
<1>1. ASSUME NEW s PROVE ~Calls(s)
  BY DEF AtLast, DeletePlaces, Calls, Place
<1>2. ~(WaitSwitches("event") \/ DeleteLoop("event", WithoutFirst("event")))
      /\ ~EventDelete /\ ~EventDeleteEnds /\ ~EventReturns
  BY <1>1 DEF AtLast, EventReturns, EventDelete, EventDeleteEnds, WaitSwitches, DeleteLoop,
              DeleteTests, DeleteTakes, DeleteSwitches, DeleteLoopOver, WaitReturns
<1>3. \A attr \in EventAttrs : ~EventCreate(attr)
  BY <1>1 DEF EventCreate
<1>4. ASSUME NEW w \in Waits
      PROVE  /\ \A timeout \in EventTimeouts : ~EventWaits(w, timeout)
             /\ EventTakes(w) => k' = k /\ pc' = pc
  BY <1>1 DEF EventWaits, EventTakes
<1>5. ASSUME NEW flags \in SUBSET Flag
      PROVE  /\ ~EventSet(flags) /\ ~EventISet(flags)
             /\ EventClear(flags) => k' = k /\ pc' = pc
  BY <1>1 DEF EventSet, EventISet, EventClear, AtLast, Preempting
<1>6. ASSUME NEW w \in Waits, EventTakes(w) \/ \E timeout \in EventTimeouts : EventWaits(w, timeout)
      PROVE  k' = k /\ pc' = pc
  <2>1. EventTakes(w)
    BY <1>4, <1>6
  <2> QED
    BY <1>4, <2>1
<1>7. ASSUME NEW flags \in SUBSET Flag,
             (flags # {} /\ (EventSet(flags) \/ EventISet(flags))) \/ EventClear(flags)
      PROVE  k' = k /\ pc' = pc
  <2>1. EventClear(flags)
    BY <1>5, <1>7
  <2> QED
    BY <1>5, <2>1
<1> QED
  BY <1>2, <1>3, <1>6, <1>7 DEF EventStep

LEMMA MemAtLast ==
  ASSUME AtLast, MemStep
  PROVE  k' = k /\ pc' = pc
BY DEF AtLast, DeletePlaces, Preempting, MemStep, MemGets, MemWaits, MemReturns, MemRelease,
       MemIRelease, Frees, MemCreate, MemDelete, MemDeleteEnds, WaitSwitches, DeleteLoop,
       DeleteTests, DeleteTakes, DeleteSwitches, DeleteLoopOver, WaitReturns, Calls, Place

LEMMA ConcludingAside ==
  ASSUME Steady, QueueInv, services' = services,
         \A t \in Task : pc'[t] = pc[t] \/ pc'[t] \notin LastPlaces,
         AtLast /\ pc[k.curr][1] # "delSwitch" => k'.curr = k.curr /\ Queues(k') = Queues(k)
  PROVE  Concluding'
<1>1. CASE "queue_receive" \in services
  BY <1>1 DEF Concluding
<1>2. CASE "queue_receive" \notin services /\ pc[k.curr] \in LastPlaces
  <2>1. k'.curr = k.curr /\ Queues(k') = Queues(k)
    BY <1>2, LastIs
  <2> QED
    BY <2>1, ConcludingKept DEF Sending
<1>3. CASE pc[k.curr] \notin LastPlaces
  BY <1>3, ConcludingKept
<1> QED
  BY <1>1, <1>2, <1>3

\* The invariant of the kernel with its objects.
ObjectQueues == {"sem", "send", "receive", "event", "mem"}
OInv ==
  /\ Steady /\ SemInv /\ EventInv /\ QueueInv /\ MemInv
  /\ \A q \in WaitQ \ ObjectQueues : Queues(k)[q] = <<>>
  /\ granted \subseteq Task /\ mutexes = {}
  /\ \E p \in Programs : services = p.services

\* A step of another object, or of nobody.
LEMMA OtherStep ==
  ASSUME OInv, Steady', services' = services, mutexes' = mutexes, NEW Q \in SUBSET WaitQ, Beside(Q),
         Q \subseteq ObjectQueues,
         AtLast => k' = k /\ pc' = pc
  PROVE  /\ "sem" \notin Q /\ UNCHANGED <<sem, granted>> => SemInv' /\ (granted \subseteq Task)'
         /\ "event" \notin Q /\ UNCHANGED <<evf, asked>> => EventInv'
         /\ "mem" \notin Q /\ UNCHANGED <<fmp, owned>> => MemInv'
         /\ {"send", "receive"} \cap Q = {} /\ UNCHANGED <<dque, order>> => QueueInv'
         /\ (\A q \in WaitQ \ ObjectQueues : Queues(k)[q] = <<>>)'
         /\ mutexes' = {} /\ \E p \in Programs : services' = p.services
<1>1. \A q \in WaitQ : q \notin Q => SameAt(q)
  BY BesideSame
<1>2. ASSUME "sem" \notin Q, UNCHANGED <<sem, granted>>
      PROVE  SemInv' /\ (granted \subseteq Task)'
  BY <1>1, <1>2, SemWaitQ, SemAside DEF OInv, SameAt
<1>3. ASSUME "event" \notin Q, UNCHANGED <<evf, asked>>
      PROVE  EventInv'
  BY <1>1, <1>3, EventWaitQ, EventAside DEF OInv, SameAt
<1>4. ASSUME "mem" \notin Q, UNCHANGED <<fmp, owned>>
      PROVE  MemInv'
  BY <1>1, <1>4, PoolWaitQ, MemAside DEF OInv, SameAt
<1>5. ASSUME {"send", "receive"} \cap Q = {}, UNCHANGED <<dque, order>>
      PROVE  QueueInv'
  <2>1. SameAt("send") /\ SameAt("receive")
    BY <1>1, <1>5, QueueWaitQ
  <2>2. \A t \in Task : pc'[t] = pc[t] \/ pc'[t][2] \in Q \cup {Null}
    BY DEF Beside
  <2>3. \A t \in Task : pc'[t] = pc[t] \/ pc'[t] \notin LastPlaces
    BY <1>5, <2>2, QueueWaitQ DEF LastPlaces
  <2>4. Concluding'
    BY <2>3, ConcludingAside DEF OInv
  <2> QED
    BY <1>5, <2>1, <2>4, QueueAside DEF OInv, SameAt, Sending
<1>6. \A q \in WaitQ \ ObjectQueues : Queues(k')[q] = <<>>
  BY <1>1 DEF SameAt, OInv
<1> QED
  BY <1>2, <1>3, <1>4, <1>5, <1>6 DEF OInv

LEMMA KernelStepKeeps ==
  ASSUME Mutex = {}, OInv, KernelStep, UNCHANGED objects
  PROVE  OInv'
<1>1. Steady' /\ Apart
  BY KernelSteady DEF OInv
<1>2. services' = services
  BY DEF KernelStep
<1>3. /\ UNCHANGED <<sem, granted>> /\ UNCHANGED <<dque, order>> /\ UNCHANGED <<evf, asked>>
      /\ UNCHANGED <<fmp, owned>> /\ mutexes' = mutexes
  BY DEF objects
<1>4. \A q \in WaitQ : LessAt(q) /\ (Queues(k')[q] = Queues(k)[q] \/ "terminate" \in services)
  BY <1>1, ApartLess
<1>5. SemInv' /\ (granted \subseteq Task)'
  BY <1>2, <1>3, <1>4, SemWaitQ, SemAside DEF OInv
<1>6. EventInv'
  BY <1>1, <1>2, <1>3, <1>4, EventWaitQ, EventAside DEF OInv
<1>7. MemInv'
  <2>1. ASSUME Regained, "fmem_get" \in services
        PROVE  SameAt("mem")
    <3>1. ~Restarts /\ "terminate" \notin services
      BY <2>1 DEF Regained, Restarts
    <3> QED
      BY <1>1, <1>4, <3>1, PoolWaitQ, ApartLess DEF SameAt
  <2> QED
    BY <1>2, <1>3, <1>4, <2>1, PoolWaitQ, MemAside DEF OInv
<1>8. QueueInv'
  <2>1. \A t \in Task : pc'[t] = pc[t] \/ pc'[t][2] = Null
    BY <1>1 DEF Apart, Aside
  <2>2. \A t \in Task : pc'[t] = pc[t] \/ pc'[t] \notin LastPlaces
    BY <2>1, QueueWaitQ DEF LastPlaces
  <2>3. ASSUME AtLast, pc[k.curr][1] # "delSwitch"
        PROVE  k'.curr = k.curr /\ Queues(k') = Queues(k)
    BY <2>3, EndUndisturbed DEF AtLast, Undisturbed, OInv
  <2>4. Concluding'
    BY <1>2, <2>2, <2>3, ConcludingAside DEF OInv
  <2> QED
    BY <1>1, <1>2, <1>3, <1>4, <2>4, QueueWaitQ, QueueAside DEF OInv, Sending
<1>9. \A q \in WaitQ \ ObjectQueues : Queues(k')[q] = <<>>
  BY <1>4 DEF LessAt, OInv
<1> QED
  BY <1>1, <1>2, <1>3, <1>5, <1>6, <1>7, <1>8, <1>9 DEF OInv

\* A signal ends the wait of a task.
LEMMA SemGrantsTasks ==
  ASSUME Steady, granted \subseteq Task, SemStep
  PROVE  granted' \subseteq Task
<1>1. ASSUME ~NoWaiters("sem")
      PROVE  First("sem") \in Task
  <2>1. FirstOutIs("sem", Null)
    BY <1>1, SemWaitQ, FirstOut DEF Steady, KInv
  <2> QED
    BY <2>1 DEF FirstOutIs
<1>2. \/ granted' \subseteq granted
      \/ Grants
  BY DEF SemStep, Acquire, AcquireReturns, Polling, IPolling, Signal, ISignal, Counts, SemCreate,
         SemDelete, SemDeleteEnds
<1> QED
  BY <1>1, <1>2 DEF Grants

\* A step of the services of one object.
LEMMA ObjectStepKeeps ==
  ASSUME Mutex = {}, AllCareful, NoTimeouts, OInv, ONext, ~(KernelStep /\ UNCHANGED objects)
  PROVE  OInv'
<1>0. /\ Steady /\ SemInv /\ EventInv /\ QueueInv /\ MemInv /\ QueueCareful(services)
      /\ SemTimeouts \subseteq {Forever} /\ QueueTimeouts \subseteq {Forever}
      /\ EventTimeouts \subseteq {Forever} /\ MemTimeouts \subseteq {Forever}
  BY DEF OInv, AllCareful, NoTimeouts
<1>q. /\ "sem" \in WaitQ /\ "send" \in WaitQ /\ "receive" \in WaitQ /\ "event" \in WaitQ
      /\ "mem" \in WaitQ
  BY SemWaitQ, QueueWaitQ, EventWaitQ, PoolWaitQ
<1>1. CASE SemStep /\ UNCHANGED <<dque, order, evf, asked, fmp, owned, mutexes>>
  <2>1. Steady' /\ Beside({"sem"}) /\ SemInv'
    BY <1>0, <1>1, SemStepIs DEF SemOwn
  <2>2. granted' \subseteq Task
    BY <1>0, <1>1, SemGrantsTasks DEF OInv
  <2>3. services' = services /\ (AtLast => k' = k /\ pc' = pc)
    BY <1>1, SemAtLast DEF SemStep
  <2> DEFINE Q == {"sem"}
  <2>4. Q \in SUBSET WaitQ /\ Q \subseteq ObjectQueues /\ Beside(Q) /\ "event" \notin Q
        /\ "mem" \notin Q /\ {"send", "receive"} \cap Q = {}
    BY <1>q, <2>1 DEF ObjectQueues
  <2> HIDE DEF Q
  <2>5. /\ EventInv' /\ MemInv' /\ QueueInv'
        /\ (\A q \in WaitQ \ ObjectQueues : Queues(k)[q] = <<>>)'
        /\ mutexes' = {} /\ \E p \in Programs : services' = p.services
    BY <1>1, <2>1, <2>3, <2>4, OtherStep
  <2> QED
    BY <2>1, <2>2, <2>5 DEF OInv
<1>2. CASE QueueStep /\ UNCHANGED <<sem, granted, evf, asked, fmp, owned, mutexes>>
  <2>1. Steady' /\ Beside({"send", "receive"}) /\ QueueInv'
    BY <1>0, <1>2, QueueStepIs DEF QueueOwn
  <2>2. services' = services
    BY <1>2 DEF QueueStep
  <2>3. /\ SameAt("sem") /\ SameAt("event") /\ SameAt("mem")
        /\ \A q \in WaitQ \ ObjectQueues : SameAt(q)
    BY <1>q, <2>1, BesideSame DEF ObjectQueues
  <2>4. SemInv' /\ (granted \subseteq Task)'
    BY <1>0, <1>2, <2>2, <2>3, SemAside DEF OInv, SameAt
  <2>5. EventInv'
    BY <1>0, <1>2, <2>1, <2>2, <2>3, EventAside DEF SameAt
  <2>6. MemInv'
    BY <1>0, <1>2, <2>2, <2>3, MemAside DEF SameAt
  <2>7. \A q \in WaitQ \ ObjectQueues : Queues(k')[q] = <<>>
    BY <2>3 DEF SameAt, OInv
  <2> QED
    BY <1>2, <2>1, <2>2, <2>4, <2>5, <2>6, <2>7 DEF OInv
<1>3. CASE EventStep /\ UNCHANGED <<sem, granted, dque, order, fmp, owned, mutexes>>
  <2>1. Steady' /\ Beside({"event"}) /\ EventInv'
    BY <1>0, <1>3, EventStepIs DEF EventOwn
  <2>3. services' = services /\ (AtLast => k' = k /\ pc' = pc)
    BY <1>3, EventAtLast DEF EventStep
  <2> DEFINE Q == {"event"}
  <2>4. Q \in SUBSET WaitQ /\ Q \subseteq ObjectQueues /\ Beside(Q) /\ "sem" \notin Q
        /\ "mem" \notin Q /\ {"send", "receive"} \cap Q = {}
    BY <1>q, <2>1 DEF ObjectQueues
  <2> HIDE DEF Q
  <2>5. /\ SemInv' /\ (granted \subseteq Task)' /\ MemInv' /\ QueueInv'
        /\ (\A q \in WaitQ \ ObjectQueues : Queues(k)[q] = <<>>)'
        /\ mutexes' = {} /\ \E p \in Programs : services' = p.services
    BY <1>3, <2>1, <2>3, <2>4, OtherStep
  <2> QED
    BY <2>1, <2>5 DEF OInv
<1>4. CASE MemStep /\ UNCHANGED <<sem, granted, dque, order, evf, asked, mutexes>>
  <2>1. Steady' /\ Beside({"mem"}) /\ MemInv'
    BY <1>0, <1>4, MemStepIs DEF MemOwn
  <2>3. services' = services /\ (AtLast => k' = k /\ pc' = pc)
    BY <1>4, MemAtLast DEF MemStep
  <2> DEFINE Q == {"mem"}
  <2>4. Q \in SUBSET WaitQ /\ Q \subseteq ObjectQueues /\ Beside(Q) /\ "sem" \notin Q
        /\ "event" \notin Q /\ {"send", "receive"} \cap Q = {}
    BY <1>q, <2>1 DEF ObjectQueues
  <2> HIDE DEF Q
  <2>5. /\ SemInv' /\ (granted \subseteq Task)' /\ EventInv' /\ QueueInv'
        /\ (\A q \in WaitQ \ ObjectQueues : Queues(k)[q] = <<>>)'
        /\ mutexes' = {} /\ \E p \in Programs : services' = p.services
    BY <1>4, <2>1, <2>3, <2>4, OtherStep
  <2> QED
    BY <2>1, <2>5 DEF OInv
<1>5. ~MutexStep
  BY DEF MutexStep
<1> QED
  BY <1>1, <1>2, <1>3, <1>4, <1>5 DEF ONext

\* A step of nobody.
LEMMA NobodyKeeps ==
  ASSUME OInv, UNCHANGED ovars
  PROVE  OInv'
<1>0. /\ UNCHANGED <<k, pc, ticks, services>> /\ UNCHANGED <<sem, granted>> /\ UNCHANGED <<dque, order>>
      /\ UNCHANGED <<evf, asked>> /\ UNCHANGED <<fmp, owned>> /\ mutexes' = mutexes
  BY DEF ovars, objects
<1>1. Steady' /\ Minor("sem")
  BY <1>0, StillMinor DEF OInv, Minor
<1>2. \A u \in Task : View(k', k, u)
  BY <1>1 DEF Minor
<1> DEFINE Q == {}
<1>3. Q \in SUBSET WaitQ /\ Q \subseteq ObjectQueues /\ Beside(Q) /\ "sem" \notin Q
      /\ "event" \notin Q /\ "mem" \notin Q /\ {"send", "receive"} \cap Q = {}
  BY <1>0, <1>2 DEF Beside
<1> HIDE DEF Q
<1>4. /\ SemInv' /\ (granted \subseteq Task)' /\ EventInv' /\ MemInv' /\ QueueInv'
      /\ (\A q \in WaitQ \ ObjectQueues : Queues(k)[q] = <<>>)'
      /\ mutexes' = {} /\ \E p \in Programs : services' = p.services
  BY <1>0, <1>1, <1>3, OtherStep
<1> QED
  BY <1>1, <1>4 DEF OInv

\* The objects before any of them is created.
LEMMA QueuesBegin ==
  ASSUME Init, KInv
  PROVE  /\ \A t \in Task : pc[t] = <<"user", Null>> /\ k.pwait[t] = Null
         /\ \A q \in WaitQ : Queues(k)[q] = <<>>
<1>1. \A t \in Task : pc[t] = <<"user", Null>> /\ k.pwait[t] = Null
  BY DEF Init, KInv, Within
<1>2. ASSUME NEW q \in WaitQ
      PROVE  Queues(k)[q] = <<>>
  <2> SUFFICES ASSUME Queues(k)[q] # <<>> PROVE FALSE
    OBVIOUS
  <2>1. Sound(k) /\ q # Null
    BY CoreAssumption DEF KInv
  <2>2. 1 \in 1 .. Len(Queues(k)[q])
    BY <2>1, FirstIs DEF AtFirst
  <2>3. QueueFacts(k, q, 1)
    BY <2>1, <2>2, InQueue
  <2> QED
    BY <1>1, <2>1, <2>3 DEF QueueFacts, User
<1> QED
  BY <1>1, <1>2

LEMMA SteadyBegins ==
  ASSUME AllCareful, Init
  PROVE  Steady /\ \E p \in Programs : services = p.services
<1>1. \A p \in Programs : Orderly(p.services)
  BY DEF AllCareful, Careful
<1>2. KInv
  BY <1>1, InitInv
<1>3. \E p \in Programs : services = p.services
  BY DEF Init
<1>4. Careful(services)
  BY <1>3 DEF AllCareful
<1>5. Closing
  BY <1>2, <1>4, QueuesBegin DEF Closing, DeletePlaces
<1> QED
  BY <1>2, <1>3, <1>5 DEF Steady

LEMMA EventBegins ==
  ASSUME EventInit, Waiters = <<>>, \A t \in Task : ~Inside(pc[t], "event")
  PROVE  EventInv
<1> DEFINE a == [single |-> FALSE, clr |-> FALSE]
           A == [single: BOOLEAN, clr: BOOLEAN]
           P == SUBSET Flag
           e == {}
           x == FALSE
           B == BOOLEAN
<1>1. a \in A /\ e \in P /\ x \in B
  OBVIOUS
<1>2. evf = [NewEvent(a) EXCEPT !.exists = x] /\ NewEvent(a) = [pattern |-> e, attr |-> a, exists |-> TRUE]
  BY DEF EventInit, NewEvent
<1>3. asked \in [Task -> [pattern: SUBSET Flag, or: BOOLEAN]]
  <2>1. NoEvent \in [pattern: SUBSET Flag, or: BOOLEAN]
    BY DEF NoEvent
  <2> QED
    BY <2>1 DEF EventInit
<1>x. ~x
  OBVIOUS
<1> HIDE DEF a, A, P, e, x, B
<1>4. evf = [pattern |-> e, attr |-> a, exists |-> x]
  BY <1>2
<1>5. evf \in [pattern: P, attr: A, exists: B] /\ evf.exists = x
  BY <1>1, <1>4
<1>6. evf \in [pattern: SUBSET Flag, attr: [single: BOOLEAN, clr: BOOLEAN], exists: BOOLEAN]
      /\ ~evf.exists
  BY <1>5, <1>x DEF P, A, B
<1> QED
  BY <1>3, <1>6 DEF EventInv

LEMMA SemBegins ==
  ASSUME SemInit, Queues(k)["sem"] = <<>>, \A t \in Task : ~Inside(pc[t], "sem")
  PROVE  SemInv
<1>1. sem \in [count: 0 .. MaxVal, exists: BOOLEAN]
  BY SemWaitQ DEF SemInit, NewSem
<1> QED
  BY <1>1 DEF SemInv, Signalled

LEMMA MemBegins ==
  ASSUME MemInit, Queues(k)["mem"] = <<>>, \A t \in Task : ~Inside(pc[t], "mem")
  PROVE  MemInv
<1>1. Way = {}
  BY DEF Way
<1> DEFINE P == fmp
           e == k.elem
           x == FALSE
<1>2. P = [NewPool EXCEPT !.exists = x] /\ x \in BOOLEAN
  BY DEF MemInit
<1> HIDE DEF P, e, x
<1>3. \E F : FreeChain(P, F) /\ Shared(F, {}, e, {})
  BY <1>2, PoolBegins
<1>4. PoolInv
  BY <1>1, <1>3 DEF P, e, PoolInv, MemInit
<1>5. "exists" \in DOMAIN fmp
  BY <1>2, NewPoolIs DEF P
<1> QED
  BY <1>4, <1>5 DEF MemInv

LEMMA QueueStarts ==
  ASSUME QueueInit, Sending = <<>>, Receiving = <<>>, \A t \in Task : pc[t][1] = "user"
  PROVE  QueueInv
<1> DEFINE W == dque
           x == FALSE
           n == 0
           a == Told
<1>1. W = [NewQueue(n) EXCEPT !.exists = x] /\ x \in BOOLEAN /\ n \in Capacities \cup {0}
  BY DEF QueueInit
<1> HIDE DEF W, x, n, a
<1>2. Proper(a, W, <<>>, <<>>, <<>>, <<>>)
  BY <1>1, QueueBegins
<1>3. order = <<>> /\ Pending = <<>>
  BY DEF QueueInit, Pending
<1>4. Concluding
  BY DEF Concluding, LastPlaces, DeletePlaces
<1> QED
  BY <1>2, <1>3, <1>4 DEF W, a, QueueInv

LEMMA ObjectsBegin ==
  ASSUME Mutex = {}, AllCareful, OInit
  PROVE  OInv
<1>1. Steady /\ \E p \in Programs : services = p.services
  BY SteadyBegins DEF OInit
<1>2. /\ \A t \in Task : pc[t] = <<"user", Null>>
      /\ \A q \in WaitQ : Queues(k)[q] = <<>>
  BY <1>1, QueuesBegin DEF OInit, Steady
<1>3. \A t \in Task : \A q : ~Inside(pc[t], q)
  BY <1>2 DEF Inside
<1>4. SemInv /\ granted \subseteq Task
  BY <1>2, <1>3, SemWaitQ, SemBegins DEF OInit, SemInit
<1>5. EventInv
  BY <1>2, <1>3, EventWaitQ, EventBegins DEF OInit, Waiters
<1>6. MemInv
  BY <1>2, <1>3, PoolWaitQ, MemBegins DEF OInit
<1>7. QueueInv
  BY <1>2, QueueWaitQ, QueueStarts DEF OInit, Sending, Receiving
<1>8. mutexes = {}
  BY DEF OInit, MutexInit
<1> QED
  BY <1>1, <1>2, <1>4, <1>5, <1>6, <1>7, <1>8 DEF OInv

\* The invariant of the kernel with its objects, whatever services interleave
\* (but for those AllCareful leaves out).
THEOREM ObjectsInvariant ==
  ASSUME Mutex = {}, AllCareful, NoTimeouts
  PROVE  OSpec => []OInv
<1>1. OInit => OInv
  BY ObjectsBegin
<1>2. OInv /\ [ONext]_ovars => OInv'
  BY KernelStepKeeps, ObjectStepKeeps, NobodyKeeps
<1> QED
  BY <1>1, <1>2, PTL DEF OSpec

-----------------------------------------------------------------------------
(* The properties of the objects.                                          *)

LEMMA WaitersHeld ==
  ASSUME Steady, NEW q \in WaitQ
  PROVE  HoldsWaiters(q, {Why(q)}) /\ (NoWaiters(q) <=> Queues(k)[q] = <<>>)
<1> DEFINE s == Queues(k)[q]
           w == Entries(k, Wait(q))
<1>1. Sound(k) /\ q # Null
  BY CoreAssumption DEF Steady, KInv
<1>2. WaitLists(k.link, Queues(k)) /\ k.link \in Memory(Node)
  BY <1>1, SoundFacts DEF Sched, Listed
<1>3. WaitWalkIs(k.link, q, s)
  BY <1>2, WaitWalk
<1>4. w = Tqs(s) /\ WellFormed(k.link, Wait(q)) /\ (NoWaiters(q) <=> s = <<>>)
  BY <1>3 DEF WaitWalkIs, Entries, NoWaiters
<1>5. s \in Seq(Task) /\ Len(s) \in Nat
  BY <1>2 DEF WaitLists
<1>6. \A t \in Task : WaitsFor(t, {Why(q)}) /\ k.pwait[t] = q
                        <=> \E i \in 1 .. Len(s) : s[i] = t
  <2> SUFFICES ASSUME NEW t \in Task
               PROVE  WaitsFor(t, {Why(q)}) /\ k.pwait[t] = q <=> \E i \in 1 .. Len(s) : s[i] = t
    OBVIOUS
  <2>1. OneTask(k, Queues(k), t)
    BY <1>1, SoundFacts
  <2>2. In(Queues(k), q, t) <=> k.pwait[t] = q
    BY <2>1 DEF OneTask
  <2>3. k.pwait[t] = q => WaitsFor(t, {Why(q)})
    BY <1>1, <2>1 DEF OneTask, WaitsFor
  <2> QED
    BY <2>2, <2>3 DEF In
<1>7. ToSet(w) = {Tq(t) : t \in {u \in Task : WaitsFor(u, {Why(q)}) /\ k.pwait[u] = q}}
  <2>1. ToSet(w) = {Tq(s[i]) : i \in 1 .. Len(s)}
    BY <1>4 DEF Tqs, ToSet
  <2> DEFINE P(u) == WaitsFor(u, {Why(q)}) /\ k.pwait[u] = q
             A == {Tq(s[i]) : i \in 1 .. Len(s)}
             B == {Tq(t) : t \in {u \in Task : P(u)}}
  <2>2. \A i \in 1 .. Len(s) : s[i] \in Task
    BY <1>5
  <2>3. \A t \in Task : P(t) <=> \E i \in 1 .. Len(s) : s[i] = t
    BY <1>6
  <2> HIDE DEF s, w, P
  <2>4. A \subseteq B
    BY <2>2, <2>3
  <2>5. B \subseteq A
    BY <2>3
  <2> HIDE DEF A, B
  <2>6. A = B
    BY <2>4, <2>5
  <2> QED
    BY <2>1, <2>6 DEF A, B, P
<1> QED
  BY <1>4, <1>7 DEF HoldsWaiters

\* Inside a service a task waits as long as its TCB names a queue.
LEMMA InsideWaits ==
  ASSUME Steady, NEW q \in WaitQ, NEW t \in Task, Inside(pc[t], q)
  PROVE  /\ WaitsFor(t, {Why(q)}) <=> k.pwait[t] # Null
         /\ k.pwait[t] # Null => k.pwait[t] = q
<1>1. Sound(k) /\ q # Null
  BY CoreAssumption DEF Steady, KInv
<1>2. OneTask(k, Queues(k), t)
  BY <1>1, SoundFacts
<1>3. k.pwait[t] # Null => k.pwait[t] = q
  BY WaitingFacts DEF Inside
<1>4. Why(q) # "none" /\ Why(q) # "sleep"
  BY DEF Why
<1> QED
  BY <1>2, <1>3, <1>4 DEF OneTask, WaitsFor

LEMMA SemProps ==
  ASSUME OInv
  PROVE  /\ SemWaitsForAReason
         /\ ~({"suspend", "sem_delete"} \subseteq services) => OkIsASignal
<1>0. Steady /\ SemInv /\ "sem" \in WaitQ /\ Why("sem") = "sem"
  BY SemWaitQ DEF OInv, Why
<1>1. SemWaitsForAReason
  <2>1. HoldsWaiters("sem", {"sem"}) /\ (NoWaiters("sem") <=> Queues(k)["sem"] = <<>>)
    BY <1>0, WaitersHeld
  <2> QED
    BY <1>0, <2>1 DEF SemInv, SemWaitsForAReason
<1>2. ASSUME ~({"suspend", "sem_delete"} \subseteq services)
      PROVE  OkIsASignal
  <2> SUFFICES ASSUME NEW t \in Task, Inside(pc[t], "sem")
               PROVE  /\ t \in granted => ~WaitsFor(t, {"sem"})
                      /\ ~WaitsFor(t, {"sem"}) => (k.rc[t] = "ok" <=> t \in granted)
    BY DEF OkIsASignal, Inside
  <2>1. WaitsFor(t, {"sem"}) <=> k.pwait[t] # Null
    BY <1>0, InsideWaits
  <2>2. IF k.pwait[t] # Null THEN t \notin granted ELSE (k.rc[t] = "ok" <=> t \in granted)
    BY <1>0, <1>2 DEF SemInv, Signalled
  <2> QED
    BY <2>1, <2>2
<1> QED
  BY <1>1, <1>2

LEMMA EventProps ==
  ASSUME OInv
  PROVE  EventWaitsForAReason /\ PatternFulfils
<1>0. Steady /\ EventInv /\ "event" \in WaitQ /\ Why("event") = "event" /\ Sound(k)
  BY EventWaitQ DEF OInv, Why, Steady, KInv
<1>1. HoldsWaiters("event", {"event"})
  BY <1>0, WaitersHeld
<1>2. ASSUME evf.exists, NEW t \in Task, WaitsFor(t, {"event"})
      PROVE  ~Released(k.ewait[t], evf.pattern)
  <2>1. OneTask(k, Queues(k), t)
    BY <1>0, SoundFacts
  <2>2. k.pwait[t] # Null /\ Why(k.pwait[t]) = "event"
    BY <1>2, <2>1 DEF OneTask, WaitsFor
  <2>3. k.pwait[t] \in WaitQ
    <3>1. pc[t][2] = k.pwait[t] /\ pc[t] \in Spots
      BY <1>0, <2>2, WaitingFacts DEF Steady, KInv
    <3> QED
      BY <2>2, <3>1 DEF Spots
  <2>4. \E m \in 1 .. Len(Queues(k)[k.pwait[t]]) : Queues(k)[k.pwait[t]][m] = t
    BY <1>0, <2>3, FoundIn
  <2>5. k.pwait[t] = "event"
    <3>1. k.pwait[t] \in ObjectQueues
      BY <2>3, <2>4 DEF OInv
    <3> QED
      BY <2>2, <3>1 DEF ObjectQueues, Why
  <2> QED
    BY <1>0, <1>2, <2>4, <2>5 DEF EventInv, Waiters
<1>3. PatternFulfils
  <2> SUFFICES ASSUME NEW t \in Task, Inside(pc[t], "event"), k.rc[t] = "ok", ~WaitsFor(t, {"event"})
               PROVE  Released(asked[t], k.ewait[t].pattern)
    BY DEF PatternFulfils, Inside
  <2>1. k.pwait[t] = Null
    BY <1>0, InsideWaits
  <2> QED
    BY <1>0, <2>1 DEF EventInv, Asks
<1> QED
  BY <1>1, <1>2, <1>3 DEF EventWaitsForAReason

\* The first of two sequences put together.
LEMMA HeadOfBoth ==
  ASSUME NEW S, NEW s \in Seq(S), NEW p \in Seq(S), s = <<>>
  PROVE  s \o p = p
OBVIOUS

LEMMA SendersDataIs ==
  ASSUME Steady
  PROVE  /\ SendersData = Pending
         /\ Sending # <<>> => DataOf(First(Senders)) = k.elem[Sending[1]] /\ 1 \in 1 .. Len(Sending)
<1> DEFINE s == Sending
           w == Entries(k, Wait("send"))
<1>1. Sound(k) /\ "send" \in WaitQ
  BY QueueWaitQ DEF Steady, KInv
<1>2. WaitLists(k.link, Queues(k)) /\ k.link \in Memory(Node)
  BY <1>1, SoundFacts DEF Sched, Listed
<1>3. WaitWalkIs(k.link, "send", s)
  BY <1>1, <1>2, WaitWalk DEF Sending
<1>4. w = Tqs(s)
  BY <1>3 DEF WaitWalkIs, Entries
<1>5. s \in Seq(Task) /\ Len(s) \in Nat
  BY <1>1, <1>2 DEF WaitLists, Sending
<1>6. \A t \in Task : TaskOf(Tq(t)) = t /\ t # Wild /\ DataOf(t) = k.elem[t]
  BY NodeFacts, CoreAssumption DEF DataOf
<1>7. DOMAIN w = 1 .. Len(s) /\ \A i \in 1 .. Len(s) : w[i] = Tq(s[i]) /\ s[i] \in Task
  BY <1>4, <1>5 DEF Tqs
<1>8. SendersData = [i \in DOMAIN w |-> DataOf(TaskOf(w[i]))]
  BY DEF SendersData, Senders
<1>9. Pending = [i \in 1 .. Len(s) |-> k.elem[s[i]]]
  BY DEF Pending
<1>10. s # <<>> => First("send") = s[1] /\ 1 \in 1 .. Len(s)
  BY <1>3 DEF WaitWalkIs, First
<1>11. s # <<>> => DataOf(First("send")) = k.elem[s[1]]
  BY <1>6, <1>7, <1>10
<1> HIDE DEF s, w
<1>12. \A i \in 1 .. Len(s) : DataOf(TaskOf(w[i])) = k.elem[s[i]]
  BY <1>6, <1>7
<1>13. SendersData = Pending
  BY <1>7, <1>8, <1>9, <1>12
<1> QED
  BY <1>10, <1>11, <1>13 DEF s, Senders

LEMMA QueueProps ==
  ASSUME OInv
  PROVE  QueueWaitsForAReason /\ (Told => NothingLost)
<1>0. /\ Steady /\ QueueInv /\ "send" \in WaitQ /\ "receive" \in WaitQ
      /\ Why("send") = "wsend" /\ Why("receive") = "wreceive"
      /\ Proper(Told, dque, order, Sending, Receiving, Pending)
  BY QueueWaitQ DEF OInv, Why, QueueInv
<1>1. /\ HoldsWaiters("send", {"wsend"}) /\ (NoWaiters("send") <=> Sending = <<>>)
      /\ HoldsWaiters("receive", {"wreceive"}) /\ (NoWaiters("receive") <=> Receiving = <<>>)
  BY <1>0, WaitersHeld DEF Sending, Receiving
<1>2. /\ (FifoEmpty <=> Vacant(dque)) /\ (Full <=> Crammed(dque))
      /\ NumEntries \in Nat /\ dque \in Fifo(NumEntries)
      /\ Contents = Stored(dque)
  BY <1>0, QueueTests
<1>3. QueueWaitsForAReason
  BY <1>0, <1>1, <1>2 DEF Proper, QueueWaitsForAReason, Senders, Receivers
<1>4. ASSUME Told, dque.exists
      PROVE  /\ order = Contents \o SendersData
             /\ Something => Received = Head(order)
  <2> DEFINE S == Data \cup {Null}
             c == Stored(dque)
             p == Pending
             n == NumEntries
  <2>1. order = c \o p
    BY <1>0, <1>4 DEF Proper
  <2>2. n \in Nat /\ dque \in Fifo(n) /\ n = dque.num_entries
    BY <1>2 DEF NumEntries
  <2>3. /\ c \in Seq(S) /\ Len(c) = Count(dque) /\ Count(dque) \in Nat /\ p \in Seq(S)
        /\ Vacant(dque) => c = <<>>
        /\ n = 0 => Vacant(dque)
    BY <1>0, QueueFifo DEF NumEntries
  <2>4. ASSUME Something
        PROVE  Received = Head(order)
    <3>1. CASE Vacant(dque)
      <4>1. Sending # <<>> /\ Received = k.elem[Sending[1]] /\ 1 \in 1 .. Len(Sending)
        BY <1>0, <1>1, <1>2, <2>4, <3>1, SendersDataIs DEF Something, Received, Senders
      <4>2. p = [i \in 1 .. Len(Sending) |-> k.elem[Sending[i]]] /\ Len(p) = Len(Sending)
        BY <1>0 DEF Pending, Proper
      <4>3. p # <<>> /\ p[1] = Received
        BY <4>1, <4>2
      <4> HIDE DEF c, p, S
      <4>4. order = p
        BY <2>1, <2>3, <3>1, HeadOfBoth
      <4>5. Head(p) = p[1]
        BY <2>3, <4>3
      <4> QED
        BY <4>3, <4>4, <4>5
    <3>2. CASE ~Vacant(dque)
      <4>1. Count(dque) > 0 /\ n > 0 /\ Received = dque.data_fifo[dque.tail_cnt]
        BY <1>2, <2>2, <2>3, <3>2 DEF Vacant, Received
      <4> DEFINE D == dque
                 R == Lost(D, n)
      <4>2. n \in Nat /\ n > 0 /\ D \in Fifo(n) /\ Count(D) > 0
        BY <2>2, <4>1
      <4> HIDE DEF n, D, R
      <4>3. Stored(D)[1] = D.data_fifo[D.tail_cnt]
        BY <4>2, FifoLoses
      <4>4. c # <<>> /\ c[1] = Received
        BY <2>3, <4>1, <4>3 DEF D
      <4> HIDE DEF c, p, S
      <4>5. Head(c \o p) = c[1]
        BY <2>3, <4>4, CutFirst
      <4> QED
        BY <2>1, <4>4, <4>5
    <3> QED
      BY <3>1, <3>2
  <2>5. order = Contents \o SendersData
    BY <1>0, <1>2, <2>1, SendersDataIs
  <2> QED
    BY <2>4, <2>5
<1> QED
  BY <1>3, <1>4 DEF NothingLost

\* The blocks on their way, as the property names them.
LEMMA OnTheWayIs ==
  ASSUME Steady
  PROVE  OnTheWay = Way
<1>1. ASSUME NEW t \in Task
      PROVE  t \in OnTheWay <=> t \in Way
  <2>1. "mem" \in WaitQ /\ Why("mem") = "wfixmem"
    BY PoolWaitQ DEF Why
  <2>2. Inside(pc[t], "mem") => (WaitsFor(t, {"wfixmem"}) <=> k.pwait[t] # Null)
    BY <2>1, InsideWaits
  <2> QED
    BY <2>2 DEF OnTheWay, Way, Inside
<1> QED
  BY <1>1 DEF OnTheWay, Way

LEMMA Images ==
  ASSUME NEW W, IsFiniteSet(W), NEW e, \A t, u \in W : e[t] = e[u] => t = u
  PROVE  LET E == {e[t] : t \in W} IN IsFiniteSet(E) /\ Cardinality(E) = Cardinality(W)
<1> DEFINE E == {e[t] : t \in W}
           f == [t \in W |-> e[t]]
<1>1. f \in [W -> E] /\ (\A t, u \in W : f[t] = f[u] => t = u) /\ \A b \in E : \E t \in W : f[t] = b
  OBVIOUS
<1> HIDE DEF f, E
<1>2. ExistsBijection(W, E)
  BY <1>1 DEF ExistsBijection, Bijection, Injection, Surjection, IsInjective
<1> QED
  BY <1>2, FS_Bijection DEF E

LEMMA Three ==
  ASSUME NEW A, NEW B, NEW C, IsFiniteSet(A), IsFiniteSet(B), IsFiniteSet(C),
         A \cap B = {}, A \cap C = {}, B \cap C = {}
  PROVE  Cardinality((A \cup B) \cup C) = (Cardinality(A) + Cardinality(B)) + Cardinality(C)
<1>1. ASSUME NEW S, NEW T, IsFiniteSet(S), IsFiniteSet(T), S \cap T = {}
      PROVE  IsFiniteSet(S \cup T) /\ Cardinality(S \cup T) = Cardinality(S) + Cardinality(T)
  <2> DEFINE a == Cardinality(S)
             b == Cardinality(T)
             c == Cardinality(S \cap T)
             d == Cardinality(S \cup T)
  <2>1. IsFiniteSet(S \cup T) /\ d = a + (b - c)
    BY <1>1, FS_Union
  <2>2. a \in Nat /\ b \in Nat
    BY <1>1, FS_CardinalityType
  <2>3. c = 0
    BY <1>1, FS_EmptySet
  <2> HIDE DEF a, b, c, d
  <2>4. d = a + b
    BY <2>1, <2>2, <2>3
  <2> QED
    BY <2>1, <2>4 DEF a, b, d
<1> DEFINE D == A \cup B
<1>2. IsFiniteSet(D) /\ Cardinality(D) = Cardinality(A) + Cardinality(B)
  BY <1>1
<1>3. D \cap C = {}
  OBVIOUS
<1> HIDE DEF D
<1>4. Cardinality(D \cup C) = Cardinality(D) + Cardinality(C)
  BY <1>1, <1>2, <1>3
<1> QED
  BY <1>2, <1>4 DEF D

-----------------------------------------------------------------------------
(* The pool's blocks, deleted objects, and the types.                      *)

LEMMA MemProps ==
  ASSUME OInv, Regained
  PROVE  BlocksPartitioned
<1>0. Steady /\ MemInv /\ PoolInv /\ "mem" \in WaitQ /\ Why("mem") = "wfixmem"
  BY PoolWaitQ DEF OInv, Why, MemInv
<1>1. PICK F : FreeChain(fmp, F) /\ Shared(F, Way, k.elem, owned)
  BY <1>0 DEF PoolInv
<1>2. HoldsWaiters("mem", {"wfixmem"}) /\ (NoWaiters("mem") <=> Queues(k)["mem"] = <<>>)
  BY <1>0, WaitersHeld
<1>3. fmp.fblkcnt > 0 => NoWaiters("mem")
  BY <1>0, <1>2 DEF PoolInv
<1>4. FreeList = F /\ OnTheWay = Way
  BY <1>0, <1>1, FreeListIs, OnTheWayIs
<1> DEFINE e == k.elem
           W == Way
           O == owned
           n == fmp.fblkcnt
           E == {e[t] : t \in W}
           A == ToSet(F)
<1>5. /\ F \in Seq(Block) /\ Len(F) = n
      /\ \A i, j \in 1 .. Len(F) : F[i] = F[j] => i = j
  BY <1>1 DEF FreeChain
<1>6. /\ O \subseteq Block /\ \A b \in O : b \notin Named(F)
      /\ \A t \in W : e[t] \in Block /\ e[t] \notin Named(F) /\ e[t] \notin O
      /\ \A t, u \in W : e[t] = e[u] => t = u
      /\ \A b \in Block : b \in Named(F) \/ b \in O \/ \E t \in W : e[t] = b
  BY <1>1 DEF Shared
<1>7. A = Named(F)
  BY <1>5 DEF ToSet, Named
<1>8. IsFiniteSet(W)
  <2>1. Way \subseteq Task
    BY DEF Way
  <2> QED
    BY <2>1, CoreAssumption, FS_Subset
<1> HIDE DEF e, W, O, n, A
<1>9. IsFiniteSet(A) /\ Cardinality(A) = n /\ A \subseteq Block
  BY <1>5, <1>7, NamedCount
<1>10. IsFiniteSet(E) /\ Cardinality(E) = Cardinality(W)
  BY <1>6, <1>8, Images
<1>11. IsFiniteSet(O) /\ IsFiniteSet(Block) /\ Cardinality(Block) = NumBlocks
  BY <1>6, BlockCount, FS_Subset
<1>12. A \cap E = {} /\ A \cap O = {} /\ E \cap O = {}
  BY <1>6, <1>7
<1>13. (A \cup E) \cup O = Block
  <2>1. \A b \in Block : b \in A \/ b \in O \/ b \in E
    BY <1>6, <1>7
  <2>2. E \subseteq Block
    BY <1>6
  <2> HIDE DEF E
  <2> QED
    BY <2>1, <2>2, <1>6, <1>9
<1> HIDE DEF E
<1>14. (n + Cardinality(W)) + Cardinality(O) = NumBlocks
  <2>1. Cardinality((A \cup E) \cup O) = (Cardinality(A) + Cardinality(E)) + Cardinality(O)
    BY <1>9, <1>10, <1>11, <1>12, Three
  <2> QED
    BY <2>1, <1>9, <1>10, <1>11, <1>13
<1>15. Len(F) = n /\ Cardinality(A) = n /\ Cardinality(E) = Cardinality(W)
  BY <1>5, <1>9, <1>10
<1> QED
  BY <1>2, <1>3, <1>4, <1>13, <1>14, <1>15 DEF BlocksPartitioned, e, W, O, n, A, E

LEMMA DeletedProps ==
  ASSUME Mutex = {}, OInv
  PROVE  DeletedHasNoWaiters
<1>1. Steady /\ SemInv /\ EventInv /\ QueueInv /\ MemInv
  BY DEF OInv
<1>2. /\ "sem" \in WaitQ /\ "send" \in WaitQ /\ "receive" \in WaitQ /\ "event" \in WaitQ
      /\ "mem" \in WaitQ
  BY SemWaitQ, QueueWaitQ, EventWaitQ, PoolWaitQ
<1>3. \A q \in WaitQ : Queues(k)[q] = <<>> => NoWaiters(q)
  BY <1>1, WaitersHeld
<1>4. ~sem.exists => Queues(k)["sem"] = <<>>
  BY <1>1 DEF SemInv
<1>5. ~dque.exists => Queues(k)["send"] = <<>> /\ Queues(k)["receive"] = <<>>
  BY <1>1 DEF QueueInv, Proper, Sending, Receiving
<1>6. ~evf.exists => Queues(k)["event"] = <<>>
  BY <1>1 DEF EventInv, Waiters
<1>7. ~fmp.exists => Queues(k)["mem"] = <<>>
  BY <1>1 DEF MemInv
<1> QED
  BY <1>2, <1>3, <1>4, <1>5, <1>6, <1>7 DEF DeletedHasNoWaiters, Senders, Receivers

LEMMA TypeProps ==
  ASSUME OInv, Regained, Told
  PROVE  ObjectsTypeOK
<1>1. Steady /\ SemInv /\ EventInv /\ QueueInv /\ MemInv /\ PoolInv
  BY DEF OInv, MemInv
<1>2. KernelTypeOK
  <2>1. k \in Kernel
    BY <1>1, SoundFacts DEF Steady, KInv
  <2>2. pc \in [Task -> Spots] /\ ticks \in [Prio -> Nat]
    BY <1>1 DEF Steady, KInv
  <2>3. Spots \subseteq Places \X (WaitQ \cup {Null})
    BY DEF Spots, Places
  <2> QED
    BY <2>1, <2>2, <2>3 DEF KernelTypeOK
<1>3. QueueTypeOK
  <2>1. /\ dque.num_entries \in Capacities \cup {0} /\ dque \in Fifo(dque.num_entries)
        /\ order \in Seq(Data)
    BY <1>1 DEF QueueInv, Proper
  <2> DEFINE n == dque.num_entries
  <2>2. dque \in [num_entries: Capacities \cup {0}, exists: BOOLEAN,
                  data_fifo: [0 .. n - 1 -> Data \cup {Null}],
                  header_cnt: {0} \cup 0 .. n - 1, tail_cnt: {0} \cup 0 .. n - 1]
    <3> DEFINE C == Capacities \cup {0}
               B == BOOLEAN
               X == {0} \cup 0 .. n - 1
               M == [0 .. n - 1 -> Data \cup {Null}]
    <3>1. dque \in [num_entries: {n}, exists: B, data_fifo: M, header_cnt: X, tail_cnt: X]
          /\ n \in C
      BY <2>1 DEF Fifo, Index
    <3> HIDE DEF n, C, B, X, M
    <3>2. dque \in [num_entries: C, exists: B, data_fifo: M, header_cnt: X, tail_cnt: X]
      BY <3>1
    <3> QED
      BY <3>2 DEF C, B, X, M, n
  <2> QED
    BY <2>1, <2>2 DEF QueueTypeOK, NumEntries
<1>4. sem \in [count: Nat, exists: BOOLEAN] /\ granted \subseteq Task
  <2>1. 0 .. MaxVal \subseteq Nat
    OBVIOUS
  <2> DEFINE N == 0 .. MaxVal
             B == BOOLEAN
             M == Nat
  <2>2. sem \in [count: N, exists: B] /\ N \subseteq M
    BY <1>1, <2>1 DEF SemInv
  <2> HIDE DEF N, B, M
  <2>3. sem \in [count: M, exists: B]
    BY <2>2
  <2> QED
    BY <2>3 DEF B, M, OInv
<1>5. evf \in [pattern: SUBSET Flag, attr: [single: BOOLEAN, clr: BOOLEAN], exists: BOOLEAN]
  BY <1>1 DEF EventInv
<1>6. /\ fmp \in [free_list: Block \cup {Null}, fblkcnt: 0 .. NumBlocks, exists: BOOLEAN,
                  cell: [Block -> Block \cup {Null}]]
      /\ owned \subseteq Block
  <2>1. PICK F : FreeChain(fmp, F) /\ Shared(F, Way, k.elem, owned)
    BY <1>1 DEF PoolInv
  <2> QED
    BY <2>1 DEF FreeChain, Shared
<1>7. mutexes \subseteq Mutex
  BY DEF OInv
<1> QED
  BY <1>2, <1>3, <1>4, <1>5, <1>6, <1>7 DEF ObjectsTypeOK

-----------------------------------------------------------------------------
(* The theorems.                                                           *)

LEMMA ProgramKept ==
  ASSUME OInv
  PROVE  /\ (\A p \in Programs : Answers(p.services)) => Answers(services)
         /\ (\A p \in Programs : Sends(p.services)) => Told
         /\ (\A p \in Programs : Returns(p.services)) => Regained
<1>1. PICK p \in Programs : services = p.services
  BY DEF OInv
<1>2. Answers(p.services) => Answers(services)
  BY <1>1
<1>3. Sends(p.services) => Told
  BY <1>1 DEF Sends, Told
<1>4. Returns(p.services) => Regained
  BY <1>1 DEF Returns, Regained, Restarts
<1> QED
  BY <1>2, <1>3, <1>4

\* A semaphore's wait queue is intact and holds exactly the tasks that wait for
\* it, none of them while the count is positive, and tn_sem_signal keeps the
\* count within max_count.
THEOREM SemaphoreWaits ==
  ASSUME Mutex = {}, AllCareful, NoTimeouts
  PROVE  OSpec => []SemWaitsForAReason
<1>1. OInv => SemWaitsForAReason
  BY SemProps
<1> QED
  BY <1>1, ObjectsInvariant, PTL

\* tn_sem_acquire returns TERR_NO_ERR exactly when a signal has ended the wait,
\* however late the task runs again.
THEOREM SemaphoreAnswers ==
  ASSUME Mutex = {}, AllCareful, NoTimeouts, \A p \in Programs : Answers(p.services)
  PROVE  OSpec => []OkIsASignal
<1>1. OInv => OkIsASignal
  BY SemProps, ProgramKept DEF Answers
<1> QED
  BY <1>1, ObjectsInvariant, PTL

\* No task waits for flags of an event that are set, and the event's wait queue
\* is intact and holds exactly the tasks that wait for it: scan_event_waitqueue
\* misses none and releases none too early.
THEOREM EventReleases ==
  ASSUME Mutex = {}, AllCareful, NoTimeouts
  PROVE  OSpec => []EventWaitsForAReason
<1>1. OInv => EventWaitsForAReason
  BY EventProps
<1> QED
  BY <1>1, ObjectsInvariant, PTL

\* The pattern tn_event_wait returns with TERR_NO_ERR fulfils what the task has
\* asked for, although the event may have changed before the task runs.
THEOREM EventAnswers ==
  ASSUME Mutex = {}, AllCareful, NoTimeouts
  PROVE  OSpec => []PatternFulfils
<1>1. OInv => PatternFulfils
  BY EventProps
<1> QED
  BY <1>1, ObjectsInvariant, PTL

\* A task waits to receive only while the data queue is empty, to send only
\* while it is full, and both wait lists hold exactly the tasks that wait there.
THEOREM DataQueueWaits ==
  ASSUME Mutex = {}, AllCareful, NoTimeouts
  PROVE  OSpec => []QueueWaitsForAReason
<1>1. OInv => QueueWaitsForAReason
  BY QueueProps
<1> QED
  BY <1>1, ObjectsInvariant, PTL

\* What is sent to a data queue is neither lost nor doubled nor overtaken,
\* through the FIFO or through a task that waits.
THEOREM DataQueueDelivers ==
  ASSUME Mutex = {}, AllCareful, NoTimeouts, \A p \in Programs : Sends(p.services)
  PROVE  OSpec => []NothingLost
<1>1. OInv => NothingLost
  BY QueueProps, ProgramKept
<1> QED
  BY <1>1, ObjectsInvariant, PTL

\* Each block of a memory pool is in the free list, on its way to one task or
\* with the application, the free list is as long as fblkcnt says, and no task
\* waits for a block that is free.
THEOREM PoolKeepsBlocks ==
  ASSUME Mutex = {}, AllCareful, NoTimeouts, \A p \in Programs : Returns(p.services)
  PROVE  OSpec => []BlocksPartitioned
<1>1. OInv => BlocksPartitioned
  BY MemProps, ProgramKept
<1> QED
  BY <1>1, ObjectsInvariant, PTL

\* The deletes of tn_sem.c, tn_dqueue.c, tn_event.c and tn_mem.c, which loop with
\* task switches in between, leave no task that waits for the deleted object.
THEOREM DeletesReleaseAll ==
  ASSUME Mutex = {}, AllCareful, NoTimeouts
  PROVE  OSpec => []DeletedHasNoWaiters
<1>1. OInv => DeletedHasNoWaiters
  BY DeletedProps
<1> QED
  BY <1>1, ObjectsInvariant, PTL

\* The objects' data keep the types of tn.h; the indices of a data queue stay
\* inside data_fifo, and the first words of free blocks point to blocks.
THEOREM ObjectsTypes ==
  ASSUME Mutex = {}, AllCareful, NoTimeouts,
         \A p \in Programs : Sends(p.services) /\ Returns(p.services)
  PROVE  OSpec => []ObjectsTypeOK
<1>1. OInv => ObjectsTypeOK
  BY TypeProps, ProgramKept
<1> QED
  BY <1>1, ObjectsInvariant, PTL

=============================================================================
