--------------------------- MODULE FwuQueueProofs ---------------------------
(***************************************************************************)
(* Proofs about the packet ring of FwuQueue, for every ring size, word     *)
(* count and stream: in both directions the packets arrive whole and in    *)
(* order.  The inductive invariants say where the numbers of the stream    *)
(* are: received, held, in the ring (by their distance from tail_cnt), in  *)
(* the controller.                                                         *)
(*                                                                         *)
(* So both directions implement the FIFO channel of FwuChannel.  What the  *)
(* channel holds is the ring, the oldest packet first, and behind it the   *)
(* controller; what its reader holds is the slot stream_rx copies from.    *)
(***************************************************************************)
EXTENDS FwuQueue, SequenceTheorems, TLAPS

\* Entries from tail_cnt to slot s; the oldest entry of the ring has 0.
Dist(s) == IF s >= tail_cnt THEN s - tail_cnt ELSE s - tail_cnt + NumEntries

Held == IF ptr = NULL THEN 0 ELSE 1

\* The ring holds the packets after the first n, in order.
RingFrom(n) == \A s \in Slots : Dist(s) < Used => data_fifo[s] = Packet(n + Dist(s) + 1)

\* The slot stream_rx copies from is the one behind tail_cnt and still holds
\* the packet it took.
HeldIsNext == ptr # NULL => /\ NextSlot(ptr) = tail_cnt
                            /\ data_fifo[ptr] = Packet(Len(out) + 1)
                            /\ \A w \in 1 .. cpy : buf[w] = Len(out) + 1

HwFrom(n) == \A i \in 1 .. Len(hw) : hw[i] = n + i

RxIInv == /\ TypeOK
          /\ HeldIsNext
          /\ RingFrom(Len(out) + Held)
          /\ HwFrom(Len(out) + Held + Used)
          /\ sent = Len(out) + Held + Used + Len(hw)
          /\ InOrder

\* What main has filled of the free slot it got from fwu_queue_tst.
FillsNext == ptr # NULL => /\ ptr = header_cnt /\ ~Full /\ sent < MaxPackets
                           /\ \A w \in 1 .. cpy : data_fifo[ptr][w] = sent + 1

TxIInv == /\ TypeOK
          /\ FillsNext
          /\ RingFrom(Len(out))
          /\ sent = Len(out) + Used
          /\ InOrder
-----------------------------------------------------------------------------
(* Facts about the indices.                                                *)

\* A packet is a function from the words of an entry.
LEMMA PacketType == ASSUME NEW i \in Nat
                    PROVE  /\ Packet(i) \in [1 .. Words -> Nat]
                           /\ \A w \in 1 .. Words : Packet(i)[w] = i
  BY DEF Packet

\* The two tests of the code tell how full the ring is, and one slot is always
\* free: Used stays below NumEntries.
LEMMA RingFacts ==
  ASSUME header_cnt \in Slots, tail_cnt \in Slots
  PROVE  /\ Used \in 0 .. NumEntries - 1
         /\ Full <=> Used = NumEntries - 1
         /\ Empty <=> Used = 0
         /\ Dist(header_cnt) = Used
         /\ \A s \in Slots : Dist(s) \in 0 .. NumEntries - 1 /\ NextSlot(s) \in Slots
         /\ \A s \in Slots : Dist(s) = Used => s = header_cnt
         /\ \A s \in Slots : Dist(s) = 0 <=> s = tail_cnt
  BY QueueAssumption DEF Slots, Used, Full, Empty, Dist, NextSlot

\* header_cnt++ makes the ring one longer and moves no entry.
LEMMA HeaderStep ==
  ASSUME header_cnt \in Slots, tail_cnt \in Slots, ~Full,
         header_cnt' = NextSlot(header_cnt), tail_cnt' = tail_cnt
  PROVE  Used' = Used + 1 /\ \A s \in Slots : Dist(s)' = Dist(s)
  BY QueueAssumption DEF Slots, Used, Full, Dist, NextSlot

\* tail_cnt++ makes the ring one shorter and every other entry one older.
LEMMA TailStep ==
  ASSUME header_cnt \in Slots, tail_cnt \in Slots, ~Empty,
         tail_cnt' = NextSlot(tail_cnt), header_cnt' = header_cnt
  PROVE  /\ Used' = Used - 1
         /\ \A s \in Slots : s # tail_cnt => Dist(s)' = Dist(s) - 1
         /\ \A s \in Slots : s = tail_cnt => Dist(s)' = NumEntries - 1
  BY QueueAssumption DEF Slots, Used, Empty, Dist, NextSlot

\* Neither index moves.
LEMMA NoStep ==
  ASSUME UNCHANGED <<header_cnt, tail_cnt>>
  PROVE  Used' = Used /\ \A s : Dist(s)' = Dist(s)
  BY DEF Used, Dist
-----------------------------------------------------------------------------
(* Endpoint 2 OUT.                                                         *)

\* At the start nothing is anywhere.
LEMMA RxInit == Init => RxIInv
<1> SUFFICES ASSUME Init PROVE RxIInv
    OBVIOUS
<1>1. TypeOK
  <2>1. Packet(0) \in [1 .. Words -> Nat]
    BY PacketType
  <2>2. 0 \in Slots /\ 0 \in 0 .. Words
    BY QueueAssumption DEF Slots
  <2> QED
    BY <2>1, <2>2 DEF Init, TypeOK
<1>2. Used = 0 /\ Held = 0 /\ Len(out) = 0 /\ Len(hw) = 0
  BY DEF Init, Used, Held
<1>3. RingFrom(Len(out) + Held)
  BY <1>1, <1>2, RingFacts DEF RingFrom, TypeOK
<1> QED
  BY <1>1, <1>2, <1>3 DEF Init, RxIInv, HeldIsNext, HwFrom, InOrder

\* The host's packet is the last one under way.
LEMMA RxHostOut == RxIInv /\ HostOut => RxIInv'
<1> SUFFICES ASSUME RxIInv, HostOut PROVE RxIInv'
    OBVIOUS
<1> USE DEF RxIInv
<1>1. TypeOK'
  BY DEF TypeOK, HostOut
<1>2. Used' = Used /\ Held' = Held /\ out' = out /\ Used \in Nat /\ Held \in Nat /\ Len(out) \in Nat
  BY NoStep, RingFacts DEF HostOut, Held, TypeOK
<1>3. HeldIsNext'
  BY DEF HostOut, HeldIsNext, NextSlot
<1>4. RingFrom(Len(out) + Held)'
  BY <1>2, NoStep DEF HostOut, RingFrom
<1>5. /\ Len(hw') = Len(hw) + 1 /\ Len(hw) \in Nat
      /\ \A i \in 1 .. Len(hw) : hw'[i] = hw[i]
      /\ hw'[Len(hw) + 1] = sent + 1
  BY DEF HostOut, TypeOK
<1>7. HwFrom(Len(out) + Held + Used)'
  <2> SUFFICES ASSUME NEW i \in 1 .. Len(hw') PROVE hw'[i] = Len(out) + Held + Used + i
    BY <1>2 DEF HwFrom
  <2>1. CASE i \in 1 .. Len(hw)
    BY <1>5, <2>1 DEF HwFrom
  <2>2. CASE i = Len(hw) + 1
    BY <1>2, <1>5, <2>2
  <2> QED
    BY <1>5, <2>1, <2>2
<1>8. sent' = Len(out') + Held' + Used' + Len(hw')
  BY <1>2, <1>5 DEF HostOut
<1>6. InOrder'
  BY DEF HostOut, InOrder
<1> QED
  BY <1>1, <1>3, <1>4, <1>6, <1>7, <1>8

\* The interrupt fills the free slot behind the ring, never the held one.
LEMMA RxEpRxInt == RxIInv /\ EpRxInt => RxIInv'
<1> SUFFICES ASSUME RxIInv, EpRxInt PROVE RxIInv'
    OBVIOUS
<1> USE DEF RxIInv
<1>1. /\ header_cnt \in Slots /\ header_cnt' \in Slots
      /\ Head(hw) \in Nat /\ hw' = Tail(hw) /\ hw' \in Seq(Nat)
      /\ Len(hw) \in Nat \ {0} /\ Len(hw') = Len(hw) - 1
  BY RingFacts DEF TypeOK, EpRxInt
<1>2. TypeOK'
  BY <1>1, PacketType DEF TypeOK, EpRxInt
<1>3. /\ Used' = Used + 1 /\ Held' = Held /\ out' = out
      /\ Used \in Nat /\ Held \in Nat /\ Len(out) \in Nat
      /\ \A s \in Slots : Dist(s)' = Dist(s)
  BY HeaderStep, RingFacts DEF EpRxInt, Held, TypeOK
<1>4. Head(hw) = Len(out) + Held + Used + 1
  BY <1>1 DEF HwFrom
<1>5. ptr # NULL => ptr \in Slots /\ ptr # header_cnt
  BY RingFacts, QueueAssumption DEF TypeOK, HeldIsNext, EpRxInt, NextSlot, Slots, Full
<1>6. HeldIsNext'
  BY <1>5 DEF HeldIsNext, EpRxInt, NextSlot, TypeOK
<1>7. RingFrom(Len(out) + Held)'
  <2> SUFFICES ASSUME NEW s \in Slots, Dist(s)' < Used'
               PROVE  data_fifo'[s] = Packet(Len(out) + Held + Dist(s) + 1)
    BY <1>3 DEF RingFrom
  <2>1. CASE s = header_cnt
    BY <1>4, <2>1, RingFacts DEF EpRxInt, TypeOK
  <2>2. CASE s # header_cnt
    <3>1. Dist(s) < Used
      BY <1>3, <2>2, RingFacts DEF TypeOK
    <3> QED
      BY <2>2, <3>1 DEF EpRxInt, RingFrom, TypeOK
  <2> QED
    BY <2>1, <2>2
<1>8. HwFrom(Len(out) + Held + Used)'
  <2> SUFFICES ASSUME NEW i \in 1 .. Len(hw') PROVE hw'[i] = Len(out) + Held + Used + 1 + i
    BY <1>3 DEF HwFrom
  <2>1. hw'[i] = hw[i + 1] /\ i + 1 \in 1 .. Len(hw)
    BY <1>1 DEF TypeOK
  <2> QED
    BY <1>3, <2>1 DEF HwFrom
<1>9. sent' = Len(out') + Held' + Used' + Len(hw')
  BY <1>1, <1>3 DEF EpRxInt, TypeOK
<1>10. InOrder'
  BY DEF EpRxInt, InOrder
<1> QED
  BY <1>2, <1>6, <1>7, <1>8, <1>9, <1>10

\* The oldest packet of the ring becomes the held one.
LEMMA RxGet == RxIInv /\ Get => RxIInv'
<1> SUFFICES ASSUME RxIInv, Get PROVE RxIInv'
    OBVIOUS
<1> USE DEF RxIInv
<1>1. /\ tail_cnt \in Slots /\ tail_cnt' \in Slots
      /\ Used \in Nat \ {0} /\ Len(out) \in Nat
  BY RingFacts DEF TypeOK, Get
<1>2. TypeOK'
  BY <1>1, QueueAssumption, SMTT(60) DEF TypeOK, Get
<1>3. Used' = Used - 1 /\ Held = 0 /\ Held' = 1 /\ out' = out
  BY <1>1, TailStep DEF Get, Held, TypeOK, NULL, Slots
<1>4. HeldIsNext'
  <2>1. Dist(tail_cnt) = 0 /\ 0 < Used
    BY <1>1, RingFacts DEF TypeOK
  <2>2. Len(out) + Held + Dist(tail_cnt) + 1 = Len(out) + 1
    BY <1>1, <1>3, <2>1
  <2>3. data_fifo[tail_cnt] = Packet(Len(out) + 1)
    BY <1>1, <2>1, <2>2 DEF RingFrom
  <2> QED
    BY <1>3, <2>3 DEF HeldIsNext, Get, NextSlot
<1>5. RingFrom(Len(out) + Held)'
  <2> SUFFICES ASSUME NEW s \in Slots, Dist(s)' < Used'
               PROVE  data_fifo'[s] = Packet(Len(out) + 1 + Dist(s)' + 1)
    BY <1>3 DEF RingFrom
  <2>1. Dist(s) \in Nat /\ Used \in 0 .. NumEntries - 1
    BY RingFacts DEF TypeOK
  <2>2. s # tail_cnt => Dist(s)' = Dist(s) - 1
    BY TailStep DEF Get, TypeOK
  <2>3. s # tail_cnt
    BY <1>3, <2>1, TailStep, QueueAssumption DEF Get, TypeOK
  <2> QED
    BY <1>1, <1>3, <2>1, <2>2, <2>3 DEF Get, RingFrom
<1>6. HwFrom(Len(out) + Held + Used)' /\ sent' = Len(out') + Held' + Used' + Len(hw')
  BY <1>1, <1>3 DEF Get, HwFrom, TypeOK
<1>7. InOrder'
  BY DEF Get, InOrder
<1> QED
  BY <1>2, <1>4, <1>5, <1>6, <1>7

\* One more word of the held packet is copied; its slot still holds it.
LEMMA RxCopyOut == RxIInv /\ CopyOut => RxIInv'
<1> SUFFICES ASSUME RxIInv, CopyOut PROVE RxIInv'
    OBVIOUS
<1> USE DEF RxIInv
<1>1. ptr \in Slots /\ cpy + 1 \in 1 .. Words /\ Len(out) \in Nat
  BY QueueAssumption DEF TypeOK, CopyOut
<1>8. data_fifo[ptr][cpy + 1] = Len(out) + 1
  BY <1>1, PacketType DEF CopyOut, HeldIsNext
<1>2. TypeOK'
  BY <1>1, <1>8 DEF TypeOK, CopyOut
<1>3. Used' = Used /\ Held' = Held /\ out' = out /\ hw' = hw /\ sent' = sent
  BY NoStep DEF CopyOut, Held
<1>4. HeldIsNext'
  BY <1>1, <1>8 DEF HeldIsNext, CopyOut, NextSlot, TypeOK
<1>5. RingFrom(Len(out) + Held)'
  BY <1>3, NoStep DEF CopyOut, RingFrom
<1>6. HwFrom(Len(out) + Held + Used)' /\ sent' = Len(out') + Held' + Used' + Len(hw')
  BY <1>3 DEF HwFrom
<1>7. InOrder'
  BY DEF CopyOut, InOrder
<1> QED
  BY <1>2, <1>4, <1>5, <1>6, <1>7

\* A complete copy is the packet that was due.
LEMMA RxCopiedOut == RxIInv /\ CopiedOut => RxIInv'
<1> SUFFICES ASSUME RxIInv, CopiedOut PROVE RxIInv'
    OBVIOUS
<1> USE DEF RxIInv
<1>1. buf = Packet(Len(out) + 1) /\ Len(out) \in Nat
  BY DEF TypeOK, CopiedOut, HeldIsNext, Packet
<1>2. out' = Append(out, buf) /\ Len(out') = Len(out) + 1
      /\ \A i \in 1 .. Len(out) : out'[i] = out[i]
      /\ out'[Len(out) + 1] = buf
  BY DEF TypeOK, CopiedOut
<1>3. TypeOK'
  <2>1. out' \in Seq([1 .. Words -> Nat])
    BY DEF TypeOK, CopiedOut
  <2> QED
    BY <2>1 DEF TypeOK, CopiedOut
<1>4. Used' = Used /\ Held = 1 /\ Held' = 0 /\ hw' = hw /\ sent' = sent
      /\ Used \in Nat
  BY NoStep, RingFacts DEF CopiedOut, Held, TypeOK
<1>5. HeldIsNext'
  BY DEF HeldIsNext, CopiedOut
<1>6. Len(out') + Held' = Len(out) + Held
  BY <1>1, <1>2, <1>4
<1>7. RingFrom(Len(out) + Held)'
  BY <1>4, <1>6, NoStep DEF CopiedOut, RingFrom
<1>8. HwFrom(Len(out) + Held + Used)' /\ sent' = Len(out') + Held' + Used' + Len(hw')
  BY <1>4, <1>6 DEF HwFrom
<1>9. InOrder'
  BY <1>1, <1>2 DEF InOrder
<1> QED
  BY <1>3, <1>5, <1>7, <1>8, <1>9

\* Where the numbers of the stream are, at every moment.
THEOREM RxInvariant == RxSpec => []RxIInv
<1>1. Init => RxIInv
  BY RxInit
<1>2. RxIInv /\ [RxNext]_vars => RxIInv'
  <2> SUFFICES ASSUME RxIInv, [RxNext]_vars PROVE RxIInv'
    OBVIOUS
  <2>1. CASE RxNext
    BY <2>1, RxHostOut, RxEpRxInt, RxGet, RxCopyOut, RxCopiedOut DEF RxNext
  <2>2. CASE UNCHANGED vars
    BY <2>2 DEF vars, RxIInv, TypeOK, HeldIsNext, NextSlot, RingFrom, Dist, Used,
                Held, HwFrom, InOrder
  <2> QED
    BY <2>1, <2>2
<1> QED
  BY <1>1, <1>2, PTL DEF RxSpec

\* Endpoint 2 OUT: every packet stream_rx has copied out of the ring is whole
\* and is the one that was due, although it copies with interrupts enabled from
\* a slot that the indices already count as free.
THEOREM RxInOrder == RxSpec => []InOrder
<1>1. RxIInv => InOrder
  BY DEF RxIInv
<1> QED
  BY <1>1, RxInvariant, PTL
-----------------------------------------------------------------------------
(* Endpoint 2 IN.                                                          *)

\* At the start nothing is anywhere.
LEMMA TxInit == Init => TxIInv
<1> SUFFICES ASSUME Init PROVE TxIInv
    OBVIOUS
<1>1. RxIInv
  BY RxInit
<1>2. Used = 0 /\ Held = 0 /\ Len(out) = 0
  BY DEF Init, Used, Held
<1>3. TypeOK /\ RingFrom(Len(out))
  BY <1>1, <1>2 DEF RxIInv
<1> QED
  BY <1>2, <1>3 DEF Init, TxIInv, FillsNext, InOrder

\* The slot main gets to fill is the free one at header_cnt.
LEMMA TxTst == TxIInv /\ Tst => TxIInv'
<1> SUFFICES ASSUME TxIInv, Tst PROVE TxIInv'
    OBVIOUS
<1> USE DEF TxIInv
<1>1. TypeOK'
  BY QueueAssumption DEF TypeOK, Tst
<1>2. Used' = Used /\ out' = out /\ sent' = sent
  BY NoStep DEF Tst
<1>3. FillsNext'
  BY DEF Tst, FillsNext, Full
<1>4. RingFrom(Len(out))'
  BY <1>2, NoStep DEF Tst, RingFrom
<1>5. InOrder'
  BY DEF Tst, InOrder
<1> QED
  BY <1>1, <1>2, <1>3, <1>4, <1>5

\* Filling the free slot disturbs no packet of the ring.
LEMMA TxCopyIn == TxIInv /\ CopyIn => TxIInv'
<1> SUFFICES ASSUME TxIInv, CopyIn PROVE TxIInv'
    OBVIOUS
<1> USE DEF TxIInv
<1>1. ptr \in Slots /\ ptr = header_cnt /\ cpy + 1 \in 1 .. Words /\ sent \in Nat
  BY QueueAssumption DEF TypeOK, CopyIn, FillsNext
<1>2. TypeOK'
  BY <1>1 DEF TypeOK, CopyIn
<1>3. Used' = Used /\ out' = out /\ sent' = sent
  BY NoStep DEF CopyIn
<1>4. FillsNext'
  <2>1. /\ UNCHANGED <<header_cnt, tail_cnt, ptr, sent>> /\ cpy' = cpy + 1
        /\ ~Full' /\ sent < MaxPackets
    BY DEF CopyIn, FillsNext, Full
  <2>2. \A w \in 1 .. cpy + 1 : data_fifo'[ptr][w] = sent + 1
    <3>1. /\ data_fifo' = [data_fifo EXCEPT ![ptr][cpy + 1] = sent + 1]
          /\ data_fifo \in [Slots -> [1 .. Words -> Nat]]
          /\ cpy \in Nat /\ cpy + 1 <= Words
      BY <1>1, QueueAssumption, SMTT(60) DEF CopyIn, TypeOK
    <3>2. data_fifo'[ptr] = [data_fifo[ptr] EXCEPT ![cpy + 1] = sent + 1]
      BY <1>1, <3>1
    <3>3. data_fifo[ptr] \in [1 .. Words -> Nat]
      BY <1>1, <3>1
    <3>4. \A w \in 1 .. cpy : data_fifo[ptr][w] = sent + 1
      BY DEF CopyIn, FillsNext
    <3> QED
      BY <1>1, <3>1, <3>2, <3>3, <3>4, QueueAssumption
  <2> QED
    BY <1>1, <2>1, <2>2 DEF FillsNext
<1>5. RingFrom(Len(out))'
  <2> SUFFICES ASSUME NEW s \in Slots, Dist(s) < Used
               PROVE  data_fifo'[s] = Packet(Len(out) + Dist(s) + 1)
    BY <1>3, NoStep DEF CopyIn, RingFrom
  <2>1. s # header_cnt
    BY RingFacts DEF TypeOK
  <2> QED
    BY <1>1, <2>1 DEF CopyIn, RingFrom, TypeOK
<1>6. InOrder'
  BY DEF CopyIn, InOrder
<1> QED
  BY <1>2, <1>3, <1>4, <1>5, <1>6

\* The filled slot becomes the last packet of the ring.
LEMMA TxPut == TxIInv /\ Put => TxIInv'
<1> SUFFICES ASSUME TxIInv, Put PROVE TxIInv'
    OBVIOUS
<1> USE DEF TxIInv
<1>1. /\ header_cnt \in Slots /\ header_cnt' \in Slots /\ ptr = header_cnt /\ ~Full
      /\ sent \in Nat /\ Len(out) \in Nat
  BY RingFacts DEF TypeOK, Put, FillsNext
<1>2. TypeOK'
  BY <1>1 DEF TypeOK, Put
<1>3. Used' = Used + 1 /\ Used \in Nat /\ \A s \in Slots : Dist(s)' = Dist(s)
  BY <1>1, HeaderStep, RingFacts DEF Put, TypeOK
<1>4. FillsNext'
  BY DEF Put, FillsNext
<1>5. data_fifo[header_cnt] = Packet(sent + 1)
  BY <1>1 DEF Put, FillsNext, TypeOK, Packet
<1>6. RingFrom(Len(out))'
  <2> SUFFICES ASSUME NEW s \in Slots, Dist(s)' < Used'
               PROVE  data_fifo[s] = Packet(Len(out) + Dist(s) + 1)
    BY <1>3 DEF Put, RingFrom
  <2>1. CASE s = header_cnt
    BY <1>3, <1>5, <2>1, RingFacts DEF TypeOK
  <2>2. CASE s # header_cnt
    BY <1>3, <2>2, RingFacts DEF RingFrom, TypeOK
  <2> QED
    BY <2>1, <2>2
<1>7. sent' = Len(out') + Used'
  BY <1>1, <1>3 DEF Put
<1>8. InOrder'
  BY DEF Put, InOrder
<1> QED
  BY <1>2, <1>4, <1>6, <1>7, <1>8

\* The oldest packet of the ring is the one that is due.
LEMMA TxEpTxInt == TxIInv /\ EpTxInt => TxIInv'
<1> SUFFICES ASSUME TxIInv, EpTxInt PROVE TxIInv'
    OBVIOUS
<1> USE DEF TxIInv
<1>1. /\ tail_cnt \in Slots /\ tail_cnt' \in Slots
      /\ Used \in Nat \ {0} /\ Len(out) \in Nat /\ Dist(tail_cnt) = 0
  BY RingFacts DEF TypeOK, EpTxInt
<1>2. Len(out) + Dist(tail_cnt) + 1 = Len(out) + 1
  BY <1>1
<1>3. data_fifo[tail_cnt] = Packet(Len(out) + 1)
  BY <1>1, <1>2 DEF RingFrom
<1>4. /\ out' = Append(out, data_fifo[tail_cnt]) /\ Len(out') = Len(out) + 1
      /\ \A i \in 1 .. Len(out) : out'[i] = out[i]
      /\ out'[Len(out) + 1] = data_fifo[tail_cnt]
  BY DEF TypeOK, EpTxInt
<1>5. TypeOK'
  <2>1. data_fifo[tail_cnt] \in [1 .. Words -> Nat]
    BY <1>1 DEF TypeOK
  <2>2. out' \in Seq([1 .. Words -> Nat])
    BY <2>1 DEF TypeOK, EpTxInt
  <2> QED
    BY <1>1, <2>2 DEF TypeOK, EpTxInt
<1>6. Used' = Used - 1
  BY TailStep DEF EpTxInt, TypeOK
<1>7. FillsNext'
  <2>1. header_cnt \in Slots /\ ~Empty /\ header_cnt' = header_cnt
        /\ tail_cnt' = NextSlot(tail_cnt)
    BY DEF EpTxInt, TypeOK
  <2>2. ~Full => ~Full'
    BY <1>1, <2>1, QueueAssumption DEF Slots, NextSlot, Full, Empty
  <2>3. ptr # NULL => /\ ptr = header_cnt /\ ~Full /\ sent < MaxPackets
                     /\ \A w \in 1 .. cpy : data_fifo[ptr][w] = sent + 1
    BY DEF FillsNext
  <2>4. UNCHANGED <<header_cnt, ptr, cpy, data_fifo, sent>>
    BY DEF EpTxInt
  <2> QED
    BY <2>2, <2>3, <2>4 DEF FillsNext
<1>8. RingFrom(Len(out))'
  <2> SUFFICES ASSUME NEW s \in Slots, Dist(s)' < Used'
               PROVE  data_fifo[s] = Packet(Len(out) + 1 + Dist(s)' + 1)
    BY <1>4 DEF EpTxInt, RingFrom
  <2>1. Dist(s) \in Nat /\ Used \in 0 .. NumEntries - 1
    BY RingFacts DEF TypeOK
  <2>2. s # tail_cnt => Dist(s)' = Dist(s) - 1
    BY TailStep DEF EpTxInt, TypeOK
  <2>3. s # tail_cnt
    BY <1>6, <2>1, TailStep, QueueAssumption DEF EpTxInt, TypeOK
  <2> QED
    BY <1>1, <1>6, <2>1, <2>2, <2>3 DEF RingFrom
<1>9. sent' = Len(out') + Used'
  BY <1>1, <1>4, <1>6 DEF EpTxInt
<1>10. InOrder'
  BY <1>1, <1>3, <1>4 DEF InOrder
<1> QED
  BY <1>5, <1>7, <1>8, <1>9, <1>10

\* Where the numbers of the stream are, at every moment.
THEOREM TxInvariant == TxSpec => []TxIInv
<1>1. Init => TxIInv
  BY TxInit
<1>2. TxIInv /\ [TxNext]_vars => TxIInv'
  <2> SUFFICES ASSUME TxIInv, [TxNext]_vars PROVE TxIInv'
    OBVIOUS
  <2>1. CASE TxNext
    BY <2>1, TxTst, TxCopyIn, TxPut, TxEpTxInt DEF TxNext
  <2>2. CASE UNCHANGED vars
    BY <2>2 DEF vars, TxIInv, TypeOK, FillsNext, Full, RingFrom, Dist, Used, InOrder
  <2> QED
    BY <2>1, <2>2
<1> QED
  BY <1>1, <1>2, PTL DEF TxSpec

\* Endpoint 2 IN: every packet the interrupt passes to the controller is whole
\* and is the one that was due, although main fills its slot with interrupts
\* enabled.
THEOREM TxInOrder == TxSpec => []InOrder
<1>1. TxIInv => InOrder
  BY DEF TxIInv
<1> QED
  BY <1>1, TxInvariant, PTL

\* Whatever the interrupt comes between, the two indices stay in the ring, the
\* slots keep whole packets and the copy stays inside its slot.
THEOREM RxTypes == RxSpec => []TypeOK
<1>1. RxIInv => TypeOK
  BY DEF RxIInv
<1> QED
  BY <1>1, RxInvariant, PTL

\* The same of endpoint 2 IN.
THEOREM TxTypes == TxSpec => []TypeOK
<1>1. TxIInv => TypeOK
  BY DEF TxIInv
<1> QED
  BY <1>1, TxInvariant, PTL
-----------------------------------------------------------------------------
(* The channel.  The invariants say which packets it holds, so a state of  *)
(* it is a piece of the stream (Piece) and a step of the code adds to one  *)
(* end of it, takes from the other, or changes nothing.                    *)

InChannel == InRing \o InController
Copied == IF ptr # NULL THEN <<data_fifo[ptr]>> ELSE <<>>

RxChannel == INSTANCE FwuChannel WITH
               Capacity <- NumEntries - 1 + HwBuffers, q <- InChannel, held <- Copied
TxChannel == INSTANCE FwuChannel WITH
               Capacity <- NumEntries - 1, q <- InRing, held <- <<>>

PacketData == [1 .. Words -> Nat]

\* m packets of the stream, those after the first n.
Piece(n, m) == [i \in 1 .. m |-> Packet(n + i)]

\* What the invariants say of the channel's state.
RxView == /\ InChannel = Piece(Len(out) + Held, Used + Len(hw))
          /\ Copied = IF Held = 1 THEN <<Packet(Len(out) + 1)>> ELSE <<>>
TxView == InRing = Piece(Len(out), Used)
-----------------------------------------------------------------------------
\* A piece is a sequence of packets, and its packets determine it.
LEMMA PieceType ==
  ASSUME NEW n \in Nat, NEW m \in Nat
  PROVE  /\ Piece(n, m) \in Seq(PacketData) /\ Len(Piece(n, m)) = m
         /\ \A i \in 1 .. m : Piece(n, m)[i] = Packet(n + i)
<1>1. \A i \in 1 .. m : Packet(n + i) \in PacketData
  BY PacketType DEF PacketData
<1> QED
  BY <1>1 DEF Piece

\* Packets numbered like those of a piece are that piece.
LEMMA PieceIs ==
  ASSUME NEW n \in Nat, NEW m \in Nat, NEW s \in Seq(PacketData), Len(s) = m,
         \A i \in 1 .. m : s[i] = Packet(n + i)
  PROVE  s = Piece(n, m)
<1>1. /\ Piece(n, m) \in Seq(PacketData) /\ Len(Piece(n, m)) = m
      /\ \A i \in 1 .. m : Piece(n, m)[i] = Packet(n + i)
  BY PieceType
<1> QED
  BY <1>1, SeqEqual

\* A piece grows by the packet that follows it ...
LEMMA PieceAppend ==
  ASSUME NEW n \in Nat, NEW m \in Nat
  PROVE  Piece(n, m + 1) = Append(Piece(n, m), Packet(n + m + 1))
<1> DEFINE s == Append(Piece(n, m), Packet(n + m + 1))
<1>1. /\ Piece(n, m) \in Seq(PacketData) /\ Len(Piece(n, m)) = m
      /\ \A i \in 1 .. m : Piece(n, m)[i] = Packet(n + i)
  BY PieceType
<1>2. Packet(n + m + 1) \in PacketData
  BY PacketType DEF PacketData
<1>3. s \in Seq(PacketData) /\ Len(s) = m + 1
  BY <1>1, <1>2
<1>4. \A i \in 1 .. m + 1 : s[i] = Packet(n + i)
  BY <1>1, <1>2
<1>5. m + 1 \in Nat
  OBVIOUS
<1> HIDE DEF s
<1>6. s = Piece(n, m + 1)
  BY <1>3, <1>4, <1>5, PieceIs
<1> QED
  BY <1>6 DEF s

\* ... and shrinks by the packet it begins with.
LEMMA PieceTail ==
  ASSUME NEW n \in Nat, NEW m \in Nat \ {0}
  PROVE  /\ Piece(n, m) # <<>>
         /\ Head(Piece(n, m)) = Packet(n + 1)
         /\ Tail(Piece(n, m)) = Piece(n + 1, m - 1)
<1> DEFINE s == Piece(n, m)
<1>1. s \in Seq(PacketData) /\ Len(s) = m /\ \A i \in 1 .. m : s[i] = Packet(n + i)
  BY PieceType
<1>2. s # <<>> /\ Head(s) = s[1]
  BY <1>1
<1>3. /\ Tail(s) \in Seq(PacketData) /\ Len(Tail(s)) = m - 1
      /\ \A i \in 1 .. m - 1 : Tail(s)[i] = s[i + 1]
  BY <1>1, <1>2, HeadTailProperties
<1>4. \A i \in 1 .. m - 1 : Tail(s)[i] = Packet(n + 1 + i)
  BY <1>1, <1>3
<1> DEFINE t == Tail(s)
<1>5. /\ t \in Seq(PacketData) /\ Len(t) = m - 1
      /\ \A i \in 1 .. m - 1 : t[i] = Packet((n + 1) + i)
  BY <1>3, <1>4
<1>6. n + 1 \in Nat /\ m - 1 \in Nat /\ 1 \in 1 .. m
  OBVIOUS
<1> HIDE DEF t
<1>7. t = Piece(n + 1, m - 1)
  BY <1>5, <1>6, PieceIs
<1> QED
  BY <1>1, <1>2, <1>6, <1>7 DEF t

\* Two pieces that follow each other are one.
LEMMA PieceConcat ==
  ASSUME NEW n \in Nat, NEW m \in Nat, NEW l \in Nat
  PROVE  Piece(n, m) \o Piece(n + m, l) = Piece(n, m + l)
<1> DEFINE s == Piece(n, m)
           t == Piece(n + m, l)
<1>1. s \in Seq(PacketData) /\ Len(s) = m /\ \A i \in 1 .. m : s[i] = Packet(n + i)
  BY PieceType
<1>2. n + m \in Nat /\ m + l \in Nat
  OBVIOUS
<1>3. t \in Seq(PacketData) /\ Len(t) = l /\ \A i \in 1 .. l : t[i] = Packet((n + m) + i)
  BY <1>2, PieceType
<1> HIDE DEF s, t
<1>4. /\ s \o t \in Seq(PacketData) /\ Len(s \o t) = m + l
      /\ \A i \in 1 .. m + l : (s \o t)[i] = IF i <= m THEN s[i] ELSE t[i - m]
  BY <1>1, <1>3, ConcatProperties
<1>5. ASSUME NEW i \in 1 .. m + l, i > m PROVE t[i - m] = Packet(n + i)
  <2>1. i - m \in 1 .. l /\ (n + m) + (i - m) = n + i
    BY <1>5
  <2> QED
    BY <1>3, <2>1
<1>6. \A i \in 1 .. m + l : (s \o t)[i] = Packet(n + i)
  BY <1>1, <1>4, <1>5
<1>7. s \o t = Piece(n, m + l)
  BY <1>2, <1>4, <1>6, PieceIs
<1> QED
  BY <1>7 DEF s, t
-----------------------------------------------------------------------------
\* The i-th oldest packet of the ring is i - 1 entries from tail_cnt.
LEMMA SlotFacts ==
  ASSUME TypeOK, NEW i \in 1 .. Used
  PROVE  SlotOf(i) \in Slots /\ Dist(SlotOf(i)) = i - 1
  BY QueueAssumption DEF TypeOK, Slots, Used, SlotOf, Dist

\* A ring with the packets after the first n is a piece of the stream.
LEMMA RingIsPiece ==
  ASSUME TypeOK, NEW n \in Nat, RingFrom(n)
  PROVE  InRing = Piece(n, Used) /\ Used \in Nat
<1>1. Used \in Nat
  BY RingFacts DEF TypeOK
<1>2. \A i \in 1 .. Used : data_fifo[SlotOf(i)] = Packet(n + i)
  <2> SUFFICES ASSUME NEW i \in 1 .. Used PROVE data_fifo[SlotOf(i)] = Packet(n + i)
      OBVIOUS
  <2>1. SlotOf(i) \in Slots /\ Dist(SlotOf(i)) = i - 1
    BY SlotFacts
  <2>2. n + Dist(SlotOf(i)) + 1 = n + i
    BY <1>1, <2>1
  <2> QED
    BY <1>1, <2>1, <2>2 DEF RingFrom
<1> QED
  BY <1>1, <1>2 DEF InRing, Piece

\* Endpoint 2 OUT: ring and controller together are one piece of the stream.
LEMMA RxHolds == RxIInv => RxView
<1> SUFFICES ASSUME RxIInv PROVE RxView
    OBVIOUS
<1> DEFINE n == Len(out) + Held
<1>1. Len(out) \in Nat /\ Held \in {0, 1} /\ Len(hw) \in Nat /\ TypeOK
  BY DEF RxIInv, TypeOK, Held
<1>2. n \in Nat /\ RingFrom(n) /\ HwFrom(n + Used)
  BY <1>1 DEF RxIInv
<1>3. InRing = Piece(n, Used) /\ Used \in Nat
  BY <1>1, <1>2, RingIsPiece
<1>4. InController = Piece(n + Used, Len(hw))
  BY <1>1, <1>2, <1>3 DEF InController, HwFrom, Piece
<1>6. InChannel = Piece(n, Used + Len(hw))
  <2> HIDE DEF n
  <2> QED
    BY <1>1, <1>2, <1>3, <1>4, PieceConcat DEF InChannel
<1>7. Copied = IF Held = 1 THEN <<Packet(Len(out) + 1)>> ELSE <<>>
  BY DEF RxIInv, HeldIsNext, Copied, Held
<1> QED
  BY <1>6, <1>7 DEF RxView

\* Endpoint 2 IN: what the interrupt has not sent yet.
LEMMA TxHolds == TxIInv => TxView
  BY RingIsPiece DEF TxIInv, TxView, TypeOK

\* The same of the state after a step.
LEMMA RxHoldsNext == RxIInv' => RxView'
  BY RxHolds, PTL

\* The same, behind a step.
LEMMA TxHoldsNext == TxIInv' => TxView'
  BY TxHolds, PTL

\* Sizes that the steps below take from the invariants.
LEMMA RxSizes ==
  RxIInv => /\ Len(out) \in Nat /\ Held \in {0, 1} /\ (Held = 1 <=> ptr # NULL)
            /\ Used \in 0 .. NumEntries - 1 /\ Len(hw) \in Nat
            /\ sent = (Len(out) + Held) + (Used + Len(hw))
  BY RingFacts DEF RxIInv, TypeOK, Held
-----------------------------------------------------------------------------
(* Endpoint 2 OUT, step by step.                                           *)

\* The empty ring is the empty channel.
LEMMA RxInitMaps == Init => RxChannel!Init
<1> SUFFICES ASSUME Init PROVE RxChannel!Init
    OBVIOUS
<1>1. RxView
  BY RxInit, RxHolds
<1>2. Len(out) = 0 /\ Held = 0 /\ Len(hw) = 0 /\ Used = 0
  BY QueueAssumption DEF Init, Held, Used
<1>3. InChannel = <<>>
  BY <1>1, <1>2 DEF RxView, Piece
<1> QED
  BY <1>2, <1>3 DEF Init, RxChannel!Init, Copied

\* A packet the controller acknowledges enters the channel.
LEMMA RxHostOutSends == RxIInv /\ RxIInv' /\ HostOut => RxChannel!Send
<1> SUFFICES ASSUME RxIInv, RxIInv', HostOut PROVE RxChannel!Send
    OBVIOUS
<1> DEFINE n == Len(out) + Held
           m == Used + Len(hw)
<1>1. /\ n \in Nat /\ m \in Nat /\ sent = n + m
      /\ Len(hw) < HwBuffers /\ Used <= NumEntries - 1
  BY RxSizes DEF HostOut
<1>2. Len(out)' = Len(out) /\ Held' = Held /\ Used' = Used /\ Len(hw)' = Len(hw) + 1
  BY NoStep DEF HostOut, Held, RxIInv, TypeOK
<1>3. InChannel = Piece(n, m) /\ Copied' = Copied
  BY RxHolds DEF RxView, Copied, HostOut
<1>4. InChannel' = Piece(n, m + 1)
  BY <1>1, <1>2, RxSizes, RxHoldsNext DEF RxView
<1>5. InChannel' = Append(InChannel, Packet(sent + 1))
  <2> HIDE DEF n, m
  <2> QED
    BY <1>1, <1>3, <1>4, PieceAppend
<1>6. Len(InChannel) = m
  <2> HIDE DEF n, m
  <2> QED
    BY <1>1, <1>3, PieceType
<1>7. Len(InChannel) < NumEntries - 1 + HwBuffers
  BY <1>1, <1>6, RxSizes, QueueAssumption
<1> QED
  BY <1>3, <1>5, <1>7 DEF HostOut, RxChannel!Send

\* A packet that moves from the controller into the ring stays in the channel.
LEMMA RxEpRxIntStutters ==
  RxIInv /\ RxIInv' /\ EpRxInt => UNCHANGED <<sent, InChannel, Copied, out>>
<1> SUFFICES ASSUME RxIInv, RxIInv', EpRxInt
             PROVE  UNCHANGED <<sent, InChannel, Copied, out>>
    OBVIOUS
<1>1. Len(out)' = Len(out) /\ Held' = Held
  BY DEF EpRxInt, Held
<1>2. Used' = Used + 1 /\ Len(hw') = Len(hw) - 1
  BY HeaderStep DEF EpRxInt, RxIInv, TypeOK
<1>3. Used' + Len(hw)' = Used + Len(hw)
  BY <1>2, RxSizes
<1> QED
  BY <1>1, <1>3, RxHolds, RxHoldsNext DEF RxView, EpRxInt

\* fwu_queue_get takes the oldest packet.
LEMMA RxGetTakes == RxIInv /\ RxIInv' /\ Get => RxChannel!Take
<1> SUFFICES ASSUME RxIInv, RxIInv', Get PROVE RxChannel!Take
    OBVIOUS
<1> DEFINE n == Len(out)
           m == Used + Len(hw)
<1>1. Held = 0 /\ Held' = 1 /\ Len(out)' = n /\ Len(hw)' = Len(hw)
  BY QueueAssumption DEF Get, Held, RxIInv, TypeOK, NULL, Slots
<1>2. n \in Nat /\ m \in Nat \ {0} /\ Used' + Len(hw)' = m - 1
  <2>1. Used # 0 /\ Used' = Used - 1
    BY RingFacts, TailStep DEF Get, RxIInv, TypeOK
  <2> QED
    BY <1>1, <2>1, RxSizes
<1>3. InChannel = Piece(n, m) /\ Copied = <<>>
  BY <1>1, <1>2, RxHolds DEF RxView
<1>4. InChannel' = Piece(n + 1, m - 1) /\ Copied' = <<Packet(n + 1)>>
  BY <1>1, <1>2, RxHoldsNext DEF RxView
<1>5. InChannel # <<>> /\ Head(InChannel) = Packet(n + 1) /\ Tail(InChannel) = InChannel'
  <2> HIDE DEF n, m
  <2> QED
    BY <1>2, <1>3, <1>4, PieceTail
<1> QED
  BY <1>3, <1>4, <1>5 DEF Get, RxChannel!Take

\* Words copied out of the slot do not show.
LEMMA RxCopyOutStutters == CopyOut => UNCHANGED <<sent, InChannel, Copied, out>>
  BY DEF CopyOut, InChannel, InRing, InController, Copied, Used, SlotOf

\* The packet that was taken is delivered when its copy is complete, and the
\* copy is that packet.
LEMMA RxCopiedOutDelivers == RxIInv /\ CopiedOut => RxChannel!Deliver
<1> SUFFICES ASSUME RxIInv, CopiedOut PROVE RxChannel!Deliver
    OBVIOUS
<1>1. Copied = <<data_fifo[ptr]>> /\ Copied' = <<>>
  BY DEF Copied, CopiedOut
<1>2. buf = Packet(Len(out) + 1) /\ data_fifo[ptr] = Packet(Len(out) + 1)
  BY DEF RxIInv, TypeOK, CopiedOut, HeldIsNext, Packet
<1>3. InChannel' = InChannel
  BY DEF CopiedOut, InChannel, InRing, InController, Used, SlotOf
<1> QED
  BY <1>1, <1>2, <1>3 DEF CopiedOut, RxChannel!Deliver

\* Endpoint 2 OUT implements the channel: whatever the interrupt interrupts,
\* the ring with the controller behind it loses, repeats, reorders and tears no
\* packet, and never holds more than there is room for.
THEOREM RxIsAChannel == RxSpec => RxChannel!Spec
<1>1. RxIInv /\ RxIInv' /\ [RxNext]_vars => [RxChannel!Next]_(RxChannel!vars)
  <2> SUFFICES ASSUME RxIInv, RxIInv', [RxNext]_vars
               PROVE  RxChannel!Next \/ UNCHANGED <<sent, InChannel, Copied, out>>
    BY DEF RxChannel!vars
  <2>1. CASE HostOut
    BY <2>1, RxHostOutSends DEF RxChannel!Next
  <2>2. CASE EpRxInt
    BY <2>2, RxEpRxIntStutters
  <2>3. CASE Get
    BY <2>3, RxGetTakes DEF RxChannel!Next
  <2>4. CASE CopyOut
    BY <2>4, RxCopyOutStutters
  <2>5. CASE CopiedOut
    BY <2>5, RxCopiedOutDelivers DEF RxChannel!Next
  <2>6. CASE UNCHANGED vars
    BY <2>6 DEF vars, InChannel, InRing, InController, Copied, Used, SlotOf
  <2> QED
    BY <2>1, <2>2, <2>3, <2>4, <2>5, <2>6 DEF RxNext
<1> QED
  BY <1>1, RxInitMaps, RxInvariant, PTL DEF RxSpec, RxChannel!Spec
-----------------------------------------------------------------------------
(* Endpoint 2 IN, step by step.                                            *)

\* So it is here.
LEMMA TxInitMaps == Init => TxChannel!Init
<1> SUFFICES ASSUME Init PROVE TxChannel!Init
    OBVIOUS
<1>1. Used = 0
  BY DEF Init, Used
<1>2. InRing = <<>>
  BY <1>1 DEF InRing
<1> QED
  BY <1>2 DEF Init, TxChannel!Init

\* As long as neither end of the ring moves, its packets do not change: main
\* writes only the slot that is not in it yet.
LEMMA TxFillStutters ==
  TxIInv /\ TxIInv' /\ (Tst \/ CopyIn) => UNCHANGED <<sent, InRing, out>>
<1> SUFFICES ASSUME TxIInv, TxIInv', Tst \/ CopyIn PROVE UNCHANGED <<sent, InRing, out>>
    OBVIOUS
<1>1. Used' = Used /\ out' = out /\ sent' = sent
  BY NoStep DEF Tst, CopyIn
<1> QED
  BY <1>1, TxHolds, TxHoldsNext DEF TxView

\* The slot main has filled enters the channel.
LEMMA TxPutSends == TxIInv /\ TxIInv' /\ Put => TxChannel!Send
<1> SUFFICES ASSUME TxIInv, TxIInv', Put PROVE TxChannel!Send
    OBVIOUS
<1> DEFINE n == Len(out)
           m == Used
<1>1. n \in Nat /\ m \in Nat /\ sent = n + m /\ m < NumEntries - 1
  <2>1. /\ Used \in 0 .. NumEntries - 1 /\ Used # NumEntries - 1
        /\ sent = Len(out) + Used /\ Len(out) \in Nat
    BY RingFacts DEF Put, TxIInv, TypeOK, FillsNext
  <2> QED
    BY <2>1, QueueAssumption
<1>2. Len(out)' = n /\ Used' = m + 1
  BY HeaderStep DEF Put, TxIInv, TypeOK, FillsNext
<1>3. InRing = Piece(n, m) /\ InRing' = Piece(n, m + 1)
  BY <1>2, TxHolds, TxHoldsNext DEF TxView
<1>4. InRing' = Append(InRing, Packet(sent + 1)) /\ Len(InRing) = m
  <2> HIDE DEF n, m
  <2> QED
    BY <1>1, <1>3, PieceAppend, PieceType
<1>5. sent < MaxPackets
  BY DEF Put, TxIInv, FillsNext
<1> QED
  BY <1>1, <1>4, <1>5 DEF Put, TxChannel!Send

\* The interrupt takes the oldest packet and delivers it in one step.
LEMMA TxEpTxIntPasses == TxIInv /\ TxIInv' /\ EpTxInt => TxChannel!Pass
<1> SUFFICES ASSUME TxIInv, TxIInv', EpTxInt PROVE TxChannel!Pass
    OBVIOUS
<1> DEFINE n == Len(out)
           m == Used
<1>1. n \in Nat /\ m \in Nat \ {0} /\ tail_cnt \in Slots
  BY RingFacts DEF EpTxInt, TxIInv, TypeOK
<1>2. Len(out)' = n + 1 /\ Used' = m - 1
  BY TailStep DEF EpTxInt, TxIInv, TypeOK
<1>3. InRing = Piece(n, m) /\ InRing' = Piece(n + 1, m - 1)
  BY <1>2, TxHolds, TxHoldsNext DEF TxView
<1>4. InRing # <<>> /\ Head(InRing) = Packet(n + 1) /\ Tail(InRing) = InRing'
  <2> HIDE DEF n, m
  <2> QED
    BY <1>1, <1>3, PieceTail
<1>5. data_fifo[tail_cnt] = Packet(n + 1)
  <2>1. Dist(tail_cnt) = 0 /\ 0 < Used /\ n + 0 + 1 = n + 1
    BY <1>1, RingFacts DEF TxIInv, TypeOK
  <2> QED
    BY <1>1, <2>1 DEF TxIInv, RingFrom
<1> QED
  BY <1>4, <1>5 DEF EpTxInt, TxChannel!Pass

\* Endpoint 2 IN implements the channel: although main fills its slot with
\* interrupts enabled, the interrupt sends every packet once, whole and in order.
THEOREM TxIsAChannel == TxSpec => TxChannel!Spec
<1>1. TxIInv /\ TxIInv' /\ [TxNext]_vars => [TxChannel!Next]_(TxChannel!vars)
  <2> SUFFICES ASSUME TxIInv, TxIInv', [TxNext]_vars
               PROVE  TxChannel!Next \/ UNCHANGED <<sent, InRing, <<>>, out>>
    BY DEF TxChannel!vars
  <2>1. CASE Tst \/ CopyIn
    BY <2>1, TxFillStutters
  <2>2. CASE Put
    BY <2>2, TxPutSends DEF TxChannel!Next
  <2>3. CASE EpTxInt
    BY <2>3, TxEpTxIntPasses DEF TxChannel!Next
  <2>4. CASE UNCHANGED vars
    BY <2>4 DEF vars, InRing, Used, SlotOf
  <2> QED
    BY <2>1, <2>2, <2>3, <2>4 DEF TxNext
<1> QED
  BY <1>1, TxInitMaps, TxInvariant, PTL DEF TxSpec, TxChannel!Spec
=============================================================================
