------------------------------ MODULE FwuQueue ------------------------------
(***************************************************************************)
(* The 64-byte packet ring of the Firmware Upgrader (fwu_queue.c) between  *)
(* the USB interrupt and the main loop.                                    *)
(*                                                                         *)
(*   RxSpec  endpoint 2 OUT: the interrupt is the producer                 *)
(*           (tsti, copy from the controller, puti, all in one interrupt), *)
(*           stream_rx is the consumer (get, then s_memcpy out of the slot *)
(*           with interrupts ENABLED).                                     *)
(*   TxSpec  endpoint 2 IN: stream_tx / send_to_host are the producer      *)
(*           (tst, s_memcpy into the slot with interrupts enabled, put),   *)
(*           the interrupt is the consumer (geti, copy to the controller). *)
(*                                                                         *)
(* fwu_queue_get returns a pointer INTO the ring and has already advanced  *)
(* tail_cnt, so only the slot the full test keeps free protects the copy:  *)
(* main's copy is therefore modelled word by word.                         *)
(***************************************************************************)
EXTENDS Integers, Sequences

CONSTANTS NumEntries,   \* num_entries of the FWU_DQ
          Words,        \* words of an entry (16 in the code)
          HwBuffers,    \* packet buffers of the OUT endpoint in the controller
          MaxPackets    \* packets of the stream (bounds the model)

ASSUME QueueAssumption == /\ NumEntries \in Nat /\ NumEntries >= 2
                          /\ Words \in Nat \ {0}
                          /\ HwBuffers \in Nat \ {0}
                          /\ MaxPackets \in Nat

VARIABLES header_cnt, tail_cnt, data_fifo,  \* the FWU_DQ
          ptr,    \* slot main holds a pointer to, or NULL
          cpy,    \* words main has copied from / to that slot
          buf,    \* main's copy (a 64-byte piece of gStreamRXBuf)
          hw,     \* OUT packets waiting in the controller
          sent,   \* packets of the stream handed in by the sender
          out     \* packets the receiver has got

vars == <<header_cnt, tail_cnt, data_fifo, ptr, cpy, buf, hw, sent, out>>

NULL == -1
Slots == 0 .. NumEntries - 1

\* The i-th packet of the stream: all its words carry the packet's number.
Packet(i) == [w \in 1 .. Words |-> i]

\* Mutant of NextSlot: the index wraps one too late.
NextSlotTooFar(s) == IF s + 1 > NumEntries THEN 0 ELSE s + 1

\* header_cnt++ / tail_cnt++ with the wrap to 0.
NextSlot(s) == IF s + 1 >= NumEntries THEN 0 ELSE s + 1

\* Mutants of Full: no case for tail_cnt = 0; the case without its tail_cnt test.
FullNoWrap == header_cnt = tail_cnt - 1
FullAtEnd == header_cnt = NumEntries - 1 \/ header_cnt = tail_cnt - 1

\* No free slot but the one that separates header_cnt from tail_cnt.
Full == \/ tail_cnt = 0 /\ header_cnt = NumEntries - 1
        \/ header_cnt = tail_cnt - 1

Empty == tail_cnt = header_cnt

Init == /\ header_cnt = 0 /\ tail_cnt = 0
        /\ data_fifo = [s \in Slots |-> Packet(0)]
        /\ ptr = NULL /\ cpy = 0 /\ buf = Packet(0)
        /\ hw = <<>> /\ sent = 0 /\ out = <<>>
-----------------------------------------------------------------------------
(* Endpoint 2 OUT: interrupt to main loop.                                 *)

\* The host's next packet is acknowledged into a free controller buffer.
HostOut == /\ sent < MaxPackets /\ Len(hw) < HwBuffers
           /\ hw' = Append(hw, sent + 1)
           /\ sent' = sent + 1
           /\ UNCHANGED <<header_cnt, tail_cnt, data_fifo, ptr, cpy, buf, out>>

\* Mutant of EpRxInt: the packet that finds the ring full is dropped.
EpRxIntOverrun ==
  /\ hw # <<>>
  /\ hw' = Tail(hw)
  /\ \/ /\ ~Full
        /\ data_fifo' = [data_fifo EXCEPT ![header_cnt] = Packet(Head(hw))]
        /\ header_cnt' = NextSlot(header_cnt)
     \/ Full /\ UNCHANGED <<data_fifo, header_cnt>>
  /\ UNCHANGED <<tail_cnt, ptr, cpy, buf, sent, out>>

\* The interrupt moves one packet; when the ring is full it stays in the
\* controller, whose NAK interrupt comes again.
EpRxInt == /\ hw # <<>> /\ ~Full
           /\ data_fifo' = [data_fifo EXCEPT ![header_cnt] = Packet(Head(hw))]
           /\ hw' = Tail(hw)
           /\ header_cnt' = NextSlot(header_cnt)
           /\ UNCHANGED <<tail_cnt, ptr, cpy, buf, sent, out>>

\* fwu_queue_get: interrupts are off, so one step.
Get == /\ ptr = NULL /\ ~Empty
       /\ ptr' = tail_cnt
       /\ tail_cnt' = NextSlot(tail_cnt)
       /\ cpy' = 0
       /\ UNCHANGED <<header_cnt, data_fifo, buf, hw, sent, out>>

CopyOut == /\ ptr # NULL /\ cpy < Words
           /\ buf' = [buf EXCEPT ![cpy + 1] = data_fifo[ptr][cpy + 1]]
           /\ cpy' = cpy + 1
           /\ UNCHANGED <<header_cnt, tail_cnt, data_fifo, ptr, hw, sent, out>>

\* s_memcpy returned: the packet is part of the block being assembled.
CopiedOut == /\ ptr # NULL /\ cpy = Words
             /\ out' = Append(out, buf)
             /\ ptr' = NULL
             /\ UNCHANGED <<header_cnt, tail_cnt, data_fifo, cpy, buf, hw, sent>>

RxNext == HostOut \/ EpRxInt \/ Get \/ CopyOut \/ CopiedOut
-----------------------------------------------------------------------------
(* Endpoint 2 IN: main loop to interrupt.                                  *)

\* fwu_queue_tst
Tst == /\ ptr = NULL /\ ~Full /\ sent < MaxPackets
       /\ ptr' = header_cnt
       /\ cpy' = 0
       /\ UNCHANGED <<header_cnt, tail_cnt, data_fifo, buf, hw, sent, out>>

CopyIn == /\ ptr # NULL /\ cpy < Words
          /\ data_fifo' = [data_fifo EXCEPT ![ptr][cpy + 1] = sent + 1]
          /\ cpy' = cpy + 1
          /\ UNCHANGED <<header_cnt, tail_cnt, ptr, buf, hw, sent, out>>

\* Mutant of Put: the slot is handed over before it is filled.
PutEarly == /\ ptr # NULL /\ cpy >= Words - 1
            /\ header_cnt' = NextSlot(header_cnt)
            /\ sent' = sent + 1
            /\ ptr' = NULL
            /\ UNCHANGED <<tail_cnt, data_fifo, cpy, buf, hw, out>>

\* fwu_queue_put
Put == /\ ptr # NULL /\ cpy = Words
       /\ header_cnt' = NextSlot(header_cnt)
       /\ sent' = sent + 1
       /\ ptr' = NULL
       /\ UNCHANGED <<tail_cnt, data_fifo, cpy, buf, hw, out>>

\* fwu_queue_geti and the copy to the controller.
EpTxInt == /\ ~Empty
           /\ out' = Append(out, data_fifo[tail_cnt])
           /\ tail_cnt' = NextSlot(tail_cnt)
           /\ UNCHANGED <<header_cnt, data_fifo, ptr, cpy, buf, hw, sent>>

TxNext == Tst \/ CopyIn \/ Put \/ EpTxInt
-----------------------------------------------------------------------------
RxSpec == Init /\ [][RxNext]_vars
TxSpec == Init /\ [][TxNext]_vars
-----------------------------------------------------------------------------
(* Properties.                                                             *)

\* The types of the ring, its indices and the copy.
TypeOK == /\ header_cnt \in Slots /\ tail_cnt \in Slots
          /\ data_fifo \in [Slots -> [1 .. Words -> Nat]]
          /\ ptr \in Slots \cup {NULL}
          /\ cpy \in 0 .. Words
          /\ buf \in [1 .. Words -> Nat]
          /\ hw \in Seq(Nat)
          /\ sent \in Nat
          /\ out \in Seq([1 .. Words -> Nat])

\* Packets reach the other side whole (never torn by a slot that is
\* overwritten while it is copied), in order, none lost and none twice.
InOrder == \A i \in 1 .. Len(out) : out[i] = Packet(i)
-----------------------------------------------------------------------------
(* What a direction shows of the abstract channel: the packets in the ring *)
(* and in the controller, the oldest first.                                *)

Used == IF header_cnt >= tail_cnt THEN header_cnt - tail_cnt
                                  ELSE NumEntries - tail_cnt + header_cnt

\* The slot of the i-th packet in the ring, i = 1 the oldest.
SlotOf(i) == IF tail_cnt + i - 1 >= NumEntries THEN tail_cnt + i - 1 - NumEntries
                                               ELSE tail_cnt + i - 1

InRing == [i \in 1 .. Used |-> data_fifo[SlotOf(i)]]
InController == [i \in 1 .. Len(hw) |-> Packet(hw[i])]
=============================================================================
