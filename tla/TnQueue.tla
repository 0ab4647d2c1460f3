------------------------------ MODULE TnQueue -------------------------------
(***************************************************************************)
(* One data queue of src/TNKernel/tn_dqueue.c, used by tasks and           *)
(* interrupts of the kernel of TnKernel.  A task that waits to send keeps  *)
(* its element in data_elem, one that waits to receive is handed its       *)
(* element there.                                                          *)
(***************************************************************************)
EXTENDS TnObject

CONSTANTS
  Capacities,     \* the num_entries a queue may be created with; 0: no data_fifo
  Data,           \* what is sent
  QueueTimeouts
ASSUME QueueAssumption ==
  /\ Capacities \subseteq Nat /\ Data \subseteq Elem
  /\ {"send", "receive"} \subseteq WaitQ
  /\ QueueTimeouts \subseteq Timeouts \cup {Forever}

VARIABLES
  dque,       \* num_entries, data_fifo, header_cnt, tail_cnt, exists: id_dque
  order       \* history: elements sent and not yet received, in their order

qvars == <<dque, order>>
Senders == "send"         \* wait_send_list
Receivers == "receive"    \* wait_receive_list

(* tn_queue_create                                                         *)
NewQueue(n) == [num_entries |-> n, data_fifo |-> [i \in 0..n - 1 |-> Null],
                header_cnt |-> 0, tail_cnt |-> 0, exists |-> TRUE]
QueueInit == dque = [NewQueue(0) EXCEPT !.exists = FALSE] /\ order = <<>>
QueueCreate(n) ==
  /\ Calls("queue_create") /\ ~dque.exists
  /\ k' = [k EXCEPT !.link = Reset(Reset(@, Wait(Senders)), Wait(Receivers))]
  /\ dque' = NewQueue(n) /\ order' = <<>>
  /\ UNCHANGED pc

(* dque_fifo_write: its test and its effect.                               *)
NumEntries == dque.num_entries
FullNoWrap == \/ NumEntries = 0    \* mutant: the case tail_cnt = 0 is missing
              \/ dque.header_cnt = dque.tail_cnt - 1
Full == \/ NumEntries = 0
        \/ dque.tail_cnt = 0 /\ dque.header_cnt = NumEntries - 1
        \/ dque.header_cnt = dque.tail_cnt - 1
NextCntTooFar(c) == IF c + 1 > NumEntries THEN 0 ELSE c + 1   \* mutant
NextCnt(c) == IF c + 1 >= NumEntries THEN 0 ELSE c + 1
FifoWrite(q, d) == [q EXCEPT !.data_fifo[q.header_cnt] = d,
                             !.header_cnt = NextCnt(@)]

(* dque_fifo_read                                                          *)
FifoEmpty == NumEntries = 0 \/ dque.tail_cnt = dque.header_cnt
FifoRead == [dque EXCEPT !.tail_cnt = NextCnt(@)]

-----------------------------------------------------------------------------
(* The elements in data_fifo, in the order in which they will be read.     *)
Contents ==
  LET n == IF NumEntries = 0 THEN 0
           ELSE (dque.header_cnt + NumEntries - dque.tail_cnt) % NumEntries
  IN  [i \in 1..n |-> dque.data_fifo[(dque.tail_cnt + i - 1) % NumEntries]]
DataOf(t) == IF t = Wild THEN Null ELSE k.elem[t]
SendersData ==
  LET s == Entries(k, Wait(Senders)) IN [i \in DOMAIN s |-> DataOf(TaskOf(s[i]))]

(* The part that sends have in common: hand d to the receiver that waits   *)
(* longest, or put it into the FIFO.                                       *)
HandedOver(d) ==
  LET t == First(Receivers)
  IN  WaitComplete([WithoutFirst(Receivers) EXCEPT
                      !.elem = IF t = Wild THEN @ ELSE [@ EXCEPT ![t] = d]], t)
Store(d) ==
  /\ NoWaiters(Receivers) /\ ~Full
  /\ dque' = FifoWrite(dque, d) /\ order' = Append(order, d)
  /\ UNCHANGED <<k, pc>>

(* tn_queue_send and tn_queue_send_polling                                 *)
SendNow(d) ==
  /\ Calls("queue_send") /\ dque.exists
  /\ \/ /\ ~NoWaiters(Receivers)
        /\ k' = HandedOver(d) /\ SwitchIf(Wakes(k, First(Receivers)))
        /\ UNCHANGED qvars
     \/ Store(d)

(* tn_queue_send on a full queue                                           *)
SendWaits(d, timeout) ==
  /\ Calls("queue_send") /\ dque.exists /\ NoWaiters(Receivers) /\ Full
  /\ k' = CurrToWait([k EXCEPT !.elem[k.curr] = d], Senders, "wsend", timeout)
  /\ pc' = Goes(k.curr, "waits", Senders)
  /\ order' = Append(order, d)
  /\ UNCHANGED dque

(* tn_queue_isend_polling                                                  *)
ISend(d) ==
  /\ "queue_isend" \in services /\ Enabled /\ dque.exists
  /\ \/ /\ ~NoWaiters(Receivers)
        /\ IrqExit(Request(HandedOver(d), Wakes(k, First(Receivers))))
        /\ UNCHANGED qvars
     \/ Store(d)

(* The part that receives have in common: the element given to the caller, *)
(* the queue afterwards, and the sender that need not wait any longer.     *)
Something == ~FifoEmpty \/ ~NoWaiters(Senders)
Received == IF FifoEmpty THEN DataOf(First(Senders)) ELSE dque.data_fifo[dque.tail_cnt]
QueueAfter == IF FifoEmpty THEN dque
              ELSE IF NoWaiters(Senders) THEN FifoRead
              ELSE FifoWrite(FifoRead, DataOf(First(Senders)))
Take ==
  /\ dque.exists /\ Something
  /\ dque' = QueueAfter
  /\ order' = Tail(order)
Served == WaitComplete(WithoutFirst(Senders), First(Senders))

ReceiveNowWakesNobody ==           \* mutant: a waiting sender is not served
  /\ Calls("queue_receive") /\ dque.exists /\ ~FifoEmpty
  /\ dque' = FifoRead /\ order' = Tail(order) /\ UNCHANGED <<k, pc>>

(* tn_queue_receive and tn_queue_receive_polling                           *)
ReceiveNow ==
  /\ Calls("queue_receive") /\ Take
  /\ \/ NoWaiters(Senders) /\ UNCHANGED <<k, pc>>
     \/ /\ ~NoWaiters(Senders) /\ k' = Served
        /\ SwitchIf(Wakes(k, First(Senders)))

(* tn_queue_receive on an empty queue; the element the task's last wait    *)
(* left in data_elem stays there.                                          *)
ReceiveWaits(timeout) ==
  /\ Calls("queue_receive") /\ dque.exists /\ ~Something
  /\ WaitIn(Receivers, "wreceive", timeout)
  /\ UNCHANGED qvars

(* tn_queue_ireceive                                                       *)
IReceive ==
  /\ "queue_ireceive" \in services /\ Enabled /\ Take
  /\ \/ NoWaiters(Senders) /\ UNCHANGED <<k, pc>>
     \/ /\ ~NoWaiters(Senders)
        /\ IrqExit(Request(Served, Wakes(k, First(Senders))))

(* tn_queue_delete: the delete loop for the senders, then for the          *)
(* receivers, with interrupts as the first one has left them.              *)
QueueDelete ==
  /\ Calls("queue_delete") /\ dque.exists
  /\ pc' = Goes(k.curr, "delTest", Senders)
  /\ UNCHANGED <<k, dque>>
QueueDeleteTakes ==
  \/ /\ DeleteTakes(Senders, WithoutFirst(Senders))
     /\ order' = IF k' = k THEN order ELSE RemoveAt(order, Len(Contents) + 1)
  \/ DeleteTakes(Receivers, WithoutFirst(Receivers)) /\ UNCHANGED order
QueueDeleteGoesOn ==
  /\ DeleteLoopOver(Senders)
  /\ pc' = Goes(k.curr, IF Enabled THEN "delTest" ELSE "delMasked", Receivers)
  /\ UNCHANGED <<k, dque>>
QueueDeleteEnds ==
  /\ DeleteLoopOver(Receivers)
  /\ dque' = [dque EXCEPT !.exists = FALSE]
  /\ pc' = Goes(k.curr, "user", Null)
  /\ UNCHANGED k

QueueStep ==
  /\ \/ \E d \in Data : \/ SendNow(d) \/ ISend(d)
                        \/ \E timeout \in QueueTimeouts : SendWaits(d, timeout)
     \/ ReceiveNow \/ IReceive \/ \E timeout \in QueueTimeouts : ReceiveWaits(timeout)
     \/ \E n \in Capacities : QueueCreate(n)
     \/ (QueueDelete \/ QueueDeleteGoesOn \/ QueueDeleteEnds) /\ UNCHANGED order
     \/ QueueDeleteTakes /\ UNCHANGED dque
     \/ /\ \E q \in {Senders, Receivers} :
             \/ WaitSwitches(q) \/ WaitReturns(q)
             \/ DeleteTests(q) \/ DeleteSwitches(q)
        /\ UNCHANGED qvars
  /\ UNCHANGED <<ticks, services>>

-----------------------------------------------------------------------------
(* The indices of the queue stay inside data_fifo.                         *)
QueueTypeOK ==
  LET index == {0} \cup 0..NumEntries - 1
  IN  /\ dque \in [num_entries: Capacities \cup {0}, exists: BOOLEAN,
                   data_fifo: [0..NumEntries - 1 -> Data \cup {Null}],
                   header_cnt: index, tail_cnt: index]
      /\ order \in Seq(Data)

(* Nothing sent is lost, doubled or overtaken, whether it went through the *)
(* FIFO or through a task that waits: what is in the FIFO and then with    *)
(* the waiting senders is what has been sent and not received, and the     *)
(* next receive returns the first of it.                                   *)
NothingLost ==
  dque.exists =>
    /\ order = Contents \o SendersData
    /\ Something => Received = Head(order)

(* Nobody waits for what is there: a receiver waits only while the queue   *)
(* is empty, a sender only while it is full, and each wait list holds the  *)
(* tasks that wait there.                                                  *)
QueueWaitsForAReason ==
  /\ HoldsWaiters(Senders, {"wsend"}) /\ HoldsWaiters(Receivers, {"wreceive"})
  /\ dque.exists /\ ~NoWaiters(Receivers) => FifoEmpty /\ NoWaiters(Senders)
  /\ dque.exists /\ ~NoWaiters(Senders) => Full
=============================================================================
