------------------------------- MODULE UsbApp -------------------------------
(***************************************************************************)
(* The example application (usb_app.c): its two USB tasks over TNKernel's  *)
(* semaphore, queues and memory pools, the interrupts of endpoint 2        *)
(* (tn_usb_ep.c) and its vendor requests (tn_usb_hw.c).                    *)
(*                                                                         *)
(* A kernel service is one step here (the modules Tn* model them); one     *)
(* that finds nothing leaves the task waiting, and the service that has    *)
(* what it waits for hands it over.  The transmitter has the higher        *)
(* priority: the receiver runs while it waits.                             *)
(***************************************************************************)
EXTENDS Naturals

CONSTANTS Blocks,      \* QUEUE_EP2RX_SIZE: num_entries of a queue, blocks of its pool
          ChkBreak,    \* NOW_CHK_BREAK: blocks between two looks at gUserAbort
          AppHwBuffers    \* packets endpoint 2 holds in each direction

ASSUME AppAssumption == /\ Blocks \in Nat \ {0} /\ ChkBreak \in Nat \ {0}
                        /\ AppHwBuffers \in Nat \ {0}

VARIABLES rx, rxFree, rxQueue,             \* task_ep2_rx, pool, blocks queued
          rxHw, rxInt,                     \* packets in the controller, interrupt
          tx, chkbreak_cnt,                \* task_ep2_tx
          txFree, txQueue, txHw,           \* pool, queued blocks, controller
          semEP2TX, gUserAbort

rxvars == <<rx, rxFree, rxQueue, rxHw, rxInt>>
txtask == <<tx, chkbreak_cnt>>
txpool == <<txFree, txQueue, txHw>>
avars  == <<rxvars, txtask, txpool, semEP2TX, gUserAbort>>

Waits == {"waitsSem", "waitsBlock", "waitsSend"}

\* The FIFO of num_entries elements leaves one unused (dque_fifo_write).
Capacity == Blocks - 1
Connected == tx # "connect"

\* tn_app_init has created everything before a task or an interrupt runs.
AppInit == /\ rx = "receive" /\ rxFree = Blocks /\ rxQueue = 0
           /\ rxHw = 0 /\ rxInt = FALSE
           /\ tx = "connect" /\ chkbreak_cnt = 0
           /\ txFree = Blocks /\ txQueue = 0 /\ txHw = 0
           /\ semEP2TX = 0 /\ gUserAbort = FALSE
-----------------------------------------------------------------------------
(* task_ep2_rx_func                                                        *)

RxReceive ==
  /\ tx \in Waits /\ rx = "receive"
  /\ \/ rxQueue > 0 /\ rxQueue' = rxQueue - 1 /\ rx' = "release"
     \/ rxQueue = 0 /\ rx' = "waits" /\ UNCHANGED rxQueue
  /\ UNCHANGED <<rxFree, rxHw, rxInt, txtask, txpool, semEP2TX, gUserAbort>>

RxRelease ==
  /\ tx \in Waits /\ rx = "release"
  /\ rxFree' = rxFree + 1
  /\ rx' = "receive"
  /\ UNCHANGED <<rxQueue, rxHw, rxInt, txtask, txpool, semEP2TX, gUserAbort>>
-----------------------------------------------------------------------------
(* task_ep2_tx_func                                                        *)

TxConnect ==
  /\ tx = "connect" /\ tx' = "acquire"
  /\ UNCHANGED <<rxvars, chkbreak_cnt, txpool, semEP2TX, gUserAbort>>

TxAcquire ==
  /\ tx = "acquire"
  /\ \/ semEP2TX = 1 /\ semEP2TX' = 0 /\ tx' = "get"
     \/ semEP2TX = 0 /\ tx' = "waitsSem" /\ UNCHANGED semEP2TX
  /\ chkbreak_cnt' = 0
  /\ UNCHANGED <<rxvars, txpool, gUserAbort>>

TxGet ==
  /\ tx = "get"
  /\ \/ txFree > 0 /\ txFree' = txFree - 1 /\ tx' = "send"
     \/ txFree = 0 /\ tx' = "waitsBlock" /\ UNCHANGED txFree
  /\ UNCHANGED <<rxvars, chkbreak_cnt, txQueue, txHw, semEP2TX, gUserAbort>>

\* The block is filled and queued; with the queue full the task waits with it.
TxSend ==
  /\ tx = "send"
  /\ \/ txQueue < Capacity /\ txQueue' = txQueue + 1 /\ tx' = "sent"
     \/ txQueue = Capacity /\ tx' = "waitsSend" /\ UNCHANGED txQueue
  /\ UNCHANGED <<rxvars, chkbreak_cnt, txFree, txHw, semEP2TX, gUserAbort>>

TxCount ==
  /\ tx = "sent"
  /\ chkbreak_cnt' = chkbreak_cnt + 1
  /\ tx' = IF chkbreak_cnt' >= ChkBreak THEN "check" ELSE "get"
  /\ UNCHANGED <<rxvars, txpool, semEP2TX, gUserAbort>>

TxCheck ==
  /\ tx = "check"
  /\ chkbreak_cnt' = 0
  /\ tx' = IF gUserAbort THEN "break" ELSE "get"
  /\ UNCHANGED <<rxvars, txpool, semEP2TX, gUserAbort>>

\* Mutant of TxBreak: the break leaves no loop.
TxBreakStays ==
  /\ tx = "break"
  /\ gUserAbort' = FALSE
  /\ tx' = "get"
  /\ UNCHANGED <<rxvars, chkbreak_cnt, txpool, semEP2TX>>

TxBreak ==
  /\ tx = "break"
  /\ gUserAbort' = FALSE
  /\ tx' = "acquire"
  /\ UNCHANGED <<rxvars, chkbreak_cnt, txpool, semEP2TX>>
-----------------------------------------------------------------------------
(* The interrupts of endpoint 2.  One packet is moved per interrupt, which *)
(* a packet or a refused one (NAK) raises.                                 *)

\* tn_queue_isend_polling hands the block to a waiting receiver; its result
\* is not looked at, and a block that finds the queue full is gone.
Sends == \/ rx = "waits" /\ rx' = "release" /\ UNCHANGED rxQueue
         \/ rx # "waits" /\ rxQueue < Capacity /\ rxQueue' = rxQueue + 1 /\ UNCHANGED rx
         \/ rx # "waits" /\ rxQueue = Capacity /\ UNCHANGED <<rx, rxQueue>>

\* Mutant of AppRxInt: the block is taken before the endpoint is looked at.
AppRxIntTakesFirst ==
  /\ rxInt /\ rxInt' = FALSE
  /\ \/ rxHw > 0 /\ rxFree > 0 /\ rxHw' = rxHw - 1 /\ rxFree' = rxFree - 1 /\ Sends
     \/ rxHw = 0 /\ rxFree > 0 /\ rxFree' = rxFree - 1 /\ UNCHANGED <<rx, rxQueue, rxHw>>
     \/ rxFree = 0 /\ UNCHANGED <<rx, rxFree, rxQueue, rxHw>>
  /\ UNCHANGED <<txtask, txpool, semEP2TX, gUserAbort>>

\* Without a free block the packet stays in the controller.
AppRxInt ==
  /\ rxInt /\ rxInt' = FALSE
  /\ \/ rxHw > 0 /\ rxFree > 0 /\ rxHw' = rxHw - 1 /\ rxFree' = rxFree - 1 /\ Sends
     \/ (rxHw = 0 \/ rxFree = 0) /\ UNCHANGED <<rx, rxFree, rxQueue, rxHw>>
  /\ UNCHANGED <<txtask, txpool, semEP2TX, gUserAbort>>

\* tn_queue_ireceive takes the oldest block; one that waits with the
\* transmitter moves up.  The block taken goes back to the pool, or to the
\* transmitter that waits for one.
AppTxInt ==
  /\ Connected /\ txHw < AppHwBuffers
  /\ txHw' = txHw + 1
  /\ \/ tx = "waitsSend" /\ tx' = "sent" /\ txFree' = txFree + 1 /\ UNCHANGED txQueue
     \/ /\ tx # "waitsSend" /\ txQueue > 0 /\ txQueue' = txQueue - 1
        /\ \/ tx = "waitsBlock" /\ tx' = "send" /\ UNCHANGED txFree
           \/ tx # "waitsBlock" /\ txFree' = txFree + 1 /\ UNCHANGED tx
  /\ UNCHANGED <<rxvars, chkbreak_cnt, semEP2TX, gUserAbort>>

\* Vendor request APP_CMD with SEND_DEMO_DATA; a second one is lost while
\* the first has not been taken.
SendDemoData ==
  /\ Connected
  /\ \/ tx = "waitsSem" /\ tx' = "get" /\ UNCHANGED semEP2TX
     \/ tx # "waitsSem" /\ semEP2TX' = 1 /\ UNCHANGED tx
  /\ UNCHANGED <<rxvars, chkbreak_cnt, txpool, gUserAbort>>

\* Vendor request USER_ABORT.
UserAbort ==
  /\ Connected
  /\ gUserAbort' = TRUE
  /\ UNCHANGED <<rxvars, txtask, txpool, semEP2TX>>

\* SET_CONFIGURATION realizes the endpoints, which empties them.
Configure ==
  /\ Connected
  /\ rxHw' = 0 /\ txHw' = 0
  /\ UNCHANGED <<rx, rxFree, rxQueue, rxInt, txtask, txFree, txQueue, semEP2TX,
                 gUserAbort>>
-----------------------------------------------------------------------------
(* The host.                                                               *)

\* An OUT packet, acknowledged or not, raises the interrupt.
AppHostOut ==
  /\ Connected
  /\ rxInt' = TRUE
  /\ rxHw' = IF rxHw < AppHwBuffers THEN rxHw + 1 ELSE rxHw
  /\ UNCHANGED <<rx, rxFree, rxQueue, txtask, txpool, semEP2TX, gUserAbort>>

AppHostIn ==
  /\ txHw > 0
  /\ txHw' = txHw - 1
  /\ UNCHANGED <<rxvars, txtask, txFree, txQueue, semEP2TX, gUserAbort>>
-----------------------------------------------------------------------------
RxTask == RxReceive \/ RxRelease
TxTask == TxConnect \/ TxAcquire \/ TxGet \/ TxSend \/ TxCount \/ TxCheck \/ TxBreak
AppInt == AppRxInt \/ AppTxInt \/ SendDemoData \/ UserAbort \/ Configure
AppNext == RxTask \/ TxTask \/ AppInt \/ AppHostOut \/ AppHostIn

(* The tasks run when no interrupt does; the host keeps reading, and its   *)
(* polls raise the interrupt that fills the endpoint.                      *)
AppSpec == /\ AppInit /\ [][AppNext]_avars
           /\ WF_avars(TxTask) /\ WF_avars(RxTask)
           /\ WF_avars(AppTxInt) /\ WF_avars(AppHostIn)
-----------------------------------------------------------------------------
(* Properties.                                                             *)

\* Blocks in a pool, in its queue and with its task.
RxBlocks == rxFree + rxQueue + (IF rx = "release" THEN 1 ELSE 0)
TxBlocks == txFree + txQueue + (IF tx \in {"send", "waitsSend"} THEN 1 ELSE 0)

(* No block to send is ever lost or handed out twice, and none of those    *)
(* received but one: that the result of tn_queue_isend_polling is not      *)
(* looked at costs the block that the queue has no entry for, and no more. *)
BlocksConserved == TxBlocks = Blocks /\ RxBlocks \in {Capacity, Blocks}

Streams == tx \in {"get", "waitsBlock", "send", "waitsSend", "sent", "check", "break"}

(* While the host reads, an abort ends the stream, although gUserAbort is  *)
(* looked at only now and then and the transmitter may wait for a block,   *)
(* for room in its queue or for the host.                                  *)
AbortEnds == gUserAbort /\ Streams ~> ~Streams
=============================================================================
