------------------------------- MODULE FwuWrite -------------------------------
(***************************************************************************)
(* Writing a firmware: the Write dialog of the Windows host                *)
(* (WriteFWDlg.cpp) with its two pipe threads (TxStreamPipe.cpp,           *)
(* RxPipe.cpp), composed with the upgrader in the device.                  *)
(*                                                                         *)
(*   dialog  Start -> open, configure, which program runs? (switch it) ->  *)
(*           start the pipes -> PUT_FW_INFO -> wait for PUT_FW_INFO_ASK -> *)
(*           enable the TX stream -> wait for the result -> stop the pipes *)
(*   TX      fills blocks and hands them to the driver                     *)
(*   RX      stores every packet in CtrlRxExch and signals EventRxData     *)
(*                                                                         *)
(* The host process may be killed and restarted; the device is not told.   *)
(***************************************************************************)
EXTENDS FwuDevice

CONSTANTS NumBufs,       \* STREAM_NUM_OF_BUF
          Timeouts,      \* do timeouts fire while a session is under way?
          MaxSessions, MaxAborts, MaxKills   \* bounds

ASSUME WriteAssumption == /\ NumBufs \in Nat \ {0} /\ Timeouts \in BOOLEAN
                          /\ MaxSessions \in Nat /\ MaxAborts \in Nat
                          /\ MaxKills \in Nat

VARIABLES hpc,      \* where the dialog is
          bound,    \* is its handle that of the upgrader now attached?
          himg,     \* the image it loaded
          result,   \* m_rc
          left,     \* FW.len: blocks of the image not yet in a buffer
          txt,      \* the TX stream thread
          bufs,     \* packets of the blocks handed to the driver
          txEvent, rxEvent, abortEvent,   \* EventTxStream, EventRxData, EventUserAbort
          exch,     \* CtrlRxExch
          termFlag, \* TerminateFlag of the TX stream thread
          sessions, aborts, kills

stream == <<left, txt, bufs, txEvent, termFlag>>
inbox  == <<rxEvent, exch>>
counts == <<sessions, aborts, kills>>
hvars  == <<hpc, bound, himg, result, stream, inbox, abortEvent, counts>>
wvars  == <<dvars, hvars>>

BlocksOf(i) == (ImageLen[i] + Block - 1) \div Block

\* Block n of image i as packets; behind the file FWBuf holds anything.
BlockOf(i, n) == [j \in 1 .. Block |->
                   LET k == (n - 1) * Block + j
                   IN IF k <= ImageLen[i] THEN <<i, k>> ELSE Garbage]
Dummy == [j \in 1 .. Block |-> FF]

WriteInit == /\ Init
             /\ hpc = "idle" /\ bound = FALSE
             /\ himg \in Images /\ result = "none"
             /\ left = 0 /\ txt = "off" /\ bufs = <<>>
             /\ txEvent = FALSE /\ rxEvent = FALSE /\ abortEvent = FALSE
             /\ exch = "none" /\ termFlag = FALSE
             /\ sessions = 0 /\ aborts = 0 /\ kills = 0
-----------------------------------------------------------------------------
(* The dialog.                                                             *)

\* Mutant of Start: FW.len keeps what the last session left of it.
StartKeepsLength(i) ==
  /\ hpc = "idle" /\ sessions < MaxSessions
  /\ sessions' = sessions + 1
  /\ himg' = i /\ left' = IF sessions = 0 THEN BlocksOf(i) ELSE left
  /\ abortEvent' = FALSE /\ result' = "none"
  /\ hpc' = "open"
  /\ UNCHANGED <<dvars, bound, txt, bufs, txEvent, termFlag, inbox, aborts, kills>>

\* The file is loaded, then the button does its work.
Start(i) ==
  /\ hpc = "idle" /\ sessions < MaxSessions
  /\ sessions' = sessions + 1
  /\ himg' = i /\ left' = BlocksOf(i)
  /\ abortEvent' = FALSE /\ result' = "none"
  /\ hpc' = "open"
  /\ UNCHANGED <<dvars, bound, txt, bufs, txEvent, termFlag, inbox, aborts, kills>>

\* OpenDevice, DoSetConfiguration, then IsFWU; without a yes SWITCH_TO_FWU.
OpensUpgrader ==
  /\ hpc = "open" /\ Attached
  /\ SetConfiguration
  /\ bound' = TRUE
  /\ hpc' = "pipes"
  /\ UNCHANGED <<himg, result, stream, inbox, abortEvent, counts>>

OpensFirmware ==
  /\ hpc = "open" /\ dpc = "firmware"
  /\ AppSwitchToFwu
  /\ hpc' = "switching"
  /\ UNCHANGED <<bound, himg, result, stream, inbox, abortEvent, counts>>

OpensNothing ==
  /\ hpc = "open" /\ dpc = "reset"
  /\ hpc' = "switching"
  /\ UNCHANGED <<dvars, bound, himg, result, stream, inbox, abortEvent, counts>>

\* wait_for_flag(WaitSwitchToLoader): set by the arrival of any program.
Arrival ==
  /\ hpc = "switching" /\ dpc # "reset"
  /\ IF Attached THEN SetConfiguration ELSE UNCHANGED dvars
  /\ bound' = Attached
  /\ abortEvent' = FALSE
  /\ hpc' = "pipes"
  /\ UNCHANGED <<himg, result, stream, inbox, counts>>

SwitchTimeout ==
  /\ hpc = "switching" /\ Timeouts
  /\ hpc' = "idle"
  /\ UNCHANGED <<dvars, bound, himg, result, stream, inbox, abortEvent, counts>>

\* EventTxStream is reset, EventRxData is not.
StartPipes ==
  /\ hpc = "pipes"
  /\ txEvent' = FALSE
  /\ txt' = "top" /\ termFlag' = FALSE /\ bufs' = <<>>
  /\ hpc' = "put"
  /\ UNCHANGED <<dvars, bound, himg, result, left, inbox, abortEvent, counts>>

SendInfo ==
  /\ hpc = "put"
  /\ IF bound THEN PutFwInfo(Header(himg)) ELSE UNCHANGED dvars
  /\ hpc' = "waitask"
  /\ UNCHANGED <<bound, himg, result, stream, inbox, abortEvent, counts>>

\* WaitDevResponse returned: rc stays ERR_RXDATA_OK for anything but FW_WR_ERR.
ReceivesAsk ==
  /\ hpc = "waitask" /\ rxEvent
  /\ rxEvent' = FALSE
  /\ \/ exch = "PUT_FW_INFO_ASK" /\ hpc' = "sleep" /\ UNCHANGED result
     \/ exch # "PUT_FW_INFO_ASK" /\ hpc' = "close" /\ result' = "ok"
  /\ UNCHANGED <<dvars, bound, himg, stream, exch, abortEvent, counts>>

\* Mutant of EnableStream: the event is not set.
EnableStreamForgotten ==
  /\ hpc = "sleep"
  /\ hpc' = "waitres"
  /\ UNCHANGED <<dvars, bound, himg, result, stream, inbox, abortEvent, counts>>

\* Sleep(50), SetEvent(EventTxStream)
EnableStream ==
  /\ hpc = "sleep"
  /\ txEvent' = TRUE
  /\ hpc' = "waitres"
  /\ UNCHANGED <<dvars, bound, himg, result, left, txt, bufs, termFlag, inbox, abortEvent, counts>>

ReceivesResult ==
  /\ hpc = "waitres" /\ rxEvent
  /\ rxEvent' = FALSE
  /\ result' = IF exch = "FW_WR_ERR" THEN "wrerr" ELSE "ok"
  /\ hpc' = "close"
  /\ UNCHANGED <<dvars, bound, himg, stream, exch, abortEvent, counts>>

\* The answer, if there is one, goes before the abort.
WaitAborted ==
  /\ hpc \in {"waitask", "waitres"} /\ ~rxEvent /\ abortEvent
  /\ abortEvent' = FALSE
  /\ result' = "abort" /\ hpc' = "close"
  /\ UNCHANGED <<dvars, bound, himg, stream, inbox, counts>>

WaitTimeout ==
  /\ hpc \in {"waitask", "waitres"} /\ ~rxEvent /\ Timeouts
  /\ result' = "timeout" /\ hpc' = "close"
  /\ UNCHANGED <<dvars, bound, himg, stream, inbox, abortEvent, counts>>

\* g_RxPipe.Stop(): from here no packet is collected.
StopRx ==
  /\ hpc = "close"
  /\ hpc' = "stoptx"
  /\ UNCHANGED <<dvars, bound, himg, result, stream, inbox, abortEvent, counts>>

\* Mutant of StopTx: AbortPipe without TerminateFlag.
StopTxNoFlag ==
  /\ hpc = "stoptx"
  /\ bufs' = <<>>
  /\ hpc' = "join"
  /\ UNCHANGED <<dvars, bound, himg, result, left, txt, txEvent, termFlag, inbox, abortEvent, counts>>

\* g_TxStreamPipe.Stop(): the flag, then AbortPipe cancels what is pending ...
StopTx ==
  /\ hpc = "stoptx"
  /\ termFlag' = TRUE /\ bufs' = <<>>
  /\ hpc' = "join"
  /\ UNCHANGED <<dvars, bound, himg, result, left, txt, txEvent, inbox, abortEvent, counts>>

\* ... and the wait for the thread has no limit.
JoinTx ==
  /\ hpc = "join" /\ txt = "exit"
  /\ txt' = "off" /\ txEvent' = FALSE
  /\ hpc' = "idle" /\ bound' = FALSE
  /\ UNCHANGED <<dvars, himg, result, left, bufs, termFlag, inbox, abortEvent, counts>>
-----------------------------------------------------------------------------
(* The user.                                                               *)

StopButton ==
  /\ hpc \in {"waitask", "waitres"} /\ aborts < MaxAborts
  /\ aborts' = aborts + 1
  /\ abortEvent' = TRUE
  /\ UNCHANGED <<dvars, hpc, bound, himg, result, stream, inbox, sessions, kills>>

\* The process is killed in the middle of a session and started again.
Kill ==
  /\ hpc # "idle" /\ kills < MaxKills
  /\ kills' = kills + 1
  /\ hpc' = "idle" /\ bound' = FALSE /\ result' = "none"
  /\ left' = 0 /\ txt' = "off" /\ bufs' = <<>> /\ txEvent' = FALSE /\ termFlag' = FALSE
  /\ rxEvent' = FALSE /\ exch' = "none" /\ abortEvent' = FALSE
  /\ UNCHANGED <<dvars, himg, sessions, aborts>>
-----------------------------------------------------------------------------
(* The pipe threads.                                                       *)

\* CUsbIoWriter::ThreadRoutine, head of the loop; on the way out it waits for
\* every pending buffer.
TxTop ==
  /\ txt = "top"
  /\ txt' = IF termFlag THEN "drain" ELSE "fill"
  /\ UNCHANGED <<dvars, hpc, bound, himg, result, left, bufs, txEvent, termFlag, inbox, abortEvent, counts>>

TxExit ==
  /\ txt = "drain" /\ bufs = <<>>
  /\ txt' = "exit"
  /\ UNCHANGED <<dvars, hpc, bound, himg, result, left, bufs, txEvent, termFlag, inbox, abortEvent, counts>>

FreeBuf == Len(bufs) <= (NumBufs - 1) * Block

\* Mutant of TxFill: one buffer more than the pool has.
TxFillNoPool ==
  /\ txt = "fill" /\ Len(bufs) <= NumBufs * Block /\ txEvent
  /\ bufs' = bufs \o Dummy
  /\ UNCHANGED <<dvars, hpc, bound, himg, result, left, txt, txEvent, termFlag, inbox, abortEvent, counts>>

\* ProcessBuffer waits for EventTxStream without limit, then fills the buffer.
TxFill ==
  /\ txt = "fill" /\ FreeBuf /\ txEvent
  /\ \/ left > 0 /\ bufs' = bufs \o BlockOf(himg, BlocksOf(himg) - left + 1)
                 /\ left' = left - 1
     \/ left = 0 /\ bufs' = bufs \o Dummy /\ UNCHANGED left
  /\ UNCHANGED <<dvars, hpc, bound, himg, result, txt, txEvent, termFlag, inbox, abortEvent, counts>>

\* All buffers are with the driver; the thread waits for the first to complete.
TxWaits ==
  /\ txt = "fill" /\ ~FreeBuf
  /\ txt' = "pend"
  /\ UNCHANGED <<dvars, hpc, bound, himg, result, left, bufs, txEvent, termFlag, inbox, abortEvent, counts>>

TxReap ==
  /\ txt = "pend" /\ FreeBuf
  /\ txt' = "top"
  /\ UNCHANGED <<dvars, hpc, bound, himg, result, left, bufs, txEvent, termFlag, inbox, abortEvent, counts>>

\* The driver sends the next packet of the pending blocks.
TxWire ==
  /\ bound /\ bufs # <<>>
  /\ OutPacket(Head(bufs))
  /\ bufs' = Tail(bufs)
  /\ UNCHANGED <<hpc, bound, himg, result, left, txt, txEvent, termFlag, inbox, abortEvent, counts>>

\* Without the device the blocks fail, until STREAM_MAXERR ends the thread.
TxErrors ==
  /\ txt = "pend" /\ ~bound
  /\ bufs' = <<>>
  /\ txt' = "drain"
  /\ UNCHANGED <<dvars, hpc, bound, himg, result, left, txEvent, termFlag, inbox, abortEvent, counts>>

\* CRxPipe::ProcessData
RxCollect ==
  /\ bound /\ hpc \in {"put", "waitask", "sleep", "waitres", "close"}
  /\ InPacket
  /\ exch' = Head(txq).cmd
  /\ rxEvent' = TRUE
  /\ UNCHANGED <<hpc, bound, himg, result, stream, abortEvent, counts>>
-----------------------------------------------------------------------------
HostNext ==
  \/ \E i \in Images : Start(i)
  \/ OpensUpgrader \/ OpensFirmware \/ OpensNothing \/ Arrival \/ SwitchTimeout
  \/ StartPipes \/ SendInfo \/ ReceivesAsk \/ EnableStream \/ ReceivesResult
  \/ WaitAborted \/ WaitTimeout \/ StopRx \/ StopTx \/ JoinTx
  \/ StopButton \/ Kill

ThreadNext == TxTop \/ TxFill \/ TxWaits \/ TxReap \/ TxExit \/ TxWire \/ TxErrors \/ RxCollect

\* RX_TIMROUT polls pass only while the host is quiet, unless Timeouts.
QuietTimeout == RxTimeout /\ (Timeouts \/ hpc = "idle")

\* The driver fails what is pending, and the handle, when the upgrader leaves.
HostSees ==
  /\ bound' = (bound /\ Attached')
  /\ bufs' = IF bound /\ ~Attached' THEN <<>> ELSE bufs
  /\ UNCHANGED <<hpc, himg, result, left, txt, txEvent, termFlag, inbox, abortEvent, counts>>

DeviceNext == (Boot \/ LoopNext \/ RxNext \/ QuietTimeout \/ PowerLoss) /\ HostSees

WriteNext == HostNext \/ ThreadNext \/ DeviceNext

WriteSpec == WriteInit /\ [][WriteNext]_wvars

\* The types of the dialog's state; the driver never holds more than the pool.
WriteTypeOK ==
  /\ TypeOK
  /\ hpc \in {"idle", "open", "switching", "pipes", "put", "waitask", "sleep",
              "waitres", "close", "stoptx", "join"}
  /\ himg \in Images
  /\ result \in {"none", "ok", "wrerr", "timeout", "abort"}
  /\ left \in Nat
  /\ txt \in {"off", "top", "fill", "pend", "drain", "exit"}
  /\ bufs \in Seq(Packets) /\ Len(bufs) <= NumBufs * Block
  /\ {bound, txEvent, rxEvent, abortEvent, termFlag} \subseteq BOOLEAN
  /\ exch \in {m.cmd : m \in Messages} \cup {"none"}
  /\ sessions \in 0 .. MaxSessions /\ aborts \in 0 .. MaxAborts /\ kills \in 0 .. MaxKills

-----------------------------------------------------------------------------
(* Fairness.  Threads and the device's main loop are always scheduled; the  *)
(* bus carries what is ready; the dialog does what it is waiting for.  The *)
(* user, the timeouts, faults and kills are not obliged to happen.         *)

DialogStep == \/ OpensUpgrader \/ OpensFirmware \/ OpensNothing \/ Arrival
              \/ StartPipes \/ SendInfo \/ ReceivesAsk \/ EnableStream
              \/ ReceivesResult \/ WaitAborted \/ StopRx \/ StopTx \/ JoinTx

DeviceStep == (Boot \/ LoopNext \/ RxNext) /\ HostSees

WriteFairSpec == /\ WriteSpec
                 /\ WF_wvars(DeviceStep) /\ WF_wvars(DialogStep)
                 /\ WF_wvars(TxTop \/ TxFill \/ TxWaits \/ TxReap \/ TxExit \/ TxErrors)
                 /\ WF_wvars(TxWire) /\ WF_wvars(RxCollect)
-----------------------------------------------------------------------------
(* Properties.                                                             *)

\* The image and its header are in flash as the upgrader will check them.
Written(i) == Holds(i) /\ hdr = Header(i)

\* The image is longer than its header, so that its CRC says something of it.
Covered(i) == FwLength[i] > 1

\* A dialog that shows "Done." has written its image, whatever timeouts, faults
\* and aborts came in between.  A second session may find the answer that was
\* left for the first; and nothing tells whether an image that ends in its
\* header is there.
DoneIsWritten == sessions = 1 /\ hpc \in {"close", "stoptx", "join"} /\ result = "ok" /\ Covered(himg)
                   => Written(himg)

\* The firmware that runs is one that a dialog has announced, whole and with its
\* header, however the requests of two dialogs meet; where images are longer
\* than their headers, the exception of RunningIsIntact does not come up.
RunningIsImage == (\A i \in Images : Covered(i)) /\ dpc = "firmware" => \E i \in Images : Written(i)

\* Flash is programmed only where the erase of this write request has been.  A
\* second request may come between the erase and set_state(STATE_DEFAULT).
WritesErasedFlash == sessions = 1 /\ dpc = "write" /\ ImageLen[himg] <= FlashSize =>
  \A k \in nrx - Block + 1 .. nrx : k <= FlashSize => flash[k] = FF

\* A firmware that would be started stays so until a write request erases it: no
\* abort, timeout, kill or power loss of the first session spoils it otherwise.
\* A request that comes after another's erase may write where nothing was erased.
IntactUntilErased == [][sessions <= 1 /\ ImageLen[himg] <= FlashSize /\ Bootable /\ ~Bootable'
                          => dpc = "erase"]_wvars

\* Once FW_WR_RDY is on its way the device starts the firmware, whatever
\* requests reach the globals between the CRC test and the start.  With three
\* requests under way the header in flash may be half of one, half of another.
\* An image that ends in its header passes the test also if its write failed.
RdyStarts == [][sessions <= 2 /\ (\A i \in Images : Covered(i)) /\ dpc = "switch" /\ dpc' # "switch" =>
                  dpc' = "firmware" \/ faults' > faults]_wvars

\* A write that nobody stops, once the request waits for the main loop, ends
\* with the image running; the write after it too.
WriteSucceeds == \A i \in Images :
  (hpc = "waitask" /\ himg = i /\ bound /\ dpc = "loop" /\ aborts = 0) ~>
    (aborts > 0 \/ (dpc = "firmware" /\ Written(i)))

\* stream_rx gets the announced image from its first packet on: in the first
\* session always, in a later one as long as no stream has been broken off.
StreamInOrder ==
  /\ aborts = 0 \/ sessions <= 1
  /\ dpc = "rx" /\ rxq # <<>> /\ hpc \in {"waitask", "sleep", "waitres"}
  => \/ Head(rxq) = <<himg, nrx + 1>>
     \/ nrx >= ImageLen[himg]

\* With nothing pending and ProcessBuffer left, the TX thread ends and Stop
\* returns: AbortPipe has woken the thread and it sees TerminateFlag.
JoinEnds == (hpc = "join" /\ bufs = <<>> /\ txt # "fill") ~> hpc = "idle"

\* "shutdown thread, wait until it is terminated"
StopEnds == hpc = "stoptx" ~> hpc = "idle"
=============================================================================
