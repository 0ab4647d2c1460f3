----------------------------- MODULE UsbWindow ------------------------------
(***************************************************************************)
(* The window of the host program (src/fwl_src/usbfwu): the handlers of    *)
(* CusbfwuDlg, CReadFWDlg, CWriteFWDlg and CRegOpDlg, which all run in one *)
(* thread.  A handler that waits pumps messages meanwhile (WaitDevResponse,*)
(* wait_for_flag, the loop of the regular operation, every message box),   *)
(* so other handlers run nested in it: the handlers are a stack.  A        *)
(* message box keeps the user from the other controls, not the timer and   *)
(* the system's notifications.                                             *)
(*                                                                         *)
(* The reader thread is told in UsbIoLib, the writer and what is sent in   *)
(* FwuWrite; here the reader is one step per packet.  The device restarts  *)
(* when it likes, also when it is asked to, as the loader or the           *)
(* application; every request to it may fail, so that it does not matter   *)
(* at which request of a handler the device went: it, and the reader, move *)
(* while the handlers wait (Pumps).                                        *)
(***************************************************************************)
EXTENDS Naturals, SequencesExt

CONSTANTS MaxDepth,   \* handlers that run in one another
          MaxPlugs,   \* how often the device comes
          Uses        \* each the tabs a user goes to

Loaders == {"GET_FW", "PUT_FW"}
Dialogs == Loaders \cup {"RXDEMO"}    \* the tabs with a Start and a Stop button
Tabs == Dialogs \cup {"ABOUT"}

ASSUME WindowAssumption ==
  MaxDepth \in Nat \ {0} /\ MaxPlugs \in Nat /\ Uses \subseteq SUBSET Tabs

VARIABLES
  frames,     \* the handlers of Start buttons that run, the innermost last:
              \* [dlg, pc, box]; box: a message box has to be closed first
  btn,        \* the Start and Stop button of each dialog: enabled or not
  g_dt,       \* the globals of fwu_types.h
  pipe,       \* g_RxPipe: bound, its thread runs, reads are pending in its
              \* buffers, or in buffers that have been freed
  dev,        \* the device: present, program, how often it came
  msgs,       \* what the system has posted: the notifications in their order,
              \* the dialogs CM_END_OP is posted to
  uses        \* the tabs the user goes to, chosen at the start

wvars == <<frames, btn, g_dt, pipe, dev, msgs, uses>>

WindowInit ==
  \E here \in BOOLEAN, p \in {"fwu", "app"} :
    /\ frames = <<>>
    /\ btn = [d \in Dialogs |-> [start |-> here, stop |-> FALSE]]
    /\ g_dt = [OpMode |-> "GET_FW", NowFWLoader |-> FALSE, WaitSwitchToLoader |-> FALSE,
               EnableTabPageChanging |-> TRUE, fOpInProgress |-> FALSE, OpState |-> 0,
               BtnTimeoutCnt |-> FALSE, UsbIo |-> "closed",
               IsValid |-> FALSE, EventUserAbort |-> FALSE, EventRxData |-> FALSE]
    /\ pipe = [bound |-> FALSE, thread |-> FALSE, pending |-> FALSE, dangling |-> FALSE]
    /\ dev = [present |-> here, program |-> p, plugs |-> 0]
    /\ msgs = [change |-> <<>>, CM_END_OP |-> {}]
    /\ uses \in Uses

-----------------------------------------------------------------------------
(* Who may run: a handler that waits, or none, lets others in.             *)

InFront == Last(frames)
Goes(pc, box) == frames' = Front(frames) \o <<[InFront EXCEPT !.pc = pc, !.box = box]>>
Pops == frames' = Front(frames)
Runs(d, pc) == frames # <<>> /\ InFront = [dlg |-> d, pc |-> pc, box |-> FALSE]
Pumps == frames # <<>> =>
  InFront.box \/ InFront.pc \in {"switch", "wait", "written", "loop"}
ForTheUser == Pumps /\ (frames # <<>> => ~InFront.box)

(* EnableItem: the button of every dialog.                                 *)
EnableItem(b, item, on) == [d \in Dialogs |-> [b[d] EXCEPT ![item] = on]]

(* UpdateDeviceList                                                        *)
UpdateDeviceList(b) ==
  IF ~dev.present THEN EnableItem(EnableItem(b, "stop", FALSE), "start", FALSE)
  ELSE IF g_dt.fOpInProgress THEN b
  ELSE EnableItem(EnableItem(b, "start", TRUE), "stop", FALSE)

(* OnDeviceChange                                                          *)
DeviceRemoved ==
  /\ Pumps /\ msgs.change # <<>> /\ Head(msgs.change) = "removed"
  /\ msgs' = [msgs EXCEPT !.change = Tail(@)]
  /\ g_dt' = [g_dt EXCEPT !.OpState = IF g_dt.fOpInProgress THEN 1 ELSE @,
                          !.UsbIo = "closed"]
  /\ btn' = UpdateDeviceList(btn)
  /\ UNCHANGED <<frames, pipe, dev>>
DeviceArrived ==
  LET arms == g_dt.fOpInProgress /\ g_dt.OpState = 1
  IN  /\ Pumps /\ msgs.change # <<>> /\ Head(msgs.change) = "arrived"
      /\ msgs' = [msgs EXCEPT !.change = Tail(@)]
      /\ g_dt' = [g_dt EXCEPT
                    !.EventUserAbort = FALSE, !.WaitSwitchToLoader = TRUE,
                    !.OpState = IF arms THEN 0 ELSE @,
                    !.BtnTimeoutCnt = @ \/ (arms /\ g_dt.OpMode \in Loaders)]
      /\ btn' = UpdateDeviceList(btn)
      /\ UNCHANGED <<frames, pipe, dev>>

(* OnTimer, when BtnTimeoutCnt becomes 0.                                  *)
TimerEnds ==
  /\ Pumps /\ g_dt.BtnTimeoutCnt
  /\ IF g_dt.OpMode \in Loaders
     THEN /\ g_dt' = [g_dt EXCEPT !.BtnTimeoutCnt = FALSE, !.fOpInProgress = FALSE,
                                  !.EnableTabPageChanging = TRUE]
          /\ btn' = EnableItem(btn, "start", TRUE)
          /\ msgs' = [msgs EXCEPT !.CM_END_OP = @ \cup {g_dt.OpMode}]
     ELSE g_dt' = [g_dt EXCEPT !.BtnTimeoutCnt = FALSE] /\ UNCHANGED <<btn, msgs>>
  /\ UNCHANGED <<frames, pipe, dev>>

(* The dialog is told that its operation has ended.                        *)
OpEnds(d) ==
  /\ Pumps /\ d \in msgs.CM_END_OP
  /\ msgs' = [msgs EXCEPT !.CM_END_OP = @ \ {d}]
  /\ btn' = [btn EXCEPT ![d].stop = FALSE]
  /\ UNCHANGED <<frames, g_dt, pipe, dev>>
OnRdFwEnd == OpEnds("GET_FW")
OnWrFwEnd == OpEnds("PUT_FW")

(* OnTabChange                                                             *)
TabChanged(t) ==
  /\ ForTheUser /\ g_dt.EnableTabPageChanging /\ t # g_dt.OpMode
  /\ g_dt' = [g_dt EXCEPT !.OpMode = t]
  /\ UNCHANGED <<frames, btn, pipe, dev, msgs>>

Stop(d) ==
  /\ ForTheUser /\ g_dt.OpMode = d /\ btn[d].stop
  /\ g_dt' = [g_dt EXCEPT !.EventUserAbort = TRUE]
  /\ UNCHANGED <<frames, btn, pipe, dev, msgs>>

-----------------------------------------------------------------------------
(* The Start buttons.                                                      *)

(* The file is opened, or loaded; or a message says why it is not.         *)
Start(d) ==
  /\ ForTheUser /\ g_dt.OpMode = d /\ btn[d].start /\ Len(frames) < MaxDepth
  /\ btn' = IF d = "RXDEMO" THEN btn
            ELSE [btn EXCEPT ![d].start = FALSE]
  /\ \E ok \in BOOLEAN :
       /\ frames' = Append(frames, [dlg |-> d, pc |-> IF ok THEN "open" ELSE "nofile",
                                    box |-> ~ok])
       /\ g_dt' = LET g == [g_dt EXCEPT !.NowFWLoader = FALSE,
                                        !.fOpInProgress = @ \/ d \in Loaders]
                  IN  IF ~ok THEN g
                      ELSE [g EXCEPT !.EnableTabPageChanging = FALSE,
                                     !.EventUserAbort = FALSE,
                                     !.WaitSwitchToLoader = FALSE]
  /\ UNCHANGED <<pipe, dev, msgs>>

(* The regular operation disables its Start button for good.               *)
NoFile(d) ==
  /\ Runs(d, "nofile") /\ Pops
  /\ btn' = [btn EXCEPT ![d].start = d \in Loaders]
  /\ g_dt' = [g_dt EXCEPT !.fOpInProgress = @ /\ d \notin Loaders]
  /\ UNCHANGED <<pipe, dev, msgs>>

BoxIsClosed ==
  /\ frames # <<>> /\ InFront.box /\ Goes(InFront.pc, FALSE)
  /\ UNCHANGED <<btn, g_dt, pipe, dev, msgs>>

(* OpenDevice and DoSetConfiguration: a handle that is open is kept.       *)
OpenDevice(next) ==
  /\ Goes(next, g_dt.UsbIo # "closed")
  /\ \E io \in IF g_dt.UsbIo # "closed" THEN {g_dt.UsbIo}
               ELSE {"closed"} \cup (IF dev.present THEN {"open"} ELSE {}) :
       g_dt' = [g_dt EXCEPT !.UsbIo = io]
Opens(d) == Runs(d, "open") /\ OpenDevice("asks") /\ UNCHANGED <<btn, pipe, dev, msgs>>

(* IsFWU; the loader is asked for when it is not the one that runs.        *)
Reachable == g_dt.UsbIo = "open" /\ dev.present
IsFWU(d) ==
  /\ Runs(d, "asks")
  /\ \/ /\ Reachable /\ dev.program = "fwu"
        /\ IF d \in Loaders
           THEN Goes("bind", FALSE) /\ g_dt' = [g_dt EXCEPT !.NowFWLoader = TRUE]
           ELSE Goes("isfwu", TRUE) /\ g_dt' = [g_dt EXCEPT !.UsbIo = "closed"]
     \/ Goes(IF d \in Loaders THEN "switch" ELSE "bind", FALSE) /\ UNCHANGED g_dt
  /\ UNCHANGED <<btn, pipe, dev, msgs>>
NotNow ==
  /\ Runs("RXDEMO", "isfwu") /\ Pops
  /\ btn' = [btn EXCEPT !["RXDEMO"].start = TRUE]
  /\ g_dt' = [g_dt EXCEPT !.EnableTabPageChanging = TRUE]
  /\ UNCHANGED <<pipe, dev, msgs>>

(* wait_for_flag: the loader has arrived, or three seconds are over.       *)
Switched(d) ==
  /\ Runs(d, "switch") /\ g_dt.WaitSwitchToLoader /\ OpenDevice("bind")
  /\ UNCHANGED <<btn, pipe, dev, msgs>>
SwitchFails(d) ==
  /\ Runs(d, "switch") /\ ~g_dt.WaitSwitchToLoader /\ Pops
  /\ btn' = [btn EXCEPT ![d].start = TRUE]
  /\ g_dt' = [g_dt EXCEPT !.UsbIo = "closed", !.EnableTabPageChanging = TRUE,
                          !.fOpInProgress = FALSE]
  /\ UNCHANGED <<pipe, dev, msgs>>

(* g_RxPipe.BindPipe                                                       *)
BindPipe(d) ==
  /\ Runs(d, "bind")
  /\ btn' = [btn EXCEPT ![d].stop = TRUE]
  /\ \E ok \in {FALSE, dev.present} :
       pipe' = [pipe EXCEPT !.bound = @ \/ ok] /\ Goes("start", ~pipe'.bound)
  /\ UNCHANGED <<g_dt, dev, msgs>>

(* g_RxPipe.Start: the buffers are freed whatever becomes of the thread.   *)
StartPipe(d) ==
  /\ Runs(d, "start")
  /\ pipe' = [pipe EXCEPT !.dangling = @ \/ pipe.pending, !.pending = FALSE,
                          !.thread = TRUE]
  /\ Goes("command", pipe.thread)
  /\ UNCHANGED <<btn, g_dt, dev, msgs>>

(* cmd_GET_FW_INFO and GET_FW, cmd_PUT_FW_INFO, or SEND_DEMO_DATA.         *)
Command(d) ==
  /\ Runs(d, "command")
  /\ \/ d = "GET_FW" /\ Reachable /\ dev.program = "fwu"
        /\ Goes("wait", FALSE) /\ g_dt' = [g_dt EXCEPT !.IsValid = TRUE]
     \/ d = "GET_FW" /\ Goes("final", FALSE) /\ g_dt' = [g_dt EXCEPT !.IsValid = FALSE]
     \/ d = "PUT_FW" /\ Goes("wait", FALSE) /\ UNCHANGED g_dt
     \/ d = "RXDEMO" /\ Goes("loop", FALSE) /\ UNCHANGED g_dt
  /\ UNCHANGED <<btn, pipe, dev, msgs>>

(* WaitDevResponse: an answer, the user, or the time.  The answer that     *)
(* enables the stream to the device is followed by another one.            *)
Response(d, pc) ==
  /\ Runs(d, pc)
  /\ \/ /\ g_dt.EventRxData /\ g_dt' = [g_dt EXCEPT !.EventRxData = FALSE]
        /\ \/ Goes("final", FALSE)
           \/ d = "PUT_FW" /\ pc = "wait" /\ Goes("written", FALSE)
     \/ /\ ~g_dt.EventRxData /\ g_dt' = [g_dt EXCEPT !.EventUserAbort = FALSE]
        /\ Goes("final", FALSE)
  /\ UNCHANGED <<btn, pipe, dev, msgs>>

(* The end of a session: the pipe is stopped, its thread is joined.        *)
StoppedNot == [pipe EXCEPT !.bound = FALSE]    \* mutant: the thread goes on
Stopped == [pipe EXCEPT !.thread = FALSE, !.pending = FALSE, !.bound = FALSE]
Final(d) ==
  /\ Runs(d, "final") /\ Pops /\ pipe' = Stopped
  /\ g_dt' = [g_dt EXCEPT !.UsbIo = "closed", !.BtnTimeoutCnt = @ \/ g_dt.NowFWLoader]
  /\ UNCHANGED <<btn, dev, msgs>>

(* The end of the regular operation.                                       *)
RegOpEnds ==
  /\ Runs("RXDEMO", "loop") /\ g_dt.EventUserAbort /\ Pops /\ pipe' = Stopped
  /\ g_dt' = [g_dt EXCEPT !.EventUserAbort = FALSE, !.UsbIo = "closed",
                          !.EnableTabPageChanging = TRUE]
  /\ btn' = [btn EXCEPT !["RXDEMO"] = [start |-> TRUE, stop |-> FALSE]]
  /\ UNCHANGED <<dev, msgs>>

-----------------------------------------------------------------------------
(* The reader thread: it submits its buffers, gives up after some errors,  *)
(* and hands each packet to CRxPipe::ProcessData.                          *)
Submits ==
  /\ Pumps /\ pipe.thread /\ pipe.bound /\ ~pipe.pending /\ pipe' = [pipe EXCEPT !.pending = TRUE]
  /\ UNCHANGED <<frames, btn, g_dt, dev, msgs>>
ReaderGivesUp ==
  /\ Pumps /\ pipe.thread /\ ~pipe.bound
  /\ pipe' = [pipe EXCEPT !.thread = FALSE, !.pending = FALSE]
  /\ UNCHANGED <<frames, btn, g_dt, dev, msgs>>
ProcessData ==
  /\ Pumps /\ pipe.thread /\ pipe.pending
  /\ \/ g_dt.OpMode = "PUT_FW" /\ g_dt' = [g_dt EXCEPT !.EventRxData = TRUE]
     \/ /\ g_dt.OpMode = "GET_FW" /\ g_dt.IsValid
        /\ g_dt' = [g_dt EXCEPT !.IsValid = FALSE, !.EventRxData = TRUE]
  /\ UNCHANGED <<frames, btn, pipe, dev, msgs>>

(* The device and the system.                                              *)
Leaves ==
  /\ Pumps /\ dev.present /\ dev' = [dev EXCEPT !.present = FALSE]
  /\ msgs' = [msgs EXCEPT !.change = Append(@, "removed")]
  /\ pipe' = [pipe EXCEPT !.bound = FALSE, !.dangling = FALSE]
  /\ g_dt' = [g_dt EXCEPT !.UsbIo = IF @ = "open" THEN "stale" ELSE @]
  /\ UNCHANGED <<frames, btn>>
Comes ==
  /\ Pumps /\ ~dev.present /\ dev.plugs < MaxPlugs
  /\ \E p \in {"fwu", "app"} : dev' = [present |-> TRUE, program |-> p,
                                       plugs |-> dev.plugs + 1]
  /\ msgs' = [msgs EXCEPT !.change = Append(@, "arrived")]
  /\ UNCHANGED <<frames, btn, g_dt, pipe>>

-----------------------------------------------------------------------------
WindowStep ==
  \/ DeviceRemoved \/ DeviceArrived \/ TimerEnds \/ BoxIsClosed
  \/ OnRdFwEnd \/ OnWrFwEnd
  \/ \E d \in Loaders : Switched(d) \/ SwitchFails(d) \/ Final(d)
  \/ \E d \in Loaders, pc \in {"wait", "written"} : Response(d, pc)
  \/ \E t \in uses : TabChanged(t)
  \/ \E d \in Dialogs : \/ Stop(d) \/ Start(d) \/ NoFile(d) \/ Opens(d) \/ IsFWU(d)
                     \/ BindPipe(d) \/ StartPipe(d) \/ Command(d)
  \/ NotNow \/ RegOpEnds
  \/ Submits \/ ReaderGivesUp \/ ProcessData
  \/ Leaves \/ Comes
WindowNext == WindowStep /\ UNCHANGED uses
WindowSpec == WindowInit /\ [][WindowNext]_wvars

(* Whatever handlers ran nested in one another while the device came and   *)
(* went: when the last has returned, the device is closed, and the reader  *)
(* thread and its reads are gone.                                          *)
SessionCleansUp ==
  frames = <<>> => g_dt.UsbIo = "closed" /\ ~pipe.thread /\ ~pipe.pending

(* UsbIoThread.cpp:43, before FreeBuffers: "thread must have been          *)
(* terminated at this point": no buffer is freed that a read is pending in.*)
FreedIsIdle == ~pipe.dangling
=============================================================================
