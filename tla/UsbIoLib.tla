------------------------------ MODULE UsbIoLib ------------------------------
(***************************************************************************)
(* A pipe of USBIOLIB that is read by a thread of its own: CUsbIoReader    *)
(* with the classes it is made of (CUsbIo, CUsbIoPipe, CUsbIoThread,       *)
(* CUsbIoBufPool), its user, and the driver behind its handle.             *)
(*                                                                         *)
(* The user is one thread.  It frees the buffers and closes the handle     *)
(* only when it has not started the thread, or has shut it down, as the    *)
(* Read dialog does when nothing interrupts it (UsbWindow shows what does).*)
(* The device comes and goes, and a read may take any time.                *)
(***************************************************************************)
EXTENDS Naturals, SequencesExt

CONSTANTS Buffers,        \* the buffers AllocateBuffers creates
          Stack,          \* the buffer ReadSync has on its stack
          MaxErrorCount   \* errors in a row a thread endures

ASSUME LibAssumption ==
  IsFiniteSet(Buffers) /\ Stack \notin Buffers /\ MaxErrorCount \in Nat

VARIABLES
  drv,            \* the driver: device present, configured, handle bound, and
                  \* the Status of every buffer
  io,             \* CUsbIo: FileHandle ("stale": its device has gone), mDevDetail
                  \* (the path is known), and the user's device list
  BufPool,        \* whether there is a BufArray, and the chain of free ones
  Pending,        \* FirstPending .. LastPending
  thread, Buf,    \* where the thread is, and the buffer it holds ({}: none)
  ErrorCounter,
  ThreadHandle,   \* "NULL" or "handle"
  TerminateFlag,
  user, started   \* what the user's thread is in; it has to shut the thread down

routine == <<thread, Buf, ErrorCounter>>
control == <<ThreadHandle, TerminateFlag, started>>
uvars   == <<drv, io, BufPool, Pending, routine, control, user>>

NoBuffers == [BufArray |-> FALSE, chain |-> <<>>]

LibInit ==
  /\ drv = [present |-> FALSE, configured |-> FALSE, bound |-> FALSE,
            Status |-> [b \in Buffers \cup {Stack} |-> "idle"]]
  /\ io = [FileHandle |-> "NULL", mDevDetail |-> FALSE, list |-> "NULL"]
  /\ BufPool = NoBuffers /\ Pending = <<>>
  /\ thread = "none" /\ Buf = {} /\ ErrorCounter = 0
  /\ ThreadHandle = "NULL" /\ TerminateFlag = FALSE
  /\ user = "idle" /\ started = FALSE

-----------------------------------------------------------------------------
(* The driver.  The reads complete in the order they were submitted in.    *)

Fails(d) == [d EXCEPT !.Status = [b \in DOMAIN @ |-> IF @[b] = "pending" THEN "error" ELSE @[b]]]

Plugged == /\ ~drv.present /\ drv' = [drv EXCEPT !.present = TRUE]
          /\ UNCHANGED <<io, BufPool, Pending, routine, control, user>>
Unplugged ==
  /\ drv.present
  /\ drv' = [Fails(drv) EXCEPT !.present = FALSE, !.configured = FALSE, !.bound = FALSE]
  /\ io' = IF io.FileHandle = "open" THEN [io EXCEPT !.FileHandle = "stale"] ELSE io
  /\ UNCHANGED <<BufPool, Pending, routine, control, user>>
Complete == \E s \in {"ok", "error", "down"} :
  LET queue == SelectSeq(Append(Pending, Stack), LAMBDA b : drv.Status[b] = "pending")
  IN  /\ queue # <<>> /\ drv' = [drv EXCEPT !.Status[Head(queue)] = s]
      /\ UNCHANGED <<io, BufPool, Pending, routine, control, user>>

(* What a request that the driver executes changes in it.                  *)
Executed(code, d) ==
  CASE code = "BIND_PIPE" -> [d EXCEPT !.bound = d.configured]
    [] code = "UNBIND_PIPE" -> [Fails(d) EXCEPT !.bound = FALSE]
    [] code = "ABORT_PIPE" -> Fails(d)
    [] code = "SET_CONFIGURATION" -> [d EXCEPT !.configured = TRUE]
    [] code = "UNCONFIGURE_DEVICE" -> [Fails(d) EXCEPT !.configured = FALSE, !.bound = FALSE]
    [] OTHER -> d

-----------------------------------------------------------------------------
(* CUsbIo and CUsbIoPipe.                                                  *)

(* Without a handle a request fails at once; else it waits for the driver, *)
(* which may refuse it.                                                    *)
IoctlSync(i, code) == IF i.FileHandle # "open" THEN {drv} ELSE {drv, Executed(code, drv)}

Closed(i) == [i EXCEPT !.FileHandle = "NULL", !.mDevDetail = FALSE]

(* The path of the device, from the list: the one found drops the old.     *)
GetDeviceInstanceDetails(i) ==
  IF i.list = "found" THEN {[i EXCEPT !.mDevDetail = TRUE], [i EXCEPT !.mDevDetail = FALSE]}
  ELSE {[i EXCEPT !.mDevDetail = FALSE]}

(* Open, by the list or, without one, by a well-known name.  What fails    *)
(* after the file is open closes it again; what fails before does not.     *)
Opened(i) ==
  IF i.FileHandle # "NULL" THEN {i}
  ELSE UNION {
    {n} \cup (IF ~drv.present \/ (i.list # "NULL" /\ ~n.mDevDetail) THEN {}
              ELSE {[n EXCEPT !.FileHandle = "open"], Closed(n)})
    : n \in IF i.list = "NULL" THEN {i} ELSE GetDeviceInstanceDetails(i)}

UserDoes == user = "idle" /\ UNCHANGED <<routine, Pending, user>>

CreateDeviceList ==
  /\ UserDoes
  /\ \E l \in {"NULL", IF drv.present THEN "found" ELSE "empty"} : io' = [io EXCEPT !.list = l]
  /\ UNCHANGED <<drv, BufPool, control>>
Open == /\ UserDoes /\ io' \in Opened(io) /\ UNCHANGED <<drv, BufPool, control>>
Close ==
  /\ UserDoes /\ ~started /\ io' = Closed(io)
  /\ drv' = IF io.FileHandle = "NULL" THEN drv ELSE [drv EXCEPT !.bound = FALSE]
  /\ UNCHANGED <<BufPool, control>>
Bind ==
  /\ UserDoes /\ \E i \in Opened(io) : io' = i /\ drv' \in IoctlSync(i, "BIND_PIPE")
  /\ UNCHANGED <<BufPool, control>>

(* One method fills in and sends each of these.                            *)
DriverRequests == {"GET_DRIVER_INFO", "ACQUIRE_DEVICE", "RELEASE_DEVICE",
                   "GET_DEVICE_INFO", "GET_BANDWIDTH_INFO"}
DescriptorRequests == {"GET_DESCRIPTOR", "SET_DESCRIPTOR"}
FeatureRequests == {"SET_FEATURE", "CLEAR_FEATURE", "GET_STATUS"}
VendorRequests == {"CLASS_OR_VENDOR_IN_REQUEST", "CLASS_OR_VENDOR_OUT_REQUEST"}
ConfigurationRequests ==
  {"SET_CONFIGURATION", "UNCONFIGURE_DEVICE", "GET_CONFIGURATION", "GET_CONFIGURATION_INFO",
   "SET_INTERFACE", "GET_INTERFACE", "STORE_CONFIG_DESCRIPTOR"}
DeviceRequests ==
  {"GET_DEVICE_PARAMETERS", "SET_DEVICE_PARAMETERS", "RESET_DEVICE", "CYCLE_PORT",
   "GET_CURRENT_FRAME_NUMBER", "GET_DEVICE_POWER_STATE", "SET_DEVICE_POWER_STATE"}
PipeRequests ==
  {"UNBIND_PIPE", "RESET_PIPE", "ABORT_PIPE", "GET_PIPE_PARAMETERS", "SET_PIPE_PARAMETERS",
   "PIPE_CONTROL_TRANSFER_IN", "PIPE_CONTROL_TRANSFER_OUT"}
StatisticsRequests == {"SETUP_PIPE_STATISTICS", "QUERY_PIPE_STATISTICS"}
Request ==
  /\ UserDoes
  /\ \E code \in DriverRequests \cup DescriptorRequests \cup FeatureRequests
                 \cup VendorRequests \cup ConfigurationRequests \cup DeviceRequests
                 \cup PipeRequests \cup StatisticsRequests : drv' \in IoctlSync(io, code)
  /\ UNCHANGED <<io, BufPool, control>>

(* Read: the driver takes the buffer, or the request fails at once.        *)
Submitted(b) == [drv EXCEPT !.Status[b] =
                   IF io.FileHandle = "open" /\ drv.bound THEN "pending" ELSE "error"]
WaitForCompletion(b) == drv.Status[b] # "pending"
Forgotten(b) == [drv EXCEPT !.Status[b] = "idle"]

(* ReadSync and WriteSync: after a timeout the request is cancelled, and   *)
(* waited for: it is done with the buffer on the stack.                    *)
Sync == /\ user = "idle" /\ ~started /\ user' = "sync" /\ drv' = Submitted(Stack)
        /\ UNCHANGED <<io, BufPool, Pending, routine, control>>
SyncTimeout == /\ user = "sync" /\ user' = "cancel" /\ ~WaitForCompletion(Stack)
               /\ UNCHANGED <<drv, io, BufPool, Pending, routine, control>>
SyncReturns == /\ user \in {"sync", "cancel"} /\ WaitForCompletion(Stack)
               /\ user' = "idle" /\ drv' = Forgotten(Stack)
               /\ UNCHANGED <<io, BufPool, Pending, routine, control>>

-----------------------------------------------------------------------------
(* CUsbIoBufPool and CUsbIoThread, on the user's side.                     *)

AllocateBuffers ==
  /\ UserDoes /\ ~BufPool.BufArray
  /\ BufPool' = [BufArray |-> TRUE, chain |-> SetToSeq(Buffers)]
  /\ UNCHANGED <<drv, io, control>>
FreeBuffers == UserDoes /\ ~started /\ BufPool' = NoBuffers /\ UNCHANGED <<drv, io, control>>

(* StartThread, unless a thread has been started: the thread runs before   *)
(* ThreadHandle has its value.                                             *)
StartThread ==
  /\ user = "idle" /\ ThreadHandle = "NULL"
  /\ TerminateFlag' = FALSE /\ thread' = "start" /\ user' = "starts" /\ started' = TRUE
  /\ UNCHANGED <<drv, io, BufPool, Pending, Buf, ErrorCounter, ThreadHandle>>
StartReturns ==
  /\ user = "starts" /\ user' = "idle" /\ ThreadHandle' = "handle"
  /\ UNCHANGED <<drv, io, BufPool, Pending, routine, TerminateFlag, started>>

(* ShutdownThread: whoever has the handle closes it, the user or the       *)
(* thread itself.                                                          *)
Shutdown ==
  /\ user = "idle"
  /\ ThreadHandle' = "NULL"
  /\ \/ /\ ThreadHandle = "NULL" /\ started' = FALSE /\ UNCHANGED <<TerminateFlag, user>>
     \/ /\ ThreadHandle # "NULL" /\ TerminateFlag' = TRUE /\ user' = "abort"
        /\ UNCHANGED started
  /\ UNCHANGED <<drv, io, BufPool, Pending, routine>>
TerminateThread ==
  /\ user = "abort" /\ user' = "join" /\ drv' \in IoctlSync(io, "ABORT_PIPE")
  /\ UNCHANGED <<io, BufPool, Pending, routine, control>>
Joined ==
  /\ user = "join" /\ thread = "none" /\ user' = "idle" /\ started' = FALSE
  /\ UNCHANGED <<drv, io, BufPool, Pending, routine, ThreadHandle, TerminateFlag>>

-----------------------------------------------------------------------------
(* CUsbIoReader's thread.                                                  *)

ThreadDoes(from, to) ==
  /\ thread = from /\ thread' = to /\ UNCHANGED <<io, control, user>>
Get == /\ BufPool.chain # <<>> /\ Buf' = {Head(BufPool.chain)}
       /\ BufPool' = [BufPool EXCEPT !.chain = Tail(@)]
Put(b) == BufPool' = [BufPool EXCEPT !.chain = <<b>> \o @]

Begins ==
  \/ /\ ThreadDoes("start", "exit") /\ BufPool.chain = <<>>
     /\ UNCHANGED <<drv, BufPool, Pending, Buf, ErrorCounter>>
  \/ /\ ThreadDoes("start", "loop") /\ BufPool.chain # <<>>
     /\ Pending' = <<>> /\ ErrorCounter' = 0 /\ UNCHANGED <<drv, BufPool, Buf>>

GivesUp == TerminateFlag \/ ErrorCounter > MaxErrorCount
LoopTest ==
  /\ \/ ThreadDoes("loop", "drain") /\ GivesUp
     \/ ThreadDoes("loop", "fill") /\ ~GivesUp
  /\ UNCHANGED <<drv, BufPool, Pending, Buf, ErrorCounter>>

(* Every buffer of the pool is submitted, until a derived class has no use *)
(* for one.                                                                *)
Takes == /\ ThreadDoes("fill", "read") /\ Get /\ UNCHANGED <<drv, Pending, ErrorCounter>>
Reads == \E b \in Buf :
  /\ ThreadDoes("read", "fill") /\ drv' = Submitted(b) /\ Pending' = Append(Pending, b)
  /\ Buf' = {} /\ UNCHANGED <<BufPool, ErrorCounter>>
PutsBack == \E b \in Buf :
  /\ ThreadDoes("read", IF Pending = <<>> THEN "drain" ELSE "wait")
  /\ Put(b) /\ Buf' = {} /\ UNCHANGED <<drv, Pending, ErrorCounter>>
PoolIsEmpty ==
  /\ ThreadDoes("fill", IF Pending = <<>> THEN "drain" ELSE "wait")
  /\ BufPool.chain = <<>> /\ UNCHANGED <<drv, BufPool, Pending, Buf, ErrorCounter>>

(* The first one is waited for; a device that sleeps is no error.          *)
Waits ==
  /\ ThreadDoes("wait", "data") /\ WaitForCompletion(Head(Pending))
  /\ ErrorCounter' = CASE drv.Status[Head(Pending)] = "ok" -> 0
                       [] drv.Status[Head(Pending)] = "down" -> ErrorCounter
                       [] OTHER -> ErrorCounter + 1
  /\ Buf' = {Head(Pending)} /\ Pending' = Tail(Pending)
  /\ UNCHANGED <<drv, BufPool>>
ProcessesData == \E b \in Buf :
  /\ ThreadDoes("data", "loop") /\ Put(b) /\ drv' = Forgotten(b) /\ Buf' = {}
  /\ UNCHANGED <<Pending, ErrorCounter>>

DrainsNone ==      \* mutant: leaves with reads pending
  /\ ThreadDoes("drain", "exit") /\ UNCHANGED <<drv, BufPool, Pending, Buf, ErrorCounter>>
Drains ==
  \/ /\ Pending # <<>> /\ ThreadDoes("drain", "drain") /\ WaitForCompletion(Head(Pending))
     /\ Put(Head(Pending)) /\ drv' = Forgotten(Head(Pending)) /\ Pending' = Tail(Pending)
     /\ UNCHANGED <<Buf, ErrorCounter>>
  \/ /\ Pending = <<>> /\ ThreadDoes("drain", "exit")
     /\ UNCHANGED <<drv, BufPool, Pending, Buf, ErrorCounter>>

Exits ==
  /\ thread = "exit" /\ thread' = "none" /\ ThreadHandle' = "NULL"
  /\ UNCHANGED <<drv, io, BufPool, Pending, Buf, ErrorCounter, TerminateFlag, user, started>>

-----------------------------------------------------------------------------
Driver == Plugged \/ Unplugged \/ Complete
User == \/ CreateDeviceList \/ Open \/ Close \/ Bind \/ Request
        \/ Sync \/ SyncTimeout \/ SyncReturns \/ AllocateBuffers \/ FreeBuffers
        \/ StartThread \/ StartReturns \/ Shutdown \/ TerminateThread \/ Joined
Reader == \/ Begins \/ LoopTest \/ Takes \/ Reads \/ PutsBack \/ PoolIsEmpty \/ Waits
          \/ ProcessesData \/ Drains \/ Exits
LibNext == Driver \/ User \/ Reader
LibSpec == LibInit /\ [][LibNext]_uvars

-----------------------------------------------------------------------------
(* Whenever the user may free the buffers, no read is pending in one, the  *)
(* thread holds none and the pool has each once: whether the thread was    *)
(* shut down, gave up by itself, or did so while it was being shut down or *)
(* started, and whatever became of the device; and ReadSync never returns  *)
(* while the driver has its buffer.                                        *)
IdleWhenStopped ==
  /\ ~started =>
       /\ \A b \in Buffers : drv.Status[b] # "pending"
       /\ Buf = {} /\ thread \in {"none", "exit"}
       /\ BufPool.BufArray => /\ ToSet(BufPool.chain) = Buffers
                              /\ Len(BufPool.chain) = Cardinality(Buffers)
  /\ user = "idle" => drv.Status[Stack] # "pending"
=============================================================================
