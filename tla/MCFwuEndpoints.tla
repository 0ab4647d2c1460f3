--------------------------- MODULE MCFwuEndpoints ---------------------------
(* The endpoints of the upgrader and of the example application on small   *)
(* instances, one at a time: they share the interrupt (tn_usb_int_func     *)
(* calls their handlers one after another) and no state.  Endpoint 2 of    *)
(* the upgrader, OUT or IN, gets a stream long enough to wrap its ring     *)
(* twice; endpoint 0 the requests below; endpoint 2 of the application     *)
(* runs for ever.                                                          *)
EXTENDS FwuQueue, FwuControl, UsbApp

VARIABLE dir   \* "rx" is endpoint 2 OUT, "tx" endpoint 2 IN, "ep0" endpoint 0,
               \* "app" endpoint 2 of the application

mvars == <<vars, cvars, avars, dir>>
In(d, A) == dir = d /\ A /\ UNCHANGED <<dir, cvars, avars>>
App(A) == dir = "app" /\ A /\ UNCHANGED <<dir, vars, cvars>>

(* A SETUP packet and the answer it must get.                              *)
Request(type, in, bRequest, recip, wValue, wLength, data, want) ==
  [type |-> type, in |-> in, bRequest |-> bRequest, recip |-> recip,
   wValue |-> wValue, wLength |-> wLength, data |-> data, want |-> want]
Query(type, bRequest, recip, wValue, wLength, want) ==
  Request(type, TRUE, bRequest, recip, wValue, wLength, None, want)
Set(type, bRequest, recip, value) ==
  Request(type, FALSE, bRequest, recip, <<0, value>>, 0, None, None)
Descriptor(type, index, wLength, want) ==
  Query("STD", "GET_DESCRIPTOR", "DEVICE", <<type, index>>, wLength, want)
PutFwInfo(data) ==
  Request("VENDOR", FALSE, "PUT_FW_INFO", "DEVICE", <<0, 0>>, 64, data, None)

(* What Windows asks while it enumerates a device, and the host program's  *)
(* own requests; some of them must be refused.                             *)
MCRequests ==
  {Descriptor(TYPE_DEVICE, 0, 64, <<<<"descriptor", 1>>, 18>>),
   Descriptor(TYPE_CONFIGURATION, 0, 9, <<<<"descriptor", 2>>, 9>>),
   Descriptor(TYPE_CONFIGURATION, 0, 255, <<<<"descriptor", 2>>, 32>>),
   Descriptor(TYPE_STRING, 2, 255, <<<<"descriptor", 8>>, 44>>),
   Descriptor(6, 0, 10, None),
   Query("STD", "GET_STATUS", "DEVICE", <<0, 0>>, 2, <<<<"status", 0>>, 2>>),
   Query("STD", "GET_INTERFACE", "INTERFACE", <<0, 0>>, 1, None),
   Query("CLASS", "GET_MAX_LUN", "INTERFACE", <<0, 0>>, 1, <<<<"luns", 0>>, 1>>),
   Query("VENDOR", "GET_FW_INFO", "DEVICE", <<0, 0>>, 64, <<<<"info", 0>>, 64>>),
   Query("VENDOR", "GET_ISFWU", "DEVICE", <<0, 0>>, 8, <<<<"isfwu", 0>>, 8>>),
   Set("STD", "SET_CONFIGURATION", "DEVICE", 0),
   Set("STD", "SET_CONFIGURATION", "DEVICE", 1),
   Set("STD", "SET_CONFIGURATION", "DEVICE", 2),
   Set("STD", "SET_ADDRESS", "DEVICE", 5),
   Set("STD", "CLEAR_FEATURE", "ENDPOINT", 0),
   Set("STD", "SET_FEATURE", "DEVICE", 1),
   Set("VENDOR", "GET_FW", "DEVICE", 0),
   PutFwInfo(Good), PutFwInfo(<<"bad", 0>>)}

MCInit == Init /\ ControlInit /\ AppInit /\ dir \in {"rx", "tx", "ep0", "app"}
MCNext == \/ In("rx", RxNext) \/ In("tx", TxNext) \/ App(AppNext)
          \/ dir = "ep0" /\ ControlNext /\ UNCHANGED <<vars, avars, dir>>

(* The interrupt is level-triggered (the endpoint keeps NAKing), and the   *)
(* main loop, or the tasks, run whenever the interrupt does not; nothing   *)
(* obliges anyone to send.  The host keeps reading from the application.   *)
MCSpec ==
  /\ MCInit /\ [][MCNext]_mvars
  /\ WF_mvars(In("rx", EpRxInt)) /\ WF_mvars(In("rx", Get \/ CopyOut \/ CopiedOut))
  /\ WF_mvars(In("tx", EpTxInt)) /\ WF_mvars(In("tx", CopyIn \/ Put))
  /\ WF_mvars(App(TxTask)) /\ WF_mvars(App(RxTask))
  /\ WF_mvars(App(AppTxInt)) /\ WF_mvars(App(AppHostIn))

(* Every packet the controller has acknowledged is handed to the main      *)
(* loop, and every packet main has begun to fill is sent.                  *)
Delivered == \A i \in 1 .. MaxPackets :
  (sent >= i \/ (dir = "tx" /\ ptr # NULL /\ sent + 1 >= i)) ~> Len(out) >= i

Channel == INSTANCE FwuChannel WITH
             Capacity <- NumEntries - 1 + HwBuffers,
             q <- InRing \o InController,
             held <- IF dir = "rx" /\ ptr # NULL THEN <<data_fifo[ptr]>> ELSE <<>>

(* The ring, with the controller's buffers on endpoint 2 OUT, is a FIFO    *)
(* channel that loses, repeats and tears no packet, whatever the interrupt *)
(* interrupts.                                                             *)
IsAChannel == Channel!Spec
=============================================================================
