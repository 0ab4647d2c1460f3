----------------------------- MODULE FwuControl -----------------------------
(***************************************************************************)
(* The control endpoint of the Firmware Upgrader: the interrupt handlers   *)
(* of endpoint 0 (fwu_usb_ep.c), the requests they carry out               *)
(* (fwu_usb_req.c, fwu_usb_thumb.c) and a host that may give a request up  *)
(* at any stage and begin another, or reset the bus.                       *)
(*                                                                         *)
(* The controller is external: it has one OUT and one IN buffer for the    *)
(* endpoint, accepts a SETUP packet whatever the OUT buffer holds, and     *)
(* with it drops what the IN buffer holds and ends a stall.  An interrupt  *)
(* may come late (the flash routines keep interrupts off), but a handler   *)
(* that has started is done before the next packet is over.                *)
(*                                                                         *)
(* Contents are named: <<"descriptor", k>> is the k-th of abDescriptors,   *)
(* anything else what was last put into gEP0Buf.  wValue is its two bytes. *)
(***************************************************************************)
EXTENDS Integers, Sequences, FiniteSets

CONSTANTS Requests,     \* SETUP packets, with the data of an OUT request
          MaxPacket0,   \* USB_MAX_PACKET0
          None

VARIABLES usp, pdata, nbytes, pbuf,      \* gUSBInfo: SETUP packet, EP0Status
          Configuration,
          rxb, txb, stalled,             \* the endpoint's buffers and stall
          EpIntSt, DevStat,              \* interrupts pending
          req, stage, got, hostConf,     \* the host's side of a request
          executed, late                 \* history of the request

udi        == <<usp, pdata, nbytes, pbuf, Configuration>>
controller == <<rxb, txb, stalled, EpIntSt, DevStat>>
host       == <<req, stage, got, hostConf>>
cvars      == <<udi, controller, host, executed, late>>

TYPE_DEVICE == 1
TYPE_CONFIGURATION == 2
TYPE_STRING == 3
TYPE_INTERFACE == 4
TYPE_ENDPOINT == 5

\* abDescriptors.
Descriptors ==
  << [type |-> TYPE_DEVICE, bLength |-> 18],
     [type |-> TYPE_CONFIGURATION, bLength |-> 9, wTotalLength |-> 32,
      bConfigurationValue |-> 1],
     [type |-> TYPE_INTERFACE, bLength |-> 9], [type |-> TYPE_ENDPOINT, bLength |-> 7],
     [type |-> TYPE_ENDPOINT, bLength |-> 7],
     [type |-> TYPE_STRING, bLength |-> 4], [type |-> TYPE_STRING, bLength |-> 16],
     [type |-> TYPE_STRING, bLength |-> 44], [type |-> TYPE_STRING, bLength |-> 14] >>

\* The descriptors of the type asked for; the index counts among them.
Found(r) ==
  LET Rank(k) == Cardinality({j \in 1 .. k - 1 : Descriptors[j].type = r.wValue[1]})
  IN {k \in DOMAIN Descriptors : /\ Descriptors[k].type = r.wValue[1]
                                 /\ Rank(k) = r.wValue[2]}
Size(k) == IF Descriptors[k].type = TYPE_CONFIGURATION THEN Descriptors[k].wTotalLength
                                                       ELSE Descriptors[k].bLength

\* pdata points into gEP0Buf (0) or to a descriptor; off is in bytes.
At(place) == [place |-> place, off |-> 0]
Buf == 0

ControlInit ==
  /\ usp = None /\ pdata = At(Buf) /\ nbytes = 0 /\ pbuf = None
  /\ Configuration = 0
  /\ rxb = None /\ txb = None /\ stalled = FALSE
  /\ EpIntSt = {} /\ DevStat = FALSE
  /\ req = None /\ stage = "idle" /\ got = <<>> /\ hostConf = 0
  /\ executed = 0 /\ late = FALSE
-----------------------------------------------------------------------------
(* The requests.  want names the answer a request must get: the descriptor *)
(* or buffer contents and their length, or None when it must be refused.   *)

AtMost(n, m) == IF n > m THEN m ELSE n
Good == <<"good", 0>>

Gets(r, what, n) == r.want = <<what, AtMost(n, r.wLength)>> /\ r.want # None

\* What a request for data must get, in one packet.  GET_CONFIGURATION is not
\* among them: what it must get depends on the requests before it.
WantOK(r) ==
  /\ CASE r.type = "STD" /\ r.bRequest = "GET_DESCRIPTOR" /\ r.recip = "DEVICE"
            /\ Found(r) # {} -> \A k \in Found(r) : Gets(r, <<"descriptor", k>>, Size(k))
       [] r.type = "STD" /\ r.bRequest = "GET_STATUS" -> Gets(r, <<"status", 0>>, 2)
       [] r.type = "CLASS" /\ r.bRequest = "GET_MAX_LUN" -> Gets(r, <<"luns", 0>>, 1)
       [] r.type = "VENDOR" /\ r.bRequest = "GET_ISFWU" -> Gets(r, <<"isfwu", 0>>, 8)
       [] r.type = "VENDOR" /\ r.bRequest = "GET_FW_INFO" -> Gets(r, <<"info", 0>>, r.wLength)
       [] OTHER -> r.want = None
  /\ r.bRequest # "GET_CONFIGURATION"
  /\ r.want # None => r.want[2] <= MaxPacket0 /\ (r.want[2] = MaxPacket0 => r.wLength = MaxPacket0)

\* A request in the direction it is for; the ones with data for the device.
RequestOK(r) ==
  /\ r.type \in {"STD", "CLASS", "VENDOR"} /\ r.in \in BOOLEAN /\ r.wLength \in Nat
  /\ r.in => r.wLength > 0 /\ r.bRequest # "RESET" /\ WantOK(r)
  /\ ~r.in => IF r.wLength = 0 THEN r.data = None
              ELSE \/ r.type = "VENDOR" /\ r.bRequest = "PUT_FW_INFO"
                   \/ r.type = "STD" /\ r.bRequest = "SET_DESCRIPTOR"
  /\ None \notin {[setup |-> TRUE, req |-> r], [setup |-> FALSE, data |-> r.data],
                  [setup |-> FALSE, data |-> None]}

ASSUME ControlAssumption == MaxPacket0 \in Nat \ {0} /\ \A r \in Requests : RequestOK(r)
-----------------------------------------------------------------------------
(* What tn_usb_EP0_SETUP makes of request r when gEP0Buf holds buf and     *)
(* nbytes is n: rc, where the answer is (pdata), how long it is (nbytes)   *)
(* and what gEP0Buf holds then.                                            *)

Refuses == [rc |-> FALSE]
\* Mutant of Done: pdata stays where the last answer left it.
DoneKeepsPdata(buf, n) == [rc |-> TRUE, pdata |-> pdata, nbytes |-> n, pbuf |-> buf]

Done(buf, n) == [rc |-> TRUE, pdata |-> At(Buf), nbytes |-> n, pbuf |-> buf]

GET_DESCRIPTOR(r, buf) ==
  IF r.recip # "DEVICE" \/ Found(r) = {} THEN Refuses
  ELSE LET k == CHOOSE k \in Found(r) : TRUE
       IN [Done(buf, Size(k)) EXCEPT !.pdata = At(k)]

STD_DEV_IN(r, buf) ==
  CASE r.bRequest = "GET_STATUS" -> Done(<<"status", 0>>, 2)
    [] r.bRequest = "GET_DESCRIPTOR" -> GET_DESCRIPTOR(r, buf)
    [] r.bRequest = "GET_CONFIGURATION" /\ r.recip = "DEVICE" ->
         Done(<<"configuration", Configuration>>, 1)
    [] OTHER -> Refuses

\* The scan of SET_CONFIGURATION; 0 is the address state.
HasConfiguration(v) == \E k \in DOMAIN Descriptors :
  Descriptors[k].type = TYPE_CONFIGURATION /\ Descriptors[k].bConfigurationValue = v

ConfigurationAfter(r) ==
  IF r.bRequest = "SET_CONFIGURATION" /\ (r.wValue[2] = 0 \/ HasConfiguration(r.wValue[2]))
    THEN r.wValue[2] ELSE Configuration

STD_DEV_OUT(r, buf, n) ==
  IF \/ r.bRequest = "SET_ADDRESS" /\ r.recip = "DEVICE"
     \/ r.bRequest = "CLEAR_FEATURE" /\ r.recip = "ENDPOINT" /\ r.wValue[2] = 0
     \/ r.bRequest = "SET_CONFIGURATION" /\ ConfigurationAfter(r) = r.wValue[2]
    THEN Done(buf, n) ELSE Refuses

class_request(r, buf, n) ==
  CASE r.bRequest = "GET_MAX_LUN" -> Done(<<"luns", 0>>, 1)
    [] r.bRequest = "RESET" -> Done(buf, n)
    [] OTHER -> Refuses

\* The block of PUT_FW_INFO carries its own CRC: Good, or not.
vendor_request_out(r, buf, n) ==
  IF \/ r.bRequest = "PUT_FW_INFO" /\ buf = Good
     \/ r.bRequest \in {"GET_FW", "USER_ABORT"}
    THEN Done(buf, n) ELSE Refuses

\* GET_FW_INFO leaves nbytes as it is; GET_ISFWU writes four bytes of eight.
vendor_request_in(r, n) ==
  CASE r.bRequest = "GET_FW_INFO" -> Done(<<"info", 0>>, n)
    [] r.bRequest = "GET_ISFWU" -> Done(<<"isfwu", 0>>, 8)
    [] OTHER -> Refuses

EP0_SETUP(r, buf, n) ==
  CASE r.type = "STD" /\ r.in -> STD_DEV_IN(r, buf)
    [] r.type = "STD" /\ ~r.in -> STD_DEV_OUT(r, buf, n)
    [] r.type = "CLASS" -> class_request(r, buf, n)
    [] r.type = "VENDOR" /\ r.in -> vendor_request_in(r, n)
    [] r.type = "VENDOR" /\ ~r.in -> vendor_request_out(r, buf, n)
-----------------------------------------------------------------------------
(* The interrupt.                                                          *)

\* A packet with n bytes from p; the one without any is a status stage.
PacketFrom(p, content, n) ==
  IF n = 0 THEN [what |-> None, off |-> 0, len |-> 0]
  ELSE [what |-> IF p.place = Buf THEN content ELSE <<"descriptor", p.place>>, off |-> p.off, len |-> n]

\* tn_usb_st_DATAIN: pdata points to ints, so it advances by four bytes for
\* each byte sent.  An IN buffer cannot be validated while a SETUP waits.
ST_DATAIN(p, content, n) ==
  LET bytes == AtMost(n, MaxPacket0)
  IN /\ txb' = IF rxb' # None /\ rxb'.setup THEN None ELSE PacketFrom(p, content, bytes)
     /\ nbytes' = n - bytes
     /\ pdata' = [p EXCEPT !.off = @ + 4 * bytes]

\* Carries r out and answers, or stalls endpoint 0.
Serves(r, buf, n) ==
  LET o == EP0_SETUP(r, buf, n)
  IN \/ /\ o.rc
        /\ pbuf' = o.pbuf
        /\ ST_DATAIN(o.pdata, o.pbuf, AtMost(o.nbytes, r.wLength))
        /\ Configuration' = ConfigurationAfter(r)
        /\ executed' = executed + 1
        /\ UNCHANGED stalled
     \/ /\ ~o.rc
        /\ stalled' = TRUE
        /\ nbytes' = IF r.bRequest = "SET_DESCRIPTOR" THEN 0 ELSE n
        /\ pdata' = At(Buf) /\ pbuf' = buf
        /\ UNCHANGED <<txb, Configuration, executed>>

\* A request without data, or for data, is served at once; an OUT request
\* with data when they are there.
ReadsSetup(r) ==
  \/ (r.wLength = 0 \/ r.in) /\ Serves(r, pbuf, r.wLength)
  \/ /\ r.wLength > 0 /\ ~r.in
     /\ nbytes' = r.wLength /\ pdata' = At(Buf)
     /\ UNCHANGED <<pbuf, txb, Configuration, stalled, executed>>

\* tn_usb_EP0_rx_int_func, a SETUP packet.
EP0_rx_int_setup ==
  /\ ~DevStat /\ 0 \in EpIntSt /\ rxb # None /\ rxb.setup
  /\ rxb' = None /\ EpIntSt' = EpIntSt \ {0}
  /\ usp' = rxb.req
  /\ ReadsSetup(rxb.req)
  /\ late' = (1 \in EpIntSt)
  /\ UNCHANGED <<DevStat, host>>

\* Mutant of EP0_rx_int_data: no test whether data are expected.
EP0_rx_int_dataAnytime ==
  /\ ~DevStat /\ 0 \in EpIntSt /\ rxb # None /\ ~rxb.setup
  /\ EpIntSt' = EpIntSt \ {0}
  /\ rxb' = None /\ Serves(usp, rxb.data, 0)
  /\ UNCHANGED <<usp, DevStat, host, late>>

\* Any other packet: the data of an OUT request (of at most one packet, so
\* there is no dummy read), or the empty packet that ends an IN request,
\* which stays in the buffer.
EP0_rx_int_data ==
  /\ ~DevStat /\ 0 \in EpIntSt /\ rxb # None /\ ~rxb.setup
  /\ EpIntSt' = EpIntSt \ {0}
  /\ \/ nbytes > 0 /\ rxb' = None /\ Serves(usp, rxb.data, 0)
     \/ /\ nbytes = 0
        /\ UNCHANGED <<rxb, pbuf, txb, nbytes, pdata, executed, stalled, Configuration>>
  /\ UNCHANGED <<usp, DevStat, host, late>>

\* tn_usb_EP0_tx_int_func: only when there is no OUT interrupt.
EP0_tx_int ==
  /\ ~DevStat /\ 0 \notin EpIntSt /\ 1 \in EpIntSt
  /\ EpIntSt' = EpIntSt \ {1}
  /\ UNCHANGED rxb
  /\ ST_DATAIN(pdata, pbuf, nbytes)
  /\ UNCHANGED <<usp, pbuf, Configuration, stalled, DevStat, host, executed, late>>

\* tn_usb_int_reset; whatever else is pending is cleared with it.
int_reset ==
  /\ DevStat
  /\ DevStat' = FALSE /\ EpIntSt' = {}
  /\ Configuration' = 0 /\ nbytes' = 0
  /\ UNCHANGED <<usp, pdata, pbuf, rxb, txb, stalled, host, executed, late>>

usb_int_func == int_reset \/ EP0_rx_int_setup \/ EP0_rx_int_data \/ EP0_tx_int
-----------------------------------------------------------------------------
(* The host and the bus.                                                   *)

Unknown == -1

\* A request; the one before it may be at any stage.
HostSetup(r) ==
  /\ rxb' = [setup |-> TRUE, req |-> r]
  /\ txb' = None /\ stalled' = FALSE
  /\ EpIntSt' = EpIntSt \cup {0}
  /\ req' = r /\ got' = <<>>
  /\ stage' = IF r.wLength = 0 THEN "status" ELSE IF r.in THEN "in" ELSE "out"
  /\ hostConf' = IF r.bRequest = "SET_CONFIGURATION" THEN Unknown ELSE hostConf
  /\ executed' = 0 /\ late' = FALSE
  /\ UNCHANGED <<udi, DevStat>>

\* An OUT packet: the request's data, or the empty one that ends an IN request.
HostData ==
  /\ ~stalled /\ rxb = None
  /\ \/ stage = "out" /\ stage' = "status"
        /\ rxb' = [setup |-> FALSE, data |-> req.data]
     \/ stage = "status" /\ req.in /\ stage' = "ok"
        /\ rxb' = [setup |-> FALSE, data |-> None]
  /\ EpIntSt' = EpIntSt \cup {0}
  /\ UNCHANGED <<udi, txb, stalled, DevStat, req, got, hostConf, executed, late>>

\* An IN packet: part of the answer, or the empty one that ends a request.
HostIn ==
  /\ txb # None
  /\ \/ /\ stage = "in"
        /\ got' = Append(got, txb)
        /\ stage' = IF txb.len = MaxPacket0 /\ MaxPacket0 * Len(got') < req.wLength
                      THEN "in" ELSE "status"
        /\ UNCHANGED hostConf
     \/ /\ stage = "status" /\ ~req.in
        /\ got' = got
        /\ stage' = IF txb.len = 0 THEN "ok" ELSE "failed"
        /\ hostConf' = IF txb.len = 0 /\ ~late /\ req.bRequest = "SET_CONFIGURATION"
                         THEN req.wValue[2] ELSE hostConf
  /\ txb' = None
  /\ EpIntSt' = EpIntSt \cup {1}
  /\ UNCHANGED <<udi, rxb, stalled, DevStat, req, executed, late>>

\* The host sees the stall.
HostFails ==
  /\ stalled /\ stage \in {"in", "out", "status"}
  /\ stage' = "failed"
  /\ UNCHANGED <<udi, controller, req, got, hostConf, executed, late>>

HostReset ==
  /\ DevStat' = TRUE
  /\ rxb' = None /\ txb' = None /\ stalled' = FALSE
  /\ stage' = "idle" /\ req' = None /\ got' = <<>> /\ hostConf' = 0
  /\ executed' = 0 /\ late' = FALSE
  /\ UNCHANGED <<udi, EpIntSt>>

HostNext == (\E r \in Requests : HostSetup(r)) \/ HostData \/ HostIn \/ HostFails \/ HostReset

ControlNext == usb_int_func \/ HostNext
ControlSpec == ControlInit /\ [][ControlNext]_cvars
-----------------------------------------------------------------------------
(* Properties.                                                             *)

(* The answer a host takes is the answer to its own request, of the length *)
(* it asked for, whatever became of the requests before it: tn_usb_EP0_    *)
(* rx_int_func starts pdata and nbytes anew and the reply of an abandoned  *)
(* request never comes out.  The exception is a SETUP served while an IN   *)
(* interrupt is still pending, which the handler then takes for the new    *)
(* request's and overwrites the answer.                                    *)
AnswerIsForRequest ==
  stage \in {"status", "ok"} /\ req.in /\ ~late =>
    /\ req.want # None
    /\ got = <<[what |-> req.want[1], off |-> 0, len |-> req.want[2]]>>

(* A request the host sees completed has been carried out exactly once, a  *)
(* PUT_FW_INFO only with good data, one that is refused not at all; and    *)
(* after it the host and the device agree on the configuration.            *)
OkIsExecuted ==
  /\ stage = "ok" /\ ~late => executed = 1 /\ (~req.in => req.data \in {None, Good})
  /\ stage = "failed" /\ stalled => executed = 0
  /\ hostConf # Unknown /\ ~DevStat => Configuration = hostConf
=============================================================================
