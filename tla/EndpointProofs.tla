--------------------------- MODULE EndpointProofs ---------------------------
(***************************************************************************)
(* Proofs about two endpoints that share nothing but the interrupt: the    *)
(* control endpoint of the Firmware Upgrader, for every set of requests of *)
(* the form of ControlAssumption, and endpoint 2 of the example            *)
(* application, for every pool size and distance of the looks at           *)
(* gUserAbort.                                                             *)
(***************************************************************************)
EXTENDS FwuControl, UsbApp, TLAPS

\* A SETUP packet that has not been read, and a request that has been.
Unread == rxb # None /\ rxb.setup
Served == stage # "idle" /\ ~Unread

\* The host has not yet had the packet that ends, or answers, its request.
Unanswered == stage \in {"in", "out"} \/ (stage = "status" /\ ~req.in)

Reply(r) == IF r.in THEN [what |-> r.want[1], off |-> 0, len |-> r.want[2]]
                    ELSE [what |-> None, off |-> 0, len |-> 0]
FirstStage(r) == IF r.wLength = 0 THEN "status" ELSE IF r.in THEN "in" ELSE "out"

ControlTypeOK ==
  /\ stage \in {"idle", "in", "out", "status", "ok", "failed"}
  /\ stage # "idle" => req \in Requests
  /\ stage = "in" => req.in
  /\ stage = "out" => ~req.in /\ req.wLength > 0
  /\ rxb \in {None} \cup [setup: {TRUE}, req: Requests]
                    \cup {[setup |-> FALSE, data |-> d] : d \in {r.data : r \in Requests} \cup {None}}
  /\ nbytes \in Nat /\ EpIntSt \subseteq {0, 1}
  /\ executed \in {0, 1}

\* Nothing goes on before the first request.
IdleIsQuiet == stage = "idle" =>
  rxb = None /\ txb = None /\ ~stalled /\ (~DevStat => EpIntSt = {})

\* Until a SETUP packet is read nothing of the request before it comes out; a
\* reset loses its interrupt.
UnreadIsQuiet == Unread =>
  /\ stage # "idle" /\ rxb.req = req /\ stage = FirstStage(req)
  /\ txb = None /\ ~stalled /\ executed = 0 /\ ~late /\ got = <<>>
  /\ 0 \notin EpIntSt /\ ~DevStat => EpIntSt = {}

ResetComesFirst == DevStat => ~Served

\* What the handlers have made of the request so far.
ServedOnce == Served =>
  /\ usp = req
  /\ executed = 1 => /\ nbytes = 0 /\ ~stalled
                     /\ ~req.in => req.data \in {None, Good}
                     /\ req.bRequest = "SET_CONFIGURATION" => Configuration = req.wValue[2]
  /\ executed = 0 => stalled \/ (~req.in /\ req.wLength > 0)
  /\ stalled => rxb = None
  /\ rxb # None => rxb.data = IF req.in THEN None ELSE req.data

\* What the host gets, and has got.
AnswersAre == Served /\ ~late =>
  /\ Unanswered => 1 \notin EpIntSt /\ got = <<>>
  /\ Unanswered /\ txb # None =>
       executed = 1 /\ txb = Reply(req) /\ (req.in => req.want # None)
  /\ stage = "ok" \/ (stage = "status" /\ req.in) => executed = 1
  /\ stage \in {"status", "ok"} /\ req.in => req.want # None /\ got = <<Reply(req)>>

\* What they agree on.
Agreed ==
  /\ IF DevStat THEN hostConf \in {0, Unknown}
     ELSE hostConf # Unknown => Configuration = hostConf
  /\ stage # "idle" /\ req.bRequest = "SET_CONFIGURATION" /\ hostConf # Unknown =>
       Served /\ executed = 1

ControlInv == /\ ControlTypeOK /\ IdleIsQuiet /\ UnreadIsQuiet /\ ResetComesFirst
              /\ ServedOnce /\ AnswersAre /\ Agreed
-----------------------------------------------------------------------------
(* What the requests are answered.                                         *)

\* The smaller of two numbers.
LEMMA AtMostFacts ==
  \A n, m \in Nat : /\ AtMost(n, m) \in Nat /\ AtMost(n, m) <= m /\ AtMost(n, m) <= n
                    /\ n > 0 /\ m > 0 => AtMost(n, m) > 0
                    /\ m <= n => AtMost(n, m) = m
                    /\ n <= m => AtMost(n, m) = n
BY DEF AtMost

\* No descriptor is empty, and none is in the buffer's place.
LEMMA DescriptorFacts ==
  \A k \in DOMAIN Descriptors : k # Buf /\ Size(k) \in Nat /\ Size(k) > 0
BY DEF Descriptors, Size, Buf, TYPE_DEVICE, TYPE_CONFIGURATION, TYPE_STRING,
       TYPE_INTERFACE, TYPE_ENDPOINT

\* A request for data that is carried out is answered as it must be.
LEMMA AnswersData ==
  ASSUME NEW r \in Requests, r.in, NEW buf, NEW o, o = EP0_SETUP(r, buf, r.wLength), o.rc
  PROVE  /\ o.nbytes \in Nat /\ o.nbytes > 0 /\ o.pdata.off = 0
         /\ r.want = <<IF o.pdata.place = Buf THEN o.pbuf ELSE <<"descriptor", o.pdata.place>>,
                       AtMost(o.nbytes, r.wLength)>>
         /\ r.want # None /\ r.bRequest # "SET_CONFIGURATION"
<1>1. /\ WantOK(r) /\ r.wLength \in Nat /\ r.wLength > 0 /\ r.bRequest # "RESET"
      /\ r.type \in {"STD", "CLASS", "VENDOR"}
  BY ControlAssumption DEF ControlAssumption, RequestOK
<1>2. CASE r.type = "STD" /\ r.bRequest = "GET_DESCRIPTOR"
  <2>1. o = GET_DESCRIPTOR(r, buf)
    BY <1>2 DEF EP0_SETUP, STD_DEV_IN
  <2>2. r.recip = "DEVICE" /\ Found(r) # {}
    BY <2>1 DEF GET_DESCRIPTOR, Refuses
  <2> DEFINE k == CHOOSE k \in Found(r) : TRUE
  <2>3. k \in Found(r) /\ k \in DOMAIN Descriptors
    BY <2>2 DEF Found
  <2>4. o = [Done(buf, Size(k)) EXCEPT !.pdata = At(k)]
    BY <2>1, <2>2 DEF GET_DESCRIPTOR
  <2> HIDE DEF k
  <2>5. Gets(r, <<"descriptor", k>>, Size(k))
    BY <1>1, <1>2, <2>2, <2>3 DEF WantOK
  <2>6. k # Buf /\ Size(k) \in Nat /\ Size(k) > 0
    BY <2>3, DescriptorFacts
  <2>7. o.nbytes = Size(k) /\ o.pdata.off = 0 /\ o.pdata.place = k
    BY <2>4 DEF Done, At
  <2> QED
    BY <1>2, <2>5, <2>6, <2>7 DEF Gets
<1>3. CASE r.type = "STD" /\ r.bRequest # "GET_DESCRIPTOR"
  <2>1. r.bRequest # "GET_CONFIGURATION"
    BY <1>1 DEF WantOK
  <2>2. r.bRequest = "GET_STATUS" /\ o = Done(<<"status", 0>>, 2)
    BY <1>3, <2>1 DEF EP0_SETUP, STD_DEV_IN, Refuses
  <2>3. Gets(r, <<"status", 0>>, 2)
    BY <1>1, <1>3, <2>2 DEF WantOK
  <2> QED
    BY <2>2, <2>3 DEF Gets, Done, At
<1>4. CASE r.type = "CLASS"
  <2>1. r.bRequest = "GET_MAX_LUN" /\ o = Done(<<"luns", 0>>, 1)
    BY <1>1, <1>4 DEF EP0_SETUP, class_request, Refuses
  <2>2. Gets(r, <<"luns", 0>>, 1)
    BY <1>1, <1>4, <2>1 DEF WantOK
  <2> QED
    BY <2>1, <2>2 DEF Gets, Done, At
<1>5. CASE r.type = "VENDOR"
  <2>1. o = vendor_request_in(r, r.wLength)
    BY <1>5 DEF EP0_SETUP
  <2>2. CASE r.bRequest = "GET_FW_INFO"
    <3>1. o = Done(<<"info", 0>>, r.wLength)
      BY <2>1, <2>2 DEF vendor_request_in
    <3>2. Gets(r, <<"info", 0>>, r.wLength)
      BY <1>1, <1>5, <2>2 DEF WantOK
    <3> QED
      BY <1>1, <2>2, <3>1, <3>2 DEF Gets, Done, At
  <2>3. CASE r.bRequest = "GET_ISFWU"
    <3>1. o = Done(<<"isfwu", 0>>, 8)
      BY <2>1, <2>3 DEF vendor_request_in
    <3>2. Gets(r, <<"isfwu", 0>>, 8)
      BY <1>1, <1>5, <2>3 DEF WantOK
    <3> QED
      BY <2>3, <3>1, <3>2 DEF Gets, Done, At
  <2> QED
    BY <2>1, <2>2, <2>3 DEF vendor_request_in, Refuses
<1> QED
  BY <1>1, <1>2, <1>3, <1>4, <1>5

\* A request for data is carried out, the whole answer going into the IN buffer,
\* or endpoint 0 is stalled.
LEMMA ServesData ==
  ASSUME NEW r \in Requests, r.in, NEW buf, Serves(r, buf, r.wLength), rxb' = None
  PROVE  \/ /\ stalled' = TRUE /\ nbytes' \in Nat
            /\ UNCHANGED <<txb, Configuration, executed>>
         \/ /\ nbytes' = 0 /\ txb' = Reply(r) /\ r.want # None /\ executed' = executed + 1
            /\ r.bRequest # "SET_CONFIGURATION"
            /\ UNCHANGED <<stalled, Configuration>>
<1>1. /\ WantOK(r) /\ r.wLength \in Nat /\ r.wLength > 0
      /\ MaxPacket0 \in Nat /\ MaxPacket0 > 0
  BY ControlAssumption DEF ControlAssumption, RequestOK
<1> DEFINE o == EP0_SETUP(r, buf, r.wLength)
           n == AtMost(o.nbytes, r.wLength)
<1>2. CASE ~o.rc
  BY <1>1, <1>2 DEF Serves
<1>3. CASE o.rc
  <2>1. /\ o.nbytes \in Nat /\ o.nbytes > 0 /\ o.pdata.off = 0
        /\ r.want = <<IF o.pdata.place = Buf THEN o.pbuf ELSE <<"descriptor", o.pdata.place>>, n>>
        /\ r.want # None /\ r.bRequest # "SET_CONFIGURATION"
    BY <1>3, AnswersData
  <2>2. /\ ST_DATAIN(o.pdata, o.pbuf, n) /\ executed' = executed + 1
        /\ UNCHANGED <<stalled, Configuration>>
    BY <1>3, <2>1 DEF Serves, ConfigurationAfter
  <2>3. n \in Nat /\ n > 0 /\ r.want[2] = n
    BY <1>1, <2>1, AtMostFacts
  <2>4. n <= MaxPacket0
    BY <1>1, <2>1, <2>3 DEF WantOK
  <2> DEFINE p == o.pdata
             content == o.pbuf
  <2>5. AtMost(n, MaxPacket0) = n
    BY <1>1, <2>3, <2>4, AtMostFacts
  <2> HIDE DEF o, n, p, content
  <2>6. nbytes' = 0 /\ txb' = PacketFrom(o.pdata, o.pbuf, n)
    BY <2>2, <2>3, <2>5 DEF ST_DATAIN
  <2>7. txb' = Reply(r)
    BY <2>1, <2>3, <2>6 DEF PacketFrom, Reply
  <2> QED
    BY <2>1, <2>2, <2>6, <2>7
<1> QED
  BY <1>2, <1>3

\* Any other request is carried out, once its data are there, and only good
\* data; or endpoint 0 is stalled.
LEMMA ServesCommand ==
  ASSUME NEW r \in Requests, ~r.in, NEW buf, Serves(r, buf, 0), rxb' = None,
         r.wLength > 0 => buf = r.data
  PROVE  /\ nbytes' = 0
         /\ \/ stalled' = TRUE /\ UNCHANGED <<txb, Configuration, executed>>
            \/ /\ txb' = Reply(r) /\ executed' = executed + 1 /\ UNCHANGED stalled
               /\ r.data \in {None, Good}
               /\ Configuration' = IF r.bRequest = "SET_CONFIGURATION" THEN r.wValue[2]
                                   ELSE Configuration
<1>1. /\ r.type \in {"STD", "CLASS", "VENDOR"} /\ r.wLength \in Nat
      /\ IF r.wLength = 0 THEN r.data = None
         ELSE \/ r.type = "VENDOR" /\ r.bRequest = "PUT_FW_INFO"
              \/ r.type = "STD" /\ r.bRequest = "SET_DESCRIPTOR"
      /\ MaxPacket0 \in Nat /\ MaxPacket0 > 0
  BY ControlAssumption DEF ControlAssumption, RequestOK
<1> DEFINE o == EP0_SETUP(r, buf, 0)
<1>2. CASE ~o.rc
  BY <1>2 DEF Serves
<1>3. CASE o.rc
  <2>1. /\ o.nbytes \in {0, 1} /\ (r.wLength > 0 => o.nbytes = 0 /\ buf = Good)
        /\ r.bRequest = "SET_CONFIGURATION" => ConfigurationAfter(r) = r.wValue[2]
    <3>1. CASE r.type = "STD"
      BY <1>1, <1>3, <3>1 DEF EP0_SETUP, STD_DEV_OUT, Done, Refuses
    <3>2. CASE r.type = "CLASS"
      BY <1>1, <1>3, <3>2 DEF EP0_SETUP, class_request, Done, Refuses
    <3>3. CASE r.type = "VENDOR"
      BY <1>1, <1>3, <3>3 DEF EP0_SETUP, vendor_request_out, Done, Refuses
    <3> QED
      BY <1>1, <3>1, <3>2, <3>3
  <2>2. /\ ST_DATAIN(o.pdata, o.pbuf, AtMost(o.nbytes, r.wLength)) /\ executed' = executed + 1
        /\ UNCHANGED stalled /\ Configuration' = ConfigurationAfter(r)
    BY <1>3 DEF Serves
  <2>3. Configuration' = IF r.bRequest = "SET_CONFIGURATION" THEN r.wValue[2]
                         ELSE Configuration
    BY <2>1, <2>2 DEF ConfigurationAfter
  <2> HIDE DEF o
  <2>4. AtMost(o.nbytes, r.wLength) = 0
    BY <1>1, <2>1 DEF AtMost
  <2>5. AtMost(0, MaxPacket0) = 0
    BY <1>1 DEF AtMost
  <2>6. nbytes' = 0 /\ txb' = Reply(r)
    BY <2>2, <2>4, <2>5 DEF ST_DATAIN, PacketFrom, Reply
  <2>7. r.data \in {None, Good}
    BY <1>1, <2>1
  <2> QED
    BY <2>2, <2>3, <2>6, <2>7
<1> QED
  BY <1>2, <1>3

-----------------------------------------------------------------------------
(* The steps of the host.                                                  *)

\* A packet is a packet.
LEMMA PacketFacts ==
  ASSUME NEW r \in Requests
  PROVE  /\ [setup |-> TRUE, req |-> r] # None
         /\ [setup |-> FALSE, data |-> r.data] # None
         /\ [setup |-> FALSE, data |-> None] # None
BY ControlAssumption DEF ControlAssumption, RequestOK

\* A new request: whatever has become of the last one, it waits to be read.
LEMMA HostSetupKeeps ==
  ASSUME ControlInv, NEW r \in Requests, HostSetup(r) PROVE ControlInv'
<1> USE DEF ControlInv, HostSetup
<1>1. /\ rxb' = [setup |-> TRUE, req |-> r] /\ rxb' # None /\ Unread'
      /\ rxb' \in [setup: {TRUE}, req: Requests] /\ r.in \in BOOLEAN /\ r.wLength \in Nat
  BY PacketFacts, ControlAssumption DEF Unread, ControlAssumption, RequestOK
<1>2. /\ stage' = FirstStage(r) /\ stage' \in {"status", "in", "out"} /\ req' = r
      /\ stage' = "in" => r.in
      /\ stage' = "out" => ~r.in /\ r.wLength > 0
  BY <1>1 DEF FirstStage
<1>3. ControlTypeOK'
  <2>1. EpIntSt' \subseteq {0, 1} /\ executed' \in {0, 1}
    BY DEF ControlTypeOK
  <2>2. nbytes' \in Nat
    BY DEF ControlTypeOK, udi
  <2> QED
    BY <1>1, <1>2, <2>1, <2>2 DEF ControlTypeOK
<1>4. IdleIsQuiet' /\ UnreadIsQuiet'
  BY <1>1, <1>2 DEF IdleIsQuiet, UnreadIsQuiet
<1>5. ResetComesFirst' /\ ServedOnce' /\ AnswersAre'
  BY <1>1 DEF ResetComesFirst, ServedOnce, AnswersAre, Served
<1>6. Agreed'
  BY <1>1, <1>2 DEF Agreed, udi
<1> QED
  BY <1>3, <1>4, <1>5, <1>6

\* The data of an OUT request, or the end of an IN request.
LEMMA HostDataKeeps ==
  ASSUME ControlInv, HostData PROVE ControlInv'
<1> USE DEF ControlInv, HostData
<1>1. Served /\ req \in Requests /\ ~DevStat
  BY DEF Served, Unread, ControlTypeOK, ResetComesFirst
<1>2. /\ rxb' = [setup |-> FALSE, data |-> IF req.in THEN None ELSE req.data]
      /\ rxb' # None /\ Served' /\ ~Unread'
      /\ rxb' \in {[setup |-> FALSE, data |-> d] : d \in {r.data : r \in Requests} \cup {None}}
  BY <1>1, PacketFacts DEF Served, Unread, ControlTypeOK
<1>3. ControlTypeOK'
  BY <1>1, <1>2 DEF ControlTypeOK, udi
<1>4. IdleIsQuiet' /\ UnreadIsQuiet' /\ ResetComesFirst'
  BY <1>1, <1>2 DEF IdleIsQuiet, UnreadIsQuiet, ResetComesFirst, Served
<1>5. ServedOnce'
  BY <1>1, <1>2 DEF ServedOnce, udi
<1>6. AnswersAre'
  BY <1>1, <1>2 DEF AnswersAre, Unanswered, udi, ControlTypeOK
<1>7. Agreed'
  BY <1>1, <1>2 DEF Agreed, udi
<1> QED
  BY <1>3, <1>4, <1>5, <1>6, <1>7

\* The host takes a packet: unless an interrupt was late, it is the answer.
LEMMA HostInKeeps ==
  ASSUME ControlInv, HostIn PROVE ControlInv'
<1> USE DEF ControlInv, HostIn
<1>1. Served /\ req \in Requests /\ ~DevStat /\ stage \in {"in", "status"}
  BY DEF Served, ControlTypeOK, IdleIsQuiet, UnreadIsQuiet, ResetComesFirst
<1>2. Served' /\ ~Unread' /\ stage' \in {"in", "status", "ok", "failed"} /\ (stage' = "in" => stage = "in")
  BY <1>1 DEF Served, Unread
<1>3. ControlTypeOK'
  BY <1>1, <1>2 DEF ControlTypeOK, udi
<1>4. IdleIsQuiet' /\ UnreadIsQuiet' /\ ResetComesFirst'
  BY <1>1, <1>2 DEF IdleIsQuiet, UnreadIsQuiet, ResetComesFirst
<1>5. ServedOnce'
  BY <1>1, <1>2 DEF ServedOnce, udi
<1>6. ~late => executed = 1 /\ txb = Reply(req) /\ got = <<>> /\ (req.in => req.want # None)
  BY <1>1 DEF AnswersAre, Unanswered, ControlTypeOK
<1>7. AnswersAre'
  <2> SUFFICES ASSUME ~late PROVE AnswersAre'
    BY DEF AnswersAre
  <2>1. CASE stage = "in"
    <3>1. /\ req.in /\ got' = <<Reply(req)>> /\ txb = Reply(req) /\ req.want # None
          /\ executed = 1
      BY <1>6, <2>1 DEF ControlTypeOK
    <3>2. req.wLength \in Nat /\ MaxPacket0 \in Nat /\ WantOK(req)
      BY <1>1, <3>1, ControlAssumption DEF ControlAssumption, RequestOK
    <3>3. Len(got') = 1 /\ txb.len = req.want[2]
      BY <3>1 DEF Reply
    <3>4. stage' = "status"
      <4>1. ~(txb.len = MaxPacket0 /\ MaxPacket0 * Len(got') < req.wLength)
        BY <3>1, <3>2, <3>3 DEF WantOK
      <4> QED
        BY <2>1, <4>1
    <3> QED
      BY <3>1, <3>4 DEF AnswersAre, Unanswered, Reply
  <2>2. CASE stage = "status"
    <3>1. ~req.in /\ executed = 1 /\ txb.len = 0 /\ stage' = "ok"
      BY <1>6, <2>2 DEF Reply
    <3> QED
      BY <3>1 DEF AnswersAre, Unanswered
  <2> QED
    BY <1>1, <2>1, <2>2
<1>8. Agreed'
  <2>1. CASE UNCHANGED hostConf
    BY <1>1, <1>2, <2>1 DEF Agreed, udi
  <2>2. CASE ~late /\ req.bRequest = "SET_CONFIGURATION" /\ hostConf' = req.wValue[2]
    <3>1. Configuration' = req.wValue[2]
      BY <1>1, <1>6, <2>2 DEF ServedOnce, udi
    <3> QED
      BY <1>1, <1>2, <1>6, <2>2, <3>1 DEF Agreed
  <2> QED
    BY <2>1, <2>2
<1> QED
  BY <1>3, <1>4, <1>5, <1>7, <1>8

\* The host sees the stall, or resets the bus.
LEMMA HostEndsKeep ==
  ASSUME ControlInv, HostFails \/ HostReset PROVE ControlInv'
<1> USE DEF ControlInv
<1>1. CASE HostFails
  <2> USE DEF HostFails
  <2>1. Served /\ Served' /\ ~Unread'
    BY <1>1 DEF Served, Unread, UnreadIsQuiet, controller
  <2>2. ControlTypeOK'
    BY <1>1 DEF ControlTypeOK, udi, controller
  <2>3. IdleIsQuiet' /\ UnreadIsQuiet' /\ ResetComesFirst'
    BY <1>1, <2>1 DEF IdleIsQuiet, UnreadIsQuiet, ResetComesFirst, controller
  <2>4. ServedOnce'
    BY <1>1, <2>1 DEF ServedOnce, udi, controller
  <2>5. AnswersAre'
    BY <1>1 DEF AnswersAre, Unanswered
  <2>6. Agreed'
    BY <1>1, <2>1 DEF Agreed, udi, controller
  <2> QED
    BY <2>2, <2>3, <2>4, <2>5, <2>6
<1>2. CASE HostReset
  <2> USE DEF HostReset
  <2>1. ~Served' /\ ~Unread' /\ DevStat'
    BY <1>2 DEF Served, Unread
  <2>2. ControlTypeOK'
    BY <1>2 DEF ControlTypeOK, udi
  <2>3. IdleIsQuiet' /\ UnreadIsQuiet' /\ ResetComesFirst'
    BY <1>2, <2>1 DEF IdleIsQuiet, UnreadIsQuiet, ResetComesFirst
  <2>4. ServedOnce' /\ AnswersAre'
    BY <2>1 DEF ServedOnce, AnswersAre
  <2>5. Agreed'
    BY <1>2, <2>1 DEF Agreed
  <2> QED
    BY <2>2, <2>3, <2>4, <2>5
<1> QED
  BY <1>1, <1>2

-----------------------------------------------------------------------------
(* The steps of the interrupt.                                             *)

\* A reset, that the host has made: it loses no more than a SETUP packet.
LEMMA ResetKeeps ==
  ASSUME ControlInv, int_reset PROVE ControlInv'
<1> USE DEF ControlInv, int_reset
<1>1. ~Served /\ ~Served' /\ (Unread' => Unread)
  BY DEF ResetComesFirst, Served, Unread, host
<1>2. ControlTypeOK'
  BY DEF ControlTypeOK, host
<1>3. IdleIsQuiet'
  BY DEF IdleIsQuiet, host
<1>4. UnreadIsQuiet' /\ ResetComesFirst'
  BY <1>1 DEF UnreadIsQuiet, ResetComesFirst, host
<1>5. ServedOnce' /\ AnswersAre'
  BY <1>1 DEF ServedOnce, AnswersAre
<1>6. Agreed'
  BY <1>1 DEF Agreed, host
<1> QED
  BY <1>2, <1>3, <1>4, <1>5, <1>6

\* A SETUP packet is read and, unless it needs data, served.
LEMMA SetupKeeps ==
  ASSUME ControlInv, EP0_rx_int_setup PROVE ControlInv'
<1> USE DEF ControlInv, EP0_rx_int_setup
<1>1. /\ Unread /\ stage # "idle" /\ req \in Requests /\ rxb.req = req /\ usp' = req
      /\ stage = FirstStage(req) /\ txb = None /\ ~stalled /\ executed = 0 /\ got = <<>>
      /\ UNCHANGED <<req, stage, got, hostConf, DevStat>> /\ ~DevStat
      /\ rxb' = None /\ EpIntSt' = EpIntSt \ {0}
  BY DEF Unread, UnreadIsQuiet, ControlTypeOK, host
<1>a. ~late' => 1 \notin EpIntSt
  OBVIOUS
<1>2. Served' /\ ~Unread'
  BY <1>1 DEF Served, Unread
<1>3. req.in \in BOOLEAN /\ req.wLength \in Nat /\ (req.in => req.wLength > 0)
  BY <1>1, ControlAssumption DEF ControlAssumption, RequestOK
<1>4. /\ nbytes' \in Nat /\ executed' \in {0, 1}
      /\ executed' = 1 => /\ nbytes' = 0 /\ ~stalled'
                          /\ ~req.in => req.data \in {None, Good}
                          /\ req.bRequest = "SET_CONFIGURATION" => Configuration' = req.wValue[2]
      /\ executed' = 0 => stalled' \/ (~req.in /\ req.wLength > 0)
      /\ txb' # None => executed' = 1 /\ txb' = Reply(req) /\ (req.in => req.want # None)
      /\ Configuration' # Configuration => req.bRequest = "SET_CONFIGURATION" /\ executed' = 1
  <2>1. ReadsSetup(req)
    BY <1>1
  <2>2. CASE req.in
    <3>1. Serves(req, pbuf, req.wLength)
      BY <2>1, <2>2 DEF ReadsSetup
    <3>2. \/ /\ stalled' = TRUE /\ nbytes' \in Nat
             /\ UNCHANGED <<txb, Configuration, executed>>
          \/ /\ nbytes' = 0 /\ txb' = Reply(req) /\ req.want # None /\ executed' = executed + 1
             /\ req.bRequest # "SET_CONFIGURATION"
             /\ UNCHANGED <<stalled, Configuration>>
      BY <1>1, <2>2, <3>1, ServesData
    <3>3. CASE stalled' = TRUE /\ nbytes' \in Nat /\ UNCHANGED <<txb, Configuration, executed>>
      BY <1>1, <3>3
    <3>4. CASE /\ nbytes' = 0 /\ txb' = Reply(req) /\ req.want # None /\ executed' = executed + 1
               /\ req.bRequest # "SET_CONFIGURATION" /\ UNCHANGED <<stalled, Configuration>>
      <4>1. executed' = 1 /\ ~stalled'
        BY <1>1, <3>4
      <4> QED
        BY <2>2, <3>4, <4>1
    <3> QED
      BY <3>2, <3>3, <3>4
  <2>3. CASE ~req.in /\ req.wLength = 0
    <3>1. Serves(req, pbuf, 0)
      BY <2>1, <2>3 DEF ReadsSetup
    <3>2. /\ nbytes' = 0
          /\ \/ stalled' = TRUE /\ UNCHANGED <<txb, Configuration, executed>>
             \/ /\ txb' = Reply(req) /\ executed' = executed + 1 /\ UNCHANGED stalled
                /\ req.data \in {None, Good}
                /\ Configuration' = IF req.bRequest = "SET_CONFIGURATION" THEN req.wValue[2]
                                    ELSE Configuration
      <4>1. ~(req.wLength > 0)
        BY <2>3
      <4> QED
        BY <1>1, <2>3, <3>1, <4>1, ServesCommand
    <3>3. CASE stalled' = TRUE /\ UNCHANGED <<txb, Configuration, executed>>
      BY <1>1, <3>2, <3>3
    <3>4. CASE /\ txb' = Reply(req) /\ executed' = executed + 1 /\ UNCHANGED stalled
               /\ req.data \in {None, Good}
               /\ Configuration' = IF req.bRequest = "SET_CONFIGURATION" THEN req.wValue[2]
                                   ELSE Configuration
      <4>1. executed' = 1 /\ ~stalled'
        BY <1>1, <3>4
      <4> QED
        BY <2>3, <3>2, <3>4, <4>1
    <3> QED
      BY <3>2, <3>3, <3>4
  <2>4. CASE ~req.in /\ req.wLength > 0
    <3>1. nbytes' = req.wLength /\ UNCHANGED <<txb, Configuration, stalled, executed>>
      BY <1>3, <2>1, <2>4 DEF ReadsSetup
    <3>2. executed' = 0 /\ ~stalled' /\ txb' = None
      BY <1>1, <3>1
    <3> QED
      BY <1>3, <2>4, <3>1, <3>2
  <2> QED
    BY <1>3, <2>2, <2>3, <2>4
<1>5. ControlTypeOK'
  BY <1>1, <1>a, <1>4 DEF ControlTypeOK
<1>6. IdleIsQuiet' /\ UnreadIsQuiet' /\ ResetComesFirst'
  BY <1>1, <1>2 DEF IdleIsQuiet, UnreadIsQuiet, ResetComesFirst
<1>7. ServedOnce'
  BY <1>1, <1>4 DEF ServedOnce
<1>8. AnswersAre'
  BY <1>1, <1>a, <1>3, <1>4 DEF AnswersAre, FirstStage
<1>9. Agreed'
  BY <1>1, <1>2, <1>4 DEF Agreed, Served
<1> QED
  BY <1>5, <1>6, <1>7, <1>8, <1>9

\* Data are served when they are expected, and only then.
LEMMA DataKeeps ==
  ASSUME ControlInv, EP0_rx_int_data PROVE ControlInv'
<1> USE DEF ControlInv, EP0_rx_int_data
<1>1. /\ Served /\ req \in Requests /\ usp = req /\ ~stalled /\ stage # "idle"
      /\ rxb.data = IF req.in THEN None ELSE req.data
      /\ UNCHANGED <<usp, req, stage, got, hostConf, DevStat, late>>
      /\ EpIntSt' = EpIntSt \ {0}
  BY DEF Served, Unread, IdleIsQuiet, ServedOnce, ControlTypeOK, host
<1>2. rxb' \in {None, rxb} /\ Served' /\ ~Unread'
  BY <1>1 DEF Served, Unread
<1>3. CASE UNCHANGED <<txb, nbytes, executed, stalled, Configuration>>
  <2>1. ControlTypeOK'
    BY <1>1, <1>2, <1>3 DEF ControlTypeOK
  <2>2. IdleIsQuiet' /\ UnreadIsQuiet' /\ ResetComesFirst'
    BY <1>1, <1>2 DEF IdleIsQuiet, UnreadIsQuiet, ResetComesFirst, Served
  <2>3. ServedOnce'
    BY <1>1, <1>2, <1>3 DEF ServedOnce
  <2>4. AnswersAre'
    BY <1>1, <1>3 DEF AnswersAre, Unanswered
  <2>5. Agreed'
    BY <1>1, <1>2, <1>3 DEF Agreed
  <2> QED
    BY <2>1, <2>2, <2>3, <2>4, <2>5
<1>4. CASE nbytes > 0 /\ rxb' = None /\ Serves(usp, rxb.data, 0)
  <2>1. executed = 0 /\ ~req.in /\ req.wLength > 0
    BY <1>1, <1>4 DEF ServedOnce, ControlTypeOK
  <2>2. /\ nbytes' = 0
        /\ \/ stalled' = TRUE /\ UNCHANGED <<txb, Configuration, executed>>
           \/ /\ txb' = Reply(req) /\ executed' = executed + 1 /\ UNCHANGED stalled
              /\ req.data \in {None, Good}
              /\ Configuration' = IF req.bRequest = "SET_CONFIGURATION" THEN req.wValue[2]
                                  ELSE Configuration
    <3>1. Serves(req, req.data, 0)
      BY <1>1, <1>4, <2>1
    <3> QED
      BY <1>1, <1>4, <2>1, <3>1, ServesCommand
  <2>3. ControlTypeOK'
    <3>1. executed' \in {0, 1}
      BY <1>1, <2>1, <2>2
    <3> QED
      BY <1>1, <1>4, <2>2, <3>1 DEF ControlTypeOK
  <2>4. IdleIsQuiet' /\ UnreadIsQuiet' /\ ResetComesFirst'
    BY <1>1, <1>2 DEF IdleIsQuiet, UnreadIsQuiet, ResetComesFirst, Served
  <2>5. ServedOnce'
    BY <1>1, <1>4, <2>1, <2>2 DEF ServedOnce
  <2>6. AnswersAre'
    BY <1>1, <2>1, <2>2 DEF AnswersAre, Unanswered
  <2>7. Agreed'
    BY <1>1, <1>2, <2>1, <2>2 DEF Agreed
  <2> QED
    BY <2>3, <2>4, <2>5, <2>6, <2>7
<1> QED
  BY <1>3, <1>4

\* The interrupt after a packet has gone: what follows it is nobody's answer.
LEMMA TxKeeps ==
  ASSUME ControlInv, EP0_tx_int PROVE ControlInv'
<1> USE DEF ControlInv, EP0_tx_int
<1>1. /\ Served /\ (~late => ~Unanswered) /\ nbytes \in Nat
      /\ UNCHANGED <<usp, rxb, req, stage, got, hostConf, DevStat, late, executed, stalled,
                     Configuration>>
      /\ EpIntSt' \subseteq {0, 1}
  BY DEF Served, Unread, IdleIsQuiet, UnreadIsQuiet, AnswersAre, ControlTypeOK, host
<1>2. Served' /\ ~Unread'
  BY <1>1 DEF Served, Unread
<1>3. nbytes' \in Nat /\ (nbytes = 0 => nbytes' = 0)
  BY <1>1, ControlAssumption DEF ST_DATAIN, AtMost, ControlAssumption
<1>4. ControlTypeOK'
  BY <1>1, <1>3 DEF ControlTypeOK
<1>5. IdleIsQuiet' /\ UnreadIsQuiet' /\ ResetComesFirst'
  BY <1>1, <1>2 DEF IdleIsQuiet, UnreadIsQuiet, ResetComesFirst, Served
<1>6. ServedOnce'
  BY <1>1, <1>3 DEF ServedOnce
<1>7. AnswersAre'
  BY <1>1 DEF AnswersAre, Unanswered
<1>8. Agreed'
  BY <1>1, <1>2 DEF Agreed
<1> QED
  BY <1>4, <1>5, <1>6, <1>7, <1>8

-----------------------------------------------------------------------------
\* However the host gives requests up and begins others, and however late the
\* interrupts come: what has been made of a request, and what its answer is
\* (tn_usb_EP0_rx_int_func, tn_usb_EP0_tx_int_func, tn_usb_EP0_SETUP).
THEOREM ControlInvariant == ControlSpec => []ControlInv
<1>1. ControlInit => ControlInv
  <2> SUFFICES ASSUME ControlInit PROVE ControlInv
    OBVIOUS
  <2> USE DEF ControlInit
  <2>1. ~Unread /\ ~Served
    BY DEF Unread, Served
  <2>2. ControlTypeOK
    BY DEF ControlTypeOK
  <2>3. IdleIsQuiet /\ UnreadIsQuiet /\ ResetComesFirst /\ ServedOnce /\ AnswersAre
    BY <2>1 DEF IdleIsQuiet, UnreadIsQuiet, ResetComesFirst, ServedOnce, AnswersAre
  <2>4. Agreed
    BY DEF Agreed
  <2> QED
    BY <2>2, <2>3, <2>4 DEF ControlInv
<1>2. ControlInv /\ [ControlNext]_cvars => ControlInv'
  <2> SUFFICES ASSUME ControlInv, [ControlNext]_cvars PROVE ControlInv'
    OBVIOUS
  <2>1. CASE UNCHANGED cvars
    BY <2>1, ZenonT(60) DEF cvars, udi, controller, host, ControlInv, ControlTypeOK, IdleIsQuiet,
                UnreadIsQuiet, ResetComesFirst, ServedOnce, AnswersAre, Agreed, Served,
                Unread, Unanswered
  <2>2. CASE ControlNext
    BY <2>2, HostSetupKeeps, HostDataKeeps, HostInKeeps, HostEndsKeep, ResetKeeps,
       SetupKeeps, DataKeeps, TxKeeps DEF ControlNext, usb_int_func, HostNext
  <2> QED
    BY <2>1, <2>2
<1> QED
  BY <1>1, <1>2, PTL DEF ControlSpec

\* The run's property: the answer the host takes is the answer to its own
\* request, whatever became of the requests before it.
THEOREM AnswersOwnRequest == ControlSpec => []AnswerIsForRequest
<1>1. ControlInv => AnswerIsForRequest
  <2> SUFFICES ASSUME ControlInv, stage \in {"status", "ok"}, req.in, ~late
               PROVE  req.want # None /\ got = <<Reply(req)>>
    BY DEF AnswerIsForRequest, Reply
  <2>1. Served
    <3>1. req \in Requests /\ req.wLength > 0 /\ req.wLength \in Nat
      BY ControlAssumption DEF ControlInv, ControlTypeOK, ControlAssumption, RequestOK
    <3>2. FirstStage(req) = "in"
      BY <3>1 DEF FirstStage
    <3> QED
      BY <3>2 DEF ControlInv, UnreadIsQuiet, Served
  <2> QED
    BY <2>1 DEF ControlInv, AnswersAre
<1> QED
  BY <1>1, ControlInvariant, PTL

\* The run's property: what the host sees completed has been carried out once,
\* only with good data, and they agree on the configuration.
THEOREM CompletesOnce == ControlSpec => []OkIsExecuted
<1>1. ControlInv => OkIsExecuted
  <2> SUFFICES ASSUME ControlInv PROVE OkIsExecuted
    OBVIOUS
  <2>1. stage \in {"ok", "failed"} => Served
    BY DEF ControlInv, UnreadIsQuiet, FirstStage, Served
  <2>2. executed \in {0, 1}
    BY DEF ControlInv, ControlTypeOK
  <2> QED
    BY <2>1, <2>2 DEF ControlInv, ServedOnce, AnswersAre, Agreed, OkIsExecuted
<1> QED
  BY <1>1, ControlInvariant, PTL
-----------------------------------------------------------------------------
(* The example application: of the blocks of its pools one may be lost,    *)
(* and none is handed out twice.                                           *)

AppTypeOK ==
  /\ rx \in {"receive", "waits", "release"}
  /\ rxFree \in Nat /\ rxQueue \in Nat /\ txFree \in Nat /\ txQueue \in Nat
  /\ rxQueue <= Capacity /\ txQueue <= Capacity

\* A task waits for a block, for room or for the semaphore only while there is
\* none.
WaitsForNone == /\ rx = "waits" => rxQueue = 0
                /\ tx = "waitsBlock" => txFree = 0
                /\ tx = "waitsSend" => txQueue = Capacity
                /\ tx = "waitsSem" => semEP2TX = 0

\* A queue that has lost a block has room for all that are left.
AppInv == AppTypeOK /\ WaitsForNone /\ BlocksConserved
-----------------------------------------------------------------------------
\* The pools are full and the tasks have nothing when the application starts.
LEMMA AppInitInv == AppInit => AppInv
  BY AppAssumption DEF AppInit, AppInv, AppTypeOK, WaitsForNone, BlocksConserved, RxBlocks, TxBlocks,
                       Capacity

\* The receiver takes a block from its queue and gives it back to the pool.
LEMMA RxTaskInv == AppInv /\ RxTask => AppInv'
<1> USE AppAssumption DEF AppInv, AppTypeOK, WaitsForNone, BlocksConserved, RxBlocks, TxBlocks, Capacity
<1>1. AppInv /\ RxReceive => AppInv'
  BY DEF RxReceive, txtask, txpool
<1>2. AppInv /\ RxRelease => AppInv'
  BY DEF RxRelease, txtask, txpool
<1> QED
  BY <1>1, <1>2 DEF RxTask

\* The transmitter takes a block from its pool and queues it, or waits with it.
LEMMA TxTaskInv == AppInv /\ TxTask => AppInv'
<1> USE AppAssumption DEF AppInv, AppTypeOK, WaitsForNone, BlocksConserved, RxBlocks, TxBlocks, Capacity
<1>1. AppInv /\ TxConnect => AppInv'
  BY DEF TxConnect, rxvars, txpool
<1>2. AppInv /\ TxAcquire => AppInv'
  BY DEF TxAcquire, rxvars, txpool
<1>3. AppInv /\ TxGet => AppInv'
  BY DEF TxGet, rxvars
<1>4. AppInv /\ TxSend => AppInv'
  BY DEF TxSend, rxvars
<1>5. AppInv /\ TxCount => AppInv'
  BY DEF TxCount, rxvars, txpool
<1>6. AppInv /\ TxCheck => AppInv'
  BY DEF TxCheck, rxvars, txpool
<1>7. AppInv /\ TxBreak => AppInv'
  BY DEF TxBreak, rxvars, txpool
<1> QED
  BY <1>1, <1>2, <1>3, <1>4, <1>5, <1>6, <1>7 DEF TxTask

\* A block that is received finds the queue full only while all the others are
\* in it: it is the first to be lost, and the last.
LEMMA AppRxIntInv == AppInv /\ AppRxInt => AppInv'
<1> SUFFICES ASSUME AppInv, AppRxInt PROVE AppInv'
  OBVIOUS
<1> USE AppAssumption DEF AppInv, AppTypeOK, WaitsForNone, BlocksConserved, RxBlocks, TxBlocks, Capacity
<1>1. UNCHANGED <<txtask, txpool, semEP2TX, gUserAbort>>
  BY DEF AppRxInt
<1>2. CASE rxFree > 0 /\ rxFree' = rxFree - 1 /\ Sends
  <2>1. CASE rx = "waits" /\ rx' = "release" /\ UNCHANGED rxQueue
    BY <1>1, <1>2, <2>1 DEF txtask, txpool
  <2>2. CASE rx # "waits" /\ rxQueue < Capacity /\ rxQueue' = rxQueue + 1 /\ UNCHANGED rx
    BY <1>1, <1>2, <2>2 DEF txtask, txpool
  <2>3. CASE rx # "waits" /\ rxQueue = Capacity /\ UNCHANGED <<rx, rxQueue>>
    <3>1. RxBlocks = Blocks /\ rxFree = 1 /\ rx # "release"
      BY <1>2, <2>3
    <3> QED
      BY <1>1, <1>2, <2>3, <3>1 DEF txtask, txpool
  <2> QED
    BY <1>2, <2>1, <2>2, <2>3 DEF Sends
<1>3. CASE UNCHANGED <<rx, rxFree, rxQueue, rxHw>>
  BY <1>1, <1>3 DEF txtask, txpool
<1> QED
  BY <1>2, <1>3 DEF AppRxInt

\* A block that is sent goes back, or on to the transmitter.
LEMMA AppTxIntInv == AppInv /\ AppTxInt => AppInv'
<1> SUFFICES ASSUME AppInv, AppTxInt PROVE AppInv'
  OBVIOUS
<1> USE AppAssumption DEF AppInv, AppTypeOK, WaitsForNone, BlocksConserved, RxBlocks, TxBlocks, Capacity
<1>1. UNCHANGED <<rxvars, chkbreak_cnt, semEP2TX, gUserAbort>>
  BY DEF AppTxInt
<1>2. CASE tx = "waitsSend" /\ tx' = "sent" /\ txFree' = txFree + 1 /\ UNCHANGED txQueue
  BY <1>1, <1>2 DEF rxvars
<1>3. CASE tx = "waitsBlock" /\ tx' = "send" /\ UNCHANGED txFree /\ txQueue > 0 /\ txQueue' = txQueue - 1
  BY <1>1, <1>3 DEF rxvars
<1>4. CASE /\ tx \notin {"waitsSend", "waitsBlock"} /\ UNCHANGED tx
           /\ txFree' = txFree + 1 /\ txQueue > 0 /\ txQueue' = txQueue - 1
  BY <1>1, <1>4 DEF rxvars
<1> QED
  BY <1>2, <1>3, <1>4 DEF AppTxInt

\* The requests and the packets of the host move no block.
LEMMA AppHostInv ==
  AppInv /\ (SendDemoData \/ UserAbort \/ Configure \/ AppHostOut \/ AppHostIn) => AppInv'
<1> USE DEF AppInv, AppTypeOK, WaitsForNone, BlocksConserved, RxBlocks, TxBlocks
<1>1. AppInv /\ SendDemoData => AppInv'
  BY DEF SendDemoData, rxvars, txpool
<1>2. AppInv /\ UserAbort => AppInv'
  BY DEF UserAbort, rxvars, txpool, txtask
<1>3. AppInv /\ Configure => AppInv'
  BY DEF Configure, txtask
<1>4. AppInv /\ AppHostOut => AppInv'
  BY DEF AppHostOut, txtask, txpool
<1>5. AppInv /\ AppHostIn => AppInv'
  BY DEF AppHostIn, rxvars, txtask
<1> QED
  BY <1>1, <1>2, <1>3, <1>4, <1>5

\* The inductive invariant holds of the application.
THEOREM AppInvariant == AppSpec => []AppInv
<1>1. AppInv /\ [AppNext]_avars => AppInv'
  <2>1. AppInv /\ UNCHANGED avars => AppInv'
    BY DEF AppInv, AppTypeOK, WaitsForNone, BlocksConserved, RxBlocks, TxBlocks, avars, rxvars, txtask,
           txpool
  <2> QED
    BY <2>1, RxTaskInv, TxTaskInv, AppRxIntInv, AppTxIntInv, AppHostInv DEF AppNext, AppInt
<1> QED
  BY <1>1, AppInitInv, PTL DEF AppSpec

\* The example application keeps its blocks, but for the one received that its
\* queue has no entry for, whatever the host sends and however the interrupts
\* fall between the steps of the tasks.
THEOREM AppKeepsBlocks == AppSpec => []BlocksConserved
<1>1. AppInv => BlocksConserved
  BY DEF AppInv
<1> QED
  BY <1>1, AppInvariant, PTL
=============================================================================
