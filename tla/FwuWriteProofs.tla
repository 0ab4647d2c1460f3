--------------------------- MODULE FwuWriteProofs ---------------------------
(***************************************************************************)
(* Proofs about writing a firmware, for all images, block, flash, queue    *)
(* and buffer pool sizes.                                                  *)
(*                                                                         *)
(* With the dialog, its threads and the user the upgrader does nothing it  *)
(* would not do for the host of FwuDevice, which sends anything.  About    *)
(* the first session more is true than of that host: the dialog announces  *)
(* one image, and no message of another session is under way.  The later   *)
(* ones are as good as the first while nothing disturbs them.              *)
(***************************************************************************)
EXTENDS FwuWrite, FwuDeviceProofs

\* The types of the host's part of the state.
DialogOK == /\ hpc \in {"idle", "open", "switching", "pipes", "put", "waitask", "sleep",
                        "waitres", "close", "stoptx", "join"}
            /\ himg \in Images
            /\ result \in {"none", "ok", "wrerr", "timeout", "abort"}
            /\ exch \in {m.cmd : m \in Messages} \cup {"none"}
FlagsOK == /\ bound \in BOOLEAN /\ txEvent \in BOOLEAN /\ rxEvent \in BOOLEAN
           /\ abortEvent \in BOOLEAN /\ termFlag \in BOOLEAN
StreamOK == /\ left \in 0 .. BlocksOf(himg)
            /\ txt \in {"off", "top", "fill", "pend", "drain", "exit"}
            /\ bufs \in Seq(Packets) /\ Len(bufs) <= NumBufs * Block
CountsOK == sessions \in 0 .. MaxSessions /\ aborts \in 0 .. MaxAborts /\ kills \in 0 .. MaxKills

WInv == DInv /\ DialogOK /\ FlagsOK /\ StreamOK /\ CountsOK
-----------------------------------------------------------------------------
(* Types.                                                                  *)

\* The length of an image in rows and in packets, and the header that says it.
LEMMA ImageRows ==
  \A i \in Images : /\ FwLength[i] \in Nat \ {0} /\ ImageLen[i] \in Nat \ {0}
                    /\ ImageLen[i] = (FwLength[i] + 1) \div 2
                    /\ Header(i).len = FwLength[i] /\ Header(i).crc = CrcOf(i)
                    /\ FwLength[i] > 1 => CrcOf(i) = i
                    /\ FwLength[i] <= 1 => FwLength[i] = 1 /\ CrcOf(i) = Zero
<1> SUFFICES ASSUME NEW i \in Images
             PROVE  /\ FwLength[i] \in Nat \ {0} /\ ImageLen[i] \in Nat \ {0}
                    /\ ImageLen[i] = (FwLength[i] + 1) \div 2
                    /\ Header(i).len = FwLength[i] /\ Header(i).crc = CrcOf(i)
                    /\ FwLength[i] > 1 => CrcOf(i) = i
                    /\ FwLength[i] <= 1 => FwLength[i] = 1 /\ CrcOf(i) = Zero
    OBVIOUS
<1>1. FwLength[i] \in Nat \ {0} /\ ImageLen[i] \in Nat \ {0}
  BY DeviceAssumption, ImageFacts
<1>2. ImageLen[i] = (FwLength[i] + 1) \div 2
  BY DEF ImageLen, PacketsOf
<1>3. Header(i).len = FwLength[i] /\ Header(i).crc = CrcOf(i)
  BY DEF Header
<1>4. /\ FwLength[i] > 1 => CrcOf(i) = i
      /\ FwLength[i] <= 1 => FwLength[i] = 1 /\ CrcOf(i) = Zero
  BY <1>1 DEF CrcOf
<1> QED
  BY <1>1, <1>2, <1>3, <1>4

\* The buffer pool holds whole blocks.
LEMMA PoolFits ==
  /\ Block \in Nat \ {0} /\ NumBufs * Block \in Nat
  /\ \A n \in Nat : n <= (NumBufs - 1) * Block => n + Block <= NumBufs * Block
<1>1. Block \in Nat \ {0} /\ NumBufs \in Nat \ {0}
  BY DeviceAssumption, WriteAssumption
<1>2. NumBufs * Block \in Nat /\ (NumBufs - 1) * Block + Block = NumBufs * Block
  BY <1>1
<1> QED
  BY <1>1, <1>2

\* The blocks of an image, counted, hold the image.
LEMMA BlocksType ==
  \A i \in Images : BlocksOf(i) \in Nat /\ ImageLen[i] \in Nat \ {0}
<1> SUFFICES ASSUME NEW i \in Images PROVE BlocksOf(i) \in Nat /\ ImageLen[i] \in Nat \ {0}
    OBVIOUS
<1>1. Block \in Nat \ {0} /\ ImageLen[i] \in Nat \ {0}
  BY DeviceAssumption, ImageFacts
<1> QED
  BY <1>1 DEF BlocksOf

\* Blocks of an image and of padding are made of packets.
LEMMA BlockType ==
  /\ Dummy \in Seq(Packets) /\ Len(Dummy) = Block
  /\ \A i \in Images, n \in Int : n >= 1 => BlockOf(i, n) \in Seq(Packets) /\ Len(BlockOf(i, n)) = Block
<1>1. Block \in Nat \ {0}
  BY DeviceAssumption
<1>2. Dummy \in Seq(Packets) /\ Len(Dummy) = Block
  BY <1>1, PacketFacts DEF Dummy
<1>3. ASSUME NEW i \in Images, NEW n \in Int, n >= 1
      PROVE  BlockOf(i, n) \in Seq(Packets) /\ Len(BlockOf(i, n)) = Block
  <2>1. ASSUME NEW j \in 1 .. Block
        PROVE  (LET k == (n - 1) * Block + j
                IN IF k <= ImageLen[i] THEN <<i, k>> ELSE Garbage) \in Packets
    <3>1. (n - 1) * Block \in Nat
      BY <1>1, <1>3
    <3>2. (n - 1) * Block + j \in Nat \ {0} /\ ImageLen[i] \in Nat
      BY <3>1, ImageFacts
    <3> QED
      BY <3>2, PacketFacts
  <2> QED
    BY <1>1, <2>1 DEF BlockOf
<1> QED
  BY <1>2, <1>3

\* The thread fills a block only when the pool has one.
LEMMA FillType ==
  ASSUME WInv, TxFill
  PROVE  StreamOK'
<1>1. /\ bufs \in Seq(Packets) /\ left \in 0 .. BlocksOf(himg) /\ Len(bufs) <= (NumBufs - 1) * Block
      /\ txt' = txt /\ himg \in Images /\ himg' = himg
      /\ txt \in {"off", "top", "fill", "pend", "drain", "exit"}
  BY DEF TxFill, FreeBuf, WInv, StreamOK, DialogOK
<1>2. /\ Block \in Nat /\ BlocksOf(himg) \in Nat /\ Len(bufs) \in Nat
      /\ Len(bufs) + Block <= NumBufs * Block
      /\ BlocksOf(himg)' = BlocksOf(himg)
  BY <1>1, PoolFits, BlocksType DEF BlocksOf
<1>3. CASE left > 0 /\ bufs' = bufs \o BlockOf(himg, BlocksOf(himg) - left + 1) /\ left' = left - 1
  <2> DEFINE b == BlockOf(himg, BlocksOf(himg) - left + 1)
  <2>1. BlocksOf(himg) - left + 1 >= 1 /\ BlocksOf(himg) - left + 1 \in Int
    BY <1>1, <1>2
  <2>2. b \in Seq(Packets) /\ Len(b) = Block /\ bufs' = bufs \o b
    BY <1>1, <1>3, <2>1, BlockType
  <2> HIDE DEF b
  <2>3. bufs' \in Seq(Packets) /\ Len(bufs') = Len(bufs) + Block
    BY <1>1, <2>2, ConcatProperties
  <2>4. left' \in 0 .. BlocksOf(himg)
    BY <1>1, <1>2, <1>3
  <2> QED
    BY <1>1, <1>2, <2>3, <2>4 DEF StreamOK
<1>4. CASE left = 0 /\ bufs' = bufs \o Dummy /\ UNCHANGED left
  <2>1. bufs' \in Seq(Packets) /\ Len(bufs') = Len(bufs) + Block
    BY <1>1, <1>4, BlockType, ConcatProperties
  <2> QED
    BY <1>1, <1>2, <1>4, <2>1 DEF StreamOK
<1> QED
  BY <1>3, <1>4 DEF TxFill
-----------------------------------------------------------------------------
\* What the host does to the device, a host that sends anything may do.
LEMMA WriteIsDevice == WInv /\ [WriteNext]_wvars => [Next]_dvars
<1> SUFFICES ASSUME WInv, [WriteNext]_wvars PROVE [Next]_dvars
    OBVIOUS
<1>1. ASSUME NEW i \in Images, Start(i) PROVE UNCHANGED dvars
  BY <1>1 DEF Start
<1>2. CASE OpensUpgrader \/ Arrival
  BY <1>2 DEF OpensUpgrader, Arrival, Next, UsbNext
<1>3. CASE OpensFirmware
  BY <1>3 DEF OpensFirmware, Next
<1>4. CASE SendInfo
  BY <1>4, InfoAssumption DEF SendInfo, Next, UsbNext, WInv, DialogOK
<1>5. CASE OpensNothing \/ SwitchTimeout \/ StartPipes \/ ReceivesAsk \/ EnableStream
             \/ ReceivesResult \/ WaitAborted \/ WaitTimeout
  BY <1>5 DEF OpensNothing, SwitchTimeout, StartPipes, ReceivesAsk, EnableStream, ReceivesResult,
              WaitAborted, WaitTimeout
<1>6. CASE StopRx \/ StopTx \/ JoinTx \/ StopButton \/ Kill
  BY <1>6 DEF StopRx, StopTx, JoinTx, StopButton, Kill
<1>7. CASE TxTop \/ TxFill \/ TxWaits \/ TxReap \/ TxExit \/ TxErrors
  BY <1>7 DEF TxTop, TxFill, TxWaits, TxReap, TxExit, TxErrors
<1>8. CASE TxWire
  <2>1. Head(bufs) \in Packets /\ OutPacket(Head(bufs))
    BY <1>8 DEF TxWire, WInv, StreamOK
  <2> QED
    BY <2>1 DEF Next, UsbNext
<1>9. CASE RxCollect
  BY <1>9 DEF RxCollect, Next, UsbNext
<1>10. CASE DeviceNext
  BY <1>10 DEF DeviceNext, QuietTimeout, Next, MainNext
<1>11. CASE UNCHANGED wvars
  BY <1>11 DEF wvars
<1> QED
  BY <1>1, <1>2, <1>3, <1>4, <1>5, <1>6, <1>7, <1>8, <1>9, <1>10, <1>11
     DEF WriteNext, HostNext, ThreadNext

\* The messages the host may find in its inbox.
LEMMA InboxType ==
  ASSUME WInv, RxCollect
  PROVE  exch' \in {m.cmd : m \in Messages} \cup {"none"}
<1>1. Head(txq) \in Messages /\ exch' = Head(txq).cmd
  BY DEF RxCollect, InPacket, WInv, DInv, TypeOK
<1> QED
  BY <1>1

\* The dialog's part ...
LEMMA DialogTypes == WInv /\ [WriteNext]_wvars => DialogOK'
<1> SUFFICES ASSUME WInv, [WriteNext]_wvars PROVE DialogOK'
    OBVIOUS
<1> USE DEF DialogOK, stream, inbox, counts
<1>0. DialogOK
  BY DEF WInv
<1>1. ASSUME NEW i \in Images, Start(i) PROVE DialogOK'
  BY <1>0, <1>1 DEF Start
<1>2. CASE OpensUpgrader \/ OpensFirmware \/ OpensNothing \/ Arrival
  BY <1>0, <1>2 DEF OpensUpgrader, OpensFirmware, OpensNothing, Arrival
<1>3. CASE SwitchTimeout \/ StartPipes \/ SendInfo \/ ReceivesAsk \/ EnableStream
  BY <1>0, <1>3 DEF SwitchTimeout, StartPipes, SendInfo, ReceivesAsk, EnableStream
<1>4. CASE ReceivesResult \/ WaitAborted \/ WaitTimeout
  BY <1>0, <1>4 DEF ReceivesResult, WaitAborted, WaitTimeout
<1>5. CASE StopRx \/ StopTx \/ JoinTx \/ StopButton \/ Kill
  BY <1>0, <1>5 DEF StopRx, StopTx, JoinTx, StopButton, Kill
<1>6. CASE TxTop \/ TxFill \/ TxWaits \/ TxReap \/ TxExit \/ TxErrors \/ TxWire
  BY <1>0, <1>6 DEF TxTop, TxFill, TxWaits, TxReap, TxExit, TxErrors, TxWire
<1>7. CASE RxCollect
  BY <1>0, <1>7, InboxType DEF RxCollect
<1>8. CASE DeviceNext
  BY <1>0, <1>8 DEF DeviceNext, HostSees
<1>9. CASE UNCHANGED wvars
  BY <1>0, <1>9 DEF wvars, hvars
<1> QED
  BY <1>1, <1>2, <1>3, <1>4, <1>5, <1>6, <1>7, <1>8, <1>9 DEF WriteNext, HostNext, ThreadNext

\* The dialog's events and flags are set and cleared.
LEMMA FlagTypes == WInv /\ [WriteNext]_wvars => FlagsOK'
<1> SUFFICES ASSUME WInv, [WriteNext]_wvars PROVE FlagsOK'
    OBVIOUS
<1> USE DEF FlagsOK, stream, inbox, counts
<1>0. FlagsOK
  BY DEF WInv
<1>1. ASSUME NEW i \in Images, Start(i) PROVE FlagsOK'
  BY <1>0, <1>1 DEF Start
<1>2. CASE OpensUpgrader \/ OpensFirmware \/ OpensNothing \/ Arrival
  BY <1>0, <1>2 DEF OpensUpgrader, OpensFirmware, OpensNothing, Arrival, Attached
<1>3. CASE SwitchTimeout \/ StartPipes \/ SendInfo \/ ReceivesAsk \/ EnableStream
  BY <1>0, <1>3 DEF SwitchTimeout, StartPipes, SendInfo, ReceivesAsk, EnableStream
<1>4. CASE ReceivesResult \/ WaitAborted \/ WaitTimeout
  BY <1>0, <1>4 DEF ReceivesResult, WaitAborted, WaitTimeout
<1>5. CASE StopRx \/ StopTx \/ JoinTx \/ StopButton \/ Kill
  BY <1>0, <1>5 DEF StopRx, StopTx, JoinTx, StopButton, Kill
<1>6. CASE TxTop \/ TxFill \/ TxWaits \/ TxReap \/ TxExit \/ TxErrors \/ TxWire
  BY <1>0, <1>6 DEF TxTop, TxFill, TxWaits, TxReap, TxExit, TxErrors, TxWire
<1>7. CASE RxCollect
  BY <1>0, <1>7 DEF RxCollect
<1>8. CASE DeviceNext
  BY <1>0, <1>8 DEF DeviceNext, HostSees, Attached
<1>9. CASE UNCHANGED wvars
  BY <1>0, <1>9 DEF wvars, hvars
<1> QED
  BY <1>1, <1>2, <1>3, <1>4, <1>5, <1>6, <1>7, <1>8, <1>9 DEF WriteNext, HostNext, ThreadNext

\* ... the counters, each behind its bound ...
LEMMA CountTypes == WInv /\ [WriteNext]_wvars => CountsOK'
<1> SUFFICES ASSUME WInv, [WriteNext]_wvars PROVE CountsOK'
    OBVIOUS
<1> USE WriteAssumption DEF CountsOK, stream, inbox, counts
<1>0. CountsOK
  BY DEF WInv
<1>1. ASSUME NEW i \in Images, Start(i) PROVE CountsOK'
  BY <1>0, <1>1 DEF Start
<1>2. CASE OpensUpgrader \/ OpensFirmware \/ OpensNothing \/ Arrival
  BY <1>0, <1>2 DEF OpensUpgrader, OpensFirmware, OpensNothing, Arrival
<1>3. CASE SwitchTimeout \/ StartPipes \/ SendInfo \/ ReceivesAsk \/ EnableStream
  BY <1>0, <1>3 DEF SwitchTimeout, StartPipes, SendInfo, ReceivesAsk, EnableStream
<1>4. CASE ReceivesResult \/ WaitAborted \/ WaitTimeout
  BY <1>0, <1>4 DEF ReceivesResult, WaitAborted, WaitTimeout
<1>5. CASE StopRx \/ StopTx \/ JoinTx \/ StopButton \/ Kill
  BY <1>0, <1>5 DEF StopRx, StopTx, JoinTx, StopButton, Kill
<1>6. CASE TxTop \/ TxFill \/ TxWaits \/ TxReap \/ TxExit \/ TxErrors \/ TxWire
  BY <1>0, <1>6 DEF TxTop, TxFill, TxWaits, TxReap, TxExit, TxErrors, TxWire
<1>7. CASE RxCollect
  BY <1>0, <1>7 DEF RxCollect
<1>8. CASE DeviceNext
  BY <1>0, <1>8 DEF DeviceNext, HostSees
<1>9. CASE UNCHANGED wvars
  BY <1>0, <1>9 DEF wvars, hvars
<1> QED
  BY <1>1, <1>2, <1>3, <1>4, <1>5, <1>6, <1>7, <1>8, <1>9 DEF WriteNext, HostNext, ThreadNext

\* ... and the stream: blocks only leave the driver, except in TxFill.
LEMMA StreamTypes == WInv /\ [WriteNext]_wvars => StreamOK'
<1> SUFFICES ASSUME WInv, [WriteNext]_wvars PROVE StreamOK'
    OBVIOUS
<1> USE DEF StreamOK, stream, inbox, counts, BlocksOf
<1>0. StreamOK /\ himg \in Images
  BY DEF WInv, DialogOK
<1>1. <<>> \in Seq(Packets) /\ Len(<<>>) = 0 /\ 0 <= NumBufs * Block
  BY PoolFits
<1>2. ASSUME NEW i \in Images, Start(i) PROVE StreamOK'
  <2>1. BlocksOf(i) \in Nat
    BY BlocksType
  <2>2. left' = BlocksOf(i) /\ himg' = i /\ UNCHANGED <<txt, bufs>>
    BY <1>2 DEF Start
  <2>3. left' \in 0 .. BlocksOf(himg')
    BY <2>1, <2>2
  <2> QED
    BY <1>0, <2>2, <2>3
<1>3. CASE Kill
  <2>1. /\ left' = 0 /\ himg' = himg /\ txt' = "off" /\ bufs' = <<>>
    BY <1>3 DEF Kill
  <2>2. left' \in 0 .. BlocksOf(himg')
    BY <1>0, <2>1, BlocksType
  <2> QED
    BY <1>1, <2>1, <2>2
<1>4. CASE TxFill
  BY <1>4, FillType
<1>5. CASE TxWire
  <2>1. /\ bufs' = Tail(bufs) /\ bufs # <<>> /\ UNCHANGED <<left, txt, himg>>
    BY <1>5 DEF TxWire
  <2>2. bufs' \in Seq(Packets) /\ Len(bufs') <= NumBufs * Block
    BY <1>0, <2>1, HeadTailProperties, PoolFits
  <2> QED
    BY <1>0, <2>1, <2>2
<1>6. CASE /\ UNCHANGED <<left, himg>>
           /\ txt' \in {"off", "top", "fill", "pend", "drain", "exit"}
           /\ bufs' = bufs \/ bufs' = <<>>
  BY <1>0, <1>1, <1>6
<1>7. CASE OpensUpgrader \/ OpensFirmware \/ OpensNothing \/ Arrival
  BY <1>0, <1>6, <1>7 DEF OpensUpgrader, OpensFirmware, OpensNothing, Arrival
<1>8. CASE SwitchTimeout \/ StartPipes \/ SendInfo \/ ReceivesAsk \/ EnableStream
  BY <1>0, <1>6, <1>8 DEF SwitchTimeout, StartPipes, SendInfo, ReceivesAsk, EnableStream
<1>9. CASE ReceivesResult \/ WaitAborted \/ WaitTimeout \/ RxCollect
  BY <1>0, <1>6, <1>9 DEF ReceivesResult, WaitAborted, WaitTimeout, RxCollect
<1>10. CASE StopRx \/ StopTx \/ JoinTx \/ StopButton
  BY <1>0, <1>6, <1>10 DEF StopRx, StopTx, JoinTx, StopButton
<1>11. CASE TxTop \/ TxWaits \/ TxReap \/ TxExit \/ TxErrors
  BY <1>0, <1>6, <1>11 DEF TxTop, TxWaits, TxReap, TxExit, TxErrors
<1>12. CASE DeviceNext
  BY <1>0, <1>6, <1>12 DEF DeviceNext, HostSees
<1>13. CASE UNCHANGED wvars
  BY <1>0, <1>6, <1>13 DEF wvars, hvars
<1> QED
  BY <1>2, <1>3, <1>4, <1>5, <1>7, <1>8, <1>9, <1>10, <1>11, <1>12, <1>13
     DEF WriteNext, HostNext, ThreadNext

\* At the start nothing is under way.
LEMMA WriteStart == WriteInit => WInv
<1> SUFFICES ASSUME WriteInit PROVE WInv
    OBVIOUS
<1>1. DInv
  BY DevInit DEF WriteInit
<1>2. DialogOK /\ FlagsOK
  BY DEF WriteInit, DialogOK, FlagsOK
<1>3. <<>> \in Seq(Packets) /\ Len(<<>>) = 0 /\ 0 <= NumBufs * Block
  BY PoolFits
<1>4. StreamOK
  BY <1>3, BlocksType DEF WriteInit, StreamOK
<1>5. CountsOK
  BY WriteAssumption DEF WriteInit, CountsOK
<1> QED
  BY <1>1, <1>2, <1>4, <1>5 DEF WInv

\* Each step, the device's and the host's, keeps the types.
LEMMA WriteStep == WInv /\ [WriteNext]_wvars => WInv'
<1> SUFFICES ASSUME WInv, [WriteNext]_wvars PROVE WInv'
    OBVIOUS
<1>1. DInv'
  BY WriteIsDevice, DevStep DEF WInv
<1> QED
  BY <1>1, DialogTypes, FlagTypes, CountTypes, StreamTypes DEF WInv

\* In no session, aborted, killed or repeated, does a variable of the dialog, its
\* threads or the device leave its type or a queue its memory, and the driver
\* never holds more than the STREAM_NUM_OF_BUF buffers of the pool.
THEOREM WriteTypes == WriteSpec => []WriteTypeOK
<1>1. WInv => WriteTypeOK
  BY BlocksType DEF WInv, DInv, DialogOK, FlagsOK, StreamOK, CountsOK, WriteTypeOK
<1> QED
  BY <1>1, WriteStart, WriteStep, PTL DEF WriteSpec

\* The upgrader that the dialog talks to is that of FwuDevice: what is proved of
\* it for every host holds in every session of this one.
THEOREM WriteImplementsDevice == WriteSpec => Spec
<1>1. WriteInit => Init
  BY DEF WriteInit
<1> QED
  BY <1>1, WriteStart, WriteStep, WriteIsDevice, PTL DEF WriteSpec, Spec

-----------------------------------------------------------------------------
(* Which firmware runs.  The dialog announces the length of its image, so  *)
(* where images are longer than their headers no length within the header  *)
(* comes to the globals, to a block or to the flash.                       *)

AllCovered == \A i \in Images : Covered(i)

Honest == fw_length # 1 /\ rhdr.len # 1 /\ hdr.len # 1

\* A header programmed has the length of one of the two.
LEMMA ProgramLength ==
  \A old, new \in Headers : old.len # 1 /\ new.len # 1 => ProgramHdr(old, new).len # 1
  BY DEF ProgramHdr, Headers

\* The block's header goes to flash, or nothing does.
LEMMA HonestBlock ==
  ASSUME DInv, Honest, NEW n \in Int, ProgramBlock(n)
  PROVE  hdr'.len # 1
<1>1. hdr' = hdr \/ hdr' = ProgramHdr(hdr, rhdr)
  BY DEF ProgramBlock
<1> QED
  BY <1>1, ProgramLength DEF DInv, TypeOK, Honest

\* Steps of the device that are no request keep it.
LEMMA HonestDevice ==
  ASSUME DInv, Honest,
         \/ UNCHANGED dvars \/ MainNext \/ AppSwitchToFwu \/ PowerLoss
         \/ SetConfiguration \/ InPacket \/ \E p \in Packets : OutPacket(p)
  PROVE  Honest'
<1> USE DEF Honest
<1>1. BlankHdr.len # 1 /\ Block \in Int
  BY DeviceAssumption DEF BlankHdr
<1>2. CASE UNCHANGED dvars \/ SetConfiguration \/ InPacket \/ \E p \in Packets : OutPacket(p)
  BY <1>2 DEF dvars, SetConfiguration, InPacket, OutPacket, info, locals, rom
<1>3. CASE AppSwitchToFwu
  BY <1>1, <1>3 DEF AppSwitchToFwu, NoLocals, ClearRam, rom
<1>4. CASE PowerLoss
  <2>1. fw_length' = 0 /\ rhdr' = BlankHdr
    BY <1>4 DEF PowerLoss, NoLocals, ClearRam
  <2>2. hdr'.len # 1
    <3>1. CASE UNCHANGED rom
      BY <3>1 DEF rom
    <3>2. ASSUME NEW half \in SUBSET ErasedBy(len),
                 hdr' = IF 1 \in half THEN [hdr EXCEPT !.crc = Garbage] ELSE hdr
          PROVE  hdr'.len # 1
      BY <3>2 DEF DInv, TypeOK, Headers
    <3>3. ASSUME NEW n \in 1 .. Block, ProgramBlock(n) PROVE hdr'.len # 1
      BY <1>1, <3>3, HonestBlock
    <3> QED
      BY <1>4, <3>1, <3>2, <3>3 DEF PowerLoss
  <2> QED
    BY <1>1, <2>1, <2>2
<1>5. CASE Boot \/ RxSwitch \/ TxSwitch
  BY <1>1, <1>5 DEF Boot, RxSwitch, TxSwitch, DoSwitchToFirmware, NoLocals, info, locals, rom
<1>6. CASE LoopNext
  BY <1>1, <1>6 DEF LoopNext, LoopReadsState, LoopReadsLength, FlashEraseSectors, LoopAsks, LoopStartsRx,
                    LoopStartsTx, NoLocals, info, locals, rom
<1>7. CASE RxPatchLength
  BY <1>7 DEF RxPatchLength, DInv, TypeOK, Headers, info, rom
<1>8. CASE RxPatchCrc
  BY <1>8 DEF RxPatchCrc, DInv, TypeOK, Headers, info, rom
<1>9. CASE FlashWrite
  <2>1. hdr'.len # 1
    BY <1>1, <1>9, HonestBlock DEF FlashWrite, rom
  <2> QED
    BY <1>1, <1>9, <2>1 DEF FlashWrite, info
<1>10. CASE RxPacket \/ RxEndTest \/ RxCalcCrc \/ RxCompare \/ RxTimeout
  BY <1>1, <1>10 DEF RxPacket, RxEndTest, RxCalcCrc, RxCompare, RxTimeout, NoLocals, info, locals, rom
<1>11. CASE TxInit \/ TxPacket \/ TxTimeout \/ TxSwitchFailed
  BY <1>1, <1>11 DEF TxInit, TxPacket, TxTimeout, TxSwitchFailed, NoLocals, info, locals, rom
<1> QED
  BY <1>2, <1>3, <1>4, <1>5, <1>6, <1>7, <1>8, <1>9, <1>10, <1>11 DEF MainNext, RxNext, TxNext

\* The dialog's request gives the length of an image.
LEMMA HonestStep ==
  ASSUME WInv, Honest, AllCovered, [WriteNext]_wvars
  PROVE  Honest'
<1> USE DEF WInv
<1>1. CASE SendInfo
  <2>1. CASE UNCHANGED dvars
    BY <2>1, HonestDevice
  <2>2. CASE PutFwInfo(Header(himg))
    <3>1. Header(himg).len # 1
      BY ImageRows DEF DialogOK, AllCovered, Covered
    <3> QED
      BY <2>2, <3>1 DEF PutFwInfo, Honest, locals, rom
  <2> QED
    BY <1>1, <2>1, <2>2 DEF SendInfo
<1>2. CASE OpensUpgrader \/ Arrival \/ OpensFirmware
  BY <1>2, HonestDevice DEF OpensUpgrader, Arrival, OpensFirmware
<1>3. CASE TxWire \/ RxCollect
  <2>1. TxWire => Head(bufs) \in Packets /\ OutPacket(Head(bufs))
    BY DEF TxWire, StreamOK
  <2> QED
    BY <1>3, <2>1, HonestDevice DEF RxCollect
<1>4. CASE DeviceNext
  BY <1>4, HonestDevice DEF DeviceNext, QuietTimeout, MainNext
<1>5. CASE UNCHANGED dvars
  BY <1>5, HonestDevice
<1>6. ASSUME NEW i \in Images, Start(i) PROVE UNCHANGED dvars
  BY <1>6 DEF Start
<1>7. CASE OpensNothing \/ SwitchTimeout \/ StartPipes \/ ReceivesAsk \/ EnableStream \/ ReceivesResult
  BY <1>5, <1>7 DEF OpensNothing, SwitchTimeout, StartPipes, ReceivesAsk, EnableStream, ReceivesResult
<1>8. CASE WaitAborted \/ WaitTimeout \/ StopRx \/ StopTx \/ JoinTx \/ StopButton \/ Kill
  BY <1>5, <1>8 DEF WaitAborted, WaitTimeout, StopRx, StopTx, JoinTx, StopButton, Kill
<1>9. CASE TxTop \/ TxFill \/ TxWaits \/ TxReap \/ TxExit \/ TxErrors
  BY <1>5, <1>9 DEF TxTop, TxFill, TxWaits, TxReap, TxExit, TxErrors
<1> QED
  BY <1>1, <1>2, <1>3, <1>4, <1>5, <1>6, <1>7, <1>8, <1>9 DEF WriteNext, HostNext, ThreadNext, wvars

\* A device comes blank or with an image.
LEMMA HonestStart == WriteInit /\ AllCovered => Honest
<1> SUFFICES ASSUME WriteInit, AllCovered PROVE Honest
    OBVIOUS
<1>1. BlankHdr.len # 1
  BY DEF BlankHdr
<1>2. ASSUME NEW i \in Images PROVE Header(i).len # 1
  <2>1. FwLength[i] > 1 /\ FwLength[i] \in Nat /\ Header(i).len = FwLength[i]
    BY ImageRows DEF AllCovered, Covered
  <2> QED
    BY <2>1
<1> QED
  BY <1>1, <1>2 DEF WriteInit, Init, Honest

\* Only an intact firmware runs that a dialog has announced, in every session,
\* whatever the dialog, its user, a killed host or a power loss did.
THEOREM WriteRunsImage == WriteSpec => []RunningIsImage
<1>2. WriteInit => (AllCovered => Honest)
  BY HonestStart
<1>3. WInv /\ (AllCovered => Honest) /\ [WriteNext]_wvars => (AllCovered => Honest)'
  <2>1. AllCovered' = AllCovered
    BY DEF AllCovered, Covered
  <2> QED
    BY <2>1, HonestStep
<1>4. RunningIsIntact /\ (AllCovered => Honest) => RunningIsImage
  <2> SUFFICES ASSUME RunningIsIntact, AllCovered, Honest, dpc = "firmware"
               PROVE  \E i \in Images : Written(i)
      BY DEF RunningIsImage, AllCovered
  <2>1. hdr # [len |-> 1, crc |-> Zero]
    BY DEF Honest
  <2> QED
    BY <2>1 DEF RunningIsIntact, Written
<1>5. WriteSpec => []RunningIsIntact
  BY WriteImplementsDevice, DeviceRunsIntact, PTL
<1> QED
  BY <1>2, <1>3, <1>4, <1>5, WriteStart, WriteStep, PTL DEF WriteSpec
-----------------------------------------------------------------------------
(* The first session.  The flash: what the erase of the one request leaves *)
(* blank is written block by block, the header with the first of them.     *)

\* The first byte behind the last sector erased, and the block under way.
Rounded == BlocksOf(himg) * Block
Base == nrx - Len(rbuf)

ErasedFrom(n) == \A k \in 1 .. FlashSize : n < k /\ k <= Rounded => flash[k] = FF

ImgHeader == Header(himg)

\* The header is there, or the write of the first block failed as a whole.
HeaderIfAny == hdr = ImgHeader \/ (hdr = BlankHdr /\ flash[1] = FF)
HeaderAt(n) == IF n = 0 THEN hdr = BlankHdr ELSE HeaderIfAny

Requesting == {"put", "erase", "ask", "asked"}
Receiving == {"rx", "patchlen", "patchcrc", "write"}
Checking == {"check", "compare"}

\* No request but the dialog's, and no other image.
OneRequest ==
  /\ gState \in {"DEFAULT", "PUT_FW_INFO"}
  /\ dpc \in {"reset", "firmware", "loop", "switch", "end"} \cup Requesting \cup Receiving \cup Checking
  /\ gState = "PUT_FW_INFO" => dpc \in {"loop"} \cup Requesting
  /\ dpc \in Requesting => gState = "PUT_FW_INFO"
  /\ gState = "PUT_FW_INFO" \/ dpc \in {"end"} \cup Receiving \cup Checking
       => fw_length = FwLength[himg] /\ fw_crc = CrcOf(himg)
  /\ dpc \in {"erase", "compare"} => len = FwLength[himg]

\* Blocks are written in order, each where the erase has been, and the first
\* takes the header of the image.
Fresh ==
  /\ dpc \in {"ask", "asked"} => hdr = BlankHdr /\ ErasedFrom(0)
  /\ dpc \in {"end"} \cup Receiving =>
        Base \in Nat /\ Base % Block = 0 /\ ErasedFrom(Base) /\ HeaderAt(Base)
  /\ dpc \in Receiving => Base < ImageLen[himg]
  /\ dpc = "end" => nrx > 0
  /\ dpc \in Checking => HeaderIfAny
  /\ dpc = "patchcrc" => rhdr.len = ImgHeader.len
  /\ dpc = "write" /\ nrx = Block => rhdr = ImgHeader

Fits == ImageLen[himg] <= FlashSize
OneWrite == OneRequest /\ (Fits => Fresh)
-----------------------------------------------------------------------------
(* Whole blocks.                                                           *)

\* What leaves no rest is a multiple.
LEMMA Multiple ==
  ASSUME NEW n \in Int, NEW B \in Int, B > 0, n % B = 0
  PROVE  \E q \in Int : n = B * q
<1>1. n = B * (n \div B) + (n % B)
  BY Z3
<1>2. n \div B \in Int
  OBVIOUS
<1>3. n = B * (n \div B)
  BY <1>1, <1>2
<1> QED
  BY <1>2, <1>3

\* Of two block boundaries the second is a block further ...
LEMMA NextBlock ==
  ASSUME NEW B \in Nat, B > 0, NEW m \in Nat, NEW n \in Nat, m % B = 0, n % B = 0, m < n
  PROVE  m + B <= n
<1>1. PICK p \in Int : m = B * p
  BY Multiple
<1>2. PICK q \in Int : n = B * q
  BY Multiple
<1>3. p + 1 <= q
  BY <1>1, <1>2
<1>4. B * (p + 1) <= B * q
  BY <1>3
<1>5. B * (p + 1) = B * p + B
  OBVIOUS
<1> QED
  BY <1>1, <1>2, <1>4, <1>5

\* ... and a block behind a boundary there is the next.
LEMMA BlockEnd ==
  ASSUME NEW B \in Nat, B > 0, NEW m \in Nat, m % B = 0
  PROVE  (m + B) % B = 0
<1>1. PICK p \in Int : m = B * p
  BY Multiple
<1>2. m + B = (p + 1) * B
  BY <1>1
<1>3. ((p + 1) * B) % B = 0
  OBVIOUS
<1> QED
  BY <1>2, <1>3

\* The blocks of an image end at a boundary, behind its last packet.
LEMMA BlocksCover ==
  \A i \in Images : /\ BlocksOf(i) * Block \in Nat
                    /\ (BlocksOf(i) * Block) % Block = 0
                    /\ ImageLen[i] <= BlocksOf(i) * Block
<1> SUFFICES ASSUME NEW i \in Images
             PROVE  /\ BlocksOf(i) * Block \in Nat
                    /\ (BlocksOf(i) * Block) % Block = 0
                    /\ ImageLen[i] <= BlocksOf(i) * Block
    OBVIOUS
<1> DEFINE x == ImageLen[i] + Block - 1
<1>1. Block \in Nat /\ Block > 0 /\ ImageLen[i] \in Nat
  BY DeviceAssumption, ImageFacts
<1>2. x \in Int /\ x \div Block \in Int /\ x % Block \in 0 .. Block - 1
  BY <1>1
<1> HIDE DEF x
<1>3. x = Block * (x \div Block) + (x % Block)
  BY <1>1, <1>2, Z3
<1>4. ((x \div Block) * Block) % Block = 0
  BY <1>1, <1>2
<1>5. ImageLen[i] <= (x \div Block) * Block
  BY <1>1, <1>2, <1>3, SMTT(60) DEF x
<1>6. (x \div Block) * Block \in Nat
  BY <1>1, <1>2, <1>5
<1> QED
  BY <1>4, <1>5, <1>6 DEF x, BlocksOf

\* A block that begins inside the image ends inside what was erased.
LEMMA BlockInErased ==
  ASSUME WInv, NEW n \in Nat, n % Block = 0, n < ImageLen[himg]
  PROVE  n + Block <= Rounded /\ (n + Block) % Block = 0
<1>1. /\ Block \in Nat /\ Block > 0 /\ himg \in Images /\ ImageLen[himg] \in Nat
      /\ Rounded \in Nat /\ Rounded % Block = 0 /\ ImageLen[himg] <= Rounded
  BY DeviceAssumption, ImageRows, BlocksCover DEF WInv, DialogOK, Rounded
<1>2. n < Rounded
  BY <1>1
<1> QED
  BY <1>1, <1>2, NextBlock, BlockEnd
-----------------------------------------------------------------------------
(* The device's steps keep it.                                             *)

\* The request goes from the interrupt through the erase to its answer.
LEMMA RequestStep ==
  ASSUME WInv, OneWrite, UNCHANGED himg, Boot \/ LoopNext
  PROVE  OneWrite'
<1> USE DEF Requesting, Receiving, Checking
<1>1. CASE Boot
  BY <1>1 DEF Boot, DoSwitchToFirmware, StartFirmware, OneWrite, OneRequest, Fresh, Fits
<1>2. CASE LoopReadsState
  BY <1>2 DEF LoopReadsState, OneWrite, OneRequest, Fresh, Fits, info, locals
<1>3. CASE LoopReadsLength
  BY <1>3 DEF LoopReadsLength, OneWrite, OneRequest, Fresh, Fits, info
<1>4. CASE FlashEraseSectors
  <2>1. dpc = "erase" /\ dpc' = "ask" /\ len = FwLength[himg] /\ UNCHANGED <<gState, info, himg>>
    BY <1>4 DEF FlashEraseSectors, OneWrite, OneRequest
  <2>2. OneRequest'
    BY <2>1 DEF OneWrite, OneRequest, info
  <2>3. ASSUME Fits
        PROVE  ErasedBy(len) = 1 .. Rounded /\ ErasedBy(len) # {}
    <3>1. /\ himg \in Images /\ ImageLen[himg] \in 1 .. FlashSize /\ ImageLen[himg] \in Nat
      BY <2>3, DeviceAssumption, BlocksType DEF WInv, DialogOK, Fits
    <3>2. ImageLen[himg] <= Rounded /\ Rounded \in Nat
      BY <3>1, BlocksCover DEF Rounded
    <3>3. ErasedBy(len) = 1 .. Rounded
      <4>1. FwLength[himg] \in 1 .. Rows(FlashSize) /\ PacketsOf(FwLength[himg]) = ImageLen[himg]
        BY <3>1, ImageRows, DeviceAssumption DEF Rows, PacketsOf
      <4> QED
        BY <2>1, <4>1 DEF ErasedBy, Rounded, BlocksOf
    <3> QED
      BY <3>1, <3>2, <3>3
  <2>4. Fits => hdr' = BlankHdr /\ ErasedFrom(0)'
    BY <1>4, <2>3 DEF FlashEraseSectors, ErasedFrom, Rounded, BlocksOf
  <2> QED
    BY <2>1, <2>2, <2>4 DEF OneWrite, Fresh, Fits
<1>5. CASE LoopAsks
  BY <1>5 DEF LoopAsks, OneWrite, OneRequest, Fresh, Fits, info, locals, rom, ErasedFrom, Rounded, BlocksOf
<1>6. CASE LoopStartsRx
  <2>1. /\ dpc = "asked" /\ dpc' = "rx" /\ gState' = "DEFAULT" /\ gState = "PUT_FW_INFO"
        /\ nrx' = 0 /\ rbuf' = <<>> /\ UNCHANGED <<info, rom, himg>>
    BY <1>6 DEF LoopStartsRx, NoLocals, OneWrite, OneRequest
  <2>2. OneRequest'
    BY <2>1 DEF OneWrite, OneRequest, info
  <2>3. Base' = 0 /\ 0 % Block = 0 /\ 0 < ImageLen[himg]
    <3>1. Block \in Nat \ {0} /\ himg \in Images
      BY DeviceAssumption DEF WInv, DialogOK
    <3>2. Base' = 0
      <4>1. Len(rbuf') = 0 /\ nrx' = 0
        BY <2>1
      <4> QED
        BY <4>1 DEF Base
    <3> QED
      BY <3>1, <3>2, BlocksType
  <2>4. Fits => Fresh'
    <3>1. 0 \in Nat
      OBVIOUS
    <3> QED
      BY <2>1, <2>3, <3>1 DEF OneWrite, Fresh, HeaderAt, ErasedFrom, Rounded, BlocksOf, rom
  <2> QED
    BY <2>1, <2>2, <2>4 DEF OneWrite, Fits
<1>7. CASE LoopStartsTx
  BY <1>7 DEF LoopStartsTx, OneWrite, OneRequest
<1> QED
  BY <1>1, <1>2, <1>3, <1>4, <1>5, <1>6, <1>7 DEF LoopNext

\* stream_rx keeps it, packet by packet and block by block.
LEMMA StreamStep ==
  ASSUME WInv, OneWrite, UNCHANGED himg, RxNext \/ RxTimeout
  PROVE  OneWrite'
<1> USE DEF Requesting, Receiving, Checking
<1>0. /\ nrx \in Nat /\ rbuf \in Seq(Packets) /\ rxq \in Seq(Packets) /\ himg \in Images
      /\ Block \in Nat /\ Block > 0 /\ ImageLen[himg] \in Nat /\ ImageLen[himg] > 0
      /\ FwLength[himg] \in Nat
      /\ dpc \in {"patchlen", "patchcrc", "write"} => Len(rbuf) = Block
      /\ dpc \in {"end"} \cup Checking => rbuf = <<>>
  BY DeviceAssumption, BlocksType, ImageRows DEF WInv, DInv, TypeOK, Shape, BlockShape, DialogOK
<1>1. CASE RxPacket
  <2>1. /\ dpc = "rx" /\ rxq # <<>> /\ nrx' = nrx + 1 /\ rbuf' = Append(rbuf, Head(rxq))
        /\ dpc' \in {"rx", "patchlen", "write"} /\ (dpc' = "write" => nrx' # Block)
        /\ UNCHANGED <<gState, info, len, rhdr, rom, himg>>
    BY <1>1 DEF RxPacket
  <2>2. OneRequest'
    BY <2>1 DEF OneWrite, OneRequest, info
  <2>3. Base' = Base
    <3>1. Len(rbuf') = Len(rbuf) + 1
      BY <1>0, <2>1, HeadTailProperties, AppendProperties
    <3> QED
      BY <1>0, <2>1, <3>1 DEF Base
  <2>4. Fits => Fresh'
    BY <2>1, <2>3 DEF OneWrite, Fresh, HeaderAt, HeaderIfAny, ImgHeader, ErasedFrom, Rounded, BlocksOf, rom
  <2> QED
    BY <2>1, <2>2, <2>4 DEF OneWrite, Fits
<1>2. CASE RxPatchLength
  <2>1. /\ dpc = "patchlen" /\ dpc' = "patchcrc" /\ rhdr' = [rhdr EXCEPT !.len = fw_length]
        /\ UNCHANGED <<gState, info, len, nrx, rbuf, rom, himg>> /\ rhdr \in Headers
    BY <1>2 DEF RxPatchLength, WInv, DInv, TypeOK
  <2>2. OneRequest' /\ fw_length = FwLength[himg]
    BY <2>1 DEF OneWrite, OneRequest, info
  <2>3. rhdr'.len = ImgHeader.len /\ Base' = Base
    BY <2>1, <2>2 DEF Headers, Base, ImgHeader, Header
  <2>4. Fits => Fresh'
    BY <2>1, <2>3 DEF OneWrite, Fresh, HeaderAt, HeaderIfAny, ImgHeader, ErasedFrom, Rounded, BlocksOf, rom
  <2> QED
    BY <2>1, <2>2, <2>4 DEF OneWrite, Fits
<1>3. CASE RxPatchCrc
  <2>1. /\ dpc = "patchcrc" /\ dpc' = "write" /\ rhdr' = [rhdr EXCEPT !.crc = fw_crc]
        /\ UNCHANGED <<gState, info, len, nrx, rbuf, rom, himg>> /\ rhdr \in Headers
    BY <1>3 DEF RxPatchCrc, WInv, DInv, TypeOK
  <2>2. OneRequest' /\ fw_crc = CrcOf(himg)
    BY <2>1 DEF OneWrite, OneRequest, info
  <2>3. rhdr.len = ImgHeader.len => rhdr' = ImgHeader
    BY <2>1, <2>2 DEF Headers, ImgHeader, Header
  <2>4. Base' = Base /\ ImgHeader' = ImgHeader
    BY <2>1 DEF Base, ImgHeader
  <2>5. Fits => Fresh'
    BY <2>1, <2>3, <2>4 DEF OneWrite, Fresh, HeaderAt, HeaderIfAny, ErasedFrom, Rounded, BlocksOf, rom
  <2> QED
    BY <2>1, <2>2, <2>5 DEF OneWrite, Fits
<1>4. CASE FlashWrite
  <2>1. /\ dpc = "write" /\ dpc' = "end" /\ rbuf' = <<>>
        /\ UNCHANGED <<gState, info, len, nrx, himg>> /\ (ProgramBlock(Block) \/ UNCHANGED rom)
    BY <1>4 DEF FlashWrite
  <2>2. OneRequest'
    BY <2>1 DEF OneWrite, OneRequest, info
  <2>3. ASSUME Fits PROVE Fresh'
    <3>1. /\ Fresh /\ Base = nrx - Block /\ Base \in Nat /\ Base < ImageLen[himg] /\ Base % Block = 0
          /\ ErasedFrom(Base) /\ HeaderAt(Base)
      BY <1>0, <2>1, <2>3 DEF OneWrite, Fresh, Base
    <3>2. nrx <= Rounded /\ nrx % Block = 0 /\ nrx = Base + Block
      <4>1. Base + Block <= Rounded /\ (Base + Block) % Block = 0
        BY <3>1, BlockInErased
      <4>2. nrx = Base + Block
        BY <1>0, <3>1
      <4> QED
        BY <4>1, <4>2
    <3>3. Base' = nrx /\ nrx' = nrx /\ nrx > 0
      BY <1>0, <2>1, <3>1 DEF Base
    <3>4. /\ Rounded' = Rounded /\ ImgHeader' = ImgHeader /\ FlashSize \in Nat /\ FlashSize >= 1
          /\ Rounded \in Nat
      <4>1. Rounded' = Rounded /\ ImgHeader' = ImgHeader
        BY <2>1 DEF Rounded, BlocksOf, ImgHeader
      <4> QED
        BY <1>0, <4>1, BlocksCover, DeviceAssumption DEF Rounded
    <3>5. \A k \in 1 .. FlashSize : k <= Base \/ nrx < k => flash'[k] = flash[k]
      <4>1. flash \in [1 .. FlashSize -> Packets]
        BY DEF WInv, DInv, TypeOK
      <4>2. CASE ProgramBlock(Block)
        BY <1>0, <3>1, <4>2 DEF ProgramBlock
      <4>3. CASE UNCHANGED rom
        BY <4>3 DEF rom
      <4> QED
        BY <2>1, <4>2, <4>3
    <3>6. ErasedFrom(nrx)'
      <4> SUFFICES ASSUME NEW k \in 1 .. FlashSize, nrx < k, k <= Rounded
                   PROVE  flash'[k] = FF
        BY <3>3, <3>4 DEF ErasedFrom
      <4>1. flash'[k] = flash[k] /\ Base < k
        BY <1>0, <3>1, <3>2, <3>5
      <4> QED
        BY <3>1, <4>1 DEF ErasedFrom
    <3>7. HeaderIfAny'
      <4>1. CASE Base = 0
        <5>1. hdr = BlankHdr /\ rhdr = ImgHeader /\ flash[1] = FF
          BY <1>0, <2>1, <3>1, <3>2, <3>4, <4>1 DEF HeaderAt, Fresh, ErasedFrom
        <5>2. CASE ProgramBlock(Block)
          <6>1. hdr' = ProgramHdr(hdr, rhdr)
            BY <1>0, <3>1, <4>1, <5>2 DEF ProgramBlock
          <6>2. hdr' = ImgHeader
            BY <5>1, <6>1 DEF ProgramHdr
          <6> QED
            BY <3>4, <6>2 DEF HeaderIfAny
        <5>3. CASE UNCHANGED rom
          BY <3>4, <5>1, <5>3 DEF rom, HeaderIfAny
        <5> QED
          BY <2>1, <5>2, <5>3
      <4>2. CASE Base # 0
        <5>1. HeaderIfAny /\ hdr' = hdr
          BY <1>0, <2>1, <3>1, <4>2 DEF HeaderAt, ProgramBlock, rom
        <5>2. flash'[1] = flash[1]
          BY <1>0, <3>1, <3>4, <3>5, <4>2
        <5> QED
          BY <3>4, <5>1, <5>2 DEF HeaderIfAny
      <4> QED
        BY <4>1, <4>2
    <3> QED
      BY <2>1, <3>2, <3>3, <3>6, <3>7 DEF Fresh, HeaderAt
  <2> QED
    BY <2>1, <2>2, <2>3 DEF OneWrite, Fits
<1>5. CASE RxEndTest
  <2>1. /\ dpc = "end" /\ dpc' = (IF Rows(nrx) >= fw_length THEN "check" ELSE "rx") /\ rbuf = <<>>
        /\ UNCHANGED <<gState, info, len, nrx, rbuf, rhdr, rom, himg>>
    BY <1>0, <1>5 DEF RxEndTest, locals
  <2>2. OneRequest' /\ fw_length = FwLength[himg]
    BY <2>1 DEF OneWrite, OneRequest, info
  <2>3. Base' = Base /\ Base = nrx
    BY <1>0, <2>1 DEF Base
  <2>4. Fits => Fresh'
    <3>1. dpc' = "rx" => nrx < ImageLen[himg]
      BY <1>0, <2>1, <2>2, ImageRows DEF Rows
    <3> QED
      BY <1>0, <2>1, <2>3, <3>1 DEF OneWrite, Fresh, HeaderAt, HeaderIfAny, ImgHeader, ErasedFrom, Rounded, BlocksOf, rom
  <2> QED
    BY <2>1, <2>2, <2>4 DEF OneWrite, Fits
<1>6. CASE RxCalcCrc
  BY <1>6 DEF RxCalcCrc, OneWrite, OneRequest, Fresh, Fits, HeaderIfAny, ImgHeader, info, rom
<1>7. CASE RxCompare
  BY <1>7 DEF RxCompare, OneWrite, OneRequest, Fresh, Fits
<1>8. CASE RxSwitch
  BY <1>8 DEF RxSwitch, DoSwitchToFirmware, StartFirmware, OneWrite, OneRequest, Fresh, Fits
<1>9. CASE RxTimeout
  BY <1>9 DEF RxTimeout, OneWrite, OneRequest, Fresh, Fits
<1> QED
  BY <1>1, <1>2, <1>3, <1>4, <1>5, <1>6, <1>7, <1>8, <1>9 DEF RxNext
-----------------------------------------------------------------------------
(* The messages.  One request has one answer to it and one result, in this *)
(* order, and no other message comes between.                              *)

Ask == "PUT_FW_INFO_ASK"

InQueue(c) == \E n \in 1 .. Len(txq) : txq[n].cmd = c

\* Until the dialog has sent its request nothing is under way.
Before == sessions = 0 \/ hpc \in {"open", "switching", "pipes", "put"}
Quiet == /\ gState = "DEFAULT" /\ dpc \in {"reset", "firmware", "loop"}
         /\ rxq = <<>> /\ txq = <<>> /\ bufs = <<>>
         /\ exch = "none" /\ ~rxEvent /\ ~txEvent /\ result = "none"

AskDue == gState = "PUT_FW_INFO" /\ dpc # "asked"

\* The stream has not begun.
NoStream == /\ ~txEvent /\ bufs = <<>> /\ rxq = <<>>
            /\ dpc \notin {"patchlen", "patchcrc", "write", "end", "switch"} \cup Checking

Answers ==
  /\ ~InQueue("data") /\ exch # "data"
  /\ rxEvent => exch # "none"
  /\ AskDue => txq = <<>> /\ exch = "none"
  /\ hpc = "waitask" => /\ NoStream
                        /\ txq = <<>> \/ (txq = <<Msg(Ask)>> /\ exch = "none")
                        /\ exch \in {"none", Ask}
  /\ hpc = "sleep" => NoStream /\ txq = <<>> /\ exch = Ask /\ ~rxEvent
  /\ hpc = "waitres" => exch # "none" /\ ~InQueue(Ask) /\ (rxEvent => exch # Ask)

\* "FW_WR_RDY": on its way, arrived, or shown to the user.
Rdy == result = "ok" \/ exch = "FW_WR_RDY" \/ dpc = "switch" \/ InQueue("FW_WR_RDY")

Finished == (Covered(himg) => Written(himg)) /\ gState = "DEFAULT" /\ dpc \in {"switch", "loop", "firmware", "reset"}

FirstSession == /\ sessions = 0 => hpc = "idle"
                /\ Before => Quiet
                /\ OneWrite
                /\ Answers
                /\ Rdy => Finished

FirstInv == sessions <= 1 => FirstSession
-----------------------------------------------------------------------------
\* A message taken was in the queue; one queued is there or was dropped.
LEMMA TakeCmd ==
  ASSUME WInv, txq # <<>>, txq' = Tail(txq)
  PROVE  /\ InQueue(Head(txq).cmd)
         /\ \A c : InQueue(c)' => InQueue(c)
<1>1. txq \in Seq(Messages) /\ Len(txq) \in Nat /\ Len(txq) > 0
  BY DEF WInv, DInv, TypeOK
<1>2. Len(txq') = Len(txq) - 1 /\ \A n \in 1 .. Len(txq) - 1 : txq'[n] = txq[n + 1]
  BY <1>1, HeadTailProperties
<1>3. Head(txq) = txq[1] /\ 1 \in 1 .. Len(txq)
  BY <1>1, HeadTailProperties
<1>4. ASSUME NEW c, NEW n \in 1 .. Len(txq'), txq'[n].cmd = c PROVE InQueue(c)
  <2>1. n + 1 \in 1 .. Len(txq) /\ txq[n + 1].cmd = c
    BY <1>1, <1>2, <1>4
  <2> QED
    BY <2>1 DEF InQueue
<1> QED
  BY <1>3, <1>4 DEF InQueue

\* send_to_host puts one message behind the others, or drops it.
LEMMA SendCmd ==
  ASSUME WInv, NEW c, SendToHost(c)
  PROVE  \A d : InQueue(d)' => InQueue(d) \/ d = c
<1> SUFFICES ASSUME NEW d, NEW n \in 1 .. Len(txq'), txq'[n].cmd = d PROVE InQueue(d) \/ d = c
    BY DEF InQueue
<1>1. txq \in Seq(Messages) /\ Len(txq) \in Nat
  BY DEF WInv, DInv, TypeOK
<1>2. CASE txq' = txq
  BY <1>2 DEF InQueue
<1>3. CASE txq' = Append(txq, Msg(c))
  <2>1. n \in 1 .. Len(txq) + 1 /\ txq'[n] = IF n = Len(txq) + 1 THEN Msg(c) ELSE txq[n]
    BY <1>1, <1>3
  <2>2. CASE n = Len(txq) + 1
    BY <2>1, <2>2 DEF Msg
  <2>3. CASE n # Len(txq) + 1
    <3>1. n \in 1 .. Len(txq) /\ txq[n].cmd = d
      BY <1>1, <2>1, <2>3
    <3> QED
      BY <3>1 DEF InQueue
  <2> QED
    BY <2>2, <2>3
<1> QED
  BY <1>2, <1>3 DEF SendToHost

\* The commands there are.
LEMMA CmdsAre == {m.cmd : m \in Messages} \subseteq {"data", "PUT_FW_INFO_ASK", "FW_WR_RDY", "FW_WR_ERR"}
  BY DEF Messages, Msg, Data

\* The empty queue has no message.
LEMMA NoCmd == txq = <<>> => \A c : ~InQueue(c)
  BY DEF InQueue

\* Where nothing is under way nothing is written, answered or done.
LEMMA QuietIs == Quiet => OneWrite /\ ~Rdy /\ ~InQueue("data") /\ ~AskDue
<1> SUFFICES ASSUME Quiet PROVE OneWrite /\ ~Rdy /\ ~InQueue("data") /\ ~AskDue
    OBVIOUS
<1>1. \A c : ~InQueue(c)
  BY NoCmd DEF Quiet
<1>2. OneWrite
  BY DEF Quiet, OneWrite, OneRequest, Fresh, Requesting, Receiving, Checking
<1> QED
  BY <1>1, <1>2 DEF Quiet, Rdy, AskDue

\* A quiet device has promised, queued and written nothing.
LEMMA QuietNext == Quiet' => OneWrite' /\ ~Rdy' /\ ~InQueue("data")' /\ ~AskDue'
  BY QuietIs, PTL

\* SET_CONFIGURATION loses nothing where nothing is queued.
LEMMA QuietConfiguration ==
  ASSUME rxq = <<>>, txq = <<>>, SetConfiguration
  PROVE  UNCHANGED dvars
<1>1. PICK n \in 0 .. Len(rxq) : rxq' = SubSeq(rxq, 1, Len(rxq) - n)
  BY DEF SetConfiguration
<1>2. Len(rxq) = 0
  OBVIOUS
<1>3. n = 0
  BY <1>2
<1>4. rxq' = <<>>
  BY <1>1, <1>2, <1>3
<1> QED
  BY <1>4 DEF SetConfiguration, dvars, queues

\* Opening the device, and its coming back as the upgrader.
LEMMA OpenStep ==
  ASSUME WInv, FirstSession, OpensUpgrader \/ OpensFirmware \/ OpensNothing \/ Arrival
  PROVE  FirstSession'
<1>1. Quiet /\ hpc \in {"open", "switching"}
  BY DEF FirstSession, Before, OpensUpgrader, OpensFirmware, OpensNothing, Arrival
<1>2. Quiet'
  <2>1. CASE UNCHANGED dvars
    BY <1>1, <2>1 DEF OpensUpgrader, OpensFirmware, OpensNothing, Arrival, Quiet, dvars, queues, stream, inbox
  <2>2. CASE OpensFirmware
    BY <1>1, <2>2 DEF OpensFirmware, AppSwitchToFwu, ClearRam, Quiet, stream, inbox
  <2> QED
    BY <1>1, <2>1, <2>2, QuietConfiguration DEF OpensUpgrader, OpensNothing, Arrival, Quiet
<1>3. hpc' \in {"pipes", "switching"} /\ sessions' = sessions /\ (sessions = 0 => hpc = "idle")
  BY DEF OpensUpgrader, OpensFirmware, OpensNothing, Arrival, counts, FirstSession
<1>4. OneWrite' /\ ~Rdy' /\ ~InQueue("data")' /\ ~AskDue'
  BY <1>2, QuietNext
<1>5. Answers'
  BY <1>2, <1>3, <1>4 DEF Answers, Quiet
<1> QED
  BY <1>1, <1>2, <1>3, <1>4, <1>5 DEF FirstSession

\* The first session begins, and sends its request.
LEMMA BeginStep ==
  ASSUME WInv, FirstSession, sessions' <= 1,
         (\E i \in Images : Start(i)) \/ StartPipes \/ SendInfo
  PROVE  FirstSession'
<1>0. sessions \in Nat
  BY WriteAssumption DEF WInv, CountsOK
<1>1. ASSUME NEW i \in Images, Start(i) PROVE FirstSession'
  <2>1. sessions = 0 /\ sessions' = 1 /\ hpc' = "open"
    BY <1>0, <1>1 DEF Start
  <2>2. Quiet'
    BY <1>1, <2>1 DEF FirstSession, Before, Start, Quiet, dvars, queues, inbox
  <2>3. Answers'
    BY <2>1, <2>2, QuietNext DEF Answers, Quiet
  <2> QED
    BY <2>1, <2>2, <2>3, QuietNext DEF FirstSession
<1>2. CASE StartPipes
  <2>1. hpc = "pipes" /\ hpc' = "put" /\ sessions' = sessions /\ sessions # 0
    BY <1>2 DEF StartPipes, counts, FirstSession
  <2>2. Quiet'
    BY <1>2, <2>1 DEF FirstSession, Before, StartPipes, Quiet, dvars, queues, inbox
  <2>3. Answers'
    BY <2>1, <2>2, QuietNext DEF Answers, Quiet
  <2> QED
    BY <2>1, <2>2, <2>3, QuietNext DEF FirstSession
<1>3. CASE SendInfo
  <2>1. hpc = "put" /\ hpc' = "waitask" /\ sessions' = sessions /\ sessions # 0 /\ Quiet
    BY <1>3 DEF SendInfo, counts, FirstSession, Before
  <2>2. CASE UNCHANGED dvars
    <3>1. Quiet'
      BY <1>3, <2>1, <2>2 DEF SendInfo, Quiet, dvars, queues, stream, inbox
    <3>2. Answers'
      BY <2>1, <3>1, QuietNext DEF Answers, Quiet, NoStream, Checking
    <3> QED
      BY <2>1, <3>1, <3>2, QuietNext DEF FirstSession, Before
  <2>3. CASE PutFwInfo(Header(himg))
    <3>1. /\ dpc = "loop" /\ dpc' = "loop" /\ gState' = "PUT_FW_INFO"
          /\ fw_length' = FwLength[himg] /\ fw_crc' = CrcOf(himg)
          /\ rxq' = <<>> /\ txq' = <<>> /\ bufs' = <<>> /\ exch' = "none"
          /\ ~rxEvent' /\ ~txEvent' /\ result' = "none" /\ himg' = himg
      BY <1>3, <2>1, <2>3 DEF SendInfo, PutFwInfo, Header, Attached, Quiet, queues, stream, inbox
    <3>2. \A c : ~InQueue(c)'
      BY <3>1 DEF InQueue
    <3>3. OneWrite'
      BY <3>1 DEF OneWrite, OneRequest, Fresh, Requesting, Receiving, Checking
    <3>4. Answers'
      BY <2>1, <3>1, <3>2 DEF Answers, NoStream, Checking
    <3>5. ~Rdy'
      BY <3>1, <3>2 DEF Rdy
    <3> QED
      BY <2>1, <3>3, <3>4, <3>5 DEF FirstSession, Before
  <2> QED
    BY <1>3, <2>2, <2>3 DEF SendInfo
<1> QED
  BY <1>1, <1>2, <1>3

\* What keeps the device keeps the write and its result.
LEMMA DeviceRests ==
  ASSUME UNCHANGED <<dvars, himg>>
  PROVE  /\ OneWrite' = OneWrite /\ Finished' = Finished
         /\ \A c : InQueue(c)' = InQueue(c)
<1>1. \A c : InQueue(c)' = InQueue(c)
  BY DEF dvars, queues, InQueue
<1>2. Finished' = Finished
  BY DEF Finished, Written, Holds, dvars, rom
<1>3. OneWrite' = OneWrite
  BY DEF OneWrite, OneRequest, Fresh, Fits, Base, HeaderAt, HeaderIfAny, ImgHeader, ErasedFrom, Rounded,
         BlocksOf, dvars, info, locals, rom
<1> QED
  BY <1>1, <1>2, <1>3

\* The dialog waits, gives up, stops its pipes or is killed.
LEMMA DialogStepKeeps ==
  ASSUME WInv, FirstSession,
         \/ SwitchTimeout \/ ReceivesAsk \/ EnableStream \/ ReceivesResult
         \/ WaitAborted \/ WaitTimeout \/ StopRx \/ StopTx \/ JoinTx \/ StopButton \/ Kill
  PROVE  FirstSession'
<1>1. UNCHANGED <<dvars, himg>> /\ sessions' = sessions
  BY DEF SwitchTimeout, ReceivesAsk, EnableStream, ReceivesResult, WaitAborted, WaitTimeout,
         StopRx, StopTx, JoinTx, StopButton, Kill, counts
<1>2. /\ sessions # 0 /\ hpc # "idle"
      /\ hpc' \in {"idle", "waitask", "sleep", "waitres", "close", "stoptx", "join"}
  BY DEF SwitchTimeout, ReceivesAsk, EnableStream, ReceivesResult, WaitAborted, WaitTimeout,
         StopRx, StopTx, JoinTx, StopButton, Kill, FirstSession
<1>3. /\ OneWrite' /\ Finished' = Finished /\ (\A c : InQueue(c)' = InQueue(c))
      /\ AskDue' = AskDue /\ dpc' = dpc /\ txq' = txq /\ rxq' = rxq
  BY <1>1, DeviceRests DEF FirstSession, AskDue, dvars, queues
<1>4. FirstSession => Answers /\ (Rdy => Finished)
  BY DEF FirstSession
<1>5. exch \in {"none", "data", Ask, "FW_WR_RDY", "FW_WR_ERR"}
  BY CmdsAre DEF WInv, DialogOK, Ask
<1>6. Answers' /\ (Rdy' => Rdy)
  <2> USE DEF inbox, stream
  <2>1. CASE SwitchTimeout \/ WaitAborted \/ WaitTimeout
    BY <1>3, <1>4, <2>1 DEF SwitchTimeout, WaitAborted, WaitTimeout, Answers, Rdy
  <2>2. CASE StopRx \/ StopTx \/ JoinTx
    BY <1>3, <1>4, <2>2 DEF StopRx, StopTx, JoinTx, Answers, Rdy
  <2>3. CASE StopButton
    BY <1>3, <1>4, <2>3 DEF StopButton, Answers, NoStream, Rdy
  <2>4. CASE Kill
    BY <1>3, <1>4, <2>4 DEF Kill, Answers, Rdy
  <2>5. CASE ReceivesAsk
    <3>1. /\ hpc = "waitask" /\ exch # "none" /\ rxEvent /\ NoStream /\ txq = <<>> /\ exch = Ask
      BY <1>4, <2>5 DEF ReceivesAsk, Answers
    <3>2. /\ hpc' = "sleep" /\ result' = result /\ ~rxEvent' /\ exch' = exch
          /\ txEvent' = txEvent /\ bufs' = bufs
      BY <2>5, <3>1 DEF ReceivesAsk, Ask
    <3>3. NoStream'
      BY <1>3, <3>1, <3>2 DEF NoStream
    <3> QED
      BY <1>3, <1>4, <3>1, <3>2, <3>3 DEF Answers, Rdy
  <2>6. CASE EnableStream
    <3>1. hpc = "sleep" /\ hpc' = "waitres" /\ UNCHANGED <<result, rxEvent, exch>>
      BY <2>6 DEF EnableStream
    <3>2. exch = Ask /\ ~rxEvent /\ txq = <<>>
      BY <1>4, <3>1 DEF Answers
    <3> QED
      BY <1>3, <1>4, <3>1, <3>2, NoCmd DEF Answers, Rdy, Ask
  <2>7. CASE ReceivesResult
    <3>1. exch # "none" /\ exch # Ask /\ exch # "data" /\ exch' = exch /\ hpc' = "close" /\ ~rxEvent'
      BY <1>4, <2>7 DEF ReceivesResult, Answers
    <3>2. result' = "ok" => exch = "FW_WR_RDY"
      BY <1>5, <2>7, <3>1 DEF ReceivesResult
    <3> QED
      BY <1>3, <1>4, <3>1, <3>2 DEF Answers, Rdy
  <2> QED
    BY <2>1, <2>2, <2>3, <2>4, <2>5, <2>6, <2>7
<1> QED
  BY <1>1, <1>2, <1>3, <1>4, <1>6 DEF FirstSession, Before

\* The threads, while they have nothing on the wire.
LEMMA ThreadStepKeeps ==
  ASSUME WInv, FirstSession, TxTop \/ TxFill \/ TxWaits \/ TxReap \/ TxExit \/ TxErrors
  PROVE  FirstSession'
<1>1. /\ UNCHANGED <<dvars, himg>>
      /\ UNCHANGED <<hpc, result, sessions, txEvent, rxEvent, exch>>
      /\ (txEvent \/ bufs' = bufs \/ bufs' = <<>>)
  BY DEF TxTop, TxFill, TxWaits, TxReap, TxExit, TxErrors, counts, inbox
<1>2. /\ OneWrite' /\ Finished' = Finished /\ (\A c : InQueue(c)' = InQueue(c))
      /\ AskDue' = AskDue /\ UNCHANGED <<dpc, gState, txq, rxq>>
  BY <1>1, DeviceRests DEF FirstSession, AskDue, dvars, queues
<1>3. Before' => Quiet'
  BY <1>1, <1>2 DEF FirstSession, Before, Quiet
<1>4. Answers'
  <2>1. NoStream => NoStream'
    BY <1>1, <1>2 DEF NoStream
  <2> QED
    BY <1>1, <1>2, <2>1 DEF FirstSession, Answers
<1> QED
  BY <1>1, <1>2, <1>3, <1>4 DEF FirstSession, Rdy

\* A packet of the stream arrives.
LEMMA WireStepKeeps ==
  ASSUME WInv, FirstSession, TxWire
  PROVE  FirstSession'
<1>1. /\ UNCHANGED <<dpc, gState, info, locals, txq, rom, himg>>
      /\ UNCHANGED <<hpc, result, sessions, txEvent, rxEvent, exch>>
      /\ bufs # <<>>
  BY DEF TxWire, OutPacket, counts, inbox
<1>2. OneWrite'
  BY <1>1 DEF FirstSession, OneWrite, OneRequest, Fresh, Fits, Base, HeaderAt, HeaderIfAny, ImgHeader,
              ErasedFrom, Rounded, BlocksOf, info, locals, rom
<1>3. \A c : InQueue(c)' = InQueue(c)
  BY <1>1 DEF InQueue
<1>4. ~Before /\ ~Before' /\ ~NoStream
  BY <1>1 DEF FirstSession, Before, Quiet, NoStream
<1>5. Answers' /\ (Rdy' => Rdy)
  BY <1>1, <1>3, <1>4 DEF FirstSession, Answers, AskDue, Rdy
<1>6. Finished => Finished'
  BY <1>1 DEF Finished, Written, Holds, rom
<1> QED
  BY <1>1, <1>2, <1>4, <1>5, <1>6 DEF FirstSession, Before

\* A message of the device is collected.
LEMMA CollectStepKeeps ==
  ASSUME WInv, FirstSession, RxCollect
  PROVE  FirstSession'
<1>1. /\ UNCHANGED <<dpc, gState, info, locals, rxq, rom, himg>>
      /\ UNCHANGED <<hpc, result, sessions, txEvent, bufs>>
      /\ rxEvent' /\ exch' = Head(txq).cmd /\ txq # <<>> /\ txq' = Tail(txq)
      /\ hpc \in {"put", "waitask", "sleep", "waitres", "close"}
  BY DEF RxCollect, InPacket, counts, stream
<1>2. OneWrite'
  BY <1>1 DEF FirstSession, OneWrite, OneRequest, Fresh, Fits, Base, HeaderAt, HeaderIfAny, ImgHeader,
              ErasedFrom, Rounded, BlocksOf, info, locals, rom
<1>3. InQueue(exch') /\ (\A c : InQueue(c)' => InQueue(c))
  BY <1>1, TakeCmd
<1>4. exch' # "none"
  <2>1. Head(txq) \in Messages
    BY <1>1 DEF WInv, DInv, TypeOK
  <2> QED
    BY <1>1, <2>1 DEF Messages, Msg, Data
<1>5. ~Before /\ ~Before' /\ ~AskDue /\ ~AskDue'
  BY <1>1 DEF FirstSession, Before, Quiet, Answers, AskDue
<1>6. hpc \in {"waitask", "waitres", "close"}
  BY <1>1, <1>5 DEF FirstSession, Before, Answers
<1>7. Answers'
  <2>1. ASSUME hpc = "waitask"
        PROVE  txq' = <<>> /\ exch' = Ask /\ NoStream'
    <3>1. txq = <<Msg(Ask)>> /\ NoStream
      BY <1>1, <2>1 DEF FirstSession, Answers
    <3>2. txq' = <<>> /\ exch' = Ask
      BY <1>1, <3>1 DEF Msg
    <3> QED
      BY <1>1, <3>1, <3>2 DEF NoStream
  <2>2. exch' # "data" /\ ~InQueue("data")'
    BY <1>3 DEF FirstSession, Answers
  <2>3. ASSUME hpc = "waitres"
        PROVE  ~InQueue(Ask)' /\ exch' # Ask
    BY <1>3, <2>3 DEF FirstSession, Answers
  <2> QED
    BY <1>1, <1>4, <1>5, <1>6, <2>1, <2>2, <2>3 DEF Answers
<1>8. Rdy' => Rdy
  BY <1>1, <1>3 DEF Rdy
<1>9. Finished => Finished'
  BY <1>1 DEF Finished, Written, Holds, rom
<1> QED
  BY <1>1, <1>2, <1>5, <1>7, <1>8, <1>9 DEF FirstSession, Before
-----------------------------------------------------------------------------
(* The device's steps, as the host sees them.                              *)

\* The CRC test of the one image: it passes only if image and header are there.
LEMMA CompareIsWritten ==
  ASSUME WInv, OneWrite, dpc = "compare", CrcIs(len, fw_crc), Covered(himg)
  PROVE  Written(himg)
<1>1. /\ len = FwLength[himg] /\ fw_crc = CrcOf(himg) /\ himg \in Images
      /\ FwLength[himg] > 1 /\ CrcOf(himg) = himg
  BY ImageRows DEF OneWrite, OneRequest, Checking, WInv, DialogOK, Covered
<1>2. Holds(himg)
  <2>1. ~(len <= 1)
    BY <1>1, ImageRows
  <2>2. Holds(fw_crc) /\ fw_crc = himg
    BY <1>1, <2>1 DEF CrcIs
  <2> QED
    BY <2>2 DEF Holds
<1>3. Fits /\ flash[1] = <<himg, 1>> /\ <<himg, 1>> \in ImagePackets
  BY <1>1, <1>2, ImageRows DEF Holds, Fits, ImagePackets
<1>4. HeaderIfAny /\ flash[1] # FF
  BY <1>3, PacketAssumption DEF OneWrite, Fresh, Checking
<1> QED
  BY <1>2, <1>4 DEF HeaderIfAny, ImgHeader, Written

\* Before the request the device boots, or loses its power, and no more.
LEMMA QuietDevice ==
  ASSUME Quiet, DeviceNext
  PROVE  Quiet'
<1>1. HostSees /\ (Boot \/ PowerLoss)
  BY DEF DeviceNext, QuietTimeout, LoopNext, RxNext, Quiet, LoopReadsState, LoopReadsLength,
         FlashEraseSectors, LoopAsks, LoopStartsRx, LoopStartsTx, RxPacket, RxPatchLength, RxPatchCrc,
         FlashWrite, RxEndTest, RxCalcCrc, RxCompare, RxSwitch, RxTimeout
<1>2. /\ gState' = "DEFAULT" /\ dpc' \in {"reset", "firmware", "loop"} /\ rxq' = <<>> /\ txq' = <<>>
  BY <1>1 DEF Quiet, Boot, DoSwitchToFirmware, StartFirmware, PowerLoss, ClearRam, queues
<1> QED
  BY <1>1, <1>2 DEF HostSees, Quiet, inbox

\* What is finished stays finished.
LEMMA FinishedStays ==
  ASSUME Finished, DeviceNext
  PROVE  Finished'
<1>1. UNCHANGED <<rom, himg>> /\ (Boot \/ RxSwitch \/ PowerLoss)
  BY DEF DeviceNext, HostSees, QuietTimeout, LoopNext, RxNext, Finished, LoopReadsState, LoopReadsLength,
         FlashEraseSectors, LoopAsks, LoopStartsRx, LoopStartsTx, RxPacket, RxPatchLength, RxPatchCrc,
         FlashWrite, RxEndTest, RxCalcCrc, RxCompare, RxSwitch, RxTimeout, Boot, PowerLoss
<1>2. (Covered(himg) => Written(himg))'
  BY <1>1 DEF Finished, Covered, Written, Holds, rom
<1>3. gState' = "DEFAULT" /\ dpc' \in {"loop", "firmware", "reset"}
  BY <1>1 DEF Finished, Boot, RxSwitch, DoSwitchToFirmware, StartFirmware, PowerLoss, ClearRam
<1> QED
  BY <1>2, <1>3 DEF Finished

\* A power loss ends the write.
LEMMA LossEnds == PowerLoss => OneWrite'
  BY DEF PowerLoss, ClearRam, OneWrite, OneRequest, Fresh, Requesting, Receiving, Checking

\* What a device step does to the messages.
LEMMA DeviceSends ==
  ASSUME WInv, FirstSession, DeviceNext
  PROVE  \/ UNCHANGED txq
         \/ txq' = <<>>
         \/ dpc = "ask" /\ dpc' = "asked" /\ SendToHost(Ask)
         \/ dpc = "compare" /\ SendToHost("FW_WR_RDY") /\ (Covered(himg) => Written(himg)) /\ dpc' = "switch"
         \/ dpc = "compare" /\ SendToHost("FW_WR_ERR")
<1>1. CASE Boot \/ PowerLoss \/ QuietTimeout
  BY <1>1 DEF Boot, DoSwitchToFirmware, StartFirmware, PowerLoss, ClearRam, QuietTimeout, RxTimeout, queues
<1>2. CASE LoopNext
  BY <1>2 DEF LoopNext, LoopReadsState, LoopReadsLength, FlashEraseSectors, LoopAsks, LoopStartsRx,
              LoopStartsTx, queues, Ask
<1>3. CASE RxCompare
  BY <1>3, CompareIsWritten DEF RxCompare, FirstSession
<1>4. CASE RxNext /\ ~RxCompare
  BY <1>4 DEF RxNext, RxPacket, RxPatchLength, RxPatchCrc, FlashWrite, RxEndTest, RxCalcCrc, RxSwitch,
              DoSwitchToFirmware, StartFirmware, queues
<1> QED
  BY <1>1, <1>2, <1>3, <1>4 DEF DeviceNext

\* The stream does not begin by itself.
LEMMA NoStreamStays ==
  ASSUME OneRequest, NoStream, DeviceNext
  PROVE  NoStream'
<1>1. ~txEvent' /\ bufs' = <<>>
  BY DEF NoStream, DeviceNext, HostSees
<1>2. CASE Boot \/ PowerLoss \/ QuietTimeout
  BY <1>1, <1>2 DEF Boot, DoSwitchToFirmware, StartFirmware, PowerLoss, ClearRam, QuietTimeout, RxTimeout,
                    NoStream, queues, Checking
<1>3. CASE LoopNext
  BY <1>1, <1>3 DEF LoopNext, LoopReadsState, LoopReadsLength, FlashEraseSectors, LoopAsks, LoopStartsRx,
                    LoopStartsTx, queues, NoStream, Checking
<1>4. ~RxNext
  BY DEF RxNext, RxPacket, RxPatchLength, RxPatchCrc, FlashWrite, RxEndTest, RxCalcCrc, RxCompare, RxSwitch,
         NoStream, Checking
<1> QED
  BY <1>2, <1>3, <1>4 DEF DeviceNext

\* The request is answered once.
LEMMA AskDueStays ==
  ASSUME OneRequest, OneRequest', AskDue', DeviceNext
  PROVE  AskDue /\ UNCHANGED txq
<1>1. CASE Boot \/ PowerLoss \/ QuietTimeout
  BY <1>1 DEF Boot, PowerLoss, ClearRam, QuietTimeout, RxTimeout, AskDue, OneRequest, Requesting
<1>2. CASE LoopNext
  BY <1>2 DEF LoopNext, LoopReadsState, LoopReadsLength, FlashEraseSectors, LoopAsks, LoopStartsRx,
              LoopStartsTx, queues, AskDue, OneRequest, Requesting
<1>3. CASE RxNext
  BY <1>3 DEF RxNext, RxPacket, RxPatchLength, RxPatchCrc, FlashWrite, RxEndTest, RxCalcCrc, RxCompare,
              RxSwitch, DoSwitchToFirmware, StartFirmware, AskDue, OneRequest, Requesting
<1> QED
  BY <1>1, <1>2, <1>3 DEF DeviceNext

\* FW_WR_RDY is sent only for what is written.
LEMMA SwitchIsReached ==
  ASSUME WInv, FirstSession, DeviceNext, dpc # "switch", dpc' = "switch"
  PROVE  Finished'
<1>1. RxCompare /\ HostSees
  BY DEF DeviceNext, QuietTimeout, LoopNext, RxNext, LoopReadsState, LoopReadsLength,
         FlashEraseSectors, LoopAsks, LoopStartsRx, LoopStartsTx, RxPacket, RxPatchLength, RxPatchCrc,
         FlashWrite, RxEndTest, RxCalcCrc, RxSwitch, RxTimeout, Boot, PowerLoss, DoSwitchToFirmware,
         StartFirmware
<1>2. dpc = "compare" /\ CrcIs(len, fw_crc) /\ UNCHANGED <<gState, rom, himg>>
  BY <1>1 DEF RxCompare, HostSees
<1>3. Covered(himg) => Written(himg)
  BY <1>2, CompareIsWritten DEF FirstSession
<1>4. gState = "DEFAULT"
  BY <1>2 DEF FirstSession, OneWrite, OneRequest, Requesting
<1> QED
  BY <1>2, <1>3, <1>4 DEF Finished, Covered, Written, Holds, rom

\* The device's steps keep the first session's invariant.
LEMMA DeviceStepKeeps ==
  ASSUME WInv, FirstSession, DeviceNext
  PROVE  FirstSession'
<1>1. UNCHANGED <<hpc, himg, result, sessions, txEvent, rxEvent, exch>>
  BY DEF DeviceNext, HostSees, inbox, counts
<1>2. OneWrite'
  BY <1>1, RequestStep, StreamStep, LossEnds DEF DeviceNext, QuietTimeout, FirstSession
<1>3. Before' => Quiet'
  BY <1>1, QuietDevice DEF FirstSession, Before
<1>4. Answers /\ OneRequest /\ OneRequest'
  BY <1>2 DEF FirstSession, OneWrite
<1>5. dpc = "ask" => AskDue
  BY <1>4 DEF OneRequest, Requesting, AskDue
<1>6. /\ InQueue("data")' => InQueue("data")
      /\ InQueue("FW_WR_RDY")' => InQueue("FW_WR_RDY") \/ (dpc = "compare" /\ dpc' = "switch")
      /\ InQueue(Ask)' => InQueue(Ask) \/ AskDue
  <2>1. CASE UNCHANGED txq \/ txq' = <<>>
    BY <2>1 DEF InQueue
  <2>2. CASE dpc = "ask" /\ SendToHost(Ask)
    BY <1>5, <2>2, SendCmd DEF Ask
  <2>3. CASE dpc = "compare" /\ SendToHost("FW_WR_RDY") /\ dpc' = "switch"
    BY <2>3, SendCmd DEF Ask
  <2>4. CASE SendToHost("FW_WR_ERR")
    BY <2>4, SendCmd DEF Ask
  <2> QED
    BY <2>1, <2>2, <2>3, <2>4, DeviceSends
<1>7. Rdy' => Finished'
  <2>1. Rdy' => Rdy \/ (dpc # "switch" /\ dpc' = "switch")
    BY <1>1, <1>6 DEF Rdy
  <2>2. Rdy => Finished'
    BY FinishedStays DEF FirstSession
  <2> QED
    BY <2>1, <2>2, SwitchIsReached
<1>8. Answers'
  <2>1. AskDue' => txq' = <<>> /\ exch' = "none"
    BY <1>1, <1>4, AskDueStays DEF Answers
  <2>2. NoStream => NoStream'
    BY <1>4, NoStreamStays
  <2>3. ASSUME hpc = "waitask"
        PROVE  txq' = <<>> \/ (txq' = <<Msg(Ask)>> /\ exch = "none")
    <3>1. /\ NoStream /\ dpc # "compare" /\ (txq = <<>> \/ (txq = <<Msg(Ask)>> /\ exch = "none"))
          /\ AskDue => txq = <<>> /\ exch = "none"
      BY <1>4, <2>3 DEF Answers, NoStream, Checking
    <3>2. CASE dpc = "ask" /\ SendToHost(Ask)
      BY <1>5, <3>1, <3>2 DEF SendToHost
    <3> QED
      BY <3>1, <3>2, DeviceSends
  <2>4. ASSUME hpc = "sleep"
        PROVE  txq' = <<>>
    <3>1. NoStream /\ dpc # "compare" /\ txq = <<>> /\ ~AskDue
      BY <1>4, <2>4 DEF Answers, NoStream, Checking, Ask
    <3> QED
      BY <1>5, <3>1, DeviceSends
  <2>5. hpc = "waitres" => ~InQueue(Ask)'
    BY <1>4, <1>6 DEF Answers
  <2> QED
    BY <1>1, <1>4, <1>6, <2>1, <2>2, <2>3, <2>4, <2>5 DEF Answers
<1> QED
  BY <1>1, <1>2, <1>3, <1>7, <1>8 DEF FirstSession
-----------------------------------------------------------------------------
\* A session is counted when it starts.
LEMMA SessionsGrow ==
  ASSUME WInv, [WriteNext]_wvars
  PROVE  sessions <= sessions'
<1>1. sessions \in Nat
  BY WriteAssumption DEF WInv, CountsOK
<1>2. sessions' = sessions \/ sessions' = sessions + 1
  BY DEF WriteNext, HostNext, ThreadNext, DeviceNext, HostSees, Start, OpensUpgrader, OpensFirmware, OpensNothing,
         Arrival, SwitchTimeout, StartPipes, SendInfo, ReceivesAsk, EnableStream, ReceivesResult,
         WaitAborted, WaitTimeout, StopRx, StopTx, JoinTx, StopButton, Kill, TxTop, TxFill, TxWaits,
         TxReap, TxExit, TxWire, TxErrors, RxCollect, counts, wvars, hvars
<1> QED
  BY <1>1, <1>2

\* The first session, step by step.
LEMMA FirstStep == WInv /\ FirstInv /\ [WriteNext]_wvars => FirstInv'
<1> SUFFICES ASSUME WInv, FirstInv, [WriteNext]_wvars, sessions' <= 1 PROVE FirstSession'
    BY DEF FirstInv
<1>1. sessions <= sessions'
  BY SessionsGrow
<1>2. FirstSession
  <2>1. sessions <= 1
    BY <1>1, WriteAssumption, WriteStep DEF WInv, CountsOK
  <2> QED
    BY <2>1 DEF FirstInv
<1>3. CASE UNCHANGED wvars
  <2>1. UNCHANGED <<dvars, himg>>
    BY <1>3 DEF wvars, hvars
  <2>2. /\ OneWrite' = OneWrite /\ Finished' = Finished /\ (\A c : InQueue(c)' = InQueue(c))
    BY <2>1, DeviceRests
  <2> QED
    BY <1>2, <1>3, <2>2 DEF wvars, dvars, queues, hvars, stream, inbox, counts, FirstSession, Before, Quiet,
                            Answers, NoStream, AskDue, Rdy
<1>4. CASE HostNext
  BY <1>2, <1>4, OpenStep, BeginStep, DialogStepKeeps DEF HostNext
<1>5. CASE ThreadNext
  BY <1>2, <1>5, ThreadStepKeeps, WireStepKeeps, CollectStepKeeps DEF ThreadNext
<1>6. CASE DeviceNext
  BY <1>2, <1>6, DeviceStepKeeps
<1> QED
  BY <1>3, <1>4, <1>5, <1>6 DEF WriteNext

\* It is quiet before the first session.
LEMMA FirstStart == WriteInit => FirstInv
<1> SUFFICES ASSUME WriteInit PROVE FirstSession
    BY DEF FirstInv
<1>1. Quiet /\ hpc = "idle"
  BY DEF WriteInit, Init, Quiet
<1>2. Answers
  BY <1>1, QuietIs DEF Answers, Quiet
<1> QED
  BY <1>1, <1>2, QuietIs DEF FirstSession

\* Written where the erase has been, and "Done." when it is there.
LEMMA FirstMeans == WInv /\ FirstInv => WritesErasedFlash /\ DoneIsWritten
<1> SUFFICES ASSUME WInv, FirstInv, sessions = 1 PROVE WritesErasedFlash /\ DoneIsWritten
    BY DEF WritesErasedFlash, DoneIsWritten
<1>1. FirstSession
  BY DEF FirstInv
<1>2. DoneIsWritten
  BY <1>1 DEF FirstSession, DoneIsWritten, Rdy, Finished
<1>3. ASSUME dpc = "write", Fits PROVE \A k \in nrx - Block + 1 .. nrx : k <= FlashSize => flash[k] = FF
  <2>1. /\ nrx \in Nat /\ Len(rbuf) = Block /\ Block \in Nat /\ Block > 0 /\ FlashSize \in Nat
        /\ Base \in Nat /\ Base % Block = 0 /\ ErasedFrom(Base) /\ Base < ImageLen[himg]
    BY <1>1, <1>3, DeviceAssumption DEF WInv, DInv, TypeOK, Shape, BlockShape, FirstSession, OneWrite, Fresh, Receiving
  <2>2. Base = nrx - Block /\ nrx <= Rounded
    BY <2>1, BlockInErased DEF Base
  <2> SUFFICES ASSUME NEW k \in nrx - Block + 1 .. nrx, k <= FlashSize PROVE flash[k] = FF
      OBVIOUS
  <2>3. k \in 1 .. FlashSize /\ Base < k /\ k <= Rounded
    BY <2>1, <2>2, BlocksCover DEF WInv, DialogOK, Rounded
  <2> QED
    BY <2>1, <2>3 DEF ErasedFrom
<1> QED
  BY <1>2, <1>3 DEF WritesErasedFlash, Fits

\* Whatever the flash held, whatever the user aborts, times out or kills and
\* whatever write or power fails: a first session that shows "Done." has its
\* image, with its length and CRC, in flash.
THEOREM DoneMeansWritten == WriteSpec => []DoneIsWritten
  BY WriteStart, WriteStep, FirstStart, FirstStep, FirstMeans, PTL DEF WriteSpec

\* Whatever length the image has: no packet of its stream is programmed where the
\* sectors for that length had not been erased.
THEOREM WritesOnlyErased == WriteSpec => []WritesErasedFlash
  BY WriteStart, WriteStep, FirstStart, FirstStep, FirstMeans, PTL DEF WriteSpec
-----------------------------------------------------------------------------
(* What a step of the first session may not do.                            *)

\* While a block is written nothing in flash can be started.
LEMMA WriteNotBootable ==
  ASSUME WInv, OneWrite, Fits, dpc = "write"
  PROVE  ~Bootable
<1>1. /\ Base \in Nat /\ ErasedFrom(Base) /\ HeaderAt(Base) /\ Base < ImageLen[himg]
      /\ himg \in Images /\ ImageLen[himg] \in Nat \ {0} /\ FlashSize \in Nat /\ ImageLen[himg] <= FlashSize
      /\ Rounded \in Nat /\ ImageLen[himg] <= Rounded
      /\ Base # 0 => FwLength[himg] > 1 /\ CrcOf(himg) = himg
  BY ImageRows, BlocksCover, DeviceAssumption
     DEF OneWrite, Fresh, Receiving, WInv, DialogOK, Rounded, Fits
<1>2. Base + 1 \in 1 .. FlashSize /\ flash[Base + 1] = FF
  BY <1>1 DEF ErasedFrom
<1>3. <<himg, Base + 1>> # FF
  <2>1. Base + 1 \in 1 .. ImageLen[himg]
    BY <1>1
  <2>2. <<himg, Base + 1>> \in ImagePackets
    BY <1>1, <2>1 DEF ImagePackets
  <2> QED
    BY <2>2, PacketAssumption
<1>4. ~Holds(himg)
  <2>1. Base + 1 \in 1 .. ImageLen[himg]
    BY <1>1
  <2> QED
    BY <1>2, <1>3, <2>1 DEF Holds
<1>5. CASE hdr = BlankHdr
  BY <1>5 DEF Bootable, BlankHdr
<1>6. CASE Base # 0 /\ hdr = ImgHeader
  <2>1. hdr.len > 1 /\ hdr.crc = himg
    BY <1>1, <1>6, ImageRows DEF ImgHeader
  <2> QED
    BY <1>1, <1>4, <2>1, DeviceAssumption DEF Bootable, CrcIs
<1> QED
  BY <1>1, <1>5, <1>6 DEF HeaderAt, HeaderIfAny

\* Flash changes in an erase and in a write only.
LEMMA FlashRests == dpc \notin {"erase", "write"} /\ [Next]_dvars => UNCHANGED rom
<1> SUFFICES ASSUME dpc \notin {"erase", "write"}, [Next]_dvars PROVE UNCHANGED rom
    OBVIOUS
<1>1. CASE UNCHANGED dvars
  BY <1>1 DEF dvars
<1>2. CASE MainNext
  BY <1>2 DEF MainNext, Boot, LoopNext, RxNext, TxNext, LoopReadsState, LoopReadsLength, FlashEraseSectors,
              LoopAsks, LoopStartsRx, LoopStartsTx, RxPacket, RxPatchLength, RxPatchCrc, FlashWrite,
              RxEndTest, RxCalcCrc, RxCompare, RxSwitch, RxTimeout, TxInit, TxPacket, TxTimeout, TxSwitch,
              TxSwitchFailed
<1>3. CASE UsbNext
  BY <1>3 DEF UsbNext, PutFwInfo, GetFwInfo, GetFw, SetConfiguration, InPacket, OutPacket
<1>4. CASE AppSwitchToFwu \/ PowerLoss
  BY <1>4 DEF AppSwitchToFwu, PowerLoss
<1> QED
  BY <1>1, <1>2, <1>3, <1>4 DEF Next

\* A firmware that could be started is not spoilt by the first session before
\* the erase its request asks for, whatever is aborted, killed or lost.
THEOREM IntactTillErase == WriteSpec => IntactUntilErased
<1>1. ASSUME WInv, FirstInv, [WriteNext]_wvars
      PROVE  [sessions <= 1 /\ ImageLen[himg] <= FlashSize /\ Bootable /\ ~Bootable' => dpc = "erase"]_wvars
  <2> SUFFICES ASSUME sessions <= 1, Fits, Bootable, dpc # "erase" PROVE Bootable'
      BY DEF Fits
  <2>1. dpc # "write"
    BY <1>1, WriteNotBootable DEF FirstInv, FirstSession
  <2>2. UNCHANGED rom
    BY <1>1, <2>1, WriteIsDevice, FlashRests
  <2> QED
    BY <2>2 DEF Bootable, CrcIs, Holds, rom
<1> QED
  BY <1>1, WriteStart, WriteStep, FirstStart, FirstStep, PTL DEF WriteSpec, IntactUntilErased

\* What is written can be started.
LEMMA WrittenBoots ==
  ASSUME WInv, Written(himg)
  PROVE  Bootable
<1>1. hdr.len = FwLength[himg] /\ hdr.crc = CrcOf(himg) /\ Holds(himg) /\ himg \in Images
  BY ImageRows DEF Written, WInv, DialogOK
<1>2. hdr.len > 0 /\ hdr.len <= Rows(FlashSize)
  <2>1. ImageLen[himg] <= FlashSize /\ FwLength[himg] \in Nat \ {0}
        /\ ImageLen[himg] = (FwLength[himg] + 1) \div 2
    BY <1>1, ImageRows DEF Holds
  <2> QED
    BY <1>1, <2>1, DeviceAssumption DEF Rows
<1>3. CrcIs(hdr.len, hdr.crc)
  BY <1>1, ImageRows DEF CrcIs
<1> QED
  BY <1>2, <1>3 DEF Bootable

\* The switch finds what can be started, or the power fails.
LEMMA BootableStarts ==
  ASSUME WInv, [WriteNext]_wvars, dpc = "switch", Bootable, dpc' # "switch"
  PROVE  dpc' = "firmware" \/ faults' > faults
<1>1. [Next]_dvars /\ faults \in Int
  BY WriteIsDevice, DeviceAssumption DEF WInv, DInv, TypeOK
<1>2. CASE RxSwitch
  BY <1>2 DEF RxSwitch, DoSwitchToFirmware, StartFirmware
<1>3. CASE PowerLoss
  BY <1>1, <1>3 DEF PowerLoss
<1>4. CASE UNCHANGED dvars \/ UsbNext \/ AppSwitchToFwu
  BY <1>4 DEF dvars, UsbNext, PutFwInfo, GetFwInfo, GetFw, SetConfiguration, InPacket, OutPacket,
              AppSwitchToFwu
<1>5. CASE MainNext /\ ~RxSwitch
  BY <1>5 DEF MainNext, Boot, LoopNext, RxNext, TxNext, LoopReadsState, LoopReadsLength, FlashEraseSectors,
              LoopAsks, LoopStartsRx, LoopStartsTx, RxPacket, RxPatchLength, RxPatchCrc, FlashWrite,
              RxEndTest, RxCalcCrc, RxCompare, RxTimeout, TxInit, TxPacket, TxTimeout, TxSwitch,
              TxSwitchFailed
<1> QED
  BY <1>1, <1>2, <1>3, <1>4, <1>5 DEF Next

\* FW_WR_RDY in the first session: the device starts the firmware, unless its
\* power fails before.
THEOREM FirstRdyStarts ==
  WriteSpec => [][sessions <= 1 /\ Covered(himg) /\ dpc = "switch" /\ dpc' # "switch" =>
                    dpc' = "firmware" \/ faults' > faults]_wvars
<1>1. ASSUME WInv, FirstInv, [WriteNext]_wvars
      PROVE  [sessions <= 1 /\ Covered(himg) /\ dpc = "switch" /\ dpc' # "switch" =>
                dpc' = "firmware" \/ faults' > faults]_wvars
  <2> SUFFICES ASSUME sessions <= 1, Covered(himg), dpc = "switch", dpc' # "switch"
               PROVE  dpc' = "firmware" \/ faults' > faults
      OBVIOUS
  <2>1. Written(himg)
    BY <1>1 DEF FirstInv, FirstSession, Rdy, Finished
  <2> QED
    BY <1>1, <2>1, WrittenBoots, BootableStarts
<1> QED
  BY <1>1, WriteStart, WriteStep, FirstStart, FirstStep, PTL DEF WriteSpec
-----------------------------------------------------------------------------
(* The stream of the first session arrives in order, and is written.       *)

Waiting == hpc \in {"waitask", "sleep", "waitres"}
Streaming == gState = "PUT_FW_INFO" \/ dpc \in {"end"} \cup Receiving

\* Packet number n of the stream; behind the image anything may come.
IsPacket(n, p) == n <= ImageLen[himg] => p = <<himg, n>>

InSequence == /\ \A j \in 1 .. Len(rxq) : IsPacket(nrx + j, rxq[j])
              /\ \A j \in 1 .. Len(bufs) : IsPacket(nrx + Len(rxq) + j, bufs[j])

\* What has been received, waits or is with the driver is what has left FW.len.
Underway == nrx + Len(rxq) + Len(bufs)
Progress == IF left > 0 THEN Underway = (BlocksOf(himg) - left) * Block
                        ELSE Underway >= Rounded

OrderInv ==
  /\ dpc \in {"reset", "firmware", "loop", "switch"} \cup Requesting => nrx = 0
  /\ sessions = 1 /\ Before => left = BlocksOf(himg)
  /\ Waiting /\ Streaming => bound /\ InSequence /\ Progress

\* Without faults the flash holds the image as far as it was received.
Copied == /\ dpc \in Receiving => \A j \in 1 .. Len(rbuf) : IsPacket(Base + j, rbuf[j])
          /\ dpc \in {"end"} \cup Receiving =>
               /\ \A k \in 1 .. FlashSize : k <= Base => IsPacket(k, flash[k])
               /\ Base > 0 => hdr = ImgHeader
          /\ dpc \in Checking => Written(himg)
          /\ exch # "FW_WR_ERR" /\ ~InQueue("FW_WR_ERR")

CopyInv == faults = 0 /\ Fits => (Waiting => Copied) /\ result # "wrerr"

StreamInv == sessions <= 1 => OrderInv /\ CopyInv
-----------------------------------------------------------------------------
\* The types this section needs.
LEMMA StreamFacts ==
  ASSUME WInv
  PROVE  /\ nrx \in Nat /\ rxq \in Seq(Packets) /\ bufs \in Seq(Packets) /\ rbuf \in Seq(Packets)
         /\ Len(rxq) \in Nat /\ Len(bufs) \in Nat /\ Len(rbuf) \in Nat
         /\ Block \in Nat /\ Block > 0 /\ himg \in Images
         /\ ImageLen[himg] \in Nat /\ ImageLen[himg] > 0
         /\ BlocksOf(himg) \in Nat /\ left \in 0 .. BlocksOf(himg)
         /\ Rounded \in Nat /\ ImageLen[himg] <= Rounded
         /\ sessions \in Nat
<1>1. /\ nrx \in Nat /\ rxq \in Seq(Packets) /\ bufs \in Seq(Packets) /\ rbuf \in Seq(Packets)
      /\ himg \in Images /\ left \in 0 .. BlocksOf(himg)
  BY DEF WInv, DInv, TypeOK, DialogOK, StreamOK
<1>2. Len(rxq) \in Nat /\ Len(bufs) \in Nat /\ Len(rbuf) \in Nat
  BY <1>1
<1>3. sessions \in Nat /\ Block \in Nat /\ Block > 0
  BY DeviceAssumption, WriteAssumption DEF WInv, CountsOK
<1>4. Rounded \in Nat /\ ImageLen[himg] <= Rounded
  BY <1>1, BlocksCover DEF Rounded
<1>5. ImageLen[himg] \in Nat /\ ImageLen[himg] > 0 /\ BlocksOf(himg) \in Nat
  BY <1>1, BlocksType
<1> QED
  BY <1>1, <1>2, <1>3, <1>4, <1>5

\* Nothing moves.
LEMMA StreamRests ==
  ASSUME UNCHANGED <<nrx, rxq, bufs, left, himg>>
  PROVE  InSequence' = InSequence /\ Progress' = Progress
  BY DEF InSequence, Progress, Underway, IsPacket, Rounded, BlocksOf

\* The dialog's steps: the session, its request, its waits, its end.
LEMMA DialogOrder ==
  ASSUME WInv, FirstSession, OrderInv, HostNext, sessions' <= 1
  PROVE  OrderInv'
<1>0. sessions \in Nat
  BY StreamFacts
<1>1. ASSUME NEW i \in Images, Start(i) PROVE OrderInv'
  BY <1>0, <1>1 DEF Start, OrderInv, Waiting, dvars, locals, Requesting, BlocksOf
<1>2. CASE OpensUpgrader \/ OpensFirmware \/ OpensNothing \/ Arrival
  <2>1. Quiet /\ hpc' \in {"pipes", "switching"} /\ UNCHANGED <<left, sessions, himg>>
        /\ hpc \in {"open", "switching"}
    BY <1>2 DEF FirstSession, Before, OpensUpgrader, OpensFirmware, OpensNothing, Arrival, stream, counts
  <2>2. dpc' \in {"reset", "firmware", "loop"} /\ nrx' = 0
    <3>1. CASE OpensFirmware
      BY <3>1 DEF OpensFirmware, AppSwitchToFwu, NoLocals
    <3>2. CASE UNCHANGED dvars
      BY <2>1, <3>2 DEF dvars, locals, Quiet, OrderInv
    <3> QED
      BY <1>2, <2>1, <3>1, <3>2, QuietConfiguration DEF OpensUpgrader, OpensNothing, Arrival, Quiet
  <2> QED
    BY <2>1, <2>2 DEF OrderInv, Before, Waiting, BlocksOf
<1>3. CASE SendInfo
  <2>1. Quiet /\ hpc = "put" /\ hpc' = "waitask" /\ UNCHANGED <<left, sessions, himg, bufs, bound>>
        /\ nrx = 0 /\ sessions # 0
    BY <1>3 DEF FirstSession, Before, SendInfo, stream, counts, Quiet, OrderInv
  <2>2. CASE UNCHANGED dvars
    BY <2>1, <2>2 DEF Quiet, dvars, locals, OrderInv, Before, Streaming, Receiving, Requesting
  <2>3. CASE bound /\ PutFwInfo(Header(himg))
    <3>1. /\ UNCHANGED <<dpc, nrx, rxq>> /\ rxq = <<>> /\ bufs = <<>> /\ dpc = "loop" /\ bound'
      BY <2>1, <2>3 DEF PutFwInfo, locals, queues, Quiet, Attached
    <3>2. left = BlocksOf(himg) /\ left > 0
      <4>1. BlocksOf(himg) \in Nat /\ Block \in Nat /\ BlocksOf(himg) * Block > 0
        BY StreamFacts DEF Rounded
      <4>2. BlocksOf(himg) # 0
        BY <4>1
      <4>3. left = BlocksOf(himg)
        BY <1>0, <2>1 DEF OrderInv, Before
      <4> QED
        BY <4>1, <4>2, <4>3
    <3>3. InSequence'
      BY <2>1, <3>1 DEF InSequence
    <3>4. Progress'
      <4>1. Underway' = 0
        BY <2>1, <3>1 DEF Underway
      <4>2. (BlocksOf(himg) - left) * Block = 0 /\ left' > 0 /\ BlocksOf(himg)' = BlocksOf(himg)
        BY <2>1, <3>2, StreamFacts DEF BlocksOf
      <4> QED
        BY <2>1, <4>1, <4>2 DEF Progress
    <3> QED
      BY <2>1, <3>1, <3>3, <3>4 DEF OrderInv, Before
  <2> QED
    BY <1>3, <2>2, <2>3 DEF SendInfo
<1>4. CASE \/ SwitchTimeout \/ StartPipes \/ WaitAborted \/ WaitTimeout
           \/ StopRx \/ StopTx \/ JoinTx \/ Kill \/ ReceivesResult
  <2>1. /\ UNCHANGED <<dvars, himg, sessions>> /\ ~Waiting'
        /\ left' = left \/ hpc' = "idle"
        /\ Before' => Before \/ hpc' = "idle"
    BY <1>4 DEF SwitchTimeout, StartPipes, WaitAborted, WaitTimeout, StopRx, StopTx, JoinTx, Kill,
                ReceivesResult, counts, stream, Waiting, Before
  <2> QED
    BY <1>0, <2>1 DEF OrderInv, Before, dvars, locals, BlocksOf
<1>5. CASE ReceivesAsk \/ EnableStream \/ StopButton
  <2>1. /\ UNCHANGED <<dvars, himg, sessions, left, bufs, bound>>
        /\ Waiting /\ (Before' => Before)
    BY <1>5 DEF ReceivesAsk, EnableStream, StopButton, counts, stream, Waiting, Before
  <2>2. InSequence' = InSequence /\ Progress' = Progress
    BY <2>1, StreamRests DEF dvars, locals, queues
  <2> QED
    BY <2>1, <2>2 DEF OrderInv, Streaming, dvars, locals, BlocksOf
<1> QED
  BY <1>1, <1>2, <1>3, <1>4, <1>5 DEF HostNext

\* A buffer is filled with the block that follows.
LEMMA FillOrder ==
  ASSUME WInv, InSequence, Progress, TxFill
  PROVE  InSequence' /\ Progress'
<1> DEFINE n == BlocksOf(himg) - left + 1
           blk == IF left > 0 THEN BlockOf(himg, n) ELSE Dummy
<1>1. /\ UNCHANGED <<nrx, rxq, himg>> /\ bufs' = bufs \o blk
      /\ left' = IF left > 0 THEN left - 1 ELSE left
  BY DEF TxFill, dvars, locals, queues
<1>2. n \in Int /\ n >= 1
  BY StreamFacts
<1>3. blk \in Seq(Packets) /\ Len(blk) = Block
  BY <1>2, BlockType, StreamFacts
<1>4. \A j \in 1 .. Block : IsPacket(Underway + j, blk[j])
  <2>1. CASE left > 0
    <3>0. n - 1 = BlocksOf(himg) - left
      BY StreamFacts
    <3>1. (n - 1) * Block = Underway
      BY <2>1, <3>0 DEF Progress
    <3>2. \A j \in 1 .. Block : blk[j] = IF Underway + j <= ImageLen[himg] THEN <<himg, Underway + j>> ELSE Garbage
      BY <2>1, <3>1 DEF BlockOf
    <3> QED
      BY <3>2 DEF IsPacket
  <2>2. CASE ~(left > 0)
    <3>1. Underway >= ImageLen[himg] /\ Underway \in Nat
      BY <2>2, StreamFacts DEF Progress, Underway
    <3> QED
      BY <3>1, StreamFacts DEF IsPacket
  <2> QED
    BY <2>1, <2>2
<1> HIDE DEF blk
<1>5. /\ Len(bufs') = Len(bufs) + Block
      /\ \A j \in 1 .. Len(bufs) + Block : bufs'[j] = IF j <= Len(bufs) THEN bufs[j] ELSE blk[j - Len(bufs)]
  BY <1>1, <1>3, StreamFacts, ConcatProperties
<1>6. InSequence'
  <2>1. ASSUME NEW j \in 1 .. Len(bufs'), j > Len(bufs)
        PROVE  IsPacket(nrx + Len(rxq) + j, bufs'[j])
    <3>1. j - Len(bufs) \in 1 .. Block /\ nrx + Len(rxq) + j = Underway + (j - Len(bufs))
      BY <1>5, <2>1, StreamFacts DEF Underway
    <3>2. bufs'[j] = blk[j - Len(bufs)]
      BY <1>5, <2>1, StreamFacts
    <3> QED
      BY <1>4, <3>1, <3>2
  <2>2. ASSUME NEW j \in 1 .. Len(bufs'), ~(j > Len(bufs))
        PROVE  IsPacket(nrx + Len(rxq) + j, bufs'[j])
    <3>1. j \in 1 .. Len(bufs) /\ bufs'[j] = bufs[j]
      BY <1>5, <2>2, StreamFacts
    <3> QED
      BY <3>1 DEF InSequence
  <2> QED
    BY <1>1, <2>1, <2>2 DEF InSequence, IsPacket
<1>7. Progress'
  <2>1. Underway' = Underway + Block /\ Underway \in Nat
    BY <1>1, <1>5, StreamFacts DEF Underway
  <2>2. CASE left > 0
    <3>1. (BlocksOf(himg) - left) * Block + Block = (BlocksOf(himg) - (left - 1)) * Block
      BY StreamFacts
    <3>2. Underway' = (BlocksOf(himg) - left') * Block
      BY <1>1, <2>1, <2>2, <3>1 DEF Progress
    <3>3. left' = 0 => Underway' = Rounded
      BY <3>2, StreamFacts DEF Rounded
    <3>4. left' \in Nat /\ BlocksOf(himg)' = BlocksOf(himg) /\ Rounded' = Rounded /\ Rounded \in Nat
      BY <1>1, <2>2, StreamFacts, SMTT(60) DEF Rounded, BlocksOf
    <3>5. Underway' = (BlocksOf(himg)' - left') * Block
      BY <3>2, <3>4
    <3>6. left' > 0 \/ (left' = 0 /\ Underway' >= Rounded')
      BY <3>3, <3>4
    <3> QED
      BY <3>5, <3>6 DEF Progress
  <2>3. CASE ~(left > 0)
    BY <1>1, <2>1, <2>3, StreamFacts DEF Progress, Rounded, BlocksOf
  <2> QED
    BY <2>2, <2>3
<1> QED
  BY <1>6, <1>7

\* The packet sent first is the one the device gets last.
LEMMA WireOrder ==
  ASSUME WInv, InSequence, Progress, TxWire
  PROVE  InSequence' /\ Progress'
<1>1. /\ UNCHANGED <<nrx, left, himg>> /\ bufs # <<>>
      /\ rxq' = Append(rxq, Head(bufs)) /\ bufs' = Tail(bufs)
  BY DEF TxWire, OutPacket, locals
<1>0. /\ Len(rxq) \in Nat /\ Len(bufs) \in Nat /\ nrx \in Nat
      /\ Len(rxq') = Len(rxq) + 1 /\ Len(bufs') = Len(bufs) - 1 /\ Len(bufs) > 0
  BY <1>1, StreamFacts, HeadTailProperties, AppendProperties
<1>2. /\ \A j \in 1 .. Len(rxq) : rxq'[j] = rxq[j]
      /\ rxq'[Len(rxq) + 1] = bufs[1]
      /\ \A j \in 1 .. Len(bufs) - 1 : bufs'[j] = bufs[j + 1]
  BY <1>1, StreamFacts, HeadTailProperties, AppendProperties
<1>3. Progress'
  <2>1. Underway' = Underway
    BY <1>0, <1>1 DEF Underway
  <2> QED
    BY <1>1, <2>1 DEF Progress, Rounded, BlocksOf
<1>4. \A j \in 1 .. Len(rxq') : IsPacket(nrx + j, rxq'[j])
  <2>1. IsPacket(nrx + (Len(rxq) + 1), rxq'[Len(rxq) + 1])
    <3>1. 1 \in 1 .. Len(bufs) /\ nrx + (Len(rxq) + 1) = nrx + Len(rxq) + 1
      BY <1>0
    <3> QED
      BY <1>2, <3>1 DEF InSequence
  <2>2. \A j \in 1 .. Len(rxq) : IsPacket(nrx + j, rxq'[j])
    BY <1>2 DEF InSequence
  <2>3. \A j \in 1 .. Len(rxq') : j \in 1 .. Len(rxq) \/ j = Len(rxq) + 1
    BY <1>0
  <2> QED
    BY <2>1, <2>2, <2>3
<1>5. \A j \in 1 .. Len(bufs') : IsPacket(nrx + Len(rxq') + j, bufs'[j])
  <2> SUFFICES ASSUME NEW j \in 1 .. Len(bufs') PROVE IsPacket(nrx + Len(rxq') + j, bufs'[j])
      OBVIOUS
  <2>1. j + 1 \in 1 .. Len(bufs) /\ j \in 1 .. Len(bufs) - 1
    BY <1>0
  <2>2. nrx + Len(rxq') + j = nrx + Len(rxq) + (j + 1)
    BY <1>0
  <2>3. IsPacket(nrx + Len(rxq) + (j + 1), bufs[j + 1])
    BY <2>1 DEF InSequence
  <2> QED
    BY <1>2, <2>1, <2>2, <2>3
<1> QED
  BY <1>1, <1>3, <1>4, <1>5 DEF InSequence, IsPacket

\* The threads' steps.
LEMMA ThreadOrder ==
  ASSUME WInv, FirstSession, OrderInv, ThreadNext
  PROVE  OrderInv'
<1>1. CASE TxTop \/ TxWaits \/ TxReap \/ TxExit
  <2>1. UNCHANGED <<dvars, himg, sessions, left, bufs, bound, hpc>>
    BY <1>1 DEF TxTop, TxWaits, TxReap, TxExit, counts
  <2>2. InSequence' = InSequence /\ Progress' = Progress
    BY <2>1, StreamRests DEF dvars, locals, queues
  <2> QED
    BY <2>1, <2>2 DEF OrderInv, Streaming, Waiting, Before, dvars, locals, BlocksOf
<1>2. CASE TxErrors
  BY <1>2 DEF TxErrors, OrderInv, Streaming, Waiting, Before, dvars, locals, counts, BlocksOf
<1>3. CASE TxFill
  <2>1. UNCHANGED <<dvars, himg, sessions, bound, hpc>> /\ txEvent
    BY <1>3 DEF TxFill, counts
  <2>2. ~Before
    BY <2>1 DEF FirstSession, Quiet
  <2> QED
    BY <1>3, <2>1, <2>2, FillOrder DEF OrderInv, Streaming, Waiting, Before, dvars, locals, BlocksOf
<1>4. CASE TxWire
  <2>1. UNCHANGED <<dpc, gState, nrx, left, himg, sessions, bound, hpc>>
    BY <1>4 DEF TxWire, OutPacket, counts, locals
  <2> QED
    BY <1>4, <2>1, WireOrder DEF OrderInv, Streaming, Waiting, Before, BlocksOf
<1>5. CASE RxCollect
  <2>1. UNCHANGED <<dpc, gState, nrx, rxq, left, bufs, himg, sessions, bound, hpc>>
    BY <1>5 DEF RxCollect, InPacket, counts, locals, stream
  <2>2. InSequence' = InSequence /\ Progress' = Progress
    BY <2>1, StreamRests
  <2> QED
    BY <2>1, <2>2 DEF OrderInv, Streaming, Waiting, Before, BlocksOf
<1> QED
  BY <1>1, <1>2, <1>3, <1>4, <1>5 DEF ThreadNext

\* The packet taken is the next.
LEMMA PacketOrder ==
  ASSUME WInv, InSequence, Progress, RxPacket, UNCHANGED <<bufs, left, himg>>
  PROVE  InSequence' /\ Progress' /\ IsPacket(nrx + 1, Head(rxq))
<1>1. nrx' = nrx + 1 /\ rxq # <<>> /\ rxq' = Tail(rxq)
  BY DEF RxPacket
<1>2. /\ Len(rxq') = Len(rxq) - 1 /\ Len(rxq) > 0 /\ Head(rxq) = rxq[1]
      /\ \A j \in 1 .. Len(rxq) - 1 : rxq'[j] = rxq[j + 1]
  BY <1>1, StreamFacts, HeadTailProperties
<1>3. IsPacket(nrx + 1, Head(rxq))
  <2>1. 1 \in 1 .. Len(rxq)
    BY <1>2, StreamFacts
  <2> QED
    BY <1>2, <2>1 DEF InSequence
<1>4. Progress'
  <2>1. Underway' = Underway
    BY <1>1, <1>2, StreamFacts DEF Underway
  <2> QED
    BY <2>1 DEF Progress, Rounded, BlocksOf
<1>5. \A j \in 1 .. Len(rxq') : IsPacket(nrx' + j, rxq'[j])
  <2> SUFFICES ASSUME NEW j \in 1 .. Len(rxq') PROVE IsPacket(nrx' + j, rxq'[j])
      OBVIOUS
  <2>1. j + 1 \in 1 .. Len(rxq) /\ rxq'[j] = rxq[j + 1] /\ nrx' + j = nrx + (j + 1)
    BY <1>1, <1>2, StreamFacts
  <2> QED
    BY <2>1 DEF InSequence
<1>6. \A j \in 1 .. Len(bufs) : IsPacket(nrx' + Len(rxq') + j, bufs[j])
  <2>1. nrx' + Len(rxq') = nrx + Len(rxq)
    BY <1>1, <1>2, StreamFacts
  <2> QED
    BY <2>1 DEF InSequence
<1> QED
  BY <1>3, <1>4, <1>5, <1>6 DEF InSequence, IsPacket

\* While the stream runs the device only takes its next packet.
LEMMA StreamRuns ==
  ASSUME OneRequest, OneRequest', DeviceNext, Streaming',
         dpc \in {"reset", "firmware", "loop", "switch"} \cup Requesting => nrx = 0
  PROVE  /\ Streaming /\ (bound => bound') /\ UNCHANGED <<bufs, left, himg, hpc, sessions>>
         /\ RxPacket \/ UNCHANGED <<nrx, rxq>>
<1> USE DEF Requesting, Receiving
<1>1. dpc' \notin {"reset", "firmware"}
  BY DEF Streaming, OneRequest
<1>2. UNCHANGED <<left, himg, hpc, sessions, bufs>> /\ (bound => bound')
  BY <1>1 DEF DeviceNext, HostSees, Attached, counts
<1>3. ~(Boot \/ PowerLoss \/ QuietTimeout)
  BY DEF Boot, DoSwitchToFirmware, StartFirmware, PowerLoss, ClearRam, QuietTimeout, RxTimeout,
         Streaming, OneRequest
<1>4. CASE LoopNext
  <2>1. CASE LoopStartsRx
    BY <1>2, <2>1 DEF LoopStartsRx, NoLocals, queues, Streaming, OneRequest
  <2>2. CASE LoopReadsState \/ LoopReadsLength \/ FlashEraseSectors \/ LoopAsks \/ LoopStartsTx
    BY <1>2, <2>2 DEF LoopReadsState, LoopReadsLength, FlashEraseSectors, LoopAsks, LoopStartsTx,
                Streaming, OneRequest, locals, queues
  <2> QED
    BY <1>2, <1>4, <2>1, <2>2 DEF LoopNext
<1>5. CASE RxNext
  <2>1. CASE RxPacket
    BY <1>2, <2>1 DEF RxPacket, Streaming
  <2>2. CASE RxPatchLength \/ RxPatchCrc \/ FlashWrite \/ RxEndTest
    BY <1>2, <2>2 DEF RxPatchLength, RxPatchCrc, FlashWrite, RxEndTest, Streaming, locals, queues
  <2>3. ~(RxCalcCrc \/ RxCompare \/ RxSwitch)
    BY DEF RxCalcCrc, RxCompare, RxSwitch, DoSwitchToFirmware, StartFirmware, Streaming, OneRequest
  <2> QED
    BY <1>2, <1>5, <2>1, <2>2, <2>3 DEF RxNext
<1> QED
  BY <1>3, <1>4, <1>5 DEF DeviceNext

\* Outside a stream its position is reset.
LEMMA PositionReset ==
  ASSUME OneRequest, OneRequest', DeviceNext,
         dpc \in {"reset", "firmware", "loop", "switch"} \cup Requesting => nrx = 0
  PROVE  (dpc \in {"reset", "firmware", "loop", "switch"} \cup Requesting => nrx = 0)'
<1> USE DEF Requesting
<1>1. CASE Boot \/ PowerLoss \/ QuietTimeout
  BY <1>1 DEF Boot, PowerLoss, NoLocals, QuietTimeout, RxTimeout, locals
<1>2. CASE LoopNext
  BY <1>2 DEF LoopNext, LoopReadsState, LoopReadsLength, FlashEraseSectors, LoopAsks, LoopStartsRx,
              LoopStartsTx, locals, NoLocals
<1>3. CASE RxNext
  BY <1>3 DEF RxNext, RxPacket, RxPatchLength, RxPatchCrc, FlashWrite, RxEndTest, RxCalcCrc, RxCompare,
              RxSwitch, locals, NoLocals
<1> QED
  BY <1>1, <1>2, <1>3 DEF DeviceNext

\* The steps of stream_rx and of the boot leave the stream's order.
LEMMA DeviceOrder ==
  ASSUME WInv, FirstSession, FirstSession', OrderInv, DeviceNext
  PROVE  OrderInv'
<1>1. OneRequest /\ OneRequest'
  BY DEF FirstSession, OneWrite
<1>2. UNCHANGED <<left, himg, hpc, sessions>>
  BY DEF DeviceNext, HostSees, counts
<1>3. (dpc \in {"reset", "firmware", "loop", "switch"} \cup Requesting => nrx = 0)'
  BY <1>1, PositionReset DEF OrderInv
<1>4. (sessions = 1 /\ Before => left = BlocksOf(himg))'
  BY <1>2 DEF OrderInv, Before, BlocksOf
<1>5. ASSUME Waiting', Streaming' PROVE (bound /\ InSequence /\ Progress)'
  <2>1. /\ Streaming /\ Waiting /\ (bound => bound') /\ UNCHANGED <<bufs, left, himg>>
        /\ RxPacket \/ UNCHANGED <<nrx, rxq>>
    BY <1>1, <1>2, <1>5, StreamRuns DEF OrderInv, Waiting
  <2>2. bound /\ InSequence /\ Progress
    BY <2>1 DEF OrderInv
  <2>3. CASE RxPacket
    BY <2>1, <2>2, <2>3, PacketOrder
  <2>4. CASE UNCHANGED <<nrx, rxq>>
    BY <2>1, <2>2, <2>4, StreamRests
  <2> QED
    BY <2>1, <2>3, <2>4
<1> QED
  BY <1>3, <1>4, <1>5 DEF OrderInv
-----------------------------------------------------------------------------
(* Without faults nothing of the stream is lost on its way into the flash. *)

\* Nothing moves.
LEMMA CopyRests ==
  ASSUME UNCHANGED <<dpc, nrx, rbuf, rom, txq, himg, exch>>
  PROVE  Copied' = Copied
BY DEF Copied, IsPacket, Base, ImgHeader, Written, Holds, InQueue, rom

\* The dialog is told of an error only if the device sent one.
LEMMA DialogCopies ==
  ASSUME WInv, FirstSession, CopyInv, HostNext, sessions' <= 1
  PROVE  CopyInv'
<1>1. ASSUME NEW i \in Images, Start(i) PROVE CopyInv'
  BY <1>1 DEF Start, CopyInv, Waiting
<1>2. CASE OpensUpgrader \/ OpensFirmware \/ OpensNothing \/ Arrival
  <2>1. /\ UNCHANGED <<himg, faults, result>> /\ hpc' \in {"pipes", "switching"}
    BY <1>2 DEF OpensUpgrader, OpensFirmware, OpensNothing, Arrival, SetConfiguration, AppSwitchToFwu, dvars
  <2> QED
    BY <2>1 DEF CopyInv, Waiting, Fits
<1>3. CASE SendInfo
  <2>1. Quiet /\ UNCHANGED <<dpc, txq, exch, result, himg, faults>>
    BY <1>3 DEF FirstSession, Before, SendInfo, PutFwInfo, dvars, queues, inbox
  <2>2. Copied'
    BY <2>1 DEF Quiet, Copied, Receiving, Checking, InQueue
  <2> QED
    BY <2>1, <2>2 DEF CopyInv, Fits
<1>4. CASE \/ SwitchTimeout \/ StartPipes \/ WaitAborted \/ WaitTimeout
           \/ StopRx \/ StopTx \/ JoinTx \/ Kill
  <2>1. /\ UNCHANGED <<dvars, himg>> /\ ~Waiting'
        /\ result' = result \/ result' # "wrerr"
    BY <1>4 DEF SwitchTimeout, StartPipes, WaitAborted, WaitTimeout, StopRx, StopTx, JoinTx, Kill, Waiting
  <2> QED
    BY <2>1 DEF CopyInv, Fits, dvars
<1>5. CASE ReceivesAsk \/ EnableStream \/ StopButton
  <2>1. /\ UNCHANGED <<dvars, himg, exch>> /\ Waiting
        /\ result' = result \/ result' # "wrerr"
    BY <1>5 DEF ReceivesAsk, EnableStream, StopButton, inbox, Waiting
  <2>2. Copied' = Copied
    BY <2>1, CopyRests DEF dvars, locals, queues
  <2> QED
    BY <2>1, <2>2 DEF CopyInv, Fits, dvars
<1>6. CASE ReceivesResult
  <2>1. /\ UNCHANGED <<dvars, himg>> /\ Waiting /\ ~Waiting'
        /\ exch # "FW_WR_ERR" => result' # "wrerr"
    BY <1>6 DEF ReceivesResult, Waiting
  <2> QED
    BY <2>1 DEF CopyInv, Copied, Fits, dvars
<1> QED
  BY <1>1, <1>2, <1>3, <1>4, <1>5, <1>6 DEF HostNext

\* The threads carry packets and messages, and make none.
LEMMA ThreadCopies ==
  ASSUME WInv, CopyInv, ThreadNext
  PROVE  CopyInv'
<1>1. UNCHANGED <<dpc, nrx, rbuf, rom, himg, faults, hpc, result>>
  BY DEF ThreadNext, TxTop, TxFill, TxWaits, TxReap, TxExit, TxWire, TxErrors, RxCollect, OutPacket, InPacket,
         dvars, locals
<1>2. CASE RxCollect
  <2>1. exch' = Head(txq).cmd /\ txq # <<>> /\ txq' = Tail(txq)
    BY <1>2 DEF RxCollect, InPacket
  <2>2. InQueue(exch') /\ (\A c : InQueue(c)' => InQueue(c))
    BY <2>1, TakeCmd
  <2>3. Copied => Copied'
    BY <1>1, <2>2 DEF Copied, IsPacket, Base, ImgHeader, Written, Holds, rom
  <2> QED
    BY <1>1, <2>3 DEF CopyInv, Waiting, Fits
<1>3. CASE UNCHANGED <<txq, exch>>
  BY <1>1, <1>3, CopyRests DEF CopyInv, Waiting, Fits
<1> QED
  BY <1>2, <1>3 DEF ThreadNext, TxTop, TxFill, TxWaits, TxReap, TxExit, TxWire, TxErrors, OutPacket,
                    dvars, queues, inbox
-----------------------------------------------------------------------------
(* The device's steps, once the dialog waits.                              *)

\* The packet taken goes behind those of its block.
LEMMA PacketCopies ==
  ASSUME WInv, Copied, RxPacket, IsPacket(nrx + 1, Head(rxq)), UNCHANGED <<himg, exch>>
  PROVE  Copied'
<1>1. /\ dpc = "rx" /\ dpc' \in Receiving /\ nrx' = nrx + 1 /\ rbuf' = Append(rbuf, Head(rxq))
      /\ UNCHANGED <<txq, rom>>
  BY DEF RxPacket, Receiving
<1>2. /\ nrx \in Nat /\ Len(rbuf) \in Nat /\ Len(rbuf') = Len(rbuf) + 1
      /\ \A j \in 1 .. Len(rbuf) : rbuf'[j] = rbuf[j]
      /\ rbuf'[Len(rbuf) + 1] = Head(rxq)
  <2>1. rbuf \in Seq(Packets) /\ Head(rxq) \in Packets
    BY StreamFacts DEF RxPacket
  <2> QED
    BY <1>1, <2>1, StreamFacts, AppendProperties
<1>3. Base' = Base /\ Base + (Len(rbuf) + 1) = nrx + 1
  BY <1>1, <1>2 DEF Base
<1>4. \A j \in 1 .. Len(rbuf') : IsPacket(Base + j, rbuf'[j])
  <2>1. \A j \in 1 .. Len(rbuf) : IsPacket(Base + j, rbuf'[j])
    BY <1>1, <1>2 DEF Copied, Receiving
  <2>2. IsPacket(Base + (Len(rbuf) + 1), rbuf'[Len(rbuf) + 1])
    BY <1>2, <1>3
  <2>3. \A j \in 1 .. Len(rbuf') : j \in 1 .. Len(rbuf) \/ j = Len(rbuf) + 1
    BY <1>2
  <2> QED
    BY <2>1, <2>2, <2>3
<1>5. /\ \A k \in 1 .. FlashSize : k <= Base => IsPacket(k, flash[k])
      /\ Base > 0 => hdr = ImgHeader
      /\ exch # "FW_WR_ERR" /\ ~InQueue("FW_WR_ERR")
  BY <1>1 DEF Copied, Receiving
<1>6. ~InQueue("FW_WR_ERR")' /\ ImgHeader' = ImgHeader
  BY <1>1, <1>5 DEF InQueue, ImgHeader
<1> QED
  BY <1>1, <1>3, <1>4, <1>5, <1>6 DEF Copied, IsPacket, Receiving, Checking, rom

\* Erased flash takes a block as it is, the first of them with the header.
LEMMA BlockCopies ==
  ASSUME WInv, OneWrite, Fits, Copied, FlashWrite, ProgramBlock(Block), UNCHANGED <<himg, exch>>
  PROVE  Copied'
<1>1. /\ dpc = "write" /\ dpc' = "end" /\ nrx' = nrx /\ rbuf' = <<>> /\ UNCHANGED txq
  BY DEF FlashWrite, queues
<1>2. /\ Len(rbuf) = Block /\ Base = nrx - Block /\ Base \in Nat /\ ErasedFrom(Base) /\ HeaderAt(Base)
      /\ nrx \in Nat /\ Block \in Nat /\ Block > 0 /\ Base' = nrx /\ nrx = Base + Block
      /\ nrx = Block => rhdr = ImgHeader
  <2>1. Len(rbuf) = Block /\ nrx \in Nat /\ Block \in Nat /\ Block > 0 /\ Len(rbuf') = 0
    BY <1>1, StreamFacts DEF WInv, DInv, Shape, BlockShape
  <2>2. Base \in Nat /\ ErasedFrom(Base) /\ HeaderAt(Base) /\ (nrx = Block => rhdr = ImgHeader)
    BY <1>1 DEF OneWrite, Fresh, Receiving
  <2>3. Base = nrx - Block /\ Base' = nrx /\ nrx = Base + Block
    BY <1>1, <2>1 DEF Base
  <2> QED
    BY <2>1, <2>2, <2>3
<1>3. /\ \A j \in 1 .. Block : IsPacket(Base + j, rbuf[j])
      /\ \A k \in 1 .. FlashSize : k <= Base => IsPacket(k, flash[k])
      /\ Base > 0 => hdr = ImgHeader
      /\ exch # "FW_WR_ERR" /\ ~InQueue("FW_WR_ERR")
  BY <1>1, <1>2 DEF Copied, Receiving
<1>4. \A k \in 1 .. FlashSize : k <= nrx => IsPacket(k, flash'[k])
  <2> SUFFICES ASSUME NEW k \in 1 .. FlashSize, k <= nrx, k <= ImageLen[himg] PROVE flash'[k] = <<himg, k>>
      BY DEF IsPacket
  <2>0. FlashSize \in Nat /\ k <= Rounded
    BY StreamFacts, DeviceAssumption
  <2>1. CASE k <= Base
    <3>1. flash'[k] = flash[k]
      BY <1>2, <2>0, <2>1 DEF ProgramBlock
    <3> QED
      BY <1>3, <2>1, <3>1 DEF IsPacket
  <2>2. CASE ~(k <= Base)
    <3>1. k - Base \in 1 .. Block /\ Base + (k - Base) = k /\ k \in Base + 1 .. Base + Block
      BY <1>2, <2>0, <2>2
    <3>2. flash[k] = FF
      BY <1>2, <2>0, <2>2 DEF ErasedFrom
    <3>3. rbuf[k - Base] = <<himg, k>>
      BY <1>3, <3>1 DEF IsPacket
    <3>4. flash'[k] = Program(flash[k], rbuf[k - Base])
      BY <1>2, <3>1 DEF ProgramBlock
    <3> QED
      BY <3>2, <3>3, <3>4 DEF Program
  <2> QED
    BY <2>1, <2>2
<1>5. hdr' = ImgHeader
  <2>1. CASE Base = 0
    <3>1. hdr = BlankHdr /\ rhdr = ImgHeader /\ hdr' = ProgramHdr(hdr, rhdr)
      BY <1>2, <2>1 DEF HeaderAt, ProgramBlock
    <3> QED
      BY <3>1 DEF ProgramHdr
  <2>2. CASE Base # 0
    BY <1>2, <1>3, <2>2 DEF ProgramBlock
  <2> QED
    BY <2>1, <2>2
<1>6. ~InQueue("FW_WR_ERR")' /\ ImgHeader' = ImgHeader
  BY <1>1, <1>3 DEF InQueue, ImgHeader
<1> QED
  BY <1>1, <1>2, <1>3, <1>4, <1>5, <1>6 DEF Copied, IsPacket, Receiving, Checking

\* Behind the last block the image is there.
LEMMA EndCopies ==
  ASSUME WInv, OneWrite, Fits, Copied, RxEndTest, UNCHANGED <<himg, exch>>
  PROVE  Copied'
<1>1. /\ dpc = "end" /\ dpc' = (IF Rows(nrx) >= fw_length THEN "check" ELSE "rx")
      /\ UNCHANGED <<nrx, rbuf, rom, txq>> /\ rbuf = <<>> /\ fw_length = FwLength[himg] /\ nrx > 0
  BY DEF RxEndTest, locals, queues, WInv, DInv, Shape, BlockShape, OneWrite, OneRequest, Fresh
<1>2. /\ \A k \in 1 .. FlashSize : k <= Base => IsPacket(k, flash[k])
      /\ Base > 0 => hdr = ImgHeader
      /\ exch # "FW_WR_ERR" /\ ~InQueue("FW_WR_ERR")
  BY <1>1 DEF Copied
<1>3. Base = nrx /\ Base' = Base
  BY <1>1, StreamFacts DEF Base
<1>4. Rows(nrx) >= fw_length => Written(himg)
  <2> SUFFICES ASSUME Rows(nrx) >= fw_length PROVE Written(himg)
      OBVIOUS
  <2>1. ASSUME NEW k \in 1 .. ImageLen[himg] PROVE flash[k] = <<himg, k>>
    <3>1. k \in 1 .. FlashSize /\ k <= Base /\ k <= ImageLen[himg]
      <4>1. nrx >= ImageLen[himg] /\ ImageLen[himg] \in Nat
        BY <1>1, StreamFacts, ImageRows DEF Rows
      <4>2. nrx \in Nat /\ FlashSize \in Nat /\ ImageLen[himg] <= FlashSize
        BY StreamFacts, DeviceAssumption DEF Fits
      <4> QED
        BY <1>3, <4>1, <4>2
    <3> QED
      BY <1>2, <3>1 DEF IsPacket
  <2>2. hdr = ImgHeader
    BY <1>1, <1>2, <1>3
  <2> QED
    BY <2>1, <2>2 DEF Written, Holds, Fits, ImgHeader
<1>5. /\ ~InQueue("FW_WR_ERR")' /\ ImgHeader' = ImgHeader /\ Written(himg)' = Written(himg)
  BY <1>1, <1>2 DEF InQueue, ImgHeader, Written, Holds, rom
<1>6. \A j \in 1 .. Len(rbuf') : FALSE
  BY <1>1
<1> QED
  BY <1>1, <1>2, <1>3, <1>4, <1>5, <1>6 DEF Copied, IsPacket, Receiving, Checking, rom

\* Its CRC is right, and the device says so.
LEMMA CompareCopies ==
  ASSUME WInv, OneWrite, Copied, RxCompare, UNCHANGED <<himg, exch>>
  PROVE  Copied'
<1>1. dpc = "compare" /\ len = FwLength[himg] /\ fw_crc = CrcOf(himg) /\ himg \in Images
  BY DEF RxCompare, OneWrite, OneRequest, Checking, WInv, DialogOK
<1>2. Written(himg) /\ exch # "FW_WR_ERR" /\ ~InQueue("FW_WR_ERR")
  BY <1>1 DEF Copied, Checking
<1>3. CrcIs(len, fw_crc)
  BY <1>1, <1>2, ImageRows DEF Written, CrcIs
<1>4. SendToHost("FW_WR_RDY") /\ dpc' = "switch"
  BY <1>3 DEF RxCompare
<1>5. ~InQueue("FW_WR_ERR")'
  BY <1>2, <1>4, SendCmd
<1> QED
  BY <1>2, <1>4, <1>5 DEF Copied, Receiving, Checking

\* Elsewhere nothing of the image is under way, and no error sent.
LEMMA RestCopies ==
  ASSUME WInv, Copied, UNCHANGED <<himg, exch>>,
         \/ Boot \/ QuietTimeout \/ LoopNext \/ RxPatchLength \/ RxPatchCrc \/ RxCalcCrc \/ RxSwitch
  PROVE  Copied'
<1> USE DEF Receiving, Checking
<1>0. exch # "FW_WR_ERR" /\ ~InQueue("FW_WR_ERR")
  BY DEF Copied
<1>1. CASE RxPatchLength \/ RxPatchCrc
  <2>1. /\ UNCHANGED <<nrx, rbuf, rom, txq>> /\ dpc \in Receiving /\ dpc' \in Receiving
    BY <1>1 DEF RxPatchLength, RxPatchCrc, queues
  <2> QED
    BY <2>1 DEF Copied, IsPacket, Base, ImgHeader, InQueue, rom
<1>2. CASE RxCalcCrc
  <2>1. UNCHANGED <<rom, txq>> /\ dpc = "check" /\ dpc' = "compare"
    BY <1>2 DEF RxCalcCrc, queues
  <2> QED
    BY <2>1 DEF Copied, Written, Holds, InQueue, rom
<1>3. CASE Boot \/ QuietTimeout \/ RxSwitch
  <2>1. dpc' \in {"loop", "firmware"} /\ (txq' = txq \/ txq' = <<>>)
    BY <1>3 DEF Boot, QuietTimeout, RxTimeout, RxSwitch, DoSwitchToFirmware, StartFirmware, queues
  <2>2. ~InQueue("FW_WR_ERR")'
    BY <1>0, <2>1 DEF InQueue
  <2> QED
    BY <1>0, <2>1, <2>2 DEF Copied
<1>4. CASE LoopReadsState \/ LoopReadsLength \/ FlashEraseSectors \/ LoopStartsTx
  <2>1. dpc' \in {"put", "get", "erase", "ask", "txinit"} /\ txq' = txq
    BY <1>4 DEF LoopReadsState, LoopReadsLength, FlashEraseSectors, LoopStartsTx, queues
  <2> QED
    BY <1>0, <2>1 DEF Copied, InQueue
<1>5. CASE LoopAsks
  <2>1. dpc' = "asked" /\ ~InQueue("FW_WR_ERR")'
    BY <1>0, <1>5, SendCmd DEF LoopAsks
  <2> QED
    BY <1>0, <2>1 DEF Copied
<1>6. CASE LoopStartsRx
  <2>1. dpc' = "rx" /\ nrx' = 0 /\ rbuf' = <<>> /\ txq' = txq
    BY <1>6 DEF LoopStartsRx, NoLocals, queues
  <2>2. Base' = 0 /\ FlashSize \in Nat
    <3>1. Len(rbuf') = 0 /\ nrx' = 0
      BY <2>1
    <3> QED
      BY <3>1, DeviceAssumption DEF Base
  <2>3. \A j \in 1 .. Len(rbuf') : FALSE
    BY <2>1
  <2>4. \A k \in 1 .. FlashSize : ~(k <= 0)
    BY <2>2
  <2> QED
    BY <1>0, <2>1, <2>2, <2>3, <2>4 DEF Copied, InQueue
<1> QED
  BY <1>1, <1>2, <1>3, <1>4, <1>5, <1>6 DEF LoopNext

\* A fault that did not happen did not happen before.
LEMMA DeviceCopies ==
  ASSUME WInv, FirstSession, OrderInv, CopyInv, DeviceNext
  PROVE  CopyInv'
<1>1. UNCHANGED <<hpc, himg, result, exch, left>>
  BY DEF DeviceNext, HostSees, inbox, counts
<1>2. Waiting' = Waiting /\ Fits' = Fits
  BY <1>1 DEF Waiting, Fits
<1>3. faults' = 0 => faults = 0 /\ ~PowerLoss /\ (FlashWrite => ProgramBlock(Block))
  <2>1. faults \in Nat
    BY DeviceAssumption DEF WInv, DInv, TypeOK
  <2>2. faults' = faults \/ faults' = faults + 1
    BY DEF DeviceNext, Boot, QuietTimeout, RxTimeout, PowerLoss, LoopNext, LoopReadsState, LoopReadsLength,
           FlashEraseSectors, LoopAsks, LoopStartsRx, LoopStartsTx, RxNext, RxPacket, RxPatchLength,
           RxPatchCrc, FlashWrite, RxEndTest, RxCalcCrc, RxCompare, RxSwitch
  <2> QED
    BY <2>1, <2>2 DEF PowerLoss, FlashWrite
<1>4. ASSUME Fits, faults' = 0, Waiting PROVE Copied'
  <2>1. Copied /\ OneWrite
    BY <1>3, <1>4 DEF CopyInv, FirstSession
  <2>2. CASE RxPacket
    <3>1. InSequence /\ Progress
      BY <1>4, <2>2 DEF OrderInv, RxPacket, Streaming, Receiving
    <3>2. bufs' = bufs
      BY <2>2 DEF DeviceNext, HostSees, Attached, RxPacket
    <3> QED
      BY <1>1, <2>1, <2>2, <3>1, <3>2, PacketOrder, PacketCopies
  <2>3. CASE FlashWrite
    BY <1>1, <1>3, <1>4, <2>1, <2>3, BlockCopies
  <2>4. CASE RxEndTest
    BY <1>1, <1>4, <2>1, <2>4, EndCopies
  <2>5. CASE RxCompare
    BY <1>1, <2>1, <2>5, CompareCopies
  <2>6. CASE \/ Boot \/ QuietTimeout \/ LoopNext \/ RxPatchLength \/ RxPatchCrc \/ RxCalcCrc \/ RxSwitch
    BY <1>1, <2>1, <2>6, RestCopies
  <2> QED
    BY <1>3, <1>4, <2>2, <2>3, <2>4, <2>5, <2>6 DEF DeviceNext, RxNext
<1> QED
  BY <1>1, <1>2, <1>3, <1>4 DEF CopyInv
-----------------------------------------------------------------------------
\* Nothing has been sent.
LEMMA StreamStart == WriteInit => StreamInv
<1> SUFFICES ASSUME WriteInit PROVE OrderInv /\ CopyInv
    BY DEF StreamInv
<1>1. nrx = 0 /\ sessions = 0 /\ hpc = "idle" /\ result = "none"
  BY DEF WriteInit, Init
<1> QED
  BY <1>1 DEF OrderInv, CopyInv, Waiting

\* The first session's stream, step by step.
LEMMA StreamInvStep ==
  WInv /\ FirstInv /\ FirstInv' /\ StreamInv /\ [WriteNext]_wvars => StreamInv'
<1> SUFFICES ASSUME WInv, FirstInv, FirstInv', StreamInv, [WriteNext]_wvars, sessions' <= 1
             PROVE  OrderInv' /\ CopyInv'
    BY DEF StreamInv
<1>1. sessions <= 1
  BY SessionsGrow, StreamFacts, WriteAssumption, WriteStep DEF WInv, CountsOK
<1>2. FirstSession /\ FirstSession' /\ OrderInv /\ CopyInv
  BY <1>1 DEF FirstInv, StreamInv
<1>3. CASE UNCHANGED wvars
  <2>1. UNCHANGED <<dvars, himg, exch, bufs, left, hpc, sessions, bound, result>>
    BY <1>3 DEF wvars, hvars, stream, inbox, counts
  <2>2. InSequence' = InSequence /\ Progress' = Progress /\ Copied' = Copied
    BY <2>1, StreamRests, CopyRests DEF dvars, locals, queues
  <2> QED
    BY <1>2, <2>1, <2>2 DEF OrderInv, CopyInv, Waiting, Streaming, Before, Fits, BlocksOf, dvars, locals
<1>4. CASE HostNext
  BY <1>2, <1>4, DialogOrder, DialogCopies
<1>5. CASE ThreadNext
  BY <1>2, <1>5, ThreadOrder, ThreadCopies
<1>6. CASE DeviceNext
  BY <1>2, <1>6, DeviceOrder, DeviceCopies
<1> QED
  BY <1>3, <1>4, <1>5, <1>6 DEF WriteNext

\* In the first session stream_rx takes, while the dialog waits, the packets of
\* the announced image in their order and without a gap, from the first on:
\* whatever was aborted, timed out or lost with the power, and however the
\* blocks, the driver's buffers and the packet queue divide the stream.
THEOREM FirstStreamInOrder ==
  WriteSpec => [](sessions <= 1 /\ dpc = "rx" /\ rxq # <<>> /\ hpc \in {"waitask", "sleep", "waitres"} =>
                    Head(rxq) = <<himg, nrx + 1>> \/ nrx >= ImageLen[himg])
<1>1. ASSUME WInv, StreamInv, sessions <= 1, dpc = "rx", rxq # <<>>, hpc \in {"waitask", "sleep", "waitres"}
      PROVE  Head(rxq) = <<himg, nrx + 1>> \/ nrx >= ImageLen[himg]
  <2>1. InSequence
    BY <1>1 DEF StreamInv, OrderInv, Waiting, Streaming, Receiving
  <2>2. Head(rxq) = rxq[1] /\ 1 \in 1 .. Len(rxq)
    BY <1>1, StreamFacts
  <2>3. IsPacket(nrx + 1, Head(rxq))
    BY <2>1, <2>2 DEF InSequence
  <2> QED
    BY <2>3, <1>1, StreamFacts DEF IsPacket
<1> QED
  BY <1>1, WriteStart, WriteStep, FirstStart, FirstStep, StreamStart, StreamInvStep, PTL DEF WriteSpec

\* The dialog of a first session never shows a write error by itself: as long as
\* no flash write and no power has failed, an image that fits the flash passes
\* the CRC test, whatever its length and whatever was aborted or timed out.
THEOREM NoErrorWithoutFault ==
  WriteSpec => [](sessions <= 1 /\ faults = 0 /\ ImageLen[himg] <= FlashSize => result # "wrerr")
<1>1. WInv /\ StreamInv => (sessions <= 1 /\ faults = 0 /\ ImageLen[himg] <= FlashSize => result # "wrerr")
  BY DEF StreamInv, CopyInv, Fits
<1> QED
  BY <1>1, WriteStart, WriteStep, FirstStart, FirstStep, StreamStart, StreamInvStep, PTL DEF WriteSpec
-----------------------------------------------------------------------------
(* Sessions that nothing disturbs: no fault, no timeout, no killed host, no *)
(* image too long for the flash, and a user who lets them end.  However    *)
(* many follow one another, each finds the device as the first one did, or *)
(* just leaving for the firmware that the session before it has written.   *)

Undisturbed == /\ MaxFaults = 0 /\ MaxKills = 0 /\ Timeouts = FALSE
               /\ \A i \in Images : ImageLen[i] <= FlashSize

NothingSent == txq = <<>> /\ ~rxEvent
\* The one message under way is c: in the queue, in the inbox, or read.
OnlySent(c) == \/ txq = <<Msg(c)>> /\ ~rxEvent
               \/ txq = <<>> /\ (rxEvent => exch = c)

Resting == dpc \in {"reset", "firmware", "loop", "switch"} \cup Requesting => nrx = 0

\* No request under way, from the end of a session to the request of the next.
Calm == /\ hpc \in {"idle", "open", "switching", "pipes", "put"}
        /\ dpc \in {"reset", "firmware", "loop"} /\ gState = "DEFAULT" /\ nrx = 0
        /\ rxq = <<>> /\ bufs = <<>> /\ ~txEvent /\ NothingSent
        /\ hpc # "idle" => left = BlocksOf(himg)

\* The dialog waits, first for the answer, then for the result.
Talking == /\ Waiting /\ OneWrite /\ Copied /\ Resting
           /\ Streaming => bound /\ InSequence /\ Progress
           /\ dpc = "firmware" => rxq = <<>>
           /\ hpc = "waitask" => /\ NoStream /\ OnlySent(Ask)
                                 /\ NothingSent \/ dpc \in {"asked", "rx"}
           /\ hpc = "sleep" => NoStream /\ NothingSent /\ dpc \in {"asked", "rx"}
           /\ hpc = "waitres" =>
                \/ dpc \in {"asked", "end"} \cup Receiving \cup Checking /\ NothingSent
                \/ dpc \in {"switch", "firmware"} /\ Bootable /\ OnlySent("FW_WR_RDY")

\* The delay before the switch; the dialog may be in its next session by then.
Leaving == /\ hpc \in {"close", "stoptx", "join", "idle", "open", "pipes", "put", "waitask"}
           /\ dpc = "switch" /\ Bootable /\ nrx = 0 /\ NothingSent
           /\ hpc \in {"idle", "open", "pipes", "put", "waitask"} => bufs = <<>> /\ ~txEvent
           /\ hpc # "waitask" => gState = "DEFAULT"
           /\ hpc \in {"pipes", "put", "waitask"} => bound
           /\ hpc \in {"open", "pipes", "put"} => left = BlocksOf(himg)

\* The firmware runs before the dialog has ended its session ...
Gone == /\ hpc \in {"close", "stoptx", "join"} /\ dpc = "firmware" /\ gState = "DEFAULT"
        /\ nrx = 0 /\ rxq = <<>> /\ NothingSent

\* ... or after a request that came too late, whose answer the dialog waits for.
TooLate == hpc = "waitask" /\ dpc = "firmware" /\ NothingSent

Phase == Calm \/ Talking \/ Leaving \/ Gone \/ TooLate
Unspoilt == ~abortEvent /\ result \in {"none", "ok"} /\ exch # "FW_WR_ERR"
Ended == txt = "exit" => bufs = <<>>

UndisturbedInv == aborts = 0 => Unspoilt /\ Ended /\ Phase
-----------------------------------------------------------------------------
\* What does not happen when nothing disturbs.
LEMMA NoDisturbance ==
  ASSUME WInv, Undisturbed, Unspoilt, aborts' = 0
  PROVE  /\ ~SwitchTimeout /\ ~WaitTimeout /\ ~WaitAborted /\ ~StopButton /\ ~Kill /\ ~PowerLoss
         /\ QuietTimeout => hpc = "idle" /\ dpc = "rx"
         /\ FlashWrite => ProgramBlock(Block)
         /\ Fits
<1>1. aborts \in Nat /\ kills = 0 /\ faults = 0 /\ himg \in Images
  BY WriteAssumption, DeviceAssumption DEF WInv, CountsOK, DInv, TypeOK, Undisturbed, DialogOK
<1>2. ~StopButton /\ ~Kill /\ ~PowerLoss /\ (FlashWrite => ProgramBlock(Block))
  BY <1>1 DEF StopButton, Kill, PowerLoss, FlashWrite, Undisturbed
<1>3. ~SwitchTimeout /\ ~WaitTimeout /\ ~WaitAborted /\ (QuietTimeout => hpc = "idle" /\ dpc = "rx")
  BY DEF SwitchTimeout, WaitTimeout, WaitAborted, QuietTimeout, RxTimeout, Undisturbed, Unspoilt
<1> QED
  BY <1>1, <1>2, <1>3 DEF Fits, Undisturbed

\* Where no message is under way none is collected.
LEMMA NothingCollected ==
  NothingSent => ~RxCollect /\ ~ReceivesAsk /\ ~ReceivesResult
  BY DEF NothingSent, RxCollect, InPacket, ReceivesAsk, ReceivesResult

\* While the device rests it boots, or leaves for the firmware, and no more.
LEMMA DeviceAtRest ==
  ASSUME WInv, Undisturbed, Unspoilt, aborts' = 0, DeviceNext,
         dpc \in {"reset", "firmware", "loop", "switch"}, dpc = "loop" => gState = "DEFAULT"
  PROVE  \/ dpc = "reset" /\ Boot /\ HostSees
         \/ dpc = "switch" /\ RxSwitch /\ HostSees
<1>1. ~QuietTimeout /\ ~PowerLoss
  BY NoDisturbance
<1> QED
  BY <1>1 DEF DeviceNext, LoopNext, RxNext, Boot, RxSwitch, LoopReadsState, LoopReadsLength,
         FlashEraseSectors, LoopAsks, LoopStartsRx, LoopStartsTx, RxPacket, RxPatchLength, RxPatchCrc,
         FlashWrite, RxEndTest, RxCalcCrc, RxCompare

\* From the end of one session to the request of the next.
LEMMA CalmStep ==
  ASSUME WInv, Undisturbed, Unspoilt, Calm, aborts' = 0, WriteNext
  PROVE  Calm' \/ Talking'
<1> USE DEF NothingSent
<1>1. ASSUME NEW i \in Images, Start(i) PROVE Calm'
  BY <1>1 DEF Start, Calm, BlocksOf, dvars, locals, queues, inbox
<1>2. CASE OpensUpgrader \/ Arrival
  <2>1. UNCHANGED dvars /\ hpc' = "pipes" /\ UNCHANGED <<himg, stream, inbox>> /\ hpc # "idle"
    BY <1>2, QuietConfiguration DEF Calm, OpensUpgrader, Arrival
  <2> QED
    BY <2>1 DEF Calm, BlocksOf, dvars, locals, queues, inbox, stream
<1>3. CASE OpensFirmware \/ OpensNothing
  BY <1>3 DEF OpensFirmware, OpensNothing, AppSwitchToFwu, NoLocals, ClearRam, Calm, BlocksOf, dvars, locals,
              queues, inbox, stream
<1>4. CASE StartPipes
  BY <1>4 DEF StartPipes, Calm, BlocksOf, dvars, locals, queues, inbox
<1>5. CASE SendInfo
  <2>1. /\ hpc = "put" /\ hpc' = "waitask" /\ UNCHANGED <<left, himg, bufs, bound, rxEvent, exch, txEvent>>
        /\ left = BlocksOf(himg)
    BY <1>5 DEF SendInfo, Calm, stream, inbox
  <2>2. CASE UNCHANGED dvars
    <3>1. /\ dpc' \in {"reset", "firmware", "loop"} /\ gState' = "DEFAULT" /\ nrx' = 0
          /\ rxq' = <<>> /\ txq' = <<>> /\ bufs' = <<>> /\ ~txEvent' /\ ~rxEvent' /\ exch' # "FW_WR_ERR"
      BY <2>1, <2>2 DEF Calm, dvars, locals, queues, Unspoilt
    <3>2. OneWrite'
      BY <3>1 DEF OneWrite, OneRequest, Fresh, Requesting, Receiving, Checking
    <3>3. Copied' /\ ~Streaming' /\ NoStream'
      BY <3>1 DEF Copied, Receiving, Checking, Streaming, NoStream, InQueue
    <3> QED
      BY <2>1, <3>1, <3>2, <3>3 DEF Talking, Waiting, Resting, OnlySent
  <2>3. CASE bound /\ PutFwInfo(Header(himg))
    <3>1. /\ dpc' = "loop" /\ gState' = "PUT_FW_INFO" /\ nrx' = 0 /\ fw_length' = FwLength[himg'] /\ fw_crc' = CrcOf(himg')
          /\ rxq' = <<>> /\ txq' = <<>> /\ bufs' = <<>> /\ ~txEvent' /\ ~rxEvent' /\ exch' # "FW_WR_ERR" /\ bound'
      BY <2>1, <2>3 DEF Calm, PutFwInfo, Header, Attached, locals, queues, Unspoilt
    <3>2. OneWrite'
      BY <3>1 DEF OneWrite, OneRequest, Fresh, Requesting, Receiving, Checking
    <3>3. Copied' /\ NoStream'
      BY <3>1 DEF Copied, Receiving, Checking, NoStream, InQueue
    <3>4. InSequence'
      BY <3>1 DEF InSequence
    <3>5. Progress'
      <4>1. Underway' = 0
        BY <3>1 DEF Underway
      <4>2. BlocksOf(himg) \in Nat /\ BlocksOf(himg) * Block > 0 /\ Block \in Nat
        BY StreamFacts DEF Rounded
      <4>3. left' = BlocksOf(himg') /\ BlocksOf(himg') = BlocksOf(himg)
        BY <2>1
      <4>4. left' > 0 /\ (BlocksOf(himg') - left') * Block = 0
        BY <4>2, <4>3
      <4>5. BlocksOf(himg)' = BlocksOf(himg')
        BY DEF BlocksOf
      <4> QED
        BY <4>1, <4>4, <4>5 DEF Progress
    <3> QED
      BY <2>1, <3>1, <3>2, <3>3, <3>4, <3>5 DEF Talking, Waiting, Resting, OnlySent
  <2> QED
    BY <1>5, <2>2, <2>3 DEF SendInfo
<1>6. CASE ThreadNext
  <2>1. UNCHANGED <<dvars, himg, left, hpc, txEvent, inbox>> /\ bufs' = <<>>
    BY <1>6, NothingCollected DEF ThreadNext, TxTop, TxFill, TxWaits, TxReap, TxExit, TxWire, TxErrors, Calm
  <2> QED
    BY <2>1 DEF Calm, BlocksOf, dvars, locals, queues, inbox
<1>7. CASE DeviceNext
  <2>1. dpc = "reset" /\ Boot /\ HostSees
    BY <1>7, DeviceAtRest DEF Calm
  <2> QED
    BY <2>1 DEF Boot, DoSwitchToFirmware, StartFirmware, HostSees, Calm, BlocksOf, locals, queues, inbox
<1>8. ~(ReceivesAsk \/ EnableStream \/ ReceivesResult \/ StopRx \/ StopTx \/ JoinTx)
  BY DEF ReceivesAsk, EnableStream, ReceivesResult, StopRx, StopTx, JoinTx, Calm
<1> QED
  BY <1>1, <1>2, <1>3, <1>4, <1>5, <1>6, <1>7, <1>8, NoDisturbance DEF WriteNext, HostNext

\* Flash that does not change stays what can be started.
LEMMA BootableRests == ASSUME UNCHANGED rom PROVE Bootable' = Bootable
  BY DEF rom, Bootable, CrcIs, Holds

\* While the device leaves the dialog ends its session, and may begin another.
LEMMA LeavingStep ==
  ASSUME WInv, Undisturbed, Unspoilt, Ended, Leaving, aborts' = 0, WriteNext
  PROVE  Calm' \/ Leaving' \/ Gone' \/ TooLate'
<1> USE DEF NothingSent
<1>1. ASSUME NEW i \in Images, Start(i) PROVE Leaving'
  <2>1. Bootable' = Bootable
    BY <1>1, BootableRests DEF Start, dvars
  <2> QED
    BY <1>1, <2>1 DEF Start, Leaving, BlocksOf, dvars, locals, queues, inbox
<1>2. CASE OpensUpgrader
  <2>1. UNCHANGED <<dpc, gState, nrx, rom>> /\ txq' = <<>>
    BY <1>2 DEF OpensUpgrader, SetConfiguration, Leaving, locals
  <2>2. Bootable' = Bootable
    BY <2>1, BootableRests
  <2> QED
    BY <1>2, <2>1, <2>2 DEF OpensUpgrader, Leaving, BlocksOf, inbox, stream
<1>3. CASE StartPipes \/ StopRx \/ StopTx
  <2>1. Bootable' = Bootable
    BY <1>3, BootableRests DEF StartPipes, StopRx, StopTx, dvars
  <2> QED
    BY <1>3, <2>1 DEF StartPipes, StopRx, StopTx, Leaving, BlocksOf, dvars, locals, queues, inbox, stream
<1>4. CASE JoinTx
  <2>1. Bootable' = Bootable
    BY <1>4, BootableRests DEF JoinTx, dvars
  <2> QED
    BY <1>4, <2>1 DEF JoinTx, Leaving, Ended, dvars, locals, queues, inbox
<1>5. CASE SendInfo
  <2>1. /\ bound /\ PutFwInfo(Header(himg)) /\ hpc' = "waitask"
        /\ UNCHANGED <<bound, bufs, txEvent, rxEvent>> /\ hpc = "put"
    BY <1>5 DEF SendInfo, Leaving, stream, inbox
  <2>2. UNCHANGED <<dpc, nrx, rom, txq>>
    BY <2>1 DEF PutFwInfo, locals, queues
  <2>3. Bootable' = Bootable
    BY <2>2, BootableRests
  <2> QED
    BY <2>1, <2>2, <2>3 DEF Leaving
<1>6. CASE ThreadNext
  <2>1. UNCHANGED <<dpc, gState, nrx, txq, rom, himg, hpc, bound, txEvent, rxEvent>>
    BY <1>6, NothingCollected DEF ThreadNext, TxTop, TxFill, TxWaits, TxReap, TxExit, TxWire, TxErrors, Leaving,
         OutPacket, dvars, locals, queues, inbox
  <2>2. hpc \in {"close", "stoptx", "join"} \/ (bufs' = <<>> /\ left' = left)
    BY <1>6, NothingCollected DEF ThreadNext, TxTop, TxFill, TxWaits, TxReap, TxExit, TxWire, TxErrors, Leaving
  <2>3. Bootable' = Bootable
    BY <2>1, BootableRests
  <2> QED
    BY <2>1, <2>2, <2>3 DEF Leaving, BlocksOf
<1>7. CASE DeviceNext
  <2>1. RxSwitch /\ HostSees
    BY <1>7, DeviceAtRest DEF Leaving
  <2>2. /\ dpc' = "firmware" /\ rxq' = <<>> /\ txq' = <<>> /\ UNCHANGED <<gState, nrx, hpc, himg, left, txEvent, rxEvent>>
        /\ bufs' = bufs \/ bufs' = <<>>
    BY <2>1 DEF RxSwitch, DoSwitchToFirmware, StartFirmware, HostSees, Leaving, locals, inbox
  <2> QED
    BY <2>2 DEF Leaving, Calm, Gone, TooLate, BlocksOf
<1>8. ~(\/ OpensFirmware \/ OpensNothing \/ Arrival \/ ReceivesAsk \/ EnableStream \/ ReceivesResult)
  BY NothingCollected DEF OpensFirmware, OpensNothing, Arrival, EnableStream, Leaving
<1> QED
  BY <1>1, <1>2, <1>3, <1>4, <1>5, <1>6, <1>7, <1>8, NoDisturbance DEF WriteNext, HostNext

\* The firmware runs: the dialog ends its session.
LEMMA GoneStep ==
  ASSUME WInv, Undisturbed, Unspoilt, Ended, Gone, aborts' = 0, WriteNext
  PROVE  Calm' \/ Gone'
<1> USE DEF NothingSent
<1>1. CASE StopRx \/ StopTx
  BY <1>1 DEF StopRx, StopTx, Gone, dvars, locals, queues, inbox
<1>2. CASE JoinTx
  BY <1>2 DEF JoinTx, Gone, Calm, Ended, dvars, locals, queues, inbox
<1>3. CASE ThreadNext
  <2>1. UNCHANGED dvars /\ UNCHANGED <<hpc, rxEvent>>
    BY <1>3, NothingCollected DEF ThreadNext, TxTop, TxFill, TxWaits, TxReap, TxExit, TxWire, TxErrors, Gone,
         OutPacket, Attached, inbox
  <2> QED
    BY <2>1 DEF Gone, dvars, locals, queues
<1>4. ~DeviceNext
  BY DeviceAtRest DEF Gone
<1>5. ~(\/ \E i \in Images : Start(i)
        \/ OpensUpgrader \/ OpensFirmware \/ OpensNothing \/ Arrival \/ StartPipes \/ SendInfo
        \/ ReceivesAsk \/ EnableStream \/ ReceivesResult)
  BY DEF Start, OpensUpgrader, OpensFirmware, OpensNothing, Arrival, StartPipes, SendInfo, ReceivesAsk,
         EnableStream, ReceivesResult, Gone
<1> QED
  BY <1>1, <1>2, <1>3, <1>4, <1>5, NoDisturbance DEF WriteNext, HostNext

\* The firmware runs and has no answer.
LEMMA TooLateStep ==
  ASSUME WInv, Undisturbed, Unspoilt, TooLate, aborts' = 0, WriteNext
  PROVE  TooLate'
<1> USE DEF NothingSent
<1>1. CASE ThreadNext
  <2>1. UNCHANGED dvars /\ UNCHANGED <<hpc, rxEvent>>
    BY <1>1, NothingCollected DEF ThreadNext, TxTop, TxFill, TxWaits, TxReap, TxExit, TxWire, TxErrors, TooLate,
         OutPacket, Attached, inbox
  <2> QED
    BY <2>1 DEF TooLate, dvars, queues
<1>2. ~DeviceNext
  BY DeviceAtRest DEF TooLate
<1>3. ~(\/ \E i \in Images : Start(i)
        \/ OpensUpgrader \/ OpensFirmware \/ OpensNothing \/ Arrival \/ StartPipes \/ SendInfo
        \/ ReceivesAsk \/ EnableStream \/ ReceivesResult \/ StopRx \/ StopTx \/ JoinTx)
  BY NothingCollected DEF Start, OpensUpgrader, OpensFirmware, OpensNothing, Arrival, StartPipes, SendInfo,
         EnableStream, StopRx, StopTx, JoinTx, TooLate
<1> QED
  BY <1>1, <1>2, <1>3, NoDisturbance DEF WriteNext, HostNext

\* The dialog takes the answer, and the result.
LEMMA TalkingDialog ==
  ASSUME WInv, Undisturbed, Unspoilt, Talking, aborts' = 0, HostNext
  PROVE  (Talking' \/ Leaving' \/ Gone') /\ Unspoilt'
<1> USE DEF NothingSent
<1>0. ~(\/ \E i \in Images : Start(i)
        \/ OpensUpgrader \/ OpensFirmware \/ OpensNothing \/ Arrival \/ StartPipes \/ SendInfo
        \/ StopRx \/ StopTx \/ JoinTx)
  BY DEF Start, OpensUpgrader, OpensFirmware, OpensNothing, Arrival, StartPipes, SendInfo,
         StopRx, StopTx, JoinTx, Talking, Waiting
<1>1. CASE ReceivesAsk \/ EnableStream
  <2>1. /\ UNCHANGED <<dvars, himg, left, bufs, bound, exch, result, abortEvent>>
        /\ \/ /\ hpc = "waitask" /\ NoStream /\ txq = <<>> /\ dpc \in {"asked", "rx"} /\ exch = Ask
              /\ hpc' = "sleep" /\ ~rxEvent' /\ txEvent' = txEvent
           \/ hpc = "sleep" /\ NothingSent /\ dpc \in {"asked", "rx"} /\ hpc' = "waitres" /\ rxEvent' = rxEvent
    <3>1. CASE ReceivesAsk
      <4>1. hpc = "waitask" /\ rxEvent
        BY <3>1 DEF ReceivesAsk
      <4>2. NoStream /\ txq = <<>> /\ dpc \in {"asked", "rx"} /\ exch = Ask
        BY <4>1 DEF Talking, OnlySent
      <4> QED
        BY <3>1, <4>1, <4>2 DEF ReceivesAsk, stream, Ask
    <3>2. CASE EnableStream
      BY <3>2 DEF EnableStream, Talking, inbox
    <3> QED
      BY <1>1, <3>1, <3>2
  <2>2. /\ OneWrite' = OneWrite /\ InSequence' = InSequence /\ Progress' = Progress /\ Copied' = Copied
        /\ Streaming' = Streaming /\ (txEvent' = txEvent => NoStream' = NoStream)
    BY <2>1, DeviceRests, StreamRests, CopyRests DEF dvars, locals, queues, Streaming, NoStream
  <2>3. Talking'
    BY <2>1, <2>2 DEF Talking, Waiting, Resting, Receiving, dvars, locals, queues
  <2> QED
    BY <2>1, <2>3 DEF Unspoilt
<1>2. CASE ReceivesResult
  <2>1. /\ hpc = "waitres" /\ rxEvent /\ ~rxEvent' /\ hpc' = "close"
        /\ UNCHANGED <<dvars, exch, abortEvent>>
    BY <1>2 DEF ReceivesResult
  <2>2. /\ dpc \in {"switch", "firmware"} /\ Bootable /\ txq = <<>> /\ exch = "FW_WR_RDY"
        /\ nrx = 0 /\ gState = "DEFAULT" /\ (dpc = "firmware" => rxq = <<>>)
    BY <2>1 DEF Talking, OnlySent, Resting, OneWrite, OneRequest, Requesting
  <2>3. Bootable' = Bootable /\ result' = "ok"
    BY <1>2, <2>1, <2>2, BootableRests DEF ReceivesResult, dvars
  <2>4. Leaving' \/ Gone'
    BY <2>1, <2>2, <2>3 DEF Leaving, Gone, dvars, locals, queues
  <2> QED
    BY <2>1, <2>3, <2>4 DEF Unspoilt
<1> QED
  BY <1>0, <1>1, <1>2, NoDisturbance DEF HostNext

\* The threads carry the stream and the messages.
LEMMA TalkingThreads ==
  ASSUME WInv, Unspoilt, Talking, ThreadNext
  PROVE  Talking' /\ Unspoilt'
<1> USE DEF NothingSent
<1>0. UNCHANGED <<dpc, gState, info, locals, rom, himg, hpc, bound, txEvent, result, abortEvent>>
  BY DEF ThreadNext, TxTop, TxFill, TxWaits, TxReap, TxExit, TxWire, TxErrors, RxCollect, OutPacket, InPacket,
         dvars, stream
<1>1. /\ OneWrite' /\ Resting' /\ Streaming' = Streaming /\ Bootable' = Bootable
  <2>1. OneWrite'
    BY <1>0 DEF Talking, OneWrite, OneRequest, Fresh, Fits, Base, HeaderAt, HeaderIfAny, ImgHeader,
              ErasedFrom, Rounded, BlocksOf, info, locals, rom
  <2> QED
    BY <1>0, <2>1, BootableRests DEF Talking, Resting, Streaming, locals
<1>2. CASE RxCollect
  <2>1. /\ UNCHANGED <<rxq, bufs, left>> /\ rxEvent' /\ exch' = Head(txq).cmd /\ txq # <<>> /\ txq' = Tail(txq)
    BY <1>2 DEF RxCollect, InPacket, stream
  <2>2. PICK c \in {Ask, "FW_WR_RDY"} : txq = <<Msg(c)>> /\ c = IF hpc = "waitask" THEN Ask ELSE "FW_WR_RDY"
    BY <2>1 DEF Talking, OnlySent, Waiting
  <2>3. txq' = <<>> /\ exch' = c
    BY <2>1, <2>2 DEF Msg
  <2>4. InSequence' = InSequence /\ Progress' = Progress
    BY <1>0, <2>1, StreamRests DEF locals
  <2>5. Copied'
    BY <1>0, <2>2, <2>3 DEF Talking, Copied, IsPacket, Base, ImgHeader, Written, Holds, InQueue, rom, locals, Ask
  <2>6. NoStream => NoStream'
    BY <1>0, <2>1 DEF NoStream
  <2>7. Talking'
    BY <1>0, <1>1, <2>1, <2>2, <2>3, <2>4, <2>5, <2>6 DEF Talking, Waiting, OnlySent, Ask
  <2> QED
    BY <1>0, <2>2, <2>3, <2>7 DEF Unspoilt, Ask
<1>3. CASE ~RxCollect
  <2>1. UNCHANGED <<txq, rxEvent, exch>> /\ (NoStream => bufs' = <<>> /\ rxq' = rxq)
        /\ (dpc = "firmware" => rxq' = rxq)
    BY <1>3 DEF ThreadNext, TxTop, TxFill, TxWaits, TxReap, TxExit, TxWire, TxErrors, OutPacket, Attached,
                NoStream, dvars, queues, inbox
  <2>2. Copied' = Copied
    BY <1>0, <2>1, CopyRests DEF locals
  <2>3. Streaming => InSequence' /\ Progress'
    <3>1. Streaming => bound /\ InSequence /\ Progress
      BY DEF Talking
    <3>2. CASE TxFill
      BY <3>1, <3>2, FillOrder
    <3>3. CASE TxWire
      BY <3>1, <3>3, WireOrder
    <3>4. CASE TxErrors
      BY <3>1, <3>4 DEF TxErrors
    <3>5. CASE TxTop \/ TxWaits \/ TxReap \/ TxExit
      <4>1. UNCHANGED <<nrx, rxq, bufs, left, himg>>
        BY <3>5 DEF TxTop, TxWaits, TxReap, TxExit, dvars, locals, queues
      <4> QED
        BY <3>1, <4>1, StreamRests
    <3> QED
      BY <1>3, <3>2, <3>3, <3>4, <3>5 DEF ThreadNext
  <2>4. NoStream => NoStream'
    BY <1>0, <2>1 DEF NoStream
  <2>5. Talking'
    BY <1>0, <1>1, <2>1, <2>2, <2>3, <2>4 DEF Talking, Waiting, OnlySent
  <2> QED
    BY <1>0, <2>1, <2>5 DEF Unspoilt
<1> QED
  BY <1>2, <1>3

\* The device writes what comes, block by block.
LEMMA TalkingCopies ==
  ASSUME WInv, Undisturbed, Unspoilt, Talking, aborts' = 0, DeviceNext
  PROVE  Copied'
<1>1. UNCHANGED <<himg, exch, left>> /\ Copied /\ OneWrite /\ hpc # "idle"
  BY DEF DeviceNext, HostSees, inbox, Talking, Waiting
<1>2. ~PowerLoss /\ ~QuietTimeout /\ (FlashWrite => ProgramBlock(Block)) /\ Fits
  BY <1>1, NoDisturbance
<1>3. CASE RxPacket
  <2>1. InSequence /\ Progress
    BY <1>3 DEF Talking, RxPacket, Streaming, Receiving
  <2>2. bufs' = bufs
    BY <1>3 DEF DeviceNext, HostSees, Attached, RxPacket
  <2> QED
    BY <1>1, <1>3, <2>1, <2>2, PacketOrder, PacketCopies
<1>4. CASE FlashWrite
  BY <1>1, <1>2, <1>4, BlockCopies
<1>5. CASE RxEndTest
  BY <1>1, <1>2, <1>5, EndCopies
<1>6. CASE RxCompare
  BY <1>1, <1>6, CompareCopies
<1>7. CASE \/ Boot \/ LoopNext \/ RxPatchLength \/ RxPatchCrc \/ RxCalcCrc \/ RxSwitch
  BY <1>1, <1>7, RestCopies
<1> QED
  BY <1>2, <1>3, <1>4, <1>5, <1>6, <1>7 DEF DeviceNext, RxNext

\* It takes the stream in its order.
LEMMA TalkingOrder ==
  ASSUME WInv, Talking, OneRequest', DeviceNext
  PROVE  (Streaming => bound /\ InSequence /\ Progress)'
<1> SUFFICES ASSUME Streaming' PROVE (bound /\ InSequence /\ Progress)'
    OBVIOUS
<1>1. OneRequest /\ Resting
  BY DEF Talking, OneWrite
<1>2. /\ Streaming /\ (bound => bound') /\ UNCHANGED <<bufs, left, himg>>
      /\ RxPacket \/ UNCHANGED <<nrx, rxq>>
  BY <1>1, StreamRuns DEF Resting
<1>3. bound /\ InSequence /\ Progress
  BY <1>2 DEF Talking
<1>4. CASE RxPacket
  BY <1>2, <1>3, <1>4, PacketOrder
<1>5. CASE UNCHANGED <<nrx, rxq>>
  BY <1>2, <1>3, <1>5, StreamRests
<1> QED
  BY <1>2, <1>4, <1>5

\* It sends the answer when it has erased, and the result when the image is there.
LEMMA TalkingSends ==
  ASSUME WInv, Undisturbed, Unspoilt, Talking, aborts' = 0, DeviceNext
  PROVE  /\ dpc' = "firmware" => rxq' = <<>>
         /\ hpc = "waitask" => OnlySent(Ask)' /\ (NothingSent' \/ dpc' \in {"asked", "rx"})
         /\ hpc = "sleep" => NothingSent' /\ dpc' \in {"asked", "rx"}
         /\ hpc = "waitres" =>
              \/ dpc' \in {"asked", "end"} \cup Receiving \cup Checking /\ NothingSent'
              \/ dpc' \in {"switch", "firmware"} /\ Bootable' /\ OnlySent("FW_WR_RDY")'
<1> USE DEF NothingSent
<1>0. /\ UNCHANGED <<hpc, exch, rxEvent, himg>> /\ OneWrite /\ OneRequest /\ TxCap > 0
      /\ Waiting /\ ~PowerLoss /\ ~QuietTimeout /\ TxCap \in Nat
  BY NoDisturbance, DeviceAssumption DEF DeviceNext, HostSees, inbox, Talking, Waiting, OneWrite
<1>1. CASE Boot \/ RxSwitch
  <2>1. /\ dpc \in {"reset", "switch"} /\ dpc' \in {"loop", "firmware"} /\ UNCHANGED rom
        /\ (dpc' = "firmware" => rxq' = <<>>) /\ (txq' = txq \/ txq' = <<>>)
        /\ (Bootable /\ dpc = "switch" => dpc' = "firmware")
    BY <1>1 DEF Boot, RxSwitch, DoSwitchToFirmware, StartFirmware, queues
  <2>2. Bootable' = Bootable
    BY <2>1, BootableRests
  <2>3. ASSUME hpc = "waitask" PROVE OnlySent(Ask)' /\ NothingSent'
    BY <1>0, <2>1, <2>3 DEF Talking, OnlySent
  <2>4. hpc # "sleep"
    BY <2>1 DEF Talking
  <2>5. ASSUME hpc = "waitres" PROVE dpc' = "firmware" /\ Bootable' /\ OnlySent("FW_WR_RDY")'
    <3>1. dpc = "switch" /\ Bootable /\ OnlySent("FW_WR_RDY")
      BY <2>1, <2>5 DEF Talking, Receiving, Checking
    <3> QED
      BY <1>0, <2>1, <2>2, <3>1 DEF OnlySent
  <2> QED
    BY <2>1, <2>3, <2>4, <2>5
<1>2. CASE LoopAsks
  <2>1. /\ dpc = "ask" /\ dpc' = "asked" /\ hpc = "waitask" /\ NothingSent
    BY <1>0, <1>2 DEF LoopAsks, Talking, Waiting, Receiving, Checking
  <2>2. txq' = <<Msg(Ask)>>
    BY <1>0, <1>2, <2>1 DEF LoopAsks, SendToHost, Ask
  <2> QED
    BY <1>0, <2>1, <2>2 DEF OnlySent
<1>3. CASE LoopReadsState \/ LoopReadsLength \/ FlashEraseSectors \/ LoopStartsTx
  <2>1. /\ dpc \in {"loop", "put", "erase", "get"} /\ dpc' \in {"put", "get", "erase", "ask", "txinit"} /\ txq' = txq
    BY <1>3 DEF LoopReadsState, LoopReadsLength, FlashEraseSectors, LoopStartsTx, queues
  <2>2. hpc = "waitask" /\ NothingSent
    BY <1>0, <2>1 DEF Talking, Waiting, Receiving, Checking
  <2> QED
    BY <1>0, <2>1, <2>2 DEF OnlySent
<1>4. CASE LoopStartsRx
  <2>1. dpc = "asked" /\ dpc' = "rx" /\ UNCHANGED <<txq, rxq>>
    BY <1>4 DEF LoopStartsRx, queues
  <2> QED
    BY <1>0, <2>1 DEF Talking, OnlySent, Receiving
<1>5. CASE RxPacket \/ RxPatchLength \/ RxPatchCrc \/ FlashWrite \/ RxEndTest \/ RxCalcCrc
  <2>1. /\ dpc \in {"end", "check"} \cup Receiving /\ dpc' \in {"end"} \cup Receiving \cup Checking /\ txq' = txq
        /\ dpc = "rx" => rxq # <<>>
    BY <1>5 DEF RxPacket, RxPatchLength, RxPatchCrc, FlashWrite, RxEndTest, RxCalcCrc, queues, Receiving, Checking
  <2>2. hpc = "waitres" /\ NothingSent
    BY <1>0, <2>1 DEF Talking, Waiting, NoStream, Receiving, Checking
  <2> QED
    BY <1>0, <2>1, <2>2 DEF Receiving, Checking
<1>6. CASE RxCompare
  <2>1. dpc = "compare" /\ hpc = "waitres" /\ NothingSent
    BY <1>0, <1>6 DEF RxCompare, Talking, Waiting, NoStream, Checking
  <2>2. Written(himg) /\ len = FwLength[himg] /\ fw_crc = CrcOf(himg) /\ himg \in Images
    BY <1>0, <2>1 DEF Talking, Copied, OneRequest, Checking, WInv, DialogOK
  <2>3. CrcIs(len, fw_crc) /\ Bootable
    BY <2>2, WrittenBoots, ImageRows DEF Written, CrcIs
  <2>4. dpc' = "switch" /\ SendToHost("FW_WR_RDY") /\ UNCHANGED rom
    BY <1>6, <2>3 DEF RxCompare
  <2>5. txq' = <<Msg("FW_WR_RDY")>> /\ Bootable'
    BY <1>0, <2>1, <2>3, <2>4, BootableRests DEF SendToHost
  <2> QED
    BY <1>0, <2>1, <2>4, <2>5 DEF OnlySent
<1> QED
  BY <1>0, <1>1, <1>2, <1>3, <1>4, <1>5, <1>6 DEF DeviceNext, LoopNext, RxNext

\* The talk goes on while the device works.
LEMMA TalkingDevice ==
  ASSUME WInv, Undisturbed, Unspoilt, Talking, aborts' = 0, DeviceNext
  PROVE  Talking'
<1>1. UNCHANGED <<hpc, himg>> /\ OneWrite /\ Resting /\ ~PowerLoss /\ ~QuietTimeout /\ hpc # "idle" /\ Waiting
  BY NoDisturbance DEF DeviceNext, HostSees, Talking, Waiting
<1>2. OneWrite' /\ OneRequest /\ OneRequest'
  <2>1. OneWrite'
    BY <1>1, RequestStep, StreamStep DEF DeviceNext
  <2> QED
    BY <1>1, <2>1 DEF OneWrite
<1>3. Resting'
  BY <1>1, <1>2, PositionReset DEF Resting
<1>4. NoStream => NoStream'
  BY <1>2, NoStreamStays
<1>5. Copied' /\ (Streaming => bound /\ InSequence /\ Progress)'
  BY <1>2, TalkingCopies, TalkingOrder
<1> QED
  BY <1>1, <1>2, <1>3, <1>4, <1>5, TalkingSends DEF Talking, Waiting
-----------------------------------------------------------------------------
\* What keeps the thread from leaving with a block pending.
LEMMA EndedStep == WInv /\ Ended /\ [WriteNext]_wvars => Ended'
<1> SUFFICES ASSUME WInv, Ended, [WriteNext]_wvars PROVE Ended'
    OBVIOUS
<1>1. CASE TxWire
  <2>1. txt # "exit" /\ txt' = txt
    BY <1>1 DEF TxWire, Ended
  <2> QED
    BY <2>1 DEF Ended
<1>2. CASE ~TxWire
  <2>1. (txt' = txt /\ bufs' = bufs) \/ txt' # "exit" \/ bufs' = <<>>
    BY <1>2 DEF WriteNext, HostNext, ThreadNext, DeviceNext, HostSees, Start, OpensUpgrader, OpensFirmware,
         OpensNothing, Arrival, SwitchTimeout, StartPipes, SendInfo, ReceivesAsk, EnableStream, ReceivesResult,
         WaitAborted, WaitTimeout, StopRx, StopTx, JoinTx, StopButton, Kill, TxTop, TxFill, TxWaits,
         TxReap, TxExit, TxErrors, RxCollect, stream, wvars, hvars
  <2> QED
    BY <2>1 DEF Ended
<1> QED
  BY <1>1, <1>2

\* Outside a talk no event, result or message is touched that could spoil it.
LEMMA UnspoiltStep ==
  ASSUME WInv, Undisturbed, Unspoilt, aborts' = 0, WriteNext, NothingSent
  PROVE  Unspoilt'
<1>1. ~RxCollect /\ ~ReceivesAsk /\ ~ReceivesResult
  BY NothingCollected
<1> QED
  BY <1>1, NoDisturbance
     DEF WriteNext, HostNext, ThreadNext, DeviceNext, HostSees, Start, OpensUpgrader, OpensFirmware, OpensNothing,
         Arrival, StartPipes, SendInfo, EnableStream, StopRx, StopTx, JoinTx, TxTop, TxFill, TxWaits,
         TxReap, TxExit, TxWire, TxErrors, inbox, Unspoilt

\* An abort is counted for good.
LEMMA AbortsGrow ==
  ASSUME WInv, [WriteNext]_wvars, aborts' = 0
  PROVE  aborts = 0
<1>1. aborts \in Nat
  BY WriteAssumption DEF WInv, CountsOK
<1>2. aborts' = aborts \/ aborts' = aborts + 1
  BY DEF WriteNext, HostNext, ThreadNext, DeviceNext, HostSees, Start, OpensUpgrader, OpensFirmware, OpensNothing,
         Arrival, SwitchTimeout, StartPipes, SendInfo, ReceivesAsk, EnableStream, ReceivesResult,
         WaitAborted, WaitTimeout, StopRx, StopTx, JoinTx, StopButton, Kill, TxTop, TxFill, TxWaits,
         TxReap, TxExit, TxWire, TxErrors, RxCollect, counts, wvars, hvars
<1> QED
  BY <1>1, <1>2

\* Session after session, step by step.
LEMMA UndisturbedStep ==
  ASSUME Undisturbed
  PROVE  WInv /\ UndisturbedInv /\ [WriteNext]_wvars => UndisturbedInv'
<1> SUFFICES ASSUME WInv, UndisturbedInv, [WriteNext]_wvars, aborts' = 0
             PROVE  (Unspoilt /\ Ended /\ Phase)'
    BY DEF UndisturbedInv
<1>1. aborts = 0
  BY AbortsGrow
<1>2. Unspoilt /\ Ended /\ Phase /\ Ended'
  BY <1>1, EndedStep DEF UndisturbedInv
<1>3. CASE UNCHANGED wvars
  <2>1. UNCHANGED <<dvars, himg, exch, bufs, left, hpc, bound, txEvent, rxEvent, abortEvent, result>>
    BY <1>3 DEF wvars, hvars, stream, inbox
  <2>2. /\ OneWrite' = OneWrite /\ Copied' = Copied /\ InSequence' = InSequence /\ Progress' = Progress
        /\ Bootable' = Bootable /\ NoStream' = NoStream /\ Streaming' = Streaming /\ NothingSent' = NothingSent
        /\ OnlySent(Ask)' = OnlySent(Ask) /\ OnlySent("FW_WR_RDY")' = OnlySent("FW_WR_RDY")
    BY <2>1, DeviceRests, CopyRests, StreamRests, BootableRests
       DEF dvars, locals, queues, NoStream, Streaming, NothingSent, OnlySent
  <2>3. /\ UNCHANGED <<dpc, gState, nrx, rxq, himg, bufs, left, hpc, bound, txEvent>>
    BY <2>1 DEF dvars, locals, queues
  <2>4. Calm => Calm'
    BY <2>2, <2>3 DEF Calm, BlocksOf
  <2>5. Talking => Talking'
    BY <2>2, <2>3 DEF Talking, Waiting, Resting
  <2>6. Leaving => Leaving'
    BY <2>2, <2>3 DEF Leaving, BlocksOf
  <2>7. (Gone => Gone') /\ (TooLate => TooLate')
    BY <2>2, <2>3 DEF Gone, TooLate
  <2> QED
    BY <1>2, <2>1, <2>4, <2>5, <2>6, <2>7 DEF Phase, Unspoilt
<1>4. CASE WriteNext /\ Talking
  <2>1. CASE DeviceNext
    <3>1. Unspoilt'
      BY <1>2, <2>1 DEF Unspoilt, DeviceNext, HostSees, inbox
    <3> QED
      BY <1>2, <1>4, <2>1, <3>1, TalkingDevice DEF Phase
  <2> QED
    BY <1>2, <1>4, <2>1, TalkingDialog, TalkingThreads DEF WriteNext, Phase
<1>5. CASE WriteNext /\ ~Talking
  <2>1. Unspoilt'
    BY <1>2, <1>5, UnspoiltStep DEF Phase, Calm, Leaving, Gone, TooLate
  <2> QED
    BY <1>2, <1>5, <2>1, CalmStep, LeavingStep, GoneStep, TooLateStep DEF Phase
<1> QED
  BY <1>3, <1>4, <1>5

\* It begins with a device at rest.
LEMMA UndisturbedStart == WriteInit => UndisturbedInv
<1> SUFFICES ASSUME WriteInit PROVE Unspoilt /\ Ended /\ Calm
    BY DEF UndisturbedInv, Phase
<1> QED
  BY DEF WriteInit, Init, Unspoilt, Ended, Calm, NothingSent

\* In every session, however many went before it, stream_rx takes the packets of
\* the image that this session announced, in their order, from the first on and
\* without a gap, as long as no session has been broken off: no packet of the
\* session before, image or padding, is taken for one of this.
THEOREM StreamsInOrder ==
  ASSUME Undisturbed
  PROVE  WriteSpec => []StreamInOrder
<1>1. WInv /\ StreamInv /\ UndisturbedInv => StreamInOrder
  <2> SUFFICES ASSUME WInv, StreamInv, UndisturbedInv, aborts = 0 \/ sessions <= 1,
                      dpc = "rx", rxq # <<>>, hpc \in {"waitask", "sleep", "waitres"}
               PROVE  Head(rxq) = <<himg, nrx + 1>> \/ nrx >= ImageLen[himg]
      BY DEF StreamInOrder
  <2>1. InSequence
    <3>1. CASE sessions <= 1
      BY <3>1 DEF StreamInv, OrderInv, Waiting, Streaming, Receiving
    <3>2. CASE aborts = 0
      <4>1. Talking
        BY <3>2 DEF UndisturbedInv, Phase, Calm, Leaving, Gone, TooLate
      <4> QED
        BY <4>1 DEF Talking, Streaming, Receiving
    <3> QED
      BY <3>1, <3>2
  <2>2. Head(rxq) = rxq[1] /\ 1 \in 1 .. Len(rxq)
    BY StreamFacts
  <2>3. IsPacket(nrx + 1, Head(rxq))
    BY <2>1, <2>2 DEF InSequence
  <2> QED
    BY <2>3, StreamFacts DEF IsPacket
<1> QED
  BY <1>1, WriteStart, WriteStep, FirstStart, FirstStep, StreamStart, StreamInvStep,
     UndisturbedStart, UndisturbedStep, PTL DEF WriteSpec

\* A user who lets every session end sees no error, however often he writes, and
\* no other end than "Done."; and each time the device that has sent FW_WR_RDY
\* starts the firmware, also when the next session has come before the switch
\* and its request has changed the globals.
THEOREM UndisturbedSucceeds ==
  ASSUME Undisturbed
  PROVE  WriteSpec => /\ [](aborts = 0 => result \in {"none", "ok"})
                      /\ [][aborts' = 0 /\ dpc = "switch" /\ dpc' # "switch" => dpc' = "firmware"]_wvars
<1>1. UndisturbedInv => (aborts = 0 => result \in {"none", "ok"})
  BY DEF UndisturbedInv, Unspoilt
<1>2. WInv /\ UndisturbedInv /\ WInv' /\ [WriteNext]_wvars =>
        [aborts' = 0 /\ dpc = "switch" /\ dpc' # "switch" => dpc' = "firmware"]_wvars
  <2> SUFFICES ASSUME WInv, UndisturbedInv, WInv', [WriteNext]_wvars, aborts' = 0, dpc = "switch", dpc' # "switch"
               PROVE  dpc' = "firmware"
      OBVIOUS
  <2>1. Phase
    BY AbortsGrow DEF UndisturbedInv
  <2>2. Bootable
    BY <2>1 DEF Phase, Calm, Talking, Waiting, NoStream, Receiving, Checking, Leaving, Gone, TooLate
  <2>3. faults = 0 /\ faults' = 0
    BY DEF WInv, DInv, TypeOK, Undisturbed
  <2> QED
    BY <2>2, <2>3, BootableStarts
<1> QED
  BY <1>1, <1>2, WriteStart, WriteStep, UndisturbedStart, UndisturbedStep, PTL DEF WriteSpec
=============================================================================
