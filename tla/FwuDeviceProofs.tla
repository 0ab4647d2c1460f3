-------------------------- MODULE FwuDeviceProofs --------------------------
(***************************************************************************)
(* Proofs about the upgrader with a host that sends anything at any time,  *)
(* for all images, block, flash and queue sizes: its memory keeps within   *)
(* bounds, and only an intact firmware is started.                         *)
(*                                                                         *)
(* TypeOK is not inductive: that the block buffer and the read position    *)
(* are in range depends on where the main loop is (Shape).                 *)
(***************************************************************************)
EXTENDS FwuDevice, SequenceTheorems, TLAPS

\* The main loop has a whole block exactly when it is about to write one.
BlockShape == /\ dpc = "rx" => Len(rbuf) < Block
              /\ dpc \in {"patchlen", "patchcrc", "write"} => Len(rbuf) = Block
              /\ dpc \notin {"rx", "patchlen", "patchcrc", "write"} => rbuf = <<>>

\* stream_tx reads inside the flash.
TxShape == dpc = "tx" => len <= Rows(FlashSize) /\ ntx < FlashSize

Shape == BlockShape /\ TxShape

DInv == TypeOK /\ Shape
-----------------------------------------------------------------------------
(* Facts about the data.                                                   *)

\* An image has a packet at least, the header is that of a firmware.
LEMMA ImageFacts ==
  /\ ImageLen \in [Images -> Nat \ {0}]
  /\ \A i \in Images : Header(i) \in Headers /\ CrcOf(i) \in Crcs
<1>1. \A i \in Images : FwLength[i] \in Nat \ {0}
  BY DeviceAssumption
<1>2. \A n \in Nat \ {0} : PacketsOf(n) \in Nat \ {0}
  BY DEF PacketsOf
<1> QED
  BY <1>1, <1>2 DEF ImageLen, Header, Headers, CrcOf, Crcs

\* What a packet of erased, half-erased or image flash is.
LEMMA PacketFacts ==
  /\ FF \in Packets /\ Garbage \in Packets
  /\ \A i \in Images : \A k \in 1 .. ImageLen[i] : <<i, k>> \in Packets
  BY DEF Packets, ImagePackets

\* Programming yields a packet and a header again.
LEMMA ProgramType ==
  /\ \A old, new \in Packets : Program(old, new) \in Packets
  /\ \A old, new \in Headers : ProgramHdr(old, new) \in Headers
  /\ BlankHdr \in Headers
  BY PacketFacts DEF Program, ProgramHdr, Headers, BlankHdr, Crcs

\* Commands and packets read are messages.
LEMMA MessageType ==
  /\ Msg("PUT_FW_INFO_ASK") \in Messages /\ Msg("FW_WR_RDY") \in Messages
  /\ Msg("FW_WR_ERR") \in Messages
  /\ \A p \in Packets : Data(p) \in Messages
  BY DEF Messages

\* The header in flash as fw_length and fw_crc.
LEMMA HeaderType == \A h \in Headers : h.len \in Int /\ h.crc \in Crcs
  BY DEF Headers

\* A message is queued or dropped.
LEMMA SendType ==
  ASSUME TypeOK, NEW c, Msg(c) \in Messages, SendToHost(c)
  PROVE  txq' \in Seq(Messages) /\ Len(txq') <= TxCap
  BY DeviceAssumption DEF TypeOK, SendToHost

\* The header goes to the globals; the queues are kept, or gone with the RAM.
LEMMA SwitchType ==
  ASSUME TypeOK, NEW else, DoSwitchToFirmware(else)
  PROVE  /\ fw_length' \in Int /\ fw_crc' \in Crcs
         /\ rxq' \in Seq(Packets) /\ Len(rxq') <= RxCap
         /\ txq' \in Seq(Messages) /\ Len(txq') <= TxCap
         /\ dpc' \in {"firmware", else}
<1>1. fw_length' \in Int /\ fw_crc' \in Crcs
  BY HeaderType DEF TypeOK, DoSwitchToFirmware
<1>2. CASE StartFirmware
  <2>1. rxq' = <<>> /\ txq' = <<>> /\ dpc' = "firmware"
    BY <1>2 DEF StartFirmware
  <2>2. <<>> \in Seq(Packets) /\ <<>> \in Seq(Messages) /\ Len(<<>>) = 0
    OBVIOUS
  <2> QED
    BY <1>1, <2>1, <2>2, DeviceAssumption
<1>3. CASE dpc' = else /\ UNCHANGED queues
  BY <1>1, <1>3 DEF TypeOK, queues
<1> QED
  BY <1>2, <1>3 DEF DoSwitchToFirmware

\* A block is programmed as far as the flash goes.
LEMMA ProgramBlockType ==
  ASSUME DInv, dpc = "write", NEW n \in 0 .. Block, ProgramBlock(n)
  PROVE  flash' \in [1 .. FlashSize -> Packets] /\ hdr' \in Headers
<1>1. Len(rbuf) = Block /\ rbuf \in Seq(Packets) /\ nrx \in Nat /\ Block \in Nat
  BY DeviceAssumption DEF DInv, TypeOK, Shape, BlockShape
<1>2. ASSUME NEW k \in 1 .. FlashSize, k \in nrx - Block + 1 .. nrx - Block + n
      PROVE  rbuf[k - (nrx - Block)] \in Packets
  BY <1>1, <1>2
<1>3. flash' \in [1 .. FlashSize -> Packets]
  BY <1>2, ProgramType DEF ProgramBlock, DInv, TypeOK
<1>4. hdr' \in Headers
  BY ProgramType DEF ProgramBlock, DInv, TypeOK
<1> QED
  BY <1>3, <1>4
-----------------------------------------------------------------------------
(* Type correctness, one lemma per part of Next.                           *)

\* After power-on the flash is empty or holds a firmware.
LEMMA DevInit == Init => DInv
<1> SUFFICES ASSUME Init PROVE DInv
    OBVIOUS
<1>1. flash \in [1 .. FlashSize -> Packets] /\ hdr \in Headers
  <2>1. CASE flash = [k \in 1 .. FlashSize |-> FF] /\ hdr = BlankHdr
    BY <2>1, PacketFacts, ProgramType
  <2>2. ASSUME NEW i \in Images,
               flash = [k \in 1 .. FlashSize |-> IF k <= ImageLen[i] THEN <<i, k>> ELSE FF],
               hdr = Header(i)
        PROVE  flash \in [1 .. FlashSize -> Packets] /\ hdr \in Headers
    <3>1. ImageLen[i] \in Nat
      BY ImageFacts
    <3>2. hdr \in Headers
      BY <2>2, ImageFacts
    <3>3. \A k \in 1 .. FlashSize : (IF k <= ImageLen[i] THEN <<i, k>> ELSE FF) \in Packets
      BY <3>1, PacketFacts, DeviceAssumption
    <3> QED
      BY <2>2, <3>2, <3>3
  <2> QED
    BY <2>1, <2>2 DEF Init
<1>2. TypeOK
  <2>1. <<>> \in Seq(Packets) /\ <<>> \in Seq(Messages) /\ Len(<<>>) = 0
    OBVIOUS
  <2>2. 0 \in 0 .. MaxFaults /\ 0 <= RxCap /\ 0 <= TxCap /\ 0 <= Block
    BY DeviceAssumption
  <2>3. /\ dpc = "reset" /\ gState = "DEFAULT" /\ fw_length = 0 /\ fw_crc = Zero
        /\ len = 0 /\ nrx = 0 /\ ntx = 0 /\ rbuf = <<>> /\ rhdr = BlankHdr
        /\ rxq = <<>> /\ txq = <<>> /\ mark = FALSE /\ faults = 0
    BY DEF Init
  <2>4. /\ rbuf \in Seq(Packets) /\ Len(rbuf) <= Block
        /\ rxq \in Seq(Packets) /\ Len(rxq) <= RxCap
        /\ txq \in Seq(Messages) /\ Len(txq) <= TxCap
    BY <2>1, <2>2, <2>3
  <2>5. dpc \in Points /\ gState \in States
    BY <2>3 DEF Points, States
  <2>6. fw_length \in Int /\ fw_crc \in Crcs
    BY <2>3 DEF Crcs
  <2>7. len \in Int /\ nrx \in Nat /\ ntx \in Nat
    BY <2>3
  <2>8. rhdr \in Headers
    BY <2>3, ProgramType
  <2>9. mark \in BOOLEAN
    BY <2>3
  <2>10. faults \in 0 .. MaxFaults
    BY <2>2, <2>3
  <2> QED
    BY <1>1, <2>4, <2>5, <2>6, <2>7, <2>8, <2>9, <2>10 DEF TypeOK
<1>3. Shape
  BY DEF Init, Shape, BlockShape, TxShape
<1> QED
  BY <1>2, <1>3 DEF DInv

\* Boot and the main loop outside the two streams.
LEMMA DevLoop == DInv /\ (Boot \/ LoopNext) => DInv'
<1> SUFFICES ASSUME DInv, Boot \/ LoopNext PROVE DInv'
    OBVIOUS
<1> USE DEF DInv
<1>1. CASE Boot
  <2>1. CASE mark
    BY <1>1, <2>1 DEF Boot, TypeOK, Shape, BlockShape, TxShape, Points, info, locals, queues, rom
  <2>2. CASE ~mark
    <3>1. DoSwitchToFirmware("loop")
      BY <1>1, <2>2 DEF Boot
    <3>2. /\ fw_length' \in Int /\ fw_crc' \in Crcs
          /\ rxq' \in Seq(Packets) /\ Len(rxq') <= RxCap
          /\ txq' \in Seq(Messages) /\ Len(txq') <= TxCap
          /\ dpc' \in {"firmware", "loop"}
      BY <3>1, SwitchType
    <3>3. dpc = "reset" /\ mark' = FALSE /\ UNCHANGED <<gState, locals, rom, faults>>
      BY <1>1 DEF Boot
    <3> QED
      BY <3>2, <3>3 DEF TypeOK, Shape, BlockShape, TxShape, Points, locals, rom
  <2> QED
    BY <2>1, <2>2
<1>2. CASE LoopReadsState
  BY <1>2 DEF LoopReadsState, TypeOK, Shape, BlockShape, TxShape, Points, info, locals, queues, rom
<1>3. CASE LoopReadsLength
  BY <1>3 DEF LoopReadsLength, TypeOK, Shape, BlockShape, TxShape, Points, info, queues, rom
<1>4. CASE FlashEraseSectors
  <2>1. flash' \in [1 .. FlashSize -> Packets] /\ hdr' \in Headers
    BY <1>4, PacketFacts, ProgramType DEF FlashEraseSectors, TypeOK
  <2> QED
    BY <1>4, <2>1 DEF FlashEraseSectors, TypeOK, Shape, BlockShape, TxShape, Points, info, queues
<1>5. CASE LoopAsks
  BY <1>5, SendType, MessageType DEF LoopAsks, TypeOK, Shape, BlockShape, TxShape, Points, info, locals, rom
<1>6. CASE LoopStartsRx
  BY <1>6, ProgramType, DeviceAssumption
     DEF LoopStartsRx, TypeOK, Shape, BlockShape, TxShape, Points, States, NoLocals, info, queues, rom
<1>7. CASE LoopStartsTx
  BY <1>7 DEF LoopStartsTx, TypeOK, Shape, BlockShape, TxShape, Points, States, info, locals, queues, rom
<1> QED
  BY <1>1, <1>2, <1>3, <1>4, <1>5, <1>6, <1>7 DEF LoopNext

\* stream_rx: the block buffer never holds more than a block.
LEMMA DevRx == DInv /\ (RxNext \/ RxTimeout) => DInv'
<1> SUFFICES ASSUME DInv, RxNext \/ RxTimeout PROVE DInv'
    OBVIOUS
<1> USE DEF DInv
<1>1. CASE RxPacket
  <2>1. /\ rxq # <<>> /\ rbuf' = Append(rbuf, Head(rxq)) /\ rxq' = Tail(rxq) /\ nrx' = nrx + 1
        /\ rxq \in Seq(Packets) /\ rbuf \in Seq(Packets)
        /\ Len(rbuf) < Block /\ Len(rxq) <= RxCap
    BY <1>1 DEF RxPacket, TypeOK, Shape, BlockShape
  <2>2. rbuf' \in Seq(Packets) /\ Len(rbuf') = Len(rbuf) + 1
    BY <2>1, HeadTailProperties, AppendProperties
  <2>3. rxq' \in Seq(Packets) /\ Len(rxq') <= RxCap
    BY <2>1, HeadTailProperties, DeviceAssumption
  <2>4. dpc' = IF Len(rbuf') < Block THEN "rx" ELSE IF nrx' = Block THEN "patchlen" ELSE "write"
    BY <1>1 DEF RxPacket
  <2>5. Len(rbuf') <= Block /\ Shape'
    BY <2>1, <2>2, <2>4, DeviceAssumption DEF Shape, BlockShape, TxShape
  <2>6. dpc' \in Points
    BY <2>4 DEF Points
  <2> QED
    BY <1>1, <2>1, <2>2, <2>3, <2>5, <2>6 DEF RxPacket, TypeOK, info, rom
<1>2. CASE RxPatchLength
  <2>1. rhdr' \in Headers
    BY <1>2 DEF RxPatchLength, TypeOK, Headers
  <2> QED
    BY <1>2, <2>1 DEF RxPatchLength, TypeOK, Shape, BlockShape, TxShape, Points, info, queues, rom
<1>3. CASE RxPatchCrc
  <2>1. rhdr' \in Headers
    BY <1>3 DEF RxPatchCrc, TypeOK, Headers
  <2> QED
    BY <1>3, <2>1 DEF RxPatchCrc, TypeOK, Shape, BlockShape, TxShape, Points, info, queues, rom
<1>4. CASE FlashWrite
  <2>1. flash' \in [1 .. FlashSize -> Packets] /\ hdr' \in Headers
    <3>1. CASE ProgramBlock(Block)
      BY <1>4, <3>1, ProgramBlockType, DeviceAssumption DEF FlashWrite
    <3>2. CASE UNCHANGED rom
      BY <3>2 DEF rom, TypeOK
    <3> QED
      BY <1>4, <3>1, <3>2 DEF FlashWrite
  <2>2. faults' \in 0 .. MaxFaults
    BY <1>4, DeviceAssumption DEF FlashWrite, TypeOK
  <2> QED
    BY <1>4, <2>1, <2>2, ProgramType, DeviceAssumption
       DEF FlashWrite, TypeOK, Shape, BlockShape, TxShape, Points, info, queues
<1>5. CASE RxEndTest
  BY <1>5, DeviceAssumption DEF RxEndTest, TypeOK, Shape, BlockShape, TxShape, Points, info, locals, queues, rom
<1>6. CASE RxCalcCrc
  BY <1>6 DEF RxCalcCrc, TypeOK, Shape, BlockShape, TxShape, Points, info, queues, rom
<1>7. CASE RxCompare
  <2>1. txq' \in Seq(Messages) /\ Len(txq') <= TxCap
    BY <1>7, SendType, MessageType DEF RxCompare
  <2> QED
    BY <1>7, <2>1, ProgramType, DeviceAssumption
       DEF RxCompare, TypeOK, Shape, BlockShape, TxShape, Points, NoLocals, info, rom
<1>8. CASE RxSwitch
  BY <1>8, SwitchType DEF RxSwitch, TypeOK, Shape, BlockShape, TxShape, Points, locals, rom
<1>9. CASE RxTimeout
  BY <1>9, ProgramType, DeviceAssumption
     DEF RxTimeout, TypeOK, Shape, BlockShape, TxShape, Points, States, NoLocals, info, queues, rom
<1> QED
  BY <1>1, <1>2, <1>3, <1>4, <1>5, <1>6, <1>7, <1>8, <1>9 DEF RxNext

\* stream_tx: it ends before it reads behind the flash, because the flash is
\* made of whole blocks.
LEMMA DevTx == DInv /\ TxNext => DInv'
<1> SUFFICES ASSUME DInv, TxNext PROVE DInv'
    OBVIOUS
<1> USE DEF DInv
<1>1. CASE TxInit
  BY <1>1, DeviceAssumption DEF TxInit, TypeOK, Rows, Shape, BlockShape, TxShape, Points, info, queues, rom
<1>2. CASE TxPacket
  <2>1. /\ ntx \in Nat /\ len \in Int /\ FlashSize \in Nat /\ FlashSize % Block = 0
        /\ len <= Rows(FlashSize) /\ ntx < FlashSize /\ dpc = "tx" /\ TxCap \in Nat
        /\ txq \in Seq(Messages) /\ Len(txq) <= TxCap
    BY <1>2, DeviceAssumption DEF TxPacket, TypeOK, Shape, TxShape
  <2>2. Data(flash[ntx + 1]) \in Messages
    <3>1. flash[ntx + 1] \in Packets
      BY <2>1 DEF TypeOK
    <3> QED
      BY <3>1, MessageType
  <2>3. /\ txq' \in Seq(Messages) /\ Len(txq') <= TxCap
        /\ ntx' \in Nat /\ ntx' <= FlashSize
    <3>1. CASE Len(txq) < TxCap /\ txq' = Append(txq, Data(flash[ntx + 1])) /\ ntx' = ntx + 1
      BY <2>1, <2>2, <3>1
    <3>2. CASE UNCHANGED <<txq, ntx>>
      BY <2>1, <3>2
    <3> QED
      BY <1>2, <3>1, <3>2 DEF TxPacket
  <2>4. dpc' = "tx" => ntx' < FlashSize
    <3>1. ntx' % Block = 0 /\ ntx' = FlashSize => Rows(ntx') >= len
      BY <2>1 DEF Rows
    <3>2. dpc' = IF ntx' % Block = 0 /\ Rows(ntx') >= len THEN "txswitch" ELSE "tx"
      BY <1>2 DEF TxPacket
    <3>3. ntx' # FlashSize \/ ntx' % Block = 0
      BY <2>1
    <3> QED
      BY <2>1, <2>3, <3>1, <3>2, <3>3
  <2>5. dpc' \in {"tx", "txswitch"}
    BY <1>2 DEF TxPacket
  <2> QED
    BY <1>2, <2>1, <2>3, <2>4, <2>5
       DEF TxPacket, TypeOK, Shape, BlockShape, TxShape, Points, info, rom
<1>3. CASE TxTimeout
  BY <1>3, ProgramType, DeviceAssumption
     DEF TxTimeout, TypeOK, Shape, BlockShape, TxShape, Points, States, NoLocals, info, queues, rom
<1>4. CASE TxSwitch
  BY <1>4, SwitchType, ProgramType, DeviceAssumption
     DEF TxSwitch, TypeOK, Shape, BlockShape, TxShape, Points, NoLocals, rom
<1>5. CASE TxSwitchFailed
  BY <1>5 DEF TxSwitchFailed, TypeOK, Shape, BlockShape, TxShape, Points, States, info, locals, queues, rom
<1> QED
  BY <1>1, <1>2, <1>3, <1>4, <1>5 DEF TxNext

\* The interrupt touches the globals and the queues only.
LEMMA DevUsb == DInv /\ UsbNext => DInv'
<1> SUFFICES ASSUME DInv, UsbNext PROVE DInv'
    OBVIOUS
<1> USE DEF DInv
<1>1. ASSUME NEW fw \in Infos, PutFwInfo(fw) PROVE DInv'
  <2>1. fw.len \in Int /\ fw.crc \in Crcs
    BY InfoAssumption, HeaderType
  <2> QED
    BY <1>1, <2>1 DEF PutFwInfo, TypeOK, Shape, BlockShape, TxShape, States, locals, queues, rom
<1>2. CASE GetFwInfo
  BY <1>2, HeaderType DEF GetFwInfo, TypeOK, Shape, BlockShape, TxShape, locals, queues, rom
<1>3. CASE GetFw
  BY <1>3 DEF GetFw, TypeOK, Shape, BlockShape, TxShape, States, info, locals, queues, rom
<1>4. CASE SetConfiguration
  <2>1. PICK n \in 0 .. Len(rxq) : rxq' = SubSeq(rxq, 1, Len(rxq) - n)
    BY <1>4 DEF SetConfiguration
  <2>2. rxq \in Seq(Packets) /\ Len(rxq) \in Nat /\ Len(rxq) <= RxCap /\ RxCap \in Nat
    BY DeviceAssumption DEF TypeOK
  <2>3. rxq' \in Seq(Packets) /\ Len(rxq') <= RxCap
    <3>1. \A k \in 1 .. Len(rxq) - n : rxq[k] \in Packets
      BY <2>1, <2>2
    <3>2. /\ SubSeq(rxq, 1, Len(rxq) - n) \in Seq(Packets)
          /\ Len(SubSeq(rxq, 1, Len(rxq) - n)) = IF 1 <= Len(rxq) - n THEN Len(rxq) - n - 1 + 1 ELSE 0
      BY <2>1, <2>2, <3>1, SubSeqProperties
    <3> QED
      BY <2>1, <2>2, <3>2
  <2>4. txq' \in Seq(Messages) /\ Len(txq') <= TxCap
    <3>1. txq \in Seq(Messages) /\ Len(txq) <= TxCap /\ TxCap \in Nat
      BY DeviceAssumption DEF TypeOK
    <3>2. txq' = txq \/ (txq # <<>> /\ txq' = Tail(txq))
      BY <1>4 DEF SetConfiguration
    <3> QED
      BY <3>1, <3>2, HeadTailProperties
  <2> QED
    BY <1>4, <2>3, <2>4 DEF SetConfiguration, TypeOK, Shape, BlockShape, TxShape, info, locals, rom
<1>5. CASE InPacket
  <2>1. txq' \in Seq(Messages) /\ Len(txq') <= TxCap
    BY <1>5, HeadTailProperties, DeviceAssumption DEF InPacket, TypeOK
  <2> QED
    BY <1>5, <2>1 DEF InPacket, TypeOK, Shape, BlockShape, TxShape, info, locals, rom
<1>6. ASSUME NEW p \in Packets, OutPacket(p) PROVE DInv'
  <2>1. rxq' \in Seq(Packets) /\ Len(rxq') <= RxCap
    BY <1>6, DeviceAssumption DEF OutPacket, TypeOK
  <2> QED
    BY <1>6, <2>1 DEF OutPacket, TypeOK, Shape, BlockShape, TxShape, info, locals, rom
<1> QED
  BY <1>1, <1>2, <1>3, <1>4, <1>5, <1>6 DEF UsbNext

\* A restart leaves what the flash holds, or a half-done erase or write.
LEMMA DevRestart == DInv /\ (AppSwitchToFwu \/ PowerLoss) => DInv'
<1> SUFFICES ASSUME DInv, AppSwitchToFwu \/ PowerLoss PROVE DInv'
    OBVIOUS
<1> USE DEF DInv
<1>1. flash' \in [1 .. FlashSize -> Packets] /\ hdr' \in Headers
  <2>1. CASE UNCHANGED rom
    BY <2>1 DEF rom, TypeOK
  <2>2. ASSUME NEW half \in SUBSET ErasedBy(len),
               flash' = [k \in 1 .. FlashSize |-> IF k \in half THEN Garbage ELSE flash[k]],
               hdr' = IF 1 \in half THEN [hdr EXCEPT !.crc = Garbage] ELSE hdr
        PROVE  flash' \in [1 .. FlashSize -> Packets] /\ hdr' \in Headers
    BY <2>2, PacketFacts DEF TypeOK, Headers, Crcs
  <2>3. ASSUME dpc = "write", NEW n \in 1 .. Block, ProgramBlock(n)
        PROVE  flash' \in [1 .. FlashSize -> Packets] /\ hdr' \in Headers
    <3>1. n \in 0 .. Block
      BY DeviceAssumption
    <3> QED
      BY <2>3, <3>1, ProgramBlockType
  <2> QED
    BY <2>1, <2>2, <2>3 DEF AppSwitchToFwu, PowerLoss
<1>2. faults' \in 0 .. MaxFaults
  BY DeviceAssumption DEF AppSwitchToFwu, PowerLoss, TypeOK
<1>3. NoLocals /\ ClearRam /\ dpc' = "reset" /\ mark' \in BOOLEAN
  BY DEF AppSwitchToFwu, PowerLoss
<1> QED
  BY <1>1, <1>2, <1>3, ProgramType, DeviceAssumption
     DEF NoLocals, ClearRam, TypeOK, Crcs, Shape, BlockShape, TxShape, Points, States

\* Every step keeps the invariant.
LEMMA DevStep == DInv /\ [Next]_dvars => DInv'
<1> SUFFICES ASSUME DInv, [Next]_dvars PROVE DInv'
    OBVIOUS
<1>1. CASE UNCHANGED dvars
  BY <1>1 DEF DInv, TypeOK, Shape, BlockShape, TxShape, dvars, info, locals, queues, rom
<1>2. CASE Next
  BY <1>2, DevLoop, DevRx, DevTx, DevUsb, DevRestart DEF Next, MainNext
<1> QED
  BY <1>1, <1>2

\* Whatever the host sends and whenever the power fails, the upgrader's queues
\* and block buffer keep within their memory and its flash accesses within the
\* flash.
THEOREM DeviceTypeOK == Spec => []TypeOK
<1>1. DInv => TypeOK
  BY DEF DInv
<1> QED
  BY <1>1, DevInit, DevStep, PTL DEF Spec

-----------------------------------------------------------------------------
(* Only an intact firmware is started.                                     *)

\* do_switch_to_firmware starts the firmware only if the flash holds an image
\* whose length and CRC its header gives, or the header covers nothing.
LEMMA SwitchIsIntact ==
  ASSUME TypeOK, NEW else, else # "firmware", UNCHANGED rom, DoSwitchToFirmware(else)
  PROVE  RunningIsIntact'
<1>1. CASE Bootable
  <2>1. hdr \in Headers /\ hdr = [len |-> hdr.len, crc |-> hdr.crc] /\ hdr.len \in Int
    BY DEF TypeOK, Headers
  <2>2. CASE hdr.len <= 1 /\ hdr.crc = Zero
    <3>1. hdr = [len |-> 1, crc |-> Zero]
      BY <1>1, <2>1, <2>2 DEF Bootable
    <3> QED
      BY <3>1 DEF RunningIsIntact, rom
  <2>3. CASE hdr.len > 1 /\ hdr.crc \in Images /\ hdr.len = FwLength[hdr.crc] /\ Holds(hdr.crc)
    <3>1. hdr = Header(hdr.crc)
      BY <2>1, <2>3 DEF Header, CrcOf
    <3> QED
      BY <2>3, <3>1 DEF RunningIsIntact, Holds, rom
  <2> QED
    BY <1>1, <2>2, <2>3 DEF Bootable, CrcIs
<1>2. CASE dpc' = else
  BY <1>2 DEF RunningIsIntact
<1> QED
  BY <1>1, <1>2 DEF DoSwitchToFirmware

\* Every step keeps it: a firmware that runs leaves the flash alone.
LEMMA IntactStep == DInv /\ RunningIsIntact /\ [Next]_dvars => RunningIsIntact'
<1> SUFFICES ASSUME DInv, RunningIsIntact, [Next]_dvars PROVE RunningIsIntact'
    OBVIOUS
<1>1. CASE dpc' # "firmware"
  BY <1>1 DEF RunningIsIntact
<1>2. CASE dpc = "firmware" /\ UNCHANGED rom
  BY <1>2 DEF RunningIsIntact, Holds, rom
<1>3. CASE Boot \/ RxSwitch \/ TxSwitch
  <2>1. CASE Boot /\ mark
    BY <2>1 DEF Boot, RunningIsIntact
  <2>2. CASE Boot /\ ~mark
    BY <2>2, SwitchIsIntact DEF Boot, DInv
  <2>3. CASE RxSwitch
    BY <2>3, SwitchIsIntact DEF RxSwitch, DInv
  <2>4. CASE TxSwitch
    BY <2>4, SwitchIsIntact DEF TxSwitch, DInv
  <2> QED
    BY <1>3, <2>1, <2>2, <2>3, <2>4
<1>4. CASE UNCHANGED dvars
  BY <1>4 DEF dvars, rom, RunningIsIntact, Holds
<1>5. CASE UsbNext
  BY <1>5, <1>1 DEF UsbNext, PutFwInfo, GetFwInfo, GetFw, SetConfiguration, InPacket, OutPacket,
                    Attached
<1>6. CASE LoopNext
  BY <1>1, <1>6 DEF LoopNext, LoopReadsState, LoopReadsLength, FlashEraseSectors, LoopAsks,
                    LoopStartsRx, LoopStartsTx
<1>7. CASE RxNext \/ RxTimeout
  BY <1>1, <1>3, <1>7 DEF RxNext, RxPacket, RxPatchLength, RxPatchCrc, FlashWrite,
                          RxEndTest, RxCalcCrc, RxCompare, RxTimeout
<1>8. CASE TxNext
  BY <1>1, <1>3, <1>8 DEF TxNext, TxInit, TxPacket, TxTimeout, TxSwitchFailed
<1>9. CASE AppSwitchToFwu \/ PowerLoss
  BY <1>1, <1>9 DEF AppSwitchToFwu, PowerLoss
<1> QED
  BY <1>3, <1>4, <1>5, <1>6, <1>7, <1>8, <1>9 DEF Next, MainNext

\* Whatever was announced, sent, written, aborted or lost before: a firmware that
\* runs is a whole image with its own header, unless a length within the header
\* was announced with the CRC of nothing.
THEOREM DeviceRunsIntact == Spec => []RunningIsIntact
<1>1. Init => RunningIsIntact
  BY DEF Init, RunningIsIntact
<1> QED
  BY <1>1, DevInit, DevStep, IntactStep, PTL DEF Spec
=============================================================================
