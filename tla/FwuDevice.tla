------------------------------ MODULE FwuDevice ------------------------------
(***************************************************************************)
(* The Firmware Upgrader in the LPC214x: its main loop (fwu.c), the USB    *)
(* interrupt that preempts it, the flash it writes, and the boot decision  *)
(* that starts the firmware.                                               *)
(*                                                                         *)
(* Units: the length of a firmware, fw_length, counts rows of 32 bytes,    *)
(* begun ones too; the first row is the header, FW_START_OFFSET bytes that *)
(* no CRC covers, with the words `hdr` in it.  All else counts packets of  *)
(* two rows.  Block packets make one 4096-byte transfer unit, which is     *)
(* also the flash sector of the model.  A packet is <<i, k>>, the k-th of  *)
(* image i, or FF, 64 bytes of 0xFF: what erased flash reads as.  CRC32 is *)
(* taken to be injective: the CRC of what is behind the header is that of  *)
(* image i exactly when it is image i, and that of nothing is 0.           *)
(*                                                                         *)
(* Each packet queue, with the controller buffer behind it, appears here   *)
(* as the FIFO channel that FwuQueue implements.                           *)
(***************************************************************************)
EXTENDS Integers, Sequences

CONSTANTS Images,       \* firmware images a host may send
          FwLength,     \* [Images -> length in rows]
          Infos,        \* what the host may announce: lengths and CRCs
          Block,        \* STREAM_BUF_SIZE, in packets
          FlashSize,    \* FLASH_SIZE - FW_LOAD_ADDR, in packets
          RxCap, TxCap, \* packets queueEP2RX (and controller) / queueEP2TX hold
          FF,           \* 0xFF...: erased flash
          Garbage,      \* any other contents
          Zero,         \* the CRC of nothing
          HwBuffers,    \* packet buffers of endpoint 2 OUT in the controller
          MaxFaults     \* power losses and failed flash writes (a bound)

ASSUME DeviceAssumption ==
  /\ FwLength \in [Images -> Nat \ {0}]
  /\ Block \in Nat \ {0}
  /\ FlashSize \in Nat /\ FlashSize >= Block /\ FlashSize % Block = 0
  /\ RxCap \in Nat \ {0} /\ TxCap \in Nat \ {0}
  /\ HwBuffers \in Nat \ {0} /\ MaxFaults \in Nat
  /\ Zero \notin Images /\ FF \notin Images /\ Garbage \notin Images
  /\ Zero # FF /\ Zero # Garbage /\ FF # Garbage

\* Rows of n packets; packets of a length, the last of them perhaps not full.
Rows(n) == 2 * n
PacketsOf(length) == (length + 1) \div 2
ImageLen == [i \in Images |-> PacketsOf(FwLength[i])]

VARIABLES dpc,               \* where the main loop is
          gState,            \* the request the interrupt leaves to main
          fw_length, fw_crc, \* the volatile globals of fwu.c
          len,               \* main's copy of fw_length (argument, last_pos)
          nrx, rbuf, rhdr,   \* stream_rx: nbytes, gStreamRXBuf, its header
          ntx,               \* stream_tx: nbytes
          rxq, txq,          \* queueEP2RX, queueEP2TX
          flash, hdr,        \* firmware area; the header in its first packet
          mark,              \* the "Run as Loader" mark in RAM
          faults

BlankHdr == [len |-> -1, crc |-> FF]
Crcs == Images \cup {Zero, FF, Garbage}
Headers == [len : Int, crc : Crcs]

\* The CRC of an image, which for one that ends in its header is that of nothing.
CrcOf(i) == IF FwLength[i] > 1 THEN i ELSE Zero
Header(i) == [len |-> FwLength[i], crc |-> CrcOf(i)]

\* Any length may be announced with any CRC; those of the images are.
ASSUME InfoAssumption == Infos \subseteq Headers /\ \A i \in Images : Header(i) \in Infos

\* The locals of main, stream_rx and stream_tx, and main's block buffer; they
\* are reset when they are dead.
locals == <<len, nrx, rbuf, rhdr, ntx>>
NoLocals == len' = 0 /\ nrx' = 0 /\ rbuf' = <<>> /\ rhdr' = BlankHdr /\ ntx' = 0
info   == <<fw_length, fw_crc>>
rom    == <<flash, hdr>>
queues == <<rxq, txq>>
dvars  == <<dpc, gState, info, locals, queues, rom, mark, faults>>

States == {"DEFAULT", "PUT_FW_INFO", "GET_FW"}

Points == {"reset", "firmware", "loop", "put", "erase", "ask", "asked", "rx",
           "patchlen", "patchcrc", "write", "end", "check", "compare",
           "switch", "get", "txinit", "tx", "txswitch", "txfailed"}

\* A packet of image i, of the padding behind the last one, or of 0xFF.
ImagePackets == UNION {{<<i, k>> : k \in 1 .. ImageLen[i]} : i \in Images}
Packets == ImagePackets \cup {FF, Garbage}

\* No packet of an image reads as erased or as spoilt flash.
ASSUME PacketAssumption == FF \notin ImagePackets /\ Garbage \notin ImagePackets

\* Messages to the host: a command, or a packet of the firmware read.
Msg(c) == [cmd |-> c, data |-> FF]
Data(p) == [cmd |-> "data", data |-> p]
Messages == {Msg(c) : c \in {"PUT_FW_INFO_ASK", "FW_WR_RDY", "FW_WR_ERR"}}
              \cup {Data(p) : p \in Packets}

Holds(i) == /\ ImageLen[i] <= FlashSize
            /\ \A k \in 1 .. ImageLen[i] : flash[k] = <<i, k>>

\* calc_crc over length - FW_START_OFFSET bytes of flash behind the header gives
\* crc; of a length within the header its loop is empty.
CrcIs(length, crc) ==
  \/ length <= 1 /\ crc = Zero
  \/ length > 1 /\ crc \in Images /\ length = FwLength[crc] /\ Holds(crc)

\* Mutant of Bootable: the length is enough.
BootableNoCrc == hdr.len > 0 /\ hdr.len <= Rows(FlashSize) /\ hdr.crc \in Images

\* do_switch_to_firmware's test of the header in flash.
Bootable == /\ hdr.len > 0 /\ hdr.len <= Rows(FlashSize)
            /\ CrcIs(hdr.len, hdr.crc)

\* NOR flash: programming only clears bits.
Program(old, new) == IF old = FF THEN new
                     ELSE IF new \in {old, FF} THEN old ELSE Garbage
ProgramHdr(old, new) == IF old = BlankHdr THEN new
                        ELSE IF new \in {old, BlankHdr} THEN old
                        ELSE [new EXCEPT !.crc = Garbage]

Init == /\ dpc = "reset" /\ gState = "DEFAULT"
        /\ fw_length = 0 /\ fw_crc = Zero
        /\ len = 0 /\ nrx = 0 /\ ntx = 0
        /\ rbuf = <<>> /\ rhdr = BlankHdr
        /\ rxq = <<>> /\ txq = <<>>
        /\ \/ flash = [k \in 1 .. FlashSize |-> FF] /\ hdr = BlankHdr
           \/ \E i \in Images :
                /\ ImageLen[i] <= FlashSize
                /\ flash = [k \in 1 .. FlashSize |->
                              IF k <= ImageLen[i] THEN <<i, k>> ELSE FF]
                /\ hdr = Header(i)
        /\ mark = FALSE
        /\ faults = 0
-----------------------------------------------------------------------------
(* The main loop.                                                          *)

\* The firmware takes over: nothing of the upgrader's RAM survives.
StartFirmware == /\ dpc' = "firmware"
                 /\ rxq' = <<>> /\ txq' = <<>>

\* What start-up makes of RAM and controller.
ClearRam == /\ gState' = "DEFAULT" /\ fw_length' = 0 /\ fw_crc' = Zero
            /\ rxq' = <<>> /\ txq' = <<>>

\* do_switch_to_firmware reloads the globals from the flash header first.
DoSwitchToFirmware(else) ==
  /\ fw_length' = hdr.len
  /\ fw_crc' = hdr.crc
  /\ \/ Bootable /\ StartFirmware
     \/ ~Bootable /\ dpc' = else /\ UNCHANGED queues

\* Reset vector, start of main(): with the mark the upgrader stays, without
\* it the firmware is started if it is intact.  The mark is cleared.
Boot ==
  /\ dpc = "reset"
  /\ IF mark THEN dpc' = "loop" /\ UNCHANGED <<info, queues>>
             ELSE DoSwitchToFirmware("loop")
  /\ mark' = FALSE
  /\ UNCHANGED <<gState, locals, rom, faults>>

\* state = gState, the branch on it ...
LoopReadsState ==
  /\ dpc = "loop"
  /\ \/ gState = "PUT_FW_INFO" /\ dpc' = "put"
     \/ gState = "GET_FW" /\ dpc' = "get"
  /\ UNCHANGED <<gState, info, locals, queues, rom, mark, faults>>

\* ... and the fw_length handed to flash_erase_sectors.
LoopReadsLength ==
  /\ dpc = "put"
  /\ len' = fw_length
  /\ dpc' = "erase"
  /\ UNCHANGED <<gState, info, nrx, rbuf, rhdr, ntx, queues, rom, mark, faults>>

\* Mutants of ErasedBy: a last sector that is not full stays; the first stays.
ErasedByTrunc(length) == 1 .. (PacketsOf(length) \div Block) * Block
ErasedByKeepFirst(length) ==
  IF length \in 1 .. Rows(FlashSize)
    THEN Block + 1 .. ((PacketsOf(length) + Block - 1) \div Block) * Block
    ELSE {}

\* Packets of the sectors flash_erase_sectors(FW_LOAD_ADDR, length) erases;
\* none when the last address is before FW_LOAD_ADDR (a sector range that the
\* IAP refuses) or beyond the flash: get_sector_number's table is that of the
\* 500K LPC2148, but the IAP of the part with FLASH_SIZE (an LPC2146) has no
\* such sector and refuses the command.
ErasedBy(length) ==
  IF length \in 1 .. Rows(FlashSize)
    THEN 1 .. ((PacketsOf(length) + Block - 1) \div Block) * Block
    ELSE {}

FlashEraseSectors ==
  /\ dpc = "erase"
  /\ flash' = [k \in 1 .. FlashSize |-> IF k \in ErasedBy(len) THEN FF ELSE flash[k]]
  /\ hdr' = IF ErasedBy(len) # {} THEN BlankHdr ELSE hdr
  /\ len' = 0
  /\ dpc' = "ask"
  /\ UNCHANGED <<gState, info, nrx, rbuf, rhdr, ntx, queues, mark, faults>>

\* send_to_host: a message that finds the queue full is dropped.
SendToHost(c) == txq' = IF Len(txq) < TxCap THEN Append(txq, Msg(c)) ELSE txq

LoopAsks ==
  /\ dpc = "ask"
  /\ SendToHost("PUT_FW_INFO_ASK")
  /\ dpc' = "asked"
  /\ UNCHANGED <<gState, info, locals, rxq, rom, mark, faults>>

\* set_state(STATE_DEFAULT), whatever gState has become; stream_rx() starts.
LoopStartsRx ==
  /\ dpc = "asked"
  /\ gState' = "DEFAULT"
  /\ NoLocals
  /\ dpc' = "rx"
  /\ UNCHANGED <<info, queues, rom, mark, faults>>

\* fwu_queue_get and the copy into gStreamRXBuf.
RxPacket ==
  /\ dpc = "rx" /\ rxq # <<>>
  /\ rbuf' = Append(rbuf, Head(rxq))
  /\ rxq' = Tail(rxq)
  /\ nrx' = nrx + 1
  /\ dpc' = IF Len(rbuf') < Block THEN "rx"
            ELSE IF nrx' = Block THEN "patchlen" ELSE "write"
  /\ UNCHANGED <<gState, info, len, rhdr, ntx, txq, rom, mark, faults>>

\* Mutant of RxTimeout: an empty poll counts as a packet, Timeout never ends.
RxTimeoutRearmed == dpc = "rx" /\ rxq = <<>> /\ UNCHANGED dvars

\* RX_TIMROUT empty polls in a row.
RxTimeout ==
  /\ dpc = "rx" /\ rxq = <<>>
  /\ gState' = "DEFAULT"
  /\ NoLocals
  /\ dpc' = "loop"
  /\ UNCHANGED <<info, queues, rom, mark, faults>>

\* Mutant of RxPatchLength: the length before the request.
RxPatchLengthStale ==
  /\ dpc = "patchlen"
  /\ rhdr' = [rhdr EXCEPT !.len = len]
  /\ dpc' = "patchcrc"
  /\ UNCHANGED <<gState, info, len, nrx, rbuf, ntx, queues, rom, mark, faults>>

\* The first block gets its header words from the globals, with interrupts on.
RxPatchLength ==
  /\ dpc = "patchlen"
  /\ rhdr' = [rhdr EXCEPT !.len = fw_length]
  /\ dpc' = "patchcrc"
  /\ UNCHANGED <<gState, info, len, nrx, rbuf, ntx, queues, rom, mark, faults>>

RxPatchCrc ==
  /\ dpc = "patchcrc"
  /\ rhdr' = [rhdr EXCEPT !.crc = fw_crc]
  /\ dpc' = "write"
  /\ UNCHANGED <<gState, info, len, nrx, rbuf, ntx, queues, rom, mark, faults>>

\* Programs the first n packets of the block at flash_addr, header included;
\* an address outside the flash writes nothing.
ProgramBlock(n) ==
  LET base == nrx - Block
  IN /\ flash' = [k \in 1 .. FlashSize |->
                    IF k \in base + 1 .. base + n
                      THEN Program(flash[k], rbuf[k - base]) ELSE flash[k]]
     /\ hdr' = IF base = 0 /\ n > 0 THEN ProgramHdr(hdr, rhdr) ELSE hdr

\* flash_write; its result code is not looked at.
FlashWrite ==
  /\ dpc = "write"
  /\ \/ ProgramBlock(Block) /\ UNCHANGED faults
     \/ faults < MaxFaults /\ faults' = faults + 1 /\ UNCHANGED rom
  /\ rbuf' = <<>> /\ rhdr' = BlankHdr
  /\ dpc' = "end"
  /\ UNCHANGED <<gState, info, len, nrx, ntx, queues, mark>>

\* if(nbytes >= fw_length)
RxEndTest ==
  /\ dpc = "end"
  /\ dpc' = IF Rows(nrx) >= fw_length THEN "check" ELSE "rx"
  /\ UNCHANGED <<gState, info, locals, queues, rom, mark, faults>>

\* crc = calc_crc(.., fw_length - FW_START_OFFSET) takes its time ...
RxCalcCrc ==
  /\ dpc = "check"
  /\ len' = fw_length
  /\ dpc' = "compare"
  /\ UNCHANGED <<gState, info, nrx, rbuf, rhdr, ntx, queues, rom, mark, faults>>

\* Mutant of RxCompare: the length is enough for FW_WR_RDY.
RxCompareNoCrc ==
  /\ dpc = "compare"
  /\ SendToHost("FW_WR_RDY") /\ dpc' = "switch"
  /\ NoLocals
  /\ UNCHANGED <<gState, info, rxq, rom, mark, faults>>

\* ... then crc == fw_crc decides what the host is told.
RxCompare ==
  /\ dpc = "compare"
  /\ \/ CrcIs(len, fw_crc) /\ SendToHost("FW_WR_RDY") /\ dpc' = "switch"
     \/ ~CrcIs(len, fw_crc) /\ SendToHost("FW_WR_ERR") /\ dpc' = "loop"
  /\ NoLocals
  /\ UNCHANGED <<gState, info, rxq, rom, mark, faults>>

\* The delay loop is over; switch_to_firmware() returns if it finds no firmware.
RxSwitch ==
  /\ dpc = "switch"
  /\ DoSwitchToFirmware("loop")
  /\ UNCHANGED <<gState, locals, rom, mark, faults>>

LoopStartsTx ==
  /\ dpc = "get"
  /\ gState' = "DEFAULT"
  /\ dpc' = "txinit"
  /\ UNCHANGED <<info, locals, queues, rom, mark, faults>>

\* last_pos
TxInit ==
  /\ dpc = "txinit"
  /\ len' = IF fw_length \in 1 .. Rows(FlashSize) THEN fw_length ELSE 0
  /\ ntx' = 0
  /\ dpc' = "tx"
  /\ UNCHANGED <<gState, info, nrx, rbuf, rhdr, queues, rom, mark, faults>>

\* Mutant of TxPacket: fwu_queue_tst's answer is not looked at.
TxPacketNoTest ==
  /\ dpc = "tx"
  /\ Len(txq) <= TxCap /\ txq' = Append(txq, Data(flash[ntx + 1])) /\ ntx' = ntx + 1
  /\ dpc' = IF ntx' % Block = 0 /\ Rows(ntx') >= len THEN "txswitch" ELSE "tx"
  /\ UNCHANGED <<gState, info, len, nrx, rbuf, rhdr, rxq, rom, mark, faults>>

\* One turn of stream_tx's loop.  gFullBlock is TRUE here, so the
\* NOW_CHK_BREAK exit is never taken.
TxPacket ==
  /\ dpc = "tx"
  /\ \/ Len(txq) < TxCap /\ txq' = Append(txq, Data(flash[ntx + 1])) /\ ntx' = ntx + 1
     \/ Len(txq) >= TxCap /\ UNCHANGED <<txq, ntx>>
  /\ dpc' = IF ntx' % Block = 0 /\ Rows(ntx') >= len THEN "txswitch" ELSE "tx"
  /\ UNCHANGED <<gState, info, len, nrx, rbuf, rhdr, rxq, rom, mark, faults>>

TxTimeout ==
  /\ dpc = "tx" /\ Len(txq) >= TxCap
  /\ gState' = "DEFAULT"
  /\ NoLocals
  /\ dpc' = "loop"
  /\ UNCHANGED <<info, queues, rom, mark, faults>>

TxSwitch ==
  /\ dpc = "txswitch"
  /\ DoSwitchToFirmware("txfailed")
  /\ NoLocals
  /\ UNCHANGED <<gState, rom, mark, faults>>

\* "Here only if there are no firmware"
TxSwitchFailed ==
  /\ dpc = "txfailed"
  /\ gState' = "DEFAULT"
  /\ dpc' = "loop"
  /\ UNCHANGED <<info, locals, queues, rom, mark, faults>>
-----------------------------------------------------------------------------
(* The USB interrupt and the controller; they run only in the upgrader.    *)

Attached == dpc \notin {"reset", "firmware"}

\* Vendor request PUT_FW_INFO whose own CRC is good; length and CRC of the
\* firmware to come are not looked at.
PutFwInfo(fw) ==
  /\ Attached
  /\ fw_length' = fw.len /\ fw_crc' = fw.crc
  /\ gState' = "PUT_FW_INFO"
  /\ UNCHANGED <<dpc, locals, queues, rom, mark, faults>>

\* Vendor request GET_FW_INFO: the globals become the header in flash.
GetFwInfo ==
  /\ Attached
  /\ fw_length' = hdr.len /\ fw_crc' = hdr.crc
  /\ UNCHANGED <<dpc, gState, locals, queues, rom, mark, faults>>

GetFw ==
  /\ Attached
  /\ gState' = "GET_FW"
  /\ UNCHANGED <<dpc, info, locals, queues, rom, mark, faults>>

\* Realizing the endpoints empties the controller's buffers, not the queues:
\* the last packets of rxq, and the first of txq if the host had polled for it.
SetConfiguration ==
  /\ Attached
  /\ \E n \in 0 .. Len(rxq) : n <= HwBuffers /\ rxq' = SubSeq(rxq, 1, Len(rxq) - n)
  /\ \/ UNCHANGED txq
     \/ txq # <<>> /\ txq' = Tail(txq)
  /\ UNCHANGED <<dpc, gState, info, locals, rom, mark, faults>>

\* A bulk OUT packet is acknowledged; ep_rx_int leaves it in the controller
\* while the queue is full.
OutPacket(p) ==
  /\ Attached /\ Len(rxq) < RxCap
  /\ rxq' = Append(rxq, p)
  /\ UNCHANGED <<dpc, gState, info, locals, txq, rom, mark, faults>>

\* The host polls; ep_tx_int passes the next packet to the controller.
InPacket ==
  /\ Attached /\ txq # <<>>
  /\ txq' = Tail(txq)
  /\ UNCHANGED <<dpc, gState, info, locals, rxq, rom, mark, faults>>

\* The firmware is asked to hand over: it sets the mark and restarts.
AppSwitchToFwu ==
  /\ dpc = "firmware"
  /\ mark' = TRUE
  /\ dpc' = "reset"
  /\ NoLocals /\ ClearRam
  /\ UNCHANGED <<rom, faults>>

\* Power fails: an erase or a write under way leaves its sector half done.
PowerLoss ==
  /\ dpc # "reset" /\ faults < MaxFaults
  /\ faults' = faults + 1
  /\ mark' = FALSE
  /\ dpc' = "reset"
  /\ \/ UNCHANGED rom
     \/ /\ dpc = "erase"
        /\ \E half \in SUBSET ErasedBy(len) :
             /\ flash' = [k \in 1 .. FlashSize |->
                            IF k \in half THEN Garbage ELSE flash[k]]
             /\ hdr' = IF 1 \in half THEN [hdr EXCEPT !.crc = Garbage] ELSE hdr
     \/ dpc = "write" /\ \E n \in 1 .. Block : ProgramBlock(n)
  /\ NoLocals /\ ClearRam
-----------------------------------------------------------------------------
RxNext == \/ RxPacket \/ RxPatchLength \/ RxPatchCrc \/ FlashWrite
          \/ RxEndTest \/ RxCalcCrc \/ RxCompare \/ RxSwitch
TxNext == TxInit \/ TxPacket \/ TxTimeout \/ TxSwitch \/ TxSwitchFailed
LoopNext == \/ LoopReadsState \/ LoopReadsLength \/ FlashEraseSectors \/ LoopAsks
            \/ LoopStartsRx \/ LoopStartsTx
MainNext == Boot \/ LoopNext \/ RxNext \/ RxTimeout \/ TxNext

\* What any host, however badly timed, can send.
UsbNext == \/ \E fw \in Infos : PutFwInfo(fw)
           \/ GetFwInfo \/ GetFw \/ SetConfiguration
           \/ InPacket
           \/ \E p \in Packets : OutPacket(p)

Next == MainNext \/ UsbNext \/ AppSwitchToFwu \/ PowerLoss

Spec == Init /\ [][Next]_dvars

\* The main loop runs whenever no interrupt does.
FairSpec == Spec /\ WF_dvars(MainNext)
-----------------------------------------------------------------------------
(* Properties.                                                             *)

\* The types of the device's state; the queues and the block buffer keep
\* within their memory.
TypeOK == /\ dpc \in Points /\ gState \in States
          /\ fw_length \in Int /\ fw_crc \in Crcs
          /\ len \in Int /\ nrx \in Nat /\ ntx \in Nat
          /\ rbuf \in Seq(Packets) /\ Len(rbuf) <= Block
          /\ rhdr \in Headers /\ hdr \in Headers
          /\ rxq \in Seq(Packets) /\ Len(rxq) <= RxCap
          /\ txq \in Seq(Messages) /\ Len(txq) <= TxCap
          /\ flash \in [1 .. FlashSize -> Packets]
          /\ mark \in BOOLEAN
          /\ faults \in 0 .. MaxFaults

\* A firmware that runs was in flash completely, with the length and the CRC
\* of its own header, when it was started; or nothing of it could be checked,
\* because a length within the header and the CRC of nothing were announced.
RunningIsIntact == dpc = "firmware" =>
  \/ \E i \in Images : Holds(i) /\ hdr = Header(i)
  \/ hdr = [len |-> 1, crc |-> Zero]

\* No host keeps the upgrader in a stream: neither one that falls silent nor
\* one that sends what it likes.  It comes back to the main loop or starts
\* the firmware.
AlwaysReturns == []<>(dpc \in {"loop", "firmware", "reset"})
=============================================================================
