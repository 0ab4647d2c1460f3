------------------------------- MODULE MCHost -------------------------------
(* The parts of the host program that do not share state, on small         *)
(* instances, one at a time: the conversion of a file (HexImage), a pipe   *)
(* of USBIOLIB and its reader thread (UsbIoLib), the handlers of the       *)
(* window (UsbWindow) and the history of the file names (RegHistory).      *)
EXTENDS HexImage, UsbIoLib, UsbWindow, RegHistory

VARIABLE part   \* "hex", "lib", "window" or "history"

hostvars == <<hvars, uvars, wvars, rvars, part>>

(* Data records that meet, leave a gap that another one fills, overlap, or *)
(* have no data; base addresses of both kinds, so that records are too far *)
(* apart for fseek; an address whose first byte is no hex; a line with a   *)
(* wrong checksum.                                                         *)
Data(a, n) == [type |-> "data", addr |-> a, data |-> [i \in 1 .. n |-> 10 * a + i]]
Other(type, a) == [type |-> type, addr |-> a]
MCLines ==
  {Data(0, 2), Data(2, 0), Data(2, 1), Data(2, 2), Data(3, 1), Data(5, 1), Data(6, 2),
   Data(17, 1)}
    \cup {Other("segment", 2), Other("linear", 1), Other("bad", 0),
        Other("cs:ip", 0), Other("eip", 0)}

(* The user works with one dialog, and looks at the About tab, or with the *)
(* dialog of the regular operation and the one that reads the firmware.    *)
MCUses == {{"PUT_FW", "ABOUT"}, {"GET_FW", "RXDEMO"}}

(* The parts that are not looked at start in one way only.                 *)
MCInit ==
  /\ HexInit /\ LibInit /\ WindowInit /\ HistoryInit
  /\ part \in {"hex", "lib", "window", "history"}
  /\ part # "window" => ~dev.present /\ dev.program = "fwu" /\ uses = {"PUT_FW", "ABOUT"}
  /\ part # "history" => ~byName

Part(p, A) == part = p /\ A /\ UNCHANGED part

MCNext ==
  \/ Part("hex", HexNext) /\ UNCHANGED <<uvars, wvars, rvars>>
  \/ Part("lib", LibNext) /\ UNCHANGED <<hvars, wvars, rvars>>
  \/ Part("window", WindowNext) /\ UNCHANGED <<hvars, uvars, rvars>>
  \/ Part("history", HistoryNext) /\ UNCHANGED <<hvars, uvars, wvars>>

MCSpec == MCInit /\ [][MCNext]_hostvars
=============================================================================
