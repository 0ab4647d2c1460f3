---------------------------- MODULE MCFwuDevice ----------------------------
(* The device with a host that sends anything at any time: one image that   *)
(* fills the flash, blocks of one packet.  It announces the image, a       *)
(* length within the header with the CRC of nothing, and one too long.     *)
EXTENDS FwuDevice

CONSTANTS a

OneImage == {a}
OneImageRows == [i \in OneImage |-> 2]
AnyInfo == {Header(a), [len |-> 1, crc |-> Zero], [len |-> 4, crc |-> Garbage]}
=============================================================================
