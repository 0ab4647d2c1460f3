----------------------------- MODULE MCFwuWrite -----------------------------
(* Sessions of the Write dialog with small images for a flash of four      *)
(* packets: `a` ends inside a packet and a block, `b` fills a block, and   *)
(* `c` ends in its header.                                                 *)
EXTENDS FwuWrite, TLC

CONSTANTS a, b, c

WithCrc == {a, b}
AnyImage == {a, b, c}
RowsOf == (a :> 5) @@ (b :> 4) @@ (c :> 1)
WithCrcRows == [i \in WithCrc |-> RowsOf[i]]
AnyRows == [i \in AnyImage |-> RowsOf[i]]
Announced == {Header(i) : i \in Images}
=============================================================================
