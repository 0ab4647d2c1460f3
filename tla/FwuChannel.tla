----------------------------- MODULE FwuChannel -----------------------------
(***************************************************************************)
(* What the packet queues of the Firmware Upgrader promise to the code on  *)
(* both sides of them, whatever their indices and buffers do: a bounded    *)
(* FIFO channel.  The packet a reader took stays its own until it has been *)
(* delivered, and is delivered whole.  FwuQueue implements this channel in *)
(* both directions: endpoint 2 OUT (interrupt to main loop) and endpoint 2 *)
(* IN (main loop to interrupt).                                            *)
(***************************************************************************)
EXTENDS Integers, Sequences

CONSTANTS Packet(_),     \* the contents of the i-th packet of the stream
          MaxPackets,    \* length of the stream (bounds the model)
          Capacity       \* packets the channel can hold

VARIABLES sent,      \* packets accepted by the channel so far
          q,         \* packets in the channel
          held,      \* <<p>> while the reader copies packet p, else <<>>
          out        \* packets delivered to the reader

vars == <<sent, q, held, out>>

Init == sent = 0 /\ q = <<>> /\ held = <<>> /\ out = <<>>

Send == /\ sent < MaxPackets
        /\ Len(q) < Capacity
        /\ sent' = sent + 1
        /\ q' = Append(q, Packet(sent + 1))
        /\ UNCHANGED <<held, out>>

\* The reader detaches the oldest packet ...
Take == /\ held = <<>> /\ q # <<>>
        /\ held' = <<Head(q)>>
        /\ q' = Tail(q)
        /\ UNCHANGED <<sent, out>>

\* ... and has it whole when its copy is complete.
Deliver == /\ held # <<>>
           /\ out' = Append(out, held[1])
           /\ held' = <<>>
           /\ UNCHANGED <<sent, q>>

\* A reader that cannot be interrupted takes and delivers in one step.
Pass == /\ held = <<>> /\ q # <<>>
        /\ out' = Append(out, Head(q))
        /\ q' = Tail(q)
        /\ UNCHANGED <<sent, held>>

Next == Send \/ Take \/ Deliver \/ Pass

Spec == Init /\ [][Next]_vars
=============================================================================
