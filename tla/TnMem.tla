------------------------------- MODULE TnMem --------------------------------
(***************************************************************************)
(* One pool of fixed-size blocks of src/TNKernel/tn_mem.c.  The free list  *)
(* runs through the free blocks themselves: the first word of each is the  *)
(* address of the next.  Tasks and interrupts give back blocks they have.  *)
(***************************************************************************)
EXTENDS TnObject

CONSTANTS
  NumBlocks,    \* num_blocks, after tn_fmem_create has fitted them in
  MemTimeouts
Block == {<<"block", i>> : i \in 1..NumBlocks}
ASSUME MemAssumption ==
  /\ NumBlocks \in Nat /\ NumBlocks >= 2 /\ Block \subseteq Elem
  /\ "mem" \in WaitQ /\ MemTimeouts \subseteq Timeouts \cup {Forever}

VARIABLES
  fmp,    \* free_list, fblkcnt, cell: the first word of each block; exists
  owned   \* the blocks the application has

mvars == <<fmp, owned>>

(* tn_fmem_create: the blocks in the order of their addresses.  The        *)
(* application makes it anew when no task is in a service of the old one.  *)
NewPool == [free_list |-> <<"block", 1>>, fblkcnt |-> NumBlocks, exists |-> TRUE,
            cell |-> [b \in Block |-> IF b[2] = NumBlocks THEN Null
                                      ELSE <<"block", b[2] + 1>>]]
MemInit == fmp = [NewPool EXCEPT !.exists = FALSE] /\ owned = {}
MemCreate ==
  /\ Calls("fmem_create") /\ ~fmp.exists
  /\ \A t \in Task : pc[t][2] # "mem"
  /\ k' = [k EXCEPT !.link = Reset(@, Wait("mem"))]
  /\ fmp' = NewPool /\ owned' = {}
  /\ UNCHANGED pc

FmGetNoCount == [fmp EXCEPT !.free_list = fmp.cell[@]]   \* mutant
(* fm_get and fm_put                                                       *)
FmGet == [fmp EXCEPT !.free_list = fmp.cell[@], !.fblkcnt = @ - 1]
FmPut(b) == IF fmp.fblkcnt < NumBlocks
            THEN [fmp EXCEPT !.cell[b] = fmp.free_list, !.free_list = b, !.fblkcnt = @ + 1]
            ELSE fmp

(* tn_fmem_get, _get_polling and _get_ipolling with a free block.          *)
MemGets ==
  /\ Calls("fmem_get") \/ ("fmem_get_ipolling" \in services /\ Enabled)
  /\ fmp.exists /\ fmp.fblkcnt > 0
  /\ fmp' = FmGet /\ owned' = owned \cup {fmp.free_list}
  /\ UNCHANGED <<k, pc>>

(* tn_fmem_get without ...                                                 *)
MemWaits(timeout) ==
  /\ Calls("fmem_get") /\ fmp.exists /\ fmp.fblkcnt = 0
  /\ WaitIn("mem", "wfixmem", timeout)
  /\ UNCHANGED mvars

(* ... and its return: the block is data_elem when rc is "ok".             *)
MemReturns ==
  /\ WaitReturns("mem")
  /\ owned' = IF k.rc[k.curr] = "ok" THEN owned \cup {k.elem[k.curr]} ELSE owned
  /\ UNCHANGED fmp

(* The block a task gives back goes to the task that waits longest.        *)
HandsBlock(b) ==
  LET t == First("mem")
  IN  WaitComplete([WithoutFirst("mem") EXCEPT
                      !.elem = IF t = Wild THEN @ ELSE [@ EXCEPT ![t] = b]], t)
Frees(b) ==
  /\ NoWaiters("mem") /\ fmp' = FmPut(b) /\ UNCHANGED <<k, pc>>

MemReleaseFreesToo(b) ==           \* mutant: handed over and put into the list
  /\ Calls("fmem_release") /\ fmp.exists /\ b \in owned
  /\ \/ Frees(b)
     \/ /\ ~NoWaiters("mem") /\ k' = HandsBlock(b) /\ SwitchIf(Wakes(k, First("mem")))
        /\ fmp' = FmPut(b)
  /\ owned' = owned \ {b}

(* tn_fmem_release                                                         *)
MemRelease(b) ==
  /\ Calls("fmem_release") /\ fmp.exists /\ b \in owned
  /\ \/ Frees(b)
     \/ /\ ~NoWaiters("mem") /\ k' = HandsBlock(b) /\ SwitchIf(Wakes(k, First("mem")))
        /\ UNCHANGED fmp
  /\ owned' = owned \ {b}

(* tn_fmem_irelease                                                        *)
MemIRelease(b) ==
  /\ "fmem_irelease" \in services /\ Enabled /\ fmp.exists /\ b \in owned
  /\ \/ Frees(b)
     \/ /\ ~NoWaiters("mem")
        /\ IrqExit(Request(HandsBlock(b), Wakes(k, First("mem"))))
        /\ UNCHANGED fmp
  /\ owned' = owned \ {b}

(* tn_fmem_delete: its start, and what follows the loop.                   *)
MemDelete ==
  /\ Calls("fmem_delete") /\ fmp.exists
  /\ pc' = Goes(k.curr, "delTest", "mem")
  /\ UNCHANGED <<k, fmp>>
MemDeleteEnds ==
  /\ DeleteLoopOver("mem")
  /\ fmp' = [fmp EXCEPT !.exists = FALSE]
  /\ pc' = Goes(k.curr, "user", Null)
  /\ UNCHANGED k

MemStep ==
  /\ \/ MemGets \/ MemReturns \/ MemCreate
     \/ \E timeout \in MemTimeouts : MemWaits(timeout)
     \/ \E b \in Block : MemRelease(b) \/ MemIRelease(b)
     \/ (MemDelete \/ MemDeleteEnds) /\ UNCHANGED owned
     \/ /\ WaitSwitches("mem") \/ DeleteLoop("mem", WithoutFirst("mem"))
        /\ UNCHANGED mvars
  /\ UNCHANGED <<ticks, services>>

-----------------------------------------------------------------------------
(* The free list, followed through the blocks.                             *)
FreeList ==
  Walk([b \in Block \cup {Null} |->
          [next |-> IF b = Null THEN fmp.free_list ELSE fmp.cell[b]]], Null)
(* Blocks handed to tasks that have not yet run again.                     *)
OnTheWay == {t \in Task : /\ pc[t] \in {<<"waits", "mem">>, <<"waited", "mem">>}
                          /\ ~WaitsFor(t, {"wfixmem"}) /\ k.rc[t] = "ok"}

(* No block is lost or given twice: the free list, the blocks handed to    *)
(* tasks that wait and those the application has are disjoint and are all  *)
(* there are; the list is as long as fblkcnt says; nobody waits for a      *)
(* block that is free.                                                     *)
BlocksPartitioned ==
  /\ fmp.exists =>
       /\ Len(FreeList) = fmp.fblkcnt /\ Cardinality(ToSet(FreeList)) = fmp.fblkcnt
       /\ Cardinality({k.elem[t] : t \in OnTheWay}) = Cardinality(OnTheWay)
       /\ ToSet(FreeList) \cup {k.elem[t] : t \in OnTheWay} \cup owned = Block
       /\ fmp.fblkcnt + Cardinality(OnTheWay) + Cardinality(owned) = NumBlocks
       /\ fmp.fblkcnt > 0 => NoWaiters("mem")
  /\ HoldsWaiters("mem", {"wfixmem"})
=============================================================================
