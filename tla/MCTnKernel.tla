----------------------------- MODULE MCTnKernel -----------------------------
(* One task of priority 1 and two of priority 2 (or the first two of the   *)
(* three), and the idle task.                                              *)
EXTENDS TnKernel, TLC
CONSTANTS t1, t2, t3, idle
AllThree == <<t2, t3, t1>>
FirstTwo == <<t2, t1>>
MCBase == [t \in Task |-> IF t = t1 THEN 1 ELSE IF t = idle THEN 3 ELSE 2]
NoCeil == [m \in {} |-> 1]
NoSlices == {}
SliceAt2 == {<<2, 1>>}
(* What the proofs ask: a system without mutexes, and orderly programs.    *)
ASSUME ProofsApply == Mutex = {} /\ \A p \in Programs : Orderly(p.services)

MCPrograms ==
  {[created |-> AllThree, attr |-> "inherit",
    services |-> {"sleep", "release_wait", "suspend", "resume"}],
   [created |-> AllThree, attr |-> "inherit",
    services |-> {"activate", "iactivate", "exit", "terminate", "delete", "create",
                  "change_priority"}],
   [created |-> AllThree, attr |-> "inherit",
    services |-> {"activate", "iactivate", "exit", "delete", "create",
                  "change_priority", "tslice_ticks"}],
   [created |-> AllThree, attr |-> "inherit",
    services |-> {"activate", "exit", "terminate", "delete", "create", "tslice_ticks"}]}
FairPrograms ==
  {[created |-> FirstTwo, attr |-> "inherit",
    services |-> {"sleep", "wakeup", "iwakeup", "release_wait", "irelease_wait",
                  "suspend", "resume"}]}
=============================================================================
