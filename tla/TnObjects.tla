----------------------------- MODULE TnObjects ------------------------------
(***************************************************************************)
(* The kernel with all its objects: what one service does is in the        *)
(* modules of the objects, this one composes them.                         *)
(***************************************************************************)
EXTENDS TnSem, TnQueue, TnEvent, TnMem, TnMutex

objects == <<sem, granted, dque, order, evf, asked, fmp, owned, mutexes>>
ovars == <<k, pc, ticks, services, objects>>

OInit == Init /\ SemInit /\ QueueInit /\ EventInit /\ MemInit /\ MutexInit

ONext ==
  \/ KernelStep /\ UNCHANGED objects
  \/ SemStep /\ UNCHANGED <<dque, order, evf, asked, fmp, owned, mutexes>>
  \/ QueueStep /\ UNCHANGED <<sem, granted, evf, asked, fmp, owned, mutexes>>
  \/ EventStep /\ UNCHANGED <<sem, granted, dque, order, fmp, owned, mutexes>>
  \/ MemStep /\ UNCHANGED <<sem, granted, dque, order, evf, asked, mutexes>>
  \/ MutexStep /\ UNCHANGED <<sem, granted, dque, order, evf, asked, fmp, owned>>

OSpec == OInit /\ [][ONext]_ovars

-----------------------------------------------------------------------------
(* What the proofs ask of a program.  Each clause leaves out services that *)
(* spoil an object on a path the code opens itself, or that a property     *)
(* cannot speak of.  Only proofs ask for it.                               *)
WaitingServices == {"sem_acquire", "queue_send", "queue_receive", "event_wait", "fmem_get"}
Preempting == {"sleep", "iwakeup", "iactivate", "irelease_wait", "sem_isignal", "queue_isend",
               "queue_ireceive", "event_iset", "fmem_irelease"}
Deleting == {"sem_delete", "queue_delete", "event_delete", "fmem_delete"}

(* No task is released from a wait for an object by another service, which *)
(* leaves it in the object's queue (tn_tasks.c:773); and no interrupt or   *)
(* sleeping task makes another task run, and wait there, between the last  *)
(* test of a delete and its end (tn_sem.c:68 and the like).                *)
Careful(S) ==
  /\ Orderly(S)
  /\ S \cap WaitingServices # {} => S \cap {"release_wait", "irelease_wait"} = {}
  /\ S \cap Deleting # {} => S \cap Preempting = {}
(* Nobody sends to a queue whose receivers are just being released by its  *)
(* delete, which has looked for waiting senders before.                    *)
QueueCareful(S) == ~({"queue_send", "queue_receive", "queue_delete"} \subseteq S)
AllCareful == \A p \in Programs : Careful(p.services) /\ QueueCareful(p.services)
(* Tasks wait for objects without a timeout, as those of usb_app do: one   *)
(* that times out stays in the object's queue (tn_tasks.c:773).            *)
NoTimeouts == SemTimeouts \cup QueueTimeouts \cup EventTimeouts \cup MemTimeouts \subseteq {Forever}

(* The delete of a semaphore tells a suspended task TERR_NO_ERR.           *)
Answers(S) == ~({"suspend", "sem_delete"} \subseteq S)
(* What a task waits to send is lost when it is terminated.                *)
Sends(S) == ~({"queue_send", "terminate"} \subseteq S)
(* So is a block on its way to a task that is terminated or made anew; the *)
(* delete of a pool tells a suspended task TERR_NO_ERR, without a block.   *)
Returns(S) ==
  "fmem_get" \in S => /\ S \cap {"terminate", "create"} = {}
                      /\ ~({"suspend", "fmem_delete"} \subseteq S)

-----------------------------------------------------------------------------
(* The data have the types tn.h gives them.                                *)
ObjectsTypeOK ==
  /\ KernelTypeOK /\ QueueTypeOK
  /\ sem \in [count: Nat, exists: BOOLEAN] /\ granted \subseteq Task
  /\ evf \in [pattern: SUBSET Flag, attr: [single: BOOLEAN, clr: BOOLEAN], exists: BOOLEAN]
  /\ fmp \in [free_list: Block \cup {Null}, fblkcnt: 0..NumBlocks, exists: BOOLEAN,
              cell: [Block -> Block \cup {Null}]]
  /\ owned \subseteq Block /\ mutexes \subseteq Mutex

(* A task never waits for an object that does not exist: no delete leaves  *)
(* a waiting task behind, also when tasks come to wait while it runs.      *)
DeletedHasNoWaiters ==
  /\ ~sem.exists => NoWaiters("sem")
  /\ ~dque.exists => NoWaiters(Senders) /\ NoWaiters(Receivers)
  /\ ~evf.exists => NoWaiters("event")
  /\ ~fmp.exists => NoWaiters("mem")
  /\ \A m \in Mutex \ mutexes : NoWaiters(m)
=============================================================================
