---------------------------- MODULE MCTnObjects -----------------------------
(* The kernel with one semaphore, one queue, one event, one memory pool    *)
(* and two mutexes.                                                        *)
EXTENDS TnObjects, TLC
CONSTANTS t1, t2, t3, idle, m1, m2, e1, e2, f1, f2
AllThree == <<t2, t3, t1>>
FirstTwo == <<t2, t1>>
MCBase == [t \in Task |-> IF t = t1 THEN 1 ELSE IF t = idle THEN 3 ELSE 2]
MCCeil == [m \in Mutex |-> 1]
NoSlices == {}
MCElem == {e1, e2} \cup {<<"block", i>> : i \in 1..2}
MCEventAttrs == {[single |-> FALSE, clr |-> FALSE], [single |-> TRUE, clr |-> TRUE]}
MCWaits == {[pattern |-> {f1, f2}, or |-> x] : x \in BOOLEAN}
Uses(created, s) == [created |-> created, attr |-> "inherit", services |-> s]
MutexUse == {"mutex_lock", "mutex_unlock", "mutex_nest", "exit", "iactivate"}
MutexOnce == {"mutex_lock", "mutex_unlock", "sleep"}
SemUse == {"sem_create", "sem_acquire", "sem_polling", "sem_ipolling", "sem_signal",
           "sem_isignal"}
MemUse == {"fmem_create", "fmem_get", "fmem_get_ipolling", "fmem_release",
           "fmem_irelease"}
MCPrograms ==
  {Uses(AllThree, SemUse \cup {"suspend", "resume"}),
   Uses(AllThree, {"sem_create", "sem_acquire", "sem_signal", "sem_delete", "terminate",
                   "exit", "exit_and_delete", "create", "start_on_creation"}),
   Uses(FirstTwo, {"queue_create", "queue_send", "queue_receive", "queue_isend",
                   "queue_ireceive", "suspend", "resume"}),
   Uses(AllThree, {"queue_create", "queue_send", "queue_delete"}),
   Uses(AllThree, {"queue_create", "queue_receive", "queue_delete"}),
   Uses(AllThree, {"event_create", "event_wait", "event_iwait", "event_set",
                   "event_iset", "event_clear", "event_iclear"}),
   Uses(AllThree, {"event_create", "event_wait", "event_set", "event_delete"}),
   Uses(FirstTwo, MemUse \cup {"suspend", "resume"}), Uses(AllThree, MemUse),
   Uses(AllThree, {"fmem_create", "fmem_get", "fmem_release", "fmem_delete"}),
   Uses(AllThree, MutexUse),
   [Uses(FirstTwo, MutexUse) EXCEPT !.attr = "ceiling"],
   [Uses(FirstTwo, MutexOnce) EXCEPT !.attr = "ceiling"],
   Uses(FirstTwo, {"mutex_lock", "mutex_unlock", "mutex_nest", "mutex_delete", "mutex_create",
                   "suspend", "resume"})}
(* What the proofs ask of programs.  (They also ask for a system without   *)
(* mutexes, and without timeouts: with one, MCTnObjectsSemTimeout finds    *)
(* the kernel's lists corrupted.)                                          *)
ASSUME ProofsApply ==
  \A p \in MCPrograms : /\ Careful(p.services) /\ QueueCareful(p.services)
                        /\ Answers(p.services) /\ Sends(p.services) /\ Returns(p.services)
CeilingPrograms == {[Uses(FirstTwo, MutexUse) EXCEPT !.attr = "ceiling"]}
TimeoutPrograms == {Uses(FirstTwo, {"sem_create", "sem_acquire", "sem_signal", "sem_isignal"})}
=============================================================================
