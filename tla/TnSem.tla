------------------------------- MODULE TnSem --------------------------------
(***************************************************************************)
(* One semaphore of src/TNKernel/tn_sem.c, used by tasks and interrupts of *)
(* the kernel of TnKernel.                                                 *)
(***************************************************************************)
EXTENDS TnObject

CONSTANTS StartValue, MaxVal, SemTimeouts
ASSUME SemAssumption ==
  /\ MaxVal \in Nat \ {0} /\ StartValue \in 0..MaxVal
  /\ "sem" \in WaitQ /\ SemTimeouts \subseteq Timeouts \cup {Forever}

VARIABLES
  sem,      \* count, and exists: id_sem = TN_ID_SEMAPHORE
  granted   \* history: tasks whose present wait a signal has ended

(* tn_sem_create                                                           *)
NewSem == [count |-> StartValue, exists |-> TRUE]
SemInit == sem = [NewSem EXCEPT !.exists = FALSE] /\ granted = {}
SemCreate ==
  /\ Calls("sem_create") /\ ~sem.exists
  /\ k' = [k EXCEPT !.link = Reset(@, Wait("sem"))]
  /\ sem' = NewSem
  /\ UNCHANGED <<pc, granted>>

(* tn_sem_acquire                                                          *)
Acquire(timeout) ==
  /\ Calls("sem_acquire") /\ sem.exists
  /\ IF sem.count >= 1
     THEN /\ sem' = [sem EXCEPT !.count = @ - 1]
          /\ UNCHANGED <<k, pc, granted>>
     ELSE /\ WaitIn("sem", "sem", timeout)
          /\ granted' = granted \ {k.curr}
          /\ UNCHANGED sem

(* ... and, when the task runs again, return task_wait_rc.                 *)
AcquireReturns ==
  /\ WaitReturns("sem") /\ granted' = granted \ {k.curr} /\ UNCHANGED sem

(* tn_sem_polling                                                          *)
Polling ==
  /\ Calls("sem_polling") /\ sem.exists /\ sem.count >= 1
  /\ sem' = [sem EXCEPT !.count = @ - 1]
  /\ UNCHANGED <<k, pc, granted>>

(* tn_sem_ipolling                                                         *)
IPolling ==
  /\ "sem_ipolling" \in services /\ Enabled /\ sem.exists /\ sem.count >= 1
  /\ sem' = [sem EXCEPT !.count = @ - 1]
  /\ UNCHANGED <<k, pc, granted>>

SignalNoMax ==                     \* mutant: max_count is not tested
  /\ Calls("sem_signal") /\ sem.exists /\ NoWaiters("sem") /\ sem.count <= MaxVal
  /\ sem' = [sem EXCEPT !.count = @ + 1]
  /\ UNCHANGED <<k, pc, granted>>

(* Without a waiting task a signal is counted; the first that waits gets it.*)
Counts ==
  /\ NoWaiters("sem") /\ sem.count < MaxVal
  /\ sem' = [sem EXCEPT !.count = @ + 1]
  /\ UNCHANGED <<k, pc, granted>>
Grants == ~NoWaiters("sem") /\ granted' = granted \cup {First("sem")} /\ UNCHANGED sem
Woken == WaitComplete(WithoutFirst("sem"), First("sem"))

(* tn_sem_signal                                                           *)
Signal ==
  /\ Calls("sem_signal") /\ sem.exists
  /\ \/ Counts
     \/ Grants /\ k' = Woken /\ SwitchIf(Wakes(k, First("sem")))

(* tn_sem_isignal                                                          *)
ISignal ==
  /\ "sem_isignal" \in services /\ Enabled /\ sem.exists
  /\ \/ Counts
     \/ Grants /\ IrqExit(Request(Woken, Wakes(k, First("sem"))))

(* tn_sem_delete: its start, and what follows the loop.                    *)
SemDelete ==
  /\ Calls("sem_delete") /\ sem.exists
  /\ pc' = Goes(k.curr, "delTest", "sem")
  /\ UNCHANGED <<k, sem, granted>>
SemDeleteEnds ==
  /\ DeleteLoopOver("sem")
  /\ sem' = [sem EXCEPT !.exists = FALSE]
  /\ pc' = Goes(k.curr, "user", Null)
  /\ UNCHANGED <<k, granted>>

SemStep ==
  /\ \/ \E timeout \in SemTimeouts : Acquire(timeout)
     \/ AcquireReturns \/ Polling \/ IPolling \/ Signal \/ ISignal
     \/ SemCreate \/ SemDelete \/ SemDeleteEnds
     \/ /\ WaitSwitches("sem") \/ DeleteLoop("sem", WithoutFirst("sem"))
        /\ UNCHANGED <<sem, granted>>
  /\ UNCHANGED <<ticks, services>>

-----------------------------------------------------------------------------
(* The wait queue is intact and holds exactly the tasks that wait for the  *)
(* semaphore, no task waits while the count is positive, and the count     *)
(* stays within max_count.                                                 *)
SemWaitsForAReason ==
  /\ HoldsWaiters("sem", {"sem"})
  /\ sem.exists /\ sem.count > 0 => NoWaiters("sem")
  /\ sem.count \in 0..MaxVal

(* tn.h:165 calls task_wait_rc "Waiting return code(reason why waiting     *)
(* finished)": the acquire of a task whose wait is over returns            *)
(* TERR_NO_ERR exactly when a signal has ended it, whatever else came in   *)
(* before the task runs again.                                             *)
OkIsASignal == \A t \in Task :
  pc[t] \in {<<"waits", "sem">>, <<"waited", "sem">>} =>
    /\ t \in granted => ~WaitsFor(t, {"sem"})
    /\ ~WaitsFor(t, {"sem"}) => (k.rc[t] = "ok" <=> t \in granted)
=============================================================================
