------------------------------ MODULE TnObject ------------------------------
(***************************************************************************)
(* What the objects of TNKernel (semaphores, data queues, event flags,     *)
(* memory pools, mutexes) have in common: services in which a task waits,  *)
(* and the delete loop, which is written out in each of them.  The loop    *)
(* enables interrupts and switches tasks between one waiting task and the  *)
(* next, so it is a chain of steps (places "delTest" ... "delSwitch").     *)
(***************************************************************************)
EXTENDS TnKernel

NoWaiters(q) == IsEmpty(k.link, Wait(q))
(* The task at the head of a wait queue, and the kernel without it there.  *)
First(q) == TaskOf(k.link[Wait(q)].next)
WithoutFirstKeeps(q) == k          \* mutant: it stays in the queue
WithoutFirst(q) == [k EXCEPT !.link = RemoveHead(@, Wait(q))]

(* The running task waits in q; then tn_switch_context ...                 *)
WaitIn(q, reason, timeout) ==
  /\ k' = CurrToWait(k, q, reason, timeout)
  /\ pc' = Goes(k.curr, "waits", q)

WaitSwitches(q) ==
  /\ k.next # Wild /\ pc[k.curr] = <<"waits", q>>
  /\ k' = [k EXCEPT !.curr = k.next]
  /\ pc' = Goes(k.curr, "waited", q)

(* ... and, when the task runs again, the return from the service.         *)
WaitReturns(q) ==
  /\ k.next # Wild /\ pc[k.curr] = <<"waited", q>>
  /\ pc' = Goes(k.curr, "user", Null)
  /\ UNCHANGED k

(* The delete loop: it tests the queue with interrupts enabled, takes a    *)
(* waiting task with interrupts disabled, and enables them again only when *)
(* that task becomes runnable ("delMasked": still disabled).  K is the     *)
(* kernel with the first waiting task taken out.                           *)
DeleteTests(q) ==
  /\ k.next # Wild /\ pc[k.curr] = <<"delTest", q>>
  /\ pc' = Goes(k.curr, IF NoWaiters(q) THEN "delEmpty" ELSE "delFound", q)
  /\ UNCHANGED k

DeleteTakes(q, K) ==
  LET t == First(q) IN
  /\ k.next # Wild
  /\ \/ pc[k.curr] = <<"delFound", q>>
     \/ pc[k.curr] = <<"delMasked", q>> /\ ~NoWaiters(q)
  /\ IF k.link[Wait(q)].next = Wait(q)
     THEN pc' = Goes(k.curr, "delMasked", q) /\ UNCHANGED k
     ELSE IF Wakes(K, t)
       THEN /\ k' = [WaitComplete(K, t) EXCEPT !.rc[t] = "dlt"]
            /\ pc' = Goes(k.curr, "delSwitch", q)
       ELSE /\ k' = WaitComplete(K, t)
            /\ pc' = Goes(k.curr, "delMasked", q)

DeleteSwitchesOnce(q) ==           \* mutant: only the first waiting task
  /\ k.next # Wild /\ pc[k.curr] = <<"delSwitch", q>>
  /\ k' = [k EXCEPT !.curr = k.next]
  /\ pc' = Goes(k.curr, "delEmpty", q)

DeleteSwitches(q) ==
  /\ k.next # Wild /\ pc[k.curr] = <<"delSwitch", q>>
  /\ k' = [k EXCEPT !.curr = k.next]
  /\ pc' = Goes(k.curr, "delTest", q)

DeleteLoop(q, K) == DeleteTests(q) \/ DeleteTakes(q, K) \/ DeleteSwitches(q)
DeleteLoopOver(q) ==
  /\ k.next # Wild
  /\ \/ pc[k.curr] = <<"delEmpty", q>>
     \/ pc[k.curr] = <<"delMasked", q>> /\ NoWaiters(q)

-----------------------------------------------------------------------------
Places == {"user", "switch", "exit", "stuck", "waits", "waited",
           "delTest", "delFound", "delEmpty", "delMasked", "delSwitch"}

(* The types of the kernel's data when tasks use objects.                  *)
KernelTypeOK ==
  /\ k \in Kernel
  /\ pc \in [Task -> Places \X (WaitQ \cup {Null})]
  /\ ticks \in [Prio -> Nat]

WaitsFor(t, reasons) == Waiting(k, t) /\ k.reason[t] \in reasons

(* The wait queue q is intact and holds exactly the tasks that wait for    *)
(* one of the reasons.                                                     *)
HoldsWaiters(q, reasons) ==
  /\ WellFormed(k.link, Wait(q))
  /\ ToSet(Entries(k, Wait(q))) =
       {Tq(t) : t \in {u \in Task : WaitsFor(u, reasons) /\ k.pwait[u] = q}}
=============================================================================
