------------------------------ MODULE TnKernel ------------------------------
(***************************************************************************)
(* The task services, the scheduler and the tick of TNKernel               *)
(* (src/TNKernel/tn_tasks.c, tn.c, tn_port_asm.s).                         *)
(*                                                                         *)
(* A service runs with interrupts disabled, so it is one step; but it      *)
(* enables them again BEFORE it calls tn_switch_context, so the switch is  *)
(* a step of its own and interrupts come in between (pc "switch", "exit"). *)
(* An interrupt runs with interrupts disabled through the switch at its    *)
(* end (tn_cpu_irq_isr), so it is one step.  A call that the code refuses  *)
(* returns an error and changes nothing: it is no step.                    *)
(*                                                                         *)
(* What the application calls is not known to the kernel: the running task *)
(* may call any service of its program on any task.  The timer task        *)
(* (priority 0) has run tn_app_init and sleeps for ever, it is left out;   *)
(* so are the create list and the counters kept "for statistic only".      *)
(***************************************************************************)
EXTENDS TnCore

CONSTANTS
  Slices,     \* the pairs <<priority, ticks>> asked of tn_sys_tslice_ticks
  Timeouts,   \* the finite timeouts tasks ask for
  Programs    \* each the tasks in the order in which they are created, the
              \* attribute of the mutexes, and the services they and the
              \* interrupts use

ASSUME KernelAssumption ==
  /\ \A p \in Programs :
       /\ p.attr \in {"inherit", "ceiling"}
       /\ p.created \in Seq(User)
       /\ \A i, j \in DOMAIN p.created : p.created[i] = p.created[j] => i = j
  /\ Slices \subseteq (1..NumPrio - 1) \X Nat /\ Timeouts \subseteq Nat \ {0}

(* A program of these services never terminates a task that may sleep      *)
(* (tn_tasks.c:546, the entry of a list it is not in is removed) and never *)
(* deletes on exit one that may be activated again (tn_tasks.c:505, the    *)
(* task is made ready, then deleted).  Only proofs ask for it.             *)
Orderly(S) ==
  /\ ~({"sleep", "terminate"} \subseteq S)
  /\ "exit_and_delete" \notin S \/ S \cap {"activate", "iactivate"} = {}

VARIABLES
  k,          \* the kernel's data, see Kernel of TnCore
  pc,         \* of each task: its place in a service, and the object of that
  ticks,      \* tn_tslice_ticks of each priority
  services    \* the program, chosen at the start

vars == <<k, pc, ticks, services>>

-----------------------------------------------------------------------------
(* The kernel's data before tn_start_system has started a task.            *)
Blank(p) ==
  LET each(x) == [t \in Task |-> x]
      created == {Idle} \cup {p.created[i] : i \in DOMAIN p.created}
  IN  [state |-> each("dormant"), prio |-> Base, reason |-> each("none"),
       rc |-> each("ok"), pwait |-> each(Null), blk |-> each(Null),
       tick |-> each(Forever), slice |-> each(0), wakeup |-> each(0),
       activate |-> each(0), exists |-> [t \in Task |-> t \in created],
       elem |-> each(Null), ewait |-> each(NoEvent),
       holder |-> [m \in Mutex |-> Null], attr |-> [m \in Mutex |-> p.attr],
       bmp |-> {}, next |-> Wild, link |-> [n \in Node |-> [next |-> n, prev |-> n]],
       curr |-> Idle, request |-> FALSE]

(* tn_start_system and tn_app_init: the idle task, then the tasks in their *)
(* order, each started on creation; then the timer task sleeps.            *)
Started(p) ==
  LET after[n \in 0..Len(p.created)] ==
        IF n = 0 THEN ToRunnable(Blank(p), Idle)
        ELSE ToRunnable(after[n - 1], p.created[n])
  IN  after[Len(p.created)]
Init ==
  /\ \E p \in Programs : LET K == Started(p)
                         IN  k = [K EXCEPT !.curr = K.next] /\ services = p.services
  /\ pc = [t \in Task |-> <<"user", Null>>] /\ ticks = [p \in Prio |-> 0]

-----------------------------------------------------------------------------
(* A service called by the running task.  SwitchIf: the call ends in       *)
(* tn_switch_context when the test c before it holds.                      *)
Place(t) == pc[t][1]
Goes(t, place, q) == [pc EXCEPT ![t] = <<place, q>>]
Calls(s) == /\ s \in services /\ k.next # Wild /\ k.curr # Idle
            /\ Place(k.curr) = "user"
SwitchIfNever(c) == UNCHANGED pc   \* mutant: no tn_switch_context
SwitchIf(c) == pc' = Goes(k.curr, IF c THEN "switch" ELSE "user", Null)
SwitchIfNext(K) == SwitchIf(K.next # K.curr)

(* tn_switch_context, also when next is the running task.                  *)
SwitchContext ==
  /\ k.next # Wild /\ Place(k.curr) = "switch"
  /\ k' = [k EXCEPT !.curr = k.next]
  /\ pc' = Goes(k.curr, "user", Null)

(* tn_task_suspend                                                         *)
Suspend(u) ==
  /\ Calls("suspend") /\ k.exists[u]
  /\ ~Suspended(k, u) /\ k.state[u] # "dormant"
  /\ IF k.state[u] = "runnable"
     THEN LET K == ToNonRunnable([k EXCEPT !.state[u] = "suspend"], u)
          IN  k' = K /\ SwitchIfNext(K)
     ELSE k' = [k EXCEPT !.state[u] = "waitsusp"] /\ UNCHANGED pc

ResumeAlways(u) ==                 \* mutant: TSK_STATE_WAIT is not tested
  /\ Calls("resume") /\ k.exists[u] /\ Suspended(k, u)
  /\ LET K == ToRunnable(k, u) IN k' = K /\ SwitchIfNext(K)

(* tn_task_resume                                                          *)
Resume(u) ==
  /\ Calls("resume") /\ k.exists[u] /\ Suspended(k, u)
  /\ IF Waiting(k, u)
     THEN k' = [k EXCEPT !.state[u] = "wait"] /\ UNCHANGED pc
     ELSE LET K == ToRunnable(k, u) IN k' = K /\ SwitchIfNext(K)

(* tn_task_sleep; it returns TERR_NO_ERR whatever ended the wait.          *)
Sleep(timeout) ==
  LET t == k.curr IN
  /\ Calls("sleep")
  /\ IF k.wakeup[t] > 0
     THEN k' = [k EXCEPT !.wakeup[t] = @ - 1] /\ UNCHANGED pc
     ELSE /\ k' = CurrToWait(k, Null, "sleep", timeout)
          /\ SwitchIf(TRUE)

(* tn_task_wakeup and tn_task_iwakeup: what they do to the kernel's data.  *)
Sleeping(K, u) == Waiting(K, u) /\ K.reason[u] = "sleep"
CanWake(u) == /\ k.exists[u] /\ k.state[u] # "dormant"
              /\ Sleeping(k, u) \/ k.wakeup[k.curr] = 0
WakeupOf(u) ==
  IF Sleeping(k, u) THEN WaitComplete(k, u)
  ELSE [k EXCEPT !.wakeup[k.curr] = @ + 1]

Wakeup(u) ==
  /\ Calls("wakeup") /\ CanWake(u)
  /\ k' = WakeupOf(u)
  /\ SwitchIf(Sleeping(k, u) /\ Wakes(k, u))

(* tn_task_release_wait                                                    *)
ReleaseWait(u) ==
  /\ Calls("release_wait") /\ k.exists[u] /\ Waiting(k, u)
  /\ k' = WaitComplete(k, u) /\ SwitchIf(Wakes(k, u))

ActivateNoSwitch(u) ==             \* mutant: the switch is forgotten
  /\ Calls("activate") /\ k.exists[u] /\ k.state[u] = "dormant"
  /\ k' = ToRunnable(k, u) /\ UNCHANGED pc

(* tn_task_activate                                                        *)
Activate(u) ==
  /\ Calls("activate") /\ k.exists[u]
  /\ IF k.state[u] = "dormant"
     THEN LET K == ToRunnable(k, u) IN k' = K /\ SwitchIfNext(K)
     ELSE /\ k.activate[u] = 0
          /\ k' = [k EXCEPT !.activate[u] = 1] /\ UNCHANGED pc

RestartEarly(K, t) ==              \* mutant: ready before it is reset
  IF K.activate[t] > 0
  THEN Dormant([ToRunnable(K, t) EXCEPT !.activate[t] = @ - 1], t)
  ELSE Dormant(K, t)

(* The end of tn_task_exit and tn_task_terminate: dormant, and started     *)
(* again when an activation is pending.                                    *)
Restart(K, t) ==
  IF K.activate[t] > 0
  THEN ToRunnable([Dormant(K, t) EXCEPT !.activate[t] = @ - 1], t)
  ELSE Dormant(K, t)

(* tn_task_exit up to tn_enable_interrupt: tn_stack_init gives the task a  *)
(* new context at its entry point (pc "exit": the switch is still to come, *)
(* the task's saved context is the new one).                               *)
Exit(delete) ==
  LET t == k.curr IN
      /\ Calls("exit")
      /\ delete => "exit_and_delete" \in services
      /\ k' = [Restart(ToNonRunnable(UnlockAll(k, t), t), t) EXCEPT
                 !.exists[t] = @ /\ ~delete]
      /\ pc' = Goes(t, "exit", Null)

(* tn_switch_context_exit: loads the saved context of the next task.  That *)
(* of a task interrupted here has been stored over the new one ("stuck":   *)
(* when it runs again it runs tn_switch_context_exit).                     *)
SwitchContextExit ==
  LET t == k.curr IN
  /\ k.next # Wild /\ Place(t) \in {"exit", "stuck"}
  /\ k' = [k EXCEPT !.curr = k.next]
  /\ pc' = Goes(t, IF Place(t) = "exit" THEN "user" ELSE "stuck", Null)

(* tn_task_terminate; tn_stack_init gives the task a context at its entry  *)
(* point.  A waiting task is taken out of its wait list, a sleeping one,   *)
(* which is in none, too.                                                  *)
Terminate(u) ==
  LET L0 == RemoveEntry(k.link, Tq(u))
      L == IF Mutex = {} THEN L0 ELSE Unblocked(L0, u)
      K == CASE k.state[u] = "runnable" -> ToNonRunnable(k, u)
             [] Waiting(k, u) ->
                  [k EXCEPT !.link = IF k.tick[u] = Forever THEN L
                                     ELSE RemoveEntry(L, Tm(u))]
             [] OTHER -> k
  IN  /\ Calls("terminate") /\ k.exists[u]
      /\ k.state[u] # "dormant" /\ u # k.curr
      /\ k' = Restart(UnlockAll(K, u), u)
      /\ pc' = [Goes(u, "user", Null) EXCEPT
                   ![k.curr] = IF k.activate[u] > 0 /\ k'.next # k.curr
                               THEN <<"switch", Null>> ELSE @]

(* tn_task_delete                                                          *)
Delete(u) ==
  /\ Calls("delete") /\ k.exists[u] /\ k.state[u] = "dormant"
  /\ k' = [k EXCEPT !.exists[u] = FALSE]
  /\ UNCHANGED pc

CreateAgain(u, start) ==           \* mutant: id_task is not tested
  LET K == Dormant([k EXCEPT !.exists[u] = TRUE, !.activate[u] = 0], u)
  IN  /\ Calls("create") /\ start => "start_on_creation" \in services
      /\ k' = IF start THEN ToRunnable(K, u) ELSE K
      /\ pc' = Goes(u, "user", Null)

(* tn_task_create, with or without TN_TASK_START_ON_CREATION: the caller   *)
(* does not switch to the task it starts.                                  *)
Create(u, start) ==
  LET K == Dormant([k EXCEPT !.exists[u] = TRUE, !.activate[u] = 0], u)
  IN  /\ Calls("create") /\ ~k.exists[u]
      /\ start => "start_on_creation" \in services
      /\ k' = IF start THEN ToRunnable(K, u) ELSE K
      /\ pc' = Goes(u, "user", Null)

(* tn_task_change_priority; 0 asks for the base priority.                  *)
ChangePriority(u, priority) ==
  LET p == IF priority = 0 THEN Base[u] ELSE priority
      K == ChangeRunning(k, u, p)
  IN  /\ Calls("change_priority") /\ k.exists[u] /\ k.state[u] # "dormant"
      /\ IF k.state[u] = "runnable"
         THEN k' = K /\ SwitchIf(K.next # k.next)
         ELSE k' = [k EXCEPT !.prio[u] = p] /\ UNCHANGED pc

(* tn_sys_tslice_ticks                                                     *)
TsliceTicks(priority, value) ==
  /\ Calls("tslice_ticks") /\ value # ticks[priority]
  /\ ticks' = [ticks EXCEPT ![priority] = value] /\ UNCHANGED <<k, pc>>

-----------------------------------------------------------------------------
(* Interrupts.  They are disabled in a delete loop (TnObject) at "delMasked".*)
Enabled == Place(k.curr) # "delMasked"

(* tn_cpu_irq_isr: the handler leaves the kernel as K, then   *)
(* the request of a context switch is carried out on the way out, storing  *)
(* the interrupted context in the running task's TCB.                      *)
IrqExit(K) ==
  /\ k.next # Wild /\ K.next # Wild /\ Enabled
  /\ IF K.request
     THEN /\ k' = [K EXCEPT !.request = FALSE, !.curr = K.next]
          /\ pc' = IF Place(k.curr) = "exit" THEN Goes(k.curr, "stuck", Null) ELSE pc
     ELSE k' = K /\ UNCHANGED pc

Request(K, c) == [K EXCEPT !.request = @ \/ c]

IWakeup(u) ==
  /\ "iwakeup" \in services /\ CanWake(u)
  /\ IrqExit(Request(WakeupOf(u), Sleeping(k, u) /\ Wakes(k, u)))

IReleaseWait(u) ==
  /\ "irelease_wait" \in services /\ k.exists[u] /\ Waiting(k, u)
  /\ IrqExit(Request(WaitComplete(k, u), Wakes(k, u)))

IActivate(u) ==
  /\ "iactivate" \in services /\ k.exists[u]
  /\ IF k.state[u] = "dormant"
     THEN LET K == ToRunnable(k, u) IN IrqExit(Request(K, K.next # K.curr))
     ELSE /\ k.activate[u] = 0
          /\ IrqExit([k EXCEPT !.activate[u] = 1])

(* tn_tick_int_processing, its round robin: the list of the running task's *)
(* priority is rotated, tn_next_task_to_run is not.                        *)
RoundRobin(K) ==
  LET t == K.curr
      q == Ready(K.prio[t])
      e == K.link[q].prev
      rotated == IF IsEmpty(K.link, q) \/ K.link[K.link[q].next].next = q
                 THEN K.link ELSE AddHead(RemoveTail(K.link, q), q, e)
  IN  IF ticks[K.prio[t]] = 0 THEN K
      ELSE IF K.slice[t] + 1 <= ticks[K.prio[t]] THEN [K EXCEPT !.slice[t] = @ + 1]
      ELSE [K EXCEPT !.slice[t] = 0, !.link = rotated]

(* ... and its timeouts, one entry of tn_wait_timeout_list after another.  *)
(* The entry whose wait ends is taken out, the walk goes on behind it.     *)
TickEntryStops(K, n) ==            \* mutant: off by one
  LET t == n[2] IN
  IF K.tick[t] = Forever \/ K.tick[t] <= 1 THEN K
  ELSE [K EXCEPT !.tick[t] = @ - 1]

TickEntry(K, n) ==
  LET t  == n[2]
      K1 == [K EXCEPT !.tick[t] = @ - 1]
  IN  IF K.tick[t] = Forever \/ K.tick[t] = 0 THEN K
      ELSE IF K1.tick[t] > 0 THEN K1
      ELSE IF ~Wakes(K1, t) THEN WaitComplete(K1, t)
      ELSE [WaitComplete(K1, t) EXCEPT !.request = TRUE, !.rc[t] = "timeout"]

Ticked(K, w) ==
  LET after[n \in 0..Len(w)] == IF n = 0 THEN K ELSE TickEntry(after[n - 1], w[n])
  IN  after[Len(w)]

(* K is bound by \E and not by LET for TLC to evaluate it once.            *)
Tick == \E K \in {Ticked(RoundRobin(k), Entries(k, TimeoutList))} : IrqExit(K)

TaskService ==
  \/ \E timeout \in Timeouts \cup {Forever} : Sleep(timeout)
  \/ \E delete \in BOOLEAN : Exit(delete)
  \/ \E u \in User :
       \/ Suspend(u) \/ Resume(u) \/ Wakeup(u) \/ ReleaseWait(u)
       \/ Activate(u) \/ Terminate(u) \/ Delete(u)
       \/ \E start \in BOOLEAN : Create(u, start)
       \/ \E p \in 0..NumPrio - 1 : ChangePriority(u, p)

Service ==
  \/ TaskService /\ UNCHANGED ticks
  \/ \E s \in Slices : TsliceTicks(s[1], s[2])

Interrupt ==
  Tick \/ \E u \in User : IWakeup(u) \/ IReleaseWait(u) \/ IActivate(u)

KernelStep ==
  /\ \/ Service
     \/ (SwitchContext \/ SwitchContextExit \/ Interrupt) /\ UNCHANGED ticks
  /\ UNCHANGED services

Next == KernelStep

Spec == Init /\ [][Next]_vars

(* The timer interrupt keeps coming, and a task at a switch does it.       *)
Fairness ==
  /\ WF_vars(Tick /\ UNCHANGED <<ticks, services>>)
  /\ WF_vars((SwitchContext \/ SwitchContextExit) /\ UNCHANGED <<ticks, services>>)
FairSpec == Spec /\ Fairness

-----------------------------------------------------------------------------
RunnableAt(p) == {t \in Task : k.state[t] = "runnable" /\ k.prio[t] = p}

(* The data have the types tn.h gives them, and the pointers to tasks      *)
(* point to tasks.                                                         *)
TypeOK ==
  /\ k \in Kernel
  /\ pc \in [Task -> {"user", "switch", "exit", "stuck"} \X {Null}]
  /\ ticks \in [Prio -> Nat]

(* tn.h calls tn_ready_list "all ready to run(RUNNABLE) tasks": each list  *)
(* is intact and holds exactly the RUNNABLE tasks of its priority, once,   *)
(* and the bit map shows the lists that are not empty.                     *)
ReadyListsHold ==
  /\ \A p \in Prio :
       /\ WellFormed(k.link, Ready(p))
       /\ Members(k, Ready(p)) = {Tq(t) : t \in RunnableAt(p)}
  /\ k.bmp = {p \in Prio : RunnableAt(p) # {}}

(* tn.h calls tn_wait_timeout_list "all tasks that wait timeout            *)
(* expiration": it is intact and holds exactly those tasks.                *)
TimeoutListHolds ==
  /\ WellFormed(k.link, TimeoutList)
  /\ Members(k, TimeoutList) = {Tm(t) : t \in {u \in Task : k.tick[u] # Forever}}
  /\ \A t \in Task : k.tick[t] # Forever => Waiting(k, t) /\ k.tick[t] > 0

(* Preemption: no task runs its own code while a task of higher priority   *)
(* is RUNNABLE, or when it is not RUNNABLE itself, however services and    *)
(* interrupts interleave; and the task chosen to run next is the right one.*)
(* (tn_task_create does not switch to a task it starts.  With time slices, *)
(* a terminate can leave as the next task another one of the running       *)
(* task's priority, without a switch: then the running task's priority may *)
(* be lowered and nobody asks for a switch.)                               *)
SwitchesAsked ==
  /\ "start_on_creation" \notin services
  /\ ~({"tslice_ticks", "terminate", "change_priority"} \subseteq services)
HighestRuns ==
  LET highest(t) == /\ k.state[t] = "runnable"
                    /\ \A u \in Task : k.state[u] = "runnable" => k.prio[t] <= k.prio[u]
  IN  /\ k.next # Wild => highest(k.next)
      /\ Place(k.curr) = "user" /\ SwitchesAsked => highest(k.curr)

(* tn_tasks.c:603: "Cannot delete not-terminated task": a TCB that no      *)
(* longer exists, and may be created anew, is in no list.                  *)
DeletedIsDormant == \A t \in Task : ~k.exists[t] => k.state[t] = "dormant"

(* A sleep with a timeout ends, whatever the other tasks do.               *)
SleepEnds == \A t \in Task :
  Sleeping(k, t) /\ k.tick[t] # Forever ~> ~(Sleeping(k, t) /\ k.tick[t] # Forever)
=============================================================================
