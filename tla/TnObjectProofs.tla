--------------------------- MODULE TnObjectProofs ---------------------------
(***************************************************************************)
(* What the proofs about the kernel's objects share, for any number of     *)
(* tasks and priorities and any program that is Careful, and the proofs of *)
(* the steps of semaphores and events.                                     *)
(*                                                                         *)
(* What every service does to the scheduler and to the tasks in a wait     *)
(* queue is said once for all objects (Beside, Out, Freed); each object    *)
(* then has an invariant of its own data, its queue and the tasks that are *)
(* in its services, which the steps of the other objects do not touch.     *)
(***************************************************************************)
EXTENDS TnObjects, TnKernelProofs

-----------------------------------------------------------------------------
(* The steps of the objects' services, whatever object it is.              *)

\* The service that deletes the object of a queue.
Deleter(q) == IF q = "sem" THEN "sem_delete" ELSE IF q \in {"send", "receive"} THEN "queue_delete"
              ELSE IF q = "mem" THEN "fmem_delete" ELSE "event_delete"

\* A delete that has found no waiting task runs to its end.
DeletePlaces == {"delTest", "delFound", "delEmpty", "delMasked", "delSwitch"}
Closing ==
  /\ Careful(services)
  /\ \A t \in Task :
       /\ pc[t][1] \in DeletePlaces => Deleter(pc[t][2]) \in services
       /\ pc[t][1] \in {"delEmpty", "delMasked"} => t = k.curr
       /\ pc[t][1] = "delEmpty" => Queues(k)[pc[t][2]] = <<>>
Steady == KInv /\ Closing

\* A step that leaves the queues outside Q and the tasks in them alone.
Beside(Q) ==
  /\ \A q \in WaitQ \ Q : Queues(k')[q] = Queues(k)[q]
  /\ \A t \in Task : \/ pc'[t] = pc[t] /\ View(k', k, t)
                     \/ pc[t][2] \in Q \cup {Null} /\ pc'[t][2] \in Q \cup {Null}

\* What the invariant says of a task in a queue.
QueueFacts(K, q, m) ==
  LET t == Queues(K)[q][m]
  IN  /\ t \in User /\ K.pwait[t] = q /\ Waiting(K, t) /\ K.exists[t]
      /\ K.reason[t] = Why(q) /\ K.tick[t] = Forever
      /\ services \cap {"release_wait", "irelease_wait"} = {}
      /\ Called(K, t)
LEMMA InQueue ==
  ASSUME NEW K, Sound(K), NEW q \in WaitQ, NEW m \in 1 .. Len(Queues(K)[q])
  PROVE  QueueFacts(K, q, m)
<1> DEFINE wq == Queues(K)
           t == wq[q][m]
<1>1. /\ Sched(K, Runnables(K), wq) /\ K.state[Idle] = "runnable" /\ K \in Kernel
      /\ \A u \in Task : OneTask(K, wq, u)
      /\ K.state \in [Task -> State]
  BY SoundFacts
<1>2. WaitLists(K.link, wq) /\ K.link \in Memory(Node)
  BY <1>1 DEF Sched, Listed
<1>3. t \in Task
  BY <1>2, WaitFacts
<1>4. In(wq, q, t)
  BY DEF In
<1>5. OneTask(K, wq, t)
  BY <1>1, <1>3
<1>6. K.pwait[t] = q /\ q # Null
  BY <1>4, <1>5, CoreAssumption DEF OneTask
<1>7. /\ Waiting(K, t) /\ K.exists[t]
      /\ services \cap {"release_wait", "irelease_wait"} = {}
      /\ Called(K, t)
      /\ K.reason[t] = Why(q)
      /\ K.tick[t] # Forever => K.pwait[t] = Null
  BY <1>5, <1>6 DEF OneTask, Waiting
<1>8. t # Idle
  BY <1>1, <1>7 DEF Waiting
<1> QED
  BY <1>3, <1>6, <1>7, <1>8 DEF QueueFacts, User

\* The first task of a queue, as the services find it.
AtFirst(K, q) ==
  /\ IsEmpty(K.link, Wait(q)) <=> Queues(K)[q] = <<>>
  /\ K.link[Wait(q)].next = Wait(q) <=> Queues(K)[q] = <<>>
  /\ Queues(K)[q] # <<>> => /\ 1 \in 1 .. Len(Queues(K)[q])
                            /\ TaskOf(K.link[Wait(q)].next) = Queues(K)[q][1]
                            /\ RemoveHead(K.link, Wait(q)) = RemoveEntry(K.link, Tq(Queues(K)[q][1]))
LEMMA FirstIs ==
  ASSUME NEW K, Sound(K), NEW q \in WaitQ
  PROVE  AtFirst(K, q)
<1> DEFINE wq == Queues(K)
<1>1. Sched(K, Runnables(K), wq)
  BY SoundFacts
<1>2. WaitLists(K.link, wq) /\ K.link \in Memory(Node)
  BY <1>1 DEF Sched, Listed
<1>3. WaitWalkIs(K.link, q, wq[q])
  BY <1>2, WaitWalk
<1> QED
  BY <1>3 DEF WaitWalkIs, AtFirst

\* The kernel's data with the m-th task of queue q taken out of it; what the
\* service hands to that task may have been written into its TCB.
Out(J, K, q, m) ==
  LET t == Queues(K)[q][m]
  IN  /\ J = [K EXCEPT !.link = RemoveEntry(@, Tq(t)), !.elem = J.elem, !.ewait = J.ewait]
      /\ J.elem \in [Task -> Elem \cup {Null}]
      /\ J.ewait \in [Task -> [pattern: SUBSET Flag, or: BOOLEAN]]
      /\ \A u \in Task : u # t => J.elem[u] = K.elem[u] /\ J.ewait[u] = K.ewait[u]

\* The task's wait is over.
Freed(J, K, q, m, V) ==
  LET t == Queues(K)[q][m]
  IN  /\ Sound(J) /\ Queues(J) = [Queues(K) EXCEPT ![q] = Without(@, m)]
      /\ J.prio = K.prio /\ J.curr = K.curr /\ J.request = K.request
      /\ \A u \in Task : K.state[u] = "runnable" => J.state[u] = "runnable"
      /\ AtHead(K) => AtHead(J)
      /\ Suspended(K, t) => J.next = K.next
      /\ ~Waiting(J, t) /\ J.reason[t] = "none" /\ J.pwait[t] = Null /\ J.rc[t] = "ok"
      /\ J.elem[t] = V.elem[t] /\ J.ewait[t] = V.ewait[t]
      /\ \A u \in Task : u # t => View(J, K, u) /\ J.state[u] = K.state[u]

LEMMA WaitFreed ==
  ASSUME NEW K, Sound(K), NEW q \in WaitQ, NEW m \in 1 .. Len(Queues(K)[q]),
         NEW V, Out(V, K, q, m)
  PROVE  /\ Freed(WaitComplete(V, Queues(K)[q][m]), K, q, m, V)
         /\ (Wakes(V, Queues(K)[q][m]) <=> ~Suspended(K, Queues(K)[q][m]))
<1> DEFINE wq == Queues(K)
           t == wq[q][m]
           new == [wq EXCEPT ![q] = Without(@, m)]
           T == [K EXCEPT !.link = RemoveEntry(@, Tq(t))]
           R == Runnables(K)
<1>1. /\ Sched(K, R, wq) /\ K.state[Idle] = "runnable" /\ K \in Kernel
      /\ \A u \in Task : OneTask(K, wq, u)
  BY SoundFacts
<1>2. QueueFacts(K, q, m)
  BY InQueue
<1>3. t \in Task /\ Waiting(K, t) /\ K.exists[t] /\ K.reason[t] = Why(q) /\ Called(K, t)
  BY <1>2 DEF QueueFacts, User
<1>q. Queues(K) = wq
  OBVIOUS
<1>m. m \in 1 .. Len(wq[q])
  OBVIOUS
<1> HIDE DEF wq
<1>4. /\ Sched(T, R, new) /\ Queued(new) = Queued(wq) \ {t}
      /\ Frame(T, K) /\ T.state = K.state /\ T.prio = K.prio /\ T.next = K.next
      /\ AtHead(K) => AtHead(T)
  BY <1>1, <1>m, TakenIs
<1>5. /\ V \in Kernel
      /\ V.link = T.link /\ V.prio = K.prio /\ V.tick = K.tick /\ V.bmp = T.bmp /\ V.next = K.next
      /\ V.state = K.state /\ V.reason = K.reason /\ V.pwait = K.pwait /\ V.rc = K.rc
      /\ V.activate = K.activate /\ V.exists = K.exists /\ V.curr = K.curr /\ V.request = K.request
      /\ \A u \in Task : u # t => V.elem[u] = K.elem[u] /\ V.ewait[u] = K.ewait[u]
  <2>0. T \in Kernel
    BY <1>4 DEF Sched
  <2>1. /\ V = [K EXCEPT !.link = RemoveEntry(@, Tq(t)), !.elem = V.elem, !.ewait = V.ewait]
        /\ V.elem \in [Task -> Elem \cup {Null}]
        /\ V.ewait \in [Task -> [pattern: SUBSET Flag, or: BOOLEAN]]
        /\ \A u \in Task : u # t => V.elem[u] = K.elem[u] /\ V.ewait[u] = K.ewait[u]
    BY <1>q DEF Out
  <2> DEFINE a == V.elem
             b == V.ewait
  <2>2. V = [K EXCEPT !.link = RemoveEntry(@, Tq(t)), !.elem = a, !.ewait = b]
        /\ a \in [Task -> Elem \cup {Null}]
        /\ b \in [Task -> [pattern: SUBSET Flag, or: BOOLEAN]]
    BY <2>1
  <2> HIDE DEF a, b
  <2>3. V = [T EXCEPT !.elem = a, !.ewait = b]
    BY <2>2, <1>1 DEF Kernel
  <2> HIDE DEF T
  <2>4. V \in Kernel
    BY <2>0, <2>2, <2>3, ZenonT(60) DEF Kernel
  <2>5. /\ V.link = T.link /\ V.prio = T.prio /\ V.tick = T.tick /\ V.bmp = T.bmp /\ V.next = T.next
        /\ V.state = T.state /\ V.reason = T.reason /\ V.pwait = T.pwait /\ V.rc = T.rc
        /\ V.activate = T.activate /\ V.exists = T.exists /\ V.curr = T.curr /\ V.request = T.request
    BY <2>0, <2>3 DEF Kernel
  <2> QED
    BY <2>1, <2>4, <2>5, <1>4 DEF Frame
<1> HIDE DEF T
<1>6. Sched(V, R, new) /\ (AtHead(K) => AtHead(V))
  <2>1. Timers(V) = Timers(T) /\ T.tick = K.tick /\ T.prio = K.prio
    BY <1>4, <1>5 DEF Timers, Frame
  <2>2. Listed(V.link, V.prio, R, Timers(V), new)
    BY <1>4, <1>5, <2>1 DEF Sched
  <2>3. V.bmp = {V.prio[u] : u \in R}
    BY <1>4, <1>5, <2>1 DEF Sched
  <2>4. Chosen(V, R)
    BY <1>4, <1>5, <2>1 DEF Sched, Chosen
  <2>5. AtHead(T) => AtHead(V)
    BY <1>4, <1>5 DEF AtHead
  <2> QED
    BY <1>4, <1>5, <2>2, <2>3, <2>4, <2>5 DEF Sched
<1>7. Runnables(V) = R
  BY <1>5 DEF Runnables
<1>8. \A u \in Task : u # t => OneTask(V, new, u)
  <2> SUFFICES ASSUME NEW u \in Task, u # t PROVE OneTask(V, new, u)
    OBVIOUS
  <2>1. \A r \in WaitQ : In(new, r, u) <=> In(wq, r, u)
    BY <1>1, <1>q, OthersStay
  <2>2. OneTask(K, wq, u)
    BY <1>1, <1>q
  <2> HIDE DEF new
  <2> QED
    BY <1>5, <2>1, <2>2, OneTaskSame
<1>9. SoundBut(V, new, t)
  BY <1>1, <1>5, <1>6, <1>7, <1>8 DEF SoundBut
<1>10. Leaving(V, new, t)
  <2>1. Why(q) \notin ByMutex
    BY DEF Why, ByMutex
  <2>2. t \notin Queued(new)
    BY <1>4
  <2> QED
    BY <2>1, <2>2, <1>3, <1>5 DEF Leaving, Waiting, Called, Suspended
<1> HIDE DEF new
<1>11. Completed(WaitComplete(V, t), V, new, t) /\ (Wakes(V, t) <=> ~Suspended(V, t))
  BY <1>3, <1>9, <1>10, WaitOver
<1> DEFINE J == WaitComplete(V, t)
<1>j. J = WaitComplete(V, t)
  OBVIOUS
<1> HIDE DEF J
<1>12. Suspended(V, t) <=> Suspended(K, t)
  BY <1>5 DEF Suspended
<1>13. \A u \in Task : u # t => View(J, K, u) /\ J.state[u] = K.state[u]
  <2> SUFFICES ASSUME NEW u \in Task, u # t PROVE View(J, K, u) /\ J.state[u] = K.state[u]
    OBVIOUS
  <2>1. View(J, V, u) /\ J.state[u] = V.state[u]
    BY <1>11, <1>j DEF Completed
  <2> QED
    BY <2>1, <1>5 DEF View, Waiting
<1>14. Freed(J, K, q, m, V)
  <2>1. Completed(J, V, new, t)
    BY <1>11, <1>j
  <2>2. /\ Sound(J) /\ Queues(J) = new
        /\ J.prio = V.prio /\ J.curr = V.curr /\ J.request = V.request
        /\ \A u \in Task : V.state[u] = "runnable" => J.state[u] = "runnable"
        /\ AtHead(V) => AtHead(J)
        /\ Suspended(V, t) => J.next = V.next
        /\ ~Waiting(J, t) /\ J.reason[t] = "none" /\ J.pwait[t] = Null /\ J.rc[t] = "ok"
        /\ J.elem[t] = V.elem[t] /\ J.ewait[t] = V.ewait[t]
    BY <2>1 DEF Completed
  <2> QED
    BY <2>2, <1>5, <1>6, <1>12, <1>13, <1>q DEF Freed, new
<1> QED
  BY <1>11, <1>12, <1>14, <1>j, <1>q

\* The places of the tasks and what they wait for stay in step.
LEMMA WithinKept ==
  ASSUME KInv, NEW J, NEW P,
         \A u \in Task : \/ P[u] = pc[u] /\ View(J, k, u)
                         \/ J.pwait[u] = Null /\ (P[u][2] = Null \/ J.reason[u] # "sleep")
  PROVE  Within(J, P)
<1> SUFFICES ASSUME NEW u \in Task
             PROVE  /\ P[u][2] # Null => J.reason[u] # "sleep"
                    /\ J.pwait[u] # Null => P[u] \in {"waits", "waited"} \X {J.pwait[u]}
  BY DEF Within
<1>1. /\ pc[u][2] # Null => k.reason[u] # "sleep"
      /\ k.pwait[u] # Null => pc[u] \in {"waits", "waited"} \X {k.pwait[u]}
  BY DEF KInv, Within
<1>2. CASE P[u] = pc[u] /\ View(J, k, u)
  BY <1>1, <1>2 DEF View
<1>3. CASE J.pwait[u] = Null /\ (P[u][2] = Null \/ J.reason[u] # "sleep")
  BY <1>3
<1> QED
  BY <1>2, <1>3

\* No delete loop is at its end while another task or an interrupt acts.
LEMMA ClosingMoves ==
  ASSUME Closing, services' = services,
         \/ pc[k.curr][1] \notin {"delEmpty", "delMasked"}
         \/ services \cap Preempting # {},
         \A t \in Task : pc'[t] = pc[t] \/ pc'[t][1] \notin DeletePlaces
  PROVE  Closing'
<1>1. \A t \in Task : pc[t][1] \notin {"delEmpty", "delMasked"}
  <2> SUFFICES ASSUME NEW t \in Task, pc[t][1] \in {"delEmpty", "delMasked"} PROVE FALSE
    OBVIOUS
  <2>1. t = k.curr /\ services \cap Deleting # {} /\ Careful(services)
    BY DEF Closing, DeletePlaces, Deleter, Deleting
  <2>2. services \cap Preempting = {}
    BY <2>1 DEF Careful
  <2> QED
    BY <2>1, <2>2
<1>2. \A t \in Task : /\ pc'[t][1] \in DeletePlaces => Deleter(pc'[t][2]) \in services'
                      /\ pc'[t][1] \notin {"delEmpty", "delMasked"}
  BY <1>1 DEF Closing, DeletePlaces
<1> QED
  BY <1>2 DEF Closing

\* A step of nobody inside the kernel.
LEMMA StillStep ==
  ASSUME Steady, UNCHANGED <<k, pc, ticks, services>>
  PROVE  Steady'
<1>1. KInv'
  BY InvKept DEF Steady, KInv, Place
<1>2. Closing'
  BY DEF Steady, Closing
<1> QED
  BY <1>1, <1>2 DEF Steady

\* Whether the end of a wait in a queue asks for a switch.
LEMMA WakesIs ==
  ASSUME NEW K, Sound(K), NEW t \in Task
  PROVE  Wakes(K, t) <=> ~Suspended(K, t)
<1>1. OneTask(K, Queues(K), t) /\ t # Wild
  BY SoundFacts, ConstantFacts
<1>2. K.reason[t] \notin ByMutex
  BY <1>1, FreeFacts
<1>3. WaitComplete(K, t) = WaitEnds(K, t)
  BY <1>1, <1>2 DEF WaitComplete
<1> QED
  BY <1>1, <1>3 DEF Wakes

\* queue_remove_head of a wait queue, and what may be handed to the task.
FirstOutIs(q, e) ==
  LET t == Queues(k)[q][1]
      V == [WithoutFirst(q) EXCEPT
              !.elem = IF First(q) = Wild THEN @ ELSE [@ EXCEPT ![First(q)] = e]]
  IN  /\ 1 \in 1 .. Len(Queues(k)[q]) /\ First(q) = t /\ t \in Task /\ t # Wild
      /\ Out(WithoutFirst(q), k, q, 1)
      /\ WithoutFirst(q).elem = k.elem /\ WithoutFirst(q).ewait = k.ewait
      /\ Out(V, k, q, 1) /\ V.elem[t] = e /\ V.ewait = k.ewait
LEMMA FirstOut ==
  ASSUME Sound(k), NEW q \in WaitQ, ~NoWaiters(q), NEW e \in Elem \cup {Null}
  PROVE  FirstOutIs(q, e)
<1> DEFINE t == Queues(k)[q][1]
           U == WithoutFirst(q)
           V == [U EXCEPT !.elem = IF First(q) = Wild THEN @ ELSE [@ EXCEPT ![First(q)] = e]]
<1>1. AtFirst(k, q)
  BY FirstIs
<1>2. /\ 1 \in 1 .. Len(Queues(k)[q])
      /\ TaskOf(k.link[Wait(q)].next) = t
      /\ RemoveHead(k.link, Wait(q)) = RemoveEntry(k.link, Tq(t))
  BY <1>1 DEF AtFirst, NoWaiters
<1>3. QueueFacts(k, q, 1)
  BY <1>2, InQueue
<1>4. t \in Task /\ t # Wild
  BY <1>3, ConstantFacts DEF QueueFacts, User
<1>5. First(q) = t
  BY <1>2 DEF First
<1>k. k \in Kernel /\ k.elem \in [Task -> Elem \cup {Null}]
      /\ k.ewait \in [Task -> [pattern: SUBSET Flag, or: BOOLEAN]]
  BY SoundFacts, KernelFields
<1> DEFINE a == k.elem
           b == k.ewait
           c == [a EXCEPT ![t] = e]
           M == RemoveEntry(k.link, Tq(t))
<1>6. U = [k EXCEPT !.link = M]
  BY <1>2 DEF WithoutFirst
<1>7. V = [U EXCEPT !.elem = c]
  <2>1. U.elem = a
    BY <1>6, <1>k DEF Kernel
  <2> HIDE DEF U, M
  <2> QED
    BY <1>4, <1>5, <2>1
<1>8. c \in [Task -> Elem \cup {Null}] /\ c[t] = e /\ \A u \in Task : u # t => c[u] = k.elem[u]
  BY <1>k, <1>4
<1>q. Queues(k)[q][1] = t
  OBVIOUS
<1>a. a = k.elem /\ b = k.ewait /\ a \in [Task -> Elem \cup {Null}]
      /\ b \in [Task -> [pattern: SUBSET Flag, or: BOOLEAN]]
  BY <1>k
<1>m. M = RemoveEntry(k.link, Tq(t))
  OBVIOUS
<1> HIDE DEF c, t, a, b, M, U, V
<1>9. /\ U.elem = a /\ U.ewait = b
      /\ U = [k EXCEPT !.link = M, !.elem = a, !.ewait = b]
  BY <1>6, <1>k, <1>a DEF Kernel
<1>10. /\ V.elem = c /\ V.ewait = b
       /\ V = [k EXCEPT !.link = M, !.elem = c, !.ewait = b]
  BY <1>6, <1>7, <1>k, <1>a DEF Kernel
<1>11. Out(U, k, q, 1)
  BY <1>9, <1>a, <1>m, <1>q DEF Out
<1>12. Out(V, k, q, 1)
  BY <1>10, <1>a, <1>8, <1>m, <1>q DEF Out
<1> QED
  BY <1>2, <1>4, <1>5, <1>8, <1>9, <1>10, <1>11, <1>12, <1>a, <1>q DEF FirstOutIs, U, V

\* A service that ends the wait of the first task in a queue: what it writes
\* into its TCB is in V.
Handed(q, V) ==
  LET t == Queues(k)[q][1]
  IN  /\ Steady'
      /\ 1 \in 1 .. Len(Queues(k)[q]) /\ t \in Task /\ k.pwait[t] = q
      /\ Queues(k') = [Queues(k) EXCEPT ![q] = Without(@, 1)]
      /\ ~Waiting(k', t) /\ k'.reason[t] = "none" /\ k'.pwait[t] = Null /\ k'.rc[t] = "ok"
      /\ k'.elem[t] = V.elem[t] /\ k'.ewait[t] = V.ewait[t]
      /\ \A u \in Task : u # t => View(k', k, u)
      /\ \A u \in Task : pc'[u] = pc[u] \/ (pc[u][2] = Null /\ pc'[u][2] = Null)

\* What is common to services and interrupts: J is the kernel's data in the end.
LEMMA HandedIs ==
  ASSUME Steady, NEW q \in WaitQ, NEW V, 1 \in 1 .. Len(Queues(k)[q]),
         NEW K, Freed(K, k, q, 1, V), NEW J, Sound(J), ~J.request, Queues(J) = Queues(K),
         \A u \in Task : View(J, K, u), k' = J, UNCHANGED <<ticks, services>>,
         "tslice_ticks" \notin services => AtHead(J),
         Runs(pc'[J.curr][1]) => RunsRight(J), pc' \in [Task -> Spots],
         \/ pc[k.curr][1] \notin {"delEmpty", "delMasked"}
         \/ services \cap Preempting # {},
         \A u \in Task : pc'[u] = pc[u] \/ (pc[u][2] = Null /\ pc'[u][2] = Null
                                            /\ pc'[u][1] \notin DeletePlaces)
  PROVE  Handed(q, V)
<1> DEFINE t == Queues(k)[q][1]
           P == pc'
<1>1. QueueFacts(k, q, 1)
  BY InQueue DEF Steady, KInv
<1>2. t \in Task /\ k.pwait[t] = q
  BY <1>1 DEF QueueFacts, User
<1>3. /\ Queues(K) = [Queues(k) EXCEPT ![q] = Without(@, 1)]
      /\ ~Waiting(K, t) /\ K.reason[t] = "none" /\ K.pwait[t] = Null /\ K.rc[t] = "ok"
      /\ K.elem[t] = V.elem[t] /\ K.ewait[t] = V.ewait[t]
      /\ \A u \in Task : u # t => View(K, k, u)
  BY DEF Freed
<1>4. /\ ~Waiting(J, t) /\ J.reason[t] = "none" /\ J.pwait[t] = Null /\ J.rc[t] = "ok"
      /\ J.elem[t] = V.elem[t] /\ J.ewait[t] = V.ewait[t]
      /\ \A u \in Task : u # t => View(J, k, u)
  BY <1>2, <1>3 DEF View
<1>p. \A u \in Task : P[u] = pc[u] \/ (pc[u][2] = Null /\ P[u][2] = Null)
  OBVIOUS
<1>w. \A u \in Task : pc[u][2] = Null => k.pwait[u] = Null
  <2> SUFFICES ASSUME NEW u \in Task, pc[u][2] = Null, k.pwait[u] # Null PROVE FALSE
    OBVIOUS
  <2>1. pc[u] \in {"waits", "waited"} \X {k.pwait[u]}
    BY DEF Steady, KInv, Within
  <2> QED
    BY <2>1
<1>5. \A u \in Task : \/ P[u] = pc[u] /\ View(J, k, u)
                      \/ J.pwait[u] = Null /\ (P[u][2] = Null \/ J.reason[u] # "sleep")
  <2> SUFFICES ASSUME NEW u \in Task
               PROVE  \/ P[u] = pc[u] /\ View(J, k, u)
                      \/ J.pwait[u] = Null /\ (P[u][2] = Null \/ J.reason[u] # "sleep")
    OBVIOUS
  <2>1. CASE u = t
    BY <2>1, <1>4
  <2>2. CASE u # t
    BY <2>2, <1>4, <1>p, <1>w DEF View
  <2> QED
    BY <2>1, <2>2
<1>6. KInv'
  <2>1. Within(J, pc')
    <3> HIDE DEF P
    <3>1. Within(J, P)
      BY <1>5, WithinKept DEF Steady
    <3> QED
      BY <3>1 DEF P
  <2>2. ticks' \in [Prio -> Nat] /\ KInv
    BY DEF Steady, KInv
  <2> QED
    BY <2>1, <2>2, InvKept
<1>7. Closing'
  BY ClosingMoves DEF Steady
<1> QED
  BY <1>2, <1>3, <1>4, <1>6, <1>7, <1>p DEF Handed, Steady

\* ... as a service of a task,
LEMMA HandStep ==
  ASSUME Steady, NEW q \in WaitQ, ~NoWaiters(q), NEW V, Out(V, k, q, 1), NEW s, Calls(s),
         k' = WaitComplete(V, First(q)), SwitchIf(Wakes(k, First(q))),
         UNCHANGED <<ticks, services>>
  PROVE  Handed(q, V)
<1> DEFINE t == Queues(k)[q][1]
           J == WaitComplete(V, t)
<1>0. /\ k.curr # Idle /\ RunsRight(k) /\ k.curr \in Task
      /\ Sound(k) /\ ~k.request /\ ("tslice_ticks" \notin services => AtHead(k))
      /\ pc \in [Task -> Spots] /\ pc[k.curr] = <<"user", Null>>
  BY CallFacts DEF Steady
<1>1. FirstOutIs(q, Null)
  BY <1>0, FirstOut
<1>2. 1 \in 1 .. Len(Queues(k)[q]) /\ First(q) = t /\ t \in Task
  BY <1>1 DEF FirstOutIs
<1>3. Freed(J, k, q, 1, V)
  BY <1>0, <1>2, WaitFreed
<1>4. Wakes(k, t) <=> ~Suspended(k, t)
  BY <1>0, <1>2, WakesIs
<1>5. k' = J
  BY <1>2
<1>6. pc' = Goes(k.curr, IF ~Suspended(k, t) THEN "switch" ELSE "user", Null)
  BY <1>2, <1>4 DEF SwitchIf
<1>7. /\ pc' \in [Task -> Spots] /\ pc'[k.curr][2] = Null
      /\ pc'[k.curr][1] = IF ~Suspended(k, t) THEN "switch" ELSE "user"
      /\ \A u \in Task : u # k.curr => pc'[u] = pc[u]
  BY <1>0, <1>6 DEF Goes, Spots
<1> HIDE DEF J, t
<1>8. /\ Sound(J) /\ J.curr = k.curr /\ J.request = k.request /\ J.prio = k.prio
      /\ (AtHead(k) => AtHead(J)) /\ (Suspended(k, t) => J.next = k.next)
      /\ \A u \in Task : k.state[u] = "runnable" => J.state[u] = "runnable"
  BY <1>3 DEF Freed, t
<1>9. Runs(pc'[J.curr][1]) => RunsRight(J)
  <2>1. CASE Suspended(k, t)
    BY <1>0, <1>8, <2>1, StillRuns
  <2>2. CASE ~Suspended(k, t)
    BY <1>7, <1>8, <2>2 DEF Runs
  <2> QED
    BY <2>1, <2>2
<1>10. \A u \in Task : View(J, J, u)
  BY DEF View
<1>11. \A u \in Task : pc'[u] = pc[u] \/ (pc[u][2] = Null /\ pc'[u][2] = Null
                                           /\ pc'[u][1] \notin DeletePlaces)
  BY <1>0, <1>7 DEF DeletePlaces
<1>12. pc[k.curr][1] \notin {"delEmpty", "delMasked"}
  BY <1>0
<1> QED
  BY <1>0, <1>2, <1>3, <1>5, <1>7, <1>8, <1>9, <1>10, <1>11, <1>12, HandedIs

\* ... and as one of an interrupt.
LEMMA HandIrq ==
  ASSUME Steady, NEW q \in WaitQ, ~NoWaiters(q), NEW V, Out(V, k, q, 1),
         services \cap Preempting # {},
         IrqExit(Request(WaitComplete(V, First(q)), Wakes(k, First(q)))),
         UNCHANGED <<ticks, services>>
  PROVE  Handed(q, V)
<1> DEFINE t == Queues(k)[q][1]
           K == WaitComplete(V, t)
           c == Wakes(k, t)
           X == Request(K, c)
           J == k'
<1>0. /\ Sound(k) /\ ~k.request /\ KInv
  BY DEF Steady, KInv
<1>1. FirstOutIs(q, Null)
  BY <1>0, FirstOut
<1>2. 1 \in 1 .. Len(Queues(k)[q]) /\ First(q) = t /\ t \in Task
  BY <1>1 DEF FirstOutIs
<1>3. Freed(K, k, q, 1, V)
  BY <1>0, <1>2, WaitFreed
<1>4. c = ~Suspended(k, t)
  BY <1>0, <1>2, WakesIs DEF Wakes, Suspended
<1>5. IrqExit(X)
  BY <1>2
<1> HIDE DEF K, t
<1>8. /\ Sound(K) /\ K.curr = k.curr /\ K.request = k.request /\ K.prio = k.prio
      /\ (AtHead(k) => AtHead(K)) /\ (Suspended(k, t) => K.next = k.next)
      /\ \A u \in Task : k.state[u] = "runnable" => K.state[u] = "runnable"
  BY <1>3 DEF Freed, t
<1>9. c \in BOOLEAN
  BY <1>4 DEF Suspended
<1>10. c \/ (RunsRight(k) => RunsRight(K))
  <2>1. CASE Suspended(k, t)
    BY <1>0, <1>8, <2>1, StillRuns
  <2>2. CASE ~Suspended(k, t)
    BY <1>4, <2>2
  <2> QED
    BY <2>1, <2>2
<1> HIDE DEF c
<1>11. RequestIs(X, K, c)
  BY <1>0, <1>8, <1>9, <1>10, Requested
<1> HIDE DEF X
<1>12. Arrives(X) /\ Queues(X) = Queues(K) /\ \A u \in Task : View(X, K, u)
  BY <1>11 DEF RequestIs
<1>13. IrqLeaves(k', X)
  BY <1>0, <1>5, <1>12, IrqExitIs
<1>j. k' = J
  OBVIOUS
<1>14. /\ Sound(J) /\ ~J.request /\ Queues(J) = Queues(X)
       /\ \A u \in Task : View(J, X, u)
       /\ "tslice_ticks" \notin services => AtHead(J)
       /\ Runs(pc'[J.curr][1]) => RunsRight(J)
       /\ pc' \in [Task -> Spots]
       /\ \A u \in Task : pc'[u] = pc[u] \/ (pc[u][1] = "exit" /\ pc'[u] = <<"stuck", Null>>)
  BY <1>13 DEF IrqLeaves
<1> HIDE DEF J
<1>15. \A u \in Task : View(J, K, u)
  BY <1>12, <1>14 DEF View
<1>16. \A u \in Task : pc'[u] = pc[u] \/ (pc[u][2] = Null /\ pc'[u][2] = Null
                                           /\ pc'[u][1] \notin DeletePlaces)
  BY <1>0, <1>14, PlainFacts DEF DeletePlaces
<1> QED
  BY <1>2, <1>3, <1>12, <1>14, <1>15, <1>16, <1>j, HandedIs

\* The running task is inside a service it goes through without a wait.
LEMMA RunningFacts ==
  ASSUME Steady, Runs(pc[k.curr][1])
  PROVE  /\ k.curr \in Task /\ k.state[k.curr] = "runnable" /\ RunsRight(k)
         /\ k.pwait[k.curr] = Null /\ k.reason[k.curr] = "none"
         /\ Sound(k) /\ ~k.request /\ pc \in [Task -> Spots] /\ ticks \in [Prio -> Nat]
         /\ "tslice_ticks" \notin services => AtHead(k)
<1>1. /\ Sound(k) /\ RunsRight(k) /\ ~k.request /\ pc \in [Task -> Spots]
      /\ ticks \in [Prio -> Nat] /\ ("tslice_ticks" \notin services => AtHead(k))
  BY DEF Steady, KInv, Place
<1>2. k.curr \in Task /\ k.state[k.curr] = "runnable" /\ OneTask(k, Queues(k), k.curr)
  BY <1>1, SoundFacts DEF RunsRight
<1>3. ~Waiting(k, k.curr)
  BY <1>2 DEF Waiting
<1> QED
  BY <1>1, <1>2, <1>3, FreeFacts

\* It goes from one of these places to another.
LEMMA PlaceStep ==
  ASSUME Steady, Runs(pc[k.curr][1]), NEW place, NEW q, <<place, q>> \in Spots, Runs(place),
         k' = k, pc' = Goes(k.curr, place, q), UNCHANGED <<ticks, services>>,
         place \in DeletePlaces => Deleter(q) \in services,
         place = "delEmpty" => Queues(k)[q] = <<>>
  PROVE  Steady'
<1> DEFINE P == Goes(k.curr, place, q)
<1>1. /\ k.curr \in Task /\ RunsRight(k)
      /\ k.pwait[k.curr] = Null /\ k.reason[k.curr] = "none"
      /\ Sound(k) /\ ~k.request /\ pc \in [Task -> Spots] /\ ticks \in [Prio -> Nat]
      /\ "tslice_ticks" \notin services => AtHead(k)
  BY RunningFacts
<1>2. /\ P \in [Task -> Spots] /\ P[k.curr] = <<place, q>>
      /\ \A u \in Task : u # k.curr => P[u] = pc[u]
  BY <1>1 DEF Goes
<1>3. pc' = P
  OBVIOUS
<1> HIDE DEF P
<1>4. Within(k, P)
  BY <1>1, <1>2, WithinKept DEF Steady, View
<1>5. KInv'
  BY <1>1, <1>2, <1>3, <1>4, InvKept DEF Steady
<1>6. Closing'
  <2>1. \A t \in Task :
           /\ P[t][1] \in DeletePlaces => Deleter(P[t][2]) \in services
           /\ P[t][1] \in {"delEmpty", "delMasked"} => t = k.curr
           /\ P[t][1] = "delEmpty" => Queues(k)[P[t][2]] = <<>>
    BY <1>2 DEF Steady, Closing
  <2>2. Careful(services)
    BY DEF Steady, Closing
  <2> QED
    BY <2>1, <2>2, <1>3 DEF Closing
<1> QED
  BY <1>5, <1>6 DEF Steady

\* tn_switch_context inside the service of an object.
Swapped ==
  /\ Steady' /\ Queues(k') = Queues(k) /\ \A u \in Task : View(k', k, u)
LEMMA SwapStep ==
  ASSUME Steady, NEW q \in WaitQ, NEW place \in {"waited", "delTest"},
         pc[k.curr] = <<IF place = "waited" THEN "waits" ELSE "delSwitch", q>>,
         k' = [k EXCEPT !.curr = k.next], pc' = Goes(k.curr, place, q),
         UNCHANGED <<ticks, services>>
  PROVE  Swapped
<1> DEFINE K == [k EXCEPT !.curr = k.next]
           P == Goes(k.curr, place, q)
<1>1. /\ Sound(k) /\ ~k.request /\ pc \in [Task -> Spots] /\ ticks \in [Prio -> Nat]
      /\ "tslice_ticks" \notin services => AtHead(k)
      /\ k.curr \in Task /\ k \in Kernel /\ KInv /\ Closing
  BY SoundFacts DEF Steady, KInv
<1>2. /\ Sound(K) /\ RunsRight(K) /\ K.request = k.request /\ (AtHead(k) => AtHead(K))
      /\ Queues(K) = Queues(k)
  BY <1>1, Switched
<1>3. \A u \in Task : View(K, k, u)
  BY <1>1 DEF Kernel, View, Waiting
<1>4. /\ P \in [Task -> Spots] /\ P[k.curr] = <<place, q>>
      /\ \A u \in Task : u # k.curr => P[u] = pc[u]
  <2>1. <<place, q>> \in Spots
    BY DEF Spots
  <2> QED
    BY <1>1, <2>1 DEF Goes
<1>5. k' = K /\ pc' = P
  OBVIOUS
<1> HIDE DEF K, P
<1>6. Within(K, P)
  <2> SUFFICES ASSUME NEW u \in Task
               PROVE  /\ P[u][2] # Null => K.reason[u] # "sleep"
                      /\ K.pwait[u] # Null => P[u] \in {"waits", "waited"} \X {K.pwait[u]}
    BY DEF Within
  <2>1. /\ pc[u][2] # Null => k.reason[u] # "sleep"
        /\ k.pwait[u] # Null => pc[u] \in {"waits", "waited"} \X {k.pwait[u]}
    BY <1>1 DEF KInv, Within
  <2>2. K.reason[u] = k.reason[u] /\ K.pwait[u] = k.pwait[u]
    BY <1>3 DEF View
  <2>3. CASE u # k.curr
    BY <2>1, <2>2, <2>3, <1>4
  <2>4. CASE u = k.curr
    <3>1. q # Null
      BY CoreAssumption
    <3> QED
      BY <2>1, <2>2, <2>4, <1>4, <3>1
  <2> QED
    BY <2>3, <2>4
<1>7. KInv'
  BY <1>1, <1>2, <1>4, <1>5, <1>6, InvKept
<1>8. Closing'
  <2>1. pc[k.curr][1] \notin {"delEmpty", "delMasked"}
    OBVIOUS
  <2>2. ~\E t \in Task : pc[t][1] \in {"delEmpty", "delMasked"}
    BY <2>1, <1>1 DEF Closing
  <2>3. \A t \in Task :
           /\ P[t][1] \in DeletePlaces => Deleter(P[t][2]) \in services
           /\ P[t][1] \notin {"delEmpty", "delMasked"}
    BY <1>1, <1>4, <2>2 DEF Closing, DeletePlaces
  <2> QED
    BY <1>1, <1>5, <2>3 DEF Closing
<1> QED
  BY <1>2, <1>3, <1>5, <1>7, <1>8 DEF Swapped, Steady

\* Data a service writes into the TCB of the running task before it waits.
Written(V) ==
  /\ V = [k EXCEPT !.elem = V.elem, !.ewait = V.ewait]
  /\ V.elem \in [Task -> Elem \cup {Null}]
  /\ V.ewait \in [Task -> [pattern: SUBSET Flag, or: BOOLEAN]]
  /\ \A u \in Task : u # k.curr => V.elem[u] = k.elem[u] /\ V.ewait[u] = k.ewait[u]
LEMMA WrittenIs ==
  ASSUME Sound(k), NEW V, Written(V)
  PROVE  /\ Sound(V) /\ Queues(V) = Queues(k) /\ V.curr = k.curr /\ V.request = k.request
         /\ V.state = k.state /\ V.rc = k.rc /\ (AtHead(k) => AtHead(V))
         /\ \A u \in Task : u # k.curr => View(V, k, u)
<1> DEFINE a == V.elem
           b == V.ewait
           wq == Queues(k)
<1>1. /\ V = [k EXCEPT !.elem = a, !.ewait = b]
      /\ a \in [Task -> Elem \cup {Null}]
      /\ b \in [Task -> [pattern: SUBSET Flag, or: BOOLEAN]]
      /\ \A u \in Task : u # k.curr => V.elem[u] = k.elem[u] /\ V.ewait[u] = k.ewait[u]
  BY DEF Written
<1>2. /\ k \in Kernel /\ Sched(k, Runnables(k), wq) /\ k.state[Idle] = "runnable"
      /\ \A u \in Task : OneTask(k, wq, u)
  BY SoundFacts
<1>q. wq = Queues(k)
  OBVIOUS
<1> HIDE DEF a, b, wq
<1>3. /\ V \in Kernel
      /\ V.link = k.link /\ V.prio = k.prio /\ V.tick = k.tick /\ V.bmp = k.bmp /\ V.next = k.next
      /\ V.state = k.state /\ V.reason = k.reason /\ V.pwait = k.pwait /\ V.rc = k.rc
      /\ V.activate = k.activate /\ V.exists = k.exists /\ V.curr = k.curr /\ V.request = k.request
  BY <1>1, <1>2 DEF Kernel
<1>4. Sched(V, Runnables(V), wq) /\ (AtHead(k) => AtHead(V))
  BY <1>2, <1>3 DEF Sched, Timers, Chosen, AtHead, Runnables
<1>5. \A u \in Task : OneTask(V, wq, u)
  BY <1>2, <1>3, OneTaskSame
<1>6. Sound(V) /\ Queues(V) = wq
  BY <1>2, <1>3, <1>4, <1>5, SoundFrom
<1>7. \A u \in Task : u # k.curr => View(V, k, u)
  BY <1>1, <1>3 DEF View, Waiting
<1> QED
  BY <1>3, <1>4, <1>6, <1>7, <1>q

\* The running task waits in the queue of an object.
Fallen(q, V) ==
  LET t == k.curr
  IN  /\ Steady' /\ t \in Task /\ pc[t] = <<"user", Null>> /\ k.pwait[t] = Null
      /\ Queues(k') = [Queues(k) EXCEPT ![q] = Append(@, t)]
      /\ k'.pwait[t] = q /\ Waiting(k', t) /\ k'.reason[t] = Why(q)
      /\ k'.elem[t] = V.elem[t] /\ k'.ewait[t] = V.ewait[t]
      /\ \A u \in Task : u # t => View(k', k, u)
      /\ pc'[t] = <<"waits", q>> /\ \A u \in Task : u # t => pc'[u] = pc[u]
LEMMA WaitStep ==
  ASSUME Steady, NEW q \in WaitQ, NEW V, Written(V), NEW s \in WaitingServices, Calls(s),
         k' = CurrToWait(V, q, Why(q), Forever), pc' = Goes(k.curr, "waits", q),
         UNCHANGED <<ticks, services>>
  PROVE  Fallen(q, V)
<1> DEFINE t == k.curr
           K == CurrToWait(V, q, Why(q), Forever)
           P == Goes(k.curr, "waits", q)
<1>1. /\ s \in services /\ t # Idle /\ RunsRight(k) /\ t \in Task
      /\ k.state[t] = "runnable" /\ Sound(k) /\ ~k.request
      /\ "tslice_ticks" \notin services => AtHead(k)
      /\ pc \in [Task -> Spots] /\ pc[t] = <<"user", Null>> /\ k.pwait[t] = Null
  BY CallFacts DEF Steady
<1>2. services \cap {"release_wait", "irelease_wait"} = {}
  BY <1>1 DEF Steady, Closing, Careful
<1>3. /\ Sound(V) /\ Queues(V) = Queues(k) /\ V.curr = t /\ V.request = k.request
      /\ V.state = k.state /\ V.rc = k.rc /\ (AtHead(k) => AtHead(V))
      /\ \A u \in Task : u # t => View(V, k, u)
  BY <1>1, WrittenIs
<1>n. q # Null
  BY CoreAssumption
<1>4. FallsAsleepIs(K, V, q, Why(q))
  <2>1. Why(q) \in Reason
    BY DEF Why, Reason
  <2> QED
    BY <1>1, <1>2, <1>3, <1>n, <2>1, FallsAsleep
<1>5. /\ P \in [Task -> Spots] /\ P[t] = <<"waits", q>>
      /\ \A u \in Task : u # t => P[u] = pc[u]
  <2>1. <<"waits", q>> \in Spots
    BY DEF Spots
  <2> QED
    BY <1>1, <2>1 DEF Goes
<1>6. k' = K /\ pc' = P
  OBVIOUS
<1> HIDE DEF K, P
<1>7. /\ Sound(K) /\ K.curr = t /\ K.request = k.request
      /\ AtHead(V) => AtHead(K)
      /\ Queues(K) = [Queues(k) EXCEPT ![q] = Append(@, t)]
      /\ K.pwait[t] = q /\ Waiting(K, t) /\ K.reason[t] = Why(q)
      /\ K.elem = V.elem /\ K.ewait = V.ewait
      /\ \A u \in Task : u # t => View(K, V, u)
  BY <1>3, <1>4, <1>n DEF FallsAsleepIs, WaitsIn
<1>8. \A u \in Task : u # t => View(K, k, u)
  BY <1>3, <1>7 DEF View
<1>9. Within(K, P)
  <2> SUFFICES ASSUME NEW u \in Task
               PROVE  /\ P[u][2] # Null => K.reason[u] # "sleep"
                      /\ K.pwait[u] # Null => P[u] \in {"waits", "waited"} \X {K.pwait[u]}
    BY DEF Within
  <2>1. /\ pc[u][2] # Null => k.reason[u] # "sleep"
        /\ k.pwait[u] # Null => pc[u] \in {"waits", "waited"} \X {k.pwait[u]}
    BY DEF Steady, KInv, Within
  <2>2. CASE u # t
    BY <2>1, <2>2, <1>5, <1>8 DEF View
  <2>3. CASE u = t
    BY <2>3, <1>5, <1>7 DEF Why
  <2> QED
    BY <2>2, <2>3
<1>10. KInv'
  <2>1. ~Runs(P[t][1]) /\ ~K.request /\ (AtHead(k) => AtHead(K))
    BY <1>1, <1>3, <1>5, <1>7 DEF Runs
  <2>2. KInv /\ ticks \in [Prio -> Nat]
    BY DEF Steady, KInv
  <2> QED
    BY <1>1, <1>5, <1>6, <1>7, <1>9, <2>1, <2>2, InvKept
<1>11. Closing'
  <2>1. \A u \in Task : pc'[u] = pc[u] \/ pc'[u][1] \notin DeletePlaces
    BY <1>5, <1>6 DEF DeletePlaces
  <2> QED
    BY <1>1, <2>1, ClosingMoves DEF Steady
<1> QED
  BY <1>1, <1>5, <1>6, <1>7, <1>8, <1>10, <1>11 DEF Fallen, Steady

\* The return code of a task does not concern the scheduler.
RcSetIs(J, K, t, x) ==
  /\ Sound(J) /\ Queues(J) = Queues(K) /\ J.curr = K.curr /\ J.request = K.request
  /\ J.reason = K.reason /\ J.pwait = K.pwait /\ J.elem = K.elem /\ J.ewait = K.ewait
  /\ J.rc[t] = x /\ (Waiting(J, t) <=> Waiting(K, t)) /\ (AtHead(K) => AtHead(J))
  /\ \A u \in Task : u # t => View(J, K, u)
LEMMA RcSet ==
  ASSUME NEW K, Sound(K), NEW t \in Task, NEW x \in Rc
  PROVE  RcSetIs([K EXCEPT !.rc[t] = x], K, t, x)
<1> DEFINE r == [K.rc EXCEPT ![t] = x]
           J == [K EXCEPT !.rc[t] = x]
           wq == Queues(K)
<1>1. /\ K \in Kernel /\ Sched(K, Runnables(K), wq) /\ K.state[Idle] = "runnable"
      /\ \A u \in Task : OneTask(K, wq, u)
  BY SoundFacts
<1>r. K.rc \in [Task -> Rc]
  BY <1>1, KernelFields
<1>2. r \in [Task -> Rc] /\ r[t] = x /\ \A u \in Task : u # t => r[u] = K.rc[u]
  BY <1>r
<1>q. wq = Queues(K)
  OBVIOUS
<1>3. J = [K EXCEPT !.rc = r]
  BY <1>1 DEF Kernel
<1> HIDE DEF r, J, wq
<1>4. /\ J \in Kernel /\ J.rc = r
      /\ J.link = K.link /\ J.prio = K.prio /\ J.tick = K.tick /\ J.bmp = K.bmp /\ J.next = K.next
      /\ J.state = K.state /\ J.reason = K.reason /\ J.pwait = K.pwait
      /\ J.activate = K.activate /\ J.exists = K.exists /\ J.curr = K.curr /\ J.request = K.request
      /\ J.elem = K.elem /\ J.ewait = K.ewait
  BY <1>1, <1>2, <1>3 DEF Kernel
<1>5. Sched(J, Runnables(J), wq) /\ (AtHead(K) => AtHead(J))
  BY <1>1, <1>4 DEF Sched, Timers, Chosen, AtHead, Runnables
<1>6. \A u \in Task : OneTask(J, wq, u)
  BY <1>1, <1>4, OneTaskSame
<1>7. Sound(J) /\ Queues(J) = wq
  BY <1>1, <1>4, <1>5, <1>6, SoundFrom
<1>8. \A u \in Task : u # t => View(J, K, u)
  BY <1>2, <1>4 DEF View, Waiting
<1>9. Waiting(J, t) <=> Waiting(K, t)
  BY <1>4 DEF Waiting
<1>10. RcSetIs(J, K, t, x)
  BY <1>2, <1>4, <1>5, <1>7, <1>8, <1>9, <1>q DEF RcSetIs
<1> QED
  BY <1>10 DEF J

\* The first task in a queue is taken out of it by the delete of its object.
Dropped(q) ==
  LET t == Queues(k)[q][1]
  IN  /\ 1 \in 1 .. Len(Queues(k)[q]) /\ t \in Task /\ k.pwait[t] = q
      /\ Queues(k') = [Queues(k) EXCEPT ![q] = Without(@, 1)]
      /\ ~Waiting(k', t) /\ k'.reason[t] = "none" /\ k'.pwait[t] = Null
      /\ k'.rc[t] = IF Suspended(k, t) THEN "ok" ELSE "dlt"
      /\ k'.elem[t] = k.elem[t] /\ k'.ewait[t] = k.ewait[t]
      /\ Suspended(k, t) => "suspend" \in services
      /\ \A u \in Task : u # t => View(k', k, u)
\* A turn of the delete loop.
Turned(q) ==
  /\ Steady' /\ k.curr \in Task /\ pc[k.curr][2] = q
  /\ pc'[k.curr] \in DeletePlaces \X {q} /\ \A u \in Task : u # k.curr => pc'[u] = pc[u]
  /\ k' = k \/ Dropped(q)
LEMMA TakeStep ==
  ASSUME Steady, NEW q \in WaitQ, DeleteTakes(q, WithoutFirst(q)), UNCHANGED <<ticks, services>>
  PROVE  Turned(q)
<1> DEFINE c == k.curr
           V == WithoutFirst(q)
           t == Queues(k)[q][1]
           K == WaitComplete(V, t)
<1>0. /\ pc[c] \in {<<"delFound", q>>, <<"delMasked", q>>}
      /\ IF k.link[Wait(q)].next = Wait(q)
         THEN pc' = Goes(c, "delMasked", q) /\ UNCHANGED k
         ELSE IF Wakes(V, First(q))
           THEN /\ k' = [WaitComplete(V, First(q)) EXCEPT !.rc[First(q)] = "dlt"]
                /\ pc' = Goes(c, "delSwitch", q)
           ELSE /\ k' = WaitComplete(V, First(q))
                /\ pc' = Goes(c, "delMasked", q)
  BY DEF DeleteTakes
<1>1. /\ c \in Task /\ k.state[c] = "runnable" /\ RunsRight(k)
      /\ k.pwait[c] = Null /\ k.reason[c] = "none"
      /\ Sound(k) /\ ~k.request /\ pc \in [Task -> Spots] /\ ticks \in [Prio -> Nat]
      /\ "tslice_ticks" \notin services => AtHead(k)
  BY <1>0, RunningFacts DEF Runs
<1>2. Deleter(q) \in services /\ pc[c][2] = q
  BY <1>0, <1>1 DEF Steady, Closing, DeletePlaces
<1>3. AtFirst(k, q)
  BY <1>1, FirstIs
<1>s. \A place \in DeletePlaces : <<place, q>> \in Spots
  BY DEF Spots, DeletePlaces
<1>4. CASE k.link[Wait(q)].next = Wait(q)
  <2>1. pc' = Goes(c, "delMasked", q) /\ k' = k
    BY <1>0, <1>4
  <2>2. Steady'
    BY <2>1, <1>0, <1>2, <1>s, PlaceStep DEF Runs, DeletePlaces
  <2>3. pc'[c] = <<"delMasked", q>> /\ \A u \in Task : u # c => pc'[u] = pc[u]
    BY <2>1, <1>1 DEF Goes
  <2>4. pc'[c] \in DeletePlaces \X {q}
    BY <2>3 DEF DeletePlaces
  <2> QED
    BY <2>1, <2>2, <2>3, <2>4, <1>1, <1>2 DEF Turned
<1>5. CASE k.link[Wait(q)].next # Wait(q)
  <2>1. ~NoWaiters(q)
    BY <1>5 DEF NoWaiters, IsEmpty
  <2>2. FirstOutIs(q, Null)
    BY <1>1, <2>1, FirstOut
  <2>3. /\ 1 \in 1 .. Len(Queues(k)[q]) /\ First(q) = t /\ t \in Task
        /\ Out(V, k, q, 1) /\ V.elem = k.elem /\ V.ewait = k.ewait
    BY <2>2 DEF FirstOutIs
  <2>4. QueueFacts(k, q, 1)
    BY <1>1, <2>3, InQueue
  <2>5. k.pwait[t] = q /\ (Suspended(k, t) => "suspend" \in services)
    BY <2>4 DEF QueueFacts, Called
  <2>6. Freed(K, k, q, 1, V) /\ (Wakes(V, t) <=> ~Suspended(k, t))
    BY <1>1, <2>3, WaitFreed
  <2>7. \E L : /\ k' = L /\ Sound(L) /\ L.curr = c /\ ~L.request
               /\ Queues(L) = [Queues(k) EXCEPT ![q] = Without(@, 1)]
               /\ AtHead(k) => AtHead(L)
               /\ ~Waiting(L, t) /\ L.reason[t] = "none" /\ L.pwait[t] = Null
               /\ L.rc[t] = IF Suspended(k, t) THEN "ok" ELSE "dlt"
               /\ L.elem[t] = k.elem[t] /\ L.ewait[t] = k.ewait[t]
               /\ \A u \in Task : u # t => View(L, k, u)
               /\ pc' = Goes(c, IF Suspended(k, t) THEN "delMasked" ELSE "delSwitch", q)
               /\ Suspended(k, t) => RunsRight(L)
    <3>1. CASE Suspended(k, t)
      <4>1. k' = K /\ pc' = Goes(c, "delMasked", q)
        BY <1>0, <1>5, <2>3, <2>6, <3>1
      <4> HIDE DEF K, t
      <4>2. /\ Sound(K) /\ Queues(K) = [Queues(k) EXCEPT ![q] = Without(@, 1)]
            /\ K.prio = k.prio /\ K.curr = k.curr /\ K.request = k.request
            /\ \A u \in Task : k.state[u] = "runnable" => K.state[u] = "runnable"
            /\ AtHead(k) => AtHead(K)
            /\ K.next = k.next
            /\ ~Waiting(K, t) /\ K.reason[t] = "none" /\ K.pwait[t] = Null /\ K.rc[t] = "ok"
            /\ K.elem[t] = k.elem[t] /\ K.ewait[t] = k.ewait[t]
            /\ \A u \in Task : u # t => View(K, k, u)
        BY <2>3, <2>6, <3>1 DEF Freed, t
      <4>3. RunsRight(K)
        BY <1>1, <4>2, StillRuns
      <4> QED
        BY <4>1, <4>2, <4>3, <3>1, <1>1
    <3>2. CASE ~Suspended(k, t)
      <4> DEFINE L == [K EXCEPT !.rc[t] = "dlt"]
      <4>1. k' = L /\ pc' = Goes(c, "delSwitch", q)
        BY <1>0, <1>5, <2>3, <2>6, <3>2
      <4> HIDE DEF K, t
      <4>2. /\ Sound(K) /\ Queues(K) = [Queues(k) EXCEPT ![q] = Without(@, 1)]
            /\ K.curr = k.curr /\ K.request = k.request
            /\ AtHead(k) => AtHead(K)
            /\ ~Waiting(K, t) /\ K.reason[t] = "none" /\ K.pwait[t] = Null
            /\ K.elem[t] = k.elem[t] /\ K.ewait[t] = k.ewait[t]
            /\ \A u \in Task : u # t => View(K, k, u)
        BY <2>3, <2>6 DEF Freed, t
      <4>3. RcSetIs(L, K, t, "dlt")
        BY <2>3, <4>2, RcSet DEF Rc
      <4> HIDE DEF L
      <4>4. /\ Sound(L) /\ Queues(L) = Queues(K) /\ L.curr = K.curr /\ L.request = K.request
            /\ L.reason = K.reason /\ L.pwait = K.pwait /\ L.elem = K.elem /\ L.ewait = K.ewait
            /\ L.rc[t] = "dlt" /\ (Waiting(L, t) <=> Waiting(K, t)) /\ (AtHead(K) => AtHead(L))
            /\ \A u \in Task : u # t => View(L, K, u)
        BY <4>3 DEF RcSetIs
      <4>5. \A u \in Task : u # t => View(L, k, u)
        BY <4>2, <4>4 DEF View
      <4> QED
        BY <4>1, <4>2, <4>4, <4>5, <3>2, <1>1
    <3> QED
      BY <3>1, <3>2
  <2>8. PICK L : /\ k' = L /\ Sound(L) /\ L.curr = c /\ ~L.request
                 /\ Queues(L) = [Queues(k) EXCEPT ![q] = Without(@, 1)]
                 /\ AtHead(k) => AtHead(L)
                 /\ ~Waiting(L, t) /\ L.reason[t] = "none" /\ L.pwait[t] = Null
                 /\ L.rc[t] = IF Suspended(k, t) THEN "ok" ELSE "dlt"
                 /\ L.elem[t] = k.elem[t] /\ L.ewait[t] = k.ewait[t]
                 /\ \A u \in Task : u # t => View(L, k, u)
                 /\ pc' = Goes(c, IF Suspended(k, t) THEN "delMasked" ELSE "delSwitch", q)
                 /\ Suspended(k, t) => RunsRight(L)
    BY <2>7
  <2> HIDE DEF K, V
  <2> DEFINE place == IF Suspended(k, t) THEN "delMasked" ELSE "delSwitch"
             P == Goes(c, place, q)
  <2>9. Dropped(q)
    BY <2>3, <2>5, <2>8 DEF Dropped
  <2>10. /\ P \in [Task -> Spots] /\ P[c] = <<place, q>>
         /\ \A u \in Task : u # c => P[u] = pc[u]
    BY <1>1, <1>s DEF Goes, DeletePlaces
  <2>p. pc' = P /\ place \in {"delMasked", "delSwitch"}
        /\ (place = "delMasked" => Suspended(k, t))
    BY <2>8
  <2>l. /\ Sound(L) /\ L.curr = c /\ ~L.request
        /\ AtHead(k) => AtHead(L)
        /\ ~Waiting(L, t) /\ L.reason[t] = "none" /\ L.pwait[t] = Null
        /\ \A u \in Task : u # t => View(L, k, u)
        /\ Suspended(k, t) => RunsRight(L)
        /\ k' = L
    BY <2>8
  <2>t. t # c
    BY <1>1, <2>5, CoreAssumption
  <2> HIDE DEF P, place, t
  <2>11. Within(L, P)
    <3>1. \A u \in Task : \/ P[u] = pc[u] /\ View(L, k, u)
                          \/ L.pwait[u] = Null /\ (P[u][2] = Null \/ L.reason[u] # "sleep")
      <4> SUFFICES ASSUME NEW u \in Task
                   PROVE  \/ P[u] = pc[u] /\ View(L, k, u)
                          \/ L.pwait[u] = Null /\ (P[u][2] = Null \/ L.reason[u] # "sleep")
        OBVIOUS
      <4>1. CASE u = t
        BY <4>1, <2>l
      <4>2. CASE u = c
        BY <4>2, <2>l, <2>t, <1>1 DEF View
      <4>3. CASE u # c /\ u # t
        BY <4>3, <2>10, <2>l
      <4> QED
        BY <4>1, <4>2, <4>3
    <3> QED
      BY <3>1, WithinKept DEF Steady
  <2>12. KInv'
    <3>1. Runs(P[L.curr][1]) => RunsRight(L)
      BY <2>l, <2>10, <2>p DEF Runs
    <3> QED
      BY <3>1, <2>l, <2>10, <2>11, <2>p, <1>1, InvKept DEF Steady
  <2>13. Closing'
    <3>1. \A u \in Task :
             /\ P[u][1] \in DeletePlaces => Deleter(P[u][2]) \in services
             /\ P[u][1] \in {"delEmpty", "delMasked"} => u = L.curr
             /\ P[u][1] # "delEmpty"
      <4> SUFFICES ASSUME NEW u \in Task
                   PROVE  /\ P[u][1] \in DeletePlaces => Deleter(P[u][2]) \in services
                          /\ P[u][1] \in {"delEmpty", "delMasked"} => u = L.curr
                          /\ P[u][1] # "delEmpty"
        OBVIOUS
      <4>1. CASE u = c
        BY <4>1, <1>2, <2>10, <2>l, <2>p
      <4>2. CASE u # c
        BY <4>2, <2>10, <2>l DEF Steady, Closing
      <4> QED
        BY <4>1, <4>2
    <3>2. Careful(services)
      BY DEF Steady, Closing
    <3> QED
      BY <3>1, <3>2, <2>l, <2>p DEF Closing
  <2>14. /\ pc'[c] \in DeletePlaces \X {q}
         /\ \A u \in Task : u # c => pc'[u] = pc[u]
    BY <2>10, <2>p DEF DeletePlaces
  <2>15. Steady'
    BY <2>12, <2>13 DEF Steady
  <2> QED
    BY <2>9, <2>14, <2>15, <1>1, <1>2 DEF Turned
<1> QED
  BY <1>4, <1>5

\* The other steps of the delete loop.
LEMMA TestsStep ==
  ASSUME Steady, NEW q \in WaitQ, DeleteTests(q), UNCHANGED <<ticks, services>>
  PROVE  Turned(q)
<1> DEFINE c == k.curr
           place == IF NoWaiters(q) THEN "delEmpty" ELSE "delFound"
<1>1. pc[c] = <<"delTest", q>> /\ pc' = Goes(c, place, q) /\ k' = k
  BY DEF DeleteTests
<1>2. c \in Task /\ Sound(k) /\ pc \in [Task -> Spots]
  BY <1>1, RunningFacts DEF Runs
<1>3. Deleter(q) \in services
  BY <1>1, <1>2 DEF Steady, Closing, DeletePlaces
<1>4. NoWaiters(q) => Queues(k)[q] = <<>>
  BY <1>2, FirstIs DEF AtFirst, NoWaiters
<1>5. place \in DeletePlaces /\ Runs(place) /\ <<place, q>> \in Spots
  BY DEF DeletePlaces, Spots, Runs
<1>6. Steady'
  BY <1>1, <1>3, <1>4, <1>5, PlaceStep DEF Runs
<1>7. pc'[c] = <<place, q>> /\ \A u \in Task : u # c => pc'[u] = pc[u]
  BY <1>1, <1>2 DEF Goes
<1>8. pc'[c] \in DeletePlaces \X {q} /\ pc[c][2] = q
  BY <1>1, <1>5, <1>7
<1>9. k' = k \/ Dropped(q)
  BY <1>1
<1> HIDE DEF place
<1> QED
  BY <1>2, <1>6, <1>7, <1>8, <1>9 DEF Turned

LEMMA DeleteSwitchStep ==
  ASSUME Steady, NEW q \in WaitQ, DeleteSwitches(q), UNCHANGED <<ticks, services>>
  PROVE  Swapped /\ \A u \in Task : u # k.curr => pc'[u] = pc[u]
<1>1. Swapped
  BY SwapStep DEF DeleteSwitches
<1>2. \A u \in Task : u # k.curr => pc'[u] = pc[u]
  BY DEF DeleteSwitches, Goes, Steady, KInv
<1> QED
  BY <1>1, <1>2

\* At the end of the loop nobody waits in the queue.
LEMMA LoopOver ==
  ASSUME Steady, NEW q \in WaitQ, DeleteLoopOver(q)
  PROVE  /\ Queues(k)[q] = <<>> /\ Runs(pc[k.curr][1]) /\ pc[k.curr][2] = q
         /\ k.curr \in Task /\ pc[k.curr][1] \in {"delEmpty", "delMasked"}
         /\ Deleter(q) \in services
<1>1. k.curr \in Task /\ Sound(k)
  BY SoundFacts DEF Steady, KInv
<1>2. AtFirst(k, q)
  BY <1>1, FirstIs
<1>3. CASE pc[k.curr] = <<"delEmpty", q>>
  BY <1>1, <1>3 DEF Steady, Closing, DeletePlaces, Runs
<1>4. CASE pc[k.curr] = <<"delMasked", q>> /\ NoWaiters(q)
  BY <1>1, <1>2, <1>4 DEF Steady, Closing, DeletePlaces, Runs, AtFirst, NoWaiters
<1> QED
  BY <1>3, <1>4 DEF DeleteLoopOver

-----------------------------------------------------------------------------
(* The steps of the kernel, as the objects see them.                       *)

\* Without a task that sleeps the tick ends no wait.
LEMMA TickRotates ==
  ASSUME NEW K, Sound(K), "sleep" \notin services, NEW J
  PROVE  Ticked(J, Entries(K, TimeoutList)) = J
<1> DEFINE w == Entries(K, TimeoutList)
           L == K.link
<1>1. Timers(K) = {}
  BY SoundFacts DEF Timers, OneTask
<1>2. L \in Memory(Node) /\ IsList(L, TimeoutList, {Tm(u) : u \in Timers(K)})
  BY SoundFacts DEF Sched, Listed
<1>3. L \in Memory(Node) /\ IsList(L, TimeoutList, {})
  BY <1>1, <1>2
<1>4. w = Walk(L, TimeoutList)
  BY DEF Entries
<1> HIDE DEF L, w
<1>5. w \in Seq(Node) /\ {w[i] : i \in DOMAIN w} = {}
  BY <1>3, <1>4, NodeFinite, ListIsIntact
<1>6. Len(w) = 0
  <2>1. Len(w) \in Nat /\ DOMAIN w = 1 .. Len(w)
    BY <1>5
  <2>2. 1 \notin DOMAIN w
    BY <1>5
  <2> QED
    BY <2>1, <2>2
<1> DEFINE Is(f) == f = [n \in 0 .. Len(w) |-> IF n = 0 THEN J ELSE TickEntry(f[n - 1], w[n])]
           after == CHOOSE f : Is(f)
<1>7. Is([n \in 0 .. 0 |-> J])
  BY <1>6
<1>8. Is(after)
  <2> HIDE DEF Is
  <2> QED
    BY <1>7
<1>9. after[0] = J
  BY <1>6, <1>8
<1>10. Ticked(J, w) = after[Len(w)]
  BY DEF Ticked
<1> HIDE DEF after
<1> QED
  BY <1>6, <1>9, <1>10 DEF w

\* Nobody disturbs a delete between its switches.
Undisturbed == k'.curr = k.curr /\ Queues(k') = Queues(k) /\ pc' = pc
LEMMA EndUndisturbed ==
  ASSUME Steady, KernelStep, services \cap Preempting = {},
         pc[k.curr][1] \in DeletePlaces \ {"delSwitch"}
  PROVE  Undisturbed
<1>1. ~Service
  BY DEF Service, TaskService, TsliceTicks, Sleep, Exit, Suspend, Resume, Wakeup, ReleaseWait,
         Activate, Terminate, Delete, Create, ChangePriority, Calls, Place, DeletePlaces
<1>2. ~SwitchContext /\ ~SwitchContextExit
  BY DEF SwitchContext, SwitchContextExit, Place, DeletePlaces
<1>3. Tick /\ UNCHANGED <<ticks, services>>
  BY <1>1, <1>2 DEF KernelStep, Interrupt, IWakeup, IReleaseWait, IActivate, Preempting
<1> DEFINE J == RoundRobin(k)
           w == Entries(k, TimeoutList)
<1>4. IrqExit(Ticked(J, w))
  BY <1>3 DEF Tick
<1>5. /\ Sound(J) /\ J.curr = k.curr /\ J.request = k.request
      /\ Queues(J) = Queues(k)
  BY RotatedIs DEF Steady
<1>6. Sound(k) /\ ~k.request
  BY DEF Steady, KInv
<1> HIDE DEF J
<1>7. Ticked(J, w) = J
  BY <1>6, TickRotates DEF Preempting
<1>8. k' = J /\ pc' = pc
  BY <1>4, <1>5, <1>6, <1>7 DEF IrqExit
<1> QED
  BY <1>5, <1>8 DEF Undisturbed

\* The kernel's steps keep the invariant; a task whose wait such a step ends is
\* no longer in a service.
LEMMA KernelSteady ==
  ASSUME Mutex = {}, Steady, KernelStep
  PROVE  Steady' /\ Apart
<1>1. KInv' /\ Apart
  BY KernelStepIs DEF Steady
<1>2. services' = services
  BY DEF KernelStep
<1>3. Closing'
  <2>1. ASSUME NEW t \in Task, pc'[t][1] \in DeletePlaces PROVE pc'[t] = pc[t]
    <3>1. pc' \in [Task -> Spots] /\ Aside(k', pc')
      BY <1>1 DEF KInv, Apart
    <3>2. pc'[t] \in Spots
      BY <3>1
    <3>3. pc'[t][2] # Null
      BY <2>1, <3>2, CoreAssumption DEF Spots, DeletePlaces
    <3> QED
      BY <3>1, <3>3 DEF Aside
  <2>2. CASE pc[k.curr][1] \notin {"delEmpty", "delMasked"} \/ services \cap Preempting # {}
    <3>1. \A t \in Task : pc'[t] = pc[t] \/ pc'[t][1] \notin DeletePlaces
      BY <2>1
    <3> QED
      BY <1>2, <2>2, <3>1, ClosingMoves DEF Steady
  <2>3. CASE pc[k.curr][1] \in {"delEmpty", "delMasked"} /\ services \cap Preempting = {}
    <3>1. Undisturbed
      BY <2>3, EndUndisturbed DEF DeletePlaces
    <3> QED
      BY <1>2, <3>1 DEF Undisturbed, Steady, Closing
  <2> QED
    BY <2>2, <2>3
<1> QED
  BY <1>1, <1>3 DEF Steady

\* Creating an object resets a queue in which nobody waits.
LEMMA ResetEmpty ==
  ASSUME NEW K, Sound(K), NEW q \in WaitQ, Queues(K)[q] = <<>>
  PROVE  [K EXCEPT !.link = Reset(@, Wait(q))] = K
<1>1. K \in Kernel /\ K.link \in Memory(Node) /\ WaitLists(K.link, Queues(K))
  BY SoundFacts DEF Sched, Listed
<1>2. Reset(K.link, Wait(q)) = K.link
  BY <1>1, WaitReset
<1> QED
  BY <1>1, <1>2 DEF Kernel

-----------------------------------------------------------------------------
(* scan_event_waitqueue, one waiting task after another.                   *)

\* The first n tasks of the queue have been looked at.
Waiters == Queues(k)["event"]
Hit(i, pattern) == Released(k.ewait[Waiters[i]], pattern)
Passed(J, n, pattern) ==
  /\ Sound(J) /\ J.curr = k.curr /\ J.request = k.request
  /\ AtHead(k) => AtHead(J)
  /\ (\A i \in 1 .. n : Hit(i, pattern) => Suspended(k, Waiters[i])) => J.next = k.next
  /\ J.prio = k.prio /\ \A u \in Task : k.state[u] = "runnable" => J.state[u] = "runnable"
  /\ \A q \in WaitQ \ {"event"} : Queues(J)[q] = Queues(k)[q]
  /\ \A u \in Task : (\A i \in 1 .. n : Hit(i, pattern) => u # Waiters[i])
                       => View(J, k, u) /\ J.state[u] = k.state[u]
  /\ \A i \in 1 .. n : Hit(i, pattern) =>
       LET t == Waiters[i]
       IN  /\ ~Waiting(J, t) /\ J.reason[t] = "none" /\ J.pwait[t] = Null /\ J.rc[t] = "ok"
           /\ J.ewait[t] = [k.ewait[t] EXCEPT !.pattern = pattern]

\* The tasks in the queue are all different.
LEMMA WaitersDiffer ==
  ASSUME Sound(k), "event" \in WaitQ
  PROVE  /\ Len(Waiters) \in Nat
         /\ \A i \in 1 .. Len(Waiters) : Waiters[i] \in Task /\ k.pwait[Waiters[i]] = "event"
         /\ \A i, j \in 1 .. Len(Waiters) : Waiters[i] = Waiters[j] => i = j
         /\ Len(Entries(k, Wait("event"))) = Len(Waiters)
         /\ DOMAIN Entries(k, Wait("event")) = 1 .. Len(Waiters)
         /\ \A i \in 1 .. Len(Waiters) : /\ Entries(k, Wait("event"))[i] = Tq(Waiters[i])
                                         /\ TaskOf(Entries(k, Wait("event"))[i]) = Waiters[i]
<1>1. k.link \in Memory(Node) /\ WaitLists(k.link, Queues(k))
  BY SoundFacts DEF Sched, Listed
<1>2. /\ Len(Waiters) \in Nat
      /\ \A i, j \in 1 .. Len(Waiters) : Waiters[i] = Waiters[j] => i = j
  BY <1>1, WaitFacts DEF Waiters
<1>3. \A i \in 1 .. Len(Waiters) : Waiters[i] \in Task /\ k.pwait[Waiters[i]] = "event"
  BY InQueue DEF QueueFacts, Waiters, User
<1>4. WaitWalkIs(k.link, "event", Waiters)
  BY <1>1, WaitWalk DEF Waiters
<1>5. Entries(k, Wait("event")) = Tqs(Waiters)
  BY <1>4 DEF WaitWalkIs, Entries
<1>6. /\ Len(Tqs(Waiters)) = Len(Waiters) /\ DOMAIN Tqs(Waiters) = 1 .. Len(Waiters)
      /\ \A i \in 1 .. Len(Waiters) : Tqs(Waiters)[i] = Tq(Waiters[i])
  BY <1>2 DEF Tqs
<1>7. \A u : TaskOf(Tq(u)) = u
  BY DEF TaskOf, Tq
<1> QED
  BY <1>2, <1>3, <1>5, <1>6, <1>7

LEMMA QueuesElse ==
  ASSUME NEW K, NEW J, NEW q, NEW x, Queues(K) = [Queues(J) EXCEPT ![q] = x]
  PROVE  \A r \in WaitQ \ {q} : Queues(K)[r] = Queues(J)[r]
<1> DEFINE f == Queues(J)
<1>1. DOMAIN f = WaitQ
  BY DEF Queues
<1> HIDE DEF f
<1> QED
  BY <1>1 DEF f

LEMMA ScanEntryIs ==
  ASSUME Sound(k), "event" \in WaitQ, NEW pattern \in SUBSET Flag,
         NEW n \in 1 .. Len(Waiters), NEW J, Passed(J, n - 1, pattern)
  PROVE  Passed(ScanEntry(J, Tq(Waiters[n]), pattern), n, pattern)
<1> DEFINE t == Waiters[n]
           q == "event"
<1>1. /\ Len(Waiters) \in Nat
      /\ \A i \in 1 .. Len(Waiters) : Waiters[i] \in Task /\ k.pwait[Waiters[i]] = "event"
      /\ \A i, j \in 1 .. Len(Waiters) : Waiters[i] = Waiters[j] => i = j
  BY WaitersDiffer
<1>2. t \in Task /\ k.pwait[t] = q /\ TaskOf(Tq(t)) = t
  BY <1>1 DEF TaskOf, Tq
<1>3. /\ \A i \in 1 .. n - 1 : i \in 1 .. Len(Waiters) /\ i # n /\ i \in 1 .. n
      /\ \A i \in 1 .. n : i = n \/ i \in 1 .. n - 1
  BY <1>1
<1>4. /\ Sound(J) /\ J.curr = k.curr /\ J.request = k.request
      /\ AtHead(k) => AtHead(J)
      /\ (\A i \in 1 .. n - 1 : Hit(i, pattern) => Suspended(k, Waiters[i])) => J.next = k.next
      /\ J.prio = k.prio /\ \A u \in Task : k.state[u] = "runnable" => J.state[u] = "runnable"
      /\ \A r \in WaitQ \ {"event"} : Queues(J)[r] = Queues(k)[r]
      /\ \A u \in Task : (\A i \in 1 .. n - 1 : Hit(i, pattern) => u # Waiters[i])
                           => View(J, k, u) /\ J.state[u] = k.state[u]
      /\ \A i \in 1 .. n - 1 : Hit(i, pattern) =>
           /\ ~Waiting(J, Waiters[i]) /\ J.reason[Waiters[i]] = "none"
           /\ J.pwait[Waiters[i]] = Null /\ J.rc[Waiters[i]] = "ok"
           /\ J.ewait[Waiters[i]] = [k.ewait[Waiters[i]] EXCEPT !.pattern = pattern]
  BY DEF Passed
<1>5. View(J, k, t) /\ J.state[t] = k.state[t]
  <2>1. \A i \in 1 .. n - 1 : t # Waiters[i]
    BY <1>1, <1>3
  <2> QED
    BY <2>1, <1>2, <1>4
<1>6. J.pwait[t] = q /\ J.ewait[t] = k.ewait[t] /\ (Suspended(J, t) <=> Suspended(k, t))
  BY <1>2, <1>5 DEF View, Suspended
<1>h. Hit(n, pattern) <=> Released(J.ewait[t], pattern)
  BY <1>6 DEF Hit
<1>7. CASE ~Hit(n, pattern)
  <2>1. ScanEntry(J, Tq(t), pattern) = J
    BY <1>2, <1>7, <1>h DEF ScanEntry
  <2> HIDE DEF t
  <2>2. \A i \in 1 .. n : Hit(i, pattern) => i \in 1 .. n - 1
    BY <1>3, <1>7
  <2>3. Passed(J, n, pattern)
    BY <1>3, <1>4, <2>2 DEF Passed
  <2> QED
    BY <2>1, <2>3 DEF t
<1>8. CASE Hit(n, pattern)
  <2> DEFINE V == [J EXCEPT !.link = RemoveEntry(@, Tq(t)), !.ewait[t].pattern = pattern]
             K == WaitComplete(V, t)
  <2>1. ScanEntry(J, Tq(t), pattern) = K
    BY <1>2, <1>8, <1>h DEF ScanEntry
  <2>2. In(Queues(J), q, t)
    BY <1>2, <1>4, <1>6, SoundFacts DEF OneTask
  <2>3. PICK m \in 1 .. Len(Queues(J)[q]) : Queues(J)[q][m] = t
    BY <2>2 DEF In
  <2>4. Out(V, J, q, m) /\ V.ewait[t] = [J.ewait[t] EXCEPT !.pattern = pattern]
    <3> DEFINE a == J.elem
               b == [J.ewait EXCEPT ![t].pattern = pattern]
               M == RemoveEntry(J.link, Tq(t))
    <3>1. J \in Kernel /\ a \in [Task -> Elem \cup {Null}]
          /\ J.ewait \in [Task -> [pattern: SUBSET Flag, or: BOOLEAN]]
      BY <1>4, SoundFacts, KernelFields
    <3>2. V = [J EXCEPT !.link = M, !.ewait = b]
      BY <3>1 DEF Kernel
    <3>3. /\ b \in [Task -> [pattern: SUBSET Flag, or: BOOLEAN]]
          /\ b[t] = [J.ewait[t] EXCEPT !.pattern = pattern]
          /\ \A u \in Task : u # t => b[u] = J.ewait[u]
      BY <3>1, <1>2
    <3>e. a = J.elem /\ M = RemoveEntry(J.link, Tq(t))
      OBVIOUS
    <3> HIDE DEF a, b, M, t, V
    <3>4. V = [J EXCEPT !.link = M, !.elem = a, !.ewait = b] /\ V.elem = a /\ V.ewait = b
      BY <3>1, <3>2, <3>e DEF Kernel
    <3> QED
      BY <3>1, <3>3, <3>4, <3>e, <2>3 DEF Out
  <2>5. Freed(K, J, q, m, V)
    <3> HIDE DEF V
    <3> QED
      BY <1>4, <2>3, <2>4, WaitFreed
  <2> HIDE DEF K, V
  <2>6. /\ Sound(K) /\ Queues(K) = [Queues(J) EXCEPT ![q] = Without(@, m)]
        /\ K.prio = J.prio /\ K.curr = J.curr /\ K.request = J.request
        /\ \A u \in Task : J.state[u] = "runnable" => K.state[u] = "runnable"
        /\ AtHead(J) => AtHead(K)
        /\ Suspended(J, t) => K.next = J.next
        /\ ~Waiting(K, t) /\ K.reason[t] = "none" /\ K.pwait[t] = Null /\ K.rc[t] = "ok"
        /\ K.ewait[t] = V.ewait[t]
        /\ \A u \in Task : u # t => View(K, J, u) /\ K.state[u] = J.state[u]
    BY <2>3, <2>5 DEF Freed
  <2>7. \A r \in WaitQ \ {"event"} : Queues(K)[r] = Queues(k)[r]
    <3>1. \A r \in WaitQ \ {"event"} : Queues(K)[r] = Queues(J)[r]
      BY <2>6, QueuesElse
    <3> QED
      BY <3>1, <1>4
  <2>8. ASSUME NEW u \in Task, \A i \in 1 .. n : Hit(i, pattern) => u # Waiters[i]
        PROVE  View(K, k, u) /\ K.state[u] = k.state[u]
    <3>1. u # t
      BY <1>8, <2>8
    <3>2. View(J, k, u) /\ J.state[u] = k.state[u]
      BY <1>3, <1>4, <2>8
    <3> QED
      BY <3>1, <3>2, <2>6 DEF View
  <2>9. ASSUME NEW i \in 1 .. n, Hit(i, pattern)
        PROVE  /\ ~Waiting(K, Waiters[i]) /\ K.reason[Waiters[i]] = "none"
               /\ K.pwait[Waiters[i]] = Null /\ K.rc[Waiters[i]] = "ok"
               /\ K.ewait[Waiters[i]] = [k.ewait[Waiters[i]] EXCEPT !.pattern = pattern]
    <3>1. CASE i = n
      BY <3>1, <2>4, <2>6, <1>6
    <3>2. CASE i \in 1 .. n - 1
      <4>1. Waiters[i] \in Task /\ Waiters[i] # t
        BY <3>2, <1>1, <1>3
      <4>2. View(K, J, Waiters[i])
        BY <4>1, <2>6
      <4> QED
        BY <4>2, <3>2, <2>9, <1>4 DEF View
    <3> QED
      BY <3>1, <3>2, <1>3
  <2>10. (\A i \in 1 .. n : Hit(i, pattern) => Suspended(k, Waiters[i])) => K.next = k.next
    BY <1>3, <1>4, <1>6, <1>8, <2>6
  <2>11. Passed(K, n, pattern)
    BY <1>4, <2>6, <2>7, <2>8, <2>9, <2>10 DEF Passed
  <2> QED
    BY <2>1, <2>11
<1> QED
  BY <1>7, <1>8

LEMMA ScanIs ==
  ASSUME Sound(k), "event" \in WaitQ, NEW pattern \in SUBSET Flag
  PROVE  Passed(Scan(k, pattern), Len(Waiters), pattern)
<1> DEFINE w == Entries(k, Wait("event"))
           N == Len(w)
           S == {J \in Kernel : \E n \in 0 .. N : Passed(J, n, pattern)}
           Is(f) == f = [n \in 0 .. N |-> IF n = 0 THEN k ELSE ScanEntry(f[n - 1], w[n], pattern)]
           after == CHOOSE f : Is(f)
           G == [n \in 1 .. N |-> [J \in S |-> IF Passed(J, n - 1, pattern)
                                               THEN ScanEntry(J, w[n], pattern) ELSE k]]
<1>0. N = Len(Waiters) /\ N \in Nat /\ \A i \in 1 .. N : w[i] = Tq(Waiters[i])
  BY WaitersDiffer
<1>p. Scan(k, pattern) = after[N]
  BY DEF Scan, Scanned
<1> HIDE DEF w, N
<1>1. Passed(k, 0, pattern) /\ k \in Kernel
  <2>1. \A u \in Task : View(k, k, u)
    BY DEF View
  <2> QED
    BY <2>1, SoundFacts DEF Passed
<1>2. ASSUME NEW n \in 1 .. N, NEW J, Passed(J, n - 1, pattern)
      PROVE  Passed(ScanEntry(J, w[n], pattern), n, pattern) /\ ScanEntry(J, w[n], pattern) \in Kernel
  <2>1. n \in 1 .. Len(Waiters) /\ w[n] = Tq(Waiters[n])
    BY <1>0
  <2>a. Passed(ScanEntry(J, Tq(Waiters[n]), pattern), n, pattern)
    BY <1>2, <2>1, ScanEntryIs
  <2>2. Passed(ScanEntry(J, w[n], pattern), n, pattern)
    BY <2>1, <2>a
  <2>3. Sound(ScanEntry(J, w[n], pattern))
    BY <2>2 DEF Passed
  <2> QED
    BY <2>2, <2>3, SoundFacts
<1>3. k \in S
  BY <1>0, <1>1
<1>4. ASSUME NEW n \in 1 .. N, NEW J \in S
      PROVE  (IF Passed(J, n - 1, pattern) THEN ScanEntry(J, w[n], pattern) ELSE k) \in S
  <2>1. n \in 0 .. N
    BY <1>0
  <2> QED
    BY <2>1, <1>2, <1>3
<1> HIDE DEF S
<1>5. G \in [1 .. N -> [S -> S]]
  BY <1>4
<1>6. \A n \in 1 .. N : \A J \in S : Passed(J, n - 1, pattern) => G[n][J] = ScanEntry(J, w[n], pattern)
  <2>1. ASSUME NEW n \in 1 .. N
        PROVE  G[n] = [J \in S |-> IF Passed(J, n - 1, pattern)
                                   THEN ScanEntry(J, w[n], pattern) ELSE k]
    OBVIOUS
  <2> HIDE DEF G
  <2> QED
    BY <2>1
<1> HIDE DEF G
<1>7. \E f : IsIteration(f, N, S, k, G)
  BY <1>0, <1>3, <1>5, Iterable
<1>8. PICK f \in [0 .. N -> S] : f[0] = k /\ \A n \in 1 .. N : f[n] = G[n][f[n - 1]]
  BY <1>7 DEF IsIteration
<1>n. \A n \in 1 .. N : n - 1 \in 0 .. N /\ n \in 0 .. N
  BY <1>0
<1>9. \A n \in 0 .. N : Passed(f[n], n, pattern)
  <2> DEFINE X == {n \in 0 .. N : Passed(f[n], n, pattern)}
  <2>1. 0 \in X
    BY <1>0, <1>1, <1>8
  <2>2. ASSUME NEW n \in 1 .. N, n - 1 \in X PROVE n \in X
    <3>1. f[n] = G[n][f[n - 1]] /\ f[n - 1] \in S /\ Passed(f[n - 1], n - 1, pattern)
      BY <2>2, <1>n, <1>8
    <3>2. f[n] = ScanEntry(f[n - 1], w[n], pattern)
      BY <3>1, <1>6
    <3> QED
      BY <3>1, <3>2, <1>2, <1>n
  <2> HIDE DEF X
  <2>3. 0 .. N \subseteq X
    BY <1>0, <2>1, <2>2, CountedUp
  <2> QED
    BY <2>3 DEF X
<1>10. \A n \in 1 .. N : f[n] = ScanEntry(f[n - 1], w[n], pattern)
  <2> SUFFICES ASSUME NEW n \in 1 .. N PROVE f[n] = ScanEntry(f[n - 1], w[n], pattern)
    OBVIOUS
  <2>1. f[n] = G[n][f[n - 1]] /\ f[n - 1] \in S /\ Passed(f[n - 1], n - 1, pattern)
    BY <1>n, <1>8, <1>9
  <2> QED
    BY <2>1, <1>6
<1>11. Is(f)
  <2>1. \A n \in 0 .. N : f[n] = IF n = 0 THEN k ELSE ScanEntry(f[n - 1], w[n], pattern)
    <3>1. ASSUME NEW n \in 0 .. N, n # 0 PROVE f[n] = ScanEntry(f[n - 1], w[n], pattern)
      <4>1. n \in 1 .. N
        BY <3>1, <1>0
      <4> QED
        BY <4>1, <1>10
    <3> QED
      BY <3>1, <1>8
  <2> QED
    BY <2>1, <1>8
<1>12. Is(after)
  <2> HIDE DEF Is
  <2> QED
    BY <1>11
<1>13. after[0] = k /\ \A n \in 1 .. N : after[n] = ScanEntry(after[n - 1], w[n], pattern)
  <2> HIDE DEF after
  <2>1. \A n \in 0 .. N : after[n] = IF n = 0 THEN k ELSE ScanEntry(after[n - 1], w[n], pattern)
    BY <1>12, Zenon
  <2>2. after[0] = k
    BY <1>0, <2>1
  <2>3. ASSUME NEW n \in 1 .. N PROVE after[n] = ScanEntry(after[n - 1], w[n], pattern)
    <3>1. n \in 0 .. N /\ n # 0
      BY <1>n
    <3> QED
      BY <2>1, <3>1, Zenon
  <2> QED
    BY <2>2, <2>3
<1> HIDE DEF Is, after
<1> DEFINE X == {n \in 0 .. N : Passed(after[n], n, pattern)}
<1>14. 0 .. N \subseteq X
  <2>1. 0 \in X
    BY <1>0, <1>1, <1>13
  <2>2. \A n \in 1 .. N : n - 1 \in X => n \in X
    BY <1>2, <1>13, <1>n
  <2> HIDE DEF X
  <2> QED
    BY <1>0, <2>1, <2>2, CountedUp
<1>15. Passed(after[N], N, pattern)
  BY <1>0, <1>14
<1> QED
  BY <1>15, <1>0, <1>p

LEMMA ScanWakesIs ==
  ASSUME Sound(k), "event" \in WaitQ, NEW pattern \in SUBSET Flag
  PROVE  ScanWakes(k, pattern)
           <=> \E i \in 1 .. Len(Waiters) : Hit(i, pattern) /\ ~Suspended(k, Waiters[i])
<1>1. /\ DOMAIN Entries(k, Wait("event")) = 1 .. Len(Waiters)
      /\ \A i \in 1 .. Len(Waiters) : /\ TaskOf(Entries(k, Wait("event"))[i]) = Waiters[i]
                                      /\ Waiters[i] \in Task
  BY WaitersDiffer
<1>2. \A i \in 1 .. Len(Waiters) : Wakes(k, Waiters[i]) <=> ~Suspended(k, Waiters[i])
  BY <1>1, WakesIs
<1>3. ScanWakes(k, pattern)
        <=> \E i \in 1 .. Len(Waiters) : Released(k.ewait[Waiters[i]], pattern) /\ Wakes(k, Waiters[i])
  BY <1>1 DEF ScanWakes
<1> QED
  BY <1>2, <1>3 DEF Hit

\* A service that ends the waits of some tasks; J is the kernel's data in the end.
LEMMA EndsSteady ==
  ASSUME Steady, NEW J, Sound(J), ~J.request, k' = J, UNCHANGED <<ticks, services>>,
         "tslice_ticks" \notin services => AtHead(J),
         Runs(pc'[J.curr][1]) => RunsRight(J), pc' \in [Task -> Spots],
         \/ pc[k.curr][1] \notin {"delEmpty", "delMasked"}
         \/ services \cap Preempting # {},
         \A u \in Task : pc'[u] = pc[u] \/ (pc[u][2] = Null /\ pc'[u][2] = Null
                                            /\ pc'[u][1] \notin DeletePlaces),
         \A u \in Task : View(J, k, u) \/ (J.pwait[u] = Null /\ J.reason[u] = "none")
  PROVE  Steady'
<1> DEFINE P == pc'
<1>1. \A u \in Task : P[u] = pc[u] \/ (pc[u][2] = Null /\ P[u][2] = Null)
  OBVIOUS
<1>2. \A u \in Task : pc[u][2] = Null => k.pwait[u] = Null
  <2> SUFFICES ASSUME NEW u \in Task, pc[u][2] = Null, k.pwait[u] # Null PROVE FALSE
    OBVIOUS
  <2>1. pc[u] \in {"waits", "waited"} \X {k.pwait[u]}
    BY DEF Steady, KInv, Within
  <2> QED
    BY <2>1
<1>3. \A u \in Task : \/ P[u] = pc[u] /\ View(J, k, u)
                      \/ J.pwait[u] = Null /\ (P[u][2] = Null \/ J.reason[u] # "sleep")
  BY <1>1, <1>2 DEF View
<1>4. KInv'
  <2>1. Within(J, pc')
    <3> HIDE DEF P
    <3>1. Within(J, P)
      BY <1>3, WithinKept DEF Steady
    <3> QED
      BY <3>1 DEF P
  <2>2. ticks' \in [Prio -> Nat] /\ KInv
    BY DEF Steady, KInv
  <2> QED
    BY <2>1, <2>2, InvKept
<1>5. Closing'
  BY ClosingMoves DEF Steady
<1> QED
  BY <1>4, <1>5 DEF Steady

\* tn_event_set: every waiting task whose condition holds is released.
Untouched(u, pattern) ==
  \A i \in 1 .. Len(Waiters) : Hit(i, pattern) => u # Waiters[i]
Swept(pattern) ==
  /\ Steady'
  /\ \A q \in WaitQ \ {"event"} : Queues(k')[q] = Queues(k)[q]
  /\ \A u \in Task : Untouched(u, pattern) => View(k', k, u)
  /\ \A i \in 1 .. Len(Waiters) : Hit(i, pattern) =>
       LET t == Waiters[i]
       IN  /\ ~Waiting(k', t) /\ k'.reason[t] = "none" /\ k'.pwait[t] = Null /\ k'.rc[t] = "ok"
           /\ k'.ewait[t] = [k.ewait[t] EXCEPT !.pattern = pattern]
  /\ \A u \in Task : pc'[u] = pc[u] \/ (pc[u][2] = Null /\ pc'[u][2] = Null)

LEMMA SweptIs ==
  ASSUME Steady, "event" \in WaitQ, NEW pattern \in SUBSET Flag,
         NEW K, Passed(K, Len(Waiters), pattern),
         NEW J, Sound(J), ~J.request, k' = J, Queues(J) = Queues(K),
         \A u \in Task : View(J, K, u), UNCHANGED <<ticks, services>>,
         "tslice_ticks" \notin services => AtHead(J),
         Runs(pc'[J.curr][1]) => RunsRight(J), pc' \in [Task -> Spots],
         \/ pc[k.curr][1] \notin {"delEmpty", "delMasked"}
         \/ services \cap Preempting # {},
         \A u \in Task : pc'[u] = pc[u] \/ (pc[u][2] = Null /\ pc'[u][2] = Null
                                            /\ pc'[u][1] \notin DeletePlaces)
  PROVE  Swept(pattern)
<1> DEFINE Free(i) == LET t == Waiters[i]
                      IN  /\ ~Waiting(J, t) /\ J.reason[t] = "none" /\ J.pwait[t] = Null
                          /\ J.rc[t] = "ok" /\ J.ewait[t] = [k.ewait[t] EXCEPT !.pattern = pattern]
<1>1. \A i \in 1 .. Len(Waiters) : Waiters[i] \in Task
  BY WaitersDiffer DEF Steady, KInv
<1>2. /\ \A q \in WaitQ \ {"event"} : Queues(K)[q] = Queues(k)[q]
      /\ \A u \in Task : Untouched(u, pattern) => View(K, k, u)
      /\ \A i \in 1 .. Len(Waiters) : Hit(i, pattern) =>
           /\ ~Waiting(K, Waiters[i]) /\ K.reason[Waiters[i]] = "none"
           /\ K.pwait[Waiters[i]] = Null /\ K.rc[Waiters[i]] = "ok"
           /\ K.ewait[Waiters[i]] = [k.ewait[Waiters[i]] EXCEPT !.pattern = pattern]
  BY DEF Passed, Untouched
<1>3. \A i \in 1 .. Len(Waiters) : Hit(i, pattern) => Free(i)
  BY <1>1, <1>2 DEF View
<1>4. \A u \in Task : Untouched(u, pattern) => View(J, k, u)
  BY <1>2 DEF View
<1>5. \A u \in Task : View(J, k, u) \/ (J.pwait[u] = Null /\ J.reason[u] = "none")
  BY <1>3, <1>4 DEF Untouched
<1>6. Steady'
  BY <1>5, EndsSteady
<1>7. \A u \in Task : pc'[u] = pc[u] \/ (pc[u][2] = Null /\ pc'[u][2] = Null)
  OBVIOUS
<1> QED
  BY <1>2, <1>3, <1>4, <1>6, <1>7 DEF Swept

LEMMA SetStep ==
  ASSUME Steady, "event" \in WaitQ, NEW pattern \in SUBSET Flag, Calls("event_set"),
         k' = Scan(k, pattern), SwitchIf(ScanWakes(k, pattern)), UNCHANGED <<ticks, services>>
  PROVE  Swept(pattern)
<1> DEFINE J == Scan(k, pattern)
           wakes == ScanWakes(k, pattern)
<1>0. /\ k.curr # Idle /\ RunsRight(k) /\ k.curr \in Task
      /\ Sound(k) /\ ~k.request /\ ("tslice_ticks" \notin services => AtHead(k))
      /\ pc \in [Task -> Spots] /\ pc[k.curr] = <<"user", Null>>
  BY CallFacts DEF Steady
<1>1. Passed(J, Len(Waiters), pattern)
  BY <1>0, ScanIs
<1>2. wakes <=> \E i \in 1 .. Len(Waiters) : Hit(i, pattern) /\ ~Suspended(k, Waiters[i])
  BY <1>0, ScanWakesIs
<1>3. pc' = Goes(k.curr, IF wakes THEN "switch" ELSE "user", Null) /\ k' = J
  BY DEF SwitchIf
<1> HIDE DEF J, wakes
<1>4. /\ pc' \in [Task -> Spots] /\ pc'[k.curr][2] = Null
      /\ pc'[k.curr][1] = IF wakes THEN "switch" ELSE "user"
      /\ \A u \in Task : u # k.curr => pc'[u] = pc[u]
  BY <1>0, <1>3 DEF Goes, Spots
<1>5. /\ Sound(J) /\ J.curr = k.curr /\ J.request = k.request
      /\ AtHead(k) => AtHead(J)
      /\ ~wakes => J.next = k.next
      /\ J.prio = k.prio /\ \A u \in Task : k.state[u] = "runnable" => J.state[u] = "runnable"
  BY <1>1, <1>2 DEF Passed
<1>6. Runs(pc'[J.curr][1]) => RunsRight(J)
  <2>1. CASE ~wakes
    BY <1>0, <1>5, <2>1, StillRuns
  <2>2. CASE wakes
    BY <1>4, <1>5, <2>2 DEF Runs
  <2> QED
    BY <2>1, <2>2
<1>7. \A u \in Task : View(J, J, u)
  BY DEF View
<1>8. \A u \in Task : pc'[u] = pc[u] \/ (pc[u][2] = Null /\ pc'[u][2] = Null
                                          /\ pc'[u][1] \notin DeletePlaces)
  BY <1>0, <1>4 DEF DeletePlaces
<1>9. pc[k.curr][1] \notin {"delEmpty", "delMasked"}
  BY <1>0
<1> QED
  BY <1>0, <1>1, <1>3, <1>4, <1>5, <1>6, <1>7, <1>8, <1>9, SweptIs

LEMMA ISetStep ==
  ASSUME Steady, "event" \in WaitQ, NEW pattern \in SUBSET Flag,
         services \cap Preempting # {},
         IrqExit(Request(Scan(k, pattern), ScanWakes(k, pattern))),
         UNCHANGED <<ticks, services>>
  PROVE  Swept(pattern)
<1> DEFINE K == Scan(k, pattern)
           c == ScanWakes(k, pattern)
           X == Request(K, c)
           J == k'
<1>0. /\ Sound(k) /\ ~k.request /\ KInv
  BY DEF Steady, KInv
<1>1. Passed(K, Len(Waiters), pattern)
  BY <1>0, ScanIs
<1>2. c <=> \E i \in 1 .. Len(Waiters) : Hit(i, pattern) /\ ~Suspended(k, Waiters[i])
  BY <1>0, ScanWakesIs
<1>3. c \in BOOLEAN
  BY DEF ScanWakes
<1>4. IrqExit(X)
  OBVIOUS
<1> HIDE DEF K, c
<1>5. /\ Sound(K) /\ K.curr = k.curr /\ K.request = k.request
      /\ AtHead(k) => AtHead(K)
      /\ ~c => K.next = k.next
      /\ K.prio = k.prio /\ \A u \in Task : k.state[u] = "runnable" => K.state[u] = "runnable"
  BY <1>1, <1>2 DEF Passed
<1>6. c \/ (RunsRight(k) => RunsRight(K))
  BY <1>0, <1>5, StillRuns
<1>7. RequestIs(X, K, c)
  BY <1>0, <1>3, <1>5, <1>6, Requested
<1> HIDE DEF X
<1>8. Arrives(X) /\ Queues(X) = Queues(K) /\ \A u \in Task : View(X, K, u)
  BY <1>7 DEF RequestIs
<1>9. IrqLeaves(k', X)
  BY <1>0, <1>4, <1>8, IrqExitIs
<1>j. k' = J
  OBVIOUS
<1>10. /\ Sound(J) /\ ~J.request /\ Queues(J) = Queues(X)
       /\ \A u \in Task : View(J, X, u)
       /\ "tslice_ticks" \notin services => AtHead(J)
       /\ Runs(pc'[J.curr][1]) => RunsRight(J)
       /\ pc' \in [Task -> Spots]
       /\ \A u \in Task : pc'[u] = pc[u] \/ (pc[u][1] = "exit" /\ pc'[u] = <<"stuck", Null>>)
  BY <1>9 DEF IrqLeaves
<1> HIDE DEF J
<1>11. \A u \in Task : View(J, K, u)
  BY <1>8, <1>10 DEF View
<1>12. \A u \in Task : pc'[u] = pc[u] \/ (pc[u][2] = Null /\ pc'[u][2] = Null
                                           /\ pc'[u][1] \notin DeletePlaces)
  BY <1>0, <1>10, PlainFacts DEF DeletePlaces
<1> QED
  BY <1>1, <1>8, <1>10, <1>11, <1>12, <1>j, SweptIs

-----------------------------------------------------------------------------
(* What each kind of step does to the other queues.                        *)

Inside(p, q) == p \in {<<"waits", q>>, <<"waited", q>>}

\* A step of the running task that ends no wait and begins none.
Minor(q) ==
  /\ Steady' /\ Queues(k') = Queues(k) /\ \A u \in Task : View(k', k, u)
  /\ \A u \in Task : \/ pc'[u] = pc[u]
                     \/ /\ pc[u][2] \in {q, Null} /\ pc'[u][2] \in {q, Null}
                        /\ Inside(pc'[u], q) => Inside(pc[u], q)

LEMMA MinorBeside ==
  ASSUME NEW q \in WaitQ, Minor(q)
  PROVE  Steady' /\ Beside({q})
<1>1. \A u \in Task : \/ pc'[u] = pc[u] /\ View(k', k, u)
                      \/ pc[u][2] \in {q} \cup {Null} /\ pc'[u][2] \in {q} \cup {Null}
  BY DEF Minor
<1>2. \A r \in WaitQ \ {q} : Queues(k')[r] = Queues(k)[r]
  BY DEF Minor
<1> QED
  BY <1>1, <1>2 DEF Minor, Beside

\* The kernel's data stay as they are.
LEMMA SameView == \A K : \A u \in Task : View(K, K, u)
BY DEF View
LEMMA StillMinor ==
  ASSUME Steady, NEW q, UNCHANGED <<k, pc, ticks, services>>
  PROVE  Minor(q)
<1>1. Steady' /\ Queues(k') = Queues(k) /\ \A u \in Task : View(k', k, u)
  BY StillStep, SameView
<1> QED
  BY <1>1 DEF Minor

LEMMA GoesMinor ==
  ASSUME Steady, Runs(pc[k.curr][1]), NEW place, NEW q, NEW r \in {q, Null}, <<place, r>> \in Spots,
         Runs(place), pc[k.curr][2] \in {q, Null}, Inside(<<place, r>>, q) => Inside(pc[k.curr], q),
         k' = k, pc' = Goes(k.curr, place, r), UNCHANGED <<ticks, services>>,
         place \in DeletePlaces => Deleter(r) \in services,
         place = "delEmpty" => Queues(k)[r] = <<>>
  PROVE  Minor(q)
<1>1. Steady'
  BY PlaceStep
<1>2. Queues(k') = Queues(k) /\ \A u \in Task : View(k', k, u)
  BY SameView
<1>3. k.curr \in Task /\ pc \in [Task -> Spots]
  BY RunningFacts
<1>4. pc'[k.curr] = <<place, r>> /\ \A u \in Task : u # k.curr => pc'[u] = pc[u]
  BY <1>3 DEF Goes
<1>5. \A u \in Task : \/ pc'[u] = pc[u]
                      \/ /\ pc[u][2] \in {q, Null} /\ pc'[u][2] \in {q, Null}
                         /\ Inside(pc'[u], q) => Inside(pc[u], q)
  BY <1>4
<1> QED
  BY <1>1, <1>2, <1>5 DEF Minor

LEMMA ReturnsMinor ==
  ASSUME Steady, NEW q \in WaitQ, WaitReturns(q), UNCHANGED <<ticks, services>>
  PROVE  Minor(q) /\ k' = k /\ pc[k.curr] = <<"waited", q>> /\ pc' = Goes(k.curr, "user", Null)
<1>1. k' = k /\ pc[k.curr] = <<"waited", q>> /\ pc' = Goes(k.curr, "user", Null)
  BY DEF WaitReturns
<1>2. <<"user", Null>> \in Spots /\ Runs("user") /\ Runs("waited") /\ "user" \notin DeletePlaces
      /\ ~Inside(<<"user", Null>>, q)
  BY DEF Spots, Runs, DeletePlaces, Inside
<1>3. Runs(pc[k.curr][1]) /\ pc[k.curr][2] \in {q, Null} /\ Null \in {q, Null}
  BY <1>1, <1>2
<1>4. Minor(q)
  BY <1>1, <1>2, <1>3, GoesMinor
<1> QED
  BY <1>1, <1>4

LEMMA SwitchesMinor ==
  ASSUME Steady, NEW q \in WaitQ, WaitSwitches(q) \/ DeleteSwitches(q), UNCHANGED <<ticks, services>>
  PROVE  Minor(q)
<1>1. PICK place \in {"waited", "delTest"} :
        /\ pc[k.curr] = <<IF place = "waited" THEN "waits" ELSE "delSwitch", q>>
        /\ k' = [k EXCEPT !.curr = k.next] /\ pc' = Goes(k.curr, place, q)
  BY DEF WaitSwitches, DeleteSwitches
<1>2. Swapped
  BY <1>1, SwapStep
<1>3. k.curr \in Task /\ pc \in [Task -> Spots]
  BY SoundFacts DEF Steady, KInv
<1>4. pc'[k.curr] = <<place, q>> /\ \A u \in Task : u # k.curr => pc'[u] = pc[u]
  BY <1>1, <1>3 DEF Goes
<1>5. \A u \in Task : \/ pc'[u] = pc[u]
                      \/ /\ pc[u][2] \in {q, Null} /\ pc'[u][2] \in {q, Null}
                         /\ Inside(pc'[u], q) => Inside(pc[u], q)
  BY <1>1, <1>4 DEF Inside
<1> QED
  BY <1>2, <1>5 DEF Minor, Swapped

LEMMA DeleteBegins ==
  ASSUME Steady, NEW q \in WaitQ, Calls(Deleter(q)), k' = k, pc' = Goes(k.curr, "delTest", q),
         UNCHANGED <<ticks, services>>
  PROVE  Minor(q)
<1>1. Deleter(q) \in services /\ pc[k.curr] = <<"user", Null>>
  BY CallFacts DEF Steady
<1>2. <<"delTest", q>> \in Spots /\ Runs("user") /\ Runs("delTest")
      /\ ~Inside(<<"delTest", q>>, q)
  BY DEF Spots, Runs, Inside
<1>3. Runs(pc[k.curr][1]) /\ pc[k.curr][2] \in {q, Null} /\ q \in {q, Null}
  BY <1>1, <1>2
<1> QED
  BY <1>1, <1>2, <1>3, GoesMinor

LEMMA DeleteOver ==
  ASSUME Steady, NEW q \in WaitQ, DeleteLoopOver(q), k' = k, pc' = Goes(k.curr, "user", Null),
         UNCHANGED <<ticks, services>>
  PROVE  Minor(q) /\ Queues(k)[q] = <<>>
<1>1. /\ Queues(k)[q] = <<>> /\ Runs(pc[k.curr][1]) /\ pc[k.curr][2] = q
  BY LoopOver
<1>2. <<"user", Null>> \in Spots /\ Runs("user") /\ "user" \notin DeletePlaces
      /\ ~Inside(<<"user", Null>>, q)
  BY DEF Spots, Runs, DeletePlaces, Inside
<1> QED
  BY <1>1, <1>2, GoesMinor

\* The other kinds of steps.
LEMMA WaitingFacts ==
  ASSUME Steady, NEW t \in Task, k.pwait[t] # Null
  PROVE  Inside(pc[t], k.pwait[t]) /\ pc[t][2] = k.pwait[t]
<1>1. pc[t] \in {"waits", "waited"} \X {k.pwait[t]}
  BY DEF Steady, KInv, Within
<1> QED
  BY <1>1 DEF Inside

LEMMA FallenBeside ==
  ASSUME Steady, NEW q \in WaitQ, NEW V, Fallen(q, V)
  PROVE  Steady' /\ Beside({q})
<1>1. \A r \in WaitQ \ {q} : Queues(k')[r] = Queues(k)[r]
  BY QueuesElse DEF Fallen
<1>2. \A u \in Task : \/ pc'[u] = pc[u] /\ View(k', k, u)
                      \/ pc[u][2] \in {q} \cup {Null} /\ pc'[u][2] \in {q} \cup {Null}
  BY DEF Fallen
<1> QED
  BY <1>1, <1>2 DEF Fallen, Beside

LEMMA HandedBeside ==
  ASSUME Steady, NEW q \in WaitQ, NEW V, Handed(q, V)
  PROVE  Steady' /\ Beside({q})
<1> DEFINE t == Queues(k)[q][1]
<1>1. \A r \in WaitQ \ {q} : Queues(k')[r] = Queues(k)[r]
  BY QueuesElse DEF Handed
<1>2. t \in Task /\ k.pwait[t] = q /\ q # Null
  BY CoreAssumption DEF Handed
<1>3. pc[t][2] = q
  BY <1>2, WaitingFacts
<1>4. /\ \A u \in Task : u # t => View(k', k, u)
      /\ \A u \in Task : pc'[u] = pc[u] \/ (pc[u][2] = Null /\ pc'[u][2] = Null)
  BY DEF Handed
<1> HIDE DEF t
<1>5. \A u \in Task : \/ pc'[u] = pc[u] /\ View(k', k, u)
                      \/ pc[u][2] \in {q} \cup {Null} /\ pc'[u][2] \in {q} \cup {Null}
  BY <1>3, <1>4
<1> QED
  BY <1>1, <1>5 DEF Handed, Beside

LEMMA TurnedBeside ==
  ASSUME Steady, NEW q \in WaitQ, Turned(q)
  PROVE  Steady' /\ Beside({q})
<1> DEFINE t == Queues(k)[q][1]
<1>0. /\ pc[k.curr][2] = q /\ pc'[k.curr][2] = q
      /\ \A u \in Task : u # k.curr => pc'[u] = pc[u]
  BY DEF Turned
<1>1. CASE k' = k
  <2>1. \A u \in Task : \/ pc'[u] = pc[u] /\ View(k', k, u)
                        \/ pc[u][2] \in {q} \cup {Null} /\ pc'[u][2] \in {q} \cup {Null}
    BY <1>0, <1>1, SameView
  <2>2. \A r \in WaitQ \ {q} : Queues(k')[r] = Queues(k)[r]
    BY <1>1
  <2> QED
    BY <2>1, <2>2 DEF Turned, Beside
<1>2. CASE Dropped(q)
  <2>1. \A r \in WaitQ \ {q} : Queues(k')[r] = Queues(k)[r]
    BY <1>2, QueuesElse DEF Dropped
  <2>2. t \in Task /\ k.pwait[t] = q /\ q # Null
    BY <1>2, CoreAssumption DEF Dropped
  <2>3. pc[t][2] = q
    BY <2>2, WaitingFacts
  <2>4. \A u \in Task : u # t => View(k', k, u)
    BY <1>2 DEF Dropped
  <2> HIDE DEF t
  <2>5. \A u \in Task : \/ pc'[u] = pc[u] /\ View(k', k, u)
                        \/ pc[u][2] \in {q} \cup {Null} /\ pc'[u][2] \in {q} \cup {Null}
    BY <1>0, <2>3, <2>4
  <2> QED
    BY <2>1, <2>5 DEF Turned, Beside
<1> QED
  BY <1>1, <1>2 DEF Turned

LEMMA SweptBeside ==
  ASSUME Steady, "event" \in WaitQ, NEW pattern, Swept(pattern)
  PROVE  Steady' /\ Beside({"event"})
<1>0. \A i \in 1 .. Len(Waiters) : Waiters[i] \in Task /\ k.pwait[Waiters[i]] = "event"
  BY WaitersDiffer DEF Steady, KInv
<1>1. \A i \in 1 .. Len(Waiters) : pc[Waiters[i]][2] = "event"
  BY <1>0, WaitingFacts, CoreAssumption
<1>2. /\ \A u \in Task : Untouched(u, pattern) => View(k', k, u)
      /\ \A u \in Task : pc'[u] = pc[u] \/ (pc[u][2] = Null /\ pc'[u][2] = Null)
  BY DEF Swept
<1>3. \A u \in Task : \/ pc'[u] = pc[u] /\ View(k', k, u)
                      \/ pc[u][2] \in {"event"} \cup {Null} /\ pc'[u][2] \in {"event"} \cup {Null}
  <2> SUFFICES ASSUME NEW u \in Task
               PROVE  \/ pc'[u] = pc[u] /\ View(k', k, u)
                      \/ pc[u][2] \in {"event"} \cup {Null} /\ pc'[u][2] \in {"event"} \cup {Null}
    OBVIOUS
  <2>1. CASE Untouched(u, pattern)
    BY <1>2, <2>1
  <2>2. CASE ~Untouched(u, pattern)
    <3>1. PICK i \in 1 .. Len(Waiters) : u = Waiters[i]
      BY <2>2 DEF Untouched
    <3> QED
      BY <3>1, <1>1, <1>2
  <2> QED
    BY <2>1, <2>2
<1> QED
  BY <1>3 DEF Swept, Beside

\* The kernel's data after a step are sound.
LEMMA SoundNext ==
  ASSUME Steady', services' = services
  PROVE  Sound(k')
<1>1. Sound(k)'
  BY DEF Steady, KInv
<1> QED
  BY <1>1 DEF Sound, SoundBut, OneTask, Called

-----------------------------------------------------------------------------
(* Semaphores.                                                             *)

Signalled ==
  ~({"suspend", "sem_delete"} \subseteq services) =>
    \A t \in Task : Inside(pc[t], "sem") =>
      IF k.pwait[t] # Null THEN t \notin granted ELSE (k.rc[t] = "ok" <=> t \in granted)
SemInv ==
  /\ sem \in [count: 0 .. MaxVal, exists: BOOLEAN]
  /\ sem.count > 0 \/ ~sem.exists => Queues(k)["sem"] = <<>>
  /\ Signalled

LEMMA SemWaitQ == "sem" \in WaitQ /\ "sem" # Null /\ MaxVal \in Nat /\ StartValue \in 0 .. MaxVal
BY SemAssumption, CoreAssumption

LEMMA SemMinor ==
  ASSUME SemInv, Minor("sem"), services' = services,
         \A t \in Task : Inside(pc'[t], "sem") => (t \in granted' <=> t \in granted),
         sem' \in [count: 0 .. MaxVal, exists: BOOLEAN],
         sem'.count > 0 \/ ~sem'.exists => Queues(k)["sem"] = <<>>
  PROVE  SemInv'
<1>1. /\ Queues(k') = Queues(k) /\ \A u \in Task : View(k', k, u)
      /\ \A u \in Task : Inside(pc'[u], "sem") => Inside(pc[u], "sem")
  BY DEF Minor
<1>2. Signalled'
  BY <1>1 DEF SemInv, Signalled, View
<1> QED
  BY <1>1, <1>2 DEF SemInv

LEMMA SemFallen ==
  ASSUME SemInv, NEW V, Fallen("sem", V), services' = services, sem' = sem,
         sem.exists, sem.count = 0, granted' = granted \ {k.curr}
  PROVE  SemInv'
<1>1. Signalled'
  <2> SUFFICES ASSUME ~({"suspend", "sem_delete"} \subseteq services), NEW t \in Task,
                      Inside(pc'[t], "sem")
               PROVE  IF k'.pwait[t] # Null THEN t \notin granted'
                      ELSE (k'.rc[t] = "ok" <=> t \in granted')
    BY DEF Signalled
  <2>1. CASE t = k.curr
    BY <2>1, SemWaitQ DEF Fallen
  <2>2. CASE t # k.curr
    <3>1. View(k', k, t) /\ pc'[t] = pc[t]
      BY <2>2 DEF Fallen
    <3>2. IF k.pwait[t] # Null THEN t \notin granted ELSE (k.rc[t] = "ok" <=> t \in granted)
      BY <3>1 DEF SemInv, Signalled
    <3> QED
      BY <3>1, <3>2, <2>2 DEF View
  <2> QED
    BY <2>1, <2>2
<1> QED
  BY <1>1 DEF SemInv

LEMMA SemHanded ==
  ASSUME SemInv, Steady, NEW V, Handed("sem", V), services' = services, sem' = sem,
         granted' = granted \cup {Queues(k)["sem"][1]}
  PROVE  SemInv'
<1> DEFINE t == Queues(k)["sem"][1]
<1>1. Signalled'
  <2> SUFFICES ASSUME ~({"suspend", "sem_delete"} \subseteq services), NEW u \in Task,
                      Inside(pc'[u], "sem")
               PROVE  IF k'.pwait[u] # Null THEN u \notin granted'
                      ELSE (k'.rc[u] = "ok" <=> u \in granted')
    BY DEF Signalled
  <2>1. CASE u = t
    BY <2>1 DEF Handed
  <2>2. CASE u # t
    <3>1. View(k', k, u)
      BY <2>2 DEF Handed
    <3>2. pc'[u] = pc[u]
      BY SemWaitQ DEF Handed, Inside
    <3>3. IF k.pwait[u] # Null THEN u \notin granted ELSE (k.rc[u] = "ok" <=> u \in granted)
      BY <3>2 DEF SemInv, Signalled
    <3> QED
      BY <3>1, <3>3, <2>2 DEF View
  <2> QED
    BY <2>1, <2>2
<1>2. Queues(k)["sem"] # <<>>
  BY DEF Handed
<1> QED
  BY <1>1, <1>2 DEF SemInv

LEMMA SemTurned ==
  ASSUME SemInv, Steady, Turned("sem"), services' = services, UNCHANGED <<sem, granted>>
  PROVE  SemInv'
<1>0. /\ \A u \in Task : u # k.curr => pc'[u] = pc[u]
      /\ k.curr \in Task /\ pc'[k.curr] \in DeletePlaces \X {"sem"} /\ Steady'
      /\ ~Inside(pc'[k.curr], "sem")
  BY DEF Turned, Inside, DeletePlaces
<1>1. CASE k' = k
  <2>1. Signalled'
    BY <1>0, <1>1 DEF SemInv, Signalled
  <2> QED
    BY <1>1, <2>1 DEF SemInv
<1>2. CASE Dropped("sem")
  <2> DEFINE t == Queues(k)["sem"][1]
  <2>0. "sem_delete" \in services
    BY <1>0 DEF Steady, Closing, Deleter
  <2>1. /\ t \in Task /\ k.pwait[t] = "sem" /\ k'.pwait[t] = Null
        /\ k'.rc[t] = IF Suspended(k, t) THEN "ok" ELSE "dlt"
        /\ Suspended(k, t) => "suspend" \in services
        /\ \A u \in Task : u # t => View(k', k, u)
        /\ 1 \in 1 .. Len(Queues(k)["sem"])
    BY <1>2 DEF Dropped
  <2>2. Inside(pc[t], "sem")
    BY <2>1, SemWaitQ, WaitingFacts
  <2> HIDE DEF t
  <2>3. Signalled'
    <3> SUFFICES ASSUME ~({"suspend", "sem_delete"} \subseteq services), NEW u \in Task,
                        Inside(pc'[u], "sem")
                 PROVE  IF k'.pwait[u] # Null THEN u \notin granted'
                        ELSE (k'.rc[u] = "ok" <=> u \in granted')
      BY DEF Signalled
    <3>1. IF k.pwait[u] # Null THEN u \notin granted ELSE (k.rc[u] = "ok" <=> u \in granted)
      BY <1>0 DEF SemInv, Signalled
    <3>2. CASE u = t
      BY <2>0, <2>1, <3>1, <3>2, SemWaitQ
    <3>3. CASE u # t
      BY <2>1, <3>1, <3>3 DEF View
    <3> QED
      BY <3>2, <3>3
  <2>4. Queues(k)["sem"] # <<>>
    BY <2>1
  <2> QED
    BY <2>3, <2>4 DEF SemInv
<1> QED
  BY <1>1, <1>2 DEF Turned

\* What every step of the semaphore's services comes to.
SemOwn == Steady' /\ Beside({"sem"}) /\ SemInv'
LEMMA SemStill ==
  ASSUME Steady, SemInv, UNCHANGED <<k, pc, granted, ticks, services>>,
         sem' \in [count: 0 .. MaxVal, exists: BOOLEAN],
         sem'.count > 0 \/ ~sem'.exists => Queues(k)["sem"] = <<>>
  PROVE  SemOwn
<1>1. Minor("sem")
  BY StillMinor
<1>2. SemInv'
  BY <1>1, SemMinor
<1> QED
  BY <1>1, <1>2, SemWaitQ, MinorBeside DEF SemOwn

LEMMA SemTakes ==
  ASSUME Steady, SemInv, sem.exists, sem.count >= 1, sem' = [sem EXCEPT !.count = @ - 1],
         UNCHANGED <<k, pc, granted, ticks, services>>
  PROVE  SemOwn
<1>1. sem \in [count: 0 .. MaxVal, exists: BOOLEAN]
  BY DEF SemInv
<1>2. sem'.count = sem.count - 1 /\ sem'.exists = sem.exists
  BY <1>1
<1>3. sem.count - 1 \in 0 .. MaxVal
  BY <1>1, SemWaitQ
<1>4. sem' \in [count: 0 .. MaxVal, exists: BOOLEAN]
  BY <1>1, <1>3
<1>5. sem'.count > 0 \/ ~sem'.exists => Queues(k)["sem"] = <<>>
  BY <1>1, <1>2, SemWaitQ DEF SemInv
<1> QED
  BY <1>4, <1>5, SemStill

LEMMA SemCounts ==
  ASSUME Steady, SemInv, sem.exists, Counts, UNCHANGED <<ticks, services>>
  PROVE  SemOwn
<1>1. sem \in [count: 0 .. MaxVal, exists: BOOLEAN]
  BY DEF SemInv
<1>2. sem.count + 1 \in 0 .. MaxVal
  BY <1>1, SemWaitQ DEF Counts
<1>3. sem' \in [count: 0 .. MaxVal, exists: BOOLEAN]
  BY <1>1, <1>2 DEF Counts
<1>4. Queues(k)["sem"] = <<>>
  <2>1. AtFirst(k, "sem")
    BY SemWaitQ, FirstIs DEF Steady, KInv
  <2> QED
    BY <2>1 DEF AtFirst, Counts, NoWaiters
<1> QED
  BY <1>3, <1>4, SemStill DEF Counts

LEMMA SemGrants ==
  ASSUME Steady, SemInv, Grants, UNCHANGED <<ticks, services>>,
         \/ k' = Woken /\ Calls("sem_signal") /\ SwitchIf(Wakes(k, First("sem")))
         \/ "sem_isignal" \in services /\ IrqExit(Request(Woken, Wakes(k, First("sem"))))
  PROVE  SemOwn
<1> DEFINE V == WithoutFirst("sem")
<1>1. Sound(k) /\ ~NoWaiters("sem") /\ Woken = WaitComplete(V, First("sem"))
  BY DEF Steady, KInv, Grants, Woken
<1>2. FirstOutIs("sem", Null)
  BY <1>1, SemWaitQ, FirstOut
<1>3. Out(V, k, "sem", 1) /\ First("sem") = Queues(k)["sem"][1]
  BY <1>2 DEF FirstOutIs
<1> HIDE DEF V
<1>4. Handed("sem", V)
  <2>1. CASE k' = Woken /\ Calls("sem_signal") /\ SwitchIf(Wakes(k, First("sem")))
    BY <1>1, <1>3, <2>1, SemWaitQ, HandStep
  <2>2. CASE "sem_isignal" \in services /\ IrqExit(Request(Woken, Wakes(k, First("sem"))))
    <3>1. services \cap Preempting # {}
      BY <2>2 DEF Preempting
    <3> QED
      BY <1>1, <1>3, <2>2, <3>1, SemWaitQ, HandIrq
  <2> QED
    BY <2>1, <2>2
<1>5. SemInv'
  BY <1>3, <1>4, SemHanded DEF Grants
<1> QED
  BY <1>4, <1>5, SemWaitQ, HandedBeside DEF SemOwn

LEMMA SemWaits ==
  ASSUME Steady, SemInv, Acquire(Forever), ~(sem.count >= 1), UNCHANGED <<ticks, services>>
  PROVE  SemOwn
<1>1. Written(k)
  <2>1. k \in Kernel
    BY SoundFacts DEF Steady, KInv
  <2> QED
    BY <2>1, KernelFields DEF Written, Kernel
<1>2. /\ k' = CurrToWait(k, "sem", Why("sem"), Forever) /\ pc' = Goes(k.curr, "waits", "sem")
      /\ Calls("sem_acquire") /\ "sem_acquire" \in WaitingServices
      /\ sem' = sem /\ granted' = granted \ {k.curr} /\ sem.exists
  BY DEF Acquire, WaitIn, Why, WaitingServices
<1>3. Fallen("sem", k)
  BY <1>1, <1>2, SemWaitQ, WaitStep
<1>4. sem.count = 0
  BY SemWaitQ DEF SemInv
<1>5. SemInv'
  BY <1>2, <1>3, <1>4, SemFallen
<1> QED
  BY <1>3, <1>5, SemWaitQ, FallenBeside DEF SemOwn

LEMMA SemStepIs ==
  ASSUME Steady, SemInv, SemTimeouts \subseteq {Forever}, SemStep
  PROVE  SemOwn
<1>0. UNCHANGED <<ticks, services>> /\ sem \in [count: 0 .. MaxVal, exists: BOOLEAN]
  BY DEF SemStep, SemInv
<1>1. CASE \E timeout \in SemTimeouts : Acquire(timeout)
  <2>1. Acquire(Forever)
    BY <1>1
  <2>2. CASE sem.count >= 1
    BY <1>0, <2>1, <2>2, SemTakes DEF Acquire
  <2>3. CASE ~(sem.count >= 1)
    BY <1>0, <2>1, <2>3, SemWaits
  <2> QED
    BY <2>2, <2>3
<1>2. CASE Polling \/ IPolling
  BY <1>0, <1>2, SemTakes DEF Polling, IPolling
<1>3. CASE Signal
  <2>1. sem.exists /\ Calls("sem_signal")
    BY <1>3 DEF Signal
  <2>2. CASE Counts
    BY <1>0, <2>1, <2>2, SemCounts
  <2>3. CASE Grants /\ k' = Woken /\ SwitchIf(Wakes(k, First("sem")))
    BY <1>0, <2>1, <2>3, SemGrants
  <2> QED
    BY <1>3, <2>2, <2>3 DEF Signal
<1>4. CASE ISignal
  <2>1. sem.exists /\ "sem_isignal" \in services
    BY <1>4 DEF ISignal
  <2>2. CASE Counts
    BY <1>0, <2>1, <2>2, SemCounts
  <2>3. CASE Grants /\ IrqExit(Request(Woken, Wakes(k, First("sem"))))
    BY <1>0, <2>1, <2>3, SemGrants
  <2> QED
    BY <1>4, <2>2, <2>3 DEF ISignal
<1>5. CASE AcquireReturns
  <2>1. Minor("sem") /\ pc' = Goes(k.curr, "user", Null)
    BY <1>0, <1>5, SemWaitQ, ReturnsMinor DEF AcquireReturns
  <2>2. \A t \in Task : Inside(pc'[t], "sem") => t # k.curr
    BY <2>1 DEF Goes, Inside, Steady, KInv
  <2>3. SemInv'
    BY <1>0, <1>5, <2>1, <2>2, SemMinor DEF AcquireReturns, SemInv
  <2> QED
    BY <2>1, <2>3, SemWaitQ, MinorBeside DEF SemOwn
<1>6. CASE SemCreate
  <2>1. Queues(k)["sem"] = <<>> /\ Sound(k)
    BY <1>6 DEF SemCreate, SemInv, Steady, KInv
  <2>2. k' = k
    BY <1>6, <2>1, SemWaitQ, ResetEmpty DEF SemCreate
  <2>3. sem' \in [count: 0 .. MaxVal, exists: BOOLEAN]
    BY <1>6, SemWaitQ DEF SemCreate, NewSem
  <2> QED
    BY <1>0, <1>6, <2>1, <2>2, <2>3, SemStill DEF SemCreate
<1>7. CASE SemDelete
  <2>1. Minor("sem")
    BY <1>0, <1>7, SemWaitQ, DeleteBegins DEF SemDelete, Deleter
  <2>2. SemInv'
    BY <1>0, <1>7, <2>1, SemMinor DEF SemDelete, SemInv
  <2> QED
    BY <2>1, <2>2, SemWaitQ, MinorBeside DEF SemOwn
<1>8. CASE SemDeleteEnds
  <2>1. Minor("sem") /\ Queues(k)["sem"] = <<>>
    BY <1>0, <1>8, SemWaitQ, DeleteOver DEF SemDeleteEnds
  <2>2. sem' \in [count: 0 .. MaxVal, exists: BOOLEAN]
    BY <1>0, <1>8 DEF SemDeleteEnds
  <2>3. SemInv'
    BY <1>0, <1>8, <2>1, <2>2, SemMinor DEF SemDeleteEnds
  <2> QED
    BY <2>1, <2>3, SemWaitQ, MinorBeside DEF SemOwn
<1>9. CASE (WaitSwitches("sem") \/ DeleteLoop("sem", WithoutFirst("sem"))) /\ UNCHANGED <<sem, granted>>
  <2>1. CASE WaitSwitches("sem") \/ DeleteSwitches("sem")
    <3>1. Minor("sem")
      BY <1>0, <2>1, SemWaitQ, SwitchesMinor
    <3>2. SemInv'
      BY <1>0, <1>9, <3>1, SemMinor DEF SemInv
    <3> QED
      BY <3>1, <3>2, SemWaitQ, MinorBeside DEF SemOwn
  <2>2. CASE DeleteTests("sem") \/ DeleteTakes("sem", WithoutFirst("sem"))
    <3>1. Turned("sem")
      BY <1>0, <2>2, SemWaitQ, TestsStep, TakeStep
    <3>2. SemInv'
      BY <1>0, <1>9, <3>1, SemTurned
    <3> QED
      BY <3>1, <3>2, SemWaitQ, TurnedBeside DEF SemOwn
  <2> QED
    BY <1>9, <2>1, <2>2 DEF DeleteLoop
<1> QED
  BY <1>1, <1>2, <1>3, <1>4, <1>5, <1>6, <1>7, <1>8, <1>9 DEF SemStep

-----------------------------------------------------------------------------
(* Events.                                                                 *)

LEMMA EventWaitQ ==
  /\ "event" \in WaitQ /\ "event" # Null
  /\ Waits \subseteq [pattern: SUBSET Flag, or: BOOLEAN] /\ \A w \in Waits : w.pattern # {}
  /\ EventAttrs \subseteq [single: BOOLEAN, clr: BOOLEAN]
BY EventAssumption, CoreAssumption

\* Fewer flags release no task that more flags do not release, and no flags none.
LEMMA ReleasedLess ==
  ASSUME NEW w, NEW p, NEW r, r \subseteq p, Released(w, r)
  PROVE  Released(w, p)
BY DEF Released
LEMMA ReleasedNone ==
  ASSUME NEW w, w.pattern # {}
  PROVE  ~Released(w, {}) /\ Released(w, w.pattern)
BY DEF Released

Asks(t) ==
  IF k.pwait[t] # Null THEN k.ewait[t] = asked[t] /\ asked[t].pattern # {}
  ELSE k.rc[t] = "ok" => Released(asked[t], k.ewait[t].pattern)
EventInv ==
  /\ evf \in [pattern: SUBSET Flag, attr: [single: BOOLEAN, clr: BOOLEAN], exists: BOOLEAN]
  /\ ~evf.exists => Waiters = <<>>
  /\ evf.exists => \A i \in 1 .. Len(Waiters) : ~Released(k.ewait[Waiters[i]], evf.pattern)
  /\ asked \in [Task -> [pattern: SUBSET Flag, or: BOOLEAN]]
  /\ \A t \in Task : Inside(pc[t], "event") => Asks(t)

\* What a waiting task has asked for.
LEMMA EventAsks ==
  ASSUME Steady, EventInv, NEW i \in 1 .. Len(Waiters)
  PROVE  LET t == Waiters[i]
         IN  /\ t \in Task /\ k.pwait[t] = "event" /\ Inside(pc[t], "event")
             /\ k.ewait[t] = asked[t] /\ asked[t].pattern # {}
<1> DEFINE t == Waiters[i]
<1>1. t \in Task /\ k.pwait[t] = "event"
  BY EventWaitQ, WaitersDiffer DEF Steady, KInv
<1>2. Inside(pc[t], "event")
  BY <1>1, EventWaitQ, WaitingFacts
<1>3. Asks(t)
  BY <1>1, <1>2 DEF EventInv
<1> QED
  BY <1>1, <1>2, <1>3, EventWaitQ DEF Asks

LEMMA EventMinor ==
  ASSUME Steady, EventInv, Minor("event"), services' = services,
         \A t \in Task : Inside(pc'[t], "event") => asked'[t] = asked[t],
         asked' \in [Task -> [pattern: SUBSET Flag, or: BOOLEAN]],
         evf' \in [pattern: SUBSET Flag, attr: [single: BOOLEAN, clr: BOOLEAN], exists: BOOLEAN],
         ~evf'.exists => Waiters = <<>>,
         evf'.exists => (evf.exists /\ evf'.pattern \subseteq evf.pattern) \/ Waiters = <<>>
  PROVE  EventInv'
<1>1. /\ Waiters' = Waiters /\ \A u \in Task : View(k', k, u)
      /\ \A u \in Task : Inside(pc'[u], "event") => Inside(pc[u], "event")
  BY DEF Minor, Waiters
<1>2. \A t \in Task : Inside(pc'[t], "event") => Asks(t)'
  BY <1>1 DEF EventInv, Asks, View
<1>3. ASSUME evf'.exists, NEW i \in 1 .. Len(Waiters)
      PROVE  ~Released(k'.ewait[Waiters[i]], evf'.pattern)
  <2>1. Waiters # <<>>
    BY <1>3
  <2>2. evf.exists /\ evf'.pattern \subseteq evf.pattern
    BY <2>1, <1>3
  <2>3. ~Released(k.ewait[Waiters[i]], evf.pattern)
    BY <2>2, <1>3 DEF EventInv
  <2>4. k'.ewait[Waiters[i]] = k.ewait[Waiters[i]]
    BY <1>1, <1>3, EventAsks DEF View
  <2> QED
    BY <2>2, <2>3, <2>4, ReleasedLess
<1> QED
  BY <1>1, <1>2, <1>3 DEF EventInv

LEMMA EventFallen ==
  ASSUME Steady, EventInv, NEW w \in Waits, NEW V, V.ewait[k.curr] = w,
         Fallen("event", V), services' = services, evf' = evf,
         evf.exists, ~Released(w, evf.pattern), asked' = [asked EXCEPT ![k.curr] = w]
  PROVE  EventInv'
<1> DEFINE t == k.curr
<1>1. /\ t \in Task /\ Waiters' = Append(Waiters, t) /\ k'.pwait[t] = "event"
      /\ k'.ewait[t] = w /\ pc'[t] = <<"waits", "event">>
      /\ \A u \in Task : u # t => View(k', k, u) /\ pc'[u] = pc[u]
  <2>1. Queues(k)["event"] = Waiters /\ Queues(k')["event"] = Waiters'
    BY DEF Waiters
  <2>2. DOMAIN Queues(k) = WaitQ
    BY DEF Queues
  <2> QED
    BY <2>1, <2>2, EventWaitQ DEF Fallen
<1>2. /\ asked' \in [Task -> [pattern: SUBSET Flag, or: BOOLEAN]] /\ asked'[t] = w
      /\ \A u \in Task : u # t => asked'[u] = asked[u]
  BY <1>1, EventWaitQ DEF EventInv
<1> HIDE DEF t
<1>3. \A u \in Task : Inside(pc'[u], "event") => Asks(u)'
  <2> SUFFICES ASSUME NEW u \in Task, Inside(pc'[u], "event") PROVE Asks(u)'
    OBVIOUS
  <2>1. CASE u = t
    BY <2>1, <1>1, <1>2, EventWaitQ DEF Asks
  <2>2. CASE u # t
    <3>1. Asks(u)
      BY <1>1, <2>2 DEF EventInv
    <3> QED
      BY <3>1, <2>2, <1>1, <1>2 DEF Asks, View
  <2> QED
    BY <2>1, <2>2
<1>s. Waiters \in Seq(Task)
  <2>1. Listed(k.link, k.prio, Runnables(k), Timers(k), Queues(k))
    BY SoundFacts DEF Steady, KInv, Sched
  <2> QED
    BY <2>1, EventWaitQ DEF Listed, WaitLists, Waiters
<1>4. ASSUME NEW i \in 1 .. Len(Waiters') PROVE ~Released(k'.ewait[Waiters'[i]], evf'.pattern)
  <2>1. CASE i \in 1 .. Len(Waiters)
    <3>1. Waiters'[i] = Waiters[i]
      BY <1>1, <1>s, <2>1
    <3>2. Waiters[i] \in Task /\ k.pwait[Waiters[i]] = "event" /\ k.pwait[t] = Null
      BY <2>1, EventAsks DEF Fallen, t
    <3>3. k'.ewait[Waiters[i]] = k.ewait[Waiters[i]]
      BY <3>2, <1>1, EventWaitQ DEF View
    <3> QED
      BY <3>1, <3>3, <2>1 DEF EventInv
  <2>2. CASE i = Len(Waiters) + 1
    <3>1. Waiters'[i] = t
      BY <1>1, <1>s, <2>2
    <3> QED
      BY <3>1, <1>1
  <2>3. Len(Waiters') = Len(Waiters) + 1 /\ Len(Waiters) \in Nat
    BY <1>1, <1>s
  <2> QED
    BY <2>1, <2>2, <2>3
<1> QED
  BY <1>2, <1>3, <1>4 DEF EventInv

\* A set: those that still wait afterwards are not released by the new flags.
LEMMA EventSwept ==
  ASSUME Steady, EventInv, evf.exists, NEW pattern \in SUBSET Flag, NEW wakes \in BOOLEAN,
         Swept(pattern), SetTo(pattern, wakes), UNCHANGED <<asked, services>>
  PROVE  EventInv'
<1>1. /\ \A u \in Task : Untouched(u, pattern) => View(k', k, u)
      /\ \A i \in 1 .. Len(Waiters) : Hit(i, pattern) =>
           /\ ~Waiting(k', Waiters[i]) /\ k'.pwait[Waiters[i]] = Null
           /\ k'.rc[Waiters[i]] = "ok"
           /\ k'.ewait[Waiters[i]] = [k.ewait[Waiters[i]] EXCEPT !.pattern = pattern]
      /\ \A u \in Task : pc'[u] = pc[u] \/ (pc[u][2] = Null /\ pc'[u][2] = Null)
      /\ Steady'
  BY DEF Swept
<1>2. /\ evf' = [evf EXCEPT !.pattern = IF wakes /\ evf.attr.clr THEN {} ELSE pattern]
      /\ evf' \in [pattern: SUBSET Flag, attr: [single: BOOLEAN, clr: BOOLEAN], exists: BOOLEAN]
      /\ evf'.pattern \in {pattern, {}} /\ evf'.exists
  BY DEF SetTo, EventInv
<1>3. \A u \in Task : Inside(pc'[u], "event") => Asks(u)'
  <2> SUFFICES ASSUME NEW u \in Task, Inside(pc'[u], "event") PROVE Asks(u)'
    OBVIOUS
  <2>1. Inside(pc[u], "event") /\ Asks(u)
    <3>1. pc'[u] = pc[u]
      BY <1>1, EventWaitQ DEF Inside
    <3> QED
      BY <3>1 DEF EventInv
  <2>2. CASE Untouched(u, pattern)
    BY <1>1, <2>1, <2>2 DEF Asks, View
  <2>3. CASE ~Untouched(u, pattern)
    <3>1. PICK i \in 1 .. Len(Waiters) : Hit(i, pattern) /\ u = Waiters[i]
      BY <2>3 DEF Untouched
    <3>2. k.ewait[u] = asked[u] /\ Released(k.ewait[u], pattern)
      BY <3>1, EventAsks DEF Hit
    <3>3. k'.pwait[u] = Null /\ k'.ewait[u].pattern = pattern
      <4>1. k.ewait[u] \in [pattern: SUBSET Flag, or: BOOLEAN]
        BY <3>2 DEF EventInv
      <4>2. k'.pwait[u] = Null /\ k'.ewait[u] = [k.ewait[u] EXCEPT !.pattern = pattern]
        BY <3>1, <1>1
      <4>3. [k.ewait[u] EXCEPT !.pattern = pattern].pattern = pattern
        BY <4>1
      <4> QED
        BY <4>2, <4>3
    <3> QED
      BY <3>2, <3>3 DEF Asks
  <2> QED
    BY <2>2, <2>3
<1>4. ASSUME NEW i \in 1 .. Len(Waiters') PROVE ~Released(k'.ewait[Waiters'[i]], evf'.pattern)
  <2> DEFINE J == k'
             t == Queues(J)["event"][i]
  <2>0. Sound(J) /\ i \in 1 .. Len(Queues(J)["event"]) /\ t = Waiters'[i]
    <3>1. Sound(k')
      BY <1>1, SoundNext
    <3>2. Waiters' = Queues(k')["event"]
      BY DEF Waiters
    <3> QED
      BY <3>1, <3>2
  <2> HIDE DEF J
  <2>1. QueueFacts(J, "event", i)
    BY <2>0, EventWaitQ, InQueue
  <2>2. t \in Task /\ J.pwait[t] = "event"
    BY <2>1 DEF QueueFacts, User
  <2> HIDE DEF t
  <2>3. Untouched(t, pattern)
    <3> SUFFICES ASSUME NEW j \in 1 .. Len(Waiters), Hit(j, pattern), t = Waiters[j] PROVE FALSE
      BY DEF Untouched
    <3>1. k'.pwait[t] = Null
      BY <1>1
    <3> QED
      BY <3>1, <2>2, EventWaitQ DEF J
  <2>4. k.pwait[t] = "event" /\ k'.ewait[t] = k.ewait[t]
    BY <1>1, <2>2, <2>3, EventWaitQ DEF View, J
  <2>5. In(Queues(k), "event", t)
    <3>1. OneTask(k, Queues(k), t)
      BY <2>2, SoundFacts DEF Steady, KInv
    <3> QED
      BY <2>4, <3>1, EventWaitQ DEF OneTask
  <2>6. PICK j \in 1 .. Len(Waiters) : t = Waiters[j]
    BY <2>5 DEF In, Waiters
  <2>7. ~Released(k.ewait[t], pattern)
    BY <2>3, <2>6 DEF Untouched, Hit
  <2>8. k.ewait[t].pattern # {}
    BY <2>6, EventAsks
  <2>9. ~Released(k.ewait[t], {})
    BY <2>8, ReleasedNone
  <2> QED
    BY <2>0, <2>4, <2>7, <2>9, <1>2
<1> QED
  BY <1>2, <1>3, <1>4 DEF EventInv

\* A delete: the tasks that still wait do so as before, and the event is no more
\* told apart from one that exists.
LEMMA EventTurned ==
  ASSUME Steady, EventInv, Turned("event"), services' = services, UNCHANGED <<evf, asked>>
  PROVE  EventInv'
<1>0. /\ \A u \in Task : u # k.curr => pc'[u] = pc[u]
      /\ k.curr \in Task /\ ~Inside(pc'[k.curr], "event") /\ Steady'
  BY DEF Turned, Inside, DeletePlaces
<1>1. CASE k' = k
  <2>1. \A t \in Task : Inside(pc'[t], "event") => Asks(t)'
    BY <1>0, <1>1 DEF EventInv, Asks
  <2> QED
    BY <1>1, <2>1 DEF EventInv, Waiters
<1>2. CASE Dropped("event")
  <2> DEFINE t == Queues(k)["event"][1]
  <2>1. /\ t \in Task /\ k.pwait[t] = "event" /\ k'.pwait[t] = Null
        /\ k'.rc[t] = (IF Suspended(k, t) THEN "ok" ELSE "dlt")
        /\ \A u \in Task : u # t => View(k', k, u)
        /\ Waiters' = Without(Waiters, 1) /\ t = Waiters[1] /\ 1 \in 1 .. Len(Waiters)
        /\ k'.ewait[t] = k.ewait[t]
    <3>1. /\ t \in Task /\ k.pwait[t] = "event" /\ k'.pwait[t] = Null
          /\ k'.rc[t] = (IF Suspended(k, t) THEN "ok" ELSE "dlt")
          /\ \A u \in Task : u # t => View(k', k, u)
          /\ Queues(k') = [Queues(k) EXCEPT !["event"] = Without(@, 1)]
          /\ 1 \in 1 .. Len(Queues(k)["event"])
          /\ k'.ewait[t] = k.ewait[t]
      BY <1>2 DEF Dropped
    <3>2. DOMAIN Queues(k) = WaitQ
      BY DEF Queues
    <3>3. Queues(k)["event"] = Waiters /\ Queues(k')["event"] = Waiters'
      BY DEF Waiters
    <3>4. Waiters' = Without(Waiters, 1)
      BY <3>1, <3>2, <3>3, EventWaitQ
    <3> QED
      BY <3>1, <3>3, <3>4
  <2>2. k.ewait[t] = asked[t] /\ asked[t].pattern # {}
    BY <2>1, EventAsks
  <2> HIDE DEF t
  <2>3. \A u \in Task : Inside(pc'[u], "event") => Asks(u)'
    <3> SUFFICES ASSUME NEW u \in Task, Inside(pc'[u], "event") PROVE Asks(u)'
      OBVIOUS
    <3>1. Asks(u)
      BY <1>0 DEF EventInv
    <3>2. CASE u = t
      <4>1. Released(asked[t], k'.ewait[t].pattern)
        BY <2>1, <2>2, ReleasedNone
      <4> QED
        BY <4>1, <3>2, <2>1 DEF Asks
    <3>3. CASE u # t
      BY <2>1, <3>1, <3>3 DEF Asks, View
    <3> QED
      BY <3>2, <3>3
  <2>4. ASSUME evf.exists, NEW i \in 1 .. Len(Waiters') PROVE ~Released(k'.ewait[Waiters'[i]], evf.pattern)
    <3>1. PICK j \in 1 .. Len(Waiters) : j # 1 /\ Waiters'[i] = Waiters[j]
      BY <2>1 DEF Without
    <3>2. Waiters[j] # t
      BY <2>1, <3>1, EventWaitQ, WaitersDiffer DEF Steady, KInv
    <3>3. k'.ewait[Waiters[j]] = k.ewait[Waiters[j]] 
      BY <3>1, <3>2, <2>1, EventAsks DEF View
    <3> QED
      BY <3>1, <3>3, <2>4 DEF EventInv
  <2>5. ~evf.exists => Waiters' = <<>>
    BY <2>1 DEF EventInv
  <2> QED
    BY <2>3, <2>4, <2>5 DEF EventInv
<1> QED
  BY <1>1, <1>2 DEF Turned

\* What every step of the event's services comes to.
EventOwn == Steady' /\ Beside({"event"}) /\ EventInv'
EventType == [pattern: SUBSET Flag, attr: [single: BOOLEAN, clr: BOOLEAN], exists: BOOLEAN]
LEMMA EventQuiet ==
  ASSUME Steady, EventInv, Minor("event"), services' = services, asked' = asked,
         evf' \in EventType, ~evf'.exists => Waiters = <<>>,
         evf'.exists => (evf.exists /\ evf'.pattern \subseteq evf.pattern) \/ Waiters = <<>>
  PROVE  EventOwn
<1>1. EventInv'
  BY EventMinor DEF EventInv, EventType
<1> QED
  BY <1>1, EventWaitQ, MinorBeside DEF EventOwn

LEMMA EventSets ==
  ASSUME Steady, EventInv, NEW flags \in SUBSET Flag, EventSet(flags) \/ EventISet(flags),
         UNCHANGED <<ticks, services>>
  PROVE  EventOwn
<1> DEFINE pattern == evf.pattern \cup flags
           wakes == ScanWakes(k, pattern)
<1>1. pattern \in SUBSET Flag
  BY DEF EventInv
<1>2. wakes \in BOOLEAN
  BY DEF ScanWakes
<1>3. /\ evf.exists /\ SetTo(pattern, wakes) /\ asked' = asked
      /\ \/ Calls("event_set") /\ k' = Scan(k, pattern) /\ SwitchIf(wakes)
         \/ "event_iset" \in services /\ IrqExit(Request(Scan(k, pattern), wakes))
  BY DEF EventSet, EventISet
<1>4. Swept(pattern)
  <2> HIDE DEF pattern
  <2>1. CASE Calls("event_set") /\ k' = Scan(k, pattern) /\ SwitchIf(wakes)
    BY <1>1, <2>1, EventWaitQ, SetStep
  <2>2. CASE "event_iset" \in services /\ IrqExit(Request(Scan(k, pattern), wakes))
    <3>1. services \cap Preempting # {}
      BY <2>2 DEF Preempting
    <3> QED
      BY <1>1, <2>2, <3>1, EventWaitQ, ISetStep
  <2> QED
    BY <1>3, <2>1, <2>2
<1> HIDE DEF pattern, wakes
<1>5. EventInv'
  BY <1>1, <1>2, <1>3, <1>4, EventSwept
<1> QED
  BY <1>4, <1>5, EventWaitQ, SweptBeside DEF EventOwn

LEMMA EventFalls ==
  ASSUME Steady, EventInv, NEW w \in Waits, EventWaits(w, Forever), UNCHANGED <<ticks, services>>
  PROVE  EventOwn
<1> DEFINE V == [k EXCEPT !.ewait[k.curr] = w]
           b == [k.ewait EXCEPT ![k.curr] = w]
<1>0. k \in Kernel /\ k.curr \in Task
  BY SoundFacts DEF Steady, KInv
<1>1. /\ k.elem \in [Task -> Elem \cup {Null}]
      /\ k.ewait \in [Task -> [pattern: SUBSET Flag, or: BOOLEAN]]
  BY <1>0 DEF Kernel
<1>2. /\ b \in [Task -> [pattern: SUBSET Flag, or: BOOLEAN]] /\ b[k.curr] = w
      /\ \A u \in Task : u # k.curr => b[u] = k.ewait[u]
  BY <1>0, <1>1, EventWaitQ
<1>3. V = [k EXCEPT !.elem = V.elem, !.ewait = V.ewait] /\ V.elem = k.elem /\ V.ewait = b
  BY <1>0 DEF Kernel
<1>w. /\ k' = CurrToWait(V, "event", Why("event"), Forever) /\ pc' = Goes(k.curr, "waits", "event")
      /\ Calls("event_wait") /\ "event_wait" \in WaitingServices
      /\ evf.exists /\ ~Released(w, evf.pattern)
      /\ asked' = [asked EXCEPT ![k.curr] = w] /\ evf' = evf
  BY DEF EventWaits, Why, WaitingServices, MayWait
<1> HIDE DEF V, b
<1>4. Written(V) /\ V.ewait[k.curr] = w
  BY <1>1, <1>2, <1>3 DEF Written
<1>5. Fallen("event", V)
  BY <1>4, <1>w, EventWaitQ, WaitStep
<1>6. EventInv'
  BY <1>4, <1>5, <1>w, EventFallen
<1> QED
  BY <1>5, <1>6, EventWaitQ, FallenBeside DEF EventOwn

LEMMA EventStepIs ==
  ASSUME Steady, EventInv, EventTimeouts \subseteq {Forever}, EventStep
  PROVE  EventOwn
<1>0. /\ UNCHANGED <<ticks, services>> /\ evf \in EventType
      /\ ~evf.exists => Waiters = <<>>
  BY DEF EventStep, EventInv, EventType
<1>1. ASSUME NEW w \in Waits, EventTakes(w) PROVE EventOwn
  <2>1. Minor("event")
    BY <1>0, <1>1, StillMinor DEF EventTakes
  <2>2. evf' \in EventType /\ evf'.exists = evf.exists /\ evf'.pattern \subseteq evf.pattern
    BY <1>0, <1>1 DEF EventTakes, Took, EventType
  <2> QED
    BY <1>0, <1>1, <2>1, <2>2, EventQuiet DEF EventTakes
<1>2. ASSUME NEW w \in Waits, NEW timeout \in EventTimeouts, EventWaits(w, timeout) PROVE EventOwn
  <2>1. timeout = Forever
    OBVIOUS
  <2> QED
    BY <1>0, <1>2, <2>1, EventFalls
<1>3. ASSUME NEW flags \in SUBSET Flag, EventSet(flags) \/ EventISet(flags) PROVE EventOwn
  BY <1>0, <1>3, EventSets
<1>4. ASSUME NEW flags \in SUBSET Flag, EventClear(flags) PROVE EventOwn
  <2>1. Minor("event")
    BY <1>0, <1>4, StillMinor DEF EventClear
  <2>2. evf' \in EventType /\ evf'.exists = evf.exists /\ evf'.pattern \subseteq evf.pattern
    BY <1>0, <1>4 DEF EventClear, EventType
  <2> QED
    BY <1>0, <1>4, <2>1, <2>2, EventQuiet DEF EventClear
<1>5. CASE EventReturns
  <2>1. Minor("event") /\ pc' = Goes(k.curr, "user", Null)
    BY <1>0, <1>5, EventWaitQ, ReturnsMinor DEF EventReturns
  <2>2. \A t \in Task : Inside(pc'[t], "event") => t # k.curr
    BY <2>1 DEF Goes, Inside, Steady, KInv
  <2>3. /\ asked' \in [Task -> [pattern: SUBSET Flag, or: BOOLEAN]]
        /\ \A t \in Task : t # k.curr => asked'[t] = asked[t]
    BY <1>5 DEF EventReturns, EventInv, NoEvent
  <2>4. EventInv'
    BY <1>0, <1>5, <2>1, <2>2, <2>3, EventMinor DEF EventReturns, EventInv
  <2> QED
    BY <2>1, <2>4, EventWaitQ, MinorBeside DEF EventOwn
<1>6. ASSUME NEW attr \in EventAttrs, EventCreate(attr) PROVE EventOwn
  <2>1. Waiters = <<>> /\ Sound(k)
    BY <1>0, <1>6 DEF EventCreate, Steady, KInv
  <2>2. k' = k
    BY <1>6, <2>1, EventWaitQ, ResetEmpty DEF EventCreate, Waiters
  <2>3. Minor("event")
    BY <1>0, <1>6, <2>2, StillMinor DEF EventCreate
  <2>4. evf' \in EventType
    BY <1>6, EventWaitQ DEF EventCreate, NewEvent, EventType
  <2> QED
    BY <1>0, <1>6, <2>1, <2>3, <2>4, EventQuiet DEF EventCreate
<1>7. CASE EventDelete /\ asked' = asked
  <2>1. Minor("event")
    BY <1>0, <1>7, EventWaitQ, DeleteBegins DEF EventDelete, Deleter
  <2> QED
    BY <1>0, <1>7, <2>1, EventQuiet DEF EventDelete
<1>8. CASE EventDeleteEnds /\ asked' = asked
  <2>1. Minor("event") /\ Waiters = <<>>
    BY <1>0, <1>8, EventWaitQ, DeleteOver DEF EventDeleteEnds, Waiters
  <2>2. evf' \in EventType
    BY <1>0, <1>8 DEF EventDeleteEnds, EventType
  <2> QED
    BY <1>0, <1>8, <2>1, <2>2, EventQuiet
<1>9. CASE (WaitSwitches("event") \/ DeleteLoop("event", WithoutFirst("event"))) /\ UNCHANGED <<evf, asked>>
  <2>1. CASE WaitSwitches("event") \/ DeleteSwitches("event")
    <3>1. Minor("event")
      BY <1>0, <2>1, EventWaitQ, SwitchesMinor
    <3> QED
      BY <1>0, <1>9, <3>1, EventQuiet
  <2>2. CASE DeleteTests("event") \/ DeleteTakes("event", WithoutFirst("event"))
    <3>1. Turned("event")
      BY <1>0, <2>2, EventWaitQ, TestsStep, TakeStep
    <3>2. EventInv'
      BY <1>0, <1>9, <3>1, EventTurned
    <3> QED
      BY <3>1, <3>2, EventWaitQ, TurnedBeside DEF EventOwn
  <2> QED
    BY <1>9, <2>1, <2>2 DEF DeleteLoop
<1> QED
  BY <1>1, <1>2, <1>3, <1>4, <1>5, <1>6, <1>7, <1>8, <1>9 DEF EventStep

=============================================================================
