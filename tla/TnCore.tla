------------------------------- MODULE TnCore -------------------------------
(***************************************************************************)
(* The data of TNKernel and the functions its services are built from      *)
(* (src/TNKernel/tn_tasks.c, tn_mutex.c "Routines", tn.h).  Each function  *)
(* takes the kernel's data K and gives it back as the code leaves it.      *)
(***************************************************************************)
EXTENDS TnList, SequencesExt

CONSTANTS
  Task, Idle, \* the tasks and, one of them, the idle task
  Base,       \* base_priority of each task
  NumPrio,    \* the idle task's priority; 1 is the highest a user task has
  WaitQ,      \* the wait queues of the objects
  Mutex,      \* the mutexes, each named like its wait queue
  Ceil,       \* ceil_priority of each mutex
  Forever,    \* TN_WAIT_INFINITE
  Wild,       \* what get_task_by_... makes of a list head
  Null,       \* the null pointer
  Elem,       \* what data_elem may point to
  Flag        \* the bits of an event's pattern

User == Task \ {Idle}
Prio == 1..NumPrio

ASSUME CoreAssumption ==
  /\ IsFiniteSet(Task) /\ IsFiniteSet(WaitQ)
  /\ NumPrio \in Nat \ {0} /\ Base \in [Task -> Prio]
  /\ Idle \in Task /\ Base[Idle] = NumPrio
  /\ \A u \in User : Base[u] < NumPrio
  /\ Mutex \subseteq WaitQ /\ Ceil \in [Mutex -> 1..NumPrio - 1]
  /\ Forever \notin Nat /\ {Wild, Null} \cap (Task \cup Elem \cup WaitQ) = {}
  /\ Wild # Null

(* The CDLL_QUEUEs in memory.                                              *)
Ready(p) == <<"ready", p>>           \* tn_ready_list[p]
TimeoutList == <<"timeout", 0>>      \* tn_wait_timeout_list
Locked == <<"locked", 0>>            \* tn_locked_mutexes_list
Blocked == <<"blocked", 0>>          \* tn_blocked_tasks_list
Wait(q) == <<"wait", q>>             \* wait_queue of an object
Held(t) == <<"held", t>>             \* mutex_queue of a TCB: the mutexes it holds
Tq(t) == <<"tq", t>>                 \* task_queue of a TCB
Tm(t) == <<"tm", t>>                 \* timer_queue of a TCB
Bq(t) == <<"bq", t>>                 \* block_queue of a TCB
Mq(m) == <<"mq", m>>                 \* mutex_queue of a mutex
Lq(m) == <<"lq", m>>                 \* lock_mutex_queue of a mutex
Heads == {Ready(p) : p \in Prio} \cup {TimeoutList} \cup {Wait(q) : q \in WaitQ}
           \cup IF Mutex = {} THEN {} ELSE {Locked, Blocked} \cup {Held(t) : t \in Task}
Node == Heads \cup {Tq(t) : t \in Task} \cup {Tm(t) : t \in Task}
          \cup IF Mutex = {} THEN {} ELSE {Bq(t) : t \in Task}
          \cup {Mq(m) : m \in Mutex} \cup {Lq(m) : m \in Mutex}

(* get_task_by_tsk_queue and the like are pointer arithmetic: given a head *)
(* they yield an address that is no TCB.                                   *)
TaskOf(n) == IF n[1] \in {"tq", "tm", "bq"} THEN n[2] ELSE Wild

State == {"runnable", "wait", "suspend", "waitsusp", "dormant"}
ByMutex == {"mutex_i", "mutex_c", "mutex_c_blk"}
Reason == {"none", "sleep", "sem", "wsend", "wreceive", "event", "wfixmem"} \cup ByMutex
Rc == {"ok", "timeout", "dlt"}

Kernel == [state: [Task -> State], prio: [Task -> Prio],
           reason: [Task -> Reason], rc: [Task -> Rc],
           pwait: [Task -> WaitQ \cup {Null}], blk: [Task -> Task \cup {Null}],
           tick: [Task -> Nat \cup {Forever}],
           slice: [Task -> Nat], wakeup: [Task -> 0..1],
           activate: [Task -> 0..1], exists: [Task -> BOOLEAN],
           elem: [Task -> Elem \cup {Null}],
           ewait: [Task -> [pattern: SUBSET Flag, or: BOOLEAN]],
           holder: [Mutex -> Task \cup {Null}],
           attr: [Mutex -> {"inherit", "ceiling"}],
           link: [Node -> [next: Node, prev: Node]], bmp: SUBSET Prio,
           next: Task, curr: Task, request: BOOLEAN]

Waiting(K, t) == K.state[t] \in {"wait", "waitsusp"}
Suspended(K, t) == K.state[t] \in {"suspend", "waitsusp"}
NoEvent == [pattern |-> {}, or |-> FALSE]

Entries(K, q) == Walk(K.link, q)
Members(K, q) == LET s == Entries(K, q) IN {s[i] : i \in DOMAIN s}
Crash(K) == [K EXCEPT !.next = Wild]

-----------------------------------------------------------------------------
(* task_set_dormant_state                                                  *)
Dormant(K, t) ==
  LET own == {Tq(t), Tm(t), Bq(t), Held(t)}
  IN  [K EXCEPT !.link = [n \in Node |-> IF n \in own THEN [next |-> n, prev |-> n]
                                         ELSE @[n]],
                !.pwait[t] = Null, !.blk[t] = Null, !.prio[t] = Base[t],
                !.state[t] = "dormant", !.reason[t] = "none", !.rc[t] = "ok",
                !.ewait[t] = NoEvent, !.elem[t] = Null,
                !.tick[t] = Forever, !.wakeup[t] = 0, !.slice[t] = 0]

(* find_next_task_to_run: the lowest bit of the map, the head of its list. *)
FindNext(K) ==
  LET p == CHOOSE p \in K.bmp : \A r \in K.bmp : p <= r
  IN  [K EXCEPT !.next = IF K.bmp = {} THEN Wild
                         ELSE TaskOf(K.link[Ready(p)].next)]

(* task_to_non_runnable: the task leaves the list of its priority p ...    *)
Unlinked(K, t) == [K EXCEPT !.link = RemoveEntry(@, Tq(t))]
LeavesKeepsBit(K, t, p) ==         \* mutant: the bit is not cleared
  IF IsEmpty(K.link, Ready(p)) THEN FindNext(K)
  ELSE IF K.next = t THEN [K EXCEPT !.next = TaskOf(K.link[Ready(p)].next)]
  ELSE K

(* ... and the next task is chosen again if need be.                       *)
Leaves(K, t, p) ==
  IF IsEmpty(K.link, Ready(p)) THEN FindNext([K EXCEPT !.bmp = @ \ {p}])
  ELSE IF K.next = t THEN [K EXCEPT !.next = TaskOf(K.link[Ready(p)].next)]
  ELSE K
ToNonRunnable(K, t) == Leaves(Unlinked(K, t), t, K.prio[t])

ToRunnableLater(K, t) ==           \* mutant: next_task_to_run is kept
  [K EXCEPT !.state[t] = "runnable",
            !.link = AddTail(@, Ready(K.prio[t]), Tq(t)),
            !.bmp = @ \cup {K.prio[t]}, !.next = IF @ = Wild THEN t ELSE @]

(* task_to_runnable                                                        *)
ToRunnable(K, t) ==
  LET p == K.prio[t]
  IN  [K EXCEPT !.state[t] = "runnable", !.link = AddTail(@, Ready(p), Tq(t)),
                !.bmp = @ \cup {p},
                !.next = IF @ = Wild THEN t ELSE IF p < K.prio[@] THEN t ELSE @]

(* change_running_task_priority: the task moves to the list of p ...       *)
Moved(K, t, old, p) ==
  [K EXCEPT !.prio[t] = p, !.link = AddTail(@, Ready(p), Tq(t)),
            !.bmp = (IF IsEmpty(K.link, Ready(old)) THEN @ \ {old} ELSE @) \cup {p}]

(* ... and a switch is asked for when next changes.                        *)
Rechosen(K, t, old, p) ==
  IF K.next = t THEN IF p >= old THEN FindNext(K) ELSE K
  ELSE IF p < K.prio[K.next] THEN [K EXCEPT !.next = t] ELSE K
ChangeRunning(K, t, p) ==
  Rechosen(Moved(Unlinked(K, t), t, K.prio[t], p), t, K.prio[t], p)

(* task_curr_to_wait_action; wait_que is Null for a sleep.                 *)
CurrToWait(K, wait_que, reason, timeout) ==
  LET t == K.curr
      queued(L) == IF wait_que = Null THEN L ELSE AddTail(L, Wait(wait_que), Tq(t))
      timed(L)  == IF timeout = Forever THEN L ELSE AddTail(L, TimeoutList, Tm(t))
  IN  [ToNonRunnable(K, t) EXCEPT
         !.state[t] = "wait", !.reason[t] = reason, !.tick[t] = timeout,
         !.pwait[t] = IF wait_que = Null THEN @ ELSE wait_que,
         !.link = timed(queued(@))]

-----------------------------------------------------------------------------
(* Priorities and mutexes.                                                 *)

Lesser(a, b) == IF a < b THEN a ELSE b
(* find_max_blocked_priority: of the tasks that wait for mutex m.          *)
FindMaxBlocked(K, m, ref) ==
  FoldLeft(LAMBDA p, n : Lesser(p, K.prio[TaskOf(n)]), ref, Entries(K, Wait(m)))

SetTurnOneLink(first, s) ==        \* mutant: the chain is not followed
  LET K == s.k  c == s.task
      ends(K1) == [s EXCEPT !.k = K1, !.task = Null]
  IN  IF c = Null THEN s
      ELSE IF K.state[c] = "runnable" THEN ends(ChangeRunning(K, c, s.p))
      ELSE ends(K)

(* One turn of the loop of set_current_priority, which follows the tasks   *)
(* that block one another; s is [k, task: curr_task, p: new_priority].     *)
(* A task that waits for a mutex keeps its own priority.                   *)
SetTurn(first, s) ==
  LET K == s.k  c == s.task
      m == K.pwait[c]
      blocker == IF K.reason[c] = "mutex_c_blk" THEN K.blk[c] ELSE K.holder[m]
      ends(K1) == [s EXCEPT !.k = K1, !.task = Null]
  IN  IF c = Null THEN s
      ELSE IF K.prio[c] = s.p THEN ends(K)
      ELSE IF K.state[c] = "runnable" THEN ends(ChangeRunning(K, c, s.p))
      ELSE IF ~(Waiting(K, c) /\ K.reason[c] \in ByMutex)
        THEN ends([K EXCEPT !.prio[first] = s.p])
      ELSE IF blocker = Null THEN ends(Crash(K))
      ELSE [s EXCEPT !.task = blocker,
                     !.p = IF K.prio[c] < s.p THEN FindMaxBlocked(K, m, Base[blocker])
                           ELSE @]

(* set_current_priority.  The bound is one turn for each task and each     *)
(* change of new_priority; a loop that is not over then has no end.        *)
Settled(s) == IF s.task = Null THEN s.k ELSE Crash(s.k)
SetPriority(K, t, p) ==
  Settled(FoldLeft(LAMBDA a, i : SetTurn(t, a), [k |-> K, task |-> t, p |-> p],
                   [i \in 1..Cardinality(Task) * NumPrio |-> i]))

(* task_wait_complete: the task is no longer in the timeout list, but      *)
(* nothing takes it out of a wait list, whoever calls this has to.  When   *)
(* it waited for a mutex, its holder's priority is determined anew.        *)
WaitEnds(K, t) ==
  LET K1 == [K EXCEPT !.reason[t] = "none", !.pwait[t] = Null, !.rc[t] = "ok",
                      !.link = IF K.tick[t] = Forever THEN @
                               ELSE RemoveEntry(@, Tm(t)),
                      !.tick[t] = Forever]
  IN  IF Suspended(K, t) THEN [K1 EXCEPT !.state[t] = "suspend"]
      ELSE ToRunnable(K1, t)

(* The reason has been overwritten by then, so blk_task is never used.     *)
Disinherits(K, t, m, h) ==
  IF h = Null THEN K
  ELSE IF K.prio[h] # Base[h] /\ K.prio[h] = K.prio[t]
    THEN SetPriority(K, h, FindMaxBlocked(K, m, Base[h]))
    ELSE K

WaitCompleteKeepsTimer(K, t) ==    \* mutant: stays in the timeout list
  LET K1 == [K EXCEPT !.reason[t] = "none", !.pwait[t] = Null, !.rc[t] = "ok",
                      !.tick[t] = Forever]
  IN  IF Suspended(K, t) THEN [K1 EXCEPT !.state[t] = "suspend"]
      ELSE ToRunnable(K1, t)

WaitComplete(K, t) ==
  IF t = Wild THEN Crash(K)
  ELSE IF K.reason[t] \notin ByMutex THEN WaitEnds(K, t)
  ELSE Disinherits(WaitEnds(K, t), t, K.pwait[t], K.holder[K.pwait[t]])

(* Its result: the task became runnable, or another one has to run.        *)
Wakes(K, t) ==
  t # Wild /\ (~Suspended(K, t) \/ WaitComplete(K, t).next # WaitEnds(K, t).next)

(* enable_lock_mutex: task t may lock a ceiling mutex; otherwise the one   *)
(* that blocks it.                                                         *)
LockedAbove(K, t) ==
  SelectSeq(Entries(K, Locked),
            LAMBDA n : /\ K.attr[n[2]] = "ceiling" /\ K.holder[n[2]] # t
                       /\ Ceil[n[2]] < K.prio[t])
EnableLock(K, t) == LockedAbove(K, t) = <<>>
Blocker(K, t) ==
  LET above == LockedAbove(K, t)
      i == CHOOSE i \in DOMAIN above :
             /\ \A j \in DOMAIN above : Ceil[above[j][2]] <= Ceil[above[i][2]]
             /\ \A j \in 1..i - 1 : Ceil[above[j][2]] < Ceil[above[i][2]]
  IN  IF above = <<>> THEN Null ELSE K.holder[above[i][2]]

(* The task gets the mutex: its list, and that of all locked ones.         *)
Grant(K, m, t) ==
  LET L == AddTail(K.link, Held(t), Mq(m))
  IN  [K EXCEPT !.holder[m] = t,
                !.blk[t] = IF K.attr[m] = "ceiling" THEN Null ELSE @,
                !.link = IF K.attr[m] = "ceiling" THEN AddTail(L, Locked, Lq(m)) ELSE L]

(* remove_task_from_blocked_list                                           *)
Unblocked(L, t) == IF InList(L, Blocked, Bq(t)) THEN RemoveEntry(L, Bq(t)) ELSE L

(* A task whose wait for mutex m is over; need: a switch is needed.        *)
Give(K, m, t) ==
  [k |-> Grant(WaitComplete(K, t), m, t), need |-> Wakes(K, t)]

TryLockKeepsBlocked(s, t) ==       \* mutant: it stays in the blocked list
  LET m == s.k.pwait[t]
  IN  IF s.k.holder[m] = Null /\ EnableLock(s.k, t)
      THEN [Give(Unlinked(s.k, t), m, t) EXCEPT !.need = @ \/ s.need]
      ELSE s

(* try_lock_mutex, for a task of tn_blocked_tasks_list; s is [k, need].    *)
TryLock(s, t) ==
  LET m == s.k.pwait[t]
      K == [Unlinked(s.k, t) EXCEPT !.link = RemoveEntry(@, Bq(t))]
  IN  IF s.k.holder[m] = Null /\ EnableLock(s.k, t)
      THEN [Give(K, m, t) EXCEPT !.need = @ \/ s.need]
      ELSE s

(* do_unlock_mutex.  First the mutex leaves its lists, and the priority of *)
(* the running task is set, whoever the mutex is taken from ...            *)
Unlisted(K, m) == [K EXCEPT !.link = RemoveEntry(RemoveEntry(@, Mq(m)), Lq(m))]
PriorityLeft(K) ==
  FoldLeft(LAMBDA p, n : FindMaxBlocked(K, n[2], p), Base[K.curr],
           Entries(K, Held(K.curr)))
LowersPriority(K) ==
  IF IsEmpty(K.link, Held(K.curr)) \/ PriorityLeft(K) # K.prio[K.curr]
  THEN SetPriority(K, K.curr, PriorityLeft(K)) ELSE K

(* ... then the next holder: the first in the queue ...                    *)
HandOnInherit(K, m) ==
  Give([K EXCEPT !.link = RemoveHead(@, Wait(m))], m, TaskOf(K.link[Wait(m)].next))

(* ... or, with a ceiling, the first of the highest priority, if it may    *)
(* lock it.  If it may not, the mutex keeps its holder.                    *)
Top(K, m) ==
  LET w == Entries(K, Wait(m))
      i == CHOOSE i \in DOMAIN w :
             /\ \A j \in DOMAIN w : K.prio[TaskOf(w[i])] <= K.prio[TaskOf(w[j])]
             /\ \A j \in 1..i - 1 : K.prio[TaskOf(w[i])] < K.prio[TaskOf(w[j])]
  IN  TaskOf(w[i])
HandOnCeiling(K, m, t) ==
  IF EnableLock(K, t)
  THEN Give([K EXCEPT !.link = Unblocked(RemoveEntry(@, Tq(t)), t)], m, t)
  ELSE [k |-> IF InList(K.link, Blocked, Bq(t)) THEN K
              ELSE [K EXCEPT !.link = AddTail(@, Blocked, Bq(t)),
                             !.reason[t] = "mutex_c_blk", !.blk[t] = Blocker(K, t)],
        need |-> FALSE]

(* ... or nobody, and the other tasks that could not lock a mutex try      *)
(* again.  With none of them the code takes the list's head for a TCB;     *)
(* with the globals in the order of tn.c its pwait_queue is                *)
(* tn_tslice_ticks[8..9], 0, and what the holder of a mutex at address 0   *)
(* is read from is a vector, not NULL: nothing happens.                    *)
UnlockOthers(K) ==
  FoldLeft(LAMBDA s, n : IF n = Bq(K.curr) THEN s ELSE TryLock(s, n[2]),
           [k |-> K, need |-> FALSE], Entries(K, Blocked))

HandOn(K, m) ==
  IF IsEmpty(K.link, Wait(m))
  THEN IF K.attr[m] = "ceiling" THEN UnlockOthers([K EXCEPT !.holder[m] = Null])
       ELSE [k |-> [K EXCEPT !.holder[m] = Null], need |-> FALSE]
  ELSE IF K.attr[m] = "ceiling" THEN HandOnCeiling(K, m, Top(K, m))
  ELSE HandOnInherit(K, m)

(* A switch is needed, too, when the running task's priority changed next. *)
DoUnlockFrom(K, m, next) == [HandOn(K, m) EXCEPT !.need = @ \/ K.next # next]
DoUnlock(K, m) == DoUnlockFrom(LowersPriority(Unlisted(K, m)), m, K.next)

(* tn_task_exit and tn_task_terminate unlock all mutexes of a task.        *)
UnlockAll(K, t) ==
  IF Mutex = {} THEN K
  ELSE FoldLeft(LAMBDA K1, n : DoUnlock([K1 EXCEPT !.link = RemoveHead(@, Held(t))],
                                        n[2]).k,
                K, Entries(K, Held(t)))
=============================================================================
