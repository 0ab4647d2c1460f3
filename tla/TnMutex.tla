------------------------------ MODULE TnMutex -------------------------------
(***************************************************************************)
(* The mutexes of src/TNKernel/tn_mutex.c, of either protocol: priority    *)
(* inheritance and priority ceiling.  What a lock and an unlock do to the  *)
(* tasks' priorities is in TnCore; holder and attr are in the kernel's     *)
(* data there, because the task services use them too.                     *)
(***************************************************************************)
EXTENDS TnObject

CONSTANT MutexTimeouts
ASSUME MutexAssumption == MutexTimeouts \subseteq Timeouts \cup {Forever}

VARIABLE mutexes     \* those that exist: id_mutex = TN_ID_MUTEX

MutexInit == mutexes = Mutex

(* tn_mutex_create                                                         *)
MutexCreate(m, attr) ==
  /\ Calls("mutex_create") /\ m \notin mutexes
  /\ k' = [k EXCEPT !.link = Reset(Reset(Reset(@, Wait(m)), Mq(m)), Lq(m)),
                    !.attr[m] = attr, !.holder[m] = Null]
  /\ mutexes' = mutexes \cup {m}
  /\ UNCHANGED pc

(* tn_mutex_lock and tn_mutex_lock_polling: the caller may ask for it, and *)
(* can have it at once.  A program without "mutex_nest" holds one mutex at *)
(* a time.                                                                 *)
Ceiling(m) == k.attr[m] = "ceiling"
MayLock(m) ==
  /\ m \in mutexes /\ k.holder[m] # k.curr
  /\ Ceiling(m) => Base[k.curr] >= Ceil[m]
  /\ "mutex_nest" \in services \/ IsEmpty(k.link, Held(k.curr))
Locks(m) ==
  /\ Calls("mutex_lock") /\ MayLock(m) /\ k.holder[m] = Null
  /\ Ceiling(m) => EnableLock(k, k.curr)
  /\ k' = Grant(k, m, k.curr)
  /\ UNCHANGED pc

(* The task that stands in the way gets the caller's priority, if higher.  *)
Raised(h) ==
  IF h # Null /\ k.prio[k.curr] < k.prio[h] THEN SetPriority(k, h, k.prio[k.curr])
  ELSE k

(* tn_mutex_lock: the mutex has a holder ...                               *)
LockWaits(m, timeout) ==
  /\ Calls("mutex_lock") /\ MayLock(m) /\ k.holder[m] # Null
  /\ k' = CurrToWait(Raised(k.holder[m]), m,
                     IF Ceiling(m) THEN "mutex_c" ELSE "mutex_i", timeout)
  /\ pc' = Goes(k.curr, "waits", m)

(* ... or another ceiling mutex is in the way.                             *)
LockBlocked(m, timeout) ==
  LET b == Blocker(k, k.curr)
      K == [Raised(b) EXCEPT !.link = AddTail(@, Blocked, Bq(k.curr)),
                             !.blk[k.curr] = b]
  IN  /\ Calls("mutex_lock") /\ MayLock(m) /\ k.holder[m] = Null
      /\ Ceiling(m) /\ ~EnableLock(k, k.curr)
      /\ k' = CurrToWait(K, m, "mutex_c_blk", timeout)
      /\ pc' = Goes(k.curr, "waits", m)

(* tn_mutex_unlock                                                         *)
Unlock(m) ==
  LET u == DoUnlock(k, m) IN
  /\ Calls("mutex_unlock") /\ m \in mutexes /\ k.holder[m] = k.curr
  /\ k' = u.k /\ SwitchIf(u.need)

(* tn_mutex_delete: its start, a turn of its loop, and what follows.  The  *)
(* holder's priority stays as it is.  The application deletes a mutex once:*)
(* a second task that has come in would unlink the mutex a second time.    *)
MutexDelete(m) ==
  /\ Calls("mutex_delete") /\ m \in mutexes
  /\ \A t \in Task : pc[t][2] = m => Place(t) \in {"waits", "waited"}
  /\ pc' = Goes(k.curr, "delTest", m)
  /\ UNCHANGED <<k, mutexes>>
DeleteTakesOf(m) ==
  [WithoutFirst(m) EXCEPT !.link = Unblocked(@, First(m))]
MutexDeleteEnds(m) ==
  /\ DeleteLoopOver(m)
  /\ k' = [k EXCEPT !.link = IF k.holder[m] = Null THEN @
                             ELSE RemoveEntry(RemoveEntry(@, Mq(m)), Lq(m))]
  /\ mutexes' = mutexes \ {m}
  /\ pc' = Goes(k.curr, "user", Null)

MutexStep ==
  /\ \E m \in Mutex :
       \/ MutexDelete(m) \/ MutexDeleteEnds(m)
       \/ \E attr \in {"inherit", "ceiling"} : MutexCreate(m, attr)
       \/ /\ \/ Locks(m) \/ Unlock(m)
             \/ \E timeout \in MutexTimeouts :
                  LockWaits(m, timeout) \/ LockBlocked(m, timeout)
             \/ WaitSwitches(m) \/ WaitReturns(m) \/ DeleteLoop(m, DeleteTakesOf(m))
          /\ UNCHANGED mutexes
  /\ UNCHANGED <<ticks, services>>

-----------------------------------------------------------------------------
HeldBy(t) == {m \in mutexes : k.holder[m] = t}
WaitsForMutex(t) == Waiting(k, t) /\ k.reason[t] \in ByMutex
InTheWay(t) == IF k.reason[t] = "mutex_c_blk" THEN k.blk[t] ELSE k.holder[k.pwait[t]]

\* The lists of mutexes and of the tasks that wait for them.
MutexListsHold ==
  Mutex # {} =>
    /\ \A t \in Task :
         /\ WellFormed(k.link, Held(t))
         /\ ToSet(Entries(k, Held(t))) = {Mq(m) : m \in HeldBy(t)}
    /\ WellFormed(k.link, Locked) /\ WellFormed(k.link, Blocked)
    /\ ToSet(Entries(k, Locked)) =
         {Lq(m) : m \in {n \in mutexes : Ceiling(n) /\ k.holder[n] # Null}}
    /\ ToSet(Entries(k, Blocked)) =
         {Bq(t) : t \in {u \in Task : WaitsForMutex(u) /\ k.reason[u] = "mutex_c_blk"}}
    /\ \A m \in Mutex : HoldsWaiters(m, ByMutex)
    /\ \A t \in Task : WaitsForMutex(t) => InTheWay(t) \in Task \ {t}

\* Unless the application changes priorities itself, or deletes a mutex: the
\* holder keeps what it got.
GivenBack ==
  {"change_priority", "mutex_delete"} \cap services = {} =>
    \A t \in Task : k.prio[t] # Base[t] => HeldBy(t) # {}

(* Each mutex is in the list of the task that holds it and of no other,    *)
(* the locked and the blocked list hold what tn.c says they hold, and the  *)
(* tasks that wait for a mutex are in its queue, while somebody is in      *)
(* their way.  An inherited priority is given back: a task runs above its  *)
(* base priority only while it holds a mutex.                              *)
MutexHolds == MutexListsHold /\ GivenBack

(* "If we have task A that is waiting for mutex M1 ... a task B that holds *)
(* mutex M1 now, also needs priority's changing.  Then, if a task B now is *)
(* waiting for mutex M2, the same procedure" (tn_tasks.c:877): a task that *)
(* begins to wait for a mutex raises the tasks that may run behind it, at  *)
(* whatever length of the chain, to its own priority at least.             *)
Behind(t) ==
  LET after(S) == S \cup {InTheWay(u) : u \in {v \in S : WaitsForMutex(v)}}
      chain[n \in Nat] == IF n = 0 THEN {t} ELSE after(chain[n - 1]) \cap Task
  IN  chain[Cardinality(Task)]
RaisesChain ==
  [][\A t \in Task : ~WaitsForMutex(t) /\ WaitsForMutex(t)' =>
       \A u \in Behind(t)' : k'.state[u] = "runnable" => k'.prio[u] <= k.prio[t]]_<<k, mutexes>>

(* What the ceiling protocol is for (the paper cited at tn_mutex.c:35):    *)
(* tasks that take ceiling mutexes in any order never wait for each other  *)
(* in a circle.                                                            *)
CeilingNoDeadlock ==
  LET after(S) == {InTheWay(t) : t \in {u \in S : WaitsForMutex(u)}}
      chain[n \in Nat] == IF n = 0 THEN Task ELSE after(chain[n - 1] \cap Task)
  IN  (\A m \in Mutex : Ceiling(m)) => chain[Cardinality(Task)] = {}
=============================================================================
