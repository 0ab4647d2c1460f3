------------------------------ MODULE TnEvent -------------------------------
(***************************************************************************)
(* One event of src/TNKernel/tn_event.c: a pattern of flags, and tasks     *)
(* that wait until any (OR) or all (AND) of some flags are set.            *)
(***************************************************************************)
EXTENDS TnObject

CONSTANTS
  EventAttrs,     \* the attributes an event may be created with
  Waits,          \* the pairs of wait_pattern and mode tasks wait with
  EventTimeouts
ASSUME EventAssumption ==
  /\ EventAttrs \subseteq [single: BOOLEAN, clr: BOOLEAN]
  /\ \A a \in EventAttrs : a.clr => a.single          \* tn_event_create
  /\ Waits \subseteq [pattern: (SUBSET Flag) \ {{}}, or: BOOLEAN]
  /\ "event" \in WaitQ /\ EventTimeouts \subseteq Timeouts \cup {Forever}

VARIABLES
  evf,    \* pattern, attr, exists: id_event
  asked   \* history: what a task that is in tn_event_wait has waited for

(* tn_event_create, with no flag set.                                      *)
NewEvent(attr) == [pattern |-> {}, attr |-> attr, exists |-> TRUE]
EventInit ==
  /\ evf = [NewEvent([single |-> FALSE, clr |-> FALSE]) EXCEPT !.exists = FALSE]
  /\ asked = [t \in Task |-> NoEvent]
EventCreate(attr) ==
  /\ Calls("event_create") /\ ~evf.exists
  /\ k' = [k EXCEPT !.link = Reset(@, Wait("event"))]
  /\ evf' = NewEvent(attr)
  /\ UNCHANGED <<pc, asked>>

(* The release condition.                                                  *)
Released(w, pattern) ==
  IF w.or THEN pattern \cap w.pattern # {} ELSE w.pattern \subseteq pattern

(* A wait is legal: with TN_EVENT_ATTR_SINGLE one task waits at most.      *)
MayWait == evf.exists /\ ~(evf.attr.single /\ ~NoWaiters("event"))
Took == evf' = [evf EXCEPT !.pattern = IF evf.attr.clr THEN {} ELSE @]

(* tn_event_wait, tn_event_wait_polling and tn_event_iwait, released at once.*)
EventTakes(w) ==
  /\ Calls("event_wait") \/ ("event_iwait" \in services /\ Enabled)
  /\ MayWait /\ Released(w, evf.pattern)
  /\ Took
  /\ UNCHANGED <<k, pc, asked>>

(* tn_event_wait ...                                                       *)
EventWaits(w, timeout) ==
  /\ Calls("event_wait") /\ MayWait /\ ~Released(w, evf.pattern)
  /\ k' = CurrToWait([k EXCEPT !.ewait[k.curr] = w], "event", "event", timeout)
  /\ pc' = Goes(k.curr, "waits", "event")
  /\ asked' = [asked EXCEPT ![k.curr] = w]
  /\ UNCHANGED evf

(* ... and its return: ewait_pattern is what it reports when rc is "ok".   *)
EventReturns ==
  /\ WaitReturns("event") /\ asked' = [asked EXCEPT ![k.curr] = NoEvent]
  /\ UNCHANGED evf

(* scan_event_waitqueue: every task whose condition holds is released, and *)
(* its ewait_pattern becomes the pattern that released it.                 *)
ScanEntryFirst(K, n, pattern) ==   \* mutant: it does not go on
  IF n # k.link[Wait("event")].next THEN K
  ELSE LET t == TaskOf(n)
           K1 == [K EXCEPT !.link = RemoveEntry(@, n), !.ewait[t].pattern = pattern]
       IN  IF Released(K.ewait[t], pattern) THEN WaitComplete(K1, t) ELSE K
ScanEntryAny(K, n, pattern) ==     \* mutant: one of the flags is enough
  LET t == TaskOf(n)
      K1 == [K EXCEPT !.link = RemoveEntry(@, n), !.ewait[t].pattern = pattern]
  IN  IF K.ewait[t].pattern \cap pattern # {} THEN WaitComplete(K1, t) ELSE K
ScanEntry(K, n, pattern) ==
  LET t == TaskOf(n)
      K1 == [K EXCEPT !.link = RemoveEntry(@, n), !.ewait[t].pattern = pattern]
  IN  IF Released(K.ewait[t], pattern) THEN WaitComplete(K1, t) ELSE K
Scanned(K, pattern, w) ==
  LET after[n \in 0..Len(w)] == IF n = 0 THEN K ELSE ScanEntry(after[n - 1], w[n], pattern)
  IN  after[Len(w)]
Scan(K, pattern) == Scanned(K, pattern, Entries(K, Wait("event")))
ScanWakes(K, pattern) ==
  \E i \in DOMAIN Entries(K, Wait("event")) :
    LET t == TaskOf(Entries(K, Wait("event"))[i])
    IN  Released(K.ewait[t], pattern) /\ Wakes(K, t)

(* The pattern after a set: CLR clears it when a task became runnable.     *)
SetTo(pattern, wakes) ==
  evf' = [evf EXCEPT !.pattern = IF wakes /\ evf.attr.clr THEN {} ELSE pattern]

(* tn_event_set                                                            *)
EventSet(flags) ==
  LET pattern == evf.pattern \cup flags
      wakes == ScanWakes(k, pattern)
  IN  /\ Calls("event_set") /\ evf.exists
      /\ k' = Scan(k, pattern) /\ SetTo(pattern, wakes) /\ SwitchIf(wakes)
      /\ UNCHANGED asked

(* tn_event_iset                                                           *)
EventISet(flags) ==
  LET pattern == evf.pattern \cup flags
      wakes == ScanWakes(k, pattern)
  IN  /\ "event_iset" \in services /\ Enabled /\ evf.exists
      /\ IrqExit(Request(Scan(k, pattern), wakes)) /\ SetTo(pattern, wakes)
      /\ UNCHANGED asked

(* tn_event_clear and tn_event_iclear: the flags that stay.                *)
EventClear(flags) ==
  /\ Calls("event_clear") \/ ("event_iclear" \in services /\ Enabled)
  /\ evf.exists /\ flags # Flag
  /\ evf' = [evf EXCEPT !.pattern = @ \cap flags]
  /\ UNCHANGED <<k, pc, asked>>

(* tn_event_delete: its start, and what follows the loop.                  *)
EventDelete ==
  /\ Calls("event_delete") /\ evf.exists
  /\ pc' = Goes(k.curr, "delTest", "event")
  /\ UNCHANGED <<k, evf>>
EventDeleteEnds ==
  /\ DeleteLoopOver("event")
  /\ evf' = [evf EXCEPT !.exists = FALSE]
  /\ pc' = Goes(k.curr, "user", Null)
  /\ UNCHANGED k

EventStep ==
  /\ \/ \E w \in Waits :
          EventTakes(w) \/ \E timeout \in EventTimeouts : EventWaits(w, timeout)
     \/ \E flags \in SUBSET Flag :
          \/ flags # {} /\ (EventSet(flags) \/ EventISet(flags))
          \/ EventClear(flags)
     \/ EventReturns \/ \E attr \in EventAttrs : EventCreate(attr)
     \/ (EventDelete \/ EventDeleteEnds) /\ UNCHANGED asked
     \/ /\ WaitSwitches("event") \/ DeleteLoop("event", WithoutFirst("event"))
        /\ UNCHANGED <<evf, asked>>
  /\ UNCHANGED <<ticks, services>>

-----------------------------------------------------------------------------
(* No task waits for flags that are set: every wait whose condition the    *)
(* pattern fulfils has been released, whichever flags came and went since; *)
(* and the wait queue holds exactly the tasks that wait for the event.     *)
EventWaitsForAReason ==
  /\ HoldsWaiters("event", {"event"})
  /\ evf.exists => \A t \in Task :
       WaitsFor(t, {"event"}) => ~Released(k.ewait[t], evf.pattern)

(* A task that returns from tn_event_wait with TERR_NO_ERR is given a      *)
(* pattern that fulfils what it asked for, although the event may have     *)
(* been set, cleared and deleted again before the task runs.               *)
PatternFulfils == \A t \in Task :
  pc[t] \in {<<"waits", "event">>, <<"waited", "event">>} /\ k.rc[t] = "ok"
    /\ ~WaitsFor(t, {"event"}) => Released(asked[t], k.ewait[t].pattern)
=============================================================================
