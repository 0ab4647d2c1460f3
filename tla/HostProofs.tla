----------------------------- MODULE HostProofs -----------------------------
(***************************************************************************)
(* Proofs about four parts of the host program: a pipe of USBIOLIB with    *)
(* its reader thread, the handlers of the window, the history of the file  *)
(* names, and the conversion of a hex file.  They share no state.          *)
(***************************************************************************)
EXTENDS UsbIoLib, UsbWindow, RegHistory, HexImage, SequenceTheorems, FiniteSetTheorems,
        WellFoundedInduction, NaturalsInduction, TLAPS

-----------------------------------------------------------------------------
(* A pipe of USBIOLIB and its reader thread, for every pool of buffers and *)
(* number of errors endured: when the user may free the buffers, the       *)
(* thread and the driver have none of them.                                *)
(*                                                                         *)
(* The invariant is that each buffer is in one place, the chain of free    *)
(* ones, the list of pending ones or the thread's hand, that the driver    *)
(* has only pending ones, and that ThreadHandle shows the user a thread    *)
(* that runs.                                                              *)

Statuses == {"idle", "pending", "ok", "error", "down"}
DriverState == [present: BOOLEAN, configured: BOOLEAN, bound: BOOLEAN,
                Status: [Buffers \cup {Stack} -> Statuses]]

LibTypeOK ==
  /\ drv \in DriverState
  /\ BufPool \in [BufArray: BOOLEAN, chain: Seq(Buffers)]
  /\ Pending \in Seq(Buffers) /\ Buf \subseteq Buffers
  /\ thread \in {"none", "start", "loop", "fill", "read", "wait", "data", "drain", "exit"}
  /\ user \in {"idle", "sync", "cancel", "starts", "abort", "join"}

\* Where the thread is in its routine tells what it has.
InRoutine == thread \in {"loop", "fill", "read", "wait", "data", "drain"}
ThreadShape ==
  /\ ~InRoutine => Pending = <<>>
  /\ IF thread \in {"read", "data"} THEN \E b \in Buffers : Buf = {b} ELSE Buf = {}
  /\ thread = "wait" => Pending # <<>>
  /\ InRoutine => BufPool.BufArray

\* Each buffer there is, is in one place, once.
Chain == ToSet(BufPool.chain)
OnePlace ==
  /\ IsInjective(BufPool.chain) /\ IsInjective(Pending)
  /\ Chain \cap ToSet(Pending) = {} /\ Buf \cap (Chain \cup ToSet(Pending)) = {}
  /\ Chain \cup ToSet(Pending) \cup Buf = IF BufPool.BufArray THEN Buffers ELSE {}

\* What the driver has, and how long it has the buffer of ReadSync.
DriverHasListed ==
  /\ \A b \in Buffers : drv.Status[b] = "pending" => b \in ToSet(Pending)
  /\ drv.Status[Stack] = "pending" => user \in {"sync", "cancel"}

\* The user knows of a thread that runs.
ThreadKnown ==
  /\ thread # "none" \/ ThreadHandle # "NULL" => started
  /\ thread # "none" /\ user = "idle" => ThreadHandle # "NULL"
  /\ user \in {"starts", "abort", "join"} => started
  /\ user \in {"abort", "join"} => ThreadHandle = "NULL"
  /\ user \in {"sync", "cancel"} => ~started

LibInv == LibTypeOK /\ ThreadShape /\ OnePlace /\ DriverHasListed /\ ThreadKnown
-----------------------------------------------------------------------------
(* Sequences without repetition.                                           *)

\* The first of them is in it, and not behind itself.
LEMMA TailFacts ==
  ASSUME NEW S, NEW s \in Seq(S), s # <<>>, IsInjective(s)
  PROVE  /\ Head(s) \in S /\ Tail(s) \in Seq(S) /\ IsInjective(Tail(s))
         /\ ToSet(Tail(s)) = ToSet(s) \ {Head(s)} /\ Head(s) \in ToSet(s)
<1> DEFINE t == Tail(s)
<1>1. /\ Head(s) \in S /\ t \in Seq(S) /\ Len(t) = Len(s) - 1
      /\ \A i \in 1 .. Len(t) : t[i] = s[i + 1]
  BY HeadTailProperties
<1>2. Len(s) \in Nat /\ Len(s) # 0 /\ DOMAIN s = 1 .. Len(s) /\ DOMAIN t = 1 .. Len(t)
  BY <1>1, LenProperties, EmptySeq
<1>3. Head(s) = s[1] /\ 1 \in DOMAIN s
  BY <1>2
<1> HIDE DEF t
<1>4. IsInjective(t)
  BY <1>1, <1>2, SMTT(60) DEF IsInjective
<1>5. ASSUME NEW x PROVE x \in ToSet(t) <=> x \in ToSet(s) /\ x # Head(s)
  <2>1. ASSUME x \in ToSet(t) PROVE x \in ToSet(s) /\ x # Head(s)
    <3> PICK i \in DOMAIN t : x = t[i]
      BY <2>1 DEF ToSet
    <3>1. i + 1 \in DOMAIN s /\ x = s[i + 1] /\ i + 1 # 1
      BY <1>1, <1>2
    <3> QED
      BY <3>1, <1>3 DEF ToSet, IsInjective
  <2>2. ASSUME x \in ToSet(s), x # Head(s) PROVE x \in ToSet(t)
    <3> PICK i \in DOMAIN s : x = s[i]
      BY <2>2 DEF ToSet
    <3>1. i # 1
      BY <2>2, <1>3
    <3>2. i - 1 \in DOMAIN t /\ t[i - 1] = s[i]
      BY <3>1, <1>1, <1>2
    <3> QED
      BY <3>2 DEF ToSet
  <2> QED
    BY <2>1, <2>2
<1>6. Head(s) \in ToSet(s)
  BY <1>3 DEF ToSet
<1> QED
  BY <1>1, <1>4, <1>5, <1>6 DEF t

\* An element is put in front ...
LEMMA ConsFacts ==
  ASSUME NEW S, NEW s \in Seq(S), NEW b \in S, b \notin ToSet(s), IsInjective(s)
  PROVE  /\ <<b>> \o s \in Seq(S) /\ IsInjective(<<b>> \o s)
         /\ ToSet(<<b>> \o s) = ToSet(s) \cup {b}
<1> DEFINE t == <<b>> \o s
<1>1. <<b>> \in Seq(S) /\ Len(<<b>>) = 1 /\ <<b>>[1] = b
  OBVIOUS
<1>2. /\ t \in Seq(S) /\ Len(t) = 1 + Len(s)
      /\ \A i \in 1 .. 1 + Len(s) : t[i] = IF i <= 1 THEN <<b>>[i] ELSE s[i - 1]
  BY <1>1, ConcatProperties
<1>3. Len(s) \in Nat /\ DOMAIN s = 1 .. Len(s) /\ DOMAIN t = 1 .. Len(t)
  BY <1>2, LenProperties
<1> HIDE DEF t
<1>4. t[1] = b /\ \A i \in DOMAIN s : t[i + 1] = s[i] /\ i + 1 \in DOMAIN t
  BY <1>1, <1>2, <1>3
<1>5. \A i \in DOMAIN t : i = 1 \/ (i - 1 \in DOMAIN s /\ t[i] = s[i - 1])
  BY <1>2, <1>3
<1>6. ToSet(t) = ToSet(s) \cup {b}
  BY <1>2, <1>3, <1>4, <1>5, SMTT(60) DEF ToSet
<1>7. IsInjective(t)
  <2> SUFFICES ASSUME NEW i \in DOMAIN t, NEW j \in DOMAIN t, t[i] = t[j] PROVE i = j
    BY DEF IsInjective
  <2>1. CASE i # 1 /\ j # 1
    BY <2>1, <1>3, <1>5 DEF IsInjective
  <2>2. CASE i = 1 \/ j = 1
    BY <2>2, <1>3, <1>4, <1>5 DEF ToSet
  <2> QED
    BY <2>1, <2>2
<1> QED
  BY <1>2, <1>6, <1>7 DEF t

\* ... or behind the others.
LEMMA AppendFacts ==
  ASSUME NEW S, NEW s \in Seq(S), NEW b \in S, b \notin ToSet(s), IsInjective(s)
  PROVE  /\ Append(s, b) \in Seq(S) /\ IsInjective(Append(s, b))
         /\ ToSet(Append(s, b)) = ToSet(s) \cup {b}
<1> DEFINE t == Append(s, b)
<1>1. /\ t \in Seq(S) /\ Len(t) = Len(s) + 1
      /\ \A i \in 1 .. Len(s) : t[i] = s[i]
      /\ t[Len(s) + 1] = b
  BY AppendProperties
<1>2. Len(s) \in Nat /\ DOMAIN s = 1 .. Len(s) /\ DOMAIN t = 1 .. Len(s) + 1
  BY <1>1, LenProperties
<1> HIDE DEF t
<1>3. ToSet(t) = ToSet(s) \cup {b}
  BY <1>1, <1>2 DEF ToSet
<1>4. IsInjective(t)
  BY <1>1, <1>2 DEF IsInjective, ToSet
<1> QED
  BY <1>1, <1>3, <1>4 DEF t

\* The empty sequence.
LEMMA EmptyFacts == ToSet(<<>>) = {} /\ IsInjective(<<>>)
  BY DEF ToSet, IsInjective

\* AllocateBuffers chains each buffer once.
LEMMA ChainOfAll ==
  /\ SetToSeq(Buffers) \in Seq(Buffers) /\ IsInjective(SetToSeq(Buffers))
  /\ ToSet(SetToSeq(Buffers)) = Buffers
<1> DEFINE n == Cardinality(Buffers)
           f == SetToSeq(Buffers)
<1>1. n \in Nat /\ ExistsBijection(1 .. n, Buffers)
  BY FS_CardinalityType, LibAssumption DEF LibAssumption
<1>2. PICK g : g \in Bijection(1 .. n, Buffers)
  BY <1>1 DEF ExistsBijection
<1>3. g \in [1 .. n -> Buffers] /\ IsInjective(g)
  BY <1>2 DEF Bijection, Injection, Surjection
<1>4. f \in [1 .. n -> Buffers] /\ IsInjective(f)
  BY <1>3 DEF SetToSeq
<1> HIDE DEF f
<1>5. f \in Injection(1 .. n, Buffers)
  BY <1>4 DEF Injection
<1>6. IsFiniteSet(1 .. n) /\ Cardinality(1 .. n) = n
  BY <1>1, FS_Interval
<1>7. f \in Surjection(1 .. n, Buffers)
  BY <1>1, <1>5, <1>6, FS_Injection, LibAssumption DEF LibAssumption
<1>8. f \in Seq(Buffers)
  BY <1>1, <1>4
<1>9. ToSet(f) = Buffers
  BY <1>4, <1>7 DEF Surjection, ToSet
<1> QED
  BY <1>4, <1>8, <1>9 DEF f

\* A chain of all buffers, each once, is as long as there are buffers.
LEMMA LengthOfAll ==
  ASSUME NEW s \in Seq(Buffers), IsInjective(s), ToSet(s) = Buffers
  PROVE  Len(s) = Cardinality(Buffers)
<1>1. Len(s) \in Nat /\ s \in [1 .. Len(s) -> Buffers] /\ DOMAIN s = 1 .. Len(s)
  BY LenProperties
<1>2. s \in Bijection(1 .. Len(s), Buffers)
  BY <1>1 DEF Bijection, Injection, Surjection, ToSet
<1> QED
  BY <1>1, <1>2, FS_CountingElements DEF ExistsBijection
-----------------------------------------------------------------------------
(* The driver.                                                             *)

\* In e the driver has no buffer that it has not in d.
NoMore(d, e) == \A b \in Buffers \cup {Stack} : e.Status[b] = "pending" => d.Status[b] = "pending"

\* A request starts no read.
LEMMA ExecutedIsNoRead ==
  ASSUME NEW d \in DriverState, NEW code
  PROVE  Executed(code, d) \in DriverState /\ NoMore(d, Executed(code, d))
<1>1. Fails(d) \in DriverState /\ NoMore(d, Fails(d))
  BY DEF Fails, DriverState, Statuses, NoMore
<1>2. \A x, y \in BOOLEAN : [d EXCEPT !.configured = x, !.bound = y] \in DriverState
  BY DEF DriverState
<1> QED
  BY <1>1, <1>2 DEF Executed, DriverState, NoMore, Fails, Statuses

\* Nothing but the driver's state changes.
LEMMA DriverStep ==
  ASSUME LibInv, drv' \in DriverState, NoMore(drv, drv'),
         UNCHANGED <<BufPool, Pending, thread, Buf, ThreadHandle, started, user>>
  PROVE  LibInv'
<1> USE DEF LibInv
<1>1. LibTypeOK' /\ ThreadShape' /\ ThreadKnown'
  BY DEF LibTypeOK, ThreadShape, ThreadKnown, InRoutine
<1>2. OnePlace'
  BY DEF OnePlace, Chain
<1>3. DriverHasListed'
  BY DEF DriverHasListed, NoMore
<1> QED
  BY <1>1, <1>2, <1>3

\* A request fails at once, or the driver executes it or not.
LEMMA IoctlIsNoRead ==
  ASSUME LibInv, NEW i, NEW code, NEW d \in IoctlSync(i, code)
  PROVE  d \in DriverState /\ NoMore(drv, d)
<1>1. drv \in DriverState
  BY DEF LibInv, LibTypeOK
<1>2. d = drv \/ d = Executed(code, drv)
  BY DEF IoctlSync
<1> QED
  BY <1>1, <1>2, ExecutedIsNoRead DEF NoMore

\* The device comes and goes, and the reads complete.
LEMMA DriverInv == LibInv /\ Driver => LibInv'
<1> SUFFICES ASSUME LibInv, Driver PROVE LibInv'
  OBVIOUS
<1> USE DEF routine, control
<1>1. drv \in DriverState
  BY DEF LibInv, LibTypeOK
<1>2. CASE Plugged
  <2>1. drv' \in DriverState /\ NoMore(drv, drv')
    BY <1>1, <1>2 DEF Plugged, DriverState, NoMore
  <2> QED
    BY <1>2, <2>1, DriverStep DEF Plugged
<1>3. CASE Unplugged
  <2>1. drv' \in DriverState /\ NoMore(drv, drv')
    BY <1>1, <1>3 DEF Unplugged, DriverState, NoMore, Fails, Statuses
  <2> QED
    BY <1>3, <2>1, DriverStep DEF Unplugged
<1>4. CASE Complete
  <2>1. PICK t \in {"ok", "error", "down"} : \E b : drv' = [drv EXCEPT !.Status[b] = t]
    BY <1>4 DEF Complete
  <2>2. PICK b : drv' = [drv EXCEPT !.Status[b] = t]
    BY <2>1
  <2>3. drv' \in DriverState /\ NoMore(drv, drv')
    BY <1>1, <2>2 DEF DriverState, NoMore, Statuses
  <2> QED
    BY <1>4, <2>3, DriverStep DEF Complete
<1> QED
  BY <1>2, <1>3, <1>4 DEF Driver
-----------------------------------------------------------------------------
(* The user.                                                               *)

\* The handle, the device list and the requests.
LEMMA HandleInv == LibInv /\ (CreateDeviceList \/ Open \/ Close \/ Bind \/ Request) => LibInv'
<1> SUFFICES ASSUME LibInv, CreateDeviceList \/ Open \/ Close \/ Bind \/ Request PROVE LibInv'
  OBVIOUS
<1>1. drv \in DriverState
  BY DEF LibInv, LibTypeOK
<1>2. UNCHANGED <<BufPool, Pending, thread, Buf, ThreadHandle, started, user>>
  BY DEF CreateDeviceList, Open, Close, Bind, Request, UserDoes, routine, control
<1>3. drv' \in DriverState /\ NoMore(drv, drv')
  <2>1. CASE CreateDeviceList \/ Open
    BY <1>1, <2>1 DEF CreateDeviceList, Open, NoMore
  <2>2. CASE Close
    BY <1>1, <2>2 DEF Close, NoMore, DriverState
  <2>3. CASE Bind
    BY <2>3, IoctlIsNoRead DEF Bind
  <2>4. CASE Request
    BY <2>4, IoctlIsNoRead DEF Request
  <2> QED
    BY <2>1, <2>2, <2>3, <2>4
<1> QED
  BY <1>2, <1>3, DriverStep

\* ReadSync and WriteSync.
LEMMA SyncInv == LibInv /\ (Sync \/ SyncTimeout \/ SyncReturns) => LibInv'
<1> SUFFICES ASSUME LibInv, Sync \/ SyncTimeout \/ SyncReturns PROVE LibInv'
  OBVIOUS
<1>1. drv \in DriverState /\ Stack \notin Buffers
  BY LibAssumption DEF LibInv, LibTypeOK, LibAssumption
<1>2. UNCHANGED <<BufPool, Pending, thread, Buf, ThreadHandle, started>>
  BY DEF Sync, SyncTimeout, SyncReturns, routine, control
<1>3. /\ drv' \in DriverState
      /\ \A b \in Buffers : drv'.Status[b] = drv.Status[b]
      /\ user' \in {"idle", "sync", "cancel"}
      /\ user' = "idle" => drv'.Status[Stack] # "pending"
      /\ user \in {"sync", "cancel"} \/ ~started
  <2>1. CASE Sync
    BY <1>1, <2>1 DEF Sync, Submitted, DriverState, Statuses
  <2>2. CASE SyncTimeout
    BY <1>1, <2>2 DEF SyncTimeout
  <2>3. CASE SyncReturns
    BY <1>1, <2>3 DEF SyncReturns, Forgotten, DriverState, Statuses
  <2> QED
    BY <2>1, <2>2, <2>3
<1>4. LibTypeOK' /\ ThreadShape'
  BY <1>2, <1>3 DEF LibInv, LibTypeOK, ThreadShape, InRoutine
<1>5. OnePlace'
  BY <1>2 DEF LibInv, OnePlace, Chain
<1>6. DriverHasListed'
  BY <1>2, <1>3 DEF LibInv, DriverHasListed
<1>7. ThreadKnown'
  BY <1>2, <1>3 DEF LibInv, ThreadKnown
<1> QED
  BY <1>4, <1>5, <1>6, <1>7 DEF LibInv

\* The buffers come, and go only when there is no thread: it has none then.
LEMMA PoolInv == LibInv /\ (AllocateBuffers \/ FreeBuffers) => LibInv'
<1> SUFFICES ASSUME LibInv, AllocateBuffers \/ FreeBuffers PROVE LibInv'
  OBVIOUS
<1>1. UNCHANGED <<drv, Pending, thread, Buf, ThreadHandle, started, user>>
  BY DEF AllocateBuffers, FreeBuffers, UserDoes, routine, control
<1>2. ~InRoutine /\ Pending = <<>> /\ Buf = {}
  <2>1. CASE AllocateBuffers
    BY <2>1 DEF AllocateBuffers, LibInv, ThreadShape, InRoutine
  <2>2. CASE FreeBuffers
    BY <2>2 DEF FreeBuffers, LibInv, ThreadShape, ThreadKnown, InRoutine
  <2> QED
    BY <2>1, <2>2
<1>3. /\ BufPool' \in [BufArray: BOOLEAN, chain: Seq(Buffers)]
      /\ IsInjective(BufPool'.chain)
      /\ ToSet(BufPool'.chain) = IF BufPool'.BufArray THEN Buffers ELSE {}
  <2>1. CASE AllocateBuffers
    BY <2>1, ChainOfAll DEF AllocateBuffers
  <2>2. CASE FreeBuffers
    BY <2>2, EmptyFacts DEF FreeBuffers, NoBuffers
  <2> QED
    BY <2>1, <2>2
<1>4. LibTypeOK' /\ ThreadShape' /\ ThreadKnown'
  BY <1>1, <1>2, <1>3 DEF LibInv, LibTypeOK, ThreadShape, ThreadKnown, InRoutine
<1>5. OnePlace'
  BY <1>1, <1>2, <1>3, EmptyFacts DEF OnePlace, Chain
<1>6. DriverHasListed'
  BY <1>1 DEF LibInv, DriverHasListed
<1> QED
  BY <1>4, <1>5, <1>6 DEF LibInv

\* The thread is started and shut down: ThreadHandle is NULL only when it has
\* ended, or the user waits for it.
LEMMA ShutdownInv ==
  LibInv /\ (StartThread \/ StartReturns \/ Shutdown \/ TerminateThread \/ Joined) => LibInv'
<1> SUFFICES ASSUME LibInv,
                    StartThread \/ StartReturns \/ Shutdown \/ TerminateThread \/ Joined
             PROVE  LibInv'
  OBVIOUS
<1> USE DEF routine, control
<1>1. UNCHANGED <<BufPool, Pending, Buf>>
  BY DEF StartThread, StartReturns, Shutdown, TerminateThread, Joined
<1>2. drv' \in DriverState /\ NoMore(drv, drv')
  <2>1. CASE TerminateThread
    BY <2>1, IoctlIsNoRead DEF TerminateThread
  <2>2. CASE drv' = drv
    BY <2>2 DEF LibInv, LibTypeOK, NoMore
  <2> QED
    BY <2>1, <2>2 DEF StartThread, StartReturns, Shutdown, Joined
<1>3. /\ user \in {"idle", "starts", "abort", "join"}
      /\ user' \in {"idle", "starts", "abort", "join"}
      /\ thread' = thread \/ (thread = "none" /\ thread' = "start")
  BY DEF LibInv, ThreadKnown, StartThread, StartReturns, Shutdown, TerminateThread, Joined
<1>4. LibTypeOK' /\ ThreadShape'
  BY <1>1, <1>2, <1>3 DEF LibInv, LibTypeOK, ThreadShape, InRoutine
<1>5. OnePlace'
  BY <1>1 DEF LibInv, OnePlace, Chain
<1>6. DriverHasListed'
  BY <1>1, <1>2, <1>3 DEF LibInv, DriverHasListed, NoMore
<1>7. ThreadKnown'
  <2> USE DEF LibInv, ThreadKnown
  <2>1. CASE StartThread
    BY <2>1 DEF StartThread
  <2>2. CASE StartReturns
    BY <2>2 DEF StartReturns
  <2>3. CASE Shutdown
    BY <2>3 DEF Shutdown
  <2>4. CASE TerminateThread
    BY <2>4 DEF TerminateThread
  <2>5. CASE Joined
    BY <2>5 DEF Joined
  <2> QED
    BY <2>1, <2>2, <2>3, <2>4, <2>5
<1> QED
  BY <1>4, <1>5, <1>6, <1>7 DEF LibInv
-----------------------------------------------------------------------------
(* The thread.                                                             *)

\* What the thread's steps leave alone.
LEMMA ThreadKeepsUser ==
  ASSUME NEW from, NEW to, ThreadDoes(from, to), ThreadKnown, from # "none"
  PROVE  ThreadKnown' /\ UNCHANGED user /\ thread = from /\ thread' = to
  BY DEF ThreadDoes, ThreadKnown, control

\* The thread goes on with what it has.
LEMMA GoesOnInv == LibInv /\ (Begins \/ LoopTest \/ PoolIsEmpty) => LibInv'
<1> SUFFICES ASSUME LibInv, Begins \/ LoopTest \/ PoolIsEmpty PROVE LibInv'
  OBVIOUS
<1> USE DEF LibInv
<1>1. ThreadKnown' /\ UNCHANGED <<user, drv, BufPool, Buf>>
  BY ThreadKeepsUser DEF Begins, LoopTest, PoolIsEmpty
<1>2. Pending' = Pending
  BY DEF Begins, LoopTest, PoolIsEmpty, ThreadDoes, ThreadShape, InRoutine
<1>3. ThreadShape' /\ thread' \in {"exit", "loop", "drain", "fill", "wait"}
  <2>1. CASE Begins
    <3>1. BufPool.chain # <<>> => BufPool.BufArray
      BY EmptyFacts, TailFacts DEF LibTypeOK, OnePlace, Chain
    <3> QED
      BY <1>1, <1>2, <2>1, <3>1 DEF Begins, ThreadDoes, ThreadShape, InRoutine
  <2>2. CASE LoopTest
    BY <1>1, <1>2, <2>2 DEF LoopTest, ThreadDoes, ThreadShape, InRoutine
  <2>3. CASE PoolIsEmpty
    BY <1>1, <1>2, <2>3 DEF PoolIsEmpty, ThreadDoes, ThreadShape, InRoutine
  <2> QED
    BY <2>1, <2>2, <2>3
<1>4. LibTypeOK' /\ OnePlace' /\ DriverHasListed'
  BY <1>1, <1>2, <1>3 DEF LibTypeOK, OnePlace, Chain, DriverHasListed
<1> QED
  BY <1>1, <1>3, <1>4

\* A buffer is taken from the chain ...
LEMMA TakesInv == LibInv /\ Takes => LibInv'
<1> SUFFICES ASSUME LibInv, Takes PROVE LibInv'
  OBVIOUS
<1> USE DEF LibInv
<1>1. /\ ThreadKnown' /\ thread = "fill" /\ thread' = "read"
      /\ UNCHANGED <<user, drv, Pending>>
  BY ThreadKeepsUser DEF Takes
<1>2. /\ BufPool.chain # <<>> /\ Buf' = {Head(BufPool.chain)}
      /\ BufPool' = [BufPool EXCEPT !.chain = Tail(@)]
  BY DEF Takes, Get
<1>3. BufPool.chain \in Seq(Buffers)
  BY DEF LibTypeOK
<1>4. /\ Head(BufPool.chain) \in Buffers /\ Tail(BufPool.chain) \in Seq(Buffers)
      /\ IsInjective(Tail(BufPool.chain)) /\ Head(BufPool.chain) \in Chain
      /\ ToSet(Tail(BufPool.chain)) = Chain \ {Head(BufPool.chain)}
  BY <1>2, <1>3, TailFacts DEF OnePlace, Chain
<1>5. BufPool'.chain = Tail(BufPool.chain) /\ BufPool'.BufArray = BufPool.BufArray
  BY <1>2 DEF LibTypeOK
<1>6. LibTypeOK'
  BY <1>1, <1>2, <1>4 DEF LibTypeOK
<1>7. ThreadShape'
  BY <1>1, <1>2, <1>4, <1>5 DEF ThreadShape, InRoutine
<1>8. Buf = {}
  BY <1>1 DEF ThreadShape
<1>9. OnePlace'
  BY <1>1, <1>2, <1>4, <1>5, <1>8 DEF OnePlace, Chain
<1>10. DriverHasListed'
  BY <1>1 DEF DriverHasListed
<1> QED
  BY <1>1, <1>6, <1>7, <1>9, <1>10

\* ... and is given to the driver.
LEMMA ReadsInv == LibInv /\ Reads => LibInv'
<1> SUFFICES ASSUME LibInv, Reads PROVE LibInv'
  OBVIOUS
<1> USE DEF LibInv
<1> PICK b \in Buf : /\ ThreadDoes("read", "fill") /\ drv' = Submitted(b)
                     /\ Pending' = Append(Pending, b)
                     /\ Buf' = {} /\ UNCHANGED <<BufPool, ErrorCounter>>
  BY DEF Reads
<1>1. ThreadKnown' /\ thread = "read" /\ thread' = "fill" /\ UNCHANGED user
  BY ThreadKeepsUser
<1>2. Buf = {b} /\ b \in Buffers /\ b \notin ToSet(Pending) /\ b \notin Chain
  BY <1>1 DEF ThreadShape, OnePlace
<1>3. Pending \in Seq(Buffers) /\ IsInjective(Pending)
  BY DEF LibTypeOK, OnePlace
<1>4. /\ Pending' \in Seq(Buffers) /\ IsInjective(Pending')
      /\ ToSet(Pending') = ToSet(Pending) \cup {b}
  BY <1>2, <1>3, AppendFacts
<1>5. /\ drv' \in DriverState
      /\ \A c \in Buffers \cup {Stack} : c # b => drv'.Status[c] = drv.Status[c]
  BY <1>2 DEF LibTypeOK, Submitted, DriverState, Statuses
<1>6. LibTypeOK'
  BY <1>1, <1>4, <1>5 DEF LibTypeOK
<1>7. ThreadShape'
  BY <1>1 DEF ThreadShape, InRoutine
<1>8. OnePlace'
  BY <1>2, <1>4 DEF OnePlace, Chain
<1>9. DriverHasListed'
  BY <1>1, <1>2, <1>4, <1>5, LibAssumption DEF DriverHasListed, LibAssumption
<1> QED
  BY <1>1, <1>6, <1>7, <1>8, <1>9

\* A buffer in the thread's hand goes back into the chain.
LEMMA PutsInv == LibInv /\ (PutsBack \/ ProcessesData) => LibInv'
<1> SUFFICES ASSUME LibInv, PutsBack \/ ProcessesData PROVE LibInv'
  OBVIOUS
<1> USE DEF LibInv
<1>1. PICK b \in Buf : /\ Put(b) /\ Buf' = {} /\ UNCHANGED Pending
                       /\ drv' \in {drv, Forgotten(b)}
  BY DEF PutsBack, ProcessesData
<1>2. /\ ThreadKnown' /\ UNCHANGED user /\ thread \in {"read", "data"}
      /\ thread' \in {"drain", "wait", "loop"} /\ (thread' = "wait" => Pending # <<>>)
  BY ThreadKeepsUser DEF PutsBack, ProcessesData
<1>3. Buf = {b} /\ b \in Buffers /\ b \notin ToSet(Pending) /\ b \notin Chain
  BY <1>1, <1>2 DEF ThreadShape, OnePlace
<1>4. BufPool.chain \in Seq(Buffers) /\ IsInjective(BufPool.chain)
  BY DEF LibTypeOK, OnePlace
<1>5. /\ <<b>> \o BufPool.chain \in Seq(Buffers) /\ IsInjective(<<b>> \o BufPool.chain)
      /\ ToSet(<<b>> \o BufPool.chain) = Chain \cup {b}
  BY <1>3, <1>4, ConsFacts DEF Chain
<1>6. BufPool'.chain = <<b>> \o BufPool.chain /\ BufPool'.BufArray = BufPool.BufArray
  BY <1>1 DEF LibTypeOK, Put
<1>7. drv' \in DriverState /\ NoMore(drv, drv')
  BY <1>1, <1>3 DEF LibTypeOK, DriverState, Forgotten, NoMore, Statuses
<1>8. LibTypeOK'
  BY <1>1, <1>2, <1>5, <1>7 DEF LibTypeOK, Put
<1>9. ThreadShape'
  BY <1>1, <1>2, <1>6 DEF ThreadShape, InRoutine
<1>10. OnePlace'
  BY <1>1, <1>3, <1>5, <1>6 DEF OnePlace, Chain
<1>11. DriverHasListed'
  BY <1>1, <1>2, <1>7 DEF DriverHasListed, NoMore
<1> QED
  BY <1>2, <1>8, <1>9, <1>10, <1>11

\* The first pending buffer is done, and comes into the thread's hand.
LEMMA WaitsInv == LibInv /\ Waits => LibInv'
<1> SUFFICES ASSUME LibInv, Waits PROVE LibInv'
  OBVIOUS
<1> USE DEF LibInv
<1> DEFINE b == Head(Pending)
<1>1. /\ ThreadKnown' /\ thread = "wait" /\ thread' = "data"
      /\ UNCHANGED <<user, drv, BufPool>>
  BY ThreadKeepsUser DEF Waits
<1>2. drv.Status[b] # "pending" /\ Buf' = {b} /\ Pending' = Tail(Pending)
  BY DEF Waits, WaitForCompletion
<1>3. Pending # <<>> /\ Buf = {} /\ Pending \in Seq(Buffers) /\ IsInjective(Pending)
  BY <1>1 DEF ThreadShape, LibTypeOK, OnePlace
<1>4. /\ b \in Buffers /\ Pending' \in Seq(Buffers) /\ IsInjective(Pending')
      /\ ToSet(Pending') = ToSet(Pending) \ {b} /\ b \in ToSet(Pending)
  BY <1>2, <1>3, TailFacts
<1> HIDE DEF b
<1>5. LibTypeOK'
  BY <1>1, <1>2, <1>4 DEF LibTypeOK
<1>6. ThreadShape'
  BY <1>1, <1>2, <1>4 DEF ThreadShape, InRoutine
<1>7. OnePlace'
  BY <1>1, <1>2, <1>3, <1>4 DEF OnePlace, Chain
<1>8. DriverHasListed'
  BY <1>1, <1>2, <1>4 DEF DriverHasListed
<1> QED
  BY <1>1, <1>5, <1>6, <1>7, <1>8

\* On the way out each pending buffer is waited for and chained.
LEMMA DrainsInv == LibInv /\ Drains => LibInv'
<1> SUFFICES ASSUME LibInv, Drains PROVE LibInv'
  OBVIOUS
<1> USE DEF LibInv
<1> DEFINE b == Head(Pending)
<1>1. CASE Pending # <<>> /\ ThreadDoes("drain", "drain") /\ WaitForCompletion(b)
           /\ Put(b) /\ drv' = Forgotten(b) /\ Pending' = Tail(Pending)
           /\ UNCHANGED <<Buf, ErrorCounter>>
  <2>1. ThreadKnown' /\ thread = "drain" /\ thread' = "drain" /\ UNCHANGED user
    BY <1>1, ThreadKeepsUser
  <2>2. Pending \in Seq(Buffers) /\ IsInjective(Pending)
    BY DEF LibTypeOK, OnePlace
  <2>3. /\ b \in Buffers /\ Pending' \in Seq(Buffers) /\ IsInjective(Pending')
        /\ ToSet(Pending') = ToSet(Pending) \ {b} /\ b \in ToSet(Pending)
    BY <1>1, <2>2, TailFacts
  <2> HIDE DEF b
  <2>4. b \notin Chain /\ BufPool.chain \in Seq(Buffers) /\ IsInjective(BufPool.chain)
    BY <2>3 DEF LibTypeOK, OnePlace
  <2>5. /\ <<b>> \o BufPool.chain \in Seq(Buffers) /\ IsInjective(<<b>> \o BufPool.chain)
        /\ ToSet(<<b>> \o BufPool.chain) = Chain \cup {b}
    BY <2>3, <2>4, ConsFacts DEF Chain
  <2>6. BufPool'.chain = <<b>> \o BufPool.chain /\ BufPool'.BufArray = BufPool.BufArray
    BY <1>1 DEF LibTypeOK, Put
  <2>7. drv' \in DriverState /\ NoMore(drv, drv') /\ drv'.Status[b] # "pending"
    BY <1>1, <2>3 DEF LibTypeOK, DriverState, Forgotten, NoMore, Statuses
  <2>8. LibTypeOK'
    BY <1>1, <2>1, <2>3, <2>5, <2>7 DEF LibTypeOK, Put
  <2>9. ThreadShape'
    BY <1>1, <2>1, <2>6 DEF ThreadShape, InRoutine
  <2>10. OnePlace'
    BY <1>1, <2>3, <2>5, <2>6 DEF OnePlace, Chain
  <2>11. DriverHasListed'
    BY <2>1, <2>3, <2>7 DEF DriverHasListed, NoMore
  <2> QED
    BY <2>1, <2>8, <2>9, <2>10, <2>11
<1>2. CASE Pending = <<>> /\ ThreadDoes("drain", "exit")
           /\ UNCHANGED <<drv, BufPool, Pending, Buf, ErrorCounter>>
  <2>1. ThreadKnown' /\ thread = "drain" /\ thread' = "exit" /\ UNCHANGED user
    BY <1>2, ThreadKeepsUser
  <2> QED
    BY <1>2, <2>1 DEF LibTypeOK, ThreadShape, InRoutine, OnePlace, Chain, DriverHasListed
<1> QED
  BY <1>1, <1>2 DEF Drains

\* The thread ends.
LEMMA ExitsInv == LibInv /\ Exits => LibInv'
<1> SUFFICES ASSUME LibInv, Exits PROVE LibInv'
  OBVIOUS
<1>1. LibTypeOK' /\ ThreadShape' /\ ThreadKnown'
  BY DEF LibInv, LibTypeOK, ThreadShape, InRoutine, ThreadKnown, Exits
<1>2. OnePlace' /\ DriverHasListed'
  BY DEF LibInv, OnePlace, Chain, DriverHasListed, Exits
<1> QED
  BY <1>1, <1>2 DEF LibInv
-----------------------------------------------------------------------------
\* There are no buffers and no thread at first.
LEMMA LibInitInv == LibInit => LibInv
<1> SUFFICES ASSUME LibInit PROVE LibInv
  OBVIOUS
<1>1. <<>> \in Seq(Buffers)
  OBVIOUS
<1>2. LibTypeOK
  BY <1>1 DEF LibInit, LibTypeOK, DriverState, Statuses, NoBuffers
<1>3. ThreadShape /\ DriverHasListed /\ ThreadKnown
  BY DEF LibInit, ThreadShape, InRoutine, DriverHasListed, ThreadKnown
<1>4. OnePlace
  BY EmptyFacts DEF LibInit, OnePlace, Chain, NoBuffers
<1> QED
  BY <1>2, <1>3, <1>4 DEF LibInv

\* The invariant holds, whatever the user, the device and the thread do.
THEOREM LibInvariant == LibSpec => []LibInv
<1>1. LibInv /\ [LibNext]_uvars => LibInv'
  <2>1. LibInv /\ User => LibInv'
    BY HandleInv, SyncInv, PoolInv, ShutdownInv DEF User
  <2>2. LibInv /\ Reader => LibInv'
    BY GoesOnInv, TakesInv, ReadsInv, PutsInv, WaitsInv, DrainsInv, ExitsInv DEF Reader
  <2>3. LibInv /\ UNCHANGED uvars => LibInv'
    BY DEF uvars, routine, control, LibInv, LibTypeOK, ThreadShape, InRoutine, OnePlace,
           Chain, DriverHasListed, ThreadKnown
  <2> QED
    BY <2>1, <2>2, <2>3, DriverInv DEF LibNext
<1> QED
  BY <1>1, LibInitInv, PTL DEF LibSpec

\* Whenever the user may free the buffers, the driver and the thread have none
\* of them and the pool has each once; ReadSync never leaves its buffer with
\* the driver.
THEOREM LibIsIdleWhenStopped == LibSpec => []IdleWhenStopped
<1>1. LibInv => IdleWhenStopped
  <2> SUFFICES ASSUME LibInv PROVE IdleWhenStopped
    OBVIOUS
  <2>1. ASSUME ~started
        PROVE  /\ \A b \in Buffers : drv.Status[b] # "pending"
               /\ Buf = {} /\ thread \in {"none", "exit"}
               /\ BufPool.BufArray => /\ ToSet(BufPool.chain) = Buffers
                                      /\ Len(BufPool.chain) = Cardinality(Buffers)
    <3>1. thread = "none" /\ Pending = <<>> /\ Buf = {}
      BY <2>1 DEF LibInv, ThreadKnown, ThreadShape, InRoutine
    <3>2. \A b \in Buffers : drv.Status[b] # "pending"
      BY <3>1, EmptyFacts DEF LibInv, DriverHasListed
    <3>3. BufPool.BufArray => /\ ToSet(BufPool.chain) = Buffers
                              /\ IsInjective(BufPool.chain) /\ BufPool.chain \in Seq(Buffers)
      BY <3>1, EmptyFacts DEF LibInv, OnePlace, Chain, LibTypeOK
    <3> QED
      BY <3>1, <3>2, <3>3, LengthOfAll
  <2>2. user = "idle" => drv.Status[Stack] # "pending"
    BY DEF LibInv, DriverHasListed
  <2> QED
    BY <2>1, <2>2 DEF IdleWhenStopped
<1> QED
  BY <1>1, LibInvariant, PTL

-----------------------------------------------------------------------------
(* The window of the host program: however deep its handlers run in one    *)
(* another and however often the device comes, the last one leaves the     *)
(* device closed and the reader thread ended.                              *)
(*                                                                         *)
(* A handler that has opened the device, or started the thread, does not   *)
(* return without having closed it, or stopped the thread: while one of    *)
(* the two is so, a handler is in a place from which that is still ahead   *)
(* of it.  It need not be the handler that did it.                         *)

Places == {"nofile", "open", "asks", "isfwu", "switch", "bind", "start", "command",
           "wait", "written", "loop", "final"}
Frames == [dlg: Dialogs, pc: Places, box: BOOLEAN]

Buttons == [Dialogs -> [start: BOOLEAN, stop: BOOLEAN]]
Globals == [OpMode: Tabs, NowFWLoader: BOOLEAN, WaitSwitchToLoader: BOOLEAN,
            EnableTabPageChanging: BOOLEAN, fOpInProgress: BOOLEAN, OpState: 0 .. 1,
            BtnTimeoutCnt: BOOLEAN, UsbIo: {"closed", "open", "stale"},
            IsValid: BOOLEAN, EventUserAbort: BOOLEAN, EventRxData: BOOLEAN]
Pipes == [bound: BOOLEAN, thread: BOOLEAN, pending: BOOLEAN, dangling: BOOLEAN]
DataOK == btn \in Buttons /\ g_dt \in Globals /\ pipe \in Pipes /\ uses \in Uses
WindowTypeOK == frames \in Seq(Frames) /\ DataOK

\* A handler is in one of these places.
In(places) == \E i \in 1 .. Len(frames) : frames[i].pc \in places

\* From these the thread is stopped, or the device is closed, before the return.
WillStop == {"command", "wait", "written", "loop", "final"}
WillClose == {"asks", "switch", "bind", "start"} \cup WillStop

PipeReads == pipe.thread \/ pipe.pending
IsOpen == g_dt.UsbIo # "closed"
SomebodyWill == (PipeReads => In(WillStop)) /\ (IsOpen => In(WillClose))

WindowInv == WindowTypeOK /\ SomebodyWill
-----------------------------------------------------------------------------
(* The stack of the handlers.                                              *)

\* The innermost handler, and those it runs in.
LEMMA StackFacts ==
  ASSUME frames \in Seq(Frames), frames # <<>>
  PROVE  /\ Len(frames) \in Nat \ {0} /\ InFront \in Frames /\ InFront = frames[Len(frames)]
         /\ Front(frames) \in Seq(Frames) /\ Len(Front(frames)) = Len(frames) - 1
         /\ \A i \in 1 .. Len(frames) - 1 : Front(frames)[i] = frames[i]
<1>1. Len(frames) \in Nat \ {0}
  BY EmptySeq
<1> DEFINE n == Len(frames) - 1
<1>2. 1 \in Int /\ n \in Nat /\ \A i \in 1 .. n : frames[i] \in Frames
  BY <1>1, ElementOfSeq
<1> HIDE DEF n
<1>3. /\ SubSeq(frames, 1, n) \in Seq(Frames)
      /\ Len(SubSeq(frames, 1, n)) = IF 1 <= n THEN n - 1 + 1 ELSE 0
      /\ \A i \in 1 .. n - 1 + 1 : SubSeq(frames, 1, n)[i] = frames[1 + i - 1]
  BY <1>2, SubSeqProperties
<1>5. /\ Front(frames) \in Seq(Frames) /\ Len(Front(frames)) = n
      /\ \A i \in 1 .. n : Front(frames)[i] = frames[i]
  <2>1. Front(frames) = SubSeq(frames, 1, n)
    BY DEF Front, n
  <2>2. (IF 1 <= n THEN n - 1 + 1 ELSE 0) = n /\ n - 1 + 1 = n
    BY <1>2
  <2>3. \A i \in 1 .. n : 1 + i - 1 = i
    BY <1>2
  <2> QED
    BY <1>3, <2>1, <2>2, <2>3
<1>4. InFront = frames[Len(frames)] /\ InFront \in Frames
  BY <1>1, ElementOfSeq DEF InFront, Last
<1> QED
  BY <1>1, <1>4, <1>5 DEF n

\* The innermost handler goes on: the others stay where they are.
LEMMA GoesFacts ==
  ASSUME frames \in Seq(Frames), frames # <<>>,
         NEW pc \in Places, NEW shows \in BOOLEAN, Goes(pc, shows), NEW places
  PROVE  /\ frames' \in Seq(Frames)
         /\ pc \in places => In(places)'
         /\ In(places) /\ InFront.pc \notin places => In(places)'
<1> DEFINE f == [InFront EXCEPT !.pc = pc, !.box = shows]
           n == Len(frames)
<1>1. f \in Frames /\ f.pc = pc
  BY StackFacts DEF Frames
<1>2. <<f>> \in Seq(Frames) /\ Len(<<f>>) = 1 /\ <<f>>[1] = f
  BY <1>1
<1>3. /\ n \in Nat \ {0} /\ InFront = frames[n]
      /\ Front(frames) \in Seq(Frames) /\ Len(Front(frames)) = n - 1
      /\ \A i \in 1 .. n - 1 : Front(frames)[i] = frames[i]
  BY StackFacts
<1>4. frames' = Front(frames) \o <<f>>
  BY DEF Goes
<1> HIDE DEF f, n
<1>5. /\ frames' \in Seq(Frames) /\ Len(frames') = n - 1 + 1
      /\ \A i \in 1 .. n - 1 + 1 :
           frames'[i] = IF i <= n - 1 THEN Front(frames)[i] ELSE <<f>>[i - (n - 1)]
  BY <1>2, <1>3, <1>4, ConcatProperties
<1>6. Len(frames') = n /\ frames'[n] = f
  <2>1. n \in 1 .. n - 1 + 1 /\ ~(n <= n - 1) /\ n - (n - 1) = 1
    BY <1>3
  <2> QED
    BY <1>2, <1>3, <1>5, <2>1
<1>7. \A i \in 1 .. n - 1 : frames'[i] = frames[i]
  <2>1. \A i \in 1 .. n - 1 : i \in 1 .. n - 1 + 1 /\ i <= n - 1
    BY <1>3
  <2> QED
    BY <1>3, <1>5, <2>1, SMTT(60)
<1>8. pc \in places => In(places)'
  BY <1>1, <1>3, <1>6 DEF In
<1>9. In(places) /\ InFront.pc \notin places => In(places)'
  <2> SUFFICES ASSUME In(places), InFront.pc \notin places PROVE In(places)'
    OBVIOUS
  <2> PICK i \in 1 .. n : frames[i].pc \in places
    BY DEF In, n
  <2>1. i \in 1 .. n - 1
    BY <1>3
  <2> QED
    BY <1>3, <1>6, <1>7, <2>1 DEF In
<1> QED
  BY <1>5, <1>8, <1>9

\* The innermost handler returns.
LEMMA PopsFacts ==
  ASSUME frames \in Seq(Frames), frames # <<>>, Pops, NEW places
  PROVE  /\ frames' \in Seq(Frames)
         /\ In(places) /\ InFront.pc \notin places => In(places)'
<1> DEFINE n == Len(frames)
<1>1. /\ n \in Nat \ {0} /\ InFront = frames[n]
      /\ frames' \in Seq(Frames) /\ Len(frames') = n - 1
      /\ \A i \in 1 .. n - 1 : frames'[i] = frames[i]
  BY StackFacts DEF Pops
<1>2. In(places) /\ InFront.pc \notin places => In(places)'
  <2> SUFFICES ASSUME In(places), InFront.pc \notin places PROVE In(places)'
    OBVIOUS
  <2> PICK i \in 1 .. n : frames[i].pc \in places
    BY DEF In
  <2> HIDE DEF n
  <2>1. i \in 1 .. n - 1
    BY <1>1
  <2> QED
    BY <1>1, <2>1 DEF In
<1> QED
  BY <1>1, <1>2

\* A handler runs in the others.
LEMMA PushFacts ==
  ASSUME frames \in Seq(Frames), NEW f \in Frames, frames' = Append(frames, f), NEW places
  PROVE  frames' \in Seq(Frames) /\ (In(places) => In(places)')
<1>1. /\ frames' \in Seq(Frames) /\ Len(frames') = Len(frames) + 1 /\ Len(frames) \in Nat
      /\ \A i \in 1 .. Len(frames) : frames'[i] = frames[i]
  BY AppendProperties, LenProperties
<1> QED
  BY <1>1 DEF In

(* What a step does to the stack, and what it may then do to the rest.     *)

\* The stack stays: nothing is opened, no thread starts.
LEMMA Unmoved ==
  ASSUME WindowInv, UNCHANGED frames, DataOK', PipeReads' => PipeReads, IsOpen' => IsOpen
  PROVE  WindowInv'
BY DEF WindowInv, WindowTypeOK, SomebodyWill, In

\* The innermost handler goes on: from where it still cleans up, to where it does.
LEMMA GoesKeeps ==
  ASSUME WindowInv, frames # <<>>, NEW pc \in Places, NEW shows \in BOOLEAN, Goes(pc, shows),
         DataOK',
         PipeReads' => PipeReads \/ pc \in WillStop, InFront.pc \in WillStop => pc \in WillStop,
         IsOpen' => IsOpen \/ pc \in WillClose, InFront.pc \in WillClose /\ IsOpen' => pc \in WillClose
  PROVE  WindowInv'
<1>1. frames \in Seq(Frames) /\ SomebodyWill
  BY DEF WindowInv, WindowTypeOK
<1>2. frames' \in Seq(Frames)
  BY <1>1, GoesFacts
<1>3. PipeReads' => In(WillStop)'
  <2>1. /\ pc \in WillStop => In(WillStop)'
        /\ In(WillStop) /\ InFront.pc \notin WillStop => In(WillStop)'
    BY <1>1, GoesFacts DEF WillStop
  <2> QED
    BY <1>1, <2>1 DEF SomebodyWill
<1>4. IsOpen' => In(WillClose)'
  <2>1. /\ pc \in WillClose => In(WillClose)'
        /\ In(WillClose) /\ InFront.pc \notin WillClose => In(WillClose)'
    BY <1>1, GoesFacts DEF WillClose, WillStop
  <2> QED
    BY <1>1, <2>1 DEF SomebodyWill
<1>5. SomebodyWill'
  BY <1>3, <1>4 DEF SomebodyWill
<1> QED
  BY <1>2, <1>5 DEF WindowInv, WindowTypeOK

\* The innermost handler returns: it has cleaned up, or had nothing to.
LEMMA PopsKeeps ==
  ASSUME WindowInv, frames # <<>>, Pops, DataOK',
         PipeReads' => PipeReads /\ InFront.pc \notin WillStop,
         IsOpen' => IsOpen /\ InFront.pc \notin WillClose
  PROVE  WindowInv'
<1>1. frames \in Seq(Frames) /\ SomebodyWill
  BY DEF WindowInv, WindowTypeOK
<1>2. /\ frames' \in Seq(Frames)
      /\ In(WillStop) /\ InFront.pc \notin WillStop => In(WillStop)'
      /\ In(WillClose) /\ InFront.pc \notin WillClose => In(WillClose)'
  BY <1>1, PopsFacts DEF WillStop, WillClose
<1>3. SomebodyWill'
  BY <1>1, <1>2 DEF SomebodyWill
<1> QED
  BY <1>2, <1>3 DEF WindowInv, WindowTypeOK

-----------------------------------------------------------------------------
(* Each step keeps the invariant.                                          *)

\* What the buttons become.
LEMMA ButtonsStay ==
  ASSUME NEW b \in Buttons, NEW on \in BOOLEAN
  PROVE  /\ EnableItem(b, "start", on) \in Buttons /\ EnableItem(b, "stop", on) \in Buttons
         /\ \A d \in Dialogs : /\ [b EXCEPT ![d].start = on] \in Buttons
                               /\ [b EXCEPT ![d].stop = on] \in Buttons
<1>1. \A d \in Dialogs : b[d] \in [start: BOOLEAN, stop: BOOLEAN]
  BY DEF Buttons
<1>2. \A d \in Dialogs : /\ [b[d] EXCEPT !["start"] = on] \in [start: BOOLEAN, stop: BOOLEAN]
                         /\ [b[d] EXCEPT !["stop"] = on] \in [start: BOOLEAN, stop: BOOLEAN]
                         /\ [b[d] EXCEPT !.start = on] \in [start: BOOLEAN, stop: BOOLEAN]
                         /\ [b[d] EXCEPT !.stop = on] \in [start: BOOLEAN, stop: BOOLEAN]
  BY <1>1
<1>3. EnableItem(b, "start", on) \in Buttons /\ EnableItem(b, "stop", on) \in Buttons
  BY <1>2 DEF EnableItem, Buttons
<1>4. ASSUME NEW d \in Dialogs
      PROVE  [b EXCEPT ![d].start = on] \in Buttons /\ [b EXCEPT ![d].stop = on] \in Buttons
  BY <1>2 DEF Buttons
<1> QED
  BY <1>3, <1>4

\* What the list of the devices makes of them.
LEMMA ListIsTyped == DataOK => UpdateDeviceList(btn) \in Buttons
<1> SUFFICES ASSUME DataOK PROVE UpdateDeviceList(btn) \in Buttons
  OBVIOUS
<1>1. btn \in Buttons
  BY DEF DataOK
<1>2. EnableItem(btn, "stop", FALSE) \in Buttons /\ EnableItem(btn, "start", TRUE) \in Buttons
  BY <1>1, ButtonsStay
<1>3. /\ EnableItem(EnableItem(btn, "stop", FALSE), "start", FALSE) \in Buttons
      /\ EnableItem(EnableItem(btn, "start", TRUE), "stop", FALSE) \in Buttons
  BY <1>2, ButtonsStay
<1> QED
  BY <1>1, <1>3 DEF UpdateDeviceList

\* OnDeviceChange closes the device or leaves it.
LEMMA NotificationsKeep ==
  ASSUME WindowInv, UNCHANGED uses, DeviceRemoved \/ DeviceArrived PROVE WindowInv'
<1>1. DataOK
  BY DEF WindowInv, WindowTypeOK
<1>2. CASE DeviceRemoved
  <2>1. btn' \in Buttons
    BY <1>1, <1>2, ListIsTyped DEF DeviceRemoved
  <2>2. g_dt' \in Globals /\ (IsOpen' => IsOpen)
    <3> DEFINE st == IF g_dt.fOpInProgress THEN 1 ELSE g_dt.OpState
    <3>1. g_dt \in Globals /\ st \in 0 .. 1
      BY <1>1 DEF DataOK, Globals
    <3>2. g_dt' = [g_dt EXCEPT !.OpState = st, !.UsbIo = "closed"]
      BY <1>2, <3>1 DEF DeviceRemoved, Globals
    <3> HIDE DEF st
    <3> QED
      BY <3>1, <3>2 DEF Globals, IsOpen
  <2> QED
    BY <1>1, <1>2, <2>1, <2>2, Unmoved DEF DataOK, DeviceRemoved, PipeReads
<1>3. CASE DeviceArrived
  <2>1. btn' \in Buttons
    BY <1>1, <1>3, ListIsTyped DEF DeviceArrived
  <2>2. g_dt' \in Globals /\ (IsOpen' => IsOpen)
    <3> DEFINE arms == g_dt.fOpInProgress /\ g_dt.OpState = 1
               st == IF arms THEN 0 ELSE g_dt.OpState
               cnt == g_dt.BtnTimeoutCnt \/ (arms /\ g_dt.OpMode \in Loaders)
    <3>1. g_dt \in Globals /\ st \in 0 .. 1 /\ cnt \in BOOLEAN
      BY <1>1 DEF DataOK, Globals
    <3>2. g_dt' = [g_dt EXCEPT !.EventUserAbort = FALSE, !.WaitSwitchToLoader = TRUE,
                               !.OpState = st, !.BtnTimeoutCnt = cnt]
      BY <1>3, <3>1 DEF DeviceArrived, Globals
    <3> HIDE DEF st, cnt
    <3> QED
      BY <3>1, <3>2 DEF Globals, IsOpen
  <2> QED
    BY <1>1, <1>3, <2>1, <2>2, Unmoved DEF DataOK, DeviceArrived, PipeReads
<1> QED
  BY <1>2, <1>3

\* The timer, the ends of operations, the tabs and the Stop buttons.
LEMMA MessagesKeep ==
  ASSUME WindowInv, UNCHANGED uses,
         \/ TimerEnds \/ OnRdFwEnd \/ OnWrFwEnd
         \/ \E t \in uses : TabChanged(t)
         \/ \E d \in Dialogs : Stop(d)
  PROVE  WindowInv'
<1>1. DataOK
  BY DEF WindowInv, WindowTypeOK
<1>2. CASE TimerEnds
  <2>1. btn' \in Buttons
    BY <1>1, <1>2, ButtonsStay DEF DataOK, TimerEnds
  <2>2. g_dt' \in Globals /\ (IsOpen' => IsOpen)
    BY <1>1, <1>2 DEF DataOK, Globals, TimerEnds, IsOpen
  <2> QED
    BY <1>1, <1>2, <2>1, <2>2, Unmoved DEF DataOK, TimerEnds, PipeReads
<1>3. ASSUME NEW d \in Loaders, OpEnds(d) PROVE WindowInv'
  <2>1. btn' \in Buttons
    BY <1>1, <1>3, ButtonsStay DEF DataOK, OpEnds, Dialogs
  <2> QED
    BY <1>1, <1>3, <2>1, Unmoved DEF DataOK, OpEnds, PipeReads, IsOpen
<1>4. ASSUME NEW t \in uses, TabChanged(t) PROVE WindowInv'
  <2>1. t \in Tabs
    BY <1>1, WindowAssumption DEF DataOK, WindowAssumption
  <2>2. g_dt' \in Globals /\ (IsOpen' => IsOpen)
    BY <1>1, <1>4, <2>1 DEF DataOK, Globals, TabChanged, IsOpen
  <2> QED
    BY <1>1, <1>4, <2>2, Unmoved DEF DataOK, TabChanged, PipeReads
<1>5. ASSUME NEW d \in Dialogs, Stop(d) PROVE WindowInv'
  <2>1. g_dt' \in Globals /\ (IsOpen' => IsOpen)
    BY <1>1, <1>5 DEF DataOK, Globals, Stop, IsOpen
  <2> QED
    BY <1>1, <1>5, <2>1, Unmoved DEF DataOK, Stop, PipeReads
<1> QED
  BY <1>2, <1>3, <1>4, <1>5 DEF OnRdFwEnd, OnWrFwEnd, Loaders

\* The reader thread has reads pending only while it runs; the device makes
\* a handle stale, never open.
LEMMA PumpedKeep ==
  ASSUME WindowInv, UNCHANGED uses,
         Submits \/ ReaderGivesUp \/ ProcessData \/ Leaves \/ Comes
  PROVE  WindowInv'
<1>1. DataOK
  BY DEF WindowInv, WindowTypeOK
<1>2. CASE Submits
  <2>1. pipe' \in Pipes /\ (PipeReads' => PipeReads)
    BY <1>1, <1>2 DEF DataOK, Pipes, Submits, PipeReads
  <2> QED
    BY <1>1, <1>2, <2>1, Unmoved DEF DataOK, Submits, IsOpen
<1>3. CASE ReaderGivesUp
  <2>1. pipe' \in Pipes /\ (PipeReads' => PipeReads)
    BY <1>1, <1>3 DEF DataOK, Pipes, ReaderGivesUp, PipeReads
  <2> QED
    BY <1>1, <1>3, <2>1, Unmoved DEF DataOK, ReaderGivesUp, IsOpen
<1>4. CASE ProcessData
  <2>1. g_dt' \in Globals /\ (IsOpen' => IsOpen)
    BY <1>1, <1>4 DEF DataOK, Globals, ProcessData, IsOpen
  <2> QED
    BY <1>1, <1>4, <2>1, Unmoved DEF DataOK, ProcessData, PipeReads
<1>5. CASE Leaves
  <2>1. g_dt' \in Globals /\ (IsOpen' => IsOpen)
    BY <1>1, <1>5 DEF DataOK, Globals, Leaves, IsOpen
  <2>2. pipe' \in Pipes /\ (PipeReads' => PipeReads)
    BY <1>1, <1>5 DEF DataOK, Pipes, Leaves, PipeReads
  <2> QED
    BY <1>1, <1>5, <2>1, <2>2, Unmoved DEF DataOK, Leaves
<1>6. CASE Comes
  BY <1>1, <1>6, Unmoved DEF DataOK, Comes, PipeReads, IsOpen
<1> QED
  BY <1>2, <1>3, <1>4, <1>5, <1>6

\* The Start button: a handler more, that has nothing to clean up yet; or one
\* less, that could not get its file.
LEMMA StartsKeep ==
  ASSUME WindowInv, UNCHANGED uses, NEW d \in Dialogs, Start(d) \/ NoFile(d)
  PROVE  WindowInv'
<1>1. DataOK
  BY DEF WindowInv, WindowTypeOK
<1>2. CASE Start(d)
  <2> PICK ok \in BOOLEAN :
       /\ frames' = Append(frames, [dlg |-> d, pc |-> IF ok THEN "open" ELSE "nofile",
                                    box |-> ~ok])
       /\ g_dt' = LET g == [g_dt EXCEPT !.NowFWLoader = FALSE,
                                        !.fOpInProgress = @ \/ d \in Loaders]
                  IN  IF ~ok THEN g
                      ELSE [g EXCEPT !.EnableTabPageChanging = FALSE,
                                     !.EventUserAbort = FALSE,
                                     !.WaitSwitchToLoader = FALSE]
    BY <1>2 DEF Start
  <2> DEFINE f == [dlg |-> d, pc |-> IF ok THEN "open" ELSE "nofile", box |-> ~ok]
  <2>1. f \in Frames
    BY DEF Frames, Places
  <2>2. /\ frames' \in Seq(Frames)
        /\ In(WillStop) => In(WillStop)'
        /\ In(WillClose) => In(WillClose)'
    <3>1. frames \in Seq(Frames) /\ frames' = Append(frames, f)
      BY DEF WindowInv, WindowTypeOK
    <3> HIDE DEF f
    <3> QED
      BY <2>1, <3>1, PushFacts
  <2>3. g_dt' \in Globals /\ (IsOpen' => IsOpen)
    BY <1>1 DEF DataOK, Globals, IsOpen
  <2>4. btn' \in Buttons
    BY <1>1, <1>2, ButtonsStay DEF DataOK, Start
  <2> QED
    BY <1>1, <1>2, <2>2, <2>3, <2>4 DEF DataOK, WindowInv, WindowTypeOK, SomebodyWill, Start, PipeReads
<1>3. CASE NoFile(d)
  <2>1. frames # <<>> /\ InFront.pc = "nofile"
    BY <1>3 DEF NoFile, Runs
  <2>2. btn' \in Buttons
    <3> DEFINE on == d \in Loaders
    <3>1. on \in BOOLEAN /\ btn' = [btn EXCEPT ![d].start = on]
      BY <1>3 DEF NoFile
    <3> HIDE DEF on
    <3> QED
      BY <1>1, <3>1, ButtonsStay DEF DataOK
  <2>3. g_dt' \in Globals /\ (IsOpen' => IsOpen)
    BY <1>1, <1>3 DEF DataOK, Globals, NoFile, IsOpen
  <2> QED
    BY <1>1, <1>3, <2>1, <2>2, <2>3, PopsKeeps DEF DataOK, NoFile, PipeReads, WillStop, WillClose
<1> QED
  BY <1>2, <1>3

\* A box is closed.
LEMMA BoxKeeps ==
  ASSUME WindowInv, UNCHANGED uses, BoxIsClosed PROVE WindowInv'
<1>1. DataOK /\ frames # <<>> /\ Goes(InFront.pc, FALSE) /\ UNCHANGED <<btn, g_dt, pipe>>
  BY DEF WindowInv, WindowTypeOK, BoxIsClosed
<1>2. InFront.pc \in Places
  BY <1>1, StackFacts DEF WindowInv, WindowTypeOK, Frames
<1>3. DataOK' /\ (PipeReads' => PipeReads) /\ (IsOpen' => IsOpen)
  BY <1>1 DEF DataOK, PipeReads, IsOpen
<1> DEFINE pc == InFront.pc
<1> HIDE DEF pc
<1> QED
  BY <1>1, <1>2, <1>3, GoesKeeps

\* The device is opened and asked which program it runs, or asked to switch to
\* the loader.  A handler that leaves here has closed the device.
LEMMA OpeningKeeps ==
  ASSUME WindowInv, UNCHANGED uses, NEW d \in Dialogs,
         Opens(d) \/ IsFWU(d) \/ Switched(d) \/ SwitchFails(d) \/ NotNow
  PROVE  WindowInv'
<1>1. DataOK
  BY DEF WindowInv, WindowTypeOK
<1>2. ASSUME NEW to \in WillClose \ WillStop, OpenDevice(to), frames # <<>>,
             InFront.pc \notin WillStop, UNCHANGED <<btn, pipe>>
      PROVE  WindowInv'
  <2>1. g_dt' \in Globals
    BY <1>1, <1>2 DEF DataOK, Globals, OpenDevice
  <2>2. to \in Places
    BY DEF WillClose, WillStop, Places
  <2>3. DataOK' /\ (PipeReads' => PipeReads)
    BY <1>1, <1>2, <2>1 DEF DataOK, PipeReads
  <2> DEFINE shows == g_dt.UsbIo # "closed"
  <2>4. shows \in BOOLEAN /\ Goes(to, shows)
    BY <1>2 DEF OpenDevice
  <2> HIDE DEF shows
  <2> QED
    BY <1>2, <2>2, <2>3, <2>4, GoesKeeps
<1>3. CASE Opens(d)
  BY <1>2, <1>3 DEF Opens, Runs, WillClose, WillStop
<1>4. CASE Switched(d)
  BY <1>2, <1>4 DEF Switched, Runs, WillClose, WillStop
<1>5. CASE IsFWU(d)
  <2>1. frames # <<>> /\ InFront.pc = "asks" /\ UNCHANGED <<btn, pipe>>
    BY <1>5 DEF IsFWU, Runs
  <2>2. CASE Goes("bind", FALSE) /\ g_dt' = [g_dt EXCEPT !.NowFWLoader = TRUE]
    <3>1. g_dt' \in Globals
      BY <1>1, <2>2 DEF DataOK, Globals
    <3> QED
      BY <1>1, <2>1, <2>2, <3>1, GoesKeeps DEF DataOK, PipeReads, WillClose, WillStop, Places
  <2>3. CASE Goes("isfwu", TRUE) /\ g_dt' = [g_dt EXCEPT !.UsbIo = "closed"]
    <3>1. g_dt' \in Globals /\ ~IsOpen'
      BY <1>1, <2>3 DEF DataOK, Globals, IsOpen
    <3> QED
      BY <1>1, <2>1, <2>3, <3>1, GoesKeeps DEF DataOK, PipeReads, WillClose, WillStop, Places
  <2>4. CASE Goes(IF d \in Loaders THEN "switch" ELSE "bind", FALSE) /\ UNCHANGED g_dt
    BY <1>1, <2>1, <2>4, GoesKeeps DEF DataOK, PipeReads, WillClose, WillStop, Places
  <2> QED
    BY <1>5, <2>2, <2>3, <2>4 DEF IsFWU
<1>6. CASE SwitchFails(d)
  <2>1. frames # <<>> /\ InFront.pc = "switch" /\ Pops
    BY <1>6 DEF SwitchFails, Runs
  <2>2. btn' \in Buttons
    BY <1>1, <1>6, ButtonsStay DEF DataOK, SwitchFails
  <2>3. g_dt' \in Globals /\ ~IsOpen'
    BY <1>1, <1>6 DEF DataOK, Globals, SwitchFails, IsOpen
  <2> QED
    BY <1>1, <1>6, <2>1, <2>2, <2>3, PopsKeeps DEF DataOK, SwitchFails, PipeReads, WillStop
<1>7. CASE NotNow
  <2>1. frames # <<>> /\ InFront.pc = "isfwu" /\ Pops
    BY <1>7 DEF NotNow, Runs
  <2>2. btn' \in Buttons
    BY <1>1, <1>7, ButtonsStay DEF DataOK, NotNow, Dialogs
  <2>3. g_dt' \in Globals /\ (IsOpen' => IsOpen)
    BY <1>1, <1>7 DEF DataOK, Globals, NotNow, IsOpen
  <2> QED
    BY <1>1, <1>7, <2>1, <2>2, <2>3, PopsKeeps DEF DataOK, NotNow, PipeReads, WillStop, WillClose
<1> QED
  BY <1>3, <1>4, <1>5, <1>6, <1>7

\* The pipe is bound, the thread started and the command given.
LEMMA CommandsKeep ==
  ASSUME WindowInv, UNCHANGED uses, NEW d \in Dialogs,
         BindPipe(d) \/ StartPipe(d) \/ Command(d)
  PROVE  WindowInv'
<1>1. DataOK
  BY DEF WindowInv, WindowTypeOK
<1>2. CASE BindPipe(d)
  <2>1. frames # <<>> /\ InFront.pc = "bind"
    BY <1>2 DEF BindPipe, Runs
  <2>2. btn' \in Buttons
    BY <1>1, <1>2, ButtonsStay DEF DataOK, BindPipe
  <2> PICK ok \in {FALSE, dev.present} :
        pipe' = [pipe EXCEPT !.bound = @ \/ ok] /\ Goes("start", ~pipe'.bound)
    BY <1>2 DEF BindPipe
  <2>3. pipe' \in Pipes /\ (PipeReads' => PipeReads)
    BY <1>1 DEF DataOK, Pipes, PipeReads
  <2> DEFINE shows == ~pipe'.bound
  <2>4. shows \in BOOLEAN /\ Goes("start", shows)
    OBVIOUS
  <2> HIDE DEF shows
  <2> QED
    BY <1>1, <1>2, <2>1, <2>2, <2>3, <2>4, GoesKeeps
       DEF DataOK, BindPipe, WillClose, WillStop, Places
<1>3. CASE StartPipe(d)
  <2>1. frames # <<>> /\ InFront.pc = "start"
    BY <1>3 DEF StartPipe, Runs
  <2>2. pipe' \in Pipes
    BY <1>1, <1>3 DEF DataOK, Pipes, StartPipe
  <2>3. pipe.thread \in BOOLEAN /\ Goes("command", pipe.thread)
    BY <1>1, <1>3 DEF DataOK, Pipes, StartPipe
  <2> QED
    BY <1>1, <1>3, <2>1, <2>2, <2>3, GoesKeeps
       DEF DataOK, StartPipe, IsOpen, WillClose, WillStop, Places
<1>4. CASE Command(d)
  <2>1. frames # <<>> /\ InFront.pc = "command" /\ UNCHANGED <<btn, pipe>>
    BY <1>4 DEF Command, Runs
  <2>2. /\ \E pc \in WillStop : Goes(pc, FALSE)
        /\ g_dt' \in Globals /\ (IsOpen' => IsOpen)
    BY <1>1, <1>4 DEF Command, DataOK, Globals, IsOpen, WillStop
  <2> PICK pc \in WillStop : Goes(pc, FALSE)
    BY <2>2
  <2>3. pc \in Places /\ pc \in WillClose
    BY DEF Places, WillStop, WillClose
  <2> QED
    BY <1>1, <2>1, <2>2, <2>3, GoesKeeps DEF DataOK, PipeReads
<1> QED
  BY <1>2, <1>3, <1>4

\* The answers are waited for; at the end the thread is stopped and the device
\* closed, whoever had started and opened them.
LEMMA EndsKeep ==
  ASSUME WindowInv, UNCHANGED uses,
         \/ \E d \in Loaders : Final(d)
         \/ \E d \in Loaders, pc \in {"wait", "written"} : Response(d, pc)
         \/ RegOpEnds
  PROVE  WindowInv'
<1>1. DataOK
  BY DEF WindowInv, WindowTypeOK
<1>2. ASSUME NEW d \in Loaders, NEW at \in {"wait", "written"}, Response(d, at)
      PROVE  WindowInv'
  <2>1. frames # <<>> /\ UNCHANGED <<btn, pipe>>
    BY <1>2 DEF Response, Runs
  <2>2. /\ \E pc \in WillStop : Goes(pc, FALSE)
        /\ g_dt' \in Globals /\ (IsOpen' => IsOpen)
    BY <1>1, <1>2 DEF Response, DataOK, Globals, IsOpen, WillStop
  <2> PICK pc \in WillStop : Goes(pc, FALSE)
    BY <2>2
  <2>3. pc \in Places /\ pc \in WillClose
    BY DEF Places, WillStop, WillClose
  <2> QED
    BY <1>1, <2>1, <2>2, <2>3, GoesKeeps DEF DataOK, PipeReads
<1>3. ASSUME Pops, frames # <<>>, pipe' = Stopped, btn' \in Buttons,
             g_dt' \in Globals, ~IsOpen'
      PROVE  WindowInv'
  <2>1. pipe' \in Pipes /\ ~PipeReads'
    BY <1>1, <1>3 DEF DataOK, Pipes, Stopped, PipeReads
  <2> QED
    BY <1>1, <1>3, <2>1, PopsKeeps DEF DataOK
<1>4. ASSUME NEW d \in Loaders, Final(d) PROVE WindowInv'
  <2>1. g_dt' \in Globals /\ ~IsOpen'
    BY <1>1, <1>4 DEF DataOK, Globals, Final, IsOpen
  <2> QED
    BY <1>1, <1>3, <1>4, <2>1 DEF DataOK, Final, Runs
<1>5. CASE RegOpEnds
  <2>1. g_dt' \in Globals /\ ~IsOpen'
    BY <1>1, <1>5 DEF DataOK, Globals, RegOpEnds, IsOpen
  <2>2. btn' \in Buttons
    BY <1>1, <1>5 DEF DataOK, Buttons, RegOpEnds
  <2> QED
    BY <1>3, <1>5, <2>1, <2>2 DEF RegOpEnds, Runs
<1> QED
  BY <1>2, <1>4, <1>5

-----------------------------------------------------------------------------
\* However deep the handlers run in one another, whichever tabs the user goes to
\* and however often the device comes and goes: while the reader thread runs or
\* the device is open, some handler has the end of a session ahead of it
\* (CReadFWDlg, CWriteFWDlg and CRegOpDlg, from OpenDevice to Stop and Close).
THEOREM WindowInvariant == WindowSpec => []WindowInv
<1>1. WindowInit => WindowInv
  <2> SUFFICES ASSUME WindowInit PROVE WindowInv
    OBVIOUS
  <2>1. g_dt \in Globals /\ ~IsOpen
    BY DEF WindowInit, Globals, Tabs, Dialogs, Loaders, IsOpen
  <2>2. btn \in Buttons
    BY DEF WindowInit, Buttons
  <2>3. pipe \in Pipes /\ ~PipeReads
    BY DEF WindowInit, Pipes, PipeReads
  <2>4. frames \in Seq(Frames) /\ uses \in Uses
    BY DEF WindowInit
  <2> QED
    BY <2>1, <2>2, <2>3, <2>4 DEF WindowInv, WindowTypeOK, DataOK, SomebodyWill
<1>2. WindowInv /\ [WindowNext]_wvars => WindowInv'
  <2> SUFFICES ASSUME WindowInv, [WindowNext]_wvars PROVE WindowInv'
    OBVIOUS
  <2>1. CASE UNCHANGED wvars
    BY <2>1, Unmoved DEF wvars, WindowInv, WindowTypeOK, DataOK, PipeReads, IsOpen
  <2>2. CASE WindowNext
    <3>1. UNCHANGED uses /\ WindowStep
      BY <2>2 DEF WindowNext
    <3> QED
      BY <3>1, NotificationsKeep, MessagesKeep, PumpedKeep, StartsKeep, BoxKeeps,
         OpeningKeeps, CommandsKeep, EndsKeep DEF WindowStep, Dialogs
  <2> QED
    BY <2>1, <2>2
<1> QED
  BY <1>1, <1>2, PTL DEF WindowSpec

\* The run's property: when the last handler has returned, the device is closed
\* and the reader thread and its reads are gone.
THEOREM WindowCleansUp == WindowSpec => []SessionCleansUp
<1>1. WindowInv => SessionCleansUp
  <2> SUFFICES ASSUME WindowInv, frames = <<>> PROVE ~PipeReads /\ ~IsOpen
    BY DEF SessionCleansUp, PipeReads, IsOpen
  <2>1. ~In(WillStop) /\ ~In(WillClose)
    BY DEF In
  <2> QED
    BY <2>1 DEF WindowInv, SomebodyWill
<1> QED
  BY <1>1, WindowInvariant, PTL

-----------------------------------------------------------------------------
(* The history of file names, for every set of texts and number of items   *)
(* kept: it comes back as it was left, in its order.                       *)

Value(i, text) == [name |-> ItemName(i), text |-> text]

\* The values of names from the a-th on with the texts of s.
Items(a, s) == [i \in 1 .. Len(s) |-> Value(a + i - 1, s[i])]
Names(a, n) == [i \in 1 .. n |-> ItemName(a + i - 1)]

\* What is left to delete is what the registry has, the end of the last history;
\* what is written are the first items; otherwise it is as it was left.
Rest(a, d) ==
  /\ registry[RegKey] = Items(a, SubSeq(whole, d + 1, Len(whole)))
  /\ sa = Names(a, Len(whole) - d)
Deleting == RegKey \in DOMAIN registry /\ \E a, d \in Nat : d <= Len(whole) /\ Rest(a, d)
Writing ==
  /\ RegKey \in DOMAIN registry /\ next <= Len(ToKeep)
  /\ registry[RegKey] = Items(0, SubSeq(ToKeep, 1, next))
AsLeft == IF RegKey \in DOMAIN registry THEN \E a \in Nat : registry[RegKey] = Items(a, whole)
          ELSE whole = <<>>

HistoryShape ==
  /\ byName \in BOOLEAN
  /\ DOMAIN registry \subseteq {HKCU, RegKey} /\ HKCU \in DOMAIN registry
  /\ registry[HKCU] = <<Foreign>>
  /\ save \in {"off", "created", "on", "deletes", "writes"}
  /\ save \in {"on", "deletes", "writes"} => box \in Seq(Texts)
  /\ whole \in Seq(Texts)
  /\ next \in Nat /\ (save # "writes" => next = 0)

HistoryInv ==
  /\ HistoryShape
  /\ save = "deletes" => Deleting
  /\ save = "writes" => Writing
  /\ save \in {"off", "created", "on"} => AsLeft

-----------------------------------------------------------------------------
\* Remainder and quotient.
LEMMA Digits ==
  ASSUME NEW i \in Nat
  PROVE  /\ i \div Radix \in Nat /\ i % Radix \in 0 .. Radix - 1
         /\ i = Radix * (i \div Radix) + (i % Radix)
<1>1. Radix \in Nat /\ Radix > 0
  BY HistoryAssumption
<1>2. i \div Radix \in Int /\ i % Radix \in 0 .. Radix - 1
  BY <1>1
<1>3. i = Radix * (i \div Radix) + (i % Radix)
  BY <1>1, <1>2, Z3
<1>4. i \div Radix >= 0
  <2> SUFFICES ASSUME i \div Radix <= 0 - 1 PROVE FALSE
    BY <1>2
  <2> DEFINE q == i \div Radix
  <2>1. q \in Int /\ q <= 0 - 1
    BY <1>2
  <2> HIDE DEF q
  <2>2. Radix * q <= 0 - Radix
    BY <1>1, <2>1, Z3
  <2> QED
    BY <1>1, <1>2, <1>3, <2>2 DEF q
<1> QED
  BY <1>2, <1>3, <1>4

\* A later number is larger, digit by digit.
LEMMA DigitsGrow ==
  ASSUME NEW i \in Nat, NEW j \in Nat, i < j
  PROVE  i \div Radix < j \div Radix \/ (i \div Radix = j \div Radix /\ i % Radix < j % Radix)
<1> DEFINE q == i \div Radix
           p == j \div Radix
           r == i % Radix
           t == j % Radix
<1>1. Radix \in Nat /\ Radix > 0
  BY HistoryAssumption
<1>2. /\ q \in Nat /\ p \in Nat /\ r \in 0 .. Radix - 1 /\ t \in 0 .. Radix - 1
      /\ i = Radix * q + r /\ j = Radix * p + t
  BY Digits
<1> HIDE DEF q, p, r, t
<1>3. CASE p < q
  <2>1. Radix * p + Radix <= Radix * q
    <3>1. Radix * (p + 1) <= Radix * q
      BY <1>1, <1>2, <1>3, Z3
    <3> QED
      BY <3>1, <1>1, <1>2, Z3
  <2> QED
    BY <1>1, <1>2, <2>1
<1>4. CASE q = p
  BY <1>1, <1>2, <1>4
<1>5. CASE q < p
  BY <1>5 DEF q, p
<1> QED
  BY <1>2, <1>3, <1>4, <1>5 DEF q, p, r, t

\* The beginning of a name.
LEMMA Beginning ==
  ASSUME NEW a \in Nat, NEW b \in Nat
  PROVE  /\ Len(<<a, b>>) = 2 /\ SubSeq(<<a, b>>, 1, 0) = <<>> /\ SubSeq(<<a, b>>, 1, 1) = <<a>>
<1> DEFINE x == <<a, b>>
<1>1. x \in Seq(Nat) /\ Len(x) = 2 /\ x[1] = a
  OBVIOUS
<1> HIDE DEF x
<1>2. SubSeq(x, 1, 0) = [i \in 1 .. 0 |-> x[i]]
  BY <1>1
<1>3. SubSeq(x, 1, 1) = [i \in 1 .. 1 |-> x[i]]
  BY <1>1
<1>4. [i \in 1 .. 0 |-> x[i]] = <<>>
  OBVIOUS
<1>5. [i \in 1 .. 1 |-> x[i]] = <<a>>
  BY <1>1
<1> QED
  BY <1>1, <1>2, <1>3, <1>4, <1>5 DEF x

\* Names of two characters are in order by the first, then by the second.
LEMMA NamesOrdered ==
  ASSUME NEW v, NEW w, NEW a \in Nat, NEW b \in Nat, NEW c \in Nat, NEW d \in Nat,
         v.name = <<a, b>>, w.name = <<c, d>>
  PROVE  NameBefore(v, w) <=> a < c \/ (a = c /\ b < d)
<1> DEFINE x == <<a, b>>
           y == <<c, d>>
           First(n) == SubSeq(x, 1, n) = SubSeq(y, 1, n) /\ (n = 2 \/ x[n + 1] < y[n + 1])
<1>1. /\ Len(x) = 2 /\ Len(y) = 2 /\ x[1] = a /\ x[2] = b /\ y[1] = c /\ y[2] = d
      /\ SubSeq(x, 1, 0) = <<>> /\ SubSeq(y, 1, 0) = <<>>
      /\ SubSeq(x, 1, 1) = <<a>> /\ SubSeq(y, 1, 1) = <<c>>
  BY Beginning
<1>2. NameBefore(v, w) <=> \E n \in 0 .. 2 : n < 2 /\ First(n)
  BY <1>1 DEF NameBefore
<1>3. First(0) <=> a < c
  BY <1>1
<1>4. First(1) <=> a = c /\ b < d
  <2>1. <<a>> = <<c>> <=> a = c
    OBVIOUS
  <2> HIDE DEF x, y
  <2>2. x[1 + 1] = b /\ y[1 + 1] = d /\ (1 = 2 <=> FALSE)
    BY <1>1
  <2> QED
    BY <1>1, <2>1, <2>2
<1> HIDE DEF First
<1>5. (\E n \in 0 .. 2 : n < 2 /\ First(n)) <=> First(0) \/ First(1)
  <2>1. \A n \in 0 .. 2 : n < 2 => n = 0 \/ n = 1
    OBVIOUS
  <2>2. 0 \in 0 .. 2 /\ 1 \in 0 .. 2 /\ 0 < 2 /\ 1 < 2
    OBVIOUS
  <2> QED
    BY <2>1, <2>2
<1> QED
  BY <1>2, <1>3, <1>4, <1>5

\* "Item %#2d": the names of items are ordered as their numbers.
LEMMA ItemsOrdered ==
  ASSUME NEW i \in Nat, NEW j \in Nat, i < j, NEW v, NEW w,
         v.name = ItemName(i), w.name = ItemName(j)
  PROVE  NameBefore(v, w) /\ ~NameBefore(w, v) /\ ItemName(i) # ItemName(j)
<1> DEFINE a == IF i < Radix THEN Blank ELSE 1 + i \div Radix
           b == 1 + (i % Radix)
           c == IF j < Radix THEN Blank ELSE 1 + j \div Radix
           d == 1 + (j % Radix)
<1>1. /\ i \div Radix \in Nat /\ i % Radix \in 0 .. Radix - 1
      /\ j \div Radix \in Nat /\ j % Radix \in 0 .. Radix - 1
      /\ i \div Radix < j \div Radix \/ (i \div Radix = j \div Radix /\ i % Radix < j % Radix)
      /\ Radix \in Nat /\ Radix > 0
  <2>1. Radix \in Nat /\ Radix > 0
    BY HistoryAssumption
  <2>2. i \div Radix \in Nat /\ i % Radix \in 0 .. Radix - 1
    BY Digits
  <2>3. j \div Radix \in Nat /\ j % Radix \in 0 .. Radix - 1
    BY Digits
  <2>4. i \div Radix < j \div Radix \/ (i \div Radix = j \div Radix /\ i % Radix < j % Radix)
    BY DigitsGrow
  <2> QED
    BY <2>1, <2>2, <2>3, <2>4
<1>2. /\ a \in Nat /\ b \in Nat /\ c \in Nat /\ d \in Nat
  BY <1>1 DEF Blank
<1>3. v.name = <<a, b>> /\ w.name = <<c, d>> /\ ItemName(i) = <<a, b>> /\ ItemName(j) = <<c, d>>
  BY DEF ItemName
<1>4. a < c \/ (a = c /\ b < d)
  <2>1. CASE i < Radix /\ j < Radix
    <3>1. i % Radix = i /\ j % Radix = j
      BY <2>1, <1>1
    <3> QED
      BY <2>1, <3>1
  <2>2. CASE i < Radix /\ ~(j < Radix)
    BY <2>2, <1>1 DEF Blank
  <2>3. CASE ~(i < Radix)
    BY <2>3, <1>1
  <2> QED
    BY <2>1, <2>2, <2>3
<1> HIDE DEF a, b, c, d
<1>5. NameBefore(v, w) /\ ~NameBefore(w, v)
  <2>1. NameBefore(v, w) <=> a < c \/ (a = c /\ b < d)
    BY <1>2, <1>3, NamesOrdered, SMTT(60)
  <2>2. NameBefore(w, v) <=> c < a \/ (c = a /\ d < b)
    BY <1>2, <1>3, NamesOrdered, SMTT(60)
  <2> QED
    BY <2>1, <2>2, <1>2, <1>4
<1>6. <<a, b>> # <<c, d>>
  BY <1>2, <1>4
<1> QED
  BY <1>3, <1>5, <1>6

\* A set of numbers that is not empty has a least one.
LEMMA LeastOf ==
  ASSUME NEW T, T \subseteq Nat, T # {}
  PROVE  \E x \in T : \A y \in T : x <= y
<1> DEFINE Less == {ss \in Nat \X Nat : ss[1] < ss[2]}
<1>1. IsWellFoundedOn(Less, Nat)
  <2>1. Less = OpToRel(<, Nat)
    BY Zenon DEF OpToRel
  <2> QED
    BY <2>1, NatLessThanWellFounded, Zenon
<1>2. PICK x \in T : \A y \in T : ~(<<y, x>> \in Less)
  BY <1>1, WFMin
<1>3. \A y \in T : ~(y < x)
  BY <1>2
<1> QED
  BY <1>2, <1>3

\* What holds of 0 and is handed on holds of every number.
LEMMA HandedOn ==
  ASSUME NEW n \in Nat, NEW X, 0 \in X, \A i \in 1 .. n : i - 1 \in X => i \in X
  PROVE  0 .. n \subseteq X
<1> DEFINE T == 0 .. n \ X
<1> SUFFICES ASSUME T # {} PROVE FALSE
  OBVIOUS
<1>1. PICK m \in T : \A y \in T : m <= y
  <2>1. T \subseteq Nat
    OBVIOUS
  <2> QED
    BY <2>1, LeastOf
<1>2. m # 0 /\ m \in 1 .. n /\ m - 1 \in 0 .. n /\ ~(m <= m - 1)
  BY <1>1
<1> QED
  BY <1>1, <1>2

\* Only the identity maps 1 .. n into itself and keeps the order.
LEMMA OnlyIdentity ==
  ASSUME NEW n \in Nat, NEW p \in [1 .. n -> 1 .. n],
         \A i, j \in 1 .. n : i < j => p[i] < p[j]
  PROVE  \A i \in 1 .. n : p[i] = i
<1> DEFINE X == {i \in 0 .. n : i = 0 \/ p[i] >= i}
           Y == {m \in 0 .. n : m = n \/ p[n - m] <= n - m}
<1>1. 0 .. n \subseteq X
  <2>1. 0 \in X
    OBVIOUS
  <2>2. ASSUME NEW i \in 1 .. n, i - 1 \in X PROVE i \in X
    <3>1. CASE i = 1
      BY <3>1
    <3>2. CASE i # 1
      <4>1. i - 1 \in 1 .. n /\ i - 1 < i /\ p[i] \in Int /\ p[i - 1] \in Int
        BY <3>2
      <4>2. p[i - 1] < p[i] /\ p[i - 1] >= i - 1
        BY <4>1, <2>2
      <4> QED
        BY <4>1, <4>2
    <3> QED
      BY <3>1, <3>2
  <2> HIDE DEF X
  <2> QED
    BY <2>1, <2>2, HandedOn
<1>2. 0 .. n \subseteq Y
  <2>1. 0 \in Y
    <3>1. n = 0 \/ n \in 1 .. n
      OBVIOUS
    <3> QED
      BY <3>1
  <2>2. ASSUME NEW m \in 1 .. n, m - 1 \in Y PROVE m \in Y
    <3>1. CASE m = n
      BY <3>1
    <3>2. CASE m # n
      <4> DEFINE i == n - m
      <4>1. i \in 1 .. n /\ i + 1 \in 1 .. n /\ n - (m - 1) = i + 1 /\ m - 1 # n
        BY <3>2
      <4>2. p[i + 1] <= i + 1
        BY <4>1, <2>2
      <4>3. p[i] < p[i + 1] /\ p[i] \in Int /\ p[i + 1] \in Int
        BY <4>1
      <4> QED
        BY <4>1, <4>2, <4>3
    <3> QED
      BY <3>1, <3>2
  <2> HIDE DEF Y
  <2> QED
    BY <2>1, <2>2, HandedOn
<1>3. ASSUME NEW i \in 1 .. n PROVE p[i] = i
  <2>1. i \in X /\ n - i \in Y /\ i \in 0 .. n /\ n - (n - i) = i /\ n - i # n
    <3>1. i \in 0 .. n /\ n - i \in 0 .. n /\ n - (n - i) = i /\ n - i # n
      OBVIOUS
    <3> HIDE DEF X, Y
    <3> QED
      BY <3>1, <1>1, <1>2
  <2>2. p[i] \in Int /\ p[i] >= i /\ p[i] <= i
    BY <2>1
  <2> QED
    BY <2>2
<1> QED
  BY <1>3

\* Enumerating what is in the order of the names changes nothing.
LEMMA SortedIs ==
  ASSUME NEW n \in Nat, NEW s, s = [i \in 1 .. n |-> s[i]],
         \A x, y \in 1 .. n : NameBefore(s[x], s[y]) <=> x < y
  PROVE  Sorted(s) = s
<1> DEFINE Keeps(p) == \A i, j \in 1 .. n : i < j => NameBefore(s[p[i]], s[p[j]])
           order == CHOOSE p \in [1 .. n -> 1 .. n] : Keeps(p)
<1>1. DOMAIN s = 1 .. n
  OBVIOUS
<1>2. order \in [1 .. n -> 1 .. n] /\ Keeps(order)
  <2> DEFINE id == [i \in 1 .. n |-> i]
  <2>1. id \in [1 .. n -> 1 .. n] /\ Keeps(id)
    OBVIOUS
  <2> HIDE DEF Keeps, id
  <2> QED
    BY <2>1
<1>3. Sorted(s) = [i \in 1 .. n |-> s[order[i]]]
  BY <1>1 DEF Sorted
<1> HIDE DEF order
<1>4. \A i, j \in 1 .. n : i < j => order[i] < order[j]
  BY <1>2
<1>5. \A i \in 1 .. n : order[i] = i
  BY <1>2, <1>4, OnlyIdentity
<1> QED
  BY <1>3, <1>5

-----------------------------------------------------------------------------
\* A value is found by its name.
Single(k, name, i) ==
  /\ Len(registry[k]) \in Nat /\ i \in 1 .. Len(registry[k])
  /\ \A j \in 1 .. Len(registry[k]) : registry[k][j].name = name <=> j = i
LEMMA PlaceIs ==
  ASSUME NEW k, NEW name, NEW i, Single(k, name, i)
  PROVE  Place(k, name) = i
<1> DEFINE n == Len(registry[k])
<1>0. n \in Nat /\ i \in 1 .. n /\ \A j \in 1 .. n : registry[k][j].name = name <=> j = i
  BY DEF Single
<1> DEFINE I == {j \in 1 .. n : registry[k][j].name = name}
<1>1. I = {i}
  BY <1>0
<1>2. Place(k, name) = IF I # {} THEN CHOOSE x \in I : \A y \in I : x <= y ELSE 0
  BY DEF Place, SelectInSeq, Min
<1> HIDE DEF I
<1>3. (CHOOSE x \in I : \A y \in I : x <= y) = i
  BY <1>1
<1> QED
  BY <1>1, <1>2, <1>3

LEMMA NoPlace ==
  ASSUME NEW k, NEW n \in Nat, Len(registry[k]) = n, NEW name,
         \A j \in 1 .. n : registry[k][j].name # name
  PROVE  Place(k, name) = 0
<1> DEFINE I == {j \in 1 .. n : registry[k][j].name = name}
<1>1. I = {}
  OBVIOUS
<1>2. Place(k, name) = IF I # {} THEN CHOOSE x \in I : \A y \in I : x <= y ELSE 0
  BY DEF Place, SelectInSeq, Min
<1> QED
  BY <1>1, <1>2

\* The items of a list, and their names.
ItemsAre(s, a, t) ==
  /\ DOMAIN s = 1 .. Len(t) /\ Len(s) = Len(t) /\ s = [i \in 1 .. Len(t) |-> s[i]]
  /\ \A i \in 1 .. Len(t) : s[i].name = ItemName(a + i - 1) /\ s[i].text = t[i]
  /\ \A i, j \in 1 .. Len(t) : /\ NameBefore(s[i], s[j]) <=> i < j
                               /\ s[i].name = s[j].name => i = j
LEMMA ItemsFacts ==
  ASSUME NEW S, NEW t \in Seq(S), NEW a \in Nat
  PROVE  ItemsAre(Items(a, t), a, t)
<1> DEFINE s == Items(a, t)
           n == Len(t)
<1>0. n \in Nat
  OBVIOUS
<1>1. s = [i \in 1 .. n |-> Value(a + i - 1, t[i])]
  BY DEF Items
<1> HIDE DEF s, n
<1>2. DOMAIN s = 1 .. n /\ Len(s) = n /\ s = [i \in 1 .. n |-> s[i]]
  BY <1>0, <1>1
<1>3. \A i \in 1 .. n : s[i].name = ItemName(a + i - 1) /\ s[i].text = t[i]
  BY <1>1 DEF Value
<1>4. ASSUME NEW i \in 1 .. n, NEW j \in 1 .. n, i < j
      PROVE  NameBefore(s[i], s[j]) /\ ~NameBefore(s[j], s[i]) /\ s[i].name # s[j].name
  <2>1. a + i - 1 \in Nat /\ a + j - 1 \in Nat /\ a + i - 1 < a + j - 1
    BY <1>0, <1>4
  <2> QED
    BY <2>1, <1>3, ItemsOrdered
<1>5. ASSUME NEW i \in 1 .. n PROVE ~NameBefore(s[i], s[i])
  <2> DEFINE x == a + i - 1
             b == IF x < Radix THEN Blank ELSE 1 + x \div Radix
             c == 1 + (x % Radix)
  <2>1. x \in Nat
    BY <1>0
  <2>2. x \div Radix \in Nat /\ x % Radix \in 0 .. Radix - 1
    BY <2>1, Digits
  <2>3. b \in Nat /\ c \in Nat
    BY <2>2, HistoryAssumption DEF Blank
  <2>4. s[i].name = <<b, c>>
    BY <1>3 DEF ItemName
  <2> HIDE DEF b, c
  <2>5. NameBefore(s[i], s[i]) <=> b < b \/ (b = b /\ c < c)
    BY <2>3, <2>4, NamesOrdered
  <2> QED
    BY <2>3, <2>5
<1>6. \A i, j \in 1 .. n : (NameBefore(s[i], s[j]) <=> i < j) /\ (s[i].name = s[j].name => i = j)
  <2> SUFFICES ASSUME NEW i \in 1 .. n, NEW j \in 1 .. n
               PROVE  (NameBefore(s[i], s[j]) <=> i < j) /\ (s[i].name = s[j].name => i = j)
    OBVIOUS
  <2>1. CASE i < j
    BY <2>1, <1>4
  <2>2. CASE j < i
    BY <2>2, <1>4
  <2>3. CASE i = j
    BY <2>3, <1>5
  <2> QED
    BY <2>1, <2>2, <2>3
<1> QED
  BY <1>2, <1>3, <1>6 DEF s, n, ItemsAre

\* ReadComboFromRegistry gets the texts of items in their order, however the
\* system enumerates them.
LEMMA ReadsItems ==
  ASSUME byName \in BOOLEAN, NEW k, NEW S, NEW t \in Seq(S), NEW a \in Nat,
         registry[k] = Items(a, t)
  PROVE  /\ ReadStrings(k) = t /\ GetValueNames(k) = Names(a, Len(t))
         /\ \A i \in 1 .. Len(t) : Place(k, ItemName(a + i - 1)) = i
<1> DEFINE s == registry[k]
           n == Len(t)
<1>0. n \in Nat /\ t = [i \in 1 .. n |-> t[i]]
  OBVIOUS
<1>1. /\ DOMAIN s = 1 .. n /\ Len(s) = n /\ s = [i \in 1 .. n |-> s[i]]
      /\ \A i \in 1 .. n : s[i].name = ItemName(a + i - 1) /\ s[i].text = t[i]
      /\ \A i, j \in 1 .. n : (NameBefore(s[i], s[j]) <=> i < j) /\ (s[i].name = s[j].name => i = j)
  BY ItemsFacts DEF ItemsAre
<1> HIDE DEF n
<1>2. Enumerated(k) = s
  BY <1>0, <1>1, SortedIs DEF Enumerated
<1>3. ASSUME NEW i \in 1 .. n PROVE Place(k, ItemName(a + i - 1)) = i
  <2>1. \A j \in 1 .. n : s[j].name = ItemName(a + i - 1) <=> j = i
    BY <1>1
  <2> DEFINE name == ItemName(a + i - 1)
  <2>2. Single(k, name, i)
    BY <1>0, <1>1, <2>1 DEF Single
  <2> HIDE DEF name
  <2>3. Place(k, name) = i
    BY <2>2, PlaceIs
  <2> QED
    BY <2>3 DEF name
<1>4. GetValueNames(k) = [i \in 1 .. n |-> ItemName(a + i - 1)]
  BY <1>1, <1>2 DEF GetValueNames
<1>5. ReadStrings(k) = t
  <2>1. ReadStrings(k) = [i \in 1 .. n |-> GetData(k, GetValueNames(k)[i])]
    BY <1>1 DEF ReadStrings
  <2>2. \A i \in 1 .. n : GetValueNames(k)[i] = ItemName(a + i - 1)
    BY <1>4
  <2>3. ASSUME NEW i \in 1 .. n PROVE GetData(k, GetValueNames(k)[i]) = t[i]
    BY <2>2, <1>1, <1>3 DEF GetData
  <2> QED
    BY <2>1, <2>3, <1>0
<1> QED
  BY <1>3, <1>4, <1>5 DEF Names, n

-----------------------------------------------------------------------------
\* A function on 1 .. n is a sequence of n elements.
LEMMA IsSequence ==
  ASSUME NEW n \in Nat, NEW f, f = [i \in 1 .. n |-> f[i]]
  PROVE  f \in Seq({f[i] : i \in 1 .. n}) /\ Len(f) = n
<1>1. f \in [1 .. n -> {f[i] : i \in 1 .. n}]
  OBVIOUS
<1> QED
  BY <1>1

\* The first item is deleted.
LEMMA WithoutFirst ==
  ASSUME NEW S, NEW t \in Seq(S), NEW a \in Nat, NEW d \in Nat, d < Len(t)
  PROVE  /\ RemoveAt(Items(a, SubSeq(t, d + 1, Len(t))), 1)
              = Items(a + 1, SubSeq(t, d + 1 + 1, Len(t)))
         /\ Head(Names(a, Len(t) - d)) = ItemName(a) /\ Names(a, Len(t) - d) # <<>>
         /\ Tail(Names(a, Len(t) - d)) = Names(a + 1, Len(t) - (d + 1))
<1> DEFINE n == Len(t)
           r == SubSeq(t, d + 1, n)
           q == SubSeq(t, d + 1 + 1, n)
           s == Items(a, r)
           U == {s[i] : i \in 1 .. n - d}
<1>0. n \in Nat /\ d < n
  OBVIOUS
<1>1. r = [i \in 1 .. n - d |-> t[d + i]] /\ Len(r) = n - d
  BY <1>0
<1>2. q = [i \in 1 .. n - (d + 1) |-> t[d + 1 + i]] /\ Len(q) = n - (d + 1)
  BY <1>0
<1> HIDE DEF n, r, q
<1>3. s = [i \in 1 .. n - d |-> Value(a + i - 1, t[d + i])]
  BY <1>0, <1>1 DEF Items
<1>4. Items(a + 1, q) = [i \in 1 .. n - (d + 1) |-> Value(a + 1 + i - 1, t[d + 1 + i])]
  BY <1>0, <1>2 DEF Items
<1> HIDE DEF s
<1>5. s \in Seq(U) /\ Len(s) = n - d
  <2> DEFINE m == n - d
  <2>1. m \in Nat
    BY <1>0
  <2>2. s = [i \in 1 .. m |-> s[i]]
    BY <1>3
  <2> HIDE DEF m
  <2>3. s \in Seq({s[i] : i \in 1 .. m}) /\ Len(s) = m
    BY <2>1, <2>2, IsSequence
  <2> QED
    BY <2>3 DEF m
<1> HIDE DEF U
<1>6. RemoveAt(s, 1) = Items(a + 1, q)
  <2>1. RemoveAt(s, 1) = SubSeq(s, 1, 0) \o SubSeq(s, 2, n - d)
    BY <1>5 DEF RemoveAt
  <2>2. SubSeq(s, 1, 0) = <<>>
    BY <1>5
  <2>3. SubSeq(s, 2, n - d) \in Seq(U)
    BY <1>0, <1>5, SubSeqProperties
  <2>4. RemoveAt(s, 1) = SubSeq(s, 2, n - d)
    BY <2>1, <2>2, <2>3, ConcatEmptySeq
  <2>5. SubSeq(s, 2, n - d) = [i \in 1 .. n - d - 1 |-> s[1 + i]]
    BY <1>0, <1>5
  <2>6. \A i \in 1 .. n - d - 1 : s[1 + i] = Value(a + 1 + i - 1, t[d + 1 + i])
    <3> SUFFICES ASSUME NEW i \in 1 .. n - d - 1
                 PROVE  s[1 + i] = Value(a + 1 + i - 1, t[d + 1 + i])
      OBVIOUS
    <3>1. 1 + i \in 1 .. n - d /\ a + (1 + i) - 1 = a + 1 + i - 1 /\ d + (1 + i) = d + 1 + i
      BY <1>0
    <3> QED
      BY <3>1, <1>3
  <2>7. n - d - 1 = n - (d + 1)
    BY <1>0
  <2> QED
    BY <2>4, <2>5, <2>6, <2>7, <1>4
<1>7. /\ Head(Names(a, n - d)) = ItemName(a) /\ Names(a, n - d) # <<>>
      /\ Tail(Names(a, n - d)) = Names(a + 1, n - (d + 1))
  <2> DEFINE m == n - d
             w == Names(a, m)
             V == {w[i] : i \in 1 .. m}
  <2>1. m \in Nat /\ m >= 1 /\ n - (d + 1) = m - 1 /\ a + 1 - 1 = a
    BY <1>0
  <2>2. w = [i \in 1 .. m |-> ItemName(a + i - 1)]
    BY DEF Names
  <2> HIDE DEF m, w
  <2>3. w \in Seq(V) /\ Len(w) = m
    <3>1. w = [i \in 1 .. m |-> w[i]]
      BY <2>2
    <3> QED
      BY <2>1, <2>2, <3>1, IsSequence
  <2> HIDE DEF V
  <2>4. w # <<>> /\ Head(w) = w[1] /\ Tail(w) = [i \in 1 .. m - 1 |-> w[i + 1]]
    <3>1. w # <<>>
      BY <2>1, <2>3
    <3>2. Tail(w) = SubSeq(w, 2, m)
      BY <2>3, <3>1, TailIsSubSeq
    <3>3. SubSeq(w, 2, m) = [i \in 1 .. m - 1 |-> w[1 + i]]
      BY <2>1, <2>3
    <3>4. \A i \in 1 .. m - 1 : w[1 + i] = w[i + 1]
      BY <2>1
    <3>5. Head(w) = w[1]
      BY <2>1, <2>3
    <3> QED
      BY <3>1, <3>2, <3>3, <3>4, <3>5
  <2>5. \A i \in 1 .. m - 1 : w[i + 1] = ItemName(a + 1 + i - 1)
    <3> SUFFICES ASSUME NEW i \in 1 .. m - 1 PROVE w[i + 1] = ItemName(a + 1 + i - 1)
      OBVIOUS
    <3>1. i + 1 \in 1 .. m /\ a + (i + 1) - 1 = a + 1 + i - 1
      BY <2>1
    <3> QED
      BY <3>1, <2>2
  <2>6. Tail(w) = Names(a + 1, m - 1)
    BY <2>4, <2>5 DEF Names
  <2>7. w[1] = ItemName(a)
    BY <2>1, <2>2
  <2> QED
    BY <2>1, <2>4, <2>6, <2>7 DEF w, m
<1> QED
  BY <1>6, <1>7 DEF n, r, q, s

\* An item is written after the others.
LEMMA WithNext ==
  ASSUME NEW S, NEW t \in Seq(S), NEW d \in Nat, d < Len(t)
  PROVE  /\ Append(Items(0, SubSeq(t, 1, d)), Value(d, t[d + 1])) = Items(0, SubSeq(t, 1, d + 1))
         /\ \A j \in 1 .. d : Items(0, SubSeq(t, 1, d))[j].name # ItemName(d)
         /\ Len(Items(0, SubSeq(t, 1, d))) = d
<1> DEFINE n == Len(t)
           r == SubSeq(t, 1, d)
           q == SubSeq(t, 1, d + 1)
           s == Items(0, r)
           U == {s[i] : i \in 1 .. d}
<1>0. n \in Nat /\ d < n
  OBVIOUS
<1>1. r = [i \in 1 .. d |-> t[i]] /\ Len(r) = d
  BY <1>0
<1>2. q = [i \in 1 .. d + 1 |-> t[i]] /\ Len(q) = d + 1
  BY <1>0
<1> HIDE DEF n, r, q
<1>3. s = [i \in 1 .. d |-> Value(0 + i - 1, t[i])]
  BY <1>0, <1>1 DEF Items
<1>4. Items(0, q) = [i \in 1 .. d + 1 |-> Value(0 + i - 1, t[i])]
  BY <1>0, <1>2 DEF Items
<1> HIDE DEF s
<1>5. s \in Seq(U) /\ Len(s) = d
  <2>1. s \in [1 .. d -> U]
    BY <1>0, <1>3
  <2> QED
    BY <2>1
<1> HIDE DEF U
<1>6. Append(s, Value(d, t[d + 1])) = Items(0, q)
  <2>1. Append(s, Value(d, t[d + 1])) = [i \in 1 .. d + 1 |-> IF i = d + 1 THEN Value(d, t[d + 1]) ELSE s[i]]
    BY <1>5
  <2>2. \A i \in 1 .. d + 1 : (IF i = d + 1 THEN Value(d, t[d + 1]) ELSE s[i]) = Value(0 + i - 1, t[i])
    <3> SUFFICES ASSUME NEW i \in 1 .. d + 1
                 PROVE  (IF i = d + 1 THEN Value(d, t[d + 1]) ELSE s[i]) = Value(0 + i - 1, t[i])
      OBVIOUS
    <3>1. CASE i = d + 1
      <4>1. 0 + i - 1 = d
        BY <3>1
      <4> QED
        BY <3>1, <4>1
    <3>2. CASE i # d + 1
      <4>1. i \in 1 .. d
        BY <3>2
      <4> QED
        BY <3>2, <4>1, <1>3
    <3> QED
      BY <3>1, <3>2
  <2> QED
    BY <2>1, <2>2, <1>4
<1>7. ASSUME NEW j \in 1 .. d PROVE s[j].name # ItemName(d)
  <2>1. 0 + j - 1 \in Nat /\ 0 + j - 1 < d
    OBVIOUS
  <2>2. s[j].name = ItemName(0 + j - 1)
    BY <1>3 DEF Value
  <2> DEFINE i == 0 + j - 1
             v == Value(i, t[1])
             w == Value(d, t[1])
  <2>3. v.name = ItemName(i) /\ w.name = ItemName(d)
    BY DEF Value
  <2>4. i \in Nat /\ i < d
    BY <2>1
  <2> HIDE DEF i, v, w
  <2>5. ItemName(i) # ItemName(d)
    BY <2>3, <2>4, ItemsOrdered
  <2> QED
    BY <2>2, <2>5 DEF i
<1> QED
  BY <1>5, <1>6, <1>7 DEF n, r, q, s

-----------------------------------------------------------------------------
(* The steps.                                                              *)
LEMMA NoItems == \A a \in Nat : Items(a, <<>>) = <<>> /\ Names(a, 0) = <<>>
BY DEF Items, Names

LEMMA KeepsFirst ==
  ASSUME NEW S, box \in Seq(S)
  PROVE  /\ ToKeep \in Seq(S) /\ Len(ToKeep) <= Len(box) /\ Len(ToKeep) \in Nat
         /\ Len(ToKeep) <= MaxItems
<1> DEFINE n == IF Len(box) < MaxItems THEN Len(box) ELSE MaxItems
<1>1. Len(box) \in Nat /\ MaxItems \in Nat
  BY HistoryAssumption
<1>2. n \in Nat /\ n <= Len(box) /\ n <= MaxItems
  BY <1>1
<1>3. ToKeep = SubSeq(box, 1, n)
  BY DEF ToKeep
<1> HIDE DEF n
<1>4. ToKeep \in Seq(S) /\ Len(ToKeep) = n
  BY <1>1, <1>2, <1>3
<1> QED
  BY <1>2, <1>4

LEMMA HistoryStarts == HistoryInit => HistoryInv
<1> SUFFICES ASSUME HistoryInit PROVE HistoryInv
  OBVIOUS
<1>1. DOMAIN registry = {HKCU} /\ registry[HKCU] = <<Foreign>> /\ HKCU # RegKey
  BY DEF HistoryInit, HKCU, RegKey
<1> QED
  BY <1>1 DEF HistoryInit, HistoryInv, HistoryShape, AsLeft

LEMMA CreateStep == HistoryInv /\ OnCreate => HistoryInv'
BY DEF HistoryInv, HistoryShape, OnCreate, AsLeft

LEMMA LoadStep == HistoryInv /\ CreateHisoryComboBox => HistoryInv'
<1> SUFFICES ASSUME HistoryInv, CreateHisoryComboBox PROVE HistoryInv'
  OBVIOUS
<1>1. OpenKey(RegKey, FALSE) = registry
  BY DEF OpenKey
<1>2. box' \in Seq(Texts)
  <2>1. CASE RegKey \in DOMAIN registry
    <3>1. PICK a \in Nat : registry[RegKey] = Items(a, whole)
      BY <2>1 DEF CreateHisoryComboBox, HistoryInv, AsLeft
    <3>2. byName \in BOOLEAN /\ whole \in Seq(Texts)
      BY DEF HistoryInv, HistoryShape
    <3>3. ReadStrings(RegKey) = whole
      BY <3>1, <3>2, ReadsItems
    <3> QED
      BY <2>1, <1>1, <3>2, <3>3 DEF CreateHisoryComboBox, ReadComboFromRegistry
  <2>2. CASE RegKey \notin DOMAIN registry
    <3>1. box' = <<>>
      BY <2>2, <1>1 DEF CreateHisoryComboBox, ReadComboFromRegistry
    <3> QED
      BY <3>1
  <2> QED
    BY <2>1, <2>2
<1> QED
  BY <1>2 DEF HistoryInv, HistoryShape, CreateHisoryComboBox, AsLeft

LEMMA ChangeStep ==
  ASSUME HistoryInv, NEW text \in Texts, HistoryChanged(text) PROVE HistoryInv'
<1>1. box \in Seq(Texts)
  BY DEF HistoryInv, HistoryShape, HistoryChanged
<1>2. RemoveFirst(box, text) \in Seq(Texts)
  <2>1. CASE \E i \in 1 .. Len(box) : box[i] = text
    <3> DEFINE I == {i \in 1 .. Len(box) : box[i] = text}
               m == SelectInSeq(box, LAMBDA v : v = text)
    <3>1. m = CHOOSE x \in I : \A y \in I : x <= y
      BY <2>1 DEF SelectInSeq, Min
    <3>2. I # {} /\ I \subseteq Nat
      BY <1>1, <2>1
    <3>3. m \in I
      <4> HIDE DEF I, m
      <4>1. \E x \in I : \A y \in I : x <= y
        BY <3>2, LeastOf
      <4> QED
        BY <3>1, <4>1
    <3>4. m \in 1 .. Len(box)
      BY <3>3
    <3> HIDE DEF m, I
    <3>5. RemoveAt(box, m) \in Seq(Texts)
      <4>1. SubSeq(box, 1, m - 1) \in Seq(Texts) /\ SubSeq(box, m + 1, Len(box)) \in Seq(Texts)
        BY <1>1, <3>4
      <4> QED
        BY <4>1 DEF RemoveAt
    <3> QED
      BY <2>1, <3>5 DEF RemoveFirst, m
  <2>2. CASE ~\E i \in 1 .. Len(box) : box[i] = text
    BY <1>1, <2>2 DEF RemoveFirst
  <2> QED
    BY <2>1, <2>2
<1>3. box' \in Seq(Texts)
  <2> DEFINE r == RemoveFirst(box, text)
  <2>1. box' = <<text>> \o r /\ r \in Seq(Texts) /\ <<text>> \in Seq(Texts)
    BY <1>2 DEF HistoryChanged
  <2> HIDE DEF r
  <2> QED
    BY <2>1
<1> QED
  BY <1>3 DEF HistoryInv, HistoryShape, HistoryChanged, AsLeft

LEMMA SaveStep == HistoryInv /\ SaveHistory => HistoryInv'
<1> SUFFICES ASSUME HistoryInv, SaveHistory PROVE HistoryInv'
  OBVIOUS
<1>0. /\ save = "on" /\ AsLeft /\ whole \in Seq(Texts) /\ byName \in BOOLEAN
      /\ HKCU # RegKey /\ HistoryShape
  BY DEF HistoryInv, HistoryShape, SaveHistory, HKCU, RegKey
<1>1. CASE box = <<>>
  BY <1>1 DEF HistoryInv, HistoryShape, SaveHistory, AsLeft
<1>2. CASE box # <<>> /\ RegKey \in DOMAIN registry
  <2>1. PICK a \in Nat : registry[RegKey] = Items(a, whole)
    BY <1>0, <1>2 DEF AsLeft
  <2>2. registry' = registry /\ save' = "deletes" /\ sa' = GetValueNames(RegKey)
    BY <1>2 DEF SaveHistory, OpenKey
  <2>3. GetValueNames(RegKey) = Names(a, Len(whole))
    BY <1>0, <2>1, ReadsItems
  <2>4. SubSeq(whole, 0 + 1, Len(whole)) = whole /\ Len(whole) - 0 = Len(whole) /\ Len(whole) \in Nat
    BY <1>0, SubSeqFull
  <2>5. Rest(a, 0)'
    BY <2>1, <2>2, <2>3, <2>4 DEF SaveHistory, Rest
  <2>6. Deleting'
    <3>0. whole' = whole
      BY DEF SaveHistory
    <3>1. 0 \in Nat /\ 0 <= Len(whole') /\ RegKey \in DOMAIN registry'
      BY <1>2, <2>2, <2>4, <3>0
    <3> QED
      BY <2>5, <3>1, Zenon DEF Deleting
  <2> QED
    BY <1>0, <2>2, <2>6 DEF HistoryInv, HistoryShape, SaveHistory
<1>3. CASE box # <<>> /\ RegKey \notin DOMAIN registry
  <2>1. /\ registry' = [x \in DOMAIN registry \cup {RegKey} |->
                          IF x = RegKey THEN <<>> ELSE registry[x]]
        /\ save' = "deletes" /\ sa' = <<>>
    BY <1>3 DEF SaveHistory, OpenKey
  <2>2. whole = <<>> /\ whole' = whole
    BY <1>0, <1>3 DEF AsLeft, SaveHistory
  <2>3. SubSeq(whole, 0 + 1, Len(whole)) = <<>> /\ Len(whole) = 0
    BY <2>2
  <2>4. Rest(0, 0)'
    <3>1. registry'[RegKey] = <<>>
      BY <2>1
    <3>2. Items(0, SubSeq(whole', 0 + 1, Len(whole'))) = <<>> /\ Names(0, Len(whole') - 0) = <<>>
      <4>1. SubSeq(whole', 0 + 1, Len(whole')) = <<>> /\ Len(whole') - 0 = 0
        BY <2>2, <2>3
      <4> QED
        BY <4>1, NoItems
    <3> QED
      BY <2>1, <3>1, <3>2, Zenon DEF Rest
  <2>5. Deleting'
    BY <2>1, <2>2, <2>3, <2>4 DEF Deleting
  <2>6. DOMAIN registry' \subseteq {HKCU, RegKey} /\ HKCU \in DOMAIN registry'
        /\ registry'[HKCU] = <<Foreign>>
    BY <1>0, <2>1 DEF HistoryShape
  <2> QED
    BY <1>0, <2>1, <2>5, <2>6 DEF HistoryInv, HistoryShape, SaveHistory
<1> QED
  BY <1>1, <1>2, <1>3

LEMMA DeleteStep == HistoryInv /\ DeletesValue => HistoryInv'
<1> SUFFICES ASSUME HistoryInv, DeletesValue PROVE HistoryInv'
  OBVIOUS
<1>0. /\ save = "deletes" /\ Deleting /\ HistoryShape /\ HKCU # RegKey /\ whole' = whole
      /\ whole \in Seq(Texts) /\ Len(whole) \in Nat /\ byName \in BOOLEAN
  <2>1. save = "deletes" /\ whole' = whole
    BY DEF DeletesValue
  <2>2. HistoryShape /\ Deleting
    BY <2>1 DEF HistoryInv
  <2>3. whole \in Seq(Texts) /\ byName \in BOOLEAN
    BY <2>2 DEF HistoryShape
  <2> QED
    BY <2>1, <2>2, <2>3 DEF HKCU, RegKey
<1>1. PICK a \in Nat, d \in Nat : d <= Len(whole) /\ Rest(a, d)
  BY <1>0 DEF Deleting
<1> DEFINE t == SubSeq(whole, d + 1, Len(whole))
<1>2. CASE d = Len(whole)
  <2>1. t = <<>> /\ Len(whole) - d = 0
    BY <1>0, <1>2
  <2>2. sa = <<>> /\ registry[RegKey] = <<>>
    BY <1>1, <2>1, NoItems, Zenon DEF Rest
  <2>3. save' = "writes" /\ registry' = registry /\ next' = next /\ box' = box /\ byName' = byName
    BY <2>2 DEF DeletesValue
  <2>4. next = 0 /\ box \in Seq(Texts)
    BY <1>0 DEF HistoryShape
  <2>5. ToKeep' = ToKeep
    BY <2>3 DEF ToKeep
  <2>6. Writing'
    <3>1. 0 <= Len(ToKeep) /\ ToKeep \in Seq(Texts)
      BY <2>4, KeepsFirst
    <3>2. SubSeq(ToKeep, 1, 0) = <<>>
      BY <3>1, SubSeqEmpty
    <3>3. RegKey \in DOMAIN registry'
      BY <1>0, <2>3 DEF Deleting
    <3>4. registry'[RegKey] = Items(0, SubSeq(ToKeep', 1, next'))
      BY <2>2, <2>3, <2>4, <2>5, <3>2, NoItems, Zenon
    <3>5. next' <= Len(ToKeep')
      BY <2>3, <2>4, <2>5, <3>1
    <3> QED
      BY <3>3, <3>4, <3>5 DEF Writing
  <2>7. HistoryShape'
    BY <1>0, <2>3, <2>4 DEF HistoryShape
  <2> QED
    BY <2>3, <2>6, <2>7 DEF HistoryInv
<1>3. CASE d < Len(whole)
  <2>1. /\ RemoveAt(Items(a, t), 1) = Items(a + 1, SubSeq(whole, d + 1 + 1, Len(whole)))
        /\ Head(sa) = ItemName(a) /\ sa # <<>>
        /\ Tail(sa) = Names(a + 1, Len(whole) - (d + 1))
    <3>1. sa = Names(a, Len(whole) - d)
      BY <1>1 DEF Rest
    <3> QED
      BY <3>1, <1>0, <1>3, WithoutFirst
  <2>2. Place(RegKey, ItemName(a)) = 1
    <3>1. t \in Seq(Texts) /\ Len(t) = Len(whole) - d
      BY <1>0, <1>3
    <3>2. registry[RegKey] = Items(a, t)
      BY <1>1 DEF Rest
    <3> HIDE DEF t
    <3>3. 1 \in 1 .. Len(t) /\ a + 1 - 1 = a
      BY <3>1, <1>0, <1>3
    <3>4. \A i \in 1 .. Len(t) : Place(RegKey, ItemName(a + i - 1)) = i
      BY <3>1, <3>2, <1>0, ReadsItems
    <3>5. Place(RegKey, ItemName(a + 1 - 1)) = 1
      BY <3>3, <3>4
    <3> QED
      BY <3>3, <3>5
  <2>3. /\ registry' = [registry EXCEPT ![RegKey] = RemoveAt(@, 1)]
        /\ sa' = Tail(sa) /\ save' = save /\ byName' = byName /\ box' = box /\ next' = next
    BY <2>1, <2>2 DEF DeletesValue, DeleteValue
  <2>4. RegKey \in DOMAIN registry /\ HKCU \in DOMAIN registry
    BY <1>0 DEF Deleting, HistoryShape
  <2>5. /\ registry'[RegKey] = RemoveAt(registry[RegKey], 1)
        /\ registry'[HKCU] = registry[HKCU] /\ DOMAIN registry' = DOMAIN registry
    BY <1>0, <2>3, <2>4
  <2>6. Rest(a + 1, d + 1)'
    <3>1. registry'[RegKey] = Items(a + 1, SubSeq(whole', d + 1 + 1, Len(whole')))
      BY <1>0, <1>1, <2>1, <2>5, Zenon DEF Rest
    <3>2. sa' = Names(a + 1, Len(whole') - (d + 1))
      BY <1>0, <2>1, <2>3, Zenon
    <3> QED
      BY <3>1, <3>2, Zenon DEF Rest
  <2>7. Deleting'
    <3>1. a + 1 \in Nat /\ d + 1 \in Nat /\ d + 1 <= Len(whole')
      BY <1>0, <1>3
    <3>2. RegKey \in DOMAIN registry'
      BY <2>4, <2>5
    <3> QED
      BY <2>6, <3>1, <3>2, Zenon DEF Deleting
  <2>8. HistoryShape'
    BY <1>0, <2>3, <2>4, <2>5 DEF HistoryShape
  <2> QED
    BY <1>0, <2>3, <2>7, <2>8 DEF HistoryInv
<1> QED
  BY <1>0, <1>1, <1>2, <1>3

LEMMA WriteStep == HistoryInv /\ WritesString => HistoryInv'
<1> SUFFICES ASSUME HistoryInv, WritesString PROVE HistoryInv'
  OBVIOUS
<1>0. /\ save = "writes" /\ Writing /\ HistoryShape /\ HKCU # RegKey /\ next \in Nat
      /\ box \in Seq(Texts) /\ byName' = byName
  <2>1. save = "writes" /\ byName' = byName
    BY DEF WritesString
  <2>2. HistoryShape /\ Writing
    BY <2>1 DEF HistoryInv
  <2> QED
    BY <2>1, <2>2 DEF HKCU, RegKey, HistoryShape
<1>1. ToKeep \in Seq(Texts) /\ Len(ToKeep) \in Nat
  BY <1>0, KeepsFirst
<1>2. RegKey \in DOMAIN registry /\ HKCU \in DOMAIN registry
  BY <1>0 DEF Writing, HistoryShape
<1>3. CASE next < Len(ToKeep)
  <2> DEFINE s == Items(0, SubSeq(ToKeep, 1, next))
             value == Value(next, ToKeep[next + 1])
  <2>1. /\ Append(s, value) = Items(0, SubSeq(ToKeep, 1, next + 1))
        /\ \A j \in 1 .. next : s[j].name # ItemName(next)
        /\ Len(s) = next
    BY <1>0, <1>1, <1>3, WithNext
  <2>2. registry[RegKey] = s
    BY <1>0 DEF Writing
  <2> HIDE DEF s
  <2>3. Place(RegKey, ItemName(next)) = 0
    BY <1>0, <2>1, <2>2, NoPlace
  <2>4. /\ registry' = [registry EXCEPT ![RegKey] = Append(@, value)]
        /\ next' = next + 1 /\ box' = box /\ save' = save /\ whole' = whole
    BY <1>3, <2>3 DEF WritesString, PutData, Value
  <2> HIDE DEF value
  <2>5. /\ registry'[RegKey] = Append(registry[RegKey], value)
        /\ registry'[HKCU] = registry[HKCU] /\ DOMAIN registry' = DOMAIN registry
    BY <1>0, <1>2, <2>4
  <2>6. ToKeep' = ToKeep
    BY <2>4 DEF ToKeep
  <2>7. Writing'
    <3>1. registry'[RegKey] = Items(0, SubSeq(ToKeep', 1, next'))
      BY <2>1, <2>2, <2>4, <2>5, <2>6, Zenon
    <3>2. next' <= Len(ToKeep')
      BY <1>0, <1>1, <1>3, <2>4, <2>6
    <3>3. RegKey \in DOMAIN registry'
      BY <1>2, <2>5
    <3> QED
      BY <3>1, <3>2, <3>3 DEF Writing
  <2>8. HistoryShape'
    BY <1>0, <1>2, <2>4, <2>5 DEF HistoryShape
  <2> QED
    BY <1>0, <2>4, <2>7, <2>8 DEF HistoryInv
<1>4. CASE ~(next < Len(ToKeep))
  <2>1. save' = "off" /\ box' = <<>> /\ next' = 0 /\ whole' = ToKeep /\ registry' = registry
    BY <1>4 DEF WritesString
  <2>2. registry[RegKey] = Items(0, ToKeep)
    <3>1. next = Len(ToKeep)
      BY <1>0, <1>1, <1>4 DEF Writing
    <3>2. SubSeq(ToKeep, 1, Len(ToKeep)) = ToKeep
      BY <1>1, SubSeqFull
    <3> QED
      BY <1>0, <3>1, <3>2, Zenon DEF Writing
  <2>3. AsLeft'
    <3>1. registry'[RegKey] = Items(0, whole') /\ 0 \in Nat
      BY <2>1, <2>2
    <3>2. RegKey \in DOMAIN registry'
      BY <1>2, <2>1
    <3> QED
      BY <3>1, <3>2, Zenon DEF AsLeft
  <2>4. HistoryShape'
    BY <1>0, <1>1, <2>1 DEF HistoryShape
  <2> QED
    BY <2>1, <2>3, <2>4 DEF HistoryInv
<1> QED
  BY <1>3, <1>4

\* What the registry has while it is rewritten.
LEMMA WhatIsRead ==
  ASSUME HistoryInv
  PROVE  /\ save = "deletes" => \E d \in Nat, a \in Nat :
                  /\ d <= Len(whole) /\ registry[RegKey] = Items(a, SubSeq(whole, d + 1, Len(whole)))
                  /\ ReadStrings(RegKey) = SubSeq(whole, d + 1, Len(whole))
         /\ save = "writes" => /\ next <= Len(ToKeep)
                               /\ registry[RegKey] = Items(0, SubSeq(ToKeep, 1, next))
                               /\ ReadStrings(RegKey) = SubSeq(ToKeep, 1, next)
<1>0. HistoryShape /\ byName \in BOOLEAN /\ whole \in Seq(Texts) /\ next \in Nat
  BY DEF HistoryInv, HistoryShape
<1>1. ASSUME save = "deletes"
      PROVE  \E d \in Nat, a \in Nat :
                /\ d <= Len(whole) /\ registry[RegKey] = Items(a, SubSeq(whole, d + 1, Len(whole)))
                /\ ReadStrings(RegKey) = SubSeq(whole, d + 1, Len(whole))
  <2>1. PICK a \in Nat, d \in Nat : d <= Len(whole) /\ Rest(a, d)
    BY <1>1 DEF HistoryInv, Deleting
  <2> DEFINE t == SubSeq(whole, d + 1, Len(whole))
  <2>2. registry[RegKey] = Items(a, t)
    BY <2>1 DEF Rest
  <2>3. t \in Seq(Texts)
    BY <1>0, <2>1
  <2> HIDE DEF t
  <2>4. ReadStrings(RegKey) = t
    BY <1>0, <2>2, <2>3, ReadsItems
  <2> QED
    BY <2>1, <2>2, <2>4 DEF t
<1>2. ASSUME save = "writes"
      PROVE  /\ next <= Len(ToKeep) /\ registry[RegKey] = Items(0, SubSeq(ToKeep, 1, next))
             /\ ReadStrings(RegKey) = SubSeq(ToKeep, 1, next)
  <2> DEFINE t == SubSeq(ToKeep, 1, next)
  <2>1. next <= Len(ToKeep) /\ registry[RegKey] = Items(0, t) /\ box \in Seq(Texts)
    BY <1>0, <1>2 DEF HistoryInv, Writing, HistoryShape
  <2>2. ToKeep \in Seq(Texts) /\ Len(ToKeep) \in Nat
    BY <2>1, KeepsFirst
  <2>3. t \in Seq(Texts)
    BY <1>0, <2>1, <2>2
  <2> HIDE DEF t
  <2>4. ReadStrings(RegKey) = t
    BY <1>0, <2>1, <2>3, ReadsItems
  <2> QED
    BY <2>1, <2>4 DEF t
<1> QED
  BY <1>1, <1>2

LEMMA KillStep == HistoryInv /\ Killed => HistoryInv'
<1> SUFFICES ASSUME HistoryInv, Killed PROVE HistoryInv'
  OBVIOUS
<1>0. /\ save' = "off" /\ next' = 0 /\ registry' = registry /\ byName' = byName
      /\ whole' = IF save \in {"deletes", "writes"} THEN ReadStrings(RegKey) ELSE whole
  BY DEF Killed
<1>1. HistoryShape /\ whole \in Seq(Texts) /\ next \in Nat
  BY DEF HistoryInv, HistoryShape
<1>2. whole' \in Seq(Texts) /\ AsLeft'
  <2>1. CASE save = "deletes"
    <3>1. PICK d \in Nat, a \in Nat :
              /\ d <= Len(whole) /\ registry[RegKey] = Items(a, SubSeq(whole, d + 1, Len(whole)))
              /\ ReadStrings(RegKey) = SubSeq(whole, d + 1, Len(whole))
      BY <2>1, WhatIsRead
    <3>2. whole' = SubSeq(whole, d + 1, Len(whole))
      BY <1>0, <2>1, <3>1
    <3>3. whole' \in Seq(Texts)
      BY <1>1, <3>1, <3>2
    <3>4. registry'[RegKey] = Items(a, whole')
      BY <1>0, <3>1, <3>2
    <3>5. RegKey \in DOMAIN registry'
      BY <1>0, <2>1 DEF HistoryInv, Deleting
    <3> QED
      BY <3>3, <3>4, <3>5, Zenon DEF AsLeft
  <2>2. CASE save = "writes"
    <3>1. /\ next <= Len(ToKeep) /\ registry[RegKey] = Items(0, SubSeq(ToKeep, 1, next))
          /\ ReadStrings(RegKey) = SubSeq(ToKeep, 1, next)
      BY <2>2, WhatIsRead
    <3>2. whole' = SubSeq(ToKeep, 1, next)
      BY <1>0, <2>2, <3>1
    <3>3. box \in Seq(Texts)
      BY <1>1, <2>2 DEF HistoryShape
    <3>4. ToKeep \in Seq(Texts) /\ Len(ToKeep) \in Nat
      BY <3>3, KeepsFirst
    <3>5. whole' \in Seq(Texts)
      BY <1>1, <3>1, <3>2, <3>4
    <3>6. registry'[RegKey] = Items(0, whole') /\ 0 \in Nat
      BY <1>0, <3>1, <3>2
    <3>7. RegKey \in DOMAIN registry'
      BY <1>0, <2>2 DEF HistoryInv, Writing
    <3> QED
      BY <3>5, <3>6, <3>7, Zenon DEF AsLeft
  <2>3. CASE save \notin {"deletes", "writes"}
    <3>1. whole' = whole /\ AsLeft
      BY <1>0, <1>1, <2>3 DEF HistoryInv, HistoryShape
    <3> QED
      BY <1>0, <1>1, <3>1 DEF AsLeft
  <2> QED
    BY <2>1, <2>2, <2>3
<1>3. HistoryShape'
  BY <1>0, <1>1, <1>2 DEF HistoryShape
<1> QED
  BY <1>0, <1>2, <1>3 DEF HistoryInv

\* The inductive invariant.
THEOREM HistoryInvariant == HistorySpec => []HistoryInv
<1>1. HistoryInit => HistoryInv
  BY HistoryStarts
<1>2. HistoryInv /\ [HistoryNext]_rvars => HistoryInv'
  <2> SUFFICES ASSUME HistoryInv, [HistoryNext]_rvars PROVE HistoryInv'
    OBVIOUS
  <2>1. CASE UNCHANGED rvars
    <3>1. ToKeep' = ToKeep
      BY <2>1 DEF rvars, ToKeep
    <3>2. \A a, d \in Nat : Rest(a, d)' <=> Rest(a, d)
      BY <2>1 DEF rvars, Rest
    <3> QED
      BY <2>1, <3>1, <3>2
      DEF rvars, HistoryInv, HistoryShape, Deleting, Writing, AsLeft
  <2>2. CASE \E text \in Texts : HistoryChanged(text)
    BY <2>2, ChangeStep
  <2> QED
    BY <2>1, <2>2, CreateStep, LoadStep, SaveStep, DeleteStep, WriteStep, KillStep
    DEF HistoryNext
<1> QED
  BY <1>1, <1>2, PTL DEF HistorySpec

\* The end and the beginning of a list.
LEMMA EndsAndBegins ==
  ASSUME NEW S, NEW t \in Seq(S), NEW d \in Nat, d <= Len(t)
  PROVE  IsSuffix(SubSeq(t, d + 1, Len(t)), t) /\ IsPrefix(SubSeq(t, 1, d), t)
<1> DEFINE n == Len(t)
           q == SubSeq(t, 1, d)
           r == SubSeq(t, d + 1, n)
           m == n - d
           u == Reverse(r)
           v == Reverse(t)
<1>0. n \in Nat /\ d <= n /\ m \in Nat /\ m <= n
  OBVIOUS
<1>1. q \in Seq(S) /\ Len(q) = d
  BY <1>0
<1>2. SubSeq(q, 1, d) = q
  BY <1>1, SubSeqFull
<1>3. IsPrefix(q, t)
  BY <1>0, <1>1, <1>2 DEF IsPrefix
<1>4. r \in Seq(S) /\ Len(r) = m /\ \A i \in 1 .. m : r[i] = t[d + i]
  BY <1>0
<1> HIDE DEF q, r, n
<1>5. u = [i \in 1 .. m |-> r[m - i + 1]] /\ v = [i \in 1 .. n |-> t[n - i + 1]]
  BY <1>4 DEF Reverse, n
<1> HIDE DEF m, u, v
<1>6. u = [i \in 1 .. m |-> u[i]] /\ v = [i \in 1 .. n |-> v[i]]
  BY <1>5
<1>7. /\ u \in Seq({u[i] : i \in 1 .. m}) /\ Len(u) = m
      /\ v \in Seq({v[i] : i \in 1 .. n}) /\ Len(v) = n
  BY <1>0, <1>6, IsSequence
<1>8. \A i \in 1 .. m : u[i] = v[i]
  <2> SUFFICES ASSUME NEW i \in 1 .. m PROVE u[i] = v[i]
    OBVIOUS
  <2>1. m - i + 1 \in 1 .. m /\ d + (m - i + 1) = n - i + 1 /\ i \in 1 .. n
    BY <1>0 DEF m
  <2>2. u[i] = r[m - i + 1] /\ v[i] = t[n - i + 1]
    BY <1>5, <2>1
  <2> QED
    BY <1>4, <2>1, <2>2
<1>9. SubSeq(u, 1, m) = [i \in 1 .. m |-> u[i]] /\ SubSeq(v, 1, m) = [i \in 1 .. m |-> v[i]]
  BY <1>0, <1>7
<1>10. SubSeq(u, 1, m) = SubSeq(v, 1, m)
  BY <1>8, <1>9
<1>11. IsPrefix(u, v)
  BY <1>0, <1>7, <1>10 DEF IsPrefix
<1> QED
  BY <1>3, <1>11 DEF IsSuffix, q, r, u, v, n

\* Whatever was kept when the program ended, or was killed, is what the next
\* start reads, in its order; while it is rewritten the registry has the end of
\* the old list or the beginning of the new one (HistoryComboBox.cpp:119-160).
THEOREM HistoryKept == HistorySpec => []HistorySurvives
<1>1. HistoryInv => HistorySurvives
  <2> SUFFICES ASSUME HistoryInv PROVE HistorySurvives
    OBVIOUS
  <2>0. /\ HistoryShape /\ byName \in BOOLEAN /\ whole \in Seq(Texts) /\ next \in Nat
        /\ registry[HKCU] = <<Foreign>>
    BY DEF HistoryInv, HistoryShape
  <2>1. ASSUME save = "deletes" PROVE IsSuffix(ReadStrings(RegKey), whole)
    <3>1. PICK d \in Nat : d <= Len(whole) /\ ReadStrings(RegKey) = SubSeq(whole, d + 1, Len(whole))
      BY <2>1, WhatIsRead
    <3> QED
      BY <2>0, <3>1, EndsAndBegins
  <2>2. ASSUME save = "writes" PROVE IsPrefix(ReadStrings(RegKey), ToKeep)
    <3>1. next <= Len(ToKeep) /\ ReadStrings(RegKey) = SubSeq(ToKeep, 1, next)
      BY <2>2, WhatIsRead
    <3>2. box \in Seq(Texts)
      BY <2>0, <2>2 DEF HistoryShape
    <3>3. ToKeep \in Seq(Texts)
      BY <3>2, KeepsFirst
    <3> QED
      BY <2>0, <3>1, <3>3, EndsAndBegins
  <2>3. ASSUME save \notin {"deletes", "writes"}
        PROVE  whole = IF RegKey \in DOMAIN registry THEN ReadStrings(RegKey) ELSE <<>>
    <3>1. AsLeft
      BY <2>0, <2>3 DEF HistoryInv, HistoryShape
    <3>2. CASE RegKey \in DOMAIN registry
      <4>1. PICK a \in Nat : registry[RegKey] = Items(a, whole)
        BY <3>1, <3>2 DEF AsLeft
      <4>2. ReadStrings(RegKey) = whole
        BY <2>0, <4>1, ReadsItems
      <4> QED
        BY <3>2, <4>2
    <3>3. CASE RegKey \notin DOMAIN registry
      BY <3>1, <3>3 DEF AsLeft
    <3> QED
      BY <3>2, <3>3
  <2> QED
    BY <2>0, <2>1, <2>2, <2>3 DEF HistorySurvives
<1> QED
  BY <1>1, HistoryInvariant, PTL

-----------------------------------------------------------------------------
(* The conversion of a hex file, for all lines a file may hold: the binary *)
(* file is the file's image.                                               *)
(*                                                                         *)
(* The invariant is that the list is in the order of the addresses, which  *)
(* is what the binary search needs and keeps, that its chunks hold exactly *)
(* the bytes of the records, each at its address, and that curr is the     *)
(* chunk that ends at prev_mem_addr.                                       *)

Octets == 0 .. 255
Chunks == [start_addr: 0 .. Modulus - 1, bytes: Seq(Octets)]
Records == (0 .. Modulus - 1) \X Seq(Octets)

HexShape ==
  /\ list \in [elem: Seq(Chunks), capacity: Nat] /\ told \in Seq(Records)
  /\ curr \in -1 .. Modulus - 1 /\ prev_mem_addr \in 0 .. Modulus - 1
  /\ linear_base_addr \in Nat /\ segment_addr \in Nat

Ordered(e) == \A i, j \in DOMAIN e : i < j => e[i].start_addr < e[j].start_addr

\* Bytes at their addresses.
Cells(start, bytes) == {<<start + i - 1, bytes[i]>> : i \in 1 .. Len(bytes)}
ListCells(e) == UNION {Cells(e[i].start_addr, e[i].bytes) : i \in DOMAIN e}
FileCells == UNION {Cells(told[i][1], told[i][2]) : i \in DOMAIN told}

\* The lowest chunk starts where the lowest record does.
Lowest(e, t) ==
  /\ \A i \in DOMAIN e : \E n \in DOMAIN t : t[n][1] = e[i].start_addr
  /\ \A n \in DOMAIN t : IF e = <<>> THEN t[n][1] = Modulus - 1
                          ELSE \E i \in DOMAIN e : e[i].start_addr <= t[n][1]

Current ==
  IF curr = -1 THEN list.elem = <<>> /\ prev_mem_addr = Modulus - 1
  ELSE \E i \in DOMAIN list.elem :
         /\ list.elem[i].start_addr = curr
         /\ Within => curr + Len(list.elem[i].bytes) = prev_mem_addr

Collected ==
  /\ Ordered(list.elem) /\ Current
  /\ Within => ListCells(list.elem) = FileCells /\ Lowest(list.elem, told)

HexInv == HexShape /\ (phase = "read" => Collected) /\ ImageIsTheFile

-----------------------------------------------------------------------------
\* One round of fwu_list_search: where g went on, or the last entry.
Side(e, item, m) == addr_compare_func(item, e[m + 1])
Halves(e, item, g, r) ==
  LET mid == (r[1] + r[2]) \div 2
  IN  CASE Side(e, item, mid) < 0 /\ mid > 0 /\ mid - 1 >= r[1] -> g[<<r[1], mid - 1>>]
        [] Side(e, item, mid) > 0 /\ mid + 1 <= r[2] -> g[<<mid + 1, r[2]>>]
        [] OTHER -> [at |-> mid, cond |-> Side(e, item, mid)]
Searches(e, item, n, f) == f = [r \in (0 .. n) \X (-1 .. n) |-> Halves(e, item, f, r)]

LEMMA Compared ==
  ASSUME NEW a, NEW b, a.start_addr \in Nat, b.start_addr \in Nat
  PROVE  /\ addr_compare_func(a, b) \in {-1, 0, 1}
         /\ addr_compare_func(a, b) < 0 <=> a.start_addr < b.start_addr
         /\ addr_compare_func(a, b) > 0 <=> b.start_addr < a.start_addr
         /\ addr_compare_func(a, b) = 0 <=> a.start_addr = b.start_addr
BY DEF addr_compare_func

LEMMA Middle ==
  ASSUME NEW a \in Int, NEW b \in Int
  PROVE  /\ (a + b) \div 2 \in Int
         /\ a <= b => a <= (a + b) \div 2 /\ (a + b) \div 2 <= b
         /\ b < a => (a + b) \div 2 < a /\ b <= (a + b) \div 2
OBVIOUS

\* What one round of the search is, where it goes on and where it ends.
Round(v, g, r, m, s) ==
  /\ s < 0 /\ ~(s > 0) /\ m > 0 /\ m - 1 >= r[1] => v = g[<<r[1], m - 1>>]
  /\ s > 0 /\ ~(s < 0) /\ m + 1 <= r[2] => v = g[<<m + 1, r[2]>>]
  /\ ~(s < 0 /\ m > 0 /\ m - 1 >= r[1]) /\ ~(s > 0 /\ m + 1 <= r[2])
       => v = [at |-> m, cond |-> s]
LEMMA OneRound ==
  ASSUME NEW e, NEW item, NEW g, NEW r
  PROVE  Round(Halves(e, item, g, r), g, r, (r[1] + r[2]) \div 2,
               Side(e, item, (r[1] + r[2]) \div 2))
BY DEF Halves, Round

LEMMA OneSide == ASSUME NEW e, NEW item, NEW m PROVE Side(e, item, m) \in {-1, 0, 1}
BY DEF Side, addr_compare_func

\* A round depends on one shorter range.
LEMMA ShorterRange ==
  ASSUME NEW n \in Nat, NEW e, NEW item, NEW r \in (0 .. n) \X (-1 .. n), NEW g, NEW h,
         \A x \in (0 .. n) \X (-1 .. n) : x[2] - x[1] < r[2] - r[1] => g[x] = h[x]
  PROVE  Halves(e, item, g, r) = Halves(e, item, h, r)
<1> DEFINE m == (r[1] + r[2]) \div 2
           s == Side(e, item, m)
           low == s < 0 /\ m > 0 /\ m - 1 >= r[1]
           high == s > 0 /\ m + 1 <= r[2]
<1>1. r[1] \in 0 .. n /\ r[2] \in -1 .. n
  OBVIOUS
<1>2. m \in Int /\ (r[1] <= r[2] => r[1] <= m /\ m <= r[2]) /\ (r[2] < r[1] => m < r[1] /\ r[2] <= m)
  BY <1>1, Middle
<1>3. s \in {-1, 0, 1}
  BY OneSide
<1>7. Round(Halves(e, item, g, r), g, r, m, s) /\ Round(Halves(e, item, h, r), h, r, m, s)
  BY OneRound
<1> HIDE DEF m, s
<1>4. CASE low
  <2> DEFINE x == <<r[1], m - 1>>
  <2>1. x \in (0 .. n) \X (-1 .. n) /\ x[2] - x[1] < r[2] - r[1]
    BY <1>1, <1>2, <1>4
  <2>2. g[x] = h[x]
    <3> HIDE DEF x
    <3> QED
      BY <2>1
  <2>3. ~(s > 0)
    BY <1>3, <1>4
  <2>4. Halves(e, item, g, r) = g[x] /\ Halves(e, item, h, r) = h[x]
    BY <1>4, <2>3, <1>7 DEF Round
  <2> QED
    BY <2>2, <2>4
<1>5. CASE high
  <2> DEFINE x == <<m + 1, r[2]>>
  <2>1. x \in (0 .. n) \X (-1 .. n) /\ x[2] - x[1] < r[2] - r[1]
    BY <1>1, <1>2, <1>5
  <2>2. g[x] = h[x]
    <3> HIDE DEF x
    <3> QED
      BY <2>1
  <2>3. ~(s < 0)
    BY <1>3, <1>5
  <2>4. Halves(e, item, g, r) = g[x] /\ Halves(e, item, h, r) = h[x]
    BY <1>5, <2>3, <1>7 DEF Round
  <2> QED
    BY <2>2, <2>4
<1>6. CASE ~low /\ ~high
  <2> DEFINE v == [at |-> m, cond |-> s]
  <2>1. Halves(e, item, g, r) = v /\ Halves(e, item, h, r) = v
    BY <1>6, <1>7 DEF Round
  <2> QED
    BY <2>1
<1> QED
  BY <1>4, <1>5, <1>6

\* The search of a list ends: it is a function of the range it starts with.
LEMMA SearchIs ==
  ASSUME NEW n \in Nat, NEW e, NEW item
  PROVE  \E f : Searches(e, item, n, f)
<1> DEFINE D == (0 .. n) \X (-1 .. n)
           Rank(r) == r[2] - r[1] + n + 1
           Below(w) == {r \in D : Rank(r) < w}
           On(w, g) == g = [r \in Below(w) |-> Halves(e, item, g, r)]
           N == 2 * n + 2
           X == {w \in 0 .. N : \E g : On(w, g)}
<1>1. \A r \in D : Rank(r) \in Nat /\ Rank(r) < N
  OBVIOUS
<1>2. 0 \in X
  <2>1. Below(0) = {}
    BY <1>1
  <2> DEFINE g == [r \in {} |-> 0]
  <2>2. g = [r \in Below(0) |-> Halves(e, item, g, r)]
    BY <2>1
  <2>3. On(0, g) /\ 0 \in 0 .. N
    BY <2>2
  <2> HIDE DEF On, g
  <2> QED
    BY <2>3
<1>3. ASSUME NEW w \in 1 .. N, w - 1 \in X PROVE w \in X
  <2>1. PICK g : On(w - 1, g)
    BY <1>3
  <2> DEFINE h == [r \in Below(w) |-> Halves(e, item, g, r)]
  <2>2. ASSUME NEW x \in Below(w - 1) PROVE g[x] = h[x]
    <3>1. x \in Below(w)
      BY <1>1
    <3> HIDE DEF Below
    <3>2. g[x] = Halves(e, item, g, x)
      BY <2>1
    <3>3. h[x] = Halves(e, item, g, x)
      BY <3>1
    <3> QED
      BY <3>2, <3>3
  <2>3. ASSUME NEW r \in Below(w) PROVE Halves(e, item, g, r) = Halves(e, item, h, r)
    <3>1. r \in D /\ Rank(r) < w
      OBVIOUS
    <3>2. ASSUME NEW x \in D, x[2] - x[1] < r[2] - r[1] PROVE g[x] = h[x]
      <4>1. Rank(x) < w - 1
        <5>1. /\ x[1] \in Int /\ x[2] \in Int /\ r[1] \in Int /\ r[2] \in Int
          BY <3>1
        <5> QED
          BY <3>1, <3>2, <5>1
      <4>2. x \in Below(w - 1)
        BY <4>1
      <4> HIDE DEF Below, h
      <4> QED
        BY <4>2, <2>2
    <3> HIDE DEF h, Below
    <3> QED
      BY <3>1, <3>2, ShorterRange
  <2>4. h = [r \in Below(w) |-> Halves(e, item, h, r)]
    <3> HIDE DEF Below
    <3> QED
      BY <2>3
  <2> HIDE DEF h, Below
  <2>5. On(w, h)
    BY <2>4
  <2>6. w \in 0 .. N
    OBVIOUS
  <2> HIDE DEF On
  <2> QED
    BY <2>5, <2>6
<1> HIDE DEF X
<1>4. N \in X
  BY <1>2, <1>3, HandedOn
<1>5. PICK f : On(N, f)
  BY <1>4 DEF X
<1>6. Below(N) = D
  BY <1>1
<1>7. f = [r \in D |-> Halves(e, item, f, r)]
  <2> HIDE DEF Below, D
  <2> QED
    BY <1>5, <1>6
<1> QED
  BY <1>7 DEF Searches

\* What the search returns: an entry, and the item is not beyond a neighbour.
Placed(e, item, s) ==
  /\ s.at \in 0 .. Len(e) - 1 /\ s.cond = Side(e, item, s.at)
  /\ s.cond < 0 => \A i \in 1 .. s.at : e[i].start_addr < item.start_addr
  /\ s.cond > 0 => \A i \in s.at + 2 .. Len(e) : item.start_addr < e[i].start_addr

LEMMA SideIs ==
  ASSUME NEW e \in Seq(Chunks), NEW item \in Chunks, NEW m \in 0 .. Len(e) - 1
  PROVE  /\ Side(e, item, m) \in {-1, 0, 1}
         /\ Side(e, item, m) < 0 <=> item.start_addr < e[m + 1].start_addr
         /\ Side(e, item, m) > 0 <=> e[m + 1].start_addr < item.start_addr
         /\ Side(e, item, m) = 0 <=> item.start_addr = e[m + 1].start_addr
<1>1. m + 1 \in 1 .. Len(e)
  OBVIOUS
<1>2. e[m + 1] \in Chunks
  BY <1>1
<1>3. item.start_addr \in Nat /\ e[m + 1].start_addr \in Nat
  BY <1>2, HexAssumption DEF Chunks
<1> QED
  BY <1>3, Compared DEF Side

\* The part of the list that is left out is on its side of the item.
Around(e, item, r) ==
  /\ r[1] <= r[2] /\ r[2] <= Len(e) - 1
  /\ \A i \in 1 .. r[1] : e[i].start_addr < item.start_addr
  /\ \A i \in r[2] + 2 .. Len(e) : item.start_addr < e[i].start_addr

LEMMA SearchPlaces ==
  ASSUME NEW n \in Nat, NEW e \in Seq(Chunks), Len(e) = n, Ordered(e), NEW item \in Chunks,
         NEW f, Searches(e, item, n, f)
  PROVE  \A r \in (0 .. n) \X (-1 .. n) : Around(e, item, r) => Placed(e, item, f[r])
<1> DEFINE D == (0 .. n) \X (-1 .. n)
           X == {w \in 0 .. n : \A r \in D : Around(e, item, r) /\ r[2] - r[1] < w
                                               => Placed(e, item, f[r])}
<1>0. \A i \in 1 .. n : e[i].start_addr \in Int
  <2>1. \A i \in 1 .. n : e[i] \in Chunks
    OBVIOUS
  <2> QED
    BY <2>1, HexAssumption DEF Chunks
<1>less. \A i, j \in 1 .. n : i < j => e[i].start_addr < e[j].start_addr
  BY DEF Ordered
<1>1. 0 \in X
  BY DEF Around
<1>2. ASSUME NEW w \in 1 .. n, w - 1 \in X PROVE w \in X
  <2> SUFFICES ASSUME NEW r \in D, Around(e, item, r), r[2] - r[1] < w
               PROVE  Placed(e, item, f[r])
    OBVIOUS
  <2>1. /\ r[1] \in 0 .. n /\ r[2] \in -1 .. n /\ r[1] <= r[2] /\ r[2] <= n - 1
        /\ \A i \in 1 .. r[1] : e[i].start_addr < item.start_addr
        /\ \A i \in r[2] + 2 .. n : item.start_addr < e[i].start_addr
    BY DEF Around
  <2>2. \A x \in D : Around(e, item, x) /\ x[2] - x[1] < w - 1 => Placed(e, item, f[x])
    BY <1>2
  <2> DEFINE m == (r[1] + r[2]) \div 2
             s == Side(e, item, m)
  <2>3. m \in Int /\ r[1] <= m /\ m <= r[2]
    BY <2>1, Middle
  <2>4. f[r] = Halves(e, item, f, r)
    BY DEF Searches
  <2>5. Round(f[r], f, r, m, s)
    BY <2>4, OneRound
  <2> HIDE DEF m
  <2>6. m \in 0 .. n - 1 /\ m + 1 \in 1 .. n
    BY <2>1, <2>3
  <2>7. /\ s \in {-1, 0, 1} /\ (s < 0 <=> item.start_addr < e[m + 1].start_addr)
        /\ (s > 0 <=> e[m + 1].start_addr < item.start_addr)
    BY <2>6, SideIs
  <2> HIDE DEF s
  <2>8. item.start_addr \in Int
    BY HexAssumption DEF Chunks
  <2>9. CASE s < 0 /\ m > 0 /\ m - 1 >= r[1]
    <3> DEFINE x == <<r[1], m - 1>>
    <3>1. x \in D /\ x[1] = r[1] /\ x[2] = m - 1 /\ x[2] - x[1] < w - 1
      BY <2>1, <2>3, <2>6, <2>9
    <3>2. \A i \in m - 1 + 2 .. n : item.start_addr < e[i].start_addr
      <4> SUFFICES ASSUME NEW i \in m - 1 + 2 .. n PROVE item.start_addr < e[i].start_addr
        OBVIOUS
      <4>1. i \in 1 .. n /\ (i = m + 1 \/ m + 1 < i)
        BY <2>6
      <4>2. item.start_addr < e[m + 1].start_addr
        BY <2>7, <2>9
      <4>3. m + 1 < i => e[m + 1].start_addr < e[i].start_addr
        BY <1>less, <2>6, <4>1
      <4>4. e[m + 1].start_addr \in Int /\ e[i].start_addr \in Int
        BY <1>0, <2>6, <4>1
      <4> QED
        BY <2>8, <4>1, <4>2, <4>3, <4>4
    <3>3. f[r] = f[x]
      BY <2>5, <2>7, <2>9 DEF Round
    <3> HIDE DEF x
    <3>4. Around(e, item, x)
      BY <2>1, <2>3, <2>9, <3>1, <3>2 DEF Around
    <3> QED
      BY <2>2, <3>1, <3>3, <3>4
  <2>10. CASE s > 0 /\ m + 1 <= r[2]
    <3> DEFINE x == <<m + 1, r[2]>>
    <3>1. x \in D /\ x[1] = m + 1 /\ x[2] = r[2] /\ x[2] - x[1] < w - 1
      BY <2>1, <2>3, <2>6, <2>10
    <3>2. \A i \in 1 .. m + 1 : e[i].start_addr < item.start_addr
      <4> SUFFICES ASSUME NEW i \in 1 .. m + 1 PROVE e[i].start_addr < item.start_addr
        OBVIOUS
      <4>1. i \in 1 .. n /\ (i = m + 1 \/ i < m + 1)
        BY <2>6
      <4>2. e[m + 1].start_addr < item.start_addr
        BY <2>7, <2>10
      <4>3. i < m + 1 => e[i].start_addr < e[m + 1].start_addr
        BY <1>less, <2>6, <4>1
      <4>4. e[m + 1].start_addr \in Int /\ e[i].start_addr \in Int
        BY <1>0, <2>6, <4>1
      <4> QED
        BY <2>8, <4>1, <4>2, <4>3, <4>4
    <3>3. f[r] = f[x]
      BY <2>5, <2>7, <2>10 DEF Round
    <3> HIDE DEF x
    <3>4. Around(e, item, x)
      BY <2>1, <2>3, <2>10, <3>1, <3>2 DEF Around
    <3> QED
      BY <2>2, <3>1, <3>3, <3>4
  <2>11. CASE ~(s < 0 /\ m > 0 /\ m - 1 >= r[1]) /\ ~(s > 0 /\ m + 1 <= r[2])
    <3>1. f[r] = [at |-> m, cond |-> s]
      BY <2>5, <2>11 DEF Round
    <3>2. f[r].at = m /\ f[r].cond = s
      BY <3>1
    <3>3. s < 0 => \A i \in 1 .. m : e[i].start_addr < item.start_addr
      <4>1. s < 0 => m = 0 \/ m = r[1]
        BY <2>1, <2>3, <2>6, <2>11
      <4> QED
        BY <2>1, <4>1
    <3>4. s > 0 => \A i \in m + 2 .. n : item.start_addr < e[i].start_addr
      <4>1. s > 0 => m = r[2]
        BY <2>1, <2>3, <2>6, <2>11
      <4> QED
        BY <2>1, <4>1
    <3> QED
      BY <2>6, <3>2, <3>3, <3>4 DEF Placed, s
  <2> QED
    BY <2>9, <2>10, <2>11
<1> HIDE DEF X
<1>3. n \in X
  BY <1>1, <1>2, HandedOn
<1> QED
  <2> SUFFICES ASSUME NEW r \in D, Around(e, item, r) PROVE Placed(e, item, f[r])
    OBVIOUS
  <2>1. r[2] - r[1] < n
    BY DEF Around
  <2> QED
    BY <1>3, <2>1 DEF X

LEMMA SearchFinds ==
  ASSUME NEW L, L.elem \in Seq(Chunks), L.elem # <<>>, Ordered(L.elem), NEW item \in Chunks
  PROVE  Placed(L.elem, item, Search(L, item))
<1> DEFINE e == L.elem
           n == Len(e)
           f == CHOOSE f : Searches(e, item, n, f)
           r == <<0, n - 1>>
<1>1. n \in Nat /\ n >= 1 /\ r \in (0 .. n) \X (-1 .. n) /\ r[1] = 0 /\ r[2] = n - 1
  OBVIOUS
<1>2. Searches(e, item, n, f)
  BY <1>1, SearchIs
<1>3. Search(L, item) = f[r]
  BY DEF Search, Searches, Halves, Side
<1> HIDE DEF f, r, n
<1>4. Around(e, item, r)
  BY <1>1 DEF Around, n
<1>5. \A x \in (0 .. n) \X (-1 .. n) : Around(e, item, x) => Placed(e, item, f[x])
  BY <1>1, <1>2, SearchPlaces DEF n
<1> QED
  BY <1>1, <1>3, <1>4, <1>5

-----------------------------------------------------------------------------
\* f is e with an item put in behind the first p.
PutIn(e, f, p, item) ==
  /\ p \in 0 .. Len(e) /\ f \in Seq(Chunks) /\ Len(f) = Len(e) + 1
  /\ f[p + 1] = item
  /\ \A i \in 1 .. p : f[i] = e[i]
  /\ \A i \in p + 1 .. Len(e) : f[i + 1] = e[i]

LEMMA InsertPuts ==
  ASSUME NEW e \in Seq(Chunks), NEW p \in 0 .. Len(e), NEW item \in Chunks
  PROVE  PutIn(e, InsertAt(e, p + 1, item), p, item)
<1> DEFINE n == Len(e)
           a == SubSeq(e, 1, p)
           b == SubSeq(e, p + 1, n)
           c == a \o <<item>>
           f == c \o b
<1>0. n \in Nat /\ p \in Nat /\ p <= n
  OBVIOUS
<1>1. InsertAt(e, p + 1, item) = f
  <2>1. (p + 1) - 1 = p
    BY <1>0
  <2>2. InsertAt(e, p + 1, item) = SubSeq(e, 1, (p + 1) - 1) \o <<item>> \o SubSeq(e, p + 1, Len(e))
    BY Zenon DEF InsertAt
  <2> QED
    BY <2>1, <2>2, Zenon
<1>2. a \in Seq(Chunks) /\ Len(a) = p /\ \A i \in 1 .. p : a[i] = e[i]
  BY <1>0
<1>3. b \in Seq(Chunks) /\ Len(b) = n - p /\ \A i \in 1 .. n - p : b[i] = e[p + i]
  BY <1>0
<1>4. <<item>> \in Seq(Chunks) /\ Len(<<item>>) = 1 /\ <<item>>[1] = item
  OBVIOUS
<1> HIDE DEF a, b, n
<1>5. c \in Seq(Chunks) /\ Len(c) = p + 1 /\ c[p + 1] = item /\ \A i \in 1 .. p : c[i] = e[i]
  <2>1. c \in Seq(Chunks) /\ Len(c) = p + 1
        /\ \A i \in 1 .. p + 1 : c[i] = IF i <= p THEN a[i] ELSE <<item>>[i - p]
    BY <1>0, <1>2, <1>4, ConcatProperties
  <2>2. p + 1 \in 1 .. p + 1 /\ ~(p + 1 <= p) /\ p + 1 - p = 1
    BY <1>0
  <2>3. \A i \in 1 .. p : i \in 1 .. p + 1 /\ i <= p
    BY <1>0
  <2> HIDE DEF c
  <2>4. c[p + 1] = item
    BY <1>4, <2>1, <2>2
  <2>5. ASSUME NEW i \in 1 .. p PROVE c[i] = e[i]
    BY <1>2, <2>1, <2>3
  <2> QED
    BY <2>1, <2>4, <2>5
<1> HIDE DEF c
<1>6. /\ f \in Seq(Chunks) /\ Len(f) = p + 1 + (n - p)
      /\ \A i \in 1 .. p + 1 + (n - p) : f[i] = IF i <= p + 1 THEN c[i] ELSE b[i - (p + 1)]
  <2>1. /\ f \in Seq(Chunks) /\ Len(f) = Len(c) + Len(b)
        /\ \A i \in 1 .. Len(c) + Len(b) : f[i] = IF i <= Len(c) THEN c[i] ELSE b[i - Len(c)]
    BY <1>3, <1>5, ConcatProperties
  <2> HIDE DEF f
  <2> QED
    BY <1>3, <1>5, <2>1, Zenon
<1>7. \A i \in 1 .. p + 1 : i \in 1 .. p + 1 + (n - p) /\ f[i] = c[i]
  BY <1>0, <1>6
<1>8. ASSUME NEW i \in p + 1 .. n PROVE f[i + 1] = e[i]
  <2>1. /\ i + 1 \in 1 .. p + 1 + (n - p) /\ ~(i + 1 <= p + 1) /\ i + 1 - (p + 1) = i - p
        /\ i - p \in 1 .. n - p /\ p + (i - p) = i
    BY <1>0
  <2>2. f[i + 1] = b[i - p]
    BY <1>6, <2>1
  <2>3. b[i - p] = e[p + (i - p)]
    BY <1>3, <2>1
  <2> QED
    BY <2>1, <2>2, <2>3
<1>9. f[p + 1] = item /\ \A i \in 1 .. p : f[i] = e[i]
  <2>1. p + 1 \in 1 .. p + 1 /\ \A i \in 1 .. p : i \in 1 .. p + 1
    BY <1>0
  <2> QED
    BY <1>5, <1>7, <2>1
<1>10. Len(f) = n + 1
  BY <1>0, <1>6
<1> HIDE DEF f
<1> QED
  BY <1>0, <1>1, <1>6, <1>8, <1>9, <1>10 DEF PutIn, n

\* Where each entry comes from.
LEMMA PutFrom ==
  ASSUME NEW e \in Seq(Chunks), NEW f, NEW p, NEW item, PutIn(e, f, p, item),
         NEW i \in 1 .. Len(f)
  PROVE  \/ i \in 1 .. Len(e) /\ i <= p /\ f[i] = e[i]
         \/ i = p + 1 /\ f[i] = item
         \/ i - 1 \in 1 .. Len(e) /\ i - 1 > p /\ f[i] = e[i - 1]
<1>1. p \in 0 .. Len(e) /\ Len(f) = Len(e) + 1 /\ Len(e) \in Nat
  BY DEF PutIn
<1>2. CASE i <= p
  BY <1>1, <1>2 DEF PutIn
<1>3. CASE i = p + 1
  BY <1>3 DEF PutIn
<1>4. CASE i > p + 1
  <2>1. i - 1 \in p + 1 .. Len(e) /\ i - 1 + 1 = i /\ i - 1 \in 1 .. Len(e) /\ i - 1 > p
    BY <1>1, <1>4
  <2>2. f[i - 1 + 1] = e[i - 1]
    BY <2>1 DEF PutIn
  <2> QED
    BY <2>1, <2>2
<1> QED
  BY <1>1, <1>2, <1>3, <1>4

LEMMA PutInOrder ==
  ASSUME NEW e \in Seq(Chunks), NEW f, NEW p, NEW item \in Chunks, PutIn(e, f, p, item),
         Ordered(e), \A i \in 1 .. p : e[i].start_addr < item.start_addr,
         \A i \in p + 1 .. Len(e) : item.start_addr < e[i].start_addr
  PROVE  Ordered(f)
<1> SUFFICES ASSUME NEW i \in 1 .. Len(f), NEW j \in 1 .. Len(f), i < j
             PROVE  f[i].start_addr < f[j].start_addr
  <2>1. f \in Seq(Chunks)
    BY DEF PutIn
  <2> QED
    BY <2>1 DEF Ordered
<1>0. p \in 0 .. Len(e) /\ Len(e) \in Nat
  BY DEF PutIn
<1>1. \/ i \in 1 .. Len(e) /\ i <= p /\ f[i] = e[i]
      \/ i = p + 1 /\ f[i] = item
      \/ i - 1 \in 1 .. Len(e) /\ i - 1 > p /\ f[i] = e[i - 1]
  BY PutFrom
<1>2. \/ j \in 1 .. Len(e) /\ j <= p /\ f[j] = e[j]
      \/ j = p + 1 /\ f[j] = item
      \/ j - 1 \in 1 .. Len(e) /\ j - 1 > p /\ f[j] = e[j - 1]
  BY PutFrom
<1>3. item.start_addr \in Int /\ \A x \in 1 .. Len(e) : e[x].start_addr \in Int
  <2>1. \A x \in 1 .. Len(e) : e[x] \in Chunks
    OBVIOUS
  <2>2. \A c \in Chunks : c.start_addr \in Int
    BY HexAssumption DEF Chunks
  <2> QED
    BY <2>1, <2>2
<1>4. \A x, y \in 1 .. Len(e) : x < y => e[x].start_addr < e[y].start_addr
  BY DEF Ordered
<1>5. CASE i \in 1 .. Len(e) /\ i <= p /\ f[i] = e[i]
  <2>1. CASE j \in 1 .. Len(e) /\ j <= p /\ f[j] = e[j]
    BY <1>4, <1>5, <2>1
  <2>2. CASE j = p + 1 /\ f[j] = item
    BY <1>0, <1>5, <2>2
  <2>3. CASE j - 1 \in 1 .. Len(e) /\ j - 1 > p /\ f[j] = e[j - 1]
    <3>1. i < j - 1
      BY <1>0, <1>5, <2>3
    <3> QED
      BY <1>4, <1>5, <2>3, <3>1
  <2> QED
    BY <1>2, <2>1, <2>2, <2>3
<1>6. CASE i = p + 1 /\ f[i] = item
  <2>1. j - 1 \in 1 .. Len(e) /\ j - 1 > p /\ f[j] = e[j - 1]
    BY <1>0, <1>2, <1>6
  <2>2. j - 1 \in p + 1 .. Len(e)
    BY <1>0, <2>1
  <2> QED
    BY <1>6, <2>1, <2>2
<1>7. CASE i - 1 \in 1 .. Len(e) /\ i - 1 > p /\ f[i] = e[i - 1]
  <2>1. j - 1 \in 1 .. Len(e) /\ j - 1 > p /\ f[j] = e[j - 1] /\ i - 1 < j - 1
    BY <1>0, <1>2, <1>7
  <2> QED
    BY <1>4, <1>7, <2>1
<1> QED
  BY <1>1, <1>5, <1>6, <1>7

\* An item without bytes adds none.
LEMMA PutCells ==
  ASSUME NEW e \in Seq(Chunks), NEW f, NEW p, NEW item \in Chunks, PutIn(e, f, p, item),
         item.bytes = <<>>
  PROVE  ListCells(f) = ListCells(e)
<1>0. p \in 0 .. Len(e) /\ Len(e) \in Nat /\ Len(f) = Len(e) + 1 /\ DOMAIN f = 1 .. Len(f)
      /\ DOMAIN e = 1 .. Len(e)
  BY DEF PutIn
<1> DEFINE C(x) == Cells(x.start_addr, x.bytes)
<1>1. C(item) = {}
  BY DEF Cells
<1> HIDE DEF C
<1>2. ListCells(f) = UNION {C(f[i]) : i \in 1 .. Len(f)} /\ ListCells(e) = UNION {C(e[i]) : i \in 1 .. Len(e)}
  BY <1>0 DEF ListCells, C
<1>3. ASSUME NEW i \in 1 .. Len(f), NEW z \in C(f[i]) PROVE \E j \in 1 .. Len(e) : z \in C(e[j])
  BY <1>1, PutFrom
<1>4. ASSUME NEW j \in 1 .. Len(e), NEW z \in C(e[j]) PROVE \E i \in 1 .. Len(f) : z \in C(f[i])
  <2>1. CASE j <= p
    <3>1. j \in 1 .. Len(f) /\ f[j] = e[j]
      BY <1>0, <2>1 DEF PutIn
    <3> QED
      BY <3>1
  <2>2. CASE j > p
    <3>1. j + 1 \in 1 .. Len(f) /\ f[j + 1] = e[j]
      BY <1>0, <2>2 DEF PutIn
    <3> QED
      BY <3>1
  <2> QED
    BY <1>0, <2>1, <2>2
<1>5. ListCells(f) \subseteq ListCells(e)
  BY <1>2, <1>3
<1>6. ListCells(e) \subseteq ListCells(f)
  BY <1>2, <1>4
<1> QED
  BY <1>5, <1>6

Lists == [elem: Seq(Chunks), capacity: Nat]

LEMMA GrowIs == ASSUME NEW c \in Nat PROVE Grow(c) \in Nat
BY DEF Grow

LEMMA InsertIs ==
  ASSUME NEW L \in Lists, NEW p \in 0 .. Len(L.elem), NEW item \in Chunks
  PROVE  Insert(L, p, item) \in Lists /\ PutIn(L.elem, Insert(L, p, item).elem, p, item)
<1>1. PutIn(L.elem, InsertAt(L.elem, p + 1, item), p, item)
  BY InsertPuts DEF Lists
<1>2. InsertAt(L.elem, p + 1, item) \in Seq(Chunks)
  BY <1>1 DEF PutIn
<1>3. L.capacity \in Nat /\ Grow(L.capacity) \in Nat
  BY GrowIs DEF Lists
<1>4. Insert(L, p, item).elem = InsertAt(L.elem, p + 1, item)
  BY DEF Insert
<1>5. Insert(L, p, item) \in Lists
  BY <1>2, <1>3 DEF Insert, Lists
<1> QED
  BY <1>1, <1>4, <1>5

\* fwu_list_insert_by_order keeps the order.
LEMMA InsertsByOrder ==
  ASSUME NEW L \in Lists, Ordered(L.elem), NEW item \in Chunks, ~IsDup(L, item)
  PROVE  \E p : /\ InsertByOrder(L, item) \in Lists
                /\ PutIn(L.elem, InsertByOrder(L, item).elem, p, item)
                /\ Ordered(InsertByOrder(L, item).elem)
<1> DEFINE e == L.elem
           s == Search(L, item)
           p == IF e = <<>> THEN 0 ELSE IF s.cond < 0 THEN s.at ELSE s.at + 1
<1>0. e \in Seq(Chunks) /\ Len(e) \in Nat
  BY DEF Lists
<1>1. /\ p \in 0 .. Len(e) /\ \A i \in 1 .. p : e[i].start_addr < item.start_addr
      /\ \A i \in p + 1 .. Len(e) : item.start_addr < e[i].start_addr
  <2>1. CASE e = <<>>
    BY <1>0, <2>1
  <2>2. CASE e # <<>>
    <3> DEFINE m == s.at
    <3>1. Placed(e, item, s)
      BY <1>0, <2>2, SearchFinds
    <3>2. s.cond # 0
      BY <2>2 DEF IsDup
    <3> HIDE DEF s
    <3>3. m \in 0 .. Len(e) - 1 /\ s.cond = Side(e, item, m)
      BY <3>1 DEF Placed
    <3>4. /\ s.cond \in {-1, 0, 1} /\ (s.cond < 0 <=> item.start_addr < e[m + 1].start_addr)
          /\ (s.cond > 0 <=> e[m + 1].start_addr < item.start_addr)
      BY <1>0, <3>3, SideIs
    <3>5. item.start_addr \in Int /\ \A i \in 1 .. Len(e) : e[i].start_addr \in Int
      <4>1. \A i \in 1 .. Len(e) : e[i] \in Chunks
        BY <1>0
      <4> QED
        BY <4>1, HexAssumption DEF Chunks
    <3>6. m + 1 \in 1 .. Len(e) /\ \A i, j \in 1 .. Len(e) : i < j => e[i].start_addr < e[j].start_addr
      BY <1>0, <3>3 DEF Ordered
    <3>7. CASE s.cond < 0
      <4>1. p = m /\ \A i \in 1 .. m : e[i].start_addr < item.start_addr
        BY <2>2, <3>1, <3>7 DEF Placed
      <4>2. \A i \in m + 1 .. Len(e) : item.start_addr < e[i].start_addr
        <5> SUFFICES ASSUME NEW i \in m + 1 .. Len(e) PROVE item.start_addr < e[i].start_addr
          OBVIOUS
        <5>1. i = m + 1 \/ (m + 1 < i /\ e[m + 1].start_addr < e[i].start_addr)
          BY <1>0, <3>3, <3>6
        <5>2. i \in 1 .. Len(e)
          BY <1>0, <3>3
        <5> QED
          BY <3>4, <3>5, <3>6, <3>7, <5>1, <5>2
      <4>3. m \in 0 .. Len(e)
        BY <1>0, <3>3
      <4> HIDE DEF p, m
      <4> QED
        BY <4>1, <4>2, <4>3
    <3>8. CASE s.cond > 0
      <4>1. p = m + 1 /\ \A i \in m + 2 .. Len(e) : item.start_addr < e[i].start_addr
        BY <2>2, <3>1, <3>8, <3>4 DEF Placed
      <4>2. \A i \in 1 .. m + 1 : e[i].start_addr < item.start_addr
        <5> SUFFICES ASSUME NEW i \in 1 .. m + 1 PROVE e[i].start_addr < item.start_addr
          OBVIOUS
        <5>1. i = m + 1 \/ (i < m + 1 /\ e[i].start_addr < e[m + 1].start_addr)
          BY <1>0, <3>3, <3>6
        <5>2. i \in 1 .. Len(e)
          BY <1>0, <3>3
        <5> QED
          BY <3>4, <3>5, <3>6, <3>8, <5>1, <5>2
      <4>3. m + 1 \in 0 .. Len(e) /\ m + 1 + 1 = m + 2
        BY <1>0, <3>3
      <4> HIDE DEF p, m
      <4> QED
        BY <4>1, <4>2, <4>3
    <3> QED
      BY <3>2, <3>4, <3>7, <3>8
  <2> QED
    BY <2>1, <2>2
<1>2. InsertByOrder(L, item) = Insert(L, p, item)
  BY DEF InsertByOrder
<1> HIDE DEF p
<1>3. Insert(L, p, item) \in Lists /\ PutIn(e, Insert(L, p, item).elem, p, item)
  BY <1>1, InsertIs
<1>4. Ordered(Insert(L, p, item).elem)
  BY <1>0, <1>1, <1>3, PutInOrder
<1> QED
  BY <1>2, <1>3, <1>4

-----------------------------------------------------------------------------
LEMMA CellsOfBoth ==
  ASSUME NEW a \in Int, NEW x \in Seq(Octets), NEW y \in Seq(Octets)
  PROVE  Cells(a, x \o y) = Cells(a, x) \cup Cells(a + Len(x), y)
<1> DEFINE z == x \o y
           m == Len(x)
           n == Len(y)
<1>1. /\ m \in Nat /\ n \in Nat /\ Len(z) = m + n
      /\ \A i \in 1 .. m + n : z[i] = IF i <= m THEN x[i] ELSE y[i - m]
  BY ConcatProperties
<1> HIDE DEF z, m, n
<1>2. Cells(a, z) \subseteq Cells(a, x) \cup Cells(a + m, y)
  <2> SUFFICES ASSUME NEW c \in Cells(a, z) PROVE c \in Cells(a, x) \cup Cells(a + m, y)
    OBVIOUS
  <2>1. PICK i \in 1 .. m + n : c = <<a + i - 1, z[i]>>
    BY <1>1 DEF Cells
  <2>2. CASE i <= m
    <3>1. i \in 1 .. m /\ z[i] = x[i]
      BY <1>1, <2>2
    <3> QED
      BY <2>1, <3>1 DEF Cells, m
  <2>3. CASE ~(i <= m)
    <3>1. i - m \in 1 .. n /\ z[i] = y[i - m] /\ (a + m) + (i - m) - 1 = a + i - 1
      BY <1>1, <2>3
    <3>2. c = <<(a + m) + (i - m) - 1, y[i - m]>>
      BY <2>1, <3>1
    <3> QED
      BY <3>1, <3>2 DEF Cells, n
  <2> QED
    BY <2>2, <2>3
<1>3. ASSUME NEW c \in Cells(a, x) PROVE c \in Cells(a, z)
  <2>1. PICK i \in 1 .. m : c = <<a + i - 1, x[i]>>
    BY DEF Cells, m
  <2>2. i \in 1 .. Len(z) /\ z[i] = x[i]
    BY <1>1
  <2> QED
    BY <2>1, <2>2 DEF Cells
<1>4. ASSUME NEW c \in Cells(a + m, y) PROVE c \in Cells(a, z)
  <2>1. PICK i \in 1 .. n : c = <<(a + m) + i - 1, y[i]>>
    BY DEF Cells, n
  <2>2. m + i \in 1 .. Len(z) /\ ~(m + i <= m) /\ m + i - m = i /\ (a + m) + i - 1 = a + (m + i) - 1
    BY <1>1
  <2>3. z[m + i] = y[i]
    BY <1>1, <2>2
  <2>4. c = <<a + (m + i) - 1, z[m + i]>>
    BY <2>1, <2>2, <2>3
  <2> QED
    BY <2>2, <2>4 DEF Cells
<1> QED
  BY <1>2, <1>3, <1>4 DEF z, m

\* F is the list L with bytes added to its m-th chunk.
FilledAt(L, F, m, bytes) ==
  /\ F \in Lists /\ Len(F.elem) = Len(L.elem)
  /\ \A i \in 1 .. Len(L.elem) : F.elem[i].start_addr = L.elem[i].start_addr
  /\ F.elem[m].bytes = L.elem[m].bytes \o bytes
  /\ \A i \in 1 .. Len(L.elem) : i # m => F.elem[i] = L.elem[i]

LEMMA FilledIs ==
  ASSUME NEW L \in Lists, Ordered(L.elem), NEW m \in 1 .. Len(L.elem), NEW bytes \in Seq(Octets)
  PROVE  FilledAt(L, Filled(L, L.elem[m].start_addr, bytes), m, bytes)
<1> DEFINE e == L.elem
           start == e[m].start_addr
           G(i) == IF e[i].start_addr = start THEN [e[i] EXCEPT !.bytes = @ \o bytes] ELSE e[i]
           f == [i \in DOMAIN e |-> G(i)]
           F == Filled(L, start, bytes)
<1>0. e \in Seq(Chunks) /\ Len(e) \in Nat /\ DOMAIN e = 1 .. Len(e)
  BY DEF Lists
<1>1. \A i \in 1 .. Len(e) : e[i] \in Chunks /\ (e[i].start_addr = start <=> i = m)
  <2> SUFFICES ASSUME NEW i \in 1 .. Len(e)
               PROVE  e[i] \in Chunks /\ (e[i].start_addr = start <=> i = m)
    OBVIOUS
  <2>1. e[i] \in Chunks /\ e[m] \in Chunks
    BY <1>0
  <2>2. e[i].start_addr \in Int /\ start \in Int
    BY <2>1, HexAssumption DEF Chunks
  <2>3. i < m \/ m < i => e[i].start_addr # start
    BY <1>0, <2>2 DEF Ordered
  <2> QED
    BY <1>0, <2>1, <2>3
<1>2. F = [L EXCEPT !.elem = f]
  BY Zenon DEF Filled
<1>3. F.elem = f /\ F.capacity = L.capacity
  BY <1>2 DEF Lists
<1> HIDE DEF F, start
<1>4. ASSUME NEW i \in 1 .. Len(e)
      PROVE  /\ G(i) \in Chunks /\ G(i).start_addr = e[i].start_addr
             /\ i # m => G(i) = e[i]
             /\ i = m => G(i).bytes = e[i].bytes \o bytes
  <2>1. e[i] \in Chunks
    BY <1>1
  <2>2. e[i].bytes \o bytes \in Seq(Octets)
    BY <2>1 DEF Chunks
  <2>3. [e[i] EXCEPT !.bytes = @ \o bytes] \in Chunks
    BY <2>1, <2>2 DEF Chunks
  <2>4. i = m => G(i) = [e[i] EXCEPT !.bytes = @ \o bytes]
    BY <1>1
  <2>5. i # m => G(i) = e[i]
    BY <1>1
  <2>6. [e[i] EXCEPT !.bytes = @ \o bytes].bytes = e[i].bytes \o bytes
        /\ [e[i] EXCEPT !.bytes = @ \o bytes].start_addr = e[i].start_addr
    BY <2>1 DEF Chunks
  <2> HIDE DEF G
  <2> QED
    BY <2>1, <2>3, <2>4, <2>5, <2>6
<1> HIDE DEF G
<1>5. f \in Seq(Chunks) /\ Len(f) = Len(e) /\ \A i \in 1 .. Len(e) : f[i] = G(i)
  <2>1. f \in [1 .. Len(e) -> Chunks]
    BY <1>0, <1>4
  <2> QED
    BY <1>0, <2>1
<1> HIDE DEF f
<1>6. F \in Lists
  <2>1. L.capacity \in Nat /\ F = [elem |-> f, capacity |-> L.capacity]
    BY <1>2 DEF Lists
  <2> QED
    BY <1>5, <2>1 DEF Lists
<1>7. FilledAt(L, F, m, bytes)
  BY <1>3, <1>4, <1>5, <1>6 DEF FilledAt
<1> QED
  BY <1>7 DEF F, start

LEMMA FilledCells ==
  ASSUME NEW L \in Lists, NEW m \in 1 .. Len(L.elem), NEW bytes \in Seq(Octets), NEW F,
         FilledAt(L, F, m, bytes)
  PROVE  /\ ListCells(F.elem) = ListCells(L.elem)
              \cup Cells(L.elem[m].start_addr + Len(L.elem[m].bytes), bytes)
         /\ Ordered(L.elem) => Ordered(F.elem)
<1> DEFINE e == L.elem
           f == F.elem
           n == Len(e)
           C(x) == Cells(x.start_addr, x.bytes)
           new == Cells(e[m].start_addr + Len(e[m].bytes), bytes)
<1>0. /\ e \in Seq(Chunks) /\ f \in Seq(Chunks) /\ n \in Nat /\ DOMAIN e = 1 .. n /\ DOMAIN f = 1 .. n
      /\ \A i \in 1 .. n : f[i].start_addr = e[i].start_addr /\ (i # m => f[i] = e[i])
      /\ f[m].bytes = e[m].bytes \o bytes
  BY DEF Lists, FilledAt
<1>1. C(f[m]) = C(e[m]) \cup new
  <2>1. e[m] \in Chunks
    BY <1>0
  <2>2. e[m].start_addr \in Int /\ e[m].bytes \in Seq(Octets)
    BY <2>1, HexAssumption DEF Chunks
  <2>3. f[m].start_addr = e[m].start_addr /\ f[m].bytes = e[m].bytes \o bytes
    BY <1>0
  <2>4. C(f[m]) = Cells(e[m].start_addr, e[m].bytes \o bytes)
    BY <2>3, Zenon
  <2> DEFINE x == e[m].start_addr
             d == e[m].bytes
  <2>5. x \in Int /\ d \in Seq(Octets)
    BY <2>2
  <2> HIDE DEF x, d
  <2>6. Cells(x, d \o bytes) = Cells(x, d) \cup Cells(x + Len(d), bytes)
    BY <2>5, CellsOfBoth
  <2> QED
    BY <2>4, <2>6 DEF x, d
<1>2. ListCells(f) = UNION {C(f[i]) : i \in 1 .. n} /\ ListCells(e) = UNION {C(e[i]) : i \in 1 .. n}
  BY <1>0 DEF ListCells
<1>3. \A i \in 1 .. n : i # m => C(f[i]) = C(e[i])
  BY <1>0
<1> HIDE DEF C, new, e, f, n
<1>4. m \in 1 .. n
  BY DEF n, e
<1>5. ListCells(f) \subseteq ListCells(e) \cup new
  <2> SUFFICES ASSUME NEW i \in 1 .. n, NEW z \in C(f[i])
               PROVE  z \in ListCells(e) \cup new
    BY <1>2
  <2> QED
    BY <1>1, <1>2, <1>3
<1>6. ListCells(e) \subseteq ListCells(f)
  <2> SUFFICES ASSUME NEW i \in 1 .. n, NEW z \in C(e[i])
               PROVE  z \in ListCells(f)
    BY <1>2
  <2>1. z \in C(f[i])
    BY <1>1, <1>3
  <2> QED
    BY <1>2, <2>1
<1>7. new \subseteq ListCells(f)
  BY <1>1, <1>2, <1>4
<1>8. Ordered(e) => Ordered(f)
  BY <1>0 DEF Ordered
<1> QED
  BY <1>5, <1>6, <1>7, <1>8 DEF e, f, new

-----------------------------------------------------------------------------
(* The steps.                                                              *)
LEMMA Unwrapped == ASSUME NEW x \in Nat, NEW y \in Nat, x < y PROVE x % y = x
BY Z3

LEMMA AddressIs == ASSUME HexShape, NEW l \in Lines PROVE MemAddr(l) \in 0 .. Modulus - 1
<1> DEFINE a == linear_base_addr * LinearUnit
           b == segment_addr * SegmentUnit
<1>1. linear_base_addr \in Nat /\ segment_addr \in Nat /\ LinearUnit \in Nat /\ SegmentUnit \in Nat
      /\ Modulus \in Nat /\ Modulus > 0 /\ l.addr \in Nat
  BY HexAssumption DEF HexShape
<1>2. a \in Nat /\ b \in Nat
  BY <1>1
<1>3. MemAddr(l) = (a + b + l.addr) % Modulus
  BY DEF MemAddr
<1> HIDE DEF a, b
<1>4. a + b + l.addr \in Nat
  BY <1>1, <1>2
<1> QED
  BY <1>1, <1>3, <1>4

\* A record more in the file.
More(r) ==
  /\ told' \in Seq(Records) /\ FileCells' = FileCells \cup Cells(r[1], r[2])
  /\ Within' => Within /\ r[1] + Len(r[2]) < Modulus
  /\ Len(told) + 1 \in DOMAIN told' /\ told'[Len(told) + 1] = r
  /\ \A n \in DOMAIN told : n \in DOMAIN told' /\ told'[n] = told[n]
  /\ \A n \in DOMAIN told' : n \in DOMAIN told \/ n = Len(told) + 1
LEMMA MoreIs ==
  ASSUME told \in Seq(Records), NEW r \in Records, told' = Append(told, r)
  PROVE  More(r)
<1> DEFINE m == Len(told)
           C(x) == Cells(x[1], x[2])
<1>1. /\ m \in Nat /\ told' \in Seq(Records) /\ DOMAIN told = 1 .. m /\ DOMAIN told' = 1 .. m + 1
      /\ told'[m + 1] = r /\ \A n \in 1 .. m : told'[n] = told[n]
  OBVIOUS
<1>2. /\ FileCells = UNION {C(told[n]) : n \in 1 .. m}
      /\ FileCells' = UNION {C(told'[n]) : n \in 1 .. m + 1}
  BY <1>1 DEF FileCells, Cells
<1> HIDE DEF m, C
<1>3. FileCells' \subseteq FileCells \cup C(r)
  <2> SUFFICES ASSUME NEW n \in 1 .. m + 1, NEW z \in C(told'[n]) PROVE z \in FileCells \cup C(r)
    BY <1>2
  <2>1. n = m + 1 \/ n \in 1 .. m
    BY <1>1
  <2> QED
    BY <1>1, <1>2, <2>1
<1>4. FileCells \subseteq FileCells'
  <2> SUFFICES ASSUME NEW n \in 1 .. m, NEW z \in C(told[n]) PROVE z \in FileCells'
    BY <1>2
  <2>1. n \in 1 .. m + 1 /\ z \in C(told'[n])
    BY <1>1
  <2> QED
    BY <1>2, <2>1
<1>5. C(r) \subseteq FileCells'
  <2>1. m + 1 \in 1 .. m + 1 /\ C(told'[m + 1]) = C(r)
    BY <1>1
  <2> QED
    BY <1>2, <2>1
<1>6. ASSUME Within' PROVE Within /\ r[1] + Len(r[2]) < Modulus
  <2>1. \A n \in 1 .. m + 1 : told'[n][1] + Len(told'[n][2]) < Modulus
    BY <1>1, <1>6 DEF Within
  <2>2. m + 1 \in 1 .. m + 1 /\ \A n \in 1 .. m : n \in 1 .. m + 1
    BY <1>1
  <2> QED
    BY <1>1, <2>1, <2>2 DEF Within
<1>7. FileCells' = FileCells \cup Cells(r[1], r[2])
  BY <1>3, <1>4, <1>5 DEF C
<1>8. /\ m + 1 \in DOMAIN told' /\ \A n \in DOMAIN told : n \in DOMAIN told'
      /\ \A n \in DOMAIN told' : n \in DOMAIN told \/ n = m + 1
  BY <1>1
<1> QED
  BY <1>1, <1>6, <1>7, <1>8 DEF More, m

\* What each chunk of a list is.
LEMMA ChunkIs ==
  ASSUME NEW e \in Seq(Chunks), NEW i \in 1 .. Len(e)
  PROVE  e[i] \in Chunks /\ e[i].start_addr \in 0 .. Modulus - 1 /\ e[i].bytes \in Seq(Octets)
         /\ Len(e[i].bytes) \in Nat
<1>1. e[i] \in Chunks
  OBVIOUS
<1>2. e[i].start_addr \in 0 .. Modulus - 1 /\ e[i].bytes \in Seq(Octets)
  BY <1>1 DEF Chunks
<1> QED
  BY <1>1, <1>2

\* Bytes go into the m-th chunk, which ends where the record starts.
LEMMA FillStep ==
  ASSUME NEW L \in Lists, Ordered(L.elem), NEW m \in 1 .. Len(L.elem), NEW d \in Seq(Octets),
         NEW a \in 0 .. Modulus - 1, FilledAt(L, list', m, d), More(<<a, d>>),
         curr' = L.elem[m].start_addr, prev_mem_addr' = (a + Len(d)) % Modulus,
         Within => /\ a = L.elem[m].start_addr + Len(L.elem[m].bytes)
                   /\ ListCells(L.elem) = FileCells
                   /\ \A i \in 1 .. Len(L.elem) :
                        \/ \E n \in DOMAIN told : told[n][1] = L.elem[i].start_addr
                        \/ a = L.elem[i].start_addr
                   /\ \A n \in DOMAIN told :
                        \E i \in 1 .. Len(L.elem) : L.elem[i].start_addr <= told[n][1]
  PROVE  Collected'
<1> DEFINE e == L.elem
           f == list'.elem
           n == Len(e)
           s == e[m].start_addr
           k == Len(e[m].bytes)
<1>0. /\ e \in Seq(Chunks) /\ f \in Seq(Chunks) /\ n \in Nat /\ DOMAIN e = 1 .. n /\ DOMAIN f = 1 .. n
      /\ Len(f) = n
      /\ \A i \in 1 .. n : f[i].start_addr = e[i].start_addr
      /\ f[m].bytes = e[m].bytes \o d
  BY DEF Lists, FilledAt
<1>1. Modulus \in Nat /\ s \in 0 .. Modulus - 1 /\ k \in Nat /\ Len(d) \in Nat /\ m \in 1 .. n
      /\ f[m].start_addr = s /\ e[m].bytes \in Seq(Octets)
  <2>1. e[m].start_addr \in 0 .. Modulus - 1 /\ e[m].bytes \in Seq(Octets) /\ Len(e[m].bytes) \in Nat
    BY <1>0, ChunkIs
  <2>2. m \in 1 .. n /\ f[m].start_addr = e[m].start_addr
    BY <1>0
  <2>3. Modulus \in Nat /\ Len(d) \in Nat
    BY HexAssumption
  <2> HIDE DEF e, f, n
  <2> QED
    BY <2>1, <2>2, <2>3
<1>2. ListCells(f) = ListCells(e) \cup Cells(s + k, d) /\ Ordered(f)
  <2>1. /\ ListCells(list'.elem) = ListCells(L.elem)
              \cup Cells(L.elem[m].start_addr + Len(L.elem[m].bytes), d)
        /\ Ordered(L.elem) => Ordered(list'.elem)
    BY FilledCells
  <2> QED
    BY <2>1, Zenon
<1>3. Len(f[m].bytes) = k + Len(d)
  BY <1>0, <1>1, ConcatProperties
<1>4. e[m].start_addr = curr'
  OBVIOUS
<1> HIDE DEF e, f, n, s, k
<1>5. Within' => s + Len(f[m].bytes) = prev_mem_addr'
  <2> SUFFICES ASSUME Within' PROVE s + Len(f[m].bytes) = prev_mem_addr'
    OBVIOUS
  <2>1. Within /\ a + Len(d) < Modulus
    BY DEF More
  <2>2. a = s + k
    BY <2>1 DEF s, k, e
  <2>3. (a + Len(d)) % Modulus = a + Len(d)
    <3> DEFINE x == a + Len(d)
    <3>1. x \in Nat /\ x < Modulus
      BY <1>1, <2>1
    <3> HIDE DEF x
    <3>2. x % Modulus = x
      BY <1>1, <3>1, Unwrapped
    <3> QED
      BY <3>2 DEF x
  <2> QED
    BY <1>1, <1>3, <2>2, <2>3
<1>6. Current'
  <2>1. curr' = s /\ s # -1
    BY <1>1, <1>4 DEF s
  <2>2. m \in DOMAIN f /\ f[m].start_addr = curr'
    BY <1>0, <1>1, <2>1
  <2> QED
    BY <1>5, <2>1, <2>2 DEF Current, f
<1>7. ASSUME Within' PROVE ListCells(f) = FileCells' /\ Lowest(f, told')
  <2>1. /\ Within /\ a = s + k /\ ListCells(e) = FileCells
        /\ \A i \in 1 .. n : \/ \E j \in DOMAIN told : told[j][1] = e[i].start_addr
                             \/ a = e[i].start_addr
        /\ \A j \in DOMAIN told : \E i \in 1 .. n : e[i].start_addr <= told[j][1]
    BY <1>7 DEF More, s, k, e, n
  <2>2. FileCells' = FileCells \cup Cells(a, d)
    BY DEF More
  <2>3. ASSUME NEW i \in DOMAIN f PROVE \E j \in DOMAIN told' : told'[j][1] = f[i].start_addr
    <3>1. CASE \E j \in DOMAIN told : told[j][1] = e[i].start_addr
      <4>1. PICK j \in DOMAIN told : told[j][1] = e[i].start_addr
        BY <3>1
      <4>2. j \in DOMAIN told' /\ told'[j] = told[j]
        BY DEF More
      <4>3. told'[j][1] = f[i].start_addr
        BY <1>0, <4>1, <4>2
      <4> QED
        BY <4>2, <4>3
    <3>2. CASE a = e[i].start_addr
      <4> DEFINE j == Len(told) + 1
      <4>1. j \in DOMAIN told' /\ told'[j] = <<a, d>>
        BY DEF More
      <4> HIDE DEF j
      <4>2. told'[j][1] = f[i].start_addr
        BY <1>0, <3>2, <4>1
      <4> QED
        BY <4>1, <4>2
    <3> QED
      BY <1>0, <2>1, <3>1, <3>2
  <2>4. ASSUME NEW j \in DOMAIN told' PROVE f # <<>> /\ \E i \in DOMAIN f : f[i].start_addr <= told'[j][1]
    <3>0. f # <<>>
      BY <1>0, <1>1
    <3>1. CASE j \in DOMAIN told
      <4>1. PICK i \in 1 .. n : e[i].start_addr <= told[j][1]
        BY <2>1, <3>1
      <4>2. told'[j] = told[j]
        BY <3>1 DEF More
      <4> QED
        BY <1>0, <3>0, <4>1, <4>2
    <3>2. CASE j = Len(told) + 1
      <4>1. told'[j][1] = a
        BY <3>2 DEF More
      <4>2. f[m].start_addr <= a
        BY <1>1, <2>1
      <4> QED
        BY <1>0, <1>1, <3>0, <4>1, <4>2
    <3> QED
      BY <3>1, <3>2 DEF More
  <2>5. Lowest(f, told')
    BY <2>3, <2>4 DEF Lowest
  <2> QED
    BY <2>1, <2>2, <1>2, <2>5
<1> QED
  BY <1>2, <1>6, <1>7 DEF Collected, f

\* What a data record does, whatever the list.
TakesData(l, start, L) ==
  /\ l \in Lines /\ l.type = "data"
  /\ start = (IF Follows(l) THEN curr ELSE MemAddr(l))
  /\ L = (IF Follows(l) THEN list ELSE InsertByOrder(list, Chunk(l)))
  /\ ~Refused(l) /\ (start = -1 => l.data = <<>>)
  /\ list' = Filled(L, start, l.data) /\ curr' = start
  /\ prev_mem_addr' = (MemAddr(l) + Len(l.data)) % Modulus
  /\ told' = Append(told, <<MemAddr(l), l.data>>)
  /\ phase = "read"
  /\ UNCHANGED <<linear_base_addr, segment_addr, phase, out>>

\* A first record that seems to follow has no bytes.
LEMMA NothingYet ==
  ASSUME HexShape, Collected, NEW l, NEW start, NEW L, TakesData(l, start, L), Follows(l), curr = -1,
         More(<<MemAddr(l), l.data>>)
  PROVE  list' = list /\ Collected'
<1>1. /\ list.elem = <<>> /\ prev_mem_addr = Modulus - 1 /\ list \in Lists
      /\ l.data = <<>> /\ MemAddr(l) = Modulus - 1 /\ curr' = -1 /\ list' = Filled(list, -1, <<>>)
      /\ Modulus \in Nat /\ Modulus > 0
  BY HexAssumption DEF HexShape, Lists, Collected, Current, TakesData, Follows
<1>2. list' = list
  <2>1. list' = [list EXCEPT !.elem = [i \in DOMAIN list.elem |->
                   IF list.elem[i].start_addr = -1
                   THEN [list.elem[i] EXCEPT !.bytes = @ \o <<>>] ELSE list.elem[i]]]
    BY <1>1, Zenon DEF Filled
  <2>2. DOMAIN list.elem = {}
    BY <1>1
  <2> QED
    BY <1>1, <2>1, <2>2 DEF Lists
<1>3. prev_mem_addr' = Modulus - 1
  <2>1. prev_mem_addr' = (Modulus - 1 + Len(<<>>)) % Modulus
    BY <1>1, Zenon DEF TakesData
  <2>2. Modulus - 1 + Len(<<>>) = Modulus - 1
    BY <1>1
  <2>3. (Modulus - 1) % Modulus = Modulus - 1
    BY <1>1, Unwrapped
  <2> QED
    BY <2>1, <2>2, <2>3
<1>4. ASSUME Within' PROVE ListCells(list'.elem) = FileCells' /\ Lowest(list'.elem, told')
  <2>1. Within /\ FileCells' = FileCells \cup Cells(MemAddr(l), <<>>)
    BY <1>1, <1>4 DEF More
  <2>2. Cells(MemAddr(l), <<>>) = {}
    BY DEF Cells
  <2>3. ListCells(list.elem) = FileCells /\ Lowest(list.elem, told)
    BY <2>1 DEF Collected
  <2>4. ASSUME NEW n \in DOMAIN told' PROVE told'[n][1] = Modulus - 1
    <3>1. CASE n \in DOMAIN told
      BY <1>1, <2>3, <3>1 DEF More, Lowest
    <3>2. CASE n = Len(told) + 1
      BY <1>1, <3>2 DEF More
    <3> QED
      BY <3>1, <3>2 DEF More
  <2>5. Lowest(list'.elem, told')
    BY <1>1, <1>2, <2>4 DEF Lowest
  <2> QED
    BY <1>2, <2>1, <2>2, <2>3, <2>5
<1> QED
  BY <1>1, <1>2, <1>3, <1>4 DEF Collected, Current, Ordered

LEMMA TakesDataIs ==
  ASSUME HexShape, Collected, NEW l, NEW start, NEW L, TakesData(l, start, L)
  PROVE  HexShape' /\ Collected'
<1> DEFINE a == MemAddr(l)
           d == l.data
           e == list.elem
<1>1. /\ list \in Lists /\ e \in Seq(Chunks) /\ Len(e) \in Nat /\ Ordered(e) /\ told \in Seq(Records)
      /\ Modulus \in Nat /\ Modulus > 0 /\ DOMAIN e = 1 .. Len(e) /\ curr \in -1 .. Modulus - 1
  BY HexAssumption DEF HexShape, Lists, Collected
<1>2. a \in 0 .. Modulus - 1 /\ d \in Seq(Octets) /\ Len(d) \in Nat
  <2>1. a \in 0 .. Modulus - 1
    BY AddressIs DEF TakesData
  <2>2. d \in Seq(Octets)
    BY HexAssumption DEF TakesData, Octets
  <2> QED
    BY <2>1, <2>2
<1>3. More(<<a, d>>)
  <2>1. <<a, d>> \in Records /\ told' = Append(told, <<a, d>>)
    BY <1>2 DEF Records, TakesData
  <2> QED
    BY <1>1, <2>1, MoreIs
<1>4. prev_mem_addr' = (a + Len(d)) % Modulus /\ prev_mem_addr' \in 0 .. Modulus - 1
  <2>1. prev_mem_addr' = (a + Len(d)) % Modulus
    BY DEF TakesData
  <2>2. a + Len(d) \in Nat
    BY <1>2
  <2> QED
    BY <1>1, <2>1, <2>2
<1>5. CASE Follows(l) /\ curr = -1
  <2>1. list' = list /\ Collected'
    BY <1>3, <1>5, NothingYet
  <2>2. curr' = curr
    BY <1>5 DEF TakesData
  <2> QED
    BY <1>3, <1>4, <2>1, <2>2 DEF HexShape, TakesData, More
<1> HIDE DEF d, e
<1>6. CASE Follows(l) /\ curr # -1
  <2>1. PICK m \in 1 .. Len(e) : /\ e[m].start_addr = curr
                                 /\ Within => curr + Len(e[m].bytes) = prev_mem_addr
    BY <1>1, <1>6 DEF Collected, Current, e
  <2>2. list' = Filled(list, e[m].start_addr, d) /\ curr' = e[m].start_addr
    BY <1>6, <2>1 DEF TakesData, d
  <2>3. FilledAt(list, list', m, d)
    BY <1>1, <1>2, <2>2, FilledIs DEF e
  <2>4. a = prev_mem_addr
    BY <1>6 DEF Follows
  <2>5. ASSUME Within
        PROVE  /\ a = e[m].start_addr + Len(e[m].bytes) /\ ListCells(e) = FileCells
               /\ \A i \in 1 .. Len(e) : \/ \E n \in DOMAIN told : told[n][1] = e[i].start_addr
                                         \/ a = e[i].start_addr
               /\ \A n \in DOMAIN told : \E i \in 1 .. Len(e) : e[i].start_addr <= told[n][1]
    <3>1. ListCells(e) = FileCells /\ Lowest(e, told)
      BY <2>5 DEF Collected, e
    <3>2. e # <<>>
      BY <1>1, <2>1
    <3> QED
      BY <1>1, <2>1, <2>4, <2>5, <3>1, <3>2 DEF Lowest
  <2>6. Collected'
    BY <1>1, <1>2, <1>3, <1>4, <2>2, <2>3, <2>5, FillStep DEF e
  <2>7. list' \in Lists
    BY <2>3 DEF FilledAt
  <2>8. curr' = curr
    BY <2>1, <2>2
  <2> QED
    BY <1>3, <1>4, <2>6, <2>7, <2>8 DEF HexShape, Lists, TakesData, More
<1>7. CASE ~Follows(l)
  <2> DEFINE item == Chunk(l)
             f == L.elem
  <2>1. item \in Chunks /\ item.start_addr = a /\ item.bytes = <<>>
    BY <1>2 DEF Chunk, Chunks
  <2>2. L = InsertByOrder(list, item) /\ ~IsDup(list, item)
    BY <1>7 DEF TakesData, Refused
  <2> HIDE DEF item
  <2>3. PICK p : L \in Lists /\ PutIn(e, f, p, item) /\ Ordered(f)
    BY <1>1, <2>1, <2>2, InsertsByOrder DEF e
  <2>4. /\ p + 1 \in 1 .. Len(f) /\ f[p + 1] = item /\ f \in Seq(Chunks) /\ Len(f) \in Nat
        /\ Len(f) = Len(e) + 1 /\ p \in 0 .. Len(e)
    BY <1>1, <2>3 DEF PutIn
  <2> DEFINE m == p + 1
  <2>5. ListCells(f) = ListCells(e)
    BY <1>1, <2>1, <2>3, PutCells
  <2>6. list' = Filled(L, f[m].start_addr, d) /\ curr' = f[m].start_addr /\ f[m].start_addr = a
        /\ f[m].bytes = <<>>
    BY <1>7, <2>1, <2>4 DEF TakesData, d
  <2>7. FilledAt(L, list', m, d)
    <3> HIDE DEF m
    <3> QED
      BY <1>2, <2>3, <2>4, <2>6, FilledIs DEF m
  <2>8. ASSUME Within
        PROVE  /\ a = f[m].start_addr + Len(f[m].bytes) /\ ListCells(f) = FileCells
               /\ \A i \in 1 .. Len(f) : \/ \E n \in DOMAIN told : told[n][1] = f[i].start_addr
                                         \/ a = f[i].start_addr
               /\ \A n \in DOMAIN told : \E i \in 1 .. Len(f) : f[i].start_addr <= told[n][1]
    <3>1. ListCells(e) = FileCells /\ Lowest(e, told)
      BY <2>8 DEF Collected, e
    <3>2. a = f[m].start_addr + Len(f[m].bytes)
      <4>1. Len(f[m].bytes) = 0
        BY <2>6
      <4> QED
        BY <1>2, <2>6, <4>1
    <3>3. ASSUME NEW i \in 1 .. Len(f)
          PROVE  \/ \E n \in DOMAIN told : told[n][1] = f[i].start_addr
                 \/ a = f[i].start_addr
      <4>1. \/ i \in 1 .. Len(e) /\ i <= p /\ f[i] = e[i]
            \/ i = p + 1 /\ f[i] = item
            \/ i - 1 \in 1 .. Len(e) /\ i - 1 > p /\ f[i] = e[i - 1]
        BY <1>1, <2>3, PutFrom
      <4> QED
        BY <1>1, <2>1, <3>1, <4>1 DEF Lowest
    <3>4. ASSUME NEW n \in DOMAIN told
          PROVE  \E i \in 1 .. Len(f) : f[i].start_addr <= told[n][1]
      <4>1. CASE e = <<>>
        <5>1. told[n][1] = Modulus - 1
          BY <3>1, <4>1 DEF Lowest
        <5>2. f[m].start_addr <= Modulus - 1
          BY <1>1, <1>2, <2>6
        <5> QED
          BY <2>4, <5>1, <5>2
      <4>2. CASE e # <<>>
        <5>1. PICK i \in 1 .. Len(e) : e[i].start_addr <= told[n][1]
          BY <1>1, <3>1, <4>2 DEF Lowest
        <5>2. CASE i <= p
          <6>1. i \in 1 .. Len(f) /\ f[i] = e[i]
            BY <1>1, <2>3, <2>4, <5>2 DEF PutIn
          <6> QED
            BY <5>1, <6>1
        <5>3. CASE i > p
          <6>1. i + 1 \in 1 .. Len(f) /\ f[i + 1] = e[i]
            BY <1>1, <2>3, <2>4, <5>3 DEF PutIn
          <6> QED
            BY <5>1, <6>1
        <5> QED
          BY <2>4, <5>2, <5>3
      <4> QED
        BY <4>1, <4>2
    <3> QED
      BY <2>5, <3>1, <3>2, <3>3, <3>4
  <2>9. m \in 1 .. Len(f)
    BY <2>4
  <2> HIDE DEF m
  <2>10. Collected'
    BY <1>2, <1>3, <1>4, <2>3, <2>6, <2>7, <2>8, <2>9, FillStep
  <2>11. list' \in Lists
    BY <2>7 DEF FilledAt
  <2>12. curr' \in -1 .. Modulus - 1
    BY <1>1, <1>2, <2>6
  <2> QED
    BY <1>3, <1>4, <2>10, <2>11, <2>12 DEF HexShape, Lists, TakesData, More
<1> QED
  BY <1>5, <1>6, <1>7

LEMMA DataStep == HexInv /\ DataRecord => HexInv'
<1> SUFFICES ASSUME HexInv, DataRecord PROVE HexInv'
  OBVIOUS
<1>1. PICK l \in Lines :
        TakesData(l, IF Follows(l) THEN curr ELSE MemAddr(l),
                  IF Follows(l) THEN list ELSE InsertByOrder(list, Chunk(l)))
  BY DEF DataRecord, TakesData, Reading
<1>2. phase = "read" /\ phase' = "read"
  BY <1>1 DEF TakesData
<1>3. HexShape /\ Collected
  BY <1>2 DEF HexInv
<1>4. HexShape' /\ Collected'
  BY <1>1, <1>3, TakesDataIs
<1> QED
  BY <1>2, <1>4 DEF HexInv, ImageIsTheFile

-----------------------------------------------------------------------------
\* The bytes of the records.
All == UNION {Bytes(told[i]) : i \in DOMAIN told}

LEMMA BytesAt ==
  ASSUME told \in Seq(Records), NEW n \in DOMAIN told
  PROVE  /\ told[n][1] \in Nat /\ told[n][2] \in Seq(Octets) /\ Len(told[n][2]) \in Nat
         /\ \A a : a \in Bytes(told[n]) <=>
                 /\ a \in Int /\ a - told[n][1] + 1 \in 1 .. Len(told[n][2])
<1>1. told[n] \in Records
  OBVIOUS
<1>2. told[n][1] \in Nat /\ told[n][2] \in Seq(Octets)
  BY <1>1, HexAssumption DEF Records
<1>3. Len(told[n][2]) \in Nat
  BY <1>2
<1> DEFINE x == told[n][1]
           k == Len(told[n][2])
<1>4. Bytes(told[n]) = x .. x + k - 1
  BY DEF Bytes
<1> HIDE DEF x, k
<1>5. \A a : a \in x .. x + k - 1 <=> a \in Int /\ a - x + 1 \in 1 .. k
  <2>1. x \in Int /\ k \in Int
    BY <1>2, <1>3 DEF x, k
  <2> QED
    BY <2>1
<1> QED
  BY <1>2, <1>3, <1>4, <1>5 DEF x, k

\* A byte of a record is what At gives for its address.
LEMMA AtIs ==
  ASSUME told \in Seq(Records), Disjoint, NEW a, NEW b, <<a, b>> \in FileCells
  PROVE  a \in Int /\ a \in All /\ At(a) = b
<1>1. PICK n \in DOMAIN told : <<a, b>> \in Cells(told[n][1], told[n][2])
  BY DEF FileCells
<1> DEFINE x == told[n][1]
           d == told[n][2]
           I == {j \in DOMAIN told : a \in Bytes(told[j])}
           r == {told[i] : i \in I}
<1>2. x \in Nat /\ Len(d) \in Nat
  BY BytesAt
<1>3. PICK i \in 1 .. Len(d) : <<a, b>> = <<x + i - 1, d[i]>>
  BY <1>1 DEF Cells
<1>4. a = x + i - 1 /\ b = d[i]
  BY <1>3
<1>5. a \in Int /\ a - x + 1 = i
  BY <1>2, <1>4
<1>6. a \in Bytes(told[n])
  BY <1>5, BytesAt
<1>7. I = {n}
  BY <1>6 DEF Disjoint
<1> HIDE DEF I
<1>8. r = {told[n]}
  BY <1>7
<1>9. At(a) = IF r = {} THEN 0 ELSE LET y == CHOOSE y \in r : TRUE IN y[2][a - y[1] + 1]
  BY DEF At, I
<1> HIDE DEF r
<1>10. (CHOOSE y \in r : TRUE) = told[n]
  BY <1>8
<1>11. At(a) = told[n][2][a - told[n][1] + 1]
  BY <1>8, <1>9, <1>10
<1>12. a \in All
  BY <1>6 DEF All
<1> QED
  BY <1>4, <1>5, <1>11, <1>12

LEMMA NotAt == ASSUME NEW a, a \notin All PROVE At(a) = 0
<1>1. {n \in DOMAIN told : a \in Bytes(told[n])} = {}
  BY DEF All
<1> QED
  BY <1>1 DEF At

LEMMA AllIs ==
  ASSUME told \in Seq(Records), NEW a \in All
  PROVE  \E b : <<a, b>> \in FileCells
<1>1. PICK n \in DOMAIN told : a \in Bytes(told[n])
  BY DEF All
<1> DEFINE x == told[n][1]
           d == told[n][2]
           i == a - x + 1
<1>2. x \in Nat /\ a \in Int /\ i \in 1 .. Len(d)
  BY <1>1, BytesAt
<1>3. a = x + i - 1
  BY <1>2
<1> HIDE DEF i
<1>4. <<a, d[i]>> \in Cells(x, d)
  BY <1>2, <1>3 DEF Cells
<1> QED
  BY <1>4 DEF FileCells

-----------------------------------------------------------------------------
\* The binary file, chunk after chunk.
Writes(e, g, n) ==
  IF n = 0 THEN [bytes |-> <<>>, pos |-> 0]
  ELSE LET f == g[n - 1]
           at == Sought(f.pos, (e[n].start_addr - e[1].start_addr) % Modulus)
       IN  [bytes |-> WrittenAt(f.bytes, at, e[n].bytes), pos |-> at + Len(e[n].bytes)]

LEMMA WritesIs ==
  ASSUME NEW N \in Nat, NEW e
  PROVE  \E f : f = [n \in 0 .. N |-> Writes(e, f, n)]
<1> DEFINE On(n, g) == g = [i \in 0 .. n |-> Writes(e, g, i)]
           X == {n \in 0 .. N : \E g : On(n, g)}
<1>1. 0 \in X
  <2> DEFINE g == [i \in 0 .. 0 |-> [bytes |-> <<>>, pos |-> 0]]
  <2>1. g = [i \in 0 .. 0 |-> Writes(e, g, i)]
    BY DEF Writes
  <2>2. On(0, g) /\ 0 \in 0 .. N
    BY <2>1
  <2> HIDE DEF On, g
  <2> QED
    BY <2>2
<1>2. ASSUME NEW n \in 1 .. N, n - 1 \in X PROVE n \in X
  <2>1. PICK g : On(n - 1, g)
    BY <1>2
  <2> DEFINE h == [i \in 0 .. n |-> Writes(e, g, i)]
  <2>2. \A i \in 0 .. n - 1 : i \in 0 .. n /\ g[i] = h[i]
    BY <2>1
  <2>3. \A i \in 0 .. n : i = 0 \/ i - 1 \in 0 .. n - 1
    OBVIOUS
  <2>4. ASSUME NEW i \in 0 .. n PROVE Writes(e, g, i) = Writes(e, h, i)
    <3> HIDE DEF h, On
    <3>1. CASE i = 0
      BY <3>1 DEF Writes
    <3>2. CASE i # 0
      <4>1. g[i - 1] = h[i - 1]
        BY <2>2, <2>3, <3>2
      <4> QED
        BY <4>1 DEF Writes
    <3> QED
      BY <3>1, <3>2
  <2>5. h = [i \in 0 .. n |-> Writes(e, h, i)]
    BY <2>4
  <2> HIDE DEF h
  <2>6. On(n, h) /\ n \in 0 .. N
    BY <2>5
  <2> HIDE DEF On
  <2> QED
    BY <2>6
<1> HIDE DEF X
<1>3. N \in X
  BY <1>1, <1>2, HandedOn
<1> QED
  BY <1>3 DEF X

LEMMA LongerOf ==
  ASSUME NEW a \in Int, NEW b \in Int
  PROVE  Max({a, b}) = IF a >= b THEN a ELSE b
<1> DEFINE m == IF a >= b THEN a ELSE b
<1>1. m \in {a, b} /\ \A y \in {a, b} : m >= y
  OBVIOUS
<1>2. \A x \in {a, b} : (\A y \in {a, b} : x >= y) => x = m
  OBVIOUS
<1> HIDE DEF m
<1> QED
  BY <1>1, <1>2 DEF Max, m

\* The first n chunks of a list make the first m bytes, m up to the last of them.
From(e, j) == e[j].start_addr - e[1].start_addr
Filler(e, n, m, f) ==
  /\ m \in Nat
  /\ f = [i \in 1 .. m |-> IF \E j \in 1 .. n : i - From(e, j) \in 1 .. Len(e[j].bytes)
                           THEN At(e[1].start_addr + i - 1) ELSE 0]
  /\ \A j \in 1 .. n : e[j].bytes # <<>> => From(e, j) + Len(e[j].bytes) <= m
  /\ m = 0 \/ \E j \in 1 .. n : e[j].bytes # <<>> /\ m = From(e, j) + Len(e[j].bytes)

LEMMA FillerIs ==
  ASSUME NEW e \in Seq(Chunks), Ordered(e), told \in Seq(Records), Disjoint,
         ListCells(e) = FileCells, NEW n \in 1 .. Len(e), NEW m, NEW f, Filler(e, n - 1, m, f)
  PROVE  \E k : Filler(e, n, k, WrittenAt(f, From(e, n) % Modulus, e[n].bytes))
<1> DEFINE first == e[1].start_addr
           q == From(e, n)
           d == e[n].bytes
           g == WrittenAt(f, q % Modulus, d)
<1>0. /\ \A j \in 1 .. Len(e) : /\ e[j].start_addr \in 0 .. Modulus - 1 /\ e[j].bytes \in Seq(Octets)
                                /\ Len(e[j].bytes) \in Nat
      /\ Modulus \in Nat /\ Modulus > 0 /\ Len(e) \in Nat /\ 1 \in 1 .. Len(e)
  <2>1. Modulus \in Nat /\ Modulus > 0 /\ Len(e) \in Nat /\ 1 \in 1 .. Len(e)
    BY HexAssumption
  <2> QED
    BY <2>1, ChunkIs
<1>1. \A j \in 1 .. Len(e) : From(e, j) \in 0 .. Modulus - 1
  <2> SUFFICES ASSUME NEW j \in 1 .. Len(e) PROVE From(e, j) \in 0 .. Modulus - 1
    OBVIOUS
  <2>1. j = 1 \/ e[1].start_addr < e[j].start_addr
    BY <1>0 DEF Ordered
  <2> QED
    BY <1>0, <2>1 DEF From
<1>2. q \in Nat /\ q % Modulus = q
  BY <1>0, <1>1, Unwrapped
<1>3. /\ m \in Nat /\ DOMAIN f = 1 .. m /\ Len(f) = m
      /\ \A i \in 1 .. m : f[i] = IF \E j \in 1 .. n - 1 : i - From(e, j) \in 1 .. Len(e[j].bytes)
                                  THEN At(first + i - 1) ELSE 0
      /\ \A j \in 1 .. n - 1 : e[j].bytes # <<>> => From(e, j) + Len(e[j].bytes) <= m
      /\ m = 0 \/ \E j \in 1 .. n - 1 : e[j].bytes # <<>> /\ m = From(e, j) + Len(e[j].bytes)
  <2>1. m \in Nat /\ DOMAIN f = 1 .. m
    BY DEF Filler
  <2>2. Len(f) = m
    BY <2>1
  <2> QED
    BY <2>1, <2>2 DEF Filler
<1>4. CASE d = <<>>
  <2>1. g = f
    BY <1>4 DEF WrittenAt
  <2>2. Len(e[n].bytes) = 0
    BY <1>4
  <2>3. \A i \in 1 .. m : (\E j \in 1 .. n : i - From(e, j) \in 1 .. Len(e[j].bytes))
                            <=> (\E j \in 1 .. n - 1 : i - From(e, j) \in 1 .. Len(e[j].bytes))
    <3>1. 1 .. n = 1 .. n - 1 \cup {n}
      OBVIOUS
    <3>2. 1 .. Len(e[n].bytes) = {}
      BY <2>2
    <3> QED
      BY <3>1, <3>2
  <2>4. f = [i \in 1 .. m |-> IF \E j \in 1 .. n : i - From(e, j) \in 1 .. Len(e[j].bytes)
                              THEN At(first + i - 1) ELSE 0]
    BY <2>3 DEF Filler
  <2>5. \A j \in 1 .. n : j \in 1 .. n - 1 \/ j = n
    OBVIOUS
  <2>6. \A j \in 1 .. n : e[j].bytes # <<>> => From(e, j) + Len(e[j].bytes) <= m
    BY <1>3, <1>4, <2>5
  <2>7. m = 0 \/ \E j \in 1 .. n : e[j].bytes # <<>> /\ m = From(e, j) + Len(e[j].bytes)
    BY <1>3
  <2>8. Filler(e, n, m, f)
    BY <1>3, <2>4, <2>6, <2>7 DEF Filler
  <2> QED
    BY <2>1, <2>8
<1>5. CASE d # <<>>
  <2> DEFINE l == Len(d)
             k == IF m >= q + l THEN m ELSE q + l
  <2>1. l \in Nat /\ l >= 1 /\ DOMAIN d = 1 .. l /\ d \in Seq(Octets)
    BY <1>0, <1>5
  <2>2. Max({Len(f), q + Len(d)}) = k
    <3>1. Max({Len(f), q + Len(d)}) = Max({m, q + l})
      BY <1>3
    <3>2. m \in Int /\ q + l \in Int
      BY <1>2, <1>3, <2>1
    <3> HIDE DEF q, l
    <3>3. Max({m, q + l}) = k
      BY <3>2, LongerOf
    <3> QED
      BY <3>1, <3>3
  <2>3. g = [i \in 1 .. Max({Len(f), q + Len(d)}) |->
               IF i - q \in DOMAIN d THEN d[i - q] ELSE IF i \in DOMAIN f THEN f[i] ELSE 0]
    BY <1>2, <1>5, Zenon DEF WrittenAt
  <2> HIDE DEF g, q, d, l
  <2>4. g = [i \in 1 .. k |-> IF i - q \in 1 .. l THEN d[i - q] ELSE IF i \in 1 .. m THEN f[i] ELSE 0]
    BY <1>3, <2>1, <2>2, <2>3
  <2>5. k \in Nat /\ k >= m /\ k >= q + l /\ (k = m \/ k = q + l)
    BY <1>2, <1>3, <2>1
  <2> HIDE DEF k
  <2>6. ASSUME NEW i \in 1 .. k
        PROVE  (IF i - q \in 1 .. l THEN d[i - q] ELSE IF i \in 1 .. m THEN f[i] ELSE 0)
                 = IF \E j \in 1 .. n : i - From(e, j) \in 1 .. Len(e[j].bytes)
                   THEN At(first + i - 1) ELSE 0
    <3>1. CASE i - q \in 1 .. l
      <4>1. <<e[n].start_addr + (i - q) - 1, d[i - q]>> \in Cells(e[n].start_addr, d)
        BY <3>1 DEF Cells, l
      <4>2. <<e[n].start_addr + (i - q) - 1, d[i - q]>> \in FileCells
        BY <4>1 DEF ListCells, d
      <4>3. e[n].start_addr + (i - q) - 1 = first + i - 1
        <5>1. e[n].start_addr \in Int /\ first \in Int /\ i \in Int /\ n \in 1 .. Len(e)
          BY <1>0, <2>5
        <5>2. q = e[n].start_addr - first
          BY DEF q, From
        <5> HIDE DEF first
        <5> QED
          BY <5>1, <5>2
      <4>4. At(first + i - 1) = d[i - q]
        BY <4>2, <4>3, AtIs
      <4>5. \E j \in 1 .. n : i - From(e, j) \in 1 .. Len(e[j].bytes)
        BY <3>1 DEF q, l, d
      <4> QED
        BY <3>1, <4>4, <4>5
    <3>2. CASE ~(i - q \in 1 .. l)
      <4>1. (\E j \in 1 .. n : i - From(e, j) \in 1 .. Len(e[j].bytes))
              <=> (\E j \in 1 .. n - 1 : i - From(e, j) \in 1 .. Len(e[j].bytes))
        <5>1. 1 .. n = 1 .. n - 1 \cup {n}
          OBVIOUS
        <5> QED
          BY <3>2, <5>1 DEF q, l, d
      <4>2. CASE i \in 1 .. m
        BY <1>3, <3>2, <4>1, <4>2
      <4>3. CASE i \notin 1 .. m
        <5>1. i > m
          BY <1>3, <4>3
        <5>2. ASSUME NEW j \in 1 .. n - 1, i - From(e, j) \in 1 .. Len(e[j].bytes) PROVE FALSE
          <6>1. j \in 1 .. Len(e) /\ From(e, j) \in Nat /\ Len(e[j].bytes) \in Nat
            BY <1>0, <1>1
          <6>2. e[j].bytes # <<>> /\ i <= From(e, j) + Len(e[j].bytes)
            BY <5>2, <6>1
          <6>3. From(e, j) + Len(e[j].bytes) <= m
            BY <1>3, <6>2
          <6> QED
            BY <1>3, <5>1, <6>1, <6>2, <6>3
        <5> QED
          BY <3>2, <4>1, <4>3, <5>2
      <4> QED
        BY <4>2, <4>3
    <3> QED
      BY <3>1, <3>2
  <2>7. g = [i \in 1 .. k |-> IF \E j \in 1 .. n : i - From(e, j) \in 1 .. Len(e[j].bytes)
                              THEN At(first + i - 1) ELSE 0]
    BY <2>4, <2>6
  <2>8. \A j \in 1 .. n : e[j].bytes # <<>> => From(e, j) + Len(e[j].bytes) <= k
    <3> SUFFICES ASSUME NEW j \in 1 .. n, e[j].bytes # <<>>
                 PROVE  From(e, j) + Len(e[j].bytes) <= k
      OBVIOUS
    <3>1. CASE j = n
      BY <2>5, <3>1 DEF q, l, d
    <3>2. CASE j # n
      <4>1. j \in 1 .. n - 1 /\ j \in 1 .. Len(e)
        BY <1>0, <3>2
      <4>2. From(e, j) + Len(e[j].bytes) <= m /\ From(e, j) + Len(e[j].bytes) \in Int
        <5>1. From(e, j) \in Int /\ Len(e[j].bytes) \in Int
          BY <1>0, <1>1, <4>1
        <5>2. From(e, j) + Len(e[j].bytes) <= m
          BY <1>3, <4>1
        <5> QED
          BY <5>1, <5>2
      <4> QED
        BY <1>3, <2>5, <4>2
    <3> QED
      BY <3>1, <3>2
  <2>9. k = 0 \/ \E j \in 1 .. n : e[j].bytes # <<>> /\ k = From(e, j) + Len(e[j].bytes)
    <3>1. CASE k = q + l
      BY <1>5, <3>1 DEF q, l, d
    <3>2. CASE k = m
      BY <1>3, <3>2
    <3> QED
      BY <2>5, <3>1, <3>2
  <2>10. Filler(e, n, k, g)
    BY <2>5, <2>7, <2>8, <2>9 DEF Filler
  <2> QED
    BY <2>10 DEF g, q, d
<1> QED
  BY <1>4, <1>5

\* fseek reaches every chunk of records that are near to each other.
LEMMA NearIs ==
  ASSUME NEW e \in Seq(Chunks), Ordered(e), Lowest(e, told), told \in Seq(Records), Near,
         NEW n \in 1 .. Len(e)
  PROVE  From(e, n) % Modulus < Modulus \div 2
<1> DEFINE half == Modulus \div 2
<1>1. Modulus \in Nat /\ Modulus > 0 /\ half \in Int /\ 1 \in 1 .. Len(e) /\ DOMAIN e = 1 .. Len(e)
  BY HexAssumption
<1>2. PICK i \in DOMAIN told, j \in DOMAIN told :
        told[i][1] = e[n].start_addr /\ told[j][1] = e[1].start_addr
  BY <1>1 DEF Lowest
<1>3. told[i][1] + Len(told[i][2]) < told[j][1] + half
  BY DEF Near
<1>4. told[i][1] \in Nat /\ told[j][1] \in Nat /\ Len(told[i][2]) \in Nat
  BY BytesAt
<1>5. e[n].start_addr \in 0 .. Modulus - 1 /\ e[1].start_addr \in 0 .. Modulus - 1
  BY <1>1, ChunkIs
<1>6. n = 1 \/ e[1].start_addr < e[n].start_addr
  BY <1>1 DEF Ordered
<1> HIDE DEF half
<1>7. From(e, n) \in 0 .. Modulus - 1 /\ From(e, n) < half
  <2> DEFINE x == e[n].start_addr
             y == e[1].start_addr
             l == Len(told[i][2])
  <2>1. x + l < y + half
    BY <1>2, <1>3
  <2>2. x \in 0 .. Modulus - 1 /\ y \in 0 .. Modulus - 1 /\ l \in Nat
    BY <1>4, <1>5
  <2>3. y <= x
    <3>1. CASE n = 1
      BY <2>2, <3>1
    <3>2. CASE y < x
      BY <2>2, <3>2
    <3> QED
      BY <1>6, <3>1, <3>2
  <2>4. From(e, n) = x - y
    BY DEF From
  <2> HIDE DEF x, y, l
  <2> QED
    BY <1>1, <2>1, <2>2, <2>3, <2>4
<1>8. From(e, n) % Modulus = From(e, n)
  BY <1>1, <1>7, Unwrapped
<1> QED
  BY <1>7, <1>8 DEF half

\* The binary file holds the bytes of the list.
LEMMA FileIs ==
  ASSUME HexShape, Ordered(list.elem), Lowest(list.elem, told), Disjoint, Near,
         ListCells(list.elem) = FileCells
  PROVE  \E m : Filler(list.elem, Len(list.elem), m, BinFile)
<1> DEFINE e == list.elem
           N == Len(e)
           Is(f) == f = [n \in 0 .. N |-> Writes(e, f, n)]
           file == CHOOSE f : Is(f)
           X == {n \in 0 .. N : \E m : Filler(e, n, m, file[n].bytes)}
<1>1. e \in Seq(Chunks) /\ N \in Nat /\ told \in Seq(Records)
  BY DEF HexShape
<1>2. BinFile = file[N].bytes
  BY Zenon DEF BinFile, Writes
<1>3. Is(file)
  <2>1. \E f : Is(f)
    BY <1>1, WritesIs
  <2> HIDE DEF Is
  <2> QED
    BY <2>1
<1>4. \A n \in 0 .. N : file[n] = Writes(e, file, n)
  <2> HIDE DEF file
  <2> QED
    BY <1>3
<1> HIDE DEF file, Is
<1>5. 0 \in X
  <2>1. file[0].bytes = <<>>
    <3>1. file[0] = Writes(e, file, 0)
      BY <1>1, <1>4
    <3>2. Writes(e, file, 0) = [bytes |-> <<>>, pos |-> 0]
      BY DEF Writes
    <3> QED
      BY <3>1, <3>2
  <2>2. Filler(e, 0, 0, <<>>)
    BY DEF Filler
  <2> QED
    BY <1>1, <2>1, <2>2
<1>6. ASSUME NEW n \in 1 .. N, n - 1 \in X PROVE n \in X
  <2>1. PICK m : Filler(e, n - 1, m, file[n - 1].bytes)
    BY <1>6
  <2>2. n \in 0 .. N /\ n # 0
    BY <1>1
  <2>3. file[n].bytes = WrittenAt(file[n - 1].bytes, From(e, n) % Modulus, e[n].bytes)
    <3> DEFINE at == Sought(file[n - 1].pos, From(e, n) % Modulus)
    <3>1. file[n].bytes = WrittenAt(file[n - 1].bytes, at, e[n].bytes)
      <4> HIDE DEF e
      <4>1. file[n] = Writes(e, file, n)
        BY <1>4, <2>2
      <4>2. Writes(e, file, n) = [bytes |-> WrittenAt(file[n - 1].bytes, at, e[n].bytes),
                                  pos |-> at + Len(e[n].bytes)]
        BY <2>2, Zenon DEF Writes, From
      <4> HIDE DEF at
      <4> QED
        BY <4>1, <4>2
    <3>2. at = From(e, n) % Modulus
      <4>0. Ordered(e) /\ Lowest(e, told)
        OBVIOUS
      <4> HIDE DEF e
      <4>1. From(e, n) % Modulus < Modulus \div 2
        BY <1>1, <4>0, NearIs
      <4> QED
        BY <4>1 DEF Sought
    <3> QED
      BY <3>1, <3>2
  <2>4. Ordered(e) /\ ListCells(e) = FileCells
    OBVIOUS
  <2> HIDE DEF e
  <2>5. \E k : Filler(e, n, k, WrittenAt(file[n - 1].bytes, From(e, n) % Modulus, e[n].bytes))
    BY <1>1, <2>1, <2>4, FillerIs
  <2> QED
    BY <2>2, <2>3, <2>5
<1> HIDE DEF X
<1>7. N \in X
  <2> HIDE DEF N
  <2>1. 0 .. N \subseteq X
    BY <1>1, <1>5, <1>6, HandedOn
  <2> QED
    BY <1>1, <2>1
<1> QED
  BY <1>2, <1>7 DEF X

LEMMA LeastIs ==
  ASSUME NEW T, NEW x \in T, T \subseteq Int, \A y \in T : x <= y PROVE Min(T) = x
<1>1. \A z \in T : (\A y \in T : z <= y) => z = x
  OBVIOUS
<1> QED
  BY <1>1 DEF Min

LEMMA GreatestIs ==
  ASSUME NEW T, NEW x \in T, T \subseteq Int, \A y \in T : x >= y PROVE Max(T) = x
<1>1. \A z \in T : (\A y \in T : z >= y) => z = x
  OBVIOUS
<1> QED
  BY <1>1 DEF Max

\* What the chunks of a list hold, and what they do not.
LEMMA HeldAt ==
  ASSUME NEW e \in Seq(Chunks), NEW a, NEW b
  PROVE  <<a, b>> \in ListCells(e) <=>
           \E j \in 1 .. Len(e) : /\ a \in Int /\ a - e[j].start_addr + 1 \in 1 .. Len(e[j].bytes)
                                  /\ b = e[j].bytes[a - e[j].start_addr + 1]
<1> DEFINE Has(j) == /\ a \in Int /\ a - e[j].start_addr + 1 \in 1 .. Len(e[j].bytes)
                     /\ b = e[j].bytes[a - e[j].start_addr + 1]
<1>1. ASSUME NEW j \in 1 .. Len(e)
      PROVE  <<a, b>> \in Cells(e[j].start_addr, e[j].bytes) <=> Has(j)
  <2> DEFINE s == e[j].start_addr
             d == e[j].bytes
             l == Len(d)
  <2>1. s \in Int /\ l \in Nat
    BY ChunkIs, HexAssumption
  <2>2. <<a, b>> \in Cells(s, d) <=> \E i \in 1 .. l : a = s + i - 1 /\ b = d[i]
    BY DEF Cells
  <2> HIDE DEF s, d, l
  <2>3. (\E i \in 1 .. l : a = s + i - 1 /\ b = d[i])
          <=> a \in Int /\ a - s + 1 \in 1 .. l /\ b = d[a - s + 1]
    <3>1. \A i \in 1 .. l : a = s + i - 1 => a \in Int /\ a - s + 1 = i
      BY <2>1
    <3>2. a \in Int => a = s + (a - s + 1) - 1
      BY <2>1
    <3> QED
      BY <3>1, <3>2
  <2> QED
    BY <2>2, <2>3 DEF s, d, l
<1>2. DOMAIN e = 1 .. Len(e)
  OBVIOUS
<1> HIDE DEF Has
<1>3. <<a, b>> \in ListCells(e) <=> \E j \in 1 .. Len(e) : Has(j)
  BY <1>1, <1>2 DEF ListCells
<1> QED
  BY <1>3 DEF Has

\* The image of the list is the image of the file.
LEMMA ImageIs ==
  ASSUME HexShape, Ordered(list.elem), Lowest(list.elem, told), Disjoint,
         ListCells(list.elem) = FileCells,
         NEW m, Filler(list.elem, Len(list.elem), m, BinFile)
  PROVE  LET first == Min({told[i][1] : i \in DOMAIN told})
             all == UNION {Bytes(told[i]) : i \in DOMAIN told}
         IN  IF all = {} THEN BinFile = <<>>
             ELSE BinFile = [i \in 1 .. Max(all) - first + 1 |-> At(first + i - 1)]
<1> DEFINE e == list.elem
           N == Len(e)
           s == e[1].start_addr
           first == Min({told[i][1] : i \in DOMAIN told})
           End(j) == From(e, j) + Len(e[j].bytes)
           Held(i) == \E j \in 1 .. N : i - From(e, j) \in 1 .. Len(e[j].bytes)
<1>1. /\ e \in Seq(Chunks) /\ N \in Nat /\ told \in Seq(Records)
      /\ \A j \in 1 .. N : /\ e[j].start_addr \in Int /\ Len(e[j].bytes) \in Nat
                           /\ e[j].bytes # <<>> => Len(e[j].bytes) >= 1
  <2>1. e \in Seq(Chunks) /\ N \in Nat /\ told \in Seq(Records)
    BY DEF HexShape
  <2>2. ASSUME NEW j \in 1 .. N
        PROVE  /\ e[j].start_addr \in Int /\ Len(e[j].bytes) \in Nat
               /\ e[j].bytes # <<>> => Len(e[j].bytes) >= 1
    <3> HIDE DEF e
    <3>1. /\ e[j].start_addr \in 0 .. Modulus - 1 /\ e[j].bytes \in Seq(Octets)
          /\ Len(e[j].bytes) \in Nat
      BY <2>1, ChunkIs
    <3> QED
      BY <3>1, HexAssumption
  <2> QED
    BY <2>1, <2>2
<1>2. /\ m \in Nat
      /\ BinFile = [i \in 1 .. m |-> IF Held(i) THEN At(s + i - 1) ELSE 0]
      /\ \A j \in 1 .. N : e[j].bytes # <<>> => End(j) <= m
      /\ m = 0 \/ \E j \in 1 .. N : e[j].bytes # <<>> /\ m = End(j)
  BY DEF Filler
<1>3. ASSUME NEW a \in All
      PROVE  \E j \in 1 .. N : a \in Int /\ a - e[j].start_addr + 1 \in 1 .. Len(e[j].bytes)
  <2>1. PICK b : <<a, b>> \in ListCells(e)
    BY <1>1, AllIs
  <2> HIDE DEF e
  <2> QED
    BY <1>1, <2>1, HeldAt
<1>4. ASSUME NEW j \in 1 .. N, NEW a \in Int, a - e[j].start_addr + 1 \in 1 .. Len(e[j].bytes)
      PROVE  a \in All
  <2> DEFINE b == e[j].bytes[a - e[j].start_addr + 1]
  <2>1. <<a, b>> \in ListCells(e)
    <3> HIDE DEF e
    <3> QED
      BY <1>1, <1>4, HeldAt
  <2>2. <<a, b>> \in FileCells
    BY <2>1
  <2> QED
    BY <1>1, <2>2, AtIs
<1>5. CASE All = {}
  <2>1. ASSUME NEW j \in 1 .. N PROVE e[j].bytes = <<>>
    <3>1. SUFFICES ASSUME e[j].bytes # <<>> PROVE FALSE
      OBVIOUS
    <3> DEFINE a == e[j].start_addr
    <3>2. a \in Int /\ a - e[j].start_addr + 1 = 1 /\ 1 \in 1 .. Len(e[j].bytes)
      BY <1>1, <3>1
    <3>3. a \in All
      BY <1>4, <3>2
    <3> QED
      BY <1>5, <3>3
  <2>2. m = 0
    BY <1>2, <2>1
  <2>3. BinFile = <<>>
    BY <1>2, <2>2
  <2> QED
    BY <1>5, <2>3 DEF All
<1>6. CASE All # {}
  <2>1. 1 \in 1 .. N /\ \A j \in 1 .. N : s <= e[j].start_addr
    <3>1. N >= 1
      BY <1>1, <1>3, <1>6
    <3>2. 1 \in 1 .. N /\ \A j \in 1 .. N : j = 1 \/ s < e[j].start_addr
      BY <1>1, <3>1 DEF Ordered
    <3> QED
      BY <1>1, <3>2
  <2>2. s \in Int /\ \A j \in 1 .. N : From(e, j) = e[j].start_addr - s /\ From(e, j) >= 0
                                      /\ From(e, j) \in Int
    BY <1>1, <2>1 DEF From
  <2>3. first = s
    <3> DEFINE T == {told[i][1] : i \in DOMAIN told}
    <3>1. \A i \in DOMAIN told : told[i][1] \in Int
      BY <1>1, BytesAt
    <3>2. e # <<>> /\ DOMAIN e = 1 .. N
      BY <1>1, <2>1
    <3>3. s \in T
      BY <2>1, <3>2 DEF Lowest
    <3>4. ASSUME NEW i \in DOMAIN told PROVE s <= told[i][1]
      <4>1. PICK j \in 1 .. N : e[j].start_addr <= told[i][1]
        BY <3>2 DEF Lowest
      <4>2. e[j].start_addr \in Int /\ told[i][1] \in Int /\ s <= e[j].start_addr
        BY <1>1, <2>1, <3>1
      <4> QED
        BY <2>2, <4>1, <4>2
    <3>5. T \subseteq Int /\ \A y \in T : s <= y
      BY <3>1, <3>4
    <3> HIDE DEF T
    <3>6. Min(T) = s
      BY <3>3, <3>5, LeastIs
    <3> QED
      BY <3>6 DEF T
  <2> HIDE DEF first, s, e, N, End, Held
  <2>4. m # 0
    <3>1. PICK a \in All : TRUE
      BY <1>6
    <3>2. PICK j \in 1 .. N : a - e[j].start_addr + 1 \in 1 .. Len(e[j].bytes)
      BY <1>3
    <3>3. e[j].bytes # <<>> /\ Len(e[j].bytes) >= 1
      BY <1>1, <3>2
    <3> QED
      BY <1>1, <1>2, <2>2, <3>3 DEF End
  <2>5. Max(All) = s + m - 1
    <3>1. PICK j \in 1 .. N : e[j].bytes # <<>> /\ m = End(j)
      BY <1>2, <2>4
    <3> DEFINE a == s + m - 1
    <3>2. a \in Int /\ a - e[j].start_addr + 1 \in 1 .. Len(e[j].bytes)
      <4> DEFINE x == e[j].start_addr
                 l == Len(e[j].bytes)
      <4>1. x \in Int /\ l \in Nat /\ l >= 1 /\ m = (x - s) + l
        BY <1>1, <2>2, <3>1 DEF End
      <4> HIDE DEF x, l
      <4>2. a \in Int /\ a - x + 1 = l
        BY <1>2, <2>2, <4>1
      <4> QED
        BY <4>1, <4>2 DEF x, l
    <3>3. a \in All
      <4> HIDE DEF a
      <4> QED
        BY <1>4, <3>2
    <3>4. ASSUME NEW y \in All PROVE y \in Int /\ a >= y
      <4>1. PICK i \in 1 .. N : y \in Int /\ y - e[i].start_addr + 1 \in 1 .. Len(e[i].bytes)
        BY <1>3
      <4> DEFINE x == e[i].start_addr
                 l == Len(e[i].bytes)
      <4>2. x \in Int /\ l \in Nat /\ e[i].bytes # <<>>
        BY <1>1, <4>1
      <4>3. (x - s) + l <= m
        BY <1>2, <2>2, <4>2 DEF End
      <4>4. y \in Int /\ y - x + 1 <= l
        BY <4>1, <4>2
      <4> HIDE DEF x, l
      <4> QED
        BY <1>2, <2>2, <4>2, <4>3, <4>4
    <3> HIDE DEF a
    <3>5. All \subseteq Int /\ \A y \in All : a >= y
      BY <3>4
    <3>6. Max(All) = a
      BY <3>3, <3>5, GreatestIs
    <3> QED
      BY <3>6 DEF a
  <2>6. Max(All) - first + 1 = m
    BY <1>2, <2>2, <2>3, <2>5
  <2>7. ASSUME NEW i \in 1 .. m, ~Held(i) PROVE At(s + i - 1) = 0
    <3> DEFINE a == s + i - 1
    <3>1. a \notin All
      <4>1. SUFFICES ASSUME a \in All PROVE FALSE
        OBVIOUS
      <4>2. PICK j \in 1 .. N : a - e[j].start_addr + 1 \in 1 .. Len(e[j].bytes)
        BY <1>3, <4>1
      <4>3. i - From(e, j) = a - e[j].start_addr + 1
        <5> DEFINE x == e[j].start_addr
        <5>1. x \in Int /\ From(e, j) = x - s
          BY <1>1, <2>2
        <5> HIDE DEF x
        <5>2. i - (x - s) = a - x + 1
          BY <2>2, <5>1
        <5> QED
          BY <5>1, <5>2 DEF x
      <4> QED
        BY <2>7, <4>2, <4>3 DEF Held
    <3> HIDE DEF a
    <3>2. At(a) = 0
      BY <3>1, NotAt
    <3> QED
      BY <3>2 DEF a
  <2>8. BinFile = [i \in 1 .. Max(All) - first + 1 |-> At(first + i - 1)]
    BY <1>2, <2>3, <2>6, <2>7
  <2> QED
    BY <1>6, <2>8 DEF All, first
<1> QED
  BY <1>5, <1>6

-----------------------------------------------------------------------------
\* The end of the file, and the next one.
LEMMA EmptiedIs ==
  ASSUME NEW L \in Lists
  PROVE  Emptied(L) \in Lists /\ Emptied(L).elem = <<>>
<1>1. L \in [elem: Seq(Chunks), capacity: Nat] /\ <<>> \in Seq(Chunks)
  BY DEF Lists
<1>2. Emptied(L) = [L EXCEPT !.elem = <<>>]
  BY Zenon DEF Emptied
<1> QED
  BY <1>1, <1>2 DEF Lists

LEMMA EndStep == HexInv /\ EndOfFile => HexInv'
<1> SUFFICES ASSUME HexInv, EndOfFile PROVE HexInv'
  OBVIOUS
<1>1. HexShape /\ Collected
  BY DEF HexInv, EndOfFile
<1>2. HexShape'
  <2>1. list' \in Lists
    BY <1>1, EmptiedIs DEF EndOfFile, HexShape, Lists
  <2> QED
    BY <1>1, <2>1 DEF HexShape, EndOfFile, Lists
<1>3. ImageIsTheFile'
  <2>1. out' = BinFile /\ told' = told
    BY DEF EndOfFile
  <2>2. ASSUME Disjoint, Within, Near
        PROVE  LET first == Min({told[i][1] : i \in DOMAIN told})
                   all == UNION {Bytes(told[i]) : i \in DOMAIN told}
               IN  IF all = {} THEN BinFile = <<>>
                   ELSE BinFile = [i \in 1 .. Max(all) - first + 1 |-> At(first + i - 1)]
    <3>1. Ordered(list.elem) /\ ListCells(list.elem) = FileCells /\ Lowest(list.elem, told)
      BY <1>1, <2>2 DEF Collected
    <3>2. PICK m : Filler(list.elem, Len(list.elem), m, BinFile)
      BY <1>1, <2>2, <3>1, FileIs
    <3> QED
      BY <1>1, <2>2, <3>1, <3>2, ImageIs
  <2>3. /\ Disjoint' <=> Disjoint
        /\ Within' <=> Within
        /\ Near' <=> Near
        /\ \A a : At(a)' = At(a)
    BY <2>1 DEF Disjoint, Within, Near, At
  <2> QED
    BY <2>1, <2>2, <2>3 DEF ImageIsTheFile, IsTheFile
<1>4. phase' = "made"
  BY DEF EndOfFile
<1> QED
  BY <1>2, <1>3, <1>4 DEF HexInv

LEMMA NewFile ==
  ASSUME list.elem = <<>>, curr = -1, prev_mem_addr = Modulus - 1, told = <<>>
  PROVE  Collected
<1>1. ListCells(<<>>) = {} /\ FileCells = {}
  BY DEF ListCells, FileCells
<1> QED
  BY <1>1 DEF Collected, Current, Ordered, Lowest

LEMMA NextFileStep == HexInv /\ NextFile => HexInv'
<1> SUFFICES ASSUME HexInv, NextFile PROVE HexInv'
  OBVIOUS
<1>1. /\ list'.elem = <<>> /\ curr' = -1 /\ prev_mem_addr' = Modulus - 1 /\ told' = <<>>
      /\ list' \in Lists /\ phase' = "read" /\ linear_base_addr' = 0 /\ segment_addr' = 0
  BY EmptiedIs DEF HexInv, HexShape, NextFile, Lists
<1>2. Modulus \in Nat /\ Modulus > 0
  BY HexAssumption
<1>3. HexShape'
  BY <1>1, <1>2 DEF HexShape, Lists
<1>4. Collected'
  <2>1. ListCells(<<>>) = {} /\ FileCells' = {}
    BY <1>1 DEF ListCells, FileCells
  <2> QED
    BY <1>1, <2>1 DEF Collected, Current, Ordered, Lowest
<1> QED
  BY <1>1, <1>3, <1>4 DEF HexInv, ImageIsTheFile

\* A step that leaves the list and the records alone.
LEMMA LeavesTheList ==
  ASSUME HexInv, UNCHANGED <<list, curr, prev_mem_addr, out, told>>,
         linear_base_addr' \in Nat, segment_addr' \in Nat,
         phase' = "read" => phase = "read",
         phase' \in {"made", "loaded"} => phase \in {"made", "loaded"}
  PROVE  HexInv'
<1>1. HexShape'
  BY DEF HexInv, HexShape
<1>2. phase' = "read" => Collected'
  <2> SUFFICES ASSUME phase' = "read" PROVE Collected'
    OBVIOUS
  <2>1. Collected
    BY DEF HexInv
  <2>2. (Within' <=> Within) /\ FileCells' = FileCells /\ (Current' <=> Current)
    BY DEF Within, FileCells, Current
  <2> QED
    BY <2>1, <2>2 DEF Collected
<1>3. ImageIsTheFile'
  <2>1. /\ Disjoint' <=> Disjoint
        /\ Within' <=> Within
        /\ Near' <=> Near
        /\ \A a : At(a)' = At(a)
    BY DEF Disjoint, Within, Near, At
  <2> QED
    BY <2>1 DEF HexInv, ImageIsTheFile, IsTheFile
<1> QED
  BY <1>1, <1>2, <1>3 DEF HexInv

LEMMA HexNextStep == HexInv /\ [HexNext]_hvars => HexInv'
<1> SUFFICES ASSUME HexInv, [HexNext]_hvars PROVE HexInv'
  OBVIOUS
<1>0. linear_base_addr \in Nat /\ segment_addr \in Nat
  BY DEF HexInv, HexShape
<1>1. CASE BadLine \/ RefusesData
  <2>1. FileFails
    BY <1>1 DEF BadLine, RefusesData
  <2> QED
    BY <1>0, <2>1, LeavesTheList DEF FileFails
<1>2. CASE DataRecord
  BY <1>2, DataStep
<1>3. CASE SegmentRecord \/ LinearRecord
  <2>1. \A l \in Lines : l.addr \in Nat
    BY HexAssumption
  <2>2. /\ linear_base_addr' \in Nat /\ segment_addr' \in Nat /\ phase' = phase
        /\ UNCHANGED <<list, curr, prev_mem_addr, out, told>>
    BY <1>0, <1>3, <2>1 DEF SegmentRecord, LinearRecord
  <2> QED
    BY <2>2, LeavesTheList
<1>4. CASE StartSegmentRecord \/ StartLinearRecord \/ UNCHANGED hvars
  <2>1. /\ linear_base_addr' = linear_base_addr /\ segment_addr' = segment_addr /\ phase' = phase
        /\ UNCHANGED <<list, curr, prev_mem_addr, out, told>>
    BY <1>4 DEF StartSegmentRecord, StartLinearRecord, hvars
  <2> QED
    BY <1>0, <2>1, LeavesTheList
<1>5. CASE EndOfFile
  BY <1>5, EndStep
<1>6. CASE LoadHexFile
  <2>1. /\ linear_base_addr' = linear_base_addr /\ segment_addr' = segment_addr
        /\ phase = "made" /\ phase' # "read"
        /\ UNCHANGED <<list, curr, prev_mem_addr, out, told>>
    BY <1>6 DEF LoadHexFile
  <2> QED
    BY <1>0, <2>1, LeavesTheList
<1>7. CASE NextFile
  BY <1>7, NextFileStep
<1> QED
  BY <1>1, <1>2, <1>3, <1>4, <1>5, <1>6, <1>7 DEF HexNext

\* The invariant of the conversion, for all lines a file may hold.
THEOREM HexInvariant == HexSpec => []HexInv
<1>1. HexInit => HexInv
  <2> SUFFICES ASSUME HexInit PROVE HexInv
    OBVIOUS
  <2>1. HexShape
    BY HexAssumption DEF HexInit, NoList, HexShape
  <2>2. Collected
    BY NewFile DEF HexInit, NoList
  <2> QED
    BY <2>1, <2>2 DEF HexInit, HexInv, ImageIsTheFile
<1>2. HexInv /\ [HexNext]_hvars => HexInv'
  BY HexNextStep
<1> QED
  BY <1>1, <1>2, PTL DEF HexSpec

\* Records that do not overlap, stay below the last address and are no further
\* apart than fseek reaches come out as they are in the file, in whatever order
\* it has them.
THEOREM ImageRight == HexSpec => []ImageIsTheFile
<1>1. HexInv => ImageIsTheFile
  BY DEF HexInv
<1> QED
  BY <1>1, HexInvariant, PTL
=============================================================================
