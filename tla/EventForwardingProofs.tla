------------------------ MODULE EventForwardingProofs ------------------------
(***************************************************************************)
(* The safety of event forwarding, and what its liveness rests on, for     *)
(* every number of threads, monitors and synchronized blocks and every     *)
(* width of int.                                                           *)
(***************************************************************************)
EXTENDS EventForwarding, FiniteSetTheorems, TLAPS

InRuntime == {"counting", "locking", "sending", "countingExit"}

\* Why the runtime is ready: a thread is in it only after it has read the flag
\* as true, the flag is set only by VMStart, and VMStart comes after OnLoad.
ReadyInv ==
    /\ phase # "aborted"
    /\ phase # "onload" => channel
    /\ enabled => phase \in {"started", "exited"}
    /\ \A t \in Threads : pc[t] \in InRuntime => enabled

Inv == TypeOK /\ ReadyInv /\ SenderIsExclusive

-----------------------------------------------------------------------------
\* A Java int stays one.
LEMMA IncrementType ==
  ASSUME NEW n \in JavaInt
  PROVE  IncrementAndGet(n) \in JavaInt
  BY ForwardingAssumption DEF JavaInt, IncrementAndGet

LEMMA InvInit == Init => Inv
<1> SUFFICES ASSUME Init PROVE Inv
  OBVIOUS
<1> USE ForwardingAssumption DEF Init
<1>1. TypeOK
  <2>1. loops \in [Threads -> 0..NumLoops]
    OBVIOUS
  <2>2. enters \in JavaInt /\ exits \in JavaInt
    BY DEF JavaInt
  <2> QED
    BY <2>1, <2>2 DEF TypeOK, Phases, PCs
<1>2. ReadyInv
  BY DEF ReadyInv, InRuntime
<1>3. SenderIsExclusive
  BY DEF SenderIsExclusive
<1> QED
  BY <1>1, <1>2, <1>3 DEF Inv

\* A step of a thread up to its MONITORENTER.
LEMMA InvEnterStep ==
  ASSUME Inv, NEW t \in Threads,
         \/ CheckEnter(t) \/ CountEnter(t) \/ LockChannel(t) \/ Send(t) \/ MonitorEnter(t)
  PROVE  Inv'
<1> USE ForwardingAssumption DEF Inv, ReadyInv, InRuntime, SenderIsExclusive,
      Goto, Running, agent, queue, counters
<1>1. CASE CheckEnter(t)
  <2>1. \A u \in Threads : loops'[u] \in 0..NumLoops
    BY <1>1 DEF CheckEnter, TypeOK
  <2>2. loops' \in [Threads -> 0..NumLoops]
    BY <1>1, <2>1 DEF CheckEnter, TypeOK
  <2>3. TypeOK'
    BY <1>1, <2>2 DEF CheckEnter, TypeOK, PCs
  <2>4. ReadyInv' /\ SenderIsExclusive'
    BY <1>1 DEF CheckEnter, TypeOK
  <2> QED
    BY <2>3, <2>4
<1>2. CASE CountEnter(t)
  BY <1>2, IncrementType DEF CountEnter, TypeOK, PCs
<1>3. CASE LockChannel(t)
  BY <1>3 DEF LockChannel, TypeOK, PCs
<1>4. CASE Send(t)
  BY <1>4 DEF Send, TypeOK, PCs, Phases
<1>5. CASE MonitorEnter(t)
  BY <1>5 DEF MonitorEnter, TypeOK, PCs
<1> QED
  BY <1>1, <1>2, <1>3, <1>4, <1>5

LEMMA InvExitStep ==
  ASSUME Inv, NEW t \in Threads, CheckExit(t) \/ CountExit(t) \/ MonitorExit(t)
  PROVE  Inv'
<1> USE ForwardingAssumption DEF Inv, ReadyInv, InRuntime, SenderIsExclusive,
      Goto, Running, agent, queue, counters
<1>1. CASE CheckExit(t)
  BY <1>1 DEF CheckExit, TypeOK, PCs
<1>2. CASE CountExit(t)
  BY <1>2, IncrementType DEF CountExit, TypeOK, PCs
<1>3. CASE MonitorExit(t)
  BY <1>3 DEF MonitorExit, TypeOK, PCs
<1> QED
  BY <1>1, <1>2, <1>3

LEMMA InvNext ==
  ASSUME Inv, [Next]_vars
  PROVE  Inv'
<1> USE DEF Inv, ReadyInv, InRuntime, SenderIsExclusive, agent, queue, counters, app, Running
<1>1. CASE StartForwardingWorker
  BY <1>1 DEF StartForwardingWorker, TypeOK, Phases
<1>2. CASE EnableInstrumentation
  BY <1>2 DEF EnableInstrumentation, TypeOK, Phases
<1>3. CASE Receive
  BY <1>3 DEF Receive, TypeOK
<1>4. CASE JvmExits
  BY <1>4 DEF JvmExits, TypeOK, Phases
<1>5. CASE UNCHANGED vars
  BY <1>5 DEF vars, TypeOK
<1> QED
  BY <1>1, <1>2, <1>3, <1>4, <1>5, InvEnterStep, InvExitStep DEF Next, ThreadStep

-----------------------------------------------------------------------------
(* Counting.                                                               *)

\* Incrementing a Java int, with overflow, counts one more.
LEMMA IncrementCounts ==
  ASSUME NEW n \in JavaInt, NEW total \in Nat, Counts(n, total)
  PROVE  Counts(IncrementAndGet(n), total + 1)
<1> DEFINE M == 2 * (MaxInt + 1)
<1>1. PICK w \in 0..total : total = n + w * M
  BY DEF Counts
<1>2. M \in Nat /\ w \in Nat /\ n \in Int
  BY ForwardingAssumption DEF JavaInt
<1>3. CASE n = MaxInt
  <2>1. IncrementAndGet(n) = n + 1 - M
    BY <1>3, ForwardingAssumption DEF IncrementAndGet
  <2>2. (w + 1) * M = w * M + M /\ w * M \in Nat
    BY <1>2
  <2>3. total + 1 = IncrementAndGet(n) + (w + 1) * M
    BY <1>1, <1>2, <2>1, <2>2
  <2> QED
    BY <1>2, <2>3 DEF Counts
<1>4. CASE n # MaxInt
  <2>1. IncrementAndGet(n) = n + 1
    BY <1>4 DEF IncrementAndGet
  <2>2. w * M \in Nat
    BY <1>2
  <2>3. total + 1 = IncrementAndGet(n) + w * M
    BY <1>1, <1>2, <2>1, <2>2
  <2> QED
    BY <1>2, <2>3 DEF Counts
<1> QED
  BY <1>3, <1>4

LEMMA AtType == ASSUME NEW labels PROVE At(labels) \in Nat
<1>1. IsFiniteSet({t \in Threads : pc[t] \in labels})
  BY ForwardingAssumption, FS_Subset
<1> QED
  BY <1>1, FS_CardinalityType DEF At

\* How the number of threads at some labels changes when thread t moves.
LEMMA AtChanges ==
  ASSUME TypeOK, NEW labels, NEW t \in Threads, NEW to,
         pc' = [pc EXCEPT ![t] = to]
  PROVE  /\ (pc[t] \in labels <=> to \in labels) => At(labels)' = At(labels)
         /\ pc[t] \notin labels /\ to \in labels => At(labels)' = At(labels) + 1
         /\ pc[t] \in labels /\ to \notin labels => At(labels)' = At(labels) - 1
<1> DEFINE S == {u \in Threads : pc[u] \in labels}
           Q == {u \in Threads : pc'[u] \in labels}
<1>1. \A u \in Threads : pc'[u] = IF u = t THEN to ELSE pc[u]
  BY DEF TypeOK
<1>2. IsFiniteSet(S)
  BY ForwardingAssumption, FS_Subset
<1>3. At(labels) = Cardinality(S) /\ At(labels)' = Cardinality(Q)
  BY DEF At
<1>4. ASSUME pc[t] \in labels <=> to \in labels PROVE At(labels)' = At(labels)
  <2>1. Q = S
    BY <1>1, <1>4
  <2> QED
    BY <1>3, <2>1
<1>5. ASSUME pc[t] \notin labels, to \in labels PROVE At(labels)' = At(labels) + 1
  <2>1. Q = S \union {t} /\ t \notin S
    BY <1>1, <1>5
  <2> HIDE DEF S, Q
  <2> QED
    BY <1>2, <1>3, <2>1, FS_AddElement
<1>6. ASSUME pc[t] \in labels, to \notin labels PROVE At(labels)' = At(labels) - 1
  <2>1. Q = S \ {t} /\ t \in S
    BY <1>1, <1>6
  <2> HIDE DEF S, Q
  <2> QED
    BY <1>2, <1>3, <2>1, FS_RemoveElement
<1> QED
  BY <1>4, <1>5, <1>6

\* A thread counts an event before it sends it, and what it sends is in the
\* channel until the worker receives it.
LEMMA NoEventIsLostNext ==
  ASSUME Inv, NoEventIsLost, [Next]_vars
  PROVE  NoEventIsLost'
<1> DEFINE Labels == {"locking", "sending"}
           Sum == received + pending + At(Labels)
<1> USE DEF Inv, Goto, agent, queue, counters, app, NoEventIsLost
<1>0. /\ received \in Nat /\ pending \in Nat /\ At(Labels) \in Nat
      /\ enters \in JavaInt
  BY AtType DEF TypeOK
<1>1. ASSUME enters' = enters, Sum' = Sum PROVE NoEventIsLost'
  BY <1>1 DEF Counts
<1>2. ASSUME NEW t \in Threads, CountEnter(t) PROVE NoEventIsLost'
  <2>1. pc' = [pc EXCEPT ![t] = "locking"] /\ pc[t] = "counting"
    BY <1>2 DEF CountEnter
  <2>2. At(Labels)' = At(Labels) + 1
    <3>1. pc[t] \notin Labels /\ "locking" \in Labels
      BY <2>1
    <3> HIDE DEF Labels
    <3> QED
      BY <2>1, <3>1, AtChanges
  <2>3. Sum' = Sum + 1
    BY <1>0, <1>2, <2>2 DEF CountEnter
  <2>4. Counts(IncrementAndGet(enters), Sum + 1)
    BY <1>0, IncrementCounts
  <2> QED
    BY <1>2, <2>3, <2>4 DEF CountEnter, Counts
<1>3. ASSUME NEW t \in Threads, Send(t) PROVE NoEventIsLost'
  <2>1. /\ pc' = [pc EXCEPT ![t] = "entering"] /\ pc[t] = "sending"
        /\ pc[t] \in Labels /\ "entering" \notin Labels
    BY <1>3 DEF Send
  <2>2. At(Labels)' = At(Labels) - 1
    <3> HIDE DEF Labels
    <3> QED
      BY <2>1, AtChanges
  <2>3. channel
    BY <2>1, <1>3 DEF ReadyInv, Send, Running
  <2>4. Sum' = Sum /\ enters' = enters
    BY <1>0, <1>3, <2>2, <2>3 DEF Send
  <2> QED
    BY <1>1, <2>4
<1>4. CASE Receive
  BY <1>0, <1>1, <1>4 DEF Receive, At
<1>5. CASE StartForwardingWorker \/ EnableInstrumentation \/ JvmExits \/ UNCHANGED vars
  BY <1>1, <1>5 DEF StartForwardingWorker, EnableInstrumentation, JvmExits, vars, At
<1>6. ASSUME NEW t \in Threads,
             \/ CheckEnter(t) \/ LockChannel(t) \/ MonitorEnter(t)
             \/ CheckExit(t) \/ CountExit(t) \/ MonitorExit(t)
      PROVE  NoEventIsLost'
  <2>1. PICK to \in PCs : pc' = [pc EXCEPT ![t] = to] /\ (pc[t] \in Labels <=> to \in Labels)
    BY <1>6 DEF CheckEnter, LockChannel, MonitorEnter, CheckExit, CountExit, MonitorExit, PCs
  <2>2. At(Labels)' = At(Labels)
    BY <2>1, AtChanges
  <2>3. UNCHANGED <<enters, pending, received>>
    BY <1>6 DEF CheckEnter, LockChannel, MonitorEnter, CheckExit, CountExit, MonitorExit
  <2> QED
    BY <1>1, <2>2, <2>3
<1> QED
  BY <1>2, <1>3, <1>4, <1>5, <1>6 DEF Next, ThreadStep

\* A block that is recorded is counted in the step that ends "counting".
EnterInv ==
    /\ recorded - At({"counting"}) \in Nat
    /\ EveryEnterIsCounted

LEMMA EnterNext ==
  ASSUME Inv, EnterInv, [Next]_vars
  PROVE  EnterInv'
<1> DEFINE Sum == recorded - At({"counting"})
<1> USE DEF Inv, EnterInv, EveryEnterIsCounted, Goto, agent, queue, counters, app
<1>0. recorded \in Nat /\ At({"counting"}) \in Nat /\ enters \in JavaInt
  BY AtType DEF TypeOK
<1>1. ASSUME enters' = enters, Sum' = Sum PROVE EnterInv'
  BY <1>1 DEF Counts
<1>2. ASSUME NEW t \in Threads, CountEnter(t) PROVE EnterInv'
  <2>1. At({"counting"})' = At({"counting"}) - 1
    <3>1. /\ pc' = [pc EXCEPT ![t] = "locking"]
          /\ pc[t] \in {"counting"} /\ "locking" \notin {"counting"}
      BY <1>2 DEF CountEnter
    <3> QED
      BY <3>1, AtChanges
  <2>2. Sum' = Sum + 1 /\ enters' = IncrementAndGet(enters)
    BY <1>0, <1>2, <2>1 DEF CountEnter
  <2>3. Counts(IncrementAndGet(enters), Sum + 1) /\ Sum + 1 \in Nat
    BY <1>0, IncrementCounts
  <2> QED
    BY <2>2, <2>3 DEF Counts
<1>3. ASSUME NEW t \in Threads, CheckEnter(t) PROVE EnterInv'
  <2>1. CASE enabled
    <3>1. At({"counting"})' = At({"counting"}) + 1 /\ recorded' = recorded + 1
      BY <1>3, <2>1, AtChanges DEF CheckEnter
    <3> QED
      BY <1>0, <1>1, <1>3, <3>1 DEF CheckEnter
  <2>2. CASE ~enabled
    <3>1. At({"counting"})' = At({"counting"}) /\ recorded' = recorded
      BY <1>3, <2>2, AtChanges DEF CheckEnter
    <3> QED
      BY <1>1, <1>3, <3>1 DEF CheckEnter
  <2> QED
    BY <2>1, <2>2
<1>4. ASSUME NEW t \in Threads,
             \/ LockChannel(t) \/ Send(t) \/ MonitorEnter(t)
             \/ CheckExit(t) \/ CountExit(t) \/ MonitorExit(t)
      PROVE  EnterInv'
  <2>1. PICK to \in PCs : /\ pc' = [pc EXCEPT ![t] = to]
                          /\ pc[t] \notin {"counting"} /\ to \notin {"counting"}
    BY <1>4 DEF LockChannel, Send, MonitorEnter, CheckExit, CountExit, MonitorExit, PCs
  <2>2. At({"counting"})' = At({"counting"})
    BY <2>1, AtChanges
  <2>3. UNCHANGED <<enters, recorded>>
    BY <1>4 DEF LockChannel, Send, MonitorEnter, CheckExit, CountExit, MonitorExit
  <2> QED
    BY <1>1, <2>2, <2>3
<1>5. ASSUME UNCHANGED <<enters, recorded, pc>> PROVE EnterInv'
  BY <1>1, <1>5 DEF At
<1> QED
  BY <1>2, <1>3, <1>4, <1>5
  DEF Next, ThreadStep, StartForwardingWorker, EnableInstrumentation, Receive, JvmExits, vars

\* Between the two readings of the flag.
InBlock == {"counting", "locking", "sending", "entering", "inside", "countingExit"}

ThreadsInBlock == {t \in Threads : pc[t] \in InBlock}

\* S are the threads whose exits are counted without an enter, or will be if
\* they are still in a block when instrumentation is enabled: each has one such
\* block.
ExitSum(S) == recorded + Cardinality(S) - At(InBlock)
EarlyThreads(S) ==
    /\ ExitSum(S) \in Nat /\ Counts(exits, ExitSum(S))
    /\ ~enabled => recorded = 0 /\ S = ThreadsInBlock

ExitInv == \E S \in SUBSET Threads : EarlyThreads(S)

LEMMA ExitNext ==
  ASSUME Inv, ExitInv, [Next]_vars
  PROVE  ExitInv'
<1> USE DEF Inv, Goto
<1>1. PICK S \in SUBSET Threads :
         /\ ExitSum(S) \in Nat /\ Counts(exits, ExitSum(S))
         /\ ~enabled => recorded = 0 /\ S = ThreadsInBlock
  BY DEF ExitInv, EarlyThreads
<1>2. IsFiniteSet(S) /\ Cardinality(S) \in Nat
  BY ForwardingAssumption, FS_Subset, FS_CardinalityType
<1>3. recorded \in Nat /\ At(InBlock) \in Nat /\ exits \in JavaInt
  BY AtType DEF TypeOK
<1>4. ASSUME NEW Q \in SUBSET Threads, ExitSum(Q)' = ExitSum(S), exits' = exits,
             ~enabled' => recorded' = 0 /\ Q = ThreadsInBlock'
      PROVE  ExitInv'
  BY <1>1, <1>4 DEF ExitInv, EarlyThreads, Counts
<1>5. ASSUME NEW t \in Threads, CheckEnter(t) PROVE ExitInv'
  <2>1. /\ pc' = [pc EXCEPT ![t] = IF enabled THEN "counting" ELSE "entering"]
        /\ pc[t] = "outside" /\ UNCHANGED <<exits, enabled>>
        /\ recorded' = IF enabled THEN recorded + 1 ELSE recorded
    BY <1>5 DEF CheckEnter, agent, counters
  <2>2. At(InBlock)' = At(InBlock) + 1
    <3>1. /\ pc[t] \notin InBlock
          /\ (IF enabled THEN "counting" ELSE "entering") \in InBlock
      BY <2>1 DEF InBlock
    <3> QED
      BY <2>1, <3>1, AtChanges
  <2>3. CASE enabled
    <3>1. ExitSum(S)' = ExitSum(S)
      BY <1>2, <1>3, <2>1, <2>2, <2>3 DEF ExitSum
    <3> QED
      BY <1>4, <2>1, <2>3, <3>1
  <2>4. CASE ~enabled
    <3>1. t \notin S /\ S \union {t} = ThreadsInBlock'
      BY <1>1, <2>1, <2>4 DEF InBlock, ThreadsInBlock, TypeOK
    <3>2. Cardinality(S \union {t}) = Cardinality(S) + 1
      BY <1>2, <3>1, FS_AddElement
    <3>3. ExitSum(S \union {t})' = ExitSum(S)
      BY <1>2, <1>3, <2>1, <2>2, <2>4, <3>2 DEF ExitSum
    <3> QED
      BY <1>1, <1>4, <2>1, <2>4, <3>1, <3>3
  <2> QED
    BY <2>3, <2>4
<1>6. ASSUME NEW t \in Threads, CheckExit(t) PROVE ExitInv'
  <2>1. /\ pc' = [pc EXCEPT ![t] = IF enabled THEN "countingExit" ELSE "exiting"]
        /\ pc[t] = "inside" /\ UNCHANGED <<exits, enabled, recorded>>
    BY <1>6 DEF CheckExit, agent, counters
  <2>2. CASE enabled
    <3>1. At(InBlock)' = At(InBlock)
      <4>1. pc[t] \in InBlock /\ "countingExit" \in InBlock
        BY <2>1 DEF InBlock
      <4>2. pc' = [pc EXCEPT ![t] = "countingExit"]
        BY <2>1, <2>2
      <4> QED
        BY <4>1, <4>2, AtChanges
    <3> QED
      BY <1>4, <2>1, <2>2, <3>1 DEF ExitSum
  <2>3. CASE ~enabled
    <3>1. At(InBlock)' = At(InBlock) - 1
      <4>1. pc[t] \in InBlock /\ "exiting" \notin InBlock
        BY <2>1 DEF InBlock
      <4>2. pc' = [pc EXCEPT ![t] = "exiting"]
        BY <2>1, <2>3
      <4> QED
        BY <4>1, <4>2, AtChanges
    <3>2. t \in S /\ S \ {t} = ThreadsInBlock'
      BY <1>1, <2>1, <2>3 DEF InBlock, ThreadsInBlock, TypeOK
    <3>3. Cardinality(S \ {t}) = Cardinality(S) - 1
      BY <1>2, <3>2, FS_RemoveElement
    <3>4. ExitSum(S \ {t})' = ExitSum(S)
      BY <1>2, <1>3, <2>1, <3>1, <3>3 DEF ExitSum
    <3> QED
      BY <1>1, <1>4, <2>1, <2>3, <3>2, <3>4
  <2> QED
    BY <2>2, <2>3
<1>7. ASSUME NEW t \in Threads, CountExit(t) PROVE ExitInv'
  <2>1. /\ pc' = [pc EXCEPT ![t] = "exiting"] /\ pc[t] = "countingExit"
        /\ UNCHANGED <<enabled, recorded>> /\ exits' = IncrementAndGet(exits)
    BY <1>7 DEF CountExit, agent
  <2>2. enabled
    BY <2>1 DEF ReadyInv, InRuntime
  <2>3. At(InBlock)' = At(InBlock) - 1
    <3>1. pc[t] \in InBlock /\ "exiting" \notin InBlock
      BY <2>1 DEF InBlock
    <3> QED
      BY <2>1, <3>1, AtChanges
  <2>4. ExitSum(S)' = ExitSum(S) + 1 /\ ExitSum(S) + 1 \in Nat
    BY <1>1, <1>2, <1>3, <2>1, <2>3 DEF ExitSum
  <2>5. Counts(IncrementAndGet(exits), ExitSum(S) + 1)
    BY <1>1, <1>3, IncrementCounts
  <2> QED
    BY <2>1, <2>2, <2>4, <2>5 DEF ExitInv, EarlyThreads, Counts
<1>8. ASSUME NEW t \in Threads,
             CountEnter(t) \/ LockChannel(t) \/ Send(t) \/ MonitorEnter(t) \/ MonitorExit(t)
      PROVE  ExitInv'
  <2>1. PICK to \in PCs : pc' = [pc EXCEPT ![t] = to] /\ (pc[t] \in InBlock <=> to \in InBlock)
    BY <1>8 DEF CountEnter, LockChannel, Send, MonitorEnter, MonitorExit, PCs, InBlock
  <2>2. At(InBlock)' = At(InBlock) /\ ThreadsInBlock' = ThreadsInBlock
    <3>1. At(InBlock)' = At(InBlock)
      BY <2>1, AtChanges
    <3>2. ThreadsInBlock' = ThreadsInBlock
      BY <2>1 DEF ThreadsInBlock, TypeOK
    <3> QED
      BY <3>1, <3>2
  <2>3. UNCHANGED <<exits, recorded, enabled>>
    BY <1>8 DEF CountEnter, LockChannel, Send, MonitorEnter, MonitorExit, agent, counters
  <2> QED
    BY <1>1, <1>4, <2>2, <2>3 DEF ExitSum
<1>9. ASSUME UNCHANGED <<exits, recorded, pc>>, enabled => enabled' PROVE ExitInv'
  BY <1>1, <1>4, <1>9 DEF At, ExitSum, ThreadsInBlock
<1> QED
  BY <1>5, <1>6, <1>7, <1>8, <1>9
  DEF Next, ThreadStep, StartForwardingWorker, EnableInstrumentation, Receive, JvmExits,
      vars, agent, counters, app

-----------------------------------------------------------------------------
(* The theorems.                                                           *)

\* The invariant holds in every reachable state of event forwarding.
THEOREM Invariance == Spec => []Inv
<1>1. Inv /\ [Next]_vars => Inv'
  BY InvNext
<1> QED
  BY <1>1, InvInit, PTL DEF Spec

\* The variables keep their types; the counters stay Java ints.
THEOREM TypeCorrect == Spec => []TypeOK
<1>1. Inv => TypeOK
  BY DEF Inv
<1> QED
  BY <1>1, Invariance, PTL

\* No thread is in the runtime before VMStart, and none ever panics in it.
THEOREM ThreadsFindTheRuntimeReady == Spec => []RuntimeIsReady
<1>1. Inv => RuntimeIsReady
  BY DEF Inv, ReadyInv, RuntimeIsReady, InRuntime
<1> QED
  BY <1>1, Invariance, PTL

\* The mutex around the sender: mutual exclusion, and it is free whenever its
\* last holder is out of the native method.
THEOREM SenderMutualExclusion == Spec => []SenderIsExclusive
<1>1. Inv => SenderIsExclusive
  BY DEF Inv
<1> QED
  BY <1>1, Invariance, PTL

\* The counter of monitor enters, modulo the width of a Java int, counts the
\* events received, those in the channel and those about to be sent.
THEOREM EventsAreConserved == Spec => []NoEventIsLost
<1>1. Init => NoEventIsLost
  <2> SUFFICES ASSUME Init PROVE NoEventIsLost
    OBVIOUS
  <2>1. {t \in Threads : pc[t] \in {"locking", "sending"}} = {}
    BY DEF Init
  <2>2. At({"locking", "sending"}) = 0
    BY <2>1, FS_EmptySet DEF At
  <2> QED
    BY <2>2, ForwardingAssumption DEF Init, NoEventIsLost, Counts
<1>2. Inv /\ NoEventIsLost /\ [Next]_vars => NoEventIsLost'
  BY NoEventIsLostNext
<1> QED
  BY <1>1, <1>2, Invariance, PTL DEF Spec

\* The counter of monitor enters, modulo the width of a Java int, counts the
\* blocks begun since instrumentation was enabled.
THEOREM EntersAreCounted == Spec => []EveryEnterIsCounted
<1>1. Init => EnterInv
  <2> SUFFICES ASSUME Init PROVE EnterInv
    OBVIOUS
  <2>1. {t \in Threads : pc[t] \in {"counting"}} = {}
    BY DEF Init
  <2>2. At({"counting"}) = 0
    BY <2>1, FS_EmptySet DEF At
  <2> QED
    BY <2>2, ForwardingAssumption DEF Init, EnterInv, EveryEnterIsCounted, Counts
<1>2. Inv /\ EnterInv /\ [Next]_vars => EnterInv'
  BY EnterNext
<1>3. EnterInv => EveryEnterIsCounted
  BY DEF EnterInv
<1> QED
  BY <1>1, <1>2, <1>3, Invariance, PTL DEF Spec

\* The counter of monitor exits is ahead of the recorded blocks that ended by at
\* most one for each thread.
THEOREM ExitsAreCounted == Spec => []ExitsFollowEnters
<1>1. Init => ExitInv
  <2> SUFFICES ASSUME Init PROVE ExitInv
    OBVIOUS
  <2>1. {t \in Threads : pc[t] \in InBlock} = {}
    BY DEF Init, InBlock
  <2>2. At(InBlock) = 0 /\ Cardinality({}) = 0
    BY <2>1, FS_EmptySet DEF At
  <2>3. Counts(exits, 0)
    BY ForwardingAssumption DEF Init, Counts
  <2>4. ExitSum({}) = 0 /\ recorded = 0 /\ ThreadsInBlock = {}
    BY <2>1, <2>2 DEF Init, ExitSum, ThreadsInBlock
  <2>5. EarlyThreads({})
    BY <2>3, <2>4 DEF EarlyThreads
  <2> QED
    BY <2>5 DEF ExitInv
<1>2. Inv /\ ExitInv /\ [Next]_vars => ExitInv'
  BY ExitNext
<1>3. ExitInv => ExitsFollowEnters
  <2> SUFFICES ASSUME ExitInv PROVE ExitsFollowEnters
    OBVIOUS
  <2>1. PICK S \in SUBSET Threads : Counts(exits, recorded + Cardinality(S) - At(InBlock))
    BY DEF ExitInv, EarlyThreads, ExitSum
  <2>2. Cardinality(S) \in 0..Cardinality(Threads)
    BY ForwardingAssumption, FS_Subset, FS_CardinalityType
  <2> QED
    BY <2>1, <2>2 DEF ExitsFollowEnters, InBlock
<1> QED
  BY <1>1, <1>2, <1>3, Invariance, PTL DEF Spec
-----------------------------------------------------------------------------
(* What liveness rests on: no circle of waits, and finitely many steps.    *)

InBody == {"inside", "countingExit", "exiting"}

\* A monitor is owned by the thread that is in a block of it.
MonitorInv ==
    \A m \in Monitors, t \in Threads : owner[m] = t <=> monitor[t] = m /\ pc[t] \in InBody

LEMMA MonitorInit == Init => MonitorInv
  BY ForwardingAssumption DEF Init, MonitorInv, InBody

LEMMA MonitorNext ==
  ASSUME Inv, MonitorInv, [Next]_vars
  PROVE  MonitorInv'
<1> USE ForwardingAssumption DEF Inv, TypeOK, MonitorInv, InBody, Goto, app
<1>1. ASSUME NEW t \in Threads, CheckEnter(t) PROVE MonitorInv'
  BY <1>1 DEF CheckEnter
<1>2. ASSUME NEW t \in Threads, CountEnter(t) \/ LockChannel(t) \/ Send(t) PROVE MonitorInv'
  BY <1>2 DEF CountEnter, LockChannel, Send
<1>3. ASSUME NEW t \in Threads, MonitorEnter(t) PROVE MonitorInv'
  BY <1>3 DEF MonitorEnter
<1>4. ASSUME NEW t \in Threads, CheckExit(t) \/ CountExit(t) PROVE MonitorInv'
  BY <1>4 DEF CheckExit, CountExit
<1>5. ASSUME NEW t \in Threads, MonitorExit(t) PROVE MonitorInv'
  BY <1>5 DEF MonitorExit
<1>6. CASE StartForwardingWorker \/ EnableInstrumentation \/ Receive \/ JvmExits \/ UNCHANGED vars
  BY <1>6 DEF StartForwardingWorker, EnableInstrumentation, Receive, JvmExits, vars
<1> QED
  BY <1>1, <1>2, <1>3, <1>4, <1>5, <1>6 DEF Next, ThreadStep

\* Who waits for the sender waits for a thread at send(()), and who waits for a
\* monitor for one that is in its block or leaves it; these wait for nobody.
WaitsAreShort ==
    \A t \in Threads :
        /\ pc[t] = "locking" /\ lock # NoThread => lock \in Threads /\ pc[lock] = "sending"
        /\ pc[t] = "entering" /\ owner[monitor[t]] # NoThread =>
              owner[monitor[t]] \in Threads /\ pc[owner[monitor[t]]] \in InBody

\* The calls of monitorEnter() and monitorExit() of the runtime add no deadlock to
\* the application's synchronized blocks, with any number of threads and monitors.
THEOREM InstrumentationAddsNoDeadlock == Spec => []WaitsAreShort
<1>1. Inv /\ MonitorInv => WaitsAreShort
  BY DEF Inv, TypeOK, SenderIsExclusive, MonitorInv, WaitsAreShort
<1>2. Inv /\ MonitorInv /\ [Next]_vars => MonitorInv'
  BY MonitorNext
<1> QED
  BY <1>1, <1>2, MonitorInit, Invariance, PTL DEF Spec

Stage == [outside |-> 0, exiting |-> 1, countingExit |-> 2, inside |-> 3, entering |-> 4,
          sending |-> 5, locking |-> 6, counting |-> 7]

\* How many steps a thread can still take around its blocks.
StepsLeft(t) == 8 * (NumLoops - loops[t]) + Stage[pc[t]]

\* Each step of a thread through the amended methods and its block brings that thread
\* closer to the end of its blocks, and takes no other thread away from it: nothing is
\* tried twice.
THEOREM BlocksRunOut == Spec => [][\A t \in Threads :
    /\ StepsLeft(t) \in Nat /\ StepsLeft(t)' <= StepsLeft(t)
    /\ ThreadStep(t) => StepsLeft(t)' < StepsLeft(t)]_vars
<1> DEFINE A == \A t \in Threads : /\ StepsLeft(t) \in Nat /\ StepsLeft(t)' <= StepsLeft(t)
                                   /\ ThreadStep(t) => StepsLeft(t)' < StepsLeft(t)
<1>1. ASSUME Inv, NEW t \in Threads PROVE StepsLeft(t) \in Nat
  BY <1>1, ForwardingAssumption DEF Inv, TypeOK, PCs, Stage, StepsLeft
<1>2. ASSUME Inv, NEW t \in Threads, ThreadStep(t)
      PROVE  /\ StepsLeft(t)' < StepsLeft(t)
             /\ \A u \in Threads \ {t} : StepsLeft(u)' = StepsLeft(u)
  BY <1>2, ForwardingAssumption DEF Inv, TypeOK, PCs, Stage, StepsLeft, Goto, ThreadStep, CheckEnter,
     CountEnter, LockChannel, Send, MonitorEnter, CheckExit, CountExit, MonitorExit
<1>3. ASSUME Inv, Next, ~\E t \in Threads : ThreadStep(t)
      PROVE  \A u \in Threads : StepsLeft(u)' = StepsLeft(u)
  BY <1>3 DEF StepsLeft, Next, StartForwardingWorker, EnableInstrumentation, Receive,
     JvmExits, app
<1>4. ASSUME Inv, Next PROVE A
  <2>1. ASSUME NEW u \in Threads, ~ThreadStep(u) PROVE StepsLeft(u)' = StepsLeft(u)
    <3>1. CASE \E t \in Threads : ThreadStep(t)
      BY <1>2, <1>4, <2>1, <3>1
    <3>2. CASE ~\E t \in Threads : ThreadStep(t)
      BY <1>3, <1>4, <3>2
    <3> QED
      BY <3>1, <3>2
  <2>2. ASSUME NEW u \in Threads, ThreadStep(u) PROVE StepsLeft(u)' < StepsLeft(u)
    BY <1>2, <1>4, <2>2
  <2>3. ASSUME NEW u \in Threads PROVE StepsLeft(u)' \in Int
    BY <1>4, InvNext, ForwardingAssumption DEF Inv, TypeOK, PCs, Stage, StepsLeft
  <2> QED
    BY <1>1, <1>4, <2>1, <2>2, <2>3
<1>5. Inv /\ [Next]_vars => [A]_vars
  BY <1>4
<1> QED
  BY <1>5, Invariance, PTL DEF Spec
=============================================================================
