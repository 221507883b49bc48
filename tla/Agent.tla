-------------------------------- MODULE Agent --------------------------------
(***************************************************************************)
(* The whole agent in one JVM: the callbacks (AgentCallbacks) and the      *)
(* forwarding of events (EventForwarding) in the same threads.             *)
(*                                                                         *)
(* The two meet in three places.  Agent_OnLoad ends with the start of the  *)
(* forwarding worker.  VMStart sets the flag that the calls amended to     *)
(* Object read.  And a thread whose block is the first to record an event  *)
(* loads the class of the runtime, inside of that block: the hook runs in  *)
(* it for a class that forwarding waits for.                               *)
(***************************************************************************)
EXTENDS Integers, FiniteSets

CONSTANTS
    Threads, Classes, Object, RtClasses, BadNames, Path, NoPath, Garbage,
    Monitors, NumLoops, MaxInt, NoThread

ASSUME AgentAssumption ==
    /\ Object \in Classes /\ RtClasses \subseteq Classes \ {Object}
    /\ BadNames \subseteq Classes \ (RtClasses \union {Object})
    /\ Cardinality({Path, NoPath, Garbage}) = 3
    /\ IsFiniteSet(Threads) /\ NoThread \notin Threads
    /\ NumLoops \in Nat /\ MaxInt \in Nat

VARIABLES
    phase, exec, dumps, storage, allocated, class, abortedBy, hookPc, target, early, conf,
    enabled,
    channel, lock, pending, received, enters, exits, pc, monitor, owner, loops, recorded

callbacks  == <<phase, exec, dumps, storage, allocated, class, abortedBy,
                hookPc, target, early, conf>>
forwarding == <<channel, lock, pending, received, enters, exits,
                pc, monitor, owner, loops, recorded>>
vars       == <<callbacks, enabled, forwarding>>

C == INSTANCE AgentCallbacks WITH pc <- hookPc

\* The life of the JVM as forwarding sees it: it does not notice VMDeath, and
\* sees no VMStart that did not enable it.
forwardingPhase ==
    IF phase = "onload" \/ abortedBy = "startup" THEN "onload"
    ELSE IF abortedBy = "send" THEN "aborted"
    ELSE IF phase \in {"dead", "aborted"} THEN "exited"
    ELSE IF enabled THEN "started" ELSE "primordial"

F == INSTANCE EventForwarding WITH phase <- forwardingPhase

Init == C!Init /\ F!Init

-----------------------------------------------------------------------------

\* Variant: the worker is not started in Agent_OnLoad.
OnLoadWithoutWorker == C!OnLoad /\ UNCHANGED forwarding

\* setup_agent() configures the JVMTI environment, then starts the worker.
OnLoad == C!OnLoad /\ F!StartForwardingWorker

OnLoadPanics == C!OnLoadPanics /\ UNCHANGED forwarding

VMStart == C!VMStart /\ UNCHANGED forwarding

\* The worker runs until the process ends.
Receive == UNCHANGED <<callbacks, enabled>> /\ F!Receive

VMDeath ==
    /\ C!FreeExec \/ C!ClearStorage \/ C!VMDeathReturns
    /\ UNCHANGED forwarding

\* A thread loads a class of the runtime when its block first needs it, which
\* nothing else does, and others between the steps of its blocks.
LoadsClass(t, c) ==
    IF c \in RtClasses
    THEN pc[t] \in {"counting", "countingExit"}
    ELSE pc[t] \in {"outside", "inside"}

BeginHook(t, c) ==
    /\ LoadsClass(t, c)
    /\ C!BeginHook(t, c)
    /\ UNCHANGED forwarding

HookStep(t) == C!HookStep(t) /\ UNCHANGED forwarding

RuntimeIsLoaded == \A c \in RtClasses : class[c] = "plain"

\* Blocks that are observed belong to instrumented classes, and their calls
\* resolve to Object's methods: otherwise an error is thrown before the block.
SomeBlockIsInstrumented ==
    /\ class[Object] = "instrumented"
    /\ \E c \in Classes \ (RtClasses \union {Object}) : class[c] = "instrumented"

\* An unwrap() that fails in a native method ends the JVM.
NativeMethodPanics(t) == pc[t] = "sending" /\ ~channel

BlockStep(t) ==
    /\ hookPc[t] = "idle"
    /\ pc[t] = "outside" => SomeBlockIsInstrumented
    /\ pc[t] \in {"counting", "countingExit"} => RuntimeIsLoaded
    /\ IF NativeMethodPanics(t) THEN C!Abort("send") ELSE UNCHANGED <<callbacks, enabled>>
    /\ F!ThreadStep(t)

Next ==
    \/ OnLoad \/ OnLoadPanics \/ VMStart \/ Receive \/ VMDeath
    \/ \E t \in Threads :
          BlockStep(t) \/ HookStep(t) \/ \E c \in Classes : BeginHook(t, c)

Spec == Init /\ [][Next]_vars

\* Threads run.  The program that instruments a class ends (InstrumentProcess),
\* and the JVM loads a class of the runtime that a thread needs.
FairSpec ==
    /\ Spec
    /\ WF_vars(Receive)
    /\ \A t \in Threads :
          /\ WF_vars(BlockStep(t)) /\ WF_vars(HookStep(t))
          /\ WF_vars(\E c \in RtClasses : BeginHook(t, c))

-----------------------------------------------------------------------------
(* Properties.                                                             *)

\* With hooks, failing instrumentation and VMDeath, forwarding still behaves as
\* EventForwarding says: its safety properties hold of the whole agent.
ImplementsForwarding == F!Spec

\* No class of the runtime is loaded before VMStart, when the JVM can not load
\* it yet: it is loaded in a block whose thread has read the flag as true.
RuntimeIsLoadedAfterVMStart ==
    \A c \in RtClasses : class[c] # "unloaded" => enabled

\* A block that has begun ends, unless the JVM does: neither the hook that runs
\* inside of it, nor the hook of another thread that loads the class that it
\* needs, nor the sender keeps the thread in it.
EveryBlockEnds ==
    \A t \in Threads : []<>(pc[t] = "outside" \/ phase \in {"dead", "aborted"})
=============================================================================
