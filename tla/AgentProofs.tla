----------------------------- MODULE AgentProofs -----------------------------
(***************************************************************************)
(* The whole agent implements both EventForwarding and AgentCallbacks,     *)
(* loads the runtime only after VMStart, and adds no circle of waits, for  *)
(* every number of threads, classes and blocks.                            *)
(***************************************************************************)
EXTENDS Agent, TLAPS

Types ==
    /\ phase \in C!Phases /\ enabled \in BOOLEAN
    /\ class \in [Classes -> {"unloaded", "loading", "plain", "instrumented"}]
    /\ hookPc \in [Threads -> {"idle", "get", "read", "instrument"}]
    /\ target \in [Threads -> Classes]
    /\ pc \in [Threads -> F!PCs]

\* The flag is set by VMStart; hooks run after Agent_OnLoad.
LifeInv ==
    /\ phase \in {"onload", "primordial"} => ~enabled
    /\ abortedBy # "none" => phase = "aborted"
    /\ \A t \in Threads : hookPc[t] # "idle" =>
          phase # "onload" /\ class[target[t]] # "unloaded"

\* Why the runtime is loaded late: a thread that needs it has read the flag.
LoadInv ==
    /\ \A t \in Threads : pc[t] \in {"counting", "locking", "sending", "countingExit"} => enabled
    /\ RuntimeIsLoadedAfterVMStart

Inv == Types /\ LifeInv /\ LoadInv

LEMMA InvInit == Init => Inv
<1> SUFFICES ASSUME Init PROVE Inv
  OBVIOUS
<1> USE AgentAssumption DEF Init, C!Init, F!Init
<1>1. Types
  BY DEF Types, C!Phases, F!PCs
<1>2. LifeInv /\ LoadInv
  BY DEF LifeInv, LoadInv, RuntimeIsLoadedAfterVMStart
<1> QED
  BY <1>1, <1>2 DEF Inv

\* What the callbacks leave alone.
LEMMA ForwardingUnchanged ==
  ASSUME UNCHANGED forwarding
  PROVE  /\ UNCHANGED <<channel, lock, pending, received, enters, exits,
                        pc, monitor, owner, loops, recorded>>
         /\ UNCHANGED <<F!queue, F!counters, F!app>>
  BY DEF forwarding, F!queue, F!counters, F!app

LEMMA Stutter ==
  ASSUME UNCHANGED forwarding, UNCHANGED <<forwardingPhase, enabled>>
  PROVE  UNCHANGED F!vars
  BY ForwardingUnchanged DEF F!vars, F!agent

\* Agent_OnLoad is the start of the worker, VMStart the enabling, or the end.
LEMMA StartupStep ==
  ASSUME Inv, OnLoad \/ OnLoadPanics \/ VMStart
  PROVE  Inv' /\ [F!Next]_F!vars
<1> USE DEF Inv, Types, LifeInv, LoadInv, RuntimeIsLoadedAfterVMStart, C!Phases,
      C!options, C!memory, C!hook
<1>1. CASE OnLoad
  <2>1. Inv'
    BY <1>1 DEF OnLoad, C!OnLoad, F!StartForwardingWorker, F!app
  <2>2. F!Next
    BY <1>1 DEF OnLoad, F!Next
  <2> QED
    BY <2>1, <2>2
<1>2. CASE OnLoadPanics
  <2> USE <1>2, ForwardingUnchanged DEF OnLoadPanics, C!OnLoadPanics, C!Abort
  <2>1. Inv'
    OBVIOUS
  <2>2. UNCHANGED forwardingPhase
    BY DEF forwardingPhase
  <2> QED
    BY <2>1, <2>2, Stutter
<1>3. CASE VMStart
  <2> USE <1>3, ForwardingUnchanged DEF VMStart, C!VMStart
  <2>1. Inv'
    OBVIOUS
  <2>2. forwardingPhase = "primordial"
    BY DEF forwardingPhase
  <2>3. CASE phase' = "aborted"
    <3>1. forwardingPhase' = "exited" /\ enabled' = enabled
      BY <2>3 DEF forwardingPhase
    <3> QED
      BY <2>1, <2>2, <3>1 DEF F!Next, F!JvmExits, F!Running
  <2>4. CASE phase' = "started" /\ enabled'
    <3>1. forwardingPhase' = "started"
      BY <2>4 DEF forwardingPhase
    <3> QED
      BY <2>1, <2>2, <2>4, <3>1 DEF F!Next, F!EnableInstrumentation
  <2>5. CASE phase' = "started" /\ ~enabled'
    <3>1. UNCHANGED <<forwardingPhase, enabled>>
      BY <2>2, <2>5 DEF forwardingPhase
    <3> QED
      BY <2>1, <3>1, Stutter
  <2> QED
    BY <2>3, <2>4, <2>5
<1> QED
  BY <1>1, <1>2, <1>3

\* Forwarding does not notice VMDeath until the process ends.
LEMMA VMDeathStep ==
  ASSUME Inv, VMDeath
  PROVE  Inv' /\ [F!Next]_F!vars
<1> USE ForwardingUnchanged DEF VMDeath, Inv, Types, LifeInv, LoadInv,
      RuntimeIsLoadedAfterVMStart, C!Phases, C!options, C!memory, C!hook
<1>1. CASE C!FreeExec \/ C!ClearStorage
  <2> USE <1>1 DEF C!FreeExec, C!ClearStorage
  <2>1. Inv'
    OBVIOUS
  <2>2. UNCHANGED <<forwardingPhase, enabled>>
    BY DEF forwardingPhase
  <2> QED
    BY <2>1, <2>2, Stutter
<1>2. CASE C!VMDeathReturns
  <2> USE <1>2 DEF C!VMDeathReturns
  <2>1. Inv'
    OBVIOUS
  <2>2. /\ forwardingPhase \in {"primordial", "started"}
        /\ forwardingPhase' = "exited" /\ enabled' = enabled
    BY DEF forwardingPhase
  <2> QED
    BY <2>1, <2>2 DEF F!Next, F!JvmExits, F!Running
<1> QED
  BY <1>1, <1>2

LEMMA BeginHookStep ==
  ASSUME Inv, NEW t \in Threads, NEW c \in Classes, BeginHook(t, c)
  PROVE  Inv' /\ [F!Next]_F!vars
<1> USE ForwardingUnchanged DEF BeginHook, C!BeginHook, C!HookPhases, C!options, C!memory
<1>1. UNCHANGED <<forwardingPhase, enabled>>
  BY DEF forwardingPhase
<1>2. Types'
  BY DEF Inv, Types
<1>3. LifeInv'
  BY DEF Inv, Types, LifeInv
<1>4. LoadInv'
  BY DEF Inv, Types, LoadInv, LoadsClass, RuntimeIsLoadedAfterVMStart
<1> QED
  BY <1>1, <1>2, <1>3, <1>4, Stutter DEF Inv

\* A panic in a hook is the end of the JVM.
LEMMA HookAborts ==
  ASSUME Inv, NEW t \in Threads, hookPc[t] # "idle", C!Alive,
         NEW cause \in {"storage", "dump", "memory", "name"}, C!Abort(cause),
         UNCHANGED forwarding
  PROVE  Inv' /\ [F!Next]_F!vars
<1> USE ForwardingUnchanged DEF C!Alive, C!Abort, C!options, C!memory, C!hook,
      Inv, Types, LifeInv, LoadInv, RuntimeIsLoadedAfterVMStart, C!Phases
<1>1. Inv'
  OBVIOUS
<1>2. /\ forwardingPhase \in {"primordial", "started", "exited"}
      /\ forwardingPhase' = "exited" /\ enabled' = enabled
  BY DEF forwardingPhase
<1>3. CASE forwardingPhase = "exited"
  BY <1>1, <1>2, <1>3, Stutter
<1>4. CASE forwardingPhase # "exited"
  BY <1>1, <1>2, <1>4 DEF F!Next, F!JvmExits, F!Running
<1> QED
  BY <1>3, <1>4

LEMMA HookStepStep ==
  ASSUME Inv, NEW t \in Threads, HookStep(t)
  PROVE  Inv' /\ [F!Next]_F!vars
<1> USE ForwardingUnchanged DEF HookStep, C!options, C!memory, C!jvm
<1>1. ASSUME UNCHANGED <<phase, enabled, abortedBy, target>>, hookPc[t] # "idle",
             NEW to \in {"idle", "get", "read", "instrument"},
             hookPc' = [hookPc EXCEPT ![t] = to],
             \/ class' = class
             \/ \E how \in {"plain", "instrumented"} :
                   class' = [class EXCEPT ![target[t]] = how]
      PROVE  Inv' /\ [F!Next]_F!vars
  <2>1. UNCHANGED <<forwardingPhase, enabled>>
    BY <1>1 DEF forwardingPhase
  <2>2. Types'
    BY <1>1 DEF Inv, Types
  <2>3. \A c \in Classes : class'[c] = "unloaded" <=> class[c] = "unloaded"
    BY <1>1 DEF Inv, Types, LifeInv
  <2>4. LifeInv'
    BY <1>1, <2>3 DEF Inv, Types, LifeInv
  <2>5. LoadInv'
    BY <1>1, <2>3, AgentAssumption DEF Inv, Types, LoadInv, RuntimeIsLoadedAfterVMStart
  <2> QED
    BY <2>1, <2>2, <2>4, <2>5, Stutter DEF Inv
<1>2. CASE C!GetPtr(t)
  BY <1>1, <1>2, HookAborts DEF C!GetPtr
<1>3. CASE C!ReadConf(t)
  BY <1>1, <1>3 DEF C!ReadConf
<1>4. CASE C!ReadConfCrashes(t)
  BY <1>4, HookAborts DEF C!ReadConfCrashes
<1>5. CASE C!NamePanics(t)
  BY <1>5, HookAborts DEF C!NamePanics
<1>6. CASE C!AllocateFails(t)
  BY <1>6, HookAborts DEF C!AllocateFails
<1>7. CASE C!Instrument(t)
  <2>1. C!Loaded(t, "plain") \/ C!Loaded(t, "instrumented") \/ C!Abort("dump")
    BY <1>7 DEF C!Instrument
  <2>2. C!Alive /\ hookPc[t] # "idle"
    BY <1>7 DEF C!Instrument
  <2>3. CASE C!Loaded(t, "plain")
    BY <1>1, <2>2, <2>3 DEF C!Loaded
  <2>4. CASE C!Loaded(t, "instrumented")
    BY <1>1, <2>2, <2>4 DEF C!Loaded
  <2> QED
    BY <2>1, <2>2, <2>3, <2>4, HookAborts
<1> QED
  BY <1>2, <1>3, <1>4, <1>5, <1>6, <1>7 DEF C!HookStep

\* A step of a block is one of EventForwarding, and so is the worker's.
LEMMA ForwardingStep ==
  ASSUME Inv, Receive \/ \E t \in Threads : BlockStep(t)
  PROVE  Inv' /\ [F!Next]_F!vars
<1>1. CASE Receive
  <2>1. F!Next
    BY <1>1 DEF Receive, F!Next
  <2>2. Inv'
    BY <1>1 DEF Receive, callbacks, F!Receive, F!app, Inv, Types, LifeInv, LoadInv,
                RuntimeIsLoadedAfterVMStart
  <2> QED
    BY <2>1, <2>2
<1>2. ASSUME NEW t \in Threads, BlockStep(t) PROVE Inv' /\ [F!Next]_F!vars
  <2>1. F!Next
    BY <1>2 DEF BlockStep, F!Next
  <2>2. /\ UNCHANGED <<class, enabled, hookPc, target>>
        /\ \/ UNCHANGED <<phase, abortedBy>>
           \/ phase' = "aborted" /\ abortedBy' = "send"
    BY <1>2 DEF BlockStep, callbacks, C!Abort, C!options, C!memory, C!hook
  <2>3. PICK to \in F!PCs :
           /\ pc' = [pc EXCEPT ![t] = to]
           /\ to \in {"counting", "countingExit"} => enabled
           /\ to \in {"locking", "sending"} =>
                 pc[t] \in {"counting", "locking", "sending", "countingExit"}
    BY <1>2 DEF BlockStep, F!ThreadStep, F!CheckEnter, F!CountEnter, F!LockChannel, F!Send,
                F!MonitorEnter, F!CheckExit, F!CountExit, F!MonitorExit, F!Goto, F!PCs
  <2>4. Types' /\ LifeInv'
    BY <2>2, <2>3 DEF Inv, Types, LifeInv, C!Phases
  <2>5. LoadInv'
    BY <2>2, <2>3 DEF Inv, Types, LoadInv, RuntimeIsLoadedAfterVMStart
  <2> QED
    BY <2>1, <2>4, <2>5 DEF Inv
<1> QED
  BY <1>1, <1>2

LEMMA Step ==
  ASSUME Inv, [Next]_vars
  PROVE  Inv' /\ [F!Next]_F!vars
<1>1. CASE UNCHANGED vars
  <2>1. UNCHANGED forwarding /\ UNCHANGED <<forwardingPhase, enabled>>
    BY <1>1 DEF vars, callbacks, forwardingPhase
  <2>2. Inv'
    BY <1>1, <2>1, ForwardingUnchanged
    DEF vars, callbacks, Inv, Types, LifeInv, LoadInv, RuntimeIsLoadedAfterVMStart
  <2> QED
    BY <2>1, <2>2, Stutter
<1> QED
  BY <1>1, StartupStep, VMDeathStep, BeginHookStep, HookStepStep, ForwardingStep DEF Next

-----------------------------------------------------------------------------
(* The theorems.                                                           *)

\* The invariant holds in every reachable state of the agent.
THEOREM Invariance == Spec => []Inv
<1>1. Inv /\ [Next]_vars => Inv'
  BY Step
<1> QED
  BY <1>1, InvInit, PTL DEF Spec

\* The runtime is loaded only after VMStart has enabled forwarding.
THEOREM RuntimeIsLoadedLate == Spec => []RuntimeIsLoadedAfterVMStart
<1>1. Inv => RuntimeIsLoadedAfterVMStart
  BY DEF Inv, LoadInv
<1> QED
  BY <1>1, Invariance, PTL

\* Every step of the agent is a step of EventForwarding, or leaves it alone.
THEOREM AgentImplementsForwarding == Spec => ImplementsForwarding
<1>1. Init => F!Init
  BY DEF Init
<1>2. Inv /\ [Next]_vars => [F!Next]_F!vars
  BY Step
<1> QED
  BY <1>1, <1>2, Invariance, PTL DEF Spec, ImplementsForwarding, F!Spec
-----------------------------------------------------------------------------
(* The hooks in the composed agent.                                        *)

\* A class that is being loaded has one hook, which runs where LoadsClass says.
HookInv ==
    /\ \A t \in Threads : hookPc[t] # "idle" =>
          /\ class[target[t]] = "loading" /\ LoadsClass(t, target[t])
          /\ \A u \in Threads \ {t} : hookPc[u] # "idle" => target[u] # target[t]
    /\ \A c \in Classes : class[c] = "loading" =>
          \E t \in Threads : hookPc[t] # "idle" /\ target[t] = c
    /\ \A c \in RtClasses : class[c] # "instrumented"

\* What Agent_OnLoad and VMStart leave behind.
StartedInv ==
    /\ phase = "primordial" => channel
    /\ enabled =>
          channel /\ class[Object] = "instrumented" /\ phase \notin {"onload", "primordial"}

LEMMA CallbacksInit == Init => HookInv /\ StartedInv
  BY AgentAssumption DEF Init, C!Init, F!Init, HookInv, StartedInv

LEMMA CallbacksOnLoadVMStart ==
  ASSUME Inv, HookInv, StartedInv, OnLoad \/ OnLoadPanics \/ VMStart
  PROVE  HookInv' /\ StartedInv'
<1> USE AgentAssumption, ForwardingUnchanged DEF Inv, Types, LifeInv, HookInv, StartedInv, LoadsClass,
      C!options, C!memory, C!hook, F!app
<1>1. CASE OnLoad
  BY <1>1 DEF OnLoad, C!OnLoad, F!StartForwardingWorker
<1>2. CASE OnLoadPanics
  BY <1>2 DEF OnLoadPanics, C!OnLoadPanics, C!Abort
<1>3. CASE VMStart
  <2>1. UNCHANGED <<class, hookPc, target, pc>>
    BY <1>3 DEF VMStart, C!VMStart
  <2>2. HookInv'
    BY <2>1
  <2> USE <1>3 DEF VMStart, C!VMStart
  <2>3. phase' # "primordial" /\ UNCHANGED <<channel, class>>
    OBVIOUS
  <2>4. enabled' => class[Object] = "instrumented" /\ phase' = "started"
    OBVIOUS
  <2>5. channel
    OBVIOUS
  <2>6. StartedInv'
    BY <2>3, <2>4, <2>5
  <2> QED
    BY <2>2, <2>6
<1> QED
  BY <1>1, <1>2, <1>3

LEMMA CallbacksVMDeath ==
  ASSUME Inv, HookInv, StartedInv, VMDeath
  PROVE  HookInv' /\ StartedInv'
  BY ForwardingUnchanged DEF VMDeath, C!FreeExec, C!ClearStorage, C!VMDeathReturns,
     Inv, Types, HookInv, StartedInv, LoadsClass, C!options, C!memory, C!hook

LEMMA CallbacksBeginHook ==
  ASSUME Inv, HookInv, StartedInv, NEW t \in Threads, NEW c \in Classes, BeginHook(t, c)
  PROVE  HookInv' /\ StartedInv'
<1> USE AgentAssumption, ForwardingUnchanged DEF BeginHook, C!BeginHook, C!options, C!memory,
      Inv, Types, HookInv
<1>1. HookInv'
  BY DEF LoadsClass
<1>2. StartedInv'
  BY DEF StartedInv
<1> QED
  BY <1>1, <1>2

LEMMA CallbacksHookStep ==
  ASSUME Inv, HookInv, StartedInv, NEW t \in Threads, HookStep(t)
  PROVE  HookInv' /\ StartedInv'
<1> USE AgentAssumption, ForwardingUnchanged DEF HookStep, Inv, Types, HookInv, StartedInv, LoadsClass,
      C!options, C!memory, C!jvm, C!hook
<1>1. CASE C!GetPtr(t) \/ C!ReadConf(t)
  BY <1>1 DEF C!GetPtr, C!ReadConf, C!Abort
<1>2. CASE C!ReadConfCrashes(t) \/ C!NamePanics(t) \/ C!AllocateFails(t)
  BY <1>2 DEF C!ReadConfCrashes, C!NamePanics, C!AllocateFails, C!Abort
<1>3. CASE C!Instrument(t) /\ C!Abort("dump")
  BY <1>3 DEF C!Abort
<1>4. ASSUME NEW how \in {"plain", "instrumented"}, C!Loaded(t, how), hookPc[t] # "idle",
             how = "instrumented" => target[t] \notin RtClasses
      PROVE  HookInv' /\ StartedInv'
  <2>1. HookInv'
    BY <1>4 DEF C!Loaded
  <2>2. StartedInv'
    BY <1>4 DEF C!Loaded
  <2> QED
    BY <2>1, <2>2
<1> QED
  BY <1>1, <1>2, <1>3, <1>4 DEF C!HookStep, C!Instrument

\* A block goes on only while its thread runs no hook.
LEMMA CallbacksBlockStep ==
  ASSUME Inv, HookInv, StartedInv, Receive \/ \E t \in Threads : BlockStep(t)
  PROVE  /\ HookInv' /\ StartedInv'
         /\ UNCHANGED <<callbacks, enabled>>
<1>1. CASE Receive
  BY <1>1 DEF Receive, callbacks, F!Receive, F!app, F!agent, HookInv, StartedInv, LoadsClass
<1>2. ASSUME NEW t \in Threads, BlockStep(t)
      PROVE  HookInv' /\ StartedInv' /\ UNCHANGED <<callbacks, enabled>>
  <2>1. UNCHANGED <<callbacks, enabled>>
    BY <1>2 DEF BlockStep, NativeMethodPanics, Inv, LoadInv, StartedInv
  <2>2. UNCHANGED channel /\ \A u \in Threads \ {t} : pc'[u] = pc[u]
    BY <1>2 DEF Inv, Types, BlockStep, F!ThreadStep, F!CheckEnter, F!CountEnter, F!LockChannel, F!Send,
       F!MonitorEnter, F!CheckExit, F!CountExit, F!MonitorExit, F!Goto, F!agent
  <2>3. hookPc[t] = "idle"
    BY <1>2 DEF BlockStep
  <2>4. HookInv'
    BY <2>1, <2>2, <2>3 DEF callbacks, HookInv, LoadsClass
  <2> QED
    BY <2>1, <2>2, <2>4 DEF callbacks, StartedInv
<1> QED
  BY <1>1, <1>2

LEMMA CallbacksNext ==
  ASSUME Inv, HookInv, StartedInv, [Next]_vars
  PROVE  HookInv' /\ StartedInv' /\ [C!Next]_C!vars
<1>1. CASE UNCHANGED vars
  BY <1>1 DEF vars, callbacks, forwarding, HookInv, StartedInv, LoadsClass, C!vars, C!options, C!memory,
     C!jvm, C!hook
<1>2. CASE OnLoad \/ OnLoadPanics \/ VMStart
  BY <1>2, CallbacksOnLoadVMStart DEF OnLoad, OnLoadPanics, VMStart, C!Next
<1>3. CASE VMDeath
  BY <1>3, CallbacksVMDeath DEF VMDeath, C!Next
<1>4. ASSUME NEW t \in Threads, HookStep(t) \/ \E c \in Classes : BeginHook(t, c)
      PROVE  HookInv' /\ StartedInv' /\ [C!Next]_C!vars
  BY <1>4, CallbacksHookStep, CallbacksBeginHook DEF HookStep, BeginHook, C!Next
<1>5. CASE Receive \/ \E t \in Threads : BlockStep(t)
  <2>1. UNCHANGED C!vars
    BY <1>5, CallbacksBlockStep DEF callbacks, C!vars, C!options, C!memory, C!jvm, C!hook
  <2> QED
    BY <1>5, <2>1, CallbacksBlockStep
<1> QED
  BY <1>1, <1>2, <1>3, <1>4, <1>5 DEF Next

LEMMA CallbacksInvariance == Spec => [](HookInv /\ StartedInv)
<1>1. Inv /\ HookInv /\ StartedInv /\ [Next]_vars => HookInv' /\ StartedInv'
  BY CallbacksNext
<1> QED
  BY <1>1, CallbacksInit, Invariance, PTL DEF Spec

\* Every step of the agent is also one of AgentCallbacks, or leaves the hooks alone: no
\* native method ever panics for want of the channel, which nothing else would explain.
THEOREM AgentImplementsCallbacks == Spec => C!Spec
<1>1. Init => C!Init
  BY DEF Init
<1>2. Inv /\ HookInv /\ StartedInv /\ [Next]_vars => [C!Next]_C!vars
  BY CallbacksNext
<1> QED
  BY <1>1, <1>2, CallbacksInvariance, Invariance, PTL DEF Spec, C!Spec

-----------------------------------------------------------------------------
(* Who waits for whom.                                                     *)

InBody == {"inside", "countingExit", "exiting"}

\* The sender and the monitors are held where threads use them.
HolderInv ==
    /\ lock \in Threads \union {NoThread} /\ \A t \in Threads : pc[t] = "sending" <=> lock = t
    /\ monitor \in [Threads -> Monitors] /\ owner \in [Monitors -> Threads \union {NoThread}]
    /\ \A m \in Monitors, t \in Threads : owner[m] = t <=> monitor[t] = m /\ pc[t] \in InBody

LEMMA HolderInit == Init => HolderInv
  BY AgentAssumption DEF Init, F!Init, HolderInv, InBody

LEMMA HolderThreadStep ==
  ASSUME Inv, HolderInv, NEW t \in Threads, F!ThreadStep(t)
  PROVE  HolderInv'
<1> USE AgentAssumption DEF Inv, Types, HolderInv, InBody, F!Goto, F!queue
<1>1. CASE F!CheckEnter(t)
  BY <1>1 DEF F!CheckEnter
<1>2. CASE F!CountEnter(t)
  BY <1>2 DEF F!CountEnter
<1>3. CASE F!LockChannel(t)
  BY <1>3 DEF F!LockChannel
<1>4. CASE F!Send(t)
  BY <1>4 DEF F!Send
<1>5. CASE F!MonitorEnter(t)
  BY <1>5 DEF F!MonitorEnter
<1>6. CASE F!CheckExit(t) \/ F!CountExit(t)
  BY <1>6 DEF F!CheckExit, F!CountExit
<1>7. CASE F!MonitorExit(t)
  BY <1>7 DEF F!MonitorExit
<1> QED
  BY <1>1, <1>2, <1>3, <1>4, <1>5, <1>6, <1>7 DEF F!ThreadStep

LEMMA HolderNext ==
  ASSUME Inv, HolderInv, [Next]_vars
  PROVE  HolderInv'
<1>1. CASE UNCHANGED <<lock, pc, monitor, owner>>
  BY <1>1 DEF HolderInv
<1>2. CASE \E t \in Threads : BlockStep(t)
  BY <1>2, HolderThreadStep DEF BlockStep
<1>3. [Next]_vars /\ ~(\E t \in Threads : BlockStep(t)) => UNCHANGED <<lock, pc, monitor, owner>>
  BY DEF Next, vars, OnLoad, OnLoadPanics, VMStart, VMDeath, Receive, HookStep, BeginHook, forwarding,
     F!StartForwardingWorker, F!Receive, F!queue, F!app
<1> QED
  BY <1>1, <1>2, <1>3

\* t goes on only after u has: with the sender, with a monitor, or with a class of
\* the runtime that u loads.
WaitsFor(t, u) ==
    /\ hookPc[t] = "idle"
    /\ \/ pc[t] = "locking" /\ lock = u
       \/ pc[t] = "entering" /\ owner[monitor[t]] = u
       \/ /\ pc[t] \in {"counting", "countingExit"}
          /\ hookPc[u] # "idle" /\ target[u] \in RtClasses

Level(t) ==
    IF hookPc[t] # "idle" THEN 0
    ELSE IF pc[t] \in {"locking", "entering"} THEN 2
    ELSE 1

\* The conditions under which a thread in a block goes on: with its hook, with the
\* loading of a class of the runtime, or with the block.
MayStep(t) ==
    \/ hookPc[t] # "idle"
    \/ /\ pc[t] \in {"counting", "countingExit"} /\ phase \in C!HookPhases
       /\ class[Object] = "instrumented"
       /\ \E c \in RtClasses : class[c] = "unloaded"
    \/ /\ pc[t] = "locking" => lock = NoThread
       /\ pc[t] = "entering" => owner[monitor[t]] = NoThread
       /\ pc[t] \in {"counting", "countingExit"} => RuntimeIsLoaded

\* A thread in a block may go on or waits for another one, and nobody waits in a circle.
NoCircleOfWaits ==
    /\ phase \notin {"dead", "aborted"} => \A t \in Threads :
          pc[t] # "outside" => MayStep(t) \/ \E u \in Threads : WaitsFor(t, u)
    /\ \A t, u \in Threads : WaitsFor(t, u) => Level(u) < Level(t)

\* Hooks that load classes inside of blocks, the channel of the recorder and the monitors
\* of the application never make threads wait for each other in a circle.
THEOREM NoBlockDeadlocks == Spec => []NoCircleOfWaits
<1>1. Inv /\ HookInv /\ StartedInv /\ HolderInv => NoCircleOfWaits
  <2> SUFFICES ASSUME Inv, HookInv, StartedInv, HolderInv PROVE NoCircleOfWaits
    OBVIOUS
  <2>1. ASSUME phase \notin {"dead", "aborted"}, NEW t \in Threads, pc[t] # "outside", ~MayStep(t)
        PROVE  \E u \in Threads : WaitsFor(t, u)
    <3>1. hookPc[t] = "idle"
      BY <2>1 DEF MayStep
    <3>2. CASE pc[t] = "locking" \/ pc[t] = "entering"
      BY <2>1, <3>1, <3>2 DEF MayStep, WaitsFor, HolderInv
    <3>3. CASE pc[t] \in {"counting", "countingExit"}
      <4>1. enabled /\ phase \in C!HookPhases /\ class[Object] = "instrumented"
        BY <2>1, <3>3 DEF Inv, Types, LoadInv, StartedInv, C!Phases, C!HookPhases
      <4>2. PICK c \in RtClasses : class[c] # "plain"
        BY <2>1, <3>3 DEF MayStep, RuntimeIsLoaded
      <4>3. class[c] # "unloaded" /\ c \in Classes
        BY <2>1, <3>3, <4>1, AgentAssumption DEF MayStep
      <4>4. class[c] = "loading"
        BY <4>2, <4>3 DEF Inv, Types, HookInv
      <4>5. PICK u \in Threads : hookPc[u] # "idle" /\ target[u] = c
        BY <4>3, <4>4 DEF HookInv
      <4> QED
        BY <3>1, <3>3, <4>5 DEF WaitsFor
    <3> QED
      BY <2>1, <3>2, <3>3 DEF MayStep
  <2>2. ASSUME NEW t \in Threads, NEW u \in Threads, WaitsFor(t, u)
        PROVE  Level(u) < Level(t)
    <3>1. CASE pc[t] = "locking" /\ lock = u
      BY <2>2, <3>1 DEF WaitsFor, Level, HolderInv
    <3>2. CASE pc[t] = "entering" /\ owner[monitor[t]] = u
      BY <2>2, <3>2 DEF WaitsFor, Level, HolderInv, InBody
    <3>3. CASE pc[t] \in {"counting", "countingExit"} /\ hookPc[u] # "idle"
      BY <2>2, <3>3 DEF WaitsFor, Level
    <3> QED
      BY <2>2, <3>1, <3>2, <3>3 DEF WaitsFor
  <2> QED
    BY <2>1, <2>2 DEF NoCircleOfWaits
<1>2. Inv /\ HolderInv /\ [Next]_vars => HolderInv'
  BY HolderNext
<1> QED
  BY <1>1, <1>2, HolderInit, CallbacksInvariance, Invariance, PTL DEF Spec
=============================================================================
