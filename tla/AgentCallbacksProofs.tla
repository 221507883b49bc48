------------------------ MODULE AgentCallbacksProofs ------------------------
(***************************************************************************)
(* The safety of the agent's callbacks, for every number of threads and    *)
(* classes.                                                                *)
(***************************************************************************)
EXTENDS AgentCallbacks, TLAPS

\* How the storage goes through the phases of the JVM.
StorageInv ==
    /\ phase = "onload" => allocated = {} /\ ~storage
    /\ phase \in {"primordial", "started"} =>
          storage /\ allocated = RawConf
    /\ phase = "dying" => storage
    /\ phase \in {"dying", "cleared", "dead"} => allocated = {"block"}
    /\ phase = "onload" => \A c \in Classes : class[c] = "unloaded"
    /\ phase = "onload" => \A t \in Threads : pc[t] = "idle"

\* Object is loaded in the primordial phase; VMStart depends on how.
ObjectInv ==
    /\ phase \in {"onload", "primordial"} => ~enabled
    /\ phase \in {"started", "dying", "cleared", "dead"} =>
          class[Object] \in {"plain", "instrumented"}
    /\ \A t \in Threads : pc[t] # "idle" =>
          /\ class[target[t]] = "loading"
          /\ \A u \in Threads \ {t} : pc[u] # "idle" => target[u] # target[t]

Inv ==
    /\ TypeOK /\ StorageInv /\ ObjectInv
    /\ HooksReadConfiguration /\ AbortHasCause /\ EnabledIffAmended
    /\ phase # "aborted" => abortedBy = "none"

LEMMA ObjectIsAClass == Object \in Classes
  BY CallbacksAssumption

LEMMA InvInit == Init => Inv
<1> SUFFICES ASSUME Init
             PROVE  Inv
  OBVIOUS
<1> USE DEF Init
<1>1. TypeOK
  BY ObjectIsAClass DEF TypeOK, Phases
<1>2. StorageInv
  BY DEF StorageInv, RawConf
<1>3. ObjectInv
  BY DEF ObjectInv
<1>4. HooksReadConfiguration /\ EnabledIffAmended
  BY DEF HooksReadConfiguration, EnabledIffAmended
<1>5. AbortHasCause
  BY DEF AbortHasCause
<1> QED
  BY <1>1, <1>2, <1>3, <1>4, <1>5 DEF Inv

LEMMA InvVMStart ==
  ASSUME Inv, VMStart
  PROVE  Inv'
<1> USE ObjectIsAClass DEF Inv, VMStart, options, memory, hook
<1>1. TypeOK'
  BY DEF TypeOK, Phases
<1>2. StorageInv'
  BY DEF StorageInv, RawConf
<1>3. ObjectInv'
  BY DEF ObjectInv
<1>4. HooksReadConfiguration'
  BY DEF HooksReadConfiguration, DeathHasBegun
<1>5. AbortHasCause' /\ EnabledIffAmended' /\ (phase # "aborted" => abortedBy = "none")'
  BY DEF AbortHasCause, EnabledIffAmended, ObjectInv
<1> QED
  BY <1>1, <1>2, <1>3, <1>4, <1>5

\* Agent_OnLoad, VMStart and VMDeath.
LEMMA InvAgentStep ==
  ASSUME Inv,
         \/ OnLoad \/ OnLoadPanics \/ VMStart
         \/ FreeExec \/ ClearStorage \/ VMDeathReturns
  PROVE  Inv'
<1> USE CallbacksAssumption DEF Inv, TypeOK, StorageInv, RawConf, ObjectInv, Phases,
      HooksReadConfiguration, DeathHasBegun, AbortHasCause, EnabledIffAmended,
      options, memory, hook
<1>1. CASE OnLoad
  BY <1>1 DEF OnLoad, InitStorage
<1>2. CASE OnLoadPanics
  BY <1>2 DEF OnLoadPanics, Abort
<1>3. CASE VMStart
  BY <1>3, InvVMStart
<1>4. CASE FreeExec
  BY <1>4 DEF FreeExec
<1>5. CASE ClearStorage
  <2> USE <1>5 DEF ClearStorage
  <2>1. TypeOK'
    OBVIOUS
  <2>2. StorageInv' /\ ObjectInv'
    OBVIOUS
  <2>3. HooksReadConfiguration' /\ AbortHasCause' /\ EnabledIffAmended'
    OBVIOUS
  <2> QED
    BY <2>1, <2>2, <2>3
<1>6. CASE VMDeathReturns
  BY <1>6 DEF VMDeathReturns
<1> QED
  BY <1>1, <1>2, <1>3, <1>4, <1>5, <1>6

\* A panic keeps the invariant if it has one of the known causes.
LEMMA InvAbort ==
  ASSUME Inv, Alive, NEW cause, Abort(cause),
         \/ cause = "storage" /\ allocated = {"block"} /\ (storage => exec = Path)
         \/ cause = "dump" /\ dumps
         \/ cause = "memory" /\ \E c \in Classes \ RtClasses : class[c] = "loading"
         \/ cause = "name" /\ \E c \in BadNames : class[c] = "loading"
  PROVE  Inv'
<1> USE DEF Inv, Abort, Alive, options, memory, hook
<1>1. TypeOK'
  BY DEF TypeOK, Phases
<1>2. StorageInv' /\ ObjectInv'
  BY DEF StorageInv, RawConf, ObjectInv
<1>3. HooksReadConfiguration' /\ EnabledIffAmended'
  BY DEF HooksReadConfiguration, DeathHasBegun, EnabledIffAmended
<1>4. AbortHasCause'
  BY DEF AbortHasCause
<1> QED
  BY <1>1, <1>2, <1>3, <1>4

\* ClassFileLoadHook, from its beginning to its return.
LEMMA InvBeginHook ==
  ASSUME Inv, NEW t \in Threads, NEW c \in Classes, BeginHook(t, c)
  PROVE  Inv'
<1> USE DEF Inv, BeginHook, HookPhases, options, memory
<1>1. TypeOK'
  <2>2. early' \subseteq Threads
    BY DEF TypeOK
  <2>3. class' \in [Classes -> {"unloaded", "loading", "plain", "instrumented"}]
    BY DEF TypeOK
  <2> QED
    BY <2>2, <2>3 DEF TypeOK
<1>2. StorageInv'
  BY DEF StorageInv, RawConf
<1>3. ObjectInv'
  <2>1. class[c] = "unloaded" /\ class' = [class EXCEPT ![c] = "loading"]
    OBVIOUS
  <2>2. \A u \in Threads \ {t} : pc'[u] = pc[u] /\ target'[u] = target[u]
    BY DEF TypeOK
  <2>3. pc[t] = "idle" /\ target'[t] = c /\ class'[c] = "loading"
    BY DEF TypeOK
  <2>4. \A u \in Threads \ {t} : pc[u] # "idle" =>
          target[u] \in Classes /\ target[u] # c /\ class'[target[u]] = "loading"
    BY <2>1 DEF ObjectInv, TypeOK
  <2>5. phase \in {"started", "dying", "cleared", "dead"} =>
          class'[Object] \in {"plain", "instrumented"}
    BY <2>1, ObjectIsAClass DEF ObjectInv, TypeOK
  <2> QED
    BY <2>2, <2>3, <2>4, <2>5 DEF ObjectInv
<1>4. HooksReadConfiguration'
  BY DEF HooksReadConfiguration, DeathHasBegun, TypeOK
<1>5. AbortHasCause' /\ EnabledIffAmended'
  BY ObjectIsAClass DEF AbortHasCause, EnabledIffAmended, ObjectInv, TypeOK
<1> QED
  BY <1>1, <1>2, <1>3, <1>4, <1>5

LEMMA InvGetPtr ==
  ASSUME Inv, NEW t \in Threads, GetPtr(t)
  PROVE  Inv'
<1>1. CASE ~storage
  <2>1. allocated = {"block"}
    BY <1>1 DEF GetPtr, Alive, Inv, StorageInv, RawConf, TypeOK, Phases
  <2> QED
    BY <1>1, <2>1, InvAbort DEF GetPtr
<1>2. CASE storage
  <2> USE <1>2 DEF Inv, GetPtr, jvm, options, memory
  <2>1. TypeOK'
    BY DEF TypeOK
  <2>2. StorageInv'
    BY DEF StorageInv, RawConf, TypeOK
  <2>3. ObjectInv'
    <3>1. pc[t] # "idle" /\ \A u \in Threads : pc'[u] # "idle" => pc[u] # "idle"
      BY DEF TypeOK
    <3>2. UNCHANGED <<phase, class, enabled, target>>
      OBVIOUS
    <3> QED
      BY <3>1, <3>2 DEF ObjectInv
  <2>4. HooksReadConfiguration'
    BY DEF HooksReadConfiguration, DeathHasBegun, TypeOK
  <2>5. AbortHasCause' /\ EnabledIffAmended'
    BY DEF AbortHasCause, EnabledIffAmended
  <2> QED
    BY <2>1, <2>2, <2>3, <2>4, <2>5
<1> QED
  BY <1>1, <1>2

LEMMA InvReadConf ==
  ASSUME Inv, NEW t \in Threads, ReadConf(t)
  PROVE  Inv'
<1> USE DEF Inv, ReadConf, jvm, options, memory
<1>1. PICK value \in {Path, NoPath, Garbage} :
         /\ conf' = [conf EXCEPT ![t] = value]
         /\ value = exec \/ phase \notin {"primordial", "started"}
  BY DEF TypeOK, StorageInv, RawConf, ExecIsFreed
<1>2. TypeOK'
  BY <1>1 DEF TypeOK
<1>3. StorageInv'
  BY DEF StorageInv, RawConf, TypeOK
<1>4. ObjectInv'
  <2>1. pc[t] # "idle" /\ \A u \in Threads : pc'[u] # "idle" => pc[u] # "idle"
    BY DEF TypeOK
  <2>2. UNCHANGED <<phase, class, enabled, target>>
    OBVIOUS
  <2> QED
    BY <2>1, <2>2 DEF ObjectInv
<1>5. HooksReadConfiguration'
  BY <1>1 DEF HooksReadConfiguration, DeathHasBegun, TypeOK, StorageInv, RawConf, Alive, Phases
<1>6. AbortHasCause' /\ EnabledIffAmended'
  BY DEF AbortHasCause, EnabledIffAmended
<1> QED
  BY <1>2, <1>3, <1>4, <1>5, <1>6

LEMMA InvReadConfCrashes ==
  ASSUME Inv, NEW t \in Threads, ReadConfCrashes(t)
  PROVE  Inv'
<1>1. pc[t] # "idle" /\ phase \in Phases \ {"aborted"} /\ allocated \subseteq {"block", "exec"}
  BY DEF ReadConfCrashes, Alive, Inv, TypeOK
<1>2. allocated = {"block"} /\ exec = Path
  BY <1>1 DEF ReadConfCrashes, ExecIsFreed, Inv, StorageInv, RawConf, Phases
<1> QED
  BY <1>2, InvAbort DEF ReadConfCrashes

LEMMA InvLoaded ==
  ASSUME Inv, Alive, NEW t \in Threads, NEW how \in {"plain", "instrumented"},
         pc[t] = "instrument", Loaded(t, how)
  PROVE  Inv'
<1> USE DEF Inv, Loaded, Alive, options, memory
<1>1. target[t] \in Classes /\ class[target[t]] = "loading"
  BY DEF TypeOK, ObjectInv
<1>2. \A c \in Classes : class'[c] = IF c = target[t] THEN how ELSE class[c]
  BY DEF TypeOK
<1>3. TypeOK'
  BY <1>1 DEF TypeOK
<1>4. StorageInv'
  BY DEF StorageInv, RawConf, TypeOK
<1>5. ObjectInv'
  <2>1. \A u \in Threads \ {t} : pc'[u] = pc[u]
    BY DEF TypeOK
  <2>2. pc'[t] = "idle"
    BY DEF TypeOK
  <2>3. \A u \in Threads \ {t} : pc[u] # "idle" => target[u] \in Classes /\ target[u] # target[t]
    BY DEF ObjectInv, TypeOK
  <2>4. phase \in {"started", "dying", "cleared", "dead"} =>
          class'[Object] \in {"plain", "instrumented"}
    BY <1>2, ObjectIsAClass DEF ObjectInv
  <2> QED
    BY <1>2, <2>1, <2>2, <2>3, <2>4 DEF ObjectInv
<1>6. HooksReadConfiguration'
  BY DEF HooksReadConfiguration, DeathHasBegun, TypeOK
<1>7. AbortHasCause'
  BY DEF AbortHasCause
<1>8. EnabledIffAmended'
  BY <1>1, <1>2, ObjectIsAClass DEF EnabledIffAmended, ObjectInv
<1> QED
  BY <1>3, <1>4, <1>5, <1>6, <1>7, <1>8

LEMMA InvNamePanics ==
  ASSUME Inv, NEW t \in Threads, NamePanics(t)
  PROVE  Inv'
<1>1. class[target[t]] = "loading" /\ target[t] \in BadNames
  BY DEF NamePanics, Inv, ObjectInv
<1> QED
  BY <1>1, InvAbort DEF NamePanics

LEMMA InvAllocateFails ==
  ASSUME Inv, NEW t \in Threads, AllocateFails(t)
  PROVE  Inv'
<1>1. class[target[t]] = "loading" /\ target[t] \in Classes \ RtClasses
  BY DEF AllocateFails, Inv, ObjectInv, TypeOK
<1> QED
  BY <1>1, InvAbort DEF AllocateFails

LEMMA InvHookStep ==
  ASSUME Inv, NEW t \in Threads, HookStep(t) \/ \E c \in Classes : BeginHook(t, c)
  PROVE  Inv'
<1>1. CASE Instrument(t)
  BY <1>1, InvLoaded, InvAbort DEF Instrument
<1> QED
  BY <1>1, InvBeginHook, InvGetPtr, InvReadConf, InvReadConfCrashes, InvNamePanics,
     InvAllocateFails DEF HookStep

LEMMA InvNext ==
  ASSUME Inv, [Next]_vars
  PROVE  Inv'
<1>1. CASE UNCHANGED vars
  <2> USE <1>1 DEF vars, options, memory, jvm, hook
  <2>1. TypeOK'
    BY DEF Inv, TypeOK
  <2>2. StorageInv' /\ ObjectInv'
    BY DEF Inv, StorageInv, RawConf, ObjectInv
  <2>3. HooksReadConfiguration' /\ AbortHasCause' /\ EnabledIffAmended'
    BY DEF Inv, HooksReadConfiguration, DeathHasBegun, AbortHasCause, EnabledIffAmended
  <2> QED
    BY <2>1, <2>2, <2>3 DEF Inv
<1> QED
  BY <1>1, InvAgentStep, InvHookStep DEF Next

\* The invariant holds in every reachable state of the callbacks.
THEOREM Invariance == Spec => []Inv
<1>1. Inv /\ [Next]_vars => Inv'
  BY InvNext
<1> QED
  BY <1>1, InvInit, PTL DEF Spec

\* The variables keep their types.
THEOREM TypeCorrect == Spec => []TypeOK
<1>1. Inv => TypeOK
  BY DEF Inv
<1> QED
  BY <1>1, Invariance, PTL

\* A hook that has read the storage before VMDeath has what Agent_OnLoad was given.
THEOREM HooksGetTheConfiguration == Spec => []HooksReadConfiguration
<1>1. Inv => HooksReadConfiguration
  BY DEF Inv
<1> QED
  BY <1>1, Invariance, PTL

\* The agent does not abort the JVM without one of the known causes.
THEOREM AbortsAreExplained == Spec => []AbortHasCause
<1>1. Inv => AbortHasCause
  BY DEF Inv
<1> QED
  BY <1>1, Invariance, PTL

\* Forwarding is enabled by VMStart exactly when Object has the amended methods.
THEOREM ForwardingNeedsAmendment == Spec => []EnabledIffAmended
<1>1. Inv => EnabledIffAmended
  BY DEF Inv
<1> QED
  BY <1>1, Invariance, PTL
=============================================================================
