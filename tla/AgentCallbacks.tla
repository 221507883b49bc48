--------------------------- MODULE AgentCallbacks ---------------------------
(***************************************************************************)
(* The JVMTI side of the PhasicJ agent: Agent_OnLoad                       *)
(* (agent/jvm/entrypoints.rs, agent/agent.rs, agent/jvm/setup.rs), the     *)
(* callbacks VMStart, ClassFileLoadHook and VMDeath (agent/jvm/events.rs), *)
(* and the storage they share (agent/jvm/env_storage.rs).                  *)
(*                                                                         *)
(* The JVM calls ClassFileLoadHook in any thread that loads a class, also  *)
(* while VMDeath runs in another one, and does not wait for the hooks that *)
(* are running when VMDeath returns.  A panic in a callback aborts the JVM.*)
(***************************************************************************)
EXTENDS FiniteSets

CONSTANTS
    Threads,     \* threads of the JVM that load classes
    Classes,     \* the classes they load
    Object,      \* java.lang.Object
    RtClasses,   \* classes of the runtime, phasicj.agent.rt
    BadNames,    \* classes with no name, or a name that is no UTF-8
    Path,        \* the configured `phasicj_exec`
    NoPath,      \* `phasicj_exec` is not configured
    Garbage      \* what freed memory may be read as

ASSUME CallbacksAssumption ==
    /\ Object \in Classes /\ RtClasses \subseteq Classes \ {Object}
    /\ BadNames \subseteq Classes \ (RtClasses \union {Object})
    /\ Cardinality({Path, NoPath, Garbage}) = 3

VARIABLES
    phase,       \* of the JVM, seen from the agent
    exec,        \* the `phasicj_exec` option
    dumps,       \* is dumping of class files configured?
    storage,     \* is the environment-local storage pointer set?
    allocated,   \* memory from JVMTI for the storage, not deallocated
    class,       \* how each class was loaded
    enabled,     \* was Object.phasicj$agent$rt$enableInstrumentation() called?
    abortedBy,   \* the panic that aborted the JVM
    pc,          \* where the hook in each thread is
    target,      \* the class the thread loads
    early,       \* the threads whose last hook began before VMDeath did
    conf         \* the `phasicj_exec` that the hook has read

options == <<exec, dumps>>
memory  == <<storage, allocated>>
jvm     == <<phase, class, enabled, abortedBy>>
hook    == <<pc, target, early, conf>>
vars    == <<options, memory, jvm, hook>>

Phases == {"onload", "primordial", "started", "dying", "cleared", "dead", "aborted"}
\* In these the JVM posts ClassFileLoadHook events.
HookPhases == {"primordial", "started", "dying", "cleared"}

Init ==
    /\ phase = "onload"
    /\ exec \in {Path, NoPath} /\ dumps \in BOOLEAN
    /\ storage = FALSE /\ allocated = {}
    /\ class = [c \in Classes |-> "unloaded"]
    /\ enabled = FALSE
    /\ abortedBy = "none"
    /\ pc = [t \in Threads |-> "idle"]
    /\ target = [t \in Threads |-> Object]
    /\ early = {}
    /\ conf = [t \in Threads |-> NoPath]

Abort(cause) ==
    /\ phase' = "aborted" /\ abortedBy' = cause
    /\ UNCHANGED <<class, enabled, options, memory, hook>>

-----------------------------------------------------------------------------
(* Startup.                                                                *)

\* Variant: the storage keeps a pointer into the caller's configuration, which
\* is dropped when Agent_OnLoad returns.
OnLoadWithoutCopy ==
    /\ phase = "onload"
    /\ phase' = "primordial"
    /\ storage' = TRUE
    /\ allocated' = {"block"}
    /\ UNCHANGED <<options, class, enabled, abortedBy, hook>>

\* The string is copied; a null pointer stands for one that is not configured.
RawConf == {"block"} \union (IF exec = Path THEN {"exec"} ELSE {})

\* EnvStorage::init().
InitStorage == storage' = TRUE /\ allocated' = RawConf

\* The storage is initialized before the callbacks and events are set.
OnLoad ==
    /\ phase = "onload"
    /\ phase' = "primordial"
    /\ InitStorage
    /\ UNCHANGED <<options, class, enabled, abortedBy, hook>>

\* Options that cannot be parsed, a capability or the runtime's JAR file that
\* is missing, or a second -agentpath option for this agent.
OnLoadPanics == phase = "onload" /\ Abort("startup")

\* Variant: VM_START is not among the enabled events.
VMStartNotPosted ==
    /\ phase = "primordial"
    /\ class[Object] \in {"plain", "instrumented"}
    /\ phase' = "started"
    /\ UNCHANGED <<class, enabled, abortedBy, options, memory, hook>>

\* The method was amended to Object when Object was loaded.  If it was not,
\* its ID is null; what the JVM does when it is called is undefined.
VMStart ==
    /\ phase = "primordial"
    /\ class[Object] \in {"plain", "instrumented"}
    /\ \/ /\ phase' = "started"
          /\ enabled' = (class[Object] = "instrumented")
          /\ UNCHANGED abortedBy
       \/ /\ class[Object] = "plain"
          /\ phase' = "aborted" /\ abortedBy' = "null method"
          /\ UNCHANGED enabled
    /\ UNCHANGED <<class, options, memory, hook>>

-----------------------------------------------------------------------------
(* VMDeath calls EnvStorage::free().                                       *)

FreeExec ==
    /\ phase = "started"
    /\ phase' = "dying"
    /\ allocated' = allocated \ {"exec"}
    /\ UNCHANGED <<storage, class, enabled, abortedBy, options, hook>>

\* The outer block is not deallocated.
ClearStorage ==
    /\ phase = "dying"
    /\ phase' = "cleared"
    /\ storage' = FALSE
    /\ UNCHANGED <<allocated, class, enabled, abortedBy, options, hook>>

\* The JVM posts no event any more.
VMDeathReturns ==
    /\ phase = "cleared"
    /\ phase' = "dead"
    /\ UNCHANGED <<class, enabled, abortedBy, options, memory, hook>>

-----------------------------------------------------------------------------
(* ClassFileLoadHook in thread t.                                          *)

Alive == phase # "aborted"

\* Object is the first class that the JVM loads.
BeginHook(t, c) ==
    /\ phase \in HookPhases /\ pc[t] = "idle"
    /\ class[c] = "unloaded"
    /\ c = Object \/ class[Object] \in {"plain", "instrumented"}
    /\ class' = [class EXCEPT ![c] = "loading"]
    /\ target' = [target EXCEPT ![t] = c]
    /\ early' = IF phase \in {"primordial", "started"} THEN early \union {t} ELSE early \ {t}
    /\ pc' = [pc EXCEPT ![t] = "get"]
    /\ UNCHANGED <<phase, enabled, abortedBy, options, memory, conf>>

GetPtr(t) ==
    /\ Alive /\ pc[t] = "get"
    /\ IF storage
       THEN pc' = [pc EXCEPT ![t] = "read"]
            /\ UNCHANGED <<jvm, options, memory, target, early, conf>>
       ELSE Abort("storage")

\* Variant: the length of the string was not stored.
ReadConfTruncated(t) ==
    /\ Alive /\ pc[t] = "read"
    /\ pc' = [pc EXCEPT ![t] = "instrument"]
    /\ conf' = [conf EXCEPT ![t] = "truncated"]
    /\ UNCHANGED <<jvm, options, memory, target, early>>

ExecIsFreed == exec = Path /\ "exec" \notin allocated

\* The freed string is read as anything.
ReadConf(t) ==
    /\ Alive /\ pc[t] = "read"
    /\ pc' = [pc EXCEPT ![t] = "instrument"]
    /\ \E value \in IF ExecIsFreed THEN {exec, Garbage} ELSE {exec} :
          conf' = [conf EXCEPT ![t] = value]
    /\ UNCHANGED <<jvm, options, memory, target, early>>

\* What is read is no UTF-8, or the memory is gone.
ReadConfCrashes(t) ==
    /\ Alive /\ pc[t] = "read"
    /\ ExecIsFreed /\ Abort("storage")

Loaded(t, how) ==
    /\ class' = [class EXCEPT ![target[t]] = how]
    /\ pc' = [pc EXCEPT ![t] = "idle"]
    /\ UNCHANGED <<phase, enabled, abortedBy, options, memory, target, early, conf>>

\* Variant: the hook unwraps the result of the instrumenter.
InstrumentUnwrapped(t) ==
    /\ Alive /\ pc[t] = "instrument" /\ target[t] \notin BadNames
    /\ \/ Loaded(t, IF target[t] \in RtClasses THEN "plain" ELSE "instrumented")
       \/ target[t] \notin RtClasses /\ Abort("instrumenter")

\* The classes of the runtime are not instrumented.  Of another one, writing a
\* dump may fail, and instrumenting it may fail at any time: the program can
\* not be run, or exits with an error.  Then the class is loaded as it is.
Instrument(t) ==
    /\ Alive /\ pc[t] = "instrument" /\ target[t] \notin BadNames
    /\ \/ Loaded(t, "plain")
       \/ target[t] \notin RtClasses /\ Loaded(t, "instrumented")
       \/ target[t] \notin RtClasses /\ dumps /\ Abort("dump")

\* The conversion of the class's name is unwrapped.
NamePanics(t) ==
    /\ Alive /\ pc[t] = "instrument" /\ target[t] \in BadNames
    /\ Abort("name")

\* The instrumented class is copied to memory of the JVM, which may have none.
AllocateFails(t) ==
    /\ Alive /\ pc[t] = "instrument" /\ target[t] \notin RtClasses \union BadNames
    /\ Abort("memory")

HookStep(t) ==
    \/ GetPtr(t) \/ ReadConf(t) \/ ReadConfCrashes(t)
    \/ NamePanics(t) \/ Instrument(t) \/ AllocateFails(t)

Next ==
    \/ OnLoad \/ OnLoadPanics \/ VMStart
    \/ FreeExec \/ ClearStorage \/ VMDeathReturns
    \/ \E t \in Threads : HookStep(t) \/ \E c \in Classes : BeginHook(t, c)

Spec == Init /\ [][Next]_vars

-----------------------------------------------------------------------------
(* Properties.                                                             *)

TypeOK ==
    /\ phase \in Phases
    /\ exec \in {Path, NoPath} /\ dumps \in BOOLEAN
    /\ storage \in BOOLEAN /\ allocated \subseteq {"block", "exec"}
    /\ class \in [Classes -> {"unloaded", "loading", "plain", "instrumented"}]
    /\ enabled \in BOOLEAN
    /\ abortedBy \in {"none", "startup", "null method", "storage", "name",
                     "dump", "memory", "instrumenter"}
    /\ pc \in [Threads -> {"idle", "get", "read", "instrument"}]
    /\ target \in [Threads -> Classes]
    /\ early \subseteq Threads
    /\ conf \in [Threads -> {Path, NoPath, Garbage}]

DeathHasBegun == phase \in {"dying", "cleared", "dead", "aborted"}

\* Until VMDeath begins, every hook, in whatever thread, has read exactly the
\* configuration given to Agent_OnLoad.
HooksReadConfiguration ==
    \A t \in Threads : pc[t] = "instrument" /\ ~DeathHasBegun => conf[t] = exec

\* The agent aborts the JVM for no other reasons than these: while classes are
\* loaded, only if a dump was asked for, or a class has a bad name, or Object
\* could not be amended, or memory is exhausted, or the JVM dies.
AbortHasCause ==
    /\ abortedBy # "instrumenter"
    /\ abortedBy = "dump" => dumps
    /\ abortedBy = "memory" => \E c \in Classes \ RtClasses : class[c] = "loading"
    /\ abortedBy = "name" => \E c \in BadNames : class[c] = "loading"
    /\ abortedBy = "null method" => class[Object] = "plain"
    /\ abortedBy = "storage" => allocated = {"block"} /\ (storage => exec = Path)
    /\ abortedBy = "startup" => \A c \in Classes : class[c] = "unloaded"

\* No JVM ever starts to forward events without the methods amended to Object,
\* and if it starts with them then it forwards.
EnabledIffAmended ==
    phase \in {"started", "dying", "cleared", "dead"} =>
        (enabled <=> class[Object] = "instrumented")

-----------------------------------------------------------------------------
(* What the documentation says and the code does not do.                   *)

\* env_storage.rs: the storage is readable in any callback between init() and
\* free().  A hook that begins before free() must therefore get its
\* configuration.
HookBegunBeforeFreeIsServed ==
    \A t \in early : pc[t] = "instrument" => conf[t] = exec

\* phasicj_agent_rt/README.md: the calls that instrumentation adds can be
\* resolved.  They call methods amended to Object.
AddedCallsResolve ==
    \A c \in Classes : class[c] = "instrumented" => class[Object] = "instrumented"
=============================================================================
