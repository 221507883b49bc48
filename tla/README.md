# PhasicJ: TLA+ models and proofs

PhasicJ observes the synchronization of Java programs. A native JVMTI agent
(Rust) rewrites every class that a JVM loads, so that a call precedes each
`MONITORENTER` and `MONITOREXIT` instruction; the calls become events of a small
Java runtime, which hands them to a forwarding thread of the agent. A daemon
(Rust, gRPC over a UNIX domain socket) stores events in SQLite. Forwarding from
the agent to the daemon is not written yet (a TODO in `agent/recorder.rs`); the
daemon's client today is the replay client in its tests.

Paths below are relative to `src/phasicj/` where they do not start with `src/`.

## Inventory

| Component | State it keeps | Operations | Interacts through |
|---|---|---|---|
| Events daemon (`daemon/main.rs`, `daemon/rtevents.rs`) | socket file, SQLite connection behind a `std::sync::Mutex`, table `rtevents` | start, bind, create the table, `record_events` | gRPC requests on Tokio worker threads; the database outlives the process |
| Replay client (`daemon/tests/sqlite_replay_client/main.rs`) | connection, position in its own database | connect, send an event and wait for the ack, finish | gRPC |
| JVMTI agent (`agent/jvm/*.rs`, `agent/agent.rs`) | environment-local storage in memory of JVMTI | `Agent_OnLoad`, VMStart, `ClassFileLoadHook`, VMDeath | callbacks of the JVM, in any of its threads |
| Instrument process (`agent/instr/rust/lib.rs`) | a child process and its two pipes per class | spawn, write the class, wait for the output | called by the hook |
| Bytecode instrumenter (`agent/instr/*.java`) | none between classes | insert calls, amend `java.lang.Object` | stdin and stdout of the child |
| Runtime (`agent/rt/*.java`, native methods in `agent/jvm/entrypoints.rs`) | volatile flag on `Object`, two `AtomicInteger`s | monitorEnter, monitorExit, enableInstrumentation | calls in the application's threads |
| Recorder (`agent/recorder.rs`) | channel behind a mutex, worker thread | start, send, receive | `mpsc` channel |
| Runtime JAR (`agent/rt/embed/lib.rs`) | a file under the temporary directory, shared by all JVMs | write it if it is missing, add it to the boot class path | file system |
| Options (`agent/conf`) | `PjAgentConf` | parse, apply one option after the other | called by `on_load` |
| Shadow VM (`agent/experimental/svm`) | an isolate thread of a loaded library | experimental | not built into the agent |

What is hard in each, and what makes it correct:

- **Daemon.** Handlers block worker threads on one mutex; a failing `INSERT`
  panics with the mutex held and poisons it; the process may die between a
  stored event and its acknowledgement, between `bind()` and `CREATE TABLE`, or
  with requests queued. Correct means: what is acknowledged is stored; nothing is
  stored twice or out of order, over restarts and databases; a database has
  events of one process; requests end although threads are few.
- **Event forwarding.** The application's threads run instrumented code before
  VMStart, when the runtime's classes cannot be loaded, and they do not
  synchronize with it. Correct means: no thread enters the runtime too early, no
  event is lost or doubled between the counter, the channel and the worker, and
  the instrumentation does not add a deadlock to the application's own monitors.
- **Callbacks.** Hooks run concurrently with VMDeath, which frees the storage that
  they read; instrumenting a class may fail at any one class. Correct means: hooks
  read what they were configured with, failures of the instrumenter do not end
  the JVM, and the calls that are added can be resolved.
- **Instrument process.** Parent and child share two pipes of bounded capacity, and
  the parent writes everything before it reads anything; the child may be missing,
  fail, be killed, close a pipe early, or read and write in another order. Correct
  means: the JVM gets the whole instrumented class or an error, a thread that loads a
  class always goes on, and the instrumenter's processes do not pile up.
- **Bytecode instrumenter.** Branches and exception handlers may lead to any
  instruction, and the added calls may throw. Correct means: the instrumented method
  does with its monitors what the original may do, no monitor instruction is reached
  without its call, and the members that are added collide with nothing and resolve.
- **Options.** A text is parsed by a grammar that skips spaces in some places only.
  Correct means: settings have their effect, the last one holds, and spaces have no
  meaning that nobody intended.
- **The agent as a whole.** The first event of a thread loads a class of the runtime,
  so that a hook runs inside of the block that it belongs to. Correct means: the
  parts' properties still hold together, and no block hangs.
- **Runtime JAR.** Check and creation are separate steps of many processes, which
  may be killed. Correct means: the file is in the end the JAR, and stays it.

## Modules

| Module | Models | Its proofs |
|---|---|---|
| `EventLog` | abstract: what the daemon promises to clients that record events | |
| `Daemon` | daemon, replay clients, databases, socket file | `DaemonProofs` |
| `EventForwarding` | runtime, native methods, recorder, startup of the JVM as far as they see it | `EventForwardingProofs` |
| `AgentCallbacks` | `Agent_OnLoad`, VMStart, `ClassFileLoadHook`, VMDeath, storage | `AgentCallbacksProofs` |
| `RtJar` | the JAR file and the JVMs that write and open it | `RtJarProofs` |
| `InstrumentProcess` | a call of the instrumenter, its child process and their pipes | `InstrumentProcessProofs` |
| `MethodExecution` | abstract: what a thread does with the code of a method | |
| `MonitorInsnInstrumenter` | the rewriting of a class, and the execution of the result | `MonitorInsnInstrumenterProofs` |
| `AgentOptions` | the option language and the application of options | `AgentOptionsProofs` |
| `Agent` | composition of `AgentCallbacks` and `EventForwarding` | `AgentProofs` |

`MCDaemon` and `MCAgentCallbacks` define the symmetry sets of the small instances,
`MCMonitorInsnInstrumenter` and `MCAgentOptions` the classes and texts that are given
to the program; the other instances need only a `.cfg`. `PROJECT.json` maps every
definition to its lines of the source. A definition under a comment that begins with
"Variant" is no part of a specification: it is the definition after it with a
plausible mistake, and serves to show that the properties notice the mistake.

### Daemon and EventLog

`daemon` says where `main()` is: `starting` before `bind()`, `bound` before the
table exists, `serving` after it. `handler[c]` is the request of client `c`:
`queued` until a worker thread takes it, `running` until it has the mutex,
`locked`, `inserted`, `replying`. There is no `await` in `record_events`, so that
a handler keeps its worker thread to the end, also while it blocks on the mutex;
`BeginHandler` therefore needs one of `Workers` threads. Every panic of the code
is a disjunct: `BindPanics` (the file exists), `CreateTablePanics` (the table
exists), `LockPanics` (poisoned), `InsertPanics` (poisons). `ProcessEnds` is what
all ends of the process have in common: the file and the databases stay, requests
and mutex go, and clients that wait get an error, which ends them.

`EventLog` has the databases and the acknowledgements only. `Daemon` implements it
under the identity of `log` and `acked`: only `Insert` is a `Store` step, only
`Reply` to a living client is an `Acknowledge` step, all others stutter. The
guards of the abstract steps are what has to be shown: the event that is stored
is the next one of its client, the database has events of this process only, an
acknowledged event is stored already.

### EventForwarding

A thread goes through `CheckEnter` (the flag), `CountEnter`, `LockChannel`,
`Send`, then through the JVM's `MonitorEnter`, and out through `CheckExit`,
`CountExit`, `MonitorExit`. The calls come *before* the instructions, as
`MonitorInsnInstrumenter` emits them, so that an event of a block says that a
thread is about to enter. The counters are Java ints: `IncrementAndGet` wraps at
`MaxInt`, which the instances set to 3 so that it happens; `Counts(n, k)` relates
a wrapped counter to the number of its increments. `recorded`, the blocks that were
begun when the flag was set, and `received` are history variables. `phase` has the points of the JVM's life that the agent sees.

### AgentCallbacks

One hook per thread: `BeginHook`, `GetPtr` (get the storage), `ReadConf` (copy the
string behind it), `Instrument`. `VMDeath` is `FreeExec`, `ClearStorage`,
`VMDeathReturns`, since `EnvStorage::free` deallocates first and clears the
pointer afterwards. The string of freed memory is read as any value, or ends the
process (`ReadConfCrashes`). `Object` is loaded first, as the JVM does. The result
of the instrumenter is nondeterministic: it may fail for any class. Other failures of
the hook are panics: a dump that cannot be written (in `Instrument`), a name that
cannot be converted (`NamePanics`), no memory of the JVM for the result
(`AllocateFails`, `jvmti_env.rs:62`). A panic in a
callback of the agent is modelled as the end of the JVM.

### RtJar

Each JVM checks, creates (which truncates), writes block by block at its own
position, adds the path, and at some time opens the file. `good` is the set of
blocks that have the JAR's content. `Stop` at any point is a kill, a normal end, or
the panic after a failed write; `torn` remembers that it struck in `write`. The
parent directories and `sync_all()` have no state here: a power failure is not
modelled. The experimental shadow VM extracts its library with the same code.

### InstrumentProcess

One call after the other in one thread; `pc` follows `Instrumenter::instrument`:
`Spawn`, `Write` (`write_all`, which blocks on a full pipe), `CloseStdin`, `Read` and
`ReadEnd` (to the end of the output), `Wait` (the exit status). Data is counted in
chunks. `program` is the kind of child: `collects` is `Cli.java`, which reads its
whole input first and closes its pipes only by ending; `streams` stands for another
program that `phasicj_exec` may name, which answers each chunk at once and may close its
stdin or its stdout at any time and run on (`reads`, `writes`). Of both it is assumed
that they end with success only if they have answered everything: a program that reports
success for a part cannot be told from a good one. The child may fail or be killed
anywhere, and the JVM may end in the middle of a call, which closes its ends of the pipes.
`write_all()` fails when the read end of stdin is closed, whether or not the child still
runs (`WriteFails`), and the early return drops the `Child` (`DropChild`), which neither
kills it nor waits for it. A child that runs on is `left`; nothing in the agent ends it.
The end of the output is the closing of stdout (`ReadEnd`); only `Wait` needs the end of
the child.
`AgentCallbacks` takes from this module that a call has the whole class as its result
or an error.

### MonitorInsnInstrumenter and MethodExecution

The visitor's events become operators: `VisitInsn` is what is emitted for one
instruction, a call before it if it is a monitor instruction; `Label` is where a
branch to an instruction, or a bound of a handler's range, ends up, which is before
the call (`Handlers` compares positions with these bounds, while falling through leads
to the next group whatever the labels are); `Visited` is the list of members, `Accept`
the filtered and renamed amendment (`Forwarded`, the members of it up to each place,
follows the order of the visits). On this a thread executes the instrumented method, with any branch taken
and an exception at any instruction, also in an added call. The abstract
`MethodExecution` executes the original code. The mapping takes the position of the
group for the position of the instruction, so that calls stutter: a call that throws
must look like the original instruction throwing, before it had its effect.

### AgentOptions

Texts are sequences of words, spaces and the separators of the grammar. `Parse`
follows `PjAgentConfLang.pest` with its atomic and its space-skipping rules, and its
ordered choice (a quoted value first): `OptionAt` is one option, `List` the options from
each place of a text on. `ParseText` is the call of the parser, `Apply`
one option, `Panic` the outcome of an option that is not valid. Lists of settings
written by `Render` have a meaning, `Effect`, that the result is compared with.
`OptionsAssumption` and `ListsAssumption` keep the words apart from the separators, and
say of written values only that they do not begin with a space, which the grammar skips.

### Agent

The two modules share the threads, the flag and the life of the JVM.
`forwardingPhase` is the JVM as forwarding sees it. Three couplings are modelled:
`OnLoad` also starts the worker; `VMStart` sets the flag, if `Object` was amended;
and a thread at `counting` or `countingExit` needs the classes of the runtime and
loads them there, with the hook running in it (`LoadsClass`, `RuntimeIsLoaded`). Blocks
are those of instrumented classes whose calls resolve: after `callbacks_linkage`'s
failure there is an error before the block, and no block. `F!Spec` as a property says
that this composition is still an `EventForwarding`.

## Runs

| Run | Instance | Shows |
|---|---|---|
| `daemon_safety` | 2 clients, 2 events each, 2 databases, 2 workers, 3 starts | types, the safety properties, `Daemon` implements `EventLog` |
| `daemon_liveness` | 2 clients, 2 events, 1 database, 1 worker, 2 starts | requests and clients end |
| `forwarding` | 3 threads, 1 monitor, 2 blocks each, ints of 3 bits | conservation of events, readiness of the runtime, exclusive use of the sender; the worker catches up, threads execute all their blocks |
| `callbacks_safety` | 2 threads, 4 classes: `Object`, one of the runtime, one of the application, one with a bad name | configuration, aborts, enabling |
| `callbacks_storage`, `callbacks_linkage` | the same | violated, see below |
| `rtjar` | 3 JVMs, 2 blocks | safety, permanence and completion of the file |
| `rtjar_open` | 2 JVMs, 2 blocks | violated, see below |
| `instrument_process` | pipes of 2 chunks, classes of up to 6 | whole class or error, calls return, only children that gave up their input are left behind |
| `instrumenter` | every method of three instructions with at most one handler, `javac`'s code for a synchronized block in a loop, `Object` with its amendment; a monitor held at most twice | implements the original method, announces every monitor instruction, members are distinct and resolve |
| `options` | all texts of up to 4 tokens, one or two options with spaces, quotes and values in all places, all lists of up to 2 settings and repeated ones of 3 | written settings hold, spaces have no meaning, the program has a name |
| `agent` | 2 threads, 4 classes (two of the application), 1 monitor, 1 block each, ints of 1 bit and sign | the runtime is loaded late, refinement of `EventForwarding`, blocks end |

Why the bounds are enough. Two clients contend for one mutex, two workers can both
be blocked on it, and one worker is the case in which a handler that needed
another one would starve; two events make "the next one" differ from "the first
one"; three starts over two databases include the sequence fresh database, other
database, first database again. Three threads make six blocks, which wrap a
counter with the values -4..3. Three JVMs are one that writes, one that truncates
it, and one that reads. Two blocks are the least for a file to be partial. A class
of 6 chunks is larger than both pipes and the child together (5), so that a streaming
child does block on its parent; the calls of classes that fit must return, and the
others must for a child that collects. Three instructions are a monitor instruction
with one before it and one after it, each of which may be a branch, a target or a
handler. Four tokens reach every alternative of the grammar, and the longer texts
every place for a space. In `agent` one thread can be in a hook for the class of the
runtime while the other one waits for it, or sends; with two classes of the application
a thread in a block of the first can load the second, so that it waits for a child
process with the monitor held. The proofs cover all other
values, except for liveness.

`CHECK_DEADLOCK FALSE` is set where the modelled system stops by design: the JVM
has exited or aborted, the last start of the daemon is used up, a method has
completed, or the options are applied. `InstrumentProcess` stops when the JVM has
ended, and with a streaming child and a class that does not fit, which is why its
liveness has that condition. JVMs in `RtJar` can always be started again, so there
deadlock is checked.

### Fairness

Weak fairness only, and only of code that a running thread executes: startup of the
daemon's `main()`, each handler and each client (`Daemon`); the worker and each
application thread (`EventForwarding`); the part of `Agent_OnLoad` that writes the
file (`RtJar`); the parent's thread and the child's program (`InstrumentProcess`; it is
assumed not to hang, nor to run for ever once it has closed a pipe, unless its call has
left it: there is no timeout in the code); the worker, block steps, hook steps, and the
loading of a runtime class that a block needs (`Agent`). In `Agent` it includes that a hook's instrumenter ends, which
`InstrumentProcess` establishes for `Cli.java`; the code has no timeout on any other
program. Not fair are crashes, kills, failing inserts, failing children, starts of
processes and calls, the removal of the socket file, and the end of a JVM. Weak fairness is enough:
`LockChannel` and `Lock` can be disabled again and again by others, but the
instances execute finitely many blocks and requests, so that the lock is free for
good in the end. For an unbounded application the code promises no more, as
`std::sync::Mutex` is not fair.

### Disagreements between code and documentation

- `callbacks_storage`: `agent/jvm/env_storage.rs:2` promises that the storage is
  readable in any callback between `init()` and `free()`. A hook that began before
  `free()` may read the string after it.
- `callbacks_linkage`: the design (`src/architecture/decisions/modules/phasicj_agent_rt/README.md:62`)
  requires that added calls resolve. If instrumenting `Object` fails, the hook goes
  on and instruments later classes, which call methods that `Object` lacks.
- `rtjar_open`: the same design document excludes a `NoClassDefFoundError`; a JVM
  that starts while another one writes the JAR opens a partial one.

Four more are plain from a line or two each and have no run:

- `agent/jvm/jni_env.rs:25` tests the class where it means the method ID, so that
  VMStart calls a null method when `Object` was not amended. `VMStart` takes this as
  an abort of the JVM.
- `EnvStorage::free` says at line 57 that it deallocates the outer object and only
  clears the pointer.
- `Agent_OnAttach` (`agent/jvm/entrypoints.rs:45`) drops the error of `on_attach()` and
  reports success.
- The comment at `agent/instr/MonitorInsnInstrumenter.java:77` says that amendments are
  copied without modification, but they pass through the instrumenting visitor
  (`Visited`). No method of the amendment has a synchronized block today.

## Theorems

All are proved for every value of the constants that the modules' assumptions
allow (`DaemonAssumption`, `ForwardingAssumption`, `CallbacksAssumption`,
`JarAssumption`, `ProcessAssumption`, `InstrumenterAssumption`, `AmendmentAssumption`,
`OptionsAssumption`, `ListsAssumption`, `AgentAssumption`): finite sets of clients and
threads where they are counted, at least one worker, at least one block, values that
stand for "nobody" outside their sets; an amendment that a compiler accepted. Every
safety property that a passing run checks is also a theorem.

- **`DaemonProofs`.** `Inv` conjoins types, `ProcessInv` (which database is empty, or
  has events of this process), `HandlerInv` (a request exists only while the daemon
  listens and its client waits or is dead), mutual exclusion, and `StoredInv`, which
  says for each point of a handler how many events of its client are stored. None
  of the properties is inductive alone: that an `INSERT` stores the *next* event
  follows from where client and handler are. The lemma `OnlyInsertWrites` reduces
  every other step to an unchanged log. The refinement theorem
  `DaemonImplementsEventLog` uses `Inv` to discharge the abstract guards.
  `HandlersDoNotStarveEachOther` and `ClientsRunOut` are what `RequestsEnd` and
  `ClientsEnd` rest on: while there are requests, the holder of the mutex, or someone who
  may take it, has a worker already; and a number of each client goes down with each of
  its steps, over crashes and restarts.
- **`EventForwardingProofs`.** `ReadyInv` carries the argument that a thread is in
  the runtime only if it has read the flag as true, which only VMStart sets, which
  comes after `Agent_OnLoad` has made the channel. `EventsAreConserved` is inductive
  together with it; `AtChanges` says how the number of threads at a label changes
  with one thread, `IncrementCounts` how a wrapping counter does. `EnterInv` and
  `ExitInv` count in the same way; `ExitInv` needs a witness, the set of threads that
  were in a block when instrumentation was enabled, and this set bounds how many more
  exits than enters there may be. `InstrumentationAddsNoDeadlock` says that waits are
  short: with `MonitorInv` (the owner of a monitor is the thread in its block), who waits
  for the sender or a monitor waits for a thread that waits for nobody. `BlocksRunOut`
  gives each thread a number that its steps decrease.
- **`AgentCallbacksProofs`.** `StorageInv` follows the storage through the phases;
  `ObjectInv` says that `Object` is loaded before VMStart and that no two hooks load
  one class, from which VMStart's dependence on it follows.
- **`RtJarProofs`.** `SomeJvmRepairs`: while blocks are missing, and no writer was
  killed, some JVM is writing and all blocks behind its position are good. It is the
  one that truncated last. `JarStays` is a temporal theorem from a second invariant,
  `Settled`, that every step preserves.

- **`InstrumentProcessProofs`.** `CallInv` relates where the parent is to what went
  through the pipes: a child that ended with success has answered everything, and the
  parent reads to the end before it looks at the status; after the end of the output a
  child that still runs has closed its stdout. From it follows that no partial class is a
  result. `ChildrenAreWaitedFor` says who may be left running by a call: only a child that
  closed its stdin before it had the class, which those of `Cli.java` never do.
  `NoCallIsStuck` needs `FlowInv` too (a child that streams holds one chunk at most, and
  nothing is read while the class is written): under the condition of `EveryCallReturns`
  parent or child may always go on; `CallsRunOut` bounds their steps. The lemma `Guards`
  shows that the conditions which the theorem names are the guards of the actions.
- **`MonitorInsnInstrumenterProofs`.** `PosInv` says where a thread can be: after the
  first instruction of a group only if it has just executed it, since labels are at
  the groups' beginnings. `InstrumentedImplementsOriginal` and `MonitorInsnsAreAnnounced`
  hold for every class, code and exception table that the JVM accepts.
  `AmendedMembersAreDistinct` and `AddedUsesResolve` rest on `AcceptIsFiltered`: the
  members that the filter forwards are members of the amendment with the prefix, renamed,
  each once. `Forwarded` is a recursive function; that it is defined, and what it is, is
  shown by induction (see below).
- **`AgentOptionsProofs`.** The parser works from the end of a text to its beginning, and
  its properties need induction over the text. The provers cannot use the library's
  theorems for that, as these take an operator; instead `StrongInduction` and `Downward`
  are stated over *sets* of numbers and follow from the well-foundedness of `<` on `Nat`.
  With them `ListDef`, `WrittenDef` and `SqueezedDef` show that the recursive functions are
  what their equations say. Three arguments follow. (1) `ParsedAsMeant`: what `Render`
  writes is parsed into the settings that were meant, for lists of any length.
  (2) `Inv`, with `Applied(k)`: the configuration is the effect of the first `k` options,
  and the rest is still to do; with (1) it gives `WrittenSettingsHaveEffect`.
  (3) `SqueezedList`: a text that is understood is understood without its spaces, too, as
  options of the same names whose values differ in spaces only. This gives
  `SpacesAreIgnored`.
- **`AgentProofs`.** `LifeInv` says where in the JVM's life the flag can be set and
  hooks can run; `LoadInv` that a thread is in the runtime only after it has read the
  flag as true, which VMStart alone sets. They give `RuntimeIsLoadedLate` and, with a
  case for each action, `AgentImplementsForwarding`. `HookInv` (a class that is being
  loaded has one hook, and a class of the runtime is loaded inside of a block) and
  `StartedInv` give `AgentImplementsCallbacks`, the refinement in the other direction of
  the composition: an abort by a native method, which `AgentCallbacks` does not have,
  never happens. `NoBlockDeadlocks` adds who holds what (`HolderInv`) and gives each thread
  a level: a hook waits for nobody, a thread that counts only for a hook, a thread that
  wants the sender or a monitor only for these. So no waits form a circle, and a thread
  that may not go on waits for one that is there.

Model-checked only: the eight liveness properties (`RequestsEnd`, `ClientsEnd`,
`EventsAreReceived`, `ThreadsProceed`, `JarIsCompletedEventually`, `EveryCallReturns`,
`EveryChildEnds`, `EveryBlockEnds`), since fairness and `ENABLED` are beyond the prover.
The theorems on waits and on remaining steps are the safety that they rest on, for all
values of the constants: where they name conditions under which somebody goes on, these
are the unprimed conjuncts of the actions, and that weak fairness then leads to the end is
what TLC shows. For `RtJar`, whose writers repeat each other's work, there is no such
theorem. The three violations are counterexamples and are not proved.

## Not modelled, and why

- The contents of classes beyond instructions, labels and members: ASM reads and
  writes them. The characters of words in options.
- Nested blocks and `Object.wait()` in `EventForwarding`: the instrumentation treats
  every instruction alike, so one block per thread at a time has all its steps.
- Blocks of classes that were not instrumented, which the agent does not see.
- `RtJar` is not part of `Agent`: the JAR matters there only through a class of the
  runtime that cannot be loaded, which is `rtjar_open`'s finding. A runtime class that
  can never be loaded makes `javac`'s handler repeat its call without end, a hazard
  that no run shows (see `PROJECT.json`).
- A power failure; a cleaner of the temporary directory.
- gRPC and HTTP/2 in detail: a request arrives or is lost, an answer arrives or its
  client has gone. Two daemons at one time on one database or socket file.
- The experimental shadow VM, which is not built into the agent. The library it
  extracts is written by the same code as `RtJar` models.
- The wrappers of JVMTI functions (`jvmti_env.rs`), which translate arguments and error
  codes, beyond their failures.
- The command-line interface, generated stubs, stream types, build rules and
  prototypes keep no state of the program.
- Hazards that no property covers are in `PROJECT.json` with the reason.

## Plan

Done: `EventLog`, `Daemon`, `EventForwarding`, `AgentCallbacks`, `RtJar`,
`InstrumentProcess`, `MonitorInsnInstrumenter`, `AgentOptions`, `Agent`, and the proofs
of their safety. Left, in this order:

1. Proofs: how many steps the writers of `RtJar` still take before the file is complete,
   and the hooks' share of the steps of a block in `Agent`.
2. `RtJar` in the composition: a JVM whose runtime class cannot be loaded goes on
   without events.
3. `ShadowVm`: isolate thread, buffers and the missing mutex of the experimental code,
   when it becomes part of the agent.
