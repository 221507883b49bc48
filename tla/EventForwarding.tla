--------------------------- MODULE EventForwarding ---------------------------
(***************************************************************************)
(* How an instrumented synchronized block becomes an event: the methods    *)
(* grafted onto java.lang.Object (agent/rt/JavaLangObjectAmendment.java),  *)
(* the runtime's counters (agent/rt/ApplicationEvents.java), its native    *)
(* methods (agent/jvm/entrypoints.rs) and the channel to the forwarding    *)
(* worker (agent/recorder.rs).                                             *)
(*                                                                         *)
(* Java threads run from the primordial phase of the JVM on; the runtime's *)
(* classes can be loaded only from VMStart on, and until then the volatile *)
(* flag on Object keeps the threads away from them.                        *)
(***************************************************************************)
EXTENDS Integers, FiniteSets

CONSTANTS
    Threads,     \* Java threads of the application
    Monitors,    \* the objects they synchronize on
    NumLoops,    \* bound: synchronized blocks each thread executes
    MaxInt,      \* largest Java int
    NoThread     \* stands for "not locked"

ASSUME ForwardingAssumption ==
    /\ IsFiniteSet(Threads)
    /\ NumLoops \in Nat
    /\ MaxInt \in Nat
    /\ NoThread \notin Threads

VARIABLES
    phase,       \* of the JVM
    enabled,     \* phasicj$agent$rt$instrumentationIsEnabled
    channel,     \* is there a sender in EVENT_FORWARDING_CHANNEL, with a receiver?
    lock,        \* the thread that holds the mutex around the sender
    pending,     \* events in the channel
    received,    \* events the worker received
    enters,      \* monitorEnterCounter
    exits,       \* monitorExitCounter
    pc,          \* where each thread is around its synchronized block
    monitor,     \* the monitor of that block
    owner,       \* the thread that owns each monitor
    loops,       \* blocks each thread has begun
    recorded     \* blocks that were begun when instrumentation was enabled

counters == <<enters, exits>>
agent    == <<phase, enabled, channel>>
queue    == <<lock, pending, received>>
app      == <<pc, monitor, owner, loops, recorded>>
vars     == <<agent, queue, counters, app>>

Phases == {"onload", "primordial", "started", "exited", "aborted"}
PCs == {"outside", "counting", "locking", "sending", "entering",
        "inside", "countingExit", "exiting"}

Init ==
    /\ phase = "onload" /\ enabled = FALSE /\ channel = FALSE
    /\ lock = NoThread /\ pending = 0 /\ received = 0
    /\ enters = 0 /\ exits = 0
    /\ pc = [t \in Threads |-> "outside"]
    /\ monitor \in [Threads -> Monitors]
    /\ owner = [m \in Monitors |-> NoThread]
    /\ loops = [t \in Threads |-> 0]
    /\ recorded = 0

-----------------------------------------------------------------------------
(* The agent.                                                              *)

Running == phase \in {"primordial", "started"}

\* The last thing Agent_OnLoad does; the JVM runs Java code only after it.
StartForwardingWorker ==
    /\ phase = "onload"
    /\ phase' = "primordial"
    /\ channel' = TRUE
    /\ UNCHANGED <<enabled, queue, counters, app>>

\* The VMStart callback calls Object.phasicj$agent$rt$enableInstrumentation().
EnableInstrumentation ==
    /\ phase = "primordial"
    /\ phase' = "started"
    /\ enabled' = TRUE
    /\ UNCHANGED <<channel, queue, counters, app>>

\* Variant: the worker returns when it has received an event.
ReceiveOnce ==
    /\ Running /\ pending > 0 /\ received = 0
    /\ pending' = pending - 1
    /\ received' = received + 1
    /\ UNCHANGED <<agent, lock, counters, app>>

Receive ==
    /\ Running /\ pending > 0
    /\ pending' = pending - 1
    /\ received' = received + 1
    /\ UNCHANGED <<agent, lock, counters, app>>

\* Nobody joins the worker: what is still in the channel is lost.
JvmExits ==
    /\ Running
    /\ phase' = "exited"
    /\ UNCHANGED <<enabled, channel, queue, counters, app>>

-----------------------------------------------------------------------------
(* A thread t at a synchronized block: calls of the instrumentation before *)
(* MONITORENTER and before MONITOREXIT.                                    *)

Goto(t, from, to) ==
    /\ Running /\ pc[t] = from
    /\ pc' = [pc EXCEPT ![t] = to]

\* Variant: a counter that does not overflow.
IncrementWide(n) == n + 1

\* Java's int arithmetic.
IncrementAndGet(n) == IF n = MaxInt THEN -MaxInt - 1 ELSE n + 1

\* Variant: the flag is not tested.
CheckEnterAlways(t) ==
    /\ loops[t] < NumLoops
    /\ loops' = [loops EXCEPT ![t] = @ + 1]
    /\ \E m \in Monitors : monitor' = [monitor EXCEPT ![t] = m]
    /\ Goto(t, "outside", "counting")
    /\ recorded' = recorded + 1
    /\ UNCHANGED <<agent, queue, counters, owner>>

\* Object.phasicj$agent$rt$monitorEnter() reads the flag.
CheckEnter(t) ==
    /\ loops[t] < NumLoops
    /\ loops' = [loops EXCEPT ![t] = @ + 1]
    /\ \E m \in Monitors : monitor' = [monitor EXCEPT ![t] = m]
    /\ IF enabled
       THEN /\ Goto(t, "outside", "counting")
            /\ recorded' = recorded + 1
       ELSE /\ Goto(t, "outside", "entering")
            /\ UNCHANGED recorded
    /\ UNCHANGED <<agent, queue, counters, owner>>

\* Variant: a block that contends for the channel is not counted.
CountEnterIfUncontended(t) ==
    /\ Goto(t, "counting", "locking")
    /\ enters' = IF lock = NoThread THEN IncrementAndGet(enters) ELSE enters
    /\ UNCHANGED <<agent, queue, exits, monitor, owner, loops, recorded>>

CountEnter(t) ==
    /\ Goto(t, "counting", "locking")
    /\ enters' = IncrementAndGet(enters)
    /\ UNCHANGED <<agent, queue, exits, monitor, owner, loops, recorded>>

\* The native monitorEnter(): EVENT_FORWARDING_CHANNEL.lock().
LockChannel(t) ==
    /\ lock = NoThread
    /\ Goto(t, "locking", "sending")
    /\ lock' = t
    /\ UNCHANGED <<agent, pending, received, counters, monitor, owner, loops, recorded>>

\* Variants: the guard is not dropped; an unwrapped send that is never made.
SendLocked(t) ==
    /\ channel
    /\ Goto(t, "sending", "entering")
    /\ pending' = pending + 1
    /\ UNCHANGED <<agent, lock, received, counters, monitor, owner, loops, recorded>>

SendNothing(t) ==
    /\ Goto(t, "sending", "entering")
    /\ lock' = NoThread
    /\ UNCHANGED <<agent, pending, received, counters, monitor, owner, loops, recorded>>

\* send(()) into an unbounded channel; the guard is dropped with the statement.
\* With no sender, or no receiver, the unwrap() panics in the native method.
Send(t) ==
    /\ Goto(t, "sending", "entering")
    /\ lock' = NoThread
    /\ IF channel
       THEN pending' = pending + 1 /\ UNCHANGED phase
       ELSE phase' = "aborted" /\ UNCHANGED pending
    /\ UNCHANGED <<enabled, channel, received, counters, monitor, owner, loops, recorded>>

MonitorEnter(t) ==
    /\ owner[monitor[t]] = NoThread
    /\ Goto(t, "entering", "inside")
    /\ owner' = [owner EXCEPT ![monitor[t]] = t]
    /\ UNCHANGED <<agent, queue, counters, monitor, loops, recorded>>

\* Object.phasicj$agent$rt$monitorExit() reads the flag again.
CheckExit(t) ==
    /\ Goto(t, "inside", IF enabled THEN "countingExit" ELSE "exiting")
    /\ UNCHANGED <<agent, queue, counters, monitor, owner, loops, recorded>>

\* Variant: the wrong counter.
CountExitAsEnter(t) ==
    /\ Goto(t, "countingExit", "exiting")
    /\ enters' = IncrementAndGet(enters)
    /\ UNCHANGED <<agent, queue, exits, monitor, owner, loops, recorded>>

\* The native monitorExit() only logs.
CountExit(t) ==
    /\ Goto(t, "countingExit", "exiting")
    /\ exits' = IncrementAndGet(exits)
    /\ UNCHANGED <<agent, queue, enters, monitor, owner, loops, recorded>>

MonitorExit(t) ==
    /\ Goto(t, "exiting", "outside")
    /\ owner' = [owner EXCEPT ![monitor[t]] = NoThread]
    /\ UNCHANGED <<agent, queue, counters, monitor, loops, recorded>>

ThreadStep(t) ==
    \/ CheckEnter(t) \/ CountEnter(t) \/ LockChannel(t) \/ Send(t) \/ MonitorEnter(t)
    \/ CheckExit(t) \/ CountExit(t) \/ MonitorExit(t)

Next ==
    \/ StartForwardingWorker \/ EnableInstrumentation \/ Receive \/ JvmExits
    \/ \E t \in Threads : ThreadStep(t)

Spec == Init /\ [][Next]_vars

\* Threads run, those of the application and the worker.  The JVM gets through
\* its startup too, but no property depends on it.
FairSpec ==
    /\ Spec
    /\ WF_vars(StartForwardingWorker)
    /\ WF_vars(Receive)
    /\ \A t \in Threads : WF_vars(ThreadStep(t))

-----------------------------------------------------------------------------
(* Properties.                                                             *)

JavaInt == (-MaxInt - 1)..MaxInt

TypeOK ==
    /\ phase \in Phases
    /\ enabled \in BOOLEAN /\ channel \in BOOLEAN
    /\ lock \in Threads \union {NoThread}
    /\ pending \in Nat /\ received \in Nat
    /\ enters \in JavaInt /\ exits \in JavaInt
    /\ pc \in [Threads -> PCs]
    /\ monitor \in [Threads -> Monitors]
    /\ owner \in [Monitors -> Threads \union {NoThread}]
    /\ loops \in [Threads -> 0..NumLoops]
    /\ recorded \in Nat

\* A thread gets into the runtime's classes only after VMStart, when they can
\* be loaded, and its native method always finds the channel with a live
\* worker: it never panics in the application's thread.
RuntimeIsReady ==
    /\ phase # "aborted"
    /\ \A t \in Threads :
          pc[t] \in {"counting", "locking", "sending", "countingExit"} =>
              phase \in {"started", "exited"} /\ channel

\* The sender is used by one thread at a time, and no thread waits for the
\* application's monitors, or runs its code, with the sender locked.
SenderIsExclusive ==
    \A t \in Threads : pc[t] = "sending" <=> lock = t

At(label) == Cardinality({t \in Threads : pc[t] \in label})

\* n is what a Java int is after it was incremented `total` times from 0.
Counts(n, total) == \E wraps \in 0..total : total = n + wraps * (2 * (MaxInt + 1))

\* Every block begun after instrumentation was enabled is counted, before its
\* monitor is acquired, whatever the threads do at the same time; a counter
\* that overflows wraps around as Java ints do.
EveryEnterIsCounted == Counts(enters, recorded - At({"counting"}))

\* Each counted event is on its way to the channel, in it, or received.
NoEventIsLost ==
    Counts(enters, received + pending + At({"locking", "sending"}))

\* A block that was entered before VMStart and left after it counts its exit
\* only, so there may be more exits than enters, by at most one per thread.
ExitsFollowEnters ==
    \E early \in 0..Cardinality(Threads) :
        Counts(exits, recorded + early
           - At({"counting", "locking", "sending", "entering", "inside", "countingExit"}))

\* The worker catches up, unless the JVM exits.
EventsAreReceived == []<>(pending = 0 \/ phase = "exited")

\* The instrumentation never keeps a thread from executing its blocks.
ThreadsProceed == \A t \in Threads : 
    <>[](phase = "exited" \/ (pc[t] = "outside" /\ loops[t] = NumLoops))
=============================================================================
