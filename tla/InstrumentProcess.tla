-------------------------- MODULE InstrumentProcess --------------------------
(***************************************************************************)
(* One call of Instrumenter::instrument() after the other in a thread that *)
(* loads classes (agent/instr/rust/lib.rs), and the child process of each  *)
(* call, `phasicj agent instrument-class` (agent/instr/cli/Cli.java), or   *)
(* whatever program `phasicj_exec` names.                                  *)
(*                                                                         *)
(* Parent and child share two pipes of bounded capacity.  Data is counted  *)
(* in chunks: the child answers each chunk of the class with one chunk.    *)
(*                                                                         *)
(* Cli.java "collects" its input, and closes its pipes by ending.  Another *)
(* program "streams": it answers each chunk at once, and may close either  *)
(* pipe whenever it likes and run on.  Of both it is assumed that success  *)
(* means that everything was answered.                                     *)
(***************************************************************************)
EXTENDS Integers

CONSTANTS
    Capacity,    \* chunks that a pipe holds
    MaxSize      \* bound: chunks of the largest class

ASSUME ProcessAssumption == Capacity \in Nat \ {0} /\ MaxSize \in Nat \ {0}

VARIABLES
    program,     \* of the children: "collects" or "streams"
    pc,          \* where instrument() is
    size,        \* of the class
    sent,        \* chunks written to the child's stdin
    open,        \* has the parent its end of stdin open?
    got,         \* chunks the child has read
    child,       \* its state: running, left by its call, or how it ended
    reads,       \* has it its end of stdin open, while it runs?
    writes,      \* and its end of stdout?
    put,         \* chunks the child has written to its stdout
    taken,       \* chunks the parent has read
    result,      \* of the last call
    left         \* does a child run that its call has left behind?

parent == <<pc, sent, open, taken, result>>
process == <<got, child, reads, writes, put>>
vars == <<program, size, parent, process, left>>

Init ==
    /\ program \in {"collects", "streams"}
    /\ pc = "idle" /\ size = 1 /\ sent = 0 /\ open = FALSE
    /\ got = 0 /\ child = "none" /\ reads = FALSE /\ writes = FALSE /\ put = 0
    /\ taken = 0 /\ result = "none" /\ left = FALSE

\* The other ends of the pipes; the end of a process closes all that it has open.
StdinIsBroken == child # "running" \/ ~reads
StdoutIsClosed == child # "running" \/ ~writes

-----------------------------------------------------------------------------
(* The parent.                                                             *)

Return(value) == pc' = "idle" /\ result' = value

\* Dropping a Child closes the parent's ends; it neither kills nor waits.
DropChild ==
    /\ left' = (left \/ child = "running")
    /\ child' = IF child = "running" THEN "left" ELSE child

Spawn ==
    /\ pc = "idle" /\ pc' = "write"
    /\ size' \in 1..MaxSize
    /\ sent' = 0 /\ open' = TRUE /\ taken' = 0 /\ result' = "none"
    /\ got' = 0 /\ child' = "running" /\ reads' = TRUE /\ writes' = TRUE /\ put' = 0
    /\ UNCHANGED <<program, left>>

\* There is no such program, or no process can be made.
SpawnFails ==
    /\ pc = "idle" /\ Return("error")
    /\ child' = "none" /\ open' = FALSE
    /\ UNCHANGED <<program, size, sent, taken, got, reads, writes, put, left>>

\* Variant: the pipe is full only when it holds more than its capacity.
WriteIntoFullPipe ==
    /\ pc = "write" /\ ~StdinIsBroken
    /\ sent < size /\ sent - got <= Capacity
    /\ sent' = sent + 1
    /\ UNCHANGED <<program, size, pc, open, taken, result, process, left>>

\* write_all() blocks on a full pipe.
Write ==
    /\ pc = "write" /\ ~StdinIsBroken
    /\ sent < size /\ sent - got < Capacity
    /\ sent' = sent + 1
    /\ UNCHANGED <<program, size, pc, open, taken, result, process, left>>

\* EPIPE, whether the child has ended or only closed its stdin: `?` returns early.
WriteFails ==
    /\ pc = "write" /\ sent < size
    /\ StdinIsBroken
    /\ open' = FALSE /\ Return("error") /\ DropChild
    /\ UNCHANGED <<program, size, sent, taken, got, reads, writes, put>>

\* Variant: stdin stays open while the parent reads.
KeepStdin ==
    /\ pc = "write" /\ sent = size
    /\ pc' = "read"
    /\ UNCHANGED <<program, size, sent, open, taken, result, process, left>>

\* wait_with_output() closes stdin first.
CloseStdin ==
    /\ pc = "write" /\ sent = size
    /\ pc' = "read" /\ open' = FALSE
    /\ UNCHANGED <<program, size, sent, taken, result, process, left>>

\* Variant: the child is waited for before its output is read.
ReadAfterExit ==
    /\ pc = "read" /\ taken < put /\ child # "running"
    /\ taken' = taken + 1
    /\ UNCHANGED <<program, size, pc, sent, open, result, process, left>>

Read ==
    /\ pc = "read" /\ taken < put
    /\ taken' = taken + 1
    /\ UNCHANGED <<program, size, pc, sent, open, result, process, left>>

\* The end of the output, which a child may close before it ends.
ReadEnd ==
    /\ pc = "read" /\ taken = put /\ StdoutIsClosed
    /\ pc' = "wait"
    /\ UNCHANGED <<program, size, sent, open, taken, result, process, left>>

Output == IF taken = size THEN "instrumented" ELSE "partial"

\* Variant: the exit status is ignored.
WaitIgnoringStatus ==
    /\ pc = "wait" /\ child # "running"
    /\ Return(Output) /\ DropChild
    /\ UNCHANGED <<program, size, sent, open, taken, got, reads, writes, put>>

\* Variant: try_wait(), which does not wait for the child to end.
TryWait ==
    /\ pc = "wait"
    /\ Return(IF child = "success" THEN Output ELSE "error") /\ DropChild
    /\ UNCHANGED <<program, size, sent, open, taken, got, reads, writes, put>>

\* The output counts only if the child ended with success.
Wait ==
    /\ pc = "wait" /\ child # "running"
    /\ Return(IF child = "success" THEN Output ELSE "error") /\ DropChild
    /\ UNCHANGED <<program, size, sent, open, taken, got, reads, writes, put>>

\* The JVM ends or is killed; the kernel closes its ends of the pipes.
JvmEnds ==
    /\ pc # "dead" /\ pc' = "dead" /\ open' = FALSE
    /\ UNCHANGED <<program, size, sent, taken, result, process, left>>

-----------------------------------------------------------------------------
(* The child.                                                              *)

InputEnded == ~open /\ got = sent

\* ByteStreams.toByteArray().  Another program may hold one chunk at a time.
ChildRead ==
    /\ child = "running" /\ reads /\ got < sent
    /\ program = "streams" /\ pc # "dead" => got = put
    /\ got' = got + 1
    /\ UNCHANGED <<program, size, parent, child, reads, writes, put, left>>

ChildWrite ==
    /\ child = "running" /\ writes /\ pc # "dead"
    /\ program = "collects" => InputEnded
    /\ put < got /\ put - taken < Capacity
    /\ put' = put + 1
    /\ UNCHANGED <<program, size, parent, got, child, reads, writes, left>>

\* A PrintStream swallows that nobody reads its output any more.
ChildExits ==
    /\ child = "running" /\ InputEnded
    /\ put = got \/ pc = "dead"
    /\ child' = "success"
    /\ UNCHANGED <<program, size, parent, got, reads, writes, put, left>>

\* Not a class file, or an exception: nothing was written.
ChildFails ==
    /\ child = "running" /\ InputEnded /\ put = 0
    /\ child' = "failure"
    /\ UNCHANGED <<program, size, parent, got, reads, writes, put, left>>

\* It may be killed at any time.
ChildIsKilled ==
    /\ child = "running" /\ child' = "failure"
    /\ UNCHANGED <<program, size, parent, got, reads, writes, put, left>>

\* Of another program only, which then runs on.
ChildClosesStdin ==
    /\ child = "running" /\ program = "streams" /\ reads
    /\ reads' = FALSE
    /\ UNCHANGED <<program, size, parent, got, child, writes, put, left>>

ChildClosesStdout ==
    /\ child = "running" /\ program = "streams" /\ writes
    /\ writes' = FALSE
    /\ UNCHANGED <<program, size, parent, got, child, reads, put, left>>

\* It has closed a pipe, and ends with less than an answer to everything.
ChildQuits ==
    /\ child = "running" /\ ~(reads /\ writes)
    /\ child' = "failure"
    /\ UNCHANGED <<program, size, parent, got, reads, writes, put, left>>

\* The last child that was left behind ends: nothing in the agent sees to it.
LeftChildrenEnd ==
    /\ left /\ left' = FALSE
    /\ UNCHANGED <<program, size, parent, process>>

Instrument == Write \/ WriteFails \/ CloseStdin \/ Read \/ ReadEnd \/ Wait

ChildStep == ChildRead \/ ChildWrite \/ ChildExits \/ ChildQuits

ChildMay == ChildFails \/ ChildIsKilled \/ ChildClosesStdin \/ ChildClosesStdout

Next ==
    \/ Spawn \/ SpawnFails \/ Instrument \/ JvmEnds
    \/ ChildStep \/ ChildMay \/ LeftChildrenEnd

Spec == Init /\ [][Next]_vars

\* The parent's thread and the child of the call run; the child's program does not
\* hang, nor does it run for ever once it has closed a pipe.
FairSpec == Spec /\ WF_vars(Instrument) /\ WF_vars(ChildStep)

-----------------------------------------------------------------------------
(* Properties.                                                             *)

\* Types, and that no pipe ever holds more than its capacity.
TypeOK ==
    /\ program \in {"collects", "streams"}
    /\ pc \in {"idle", "write", "read", "wait", "dead"}
    /\ size \in 1..MaxSize /\ open \in BOOLEAN
    /\ sent \in 0..size /\ got \in 0..sent /\ put \in 0..got /\ taken \in 0..put
    /\ sent - got <= Capacity /\ put - taken <= Capacity
    /\ child \in {"none", "running", "left", "success", "failure"}
    /\ reads \in BOOLEAN /\ writes \in BOOLEAN /\ left \in BOOLEAN
    /\ result \in {"none", "error", "instrumented", "partial"}

\* The JVM never gets a part of a class, wherever the child is killed or closes a
\* pipe: a call has the whole instrumented class as its result, or fails.
ClassIsWholeOrCallFails == result # "partial"

\* A call leaves a running process behind (the early return of write_all()) only if
\* that process gave up its input before it had the class, and then the call fails:
\* the children of Cli.java are never left, so that they cannot pile up.
OnlyQuittersAreLeft ==
    /\ left => program # "collects"
    /\ child = "left" => ~reads /\ got < size /\ result = "error"

\* Both pipes and the child hold this much.
FitsInPipes == size <= 2 * Capacity + 1

\* The thread that loads a class always goes on if the child reads its input
\* before it writes, as Cli.java does, or the class is small enough for any.
EveryCallReturns ==
    pc \in {"write", "read", "wait"} /\ (program = "collects" \/ FitsInPipes)
        ~> pc \in {"idle", "dead"}

\* Every child that its call has not left ends, also when the JVM ends in the middle.
EveryChildEnds ==
    child = "running" /\ (program = "collects" \/ FitsInPipes) ~> child # "running"
=============================================================================
