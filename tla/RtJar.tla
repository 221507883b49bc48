------------------------------- MODULE RtJar -------------------------------
(***************************************************************************)
(* The JAR file of the agent's runtime (agent/rt/embed/lib.rs and the use  *)
(* of it in agent/jvm/setup.rs).  Every JVM that starts with the agent     *)
(* writes its embedded copy to the same path under the temporary directory *)
(* unless a file is there, adds the path to the search path of the         *)
(* bootstrap class loader, and opens the file when it loads the first      *)
(* class of the runtime.  JVMs start, end and are killed at any time.      *)
(***************************************************************************)
EXTENDS Integers

CONSTANTS
    Jvms,      \* JVMs of the machine; one that ended may be started again
    NumBlocks  \* the writes that the embedded JAR takes

ASSUME JarAssumption == NumBlocks \in Nat \ {0}

VARIABLES
    exists,    \* is there a file at the path?
    good,      \* the blocks of the file that have the JAR's content
    pc,        \* where each JVM is
    next,      \* the next block that the JVM writes
    torn,      \* was a JVM ever killed while it wrote?
    opened     \* what the JVM found when it opened the JAR

vars == <<exists, good, pc, next, torn, opened>>

Blocks   == 1..NumBlocks
Complete == exists /\ good = Blocks

Init ==
    /\ exists = FALSE /\ good = {}
    /\ pc = [j \in Jvms |-> "off"]
    /\ next = [j \in Jvms |-> 1]
    /\ torn = FALSE
    /\ opened = [j \in Jvms |-> "no"]

Goto(j, label) == pc' = [pc EXCEPT ![j] = label]

Start(j) ==
    /\ pc[j] = "off" /\ Goto(j, "check")
    /\ opened' = [opened EXCEPT ![j] = "no"]
    /\ UNCHANGED <<exists, good, next, torn>>

-----------------------------------------------------------------------------
(* write_rt_jar_file_if_missing().                                         *)

\* Variant: the check is left out.
CheckNothing(j) ==
    /\ pc[j] = "check" /\ Goto(j, "create")
    /\ UNCHANGED <<exists, good, next, torn, opened>>

\* file_path.exists(); the parent directories are made before the file is.
Check(j) ==
    /\ pc[j] = "check"
    /\ Goto(j, IF exists THEN "add" ELSE "create")
    /\ UNCHANGED <<exists, good, next, torn, opened>>

\* File::create() truncates a file that another JVM has made since the check.
Create(j) ==
    /\ pc[j] = "create" /\ Goto(j, "write")
    /\ exists' = TRUE /\ good' = {}
    /\ next' = [next EXCEPT ![j] = 1]
    /\ UNCHANGED <<torn, opened>>

\* Variant: write() in place of write_all().
WriteOnce(j) ==
    /\ pc[j] = "write" /\ Goto(j, "add")
    /\ good' = good \union {next[j]}
    /\ next' = [next EXCEPT ![j] = @ + 1]
    /\ UNCHANGED <<exists, torn, opened>>

\* Variant: the loop does not end at the last block.
WritePastEnd(j) ==
    /\ pc[j] = "write"
    /\ good' = good \union {next[j]}
    /\ next' = [next EXCEPT ![j] = @ + 1]
    /\ Goto(j, IF next[j] > NumBlocks THEN "add" ELSE "write")
    /\ UNCHANGED <<exists, torn, opened>>

\* write_all() writes at the position of this JVM's own file descriptor.
Write(j) ==
    /\ pc[j] = "write"
    /\ good' = good \union {next[j]}
    /\ next' = [next EXCEPT ![j] = @ + 1]
    /\ Goto(j, IF next[j] = NumBlocks THEN "add" ELSE "write")
    /\ UNCHANGED <<exists, torn, opened>>

-----------------------------------------------------------------------------

\* add_to_bootstrap_class_loader_search() does not open the file.
Add(j) ==
    /\ pc[j] = "add" /\ Goto(j, "run")
    /\ UNCHANGED <<exists, good, next, torn, opened>>

\* The JVM loads its first class from the JAR.
Open(j) ==
    /\ pc[j] = "run" /\ opened[j] = "no"
    /\ opened' = [opened EXCEPT ![j] = IF Complete THEN "jar" ELSE "broken"]
    /\ UNCHANGED <<exists, good, pc, next, torn>>

\* The JVM ends, is killed, or panics since the file cannot be written.
Stop(j) ==
    /\ pc[j] # "off" /\ Goto(j, "off")
    /\ torn' = (torn \/ pc[j] = "write")
    /\ UNCHANGED <<exists, good, next, opened>>

OnLoad(j) == Check(j) \/ Create(j) \/ Write(j) \/ Add(j)

Next == \E j \in Jvms : Start(j) \/ OnLoad(j) \/ Open(j) \/ Stop(j)

Spec == Init /\ [][Next]_vars

\* The operating system runs every JVM that is alive.
FairSpec == Spec /\ \A j \in Jvms : WF_vars(OnLoad(j))

-----------------------------------------------------------------------------
(* Properties.                                                             *)

TypeOK ==
    /\ exists \in BOOLEAN /\ good \subseteq Blocks
    /\ pc \in [Jvms -> {"off", "check", "create", "write", "add", "run"}]
    /\ next \in [Jvms -> 1..NumBlocks + 1]
    /\ torn \in BOOLEAN
    /\ opened \in [Jvms -> {"no", "jar", "broken"}]

\* However many JVMs found the file missing at the same time and truncated each
\* other's, once none of them writes any more the file is the JAR, unless one
\* was killed while it wrote.
QuietFileIsComplete ==
    exists /\ ~torn /\ (\A j \in Jvms : pc[j] # "write") => Complete

\* With the whole JAR in place, and no JVM that checked before it was there, no
\* later start of a JVM damages it.
SettledJarStays ==
    [](Complete /\ (\A j \in Jvms : pc[j] # "create") => []Complete)

\* A JVM that found a file there, or wrote it, gets the whole JAR in the end,
\* unless a JVM was killed while it wrote.
JarIsCompletedEventually ==
    \A j \in Jvms : pc[j] = "run" ~> (Complete \/ torn)

\* phasicj_agent_rt/README.md: instrumentation does not cause a
\* NoClassDefFoundError.  It does if the JAR that a JVM opens is not the whole.
OpenedJarIsComplete == \A j \in Jvms : opened[j] # "broken"
=============================================================================
