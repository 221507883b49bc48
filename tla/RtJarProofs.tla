---------------------------- MODULE RtJarProofs ----------------------------
(***************************************************************************)
(* The JAR file of the runtime, for every number of JVMs and every length. *)
(***************************************************************************)
EXTENDS RtJar, TLAPS

\* The JVM that truncated the file last writes all of it: as long as the file
\* is not complete, the blocks that it lacks are ahead of some JVM.
SomeJvmRepairs ==
    exists /\ ~torn /\ good # Blocks =>
        \E j \in Jvms : pc[j] = "write" /\ \A b \in Blocks : b < next[j] => b \in good

WritersInRange == \A j \in Jvms : pc[j] = "write" => next[j] <= NumBlocks

Inv == TypeOK /\ SomeJvmRepairs /\ WritersInRange

LEMMA InvInit == Init => Inv
<1> SUFFICES ASSUME Init
             PROVE  Inv
  OBVIOUS
<1>1. next \in [Jvms -> 1..NumBlocks + 1]
  BY JarAssumption DEF Init
<1>2. TypeOK
  BY <1>1 DEF Init, TypeOK
<1>3. SomeJvmRepairs /\ WritersInRange
  BY DEF Init, SomeJvmRepairs, WritersInRange
<1> QED
  BY <1>2, <1>3 DEF Inv

\* Steps that leave the file and the writers alone.
LEMMA InvOther ==
  ASSUME Inv, NEW j \in Jvms,
         Start(j) \/ Check(j) \/ Add(j) \/ Open(j)
  PROVE  Inv'
<1>1. /\ UNCHANGED <<exists, good, next, torn>>
      /\ \A k \in Jvms : pc'[k] = "write" <=> pc[k] = "write"
  BY DEF Inv, TypeOK, Start, Check, Add, Open, Goto
<1>2. TypeOK'
  <2>1. pc' \in [Jvms -> {"off", "check", "create", "write", "add", "run"}]
    BY DEF Inv, TypeOK, Start, Check, Add, Open, Goto
  <2>2. opened' \in [Jvms -> {"no", "jar", "broken"}]
    BY DEF Inv, TypeOK, Start, Check, Add, Open
  <2> QED
    BY <1>1, <2>1, <2>2 DEF Inv, TypeOK, Blocks
<1> QED
  BY <1>1, <1>2 DEF Inv, SomeJvmRepairs, WritersInRange, Blocks

LEMMA InvCreate ==
  ASSUME Inv, NEW j \in Jvms, Create(j)
  PROVE  Inv'
<1> USE JarAssumption DEF Create, Goto
<1>1. TypeOK'
  BY DEF Inv, TypeOK
<1>2. pc'[j] = "write" /\ next'[j] = 1
  BY DEF Inv, TypeOK
<1>3. SomeJvmRepairs'
  BY <1>2 DEF SomeJvmRepairs, Blocks
<1>4. WritersInRange'
  BY <1>2 DEF Inv, WritersInRange, TypeOK
<1> QED
  BY <1>1, <1>3, <1>4 DEF Inv

LEMMA InvWrite ==
  ASSUME Inv, NEW j \in Jvms, Write(j)
  PROVE  Inv'
<1> USE JarAssumption DEF Write
<1>1. next[j] \in Blocks /\ next'[j] = next[j] + 1 /\ good' = good \union {next[j]}
  BY DEF Inv, TypeOK, WritersInRange, Blocks
<1>2. pc'[j] = IF next[j] = NumBlocks THEN "add" ELSE "write"
  BY DEF Inv, TypeOK, Goto
<1>3. \A k \in Jvms \ {j} : pc'[k] = pc[k] /\ next'[k] = next[k]
  BY DEF Inv, TypeOK, Goto
<1>4. TypeOK'
  <2>1. pc' \in [Jvms -> {"off", "check", "create", "write", "add", "run"}]
    BY DEF Inv, TypeOK, Goto
  <2>2. next' \in [Jvms -> 1..NumBlocks + 1]
    BY <1>1 DEF Inv, TypeOK, Blocks
  <2> QED
    BY <1>1, <2>1, <2>2 DEF Inv, TypeOK
<1>5. WritersInRange'
  BY <1>1, <1>2, <1>3 DEF Inv, WritersInRange, Blocks
<1>6. SomeJvmRepairs'
  <2>1. SUFFICES ASSUME exists, ~torn, good' # Blocks
                 PROVE  \E k \in Jvms : pc'[k] = "write"
                           /\ \A b \in Blocks : b < next'[k] => b \in good'
    BY DEF SomeJvmRepairs, Blocks
  <2>2. good # Blocks
    BY <1>1, <2>1
  <2>3. PICK k \in Jvms : pc[k] = "write" /\ \A b \in Blocks : b < next[k] => b \in good
    BY <2>1, <2>2 DEF Inv, SomeJvmRepairs
  <2>4. CASE k = j
    <3>1. \A b \in Blocks : b < next'[j] => b \in good'
      BY <1>1, <2>3, <2>4 DEF Blocks
    <3>2. next[j] # NumBlocks
      <4>1. SUFFICES ASSUME next[j] = NumBlocks
                     PROVE  Blocks \subseteq good'
        BY <1>1, <2>1 DEF Inv, TypeOK
      <4> QED
        BY <1>1, <3>1, <4>1 DEF Blocks
    <3> QED
      BY <1>2, <3>1, <3>2
  <2>5. CASE k # j
    BY <1>1, <1>3, <2>3, <2>5
  <2> QED
    BY <2>4, <2>5
<1> QED
  BY <1>4, <1>5, <1>6 DEF Inv

\* A JVM that stops while it writes tears the file; another stop takes no writer.
LEMMA InvStop ==
  ASSUME Inv, NEW j \in Jvms, Stop(j)
  PROVE  Inv'
<1> USE DEF Stop, Goto
<1>1. TypeOK'
  <2>1. pc' \in [Jvms -> {"off", "check", "create", "write", "add", "run"}]
    BY DEF Inv, TypeOK
  <2> QED
    BY <2>1 DEF Inv, TypeOK, Blocks
<1>2. \A k \in Jvms : pc'[k] = "write" => pc[k] = "write"
  BY DEF Inv, TypeOK
<1>3. ~torn' => \A k \in Jvms : pc[k] = "write" => pc'[k] = "write"
  BY DEF Inv, TypeOK
<1>4. WritersInRange'
  BY <1>2 DEF Inv, WritersInRange
<1>5. SomeJvmRepairs'
  BY <1>3 DEF Inv, SomeJvmRepairs, Blocks
<1> QED
  BY <1>1, <1>4, <1>5 DEF Inv

LEMMA InvNext ==
  ASSUME Inv, [Next]_vars
  PROVE  Inv'
<1>1. CASE UNCHANGED vars
  BY <1>1 DEF vars, Inv, TypeOK, SomeJvmRepairs, WritersInRange, Blocks
<1> QED
  BY <1>1, InvOther, InvCreate, InvWrite, InvStop DEF Next, OnLoad

\* The invariant holds in every reachable state of the JVMs and their JAR.
THEOREM Invariance == Spec => []Inv
<1>1. Inv /\ [Next]_vars => Inv'
  BY InvNext
<1> QED
  BY <1>1, InvInit, PTL DEF Spec

\* The variables keep their types: no JVM writes past the end of the JAR.
THEOREM TypeCorrect == Spec => []TypeOK
<1>1. Inv => TypeOK
  BY DEF Inv
<1> QED
  BY <1>1, Invariance, PTL

\* JVMs that race to write the JAR leave the whole of it.
THEOREM RacingWritersAgree == Spec => []QuietFileIsComplete
<1>1. Inv => QuietFileIsComplete
  BY DEF Inv, SomeJvmRepairs, QuietFileIsComplete, Complete
<1> QED
  BY <1>1, Invariance, PTL

\* No JVM is between its check and its truncation of a complete JAR.
Settled == Complete /\ \A j \in Jvms : pc[j] # "create"

LEMMA SettledNext ==
  ASSUME TypeOK, WritersInRange, Settled, [Next]_vars
  PROVE  Settled'
<1> USE DEF Settled, Complete
<1>1. CASE UNCHANGED vars
  BY <1>1 DEF vars, Blocks
<1>2. ASSUME NEW j \in Jvms, Start(j) \/ OnLoad(j) \/ Open(j) \/ Stop(j)
      PROVE  Settled'
  <2>1. \A k \in Jvms : pc'[k] # "create"
    BY <1>2 DEF TypeOK, Start, OnLoad, Check, Create, Write, Add, Open, Stop, Goto
  <2>2. exists' = TRUE
    BY <1>2 DEF TypeOK, Start, OnLoad, Check, Create, Write, Add, Open, Stop
  <2>3. good' = Blocks
    <3>1. CASE Write(j)
      BY <3>1 DEF TypeOK, Write, WritersInRange, Blocks
    <3>2. CASE ~Write(j)
      BY <1>2, <3>2 DEF Start, OnLoad, Check, Create, Add, Open, Stop
    <3> QED
      BY <3>1, <3>2
  <2> QED
    BY <2>1, <2>2, <2>3 DEF Blocks
<1> QED
  BY <1>1, <1>2 DEF Next

\* Once the whole JAR is in place and no JVM holds a stale check, it stays.
THEOREM JarStays == Spec => SettledJarStays
<1>1. Inv => TypeOK /\ WritersInRange
  BY DEF Inv
<1>2. TypeOK /\ WritersInRange /\ Settled /\ [Next]_vars => Settled'
  BY SettledNext
<1>3. Spec => [](Settled => []Settled)
  BY <1>1, <1>2, Invariance, PTL DEF Spec
<1>4. Settled => Complete
  BY DEF Settled
<1>5. (Complete /\ \A j \in Jvms : pc[j] # "create") => Settled
  BY DEF Settled
<1> QED
  BY <1>3, <1>4, <1>5, PTL DEF SettledJarStays
=============================================================================
