----------------------- MODULE InstrumentProcessProofs -----------------------
(***************************************************************************)
(* Proofs for InstrumentProcess: no call returns a part of a class, only a *)
(* child that gave up its input is left behind by its call, and parent and *)
(* child never wait for each other, for pipes of any capacity and classes  *)
(* of any size.                                                            *)
(***************************************************************************)
EXTENDS InstrumentProcess, TLAPS

\* Where the parent and its child can be together: stdin is open exactly while
\* the class is written, so a child ends with success only after it; Cli.java closes
\* no pipe, and nothing is left of a child once its output has ended and it has ended.
CallInv ==
    /\ pc = "write" => open
    /\ pc \in {"read", "wait"} => sent = size
    /\ pc \in {"write", "read", "wait"} /\ child = "success" => put = size
    /\ pc = "wait" => taken = put /\ StdoutIsClosed
    /\ pc = "idle" => child # "running"
    /\ pc \in {"write", "read", "wait"} => child # "left"
    /\ child = "running" /\ program = "collects" => reads /\ writes

Inv == TypeOK /\ CallInv /\ ClassIsWholeOrCallFails /\ OnlyQuittersAreLeft

LEMMA InitInv == Init => Inv
<1> SUFFICES ASSUME Init PROVE Inv
  OBVIOUS
<1>1. size \in 1..MaxSize /\ sent \in 0..size /\ got \in 0..sent /\ put \in 0..got
      /\ taken \in 0..put /\ sent - got <= Capacity /\ put - taken <= Capacity
  BY ProcessAssumption DEF Init
<1>2. TypeOK
  BY <1>1 DEF Init, TypeOK
<1>3. CallInv /\ ClassIsWholeOrCallFails /\ OnlyQuittersAreLeft
  BY DEF Init, CallInv, ClassIsWholeOrCallFails, OnlyQuittersAreLeft
<1> QED
  BY <1>2, <1>3 DEF Inv

\* Steps of the parent that start or end a call.
LEMMA CallBoundary ==
  ASSUME Inv, Spawn \/ SpawnFails \/ WriteFails \/ Wait \/ JvmEnds
  PROVE  Inv'
<1> USE ProcessAssumption DEF Inv, Return, DropChild, StdinIsBroken, StdoutIsClosed
<1>1. CASE Spawn
  <2>1. size' \in 1..MaxSize /\ 0 \in 0..size' /\ 0 \in 0..0
    BY <1>1 DEF Spawn
  <2>2. TypeOK'
    BY <1>1, <2>1 DEF TypeOK, Spawn
  <2> QED
    BY <1>1, <2>2 DEF Spawn, CallInv, ClassIsWholeOrCallFails, OnlyQuittersAreLeft
<1>2. CASE SpawnFails
  BY <1>2 DEF SpawnFails, TypeOK, CallInv, ClassIsWholeOrCallFails, OnlyQuittersAreLeft
<1>3. CASE WriteFails
  <2> USE <1>3 DEF WriteFails
  <2>1. TypeOK'
    BY DEF TypeOK, CallInv
  <2>2. CallInv' /\ ClassIsWholeOrCallFails'
    BY DEF CallInv, ClassIsWholeOrCallFails
  <2>3. child = "running" => program # "collects" /\ ~reads /\ got < size
    BY DEF TypeOK, CallInv
  <2>4. OnlyQuittersAreLeft'
    BY <2>3 DEF CallInv, OnlyQuittersAreLeft
  <2> QED
    BY <2>1, <2>2, <2>4
<1>4. CASE Wait
  BY <1>4 DEF Wait, Output, TypeOK, CallInv, ClassIsWholeOrCallFails, OnlyQuittersAreLeft, process
<1>5. CASE JvmEnds
  BY <1>5 DEF JvmEnds, TypeOK, CallInv, ClassIsWholeOrCallFails, OnlyQuittersAreLeft, process
<1> QED
  BY <1>1, <1>2, <1>3, <1>4, <1>5

LEMMA NextInv == Inv /\ [Next]_vars => Inv'
<1> SUFFICES ASSUME Inv, [Next]_vars PROVE Inv'
  OBVIOUS
<1>1. CASE Spawn \/ SpawnFails \/ WriteFails \/ Wait \/ JvmEnds
  BY <1>1, CallBoundary
<1> USE ProcessAssumption DEF Inv, TypeOK, CallInv, ClassIsWholeOrCallFails,
        OnlyQuittersAreLeft, StdinIsBroken, StdoutIsClosed, vars, parent, process
<1>2. CASE Write
  BY <1>2 DEF Write
<1>3. CASE CloseStdin
  BY <1>3 DEF CloseStdin
<1>4. CASE Read \/ ReadEnd
  BY <1>4 DEF Read, ReadEnd
<1>5. CASE ChildRead \/ ChildWrite
  BY <1>5 DEF ChildRead, ChildWrite
<1>6. CASE ChildExits
  BY <1>6 DEF ChildExits, InputEnded
<1>7. CASE ChildFails \/ ChildIsKilled \/ ChildQuits
  BY <1>7 DEF ChildFails, ChildIsKilled, ChildQuits
<1>8. CASE ChildClosesStdin \/ ChildClosesStdout
  <2>1. /\ UNCHANGED <<program, size, parent, got, child, put, left>>
        /\ reads' \in BOOLEAN /\ writes' \in BOOLEAN
    BY <1>8 DEF ChildClosesStdin, ChildClosesStdout
  <2>2. program = "streams" /\ (writes' = writes \/ writes' = FALSE) /\ child = "running"
    BY <1>8 DEF ChildClosesStdin, ChildClosesStdout
  <2>3. TypeOK'
    BY <2>1
  <2> QED
    BY <2>1, <2>2, <2>3
<1>9. CASE LeftChildrenEnd
  <2>1. UNCHANGED <<program, size, parent, process>> /\ left' = FALSE
    BY <1>9 DEF LeftChildrenEnd
  <2>2. TypeOK'
    BY <2>1
  <2>3. CallInv'
    BY <2>1
  <2> QED
    BY <2>1, <2>2, <2>3
<1>10. CASE UNCHANGED vars
  BY <1>10
<1> QED
  BY <1>1, <1>2, <1>3, <1>4, <1>5, <1>6, <1>7, <1>8, <1>9, <1>10
     DEF Next, Instrument, ChildStep, ChildMay

LEMMA SpecInv == Spec => []Inv
BY InitInv, NextInv, PTL DEF Spec

\* Types, and the capacity of the two pipes (Stdio::piped() of lib.rs).
THEOREM TypeCorrect == Spec => []TypeOK
BY SpecInv, PTL DEF Inv

\* Instrumenter::instrument() accepts an output only after the end of the pipe
\* and a successful exit, so it never hands the JVM a part of a class.
THEOREM ClassesAreWhole == Spec => []ClassIsWholeOrCallFails
BY SpecInv, PTL DEF Inv

\* Instrumenter::instrument() leaves a running child behind only where write_all() fails,
\* and that needs a child that has closed its stdin early; no child of Cli.java is left.
THEOREM ChildrenAreWaitedFor == Spec => []OnlyQuittersAreLeft
BY SpecInv, PTL DEF Inv

-----------------------------------------------------------------------------
(* What liveness rests on: a call in progress is never stuck, and comes    *)
(* closer to its end with each step.                                       *)

MayWrite      == pc = "write" /\ ~StdinIsBroken /\ sent < size /\ sent - got < Capacity
MayFailWrite  == pc = "write" /\ sent < size /\ StdinIsBroken
MayCloseStdin == pc = "write" /\ sent = size
MayRead       == pc = "read" /\ taken < put
MayReadEnd    == pc = "read" /\ taken = put /\ StdoutIsClosed
MayWait       == pc = "wait" /\ child # "running"

ChildMayRead  ==
    child = "running" /\ reads /\ got < sent /\ (program = "streams" /\ pc # "dead" => got = put)
ChildMayWrite ==
    /\ child = "running" /\ writes /\ pc # "dead" /\ (program = "collects" => InputEnded)
    /\ put < got /\ put - taken < Capacity
ChildMayExit  == child = "running" /\ InputEnded /\ (put = got \/ pc = "dead")
ChildMayQuit  == child = "running" /\ ~(reads /\ writes)

\* The actions are these guards, and assignments to all variables.
LEMMA Guards ==
  /\ Write = (MayWrite /\ sent' = sent + 1
              /\ UNCHANGED <<program, size, pc, open, taken, result, process, left>>)
  /\ WriteFails = (MayFailWrite /\ open' = FALSE /\ Return("error") /\ DropChild
                   /\ UNCHANGED <<program, size, sent, taken, got, reads, writes, put>>)
  /\ CloseStdin = (MayCloseStdin /\ pc' = "read" /\ open' = FALSE
                   /\ UNCHANGED <<program, size, sent, taken, result, process, left>>)
  /\ Read = (MayRead /\ taken' = taken + 1
             /\ UNCHANGED <<program, size, pc, sent, open, result, process, left>>)
  /\ ReadEnd = (MayReadEnd /\ pc' = "wait"
                /\ UNCHANGED <<program, size, sent, open, taken, result, process, left>>)
  /\ Wait = (MayWait /\ Return(IF child = "success" THEN Output ELSE "error") /\ DropChild
             /\ UNCHANGED <<program, size, sent, open, taken, got, reads, writes, put>>)
  /\ ChildRead = (ChildMayRead /\ got' = got + 1
                  /\ UNCHANGED <<program, size, parent, child, reads, writes, put, left>>)
  /\ ChildWrite = (ChildMayWrite /\ put' = put + 1
                   /\ UNCHANGED <<program, size, parent, got, child, reads, writes, left>>)
  /\ ChildExits = (ChildMayExit /\ child' = "success"
                   /\ UNCHANGED <<program, size, parent, got, reads, writes, put, left>>)
  /\ ChildQuits = (ChildMayQuit /\ child' = "failure"
                   /\ UNCHANGED <<program, size, parent, got, reads, writes, put, left>>)
<1>1. Write = (MayWrite /\ sent' = sent + 1
               /\ UNCHANGED <<program, size, pc, open, taken, result, process, left>>)
  BY Zenon DEF Write, MayWrite
<1>2. WriteFails = (MayFailWrite /\ open' = FALSE /\ Return("error") /\ DropChild
                    /\ UNCHANGED <<program, size, sent, taken, got, reads, writes, put>>)
  BY Zenon DEF WriteFails, MayFailWrite
<1>3. CloseStdin = (MayCloseStdin /\ pc' = "read" /\ open' = FALSE
                    /\ UNCHANGED <<program, size, sent, taken, result, process, left>>)
  BY Zenon DEF CloseStdin, MayCloseStdin
<1>4. Read = (MayRead /\ taken' = taken + 1
              /\ UNCHANGED <<program, size, pc, sent, open, result, process, left>>)
  BY Zenon DEF Read, MayRead
<1>5. ReadEnd = (MayReadEnd /\ pc' = "wait"
                 /\ UNCHANGED <<program, size, sent, open, taken, result, process, left>>)
  BY Zenon DEF ReadEnd, MayReadEnd
<1>6. Wait = (MayWait /\ Return(IF child = "success" THEN Output ELSE "error") /\ DropChild
              /\ UNCHANGED <<program, size, sent, open, taken, got, reads, writes, put>>)
  BY Zenon DEF Wait, MayWait
<1>7. ChildRead = (ChildMayRead /\ got' = got + 1
                   /\ UNCHANGED <<program, size, parent, child, reads, writes, put, left>>)
  BY Zenon DEF ChildRead, ChildMayRead
<1>8. ChildWrite = (ChildMayWrite /\ put' = put + 1
                    /\ UNCHANGED <<program, size, parent, got, child, reads, writes, left>>)
  BY Zenon DEF ChildWrite, ChildMayWrite
<1>9. ChildExits = (ChildMayExit /\ child' = "success"
                    /\ UNCHANGED <<program, size, parent, got, reads, writes, put, left>>)
  BY Zenon DEF ChildExits, ChildMayExit
<1>10. ChildQuits = (ChildMayQuit /\ child' = "failure"
                     /\ UNCHANGED <<program, size, parent, got, reads, writes, put, left>>)
  BY Zenon DEF ChildQuits, ChildMayQuit
<1> QED
  BY <1>1, <1>2, <1>3, <1>4, <1>5, <1>6, <1>7, <1>8, <1>9, <1>10

\* stdin is open only while the class is written, and nothing is read before; a
\* child that streams holds at most one chunk.
FlowInv ==
    /\ pc # "write" => ~open
    /\ pc = "write" => taken = 0
    /\ program = "streams" /\ pc # "dead" => got <= put + 1

LEMMA FlowInvariant == Spec => []FlowInv
<1>1. Init => FlowInv
  BY DEF Init, FlowInv
<1>2. Inv /\ FlowInv /\ [Next]_vars => FlowInv'
  <2> SUFFICES ASSUME Inv, FlowInv, [Next]_vars PROVE FlowInv'
    OBVIOUS
  <2> USE DEF Inv, TypeOK, FlowInv, vars, parent, process, Return
  <2>1. CASE Spawn \/ SpawnFails \/ JvmEnds
    BY <2>1 DEF Spawn, SpawnFails, JvmEnds
  <2>2. CASE Instrument
    BY <2>2 DEF DropChild, Instrument, Write, WriteFails, CloseStdin, Read, ReadEnd, Wait
  <2>3. CASE ChildStep
    BY <2>3 DEF ChildStep, ChildRead, ChildWrite, ChildExits, ChildQuits
  <2>4. CASE ChildMay \/ LeftChildrenEnd \/ UNCHANGED vars
    BY <2>4 DEF ChildMay, ChildFails, ChildIsKilled, ChildClosesStdin, ChildClosesStdout,
                LeftChildrenEnd
  <2> QED
    BY <2>1, <2>2, <2>3, <2>4 DEF Next
<1> QED
  BY <1>1, <1>2, SpecInv, PTL DEF Spec

\* In a call whose child reads its input before it writes, or whose class fits, the
\* parent or the child may always go on; so may a child that the JVM has left behind.
CallIsNotStuck ==
    (pc \in {"write", "read", "wait"} \/ child = "running") /\ (program = "collects" \/ FitsInPipes) =>
        \/ MayWrite \/ MayFailWrite \/ MayCloseStdin \/ MayRead \/ MayReadEnd \/ MayWait
        \/ ChildMayRead \/ ChildMayWrite \/ ChildMayExit \/ ChildMayQuit

\* Whatever pipes hold and however large a class is, Instrumenter::instrument() and
\* its child never wait for each other.
THEOREM NoCallIsStuck == Spec => []CallIsNotStuck
<1>1. Inv /\ FlowInv => CallIsNotStuck
  <2> SUFFICES ASSUME Inv, FlowInv,
                      pc \in {"write", "read", "wait"} \/ child = "running",
                      program = "collects" \/ FitsInPipes
               PROVE  \/ MayWrite \/ MayFailWrite \/ MayCloseStdin \/ MayRead \/ MayReadEnd
                      \/ MayWait \/ ChildMayRead \/ ChildMayWrite \/ ChildMayExit \/ ChildMayQuit
    BY DEF CallIsNotStuck
  <2> USE ProcessAssumption DEF Inv, TypeOK, CallInv, FlowInv, InputEnded, StdinIsBroken, StdoutIsClosed
  <2> USE DEF ChildMayQuit
  <2>1. CASE pc = "write"
    <3>1. CASE sent = size
      BY <2>1, <3>1 DEF MayCloseStdin
    <3>2. CASE sent < size /\ child # "running"
      BY <2>1, <3>2 DEF MayFailWrite
    <3>3. CASE sent < size /\ child = "running" /\ sent - got < Capacity
      BY <2>1, <3>3 DEF MayWrite
    <3>4. CASE sent < size /\ child = "running" /\ sent - got = Capacity
      <4>1. got < sent
        BY <3>4
      <4>2. CASE program = "collects" \/ got = put
        BY <3>4, <4>1, <4>2 DEF ChildMayRead
      <4>3. CASE program = "streams" /\ put < got
        <5>1. FitsInPipes
          BY <4>3
        <5>2. put < Capacity
          BY <2>1, <3>4, <4>3, <5>1 DEF FitsInPipes
        <5> QED
          BY <2>1, <3>4, <4>3, <5>2 DEF ChildMayWrite
      <4> QED
        BY <4>2, <4>3
    <3> QED
      BY <3>1, <3>2, <3>3, <3>4
  <2>2. CASE pc = "read"
    <3>1. CASE taken < put
      BY <2>2, <3>1 DEF MayRead
    <3>2. CASE taken = put /\ child # "running"
      BY <2>2, <3>2 DEF MayReadEnd
    <3>3. CASE taken = put /\ child = "running" /\ got < sent
      <4>1. CASE program = "collects" \/ got = put
        BY <3>3, <4>1 DEF ChildMayRead
      <4>2. CASE program = "streams" /\ put < got
        BY <2>2, <3>3, <4>2 DEF ChildMayWrite
      <4> QED
        BY <4>1, <4>2
    <3>4. CASE taken = put /\ child = "running" /\ got = sent
      BY <2>2, <3>4 DEF ChildMayWrite, ChildMayExit
    <3> QED
      BY <3>1, <3>2, <3>3, <3>4
  <2>3. CASE pc = "wait"
    BY <2>3 DEF MayWait
  <2>4. CASE pc = "dead" /\ child = "running"
    BY <2>4 DEF ChildMayRead, ChildMayExit
  <2> QED
    BY <2>1, <2>2, <2>3, <2>4
<1> QED
  BY <1>1, SpecInv, FlowInvariant, PTL

\* How many steps a call and its child can still take.
StepsLeft ==
    4 * size - sent - got - put - taken
    + (CASE pc = "write" -> 3 [] pc = "read" -> 2 [] pc = "wait" -> 1 [] OTHER -> 0)
    + (IF child = "running" THEN 1 ELSE 0) + (IF reads THEN 1 ELSE 0) + (IF writes THEN 1 ELSE 0)

\* Every step of a call of Instrumenter::instrument() and of its child, also the last
\* ones, brings them closer to their ends, so that no call goes on for ever.
THEOREM CallsRunOut == Spec => [][
    /\ StepsLeft \in Nat
    /\ Instrument \/ ChildStep \/ ChildMay => StepsLeft' < StepsLeft]_vars
<1>1. Inv => StepsLeft \in Nat
  BY DEF Inv, TypeOK, StepsLeft
<1>2. Inv /\ Inv' /\ (Instrument \/ ChildStep \/ ChildMay) => StepsLeft' < StepsLeft
  <2> SUFFICES ASSUME Inv, Instrument \/ ChildStep \/ ChildMay
               PROVE  StepsLeft' < StepsLeft
    OBVIOUS
  <2> USE DEF Inv, TypeOK, StepsLeft, parent, process, Return, DropChild
  <2>1. CASE Instrument
    BY <2>1 DEF Instrument, Write, WriteFails, CloseStdin, Read, ReadEnd, Wait
  <2>2. CASE ChildStep
    BY <2>2 DEF ChildStep, ChildRead, ChildWrite, ChildExits, ChildQuits
  <2>3. CASE ChildFails \/ ChildIsKilled
    BY <2>3 DEF ChildFails, ChildIsKilled
  <2>4. CASE ChildClosesStdin
    BY <2>4 DEF ChildClosesStdin
  <2>5. CASE ChildClosesStdout
    BY <2>5 DEF ChildClosesStdout
  <2> QED
    BY <2>1, <2>2, <2>3, <2>4, <2>5 DEF ChildMay
<1> QED
  BY <1>1, <1>2, SpecInv, PTL DEF Spec
=============================================================================
