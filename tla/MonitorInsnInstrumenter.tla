----------------------- MODULE MonitorInsnInstrumenter -----------------------
(***************************************************************************)
(* The bytecode instrumenter (agent/instr/MonitorInsnInstrumenter.java,    *)
(* Instrumenter.java, Amendment.java), and a thread that executes a method *)
(* of a class that it has instrumented.                                    *)
(*                                                                         *)
(* ASM's events become operators.  What is emitted for one instruction is  *)
(* a group; a position in the new code is a group with an index in it.     *)
(***************************************************************************)
EXTENDS Integers, Sequences

CONSTANTS
    Classes,         \* the classes that are given to the instrumenter
    ClassToAmend,    \* java/lang/Object
    AmendWithName,   \* phasicj/agent/rt/JavaLangObjectAmendment
    AmendWithClass,  \* the members of that class
    Prefixed,        \* the names that begin with phasicj$agent$rt$
    MaxHeld          \* bound: how often a thread holds a monitor

Ops == {"monitorenter", "monitorexit", "plain", "branch", "return"}

\* A member has a name (which stands for its descriptor too), the members that it
\* uses, of which class, and code.  A field's code is a return.
IsMember(m) ==
    LET n == Len(m.insns) IN
    /\ m.insns \in Seq([op : Ops, to : 1..n])
    /\ n > 0 /\ m.insns[n].op = "return"
    /\ m.handlers \subseteq [from : 1..n, to : 1..n + 1, handler : 1..n]

AreMembers(ms) ==
    /\ ms \in Seq({ms[i] : i \in DOMAIN ms})
    /\ \A i \in 1..Len(ms) : IsMember(ms[i])

\* The names of the members that the amendment adds.
Added == {AmendWithClass[i].name : i \in DOMAIN AmendWithClass} \intersect Prefixed

UsesOfObject(m) == {u.name : u \in {u \in m.uses : u.owner \in {ClassToAmend, AmendWithName}}}

\* What is instrumented is what the JVM would accept, made by those who know
\* nothing of the members that are added.
ASSUME InstrumenterAssumption ==
    /\ MaxHeld \in Nat
    /\ \A c \in Classes : AreMembers(c.members) /\ \A i \in 1..Len(c.members) :
          UsesOfObject(c.members[i]) \intersect Prefixed = {}

\* The amendment is a class that was compiled: its members have different names,
\* and use those of its own members that there are.  It has what is called.
ASSUME AmendmentAssumption ==
    /\ AreMembers(AmendWithClass)
    /\ {"monitorEnter", "monitorExit"} \subseteq Added
    /\ \A i, j \in 1..Len(AmendWithClass) :
          AmendWithClass[i].name = AmendWithClass[j].name => i = j
    /\ \A i \in 1..Len(AmendWithClass) :
          UsesOfObject(AmendWithClass[i]) \intersect Prefixed \subseteq Added

VARIABLES
    class,           \* the class that was given to the instrumenter
    member,          \* which of its members is executed
    pos,             \* the position in the code
    held,            \* how often the thread has entered the monitor
    status,          \* running, or how the method completed
    last             \* what the thread executed last

vars == <<class, member, pos, held, status, last>>

-----------------------------------------------------------------------------
(* The instrumenter.                                                       *)

\* The methods of java.lang.Object that the instrumentation calls.
Call == [monitorenter |-> "monitorEnter", monitorexit |-> "monitorExit"]

\* Variant: the call after the instruction.
VisitInsnAfter(op) == IF op \in DOMAIN Call THEN <<op, Call[op]>> ELSE <<op>>

\* MethodInstrumenter re-emits every instruction, after a call if it is one of
\* the two.
VisitInsn(op) == IF op \in DOMAIN Call THEN <<Call[op], op>> ELSE <<op>>

\* Variant: a label follows the call.
LabelAfterCall(c, i) == <<i, IF i > Len(c) THEN 1 ELSE Len(VisitInsn(c[i].op))>>

\* visitLabel() is not overridden: a label, be it the target of a branch or a
\* bound of an exception handler, stays before what is emitted for its
\* instruction.
Label(c, i) == <<i, 1>>

\* Variant: references to the class itself stay.
NotRenamed(uses) == uses

\* renameClass(): what the amendment uses of its own is Object's own.
Renamed(uses) ==
    {IF u.owner = AmendWithName THEN [owner |-> ClassToAmend, name |-> u.name] ELSE u : u \in uses}

Amended(m) ==
    [name |-> m.name, uses |-> Renamed(m.uses), insns |-> m.insns, handlers |-> m.handlers]

\* Variant: every member is amended.
AcceptAll == [i \in 1..Len(AmendWithClass) |-> Amended(AmendWithClass[i])]

\* ClassMembersAmendment.accept() visits the members of the amendment in order,
\* and forwards those of the prefix: not, for instance, the constructor.
Forwarded[i \in 0..Len(AmendWithClass)] ==
    IF i = 0 THEN <<>>
    ELSE IF AmendWithClass[i].name \in Prefixed
    THEN Append(Forwarded[i - 1], Amended(AmendWithClass[i]))
    ELSE Forwarded[i - 1]

Accept == Forwarded[Len(AmendWithClass)]

\* visitEnd() adds the amendment after the last member of the class.
Visited(c) == IF c.name = ClassToAmend THEN c.members \o Accept ELSE c.members

\* What an instrumented member uses: the calls are of Object's methods.
Uses(m) ==
    m.uses \union {[owner |-> ClassToAmend, name |-> Call[op]] :
        op \in DOMAIN Call \intersect {m.insns[i].op : i \in 1..Len(m.insns)}}

-----------------------------------------------------------------------------
(* A thread executes an instrumented method.                               *)

Method == Visited(class)[member]
Insn   == Method.insns[pos[1]]
Group  == VisitInsn(Insn.op)
Item   == Group[pos[2]]

Init ==
    /\ class \in Classes
    /\ member \in 1..Len(Visited(class))
    /\ pos = <<1, 1>>
    /\ held = 0 /\ status = "running" /\ last = "none"

Execute(item) ==
    /\ status = "running" /\ Item = item
    /\ last' = item
    /\ UNCHANGED <<class, member>>

FollowingPos ==
    IF pos[2] < Len(Group) THEN <<pos[1], pos[2] + 1>> ELSE <<pos[1] + 1, 1>>

Proceed == pos' = FollowingPos /\ UNCHANGED status

CallRuntime ==
    /\ \E op \in DOMAIN Call : Execute(Call[op])
    /\ UNCHANGED held /\ Proceed

MonitorEnter == Execute("monitorenter") /\ held < MaxHeld /\ held' = held + 1 /\ Proceed

MonitorExit == Execute("monitorexit") /\ held > 0 /\ held' = held - 1 /\ Proceed

Plain == Execute("plain") /\ UNCHANGED held /\ Proceed

Branch ==
    /\ Execute("branch")
    /\ pos' \in {FollowingPos, Label(Method.insns, Insn.to)}
    /\ UNCHANGED <<held, status>>

Return == Execute("return") /\ status' = "returned" /\ UNCHANGED <<pos, held>>

IsBefore(p, q) == p[1] < q[1] \/ (p[1] = q[1] /\ p[2] < q[2])

\* The range of a handler is between two labels, so it may have calls in it, too.
Handlers ==
    {h \in Method.handlers :
        ~IsBefore(pos, Label(Method.insns, h.from)) /\ IsBefore(pos, Label(Method.insns, h.to))}

\* Also a call may throw: the runtime's classes may be impossible to load.
Throw ==
    /\ status = "running"
    /\ last' = "exception"
    /\ \/ \E h \in Handlers : pos' = Label(Method.insns, h.handler) /\ UNCHANGED status
       \/ Handlers = {} /\ status' = "thrown" /\ UNCHANGED pos
    /\ UNCHANGED <<class, member, held>>

Next == CallRuntime \/ MonitorEnter \/ MonitorExit \/ Plain \/ Branch \/ Return \/ Throw

Spec == Init /\ [][Next]_vars

-----------------------------------------------------------------------------
(* Properties.                                                             *)

\* An instrumented method does with its monitors, branches and exceptions what
\* the original one may do, also when the calls of the runtime throw: a monitor
\* that the original gives back is given back.
Original == INSTANCE MethodExecution WITH code <- Method, pc <- pos[1]
ImplementsOriginal == Original!Spec

\* No monitor is entered or left but directly after the call that announces it,
\* whatever branch or exception handler leads to the instruction.
EveryMonitorInsnIsAnnounced ==
    [][/\ held' > held => last = "monitorEnter"
       /\ held' < held => last = "monitorExit"]_vars

\* A class whose members have different names, and none of the prefix, is given
\* no second member of a name, which the JVM would not load.
MembersAreDistinct ==
    LET Names(s) == [i \in 1..Len(s) |-> s[i].name]
        Distinct(s) == \A i, j \in DOMAIN s : s[i] = s[j] => i = j
    IN  (/\ Distinct(Names(class.members))
         /\ \A i \in 1..Len(class.members) : class.members[i].name \notin Prefixed)
            => Distinct(Names(Visited(class)))

\* What an instrumented or amended method uses of Object's new members, under
\* whichever name the amendment was compiled, is there once Object is amended.
UsesResolve ==
    \A u \in Uses(Method) :
        u.owner \in {ClassToAmend, AmendWithName} /\ u.name \in Prefixed =>
            \E i \in 1..Len(Accept) : u.owner = ClassToAmend /\ u.name = Accept[i].name
=============================================================================
