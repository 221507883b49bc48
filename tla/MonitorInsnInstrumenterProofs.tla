-------------------- MODULE MonitorInsnInstrumenterProofs --------------------
(***************************************************************************)
(* Proofs for MonitorInsnInstrumenter: for every class, every code and     *)
(* every table of exception handlers, an instrumented method implements    *)
(* the original one, and announces each of its monitor instructions.       *)
(***************************************************************************)
EXTENDS MonitorInsnInstrumenter, WellFoundedInduction, TLAPS

Calls == {"monitorEnter", "monitorExit"}

LEMMA Element ==
  ASSUME NEW S, NEW s \in Seq(S), NEW i \in 1..Len(s)
  PROVE  s[i] \in S
OBVIOUS

\* A group is its instruction, or a call followed by its instruction.
LEMMA GroupOf ==
  ASSUME NEW op \in Ops
  PROVE  /\ op = "monitorenter" => VisitInsn(op) = <<"monitorEnter", op>>
         /\ op = "monitorexit" => VisitInsn(op) = <<"monitorExit", op>>
         /\ op \notin {"monitorenter", "monitorexit"} => VisitInsn(op) = <<op>>
<1>1. DOMAIN Call = {"monitorenter", "monitorexit"}
  BY DEF Call
<1> QED
  BY <1>1 DEF VisitInsn, Call

\* The types of the variables: a thread that executes an instrumented method
\* stays in its code.
TypeOK ==
    /\ class \in Classes /\ member \in 1..Len(Visited(class))
    /\ pos[1] \in 1..Len(Method.insns) /\ pos[2] \in 1..Len(Group)
    /\ held \in 0..MaxHeld
    /\ status \in {"running", "returned", "thrown"}

\* The code that is executed, and where the thread can be in it: behind a call
\* only if it has just executed that call.
PosInv ==
    /\ class \in Classes /\ member \in 1..Len(Visited(class))
    /\ pos = <<pos[1], pos[2]>>
    /\ pos[1] \in 1..Len(Method.insns)
    /\ pos[2] \in 1..Len(Group)
    /\ status = "running" /\ pos[2] = 2 => last = Group[1]

Inv == TypeOK /\ PosInv

\* Induction, as a property of sets of numbers.
LEMMA StrongInduction ==
  ASSUME NEW S, \A n \in Nat : (\A m \in 0..n - 1 : m \in S) => n \in S
  PROVE  \A n \in Nat : n \in S
<1> DEFINE T == Nat \ S
<1>1. SUFFICES ASSUME T # {} PROVE FALSE
  OBVIOUS
<1>2. T \subseteq Nat
  OBVIOUS
<1>3. PICK x \in T : \A y \in T : <<y, x>> \notin OpToRel(<, Nat)
  <2> HIDE DEF T
  <2> QED
    BY <1>1, <1>2, NatLessThanWellFounded, WFMin
<1>4. \A y \in T : ~(y < x)
  BY <1>3 DEF OpToRel
<1> QED
  BY <1>4

Body(f, i) ==
    IF i = 0 THEN <<>>
    ELSE IF AmendWithClass[i].name \in Prefixed
    THEN Append(f[i - 1], Amended(AmendWithClass[i]))
    ELSE f[i - 1]

\* The recursion of Forwarded is well-founded.
LEMMA ForwardedDef ==
  \A i \in 0..Len(AmendWithClass) : Forwarded[i] = Body(Forwarded, i)
<1> DEFINE n == Len(AmendWithClass)
           Solves(f, k) == f = [i \in 0..n |-> f[i]] /\ \A i \in 0..k : f[i] = Body(f, i)
           K == {k \in Nat : k <= n => \E f : Solves(f, k)}
<1>1. n \in Nat
  BY AmendmentAssumption DEF AreMembers
<1>2. ASSUME NEW k \in Nat, \A m \in 0..k - 1 : m \in K
      PROVE  k \in K
  <2>1. SUFFICES ASSUME k <= n PROVE \E f : Solves(f, k)
    OBVIOUS
  <2>2. CASE k = 0
    <3>1. Solves([i \in 0..n |-> <<>>], k)
      BY <1>1, <2>2 DEF Body
    <3> QED
      BY <3>1
  <2>3. CASE k # 0
    <3>1. k - 1 \in K /\ k - 1 <= n
      BY <1>1, <1>2, <2>1, <2>3
    <3>2. PICK f : Solves(f, k - 1)
      BY <3>1
    <3> DEFINE g == [i \in 0..n |-> IF i = k THEN Body(f, k) ELSE f[i]]
    <3>3. \A i \in 0..k : Body(g, i) = Body(f, i)
      BY <1>1, <2>1, <2>3 DEF Body
    <3>4. ASSUME NEW i \in 0..k PROVE g[i] = Body(g, i)
      <4>1. CASE i = k
        BY <1>1, <2>1, <3>3, <4>1
      <4>2. CASE i # k
        <5>1. i \in 0..k - 1 /\ g[i] = f[i]
          BY <1>1, <2>1, <4>2
        <5> QED
          BY <3>2, <3>3, <5>1
      <4> QED
        BY <4>1, <4>2
    <3>5. Solves(g, k)
      BY <3>4
    <3> QED
      BY <3>5
  <2> QED
    BY <2>2, <2>3
<1>3. n \in K
  <2> HIDE DEF K
  <2>1. \A k \in Nat : k \in K
    BY <1>2, StrongInduction
  <2> QED
    BY <1>1, <2>1
<1>4. PICK f : Solves(f, n)
  BY <1>1, <1>3
<1>5. f = [i \in 0..n |-> Body(f, i)]
  BY <1>1, <1>4
<1>6. Forwarded = CHOOSE g : g = [i \in 0..n |-> Body(g, i)]
  BY DEF Forwarded, Body
<1>7. Forwarded = [i \in 0..n |-> Body(Forwarded, i)]
  BY <1>5, <1>6
<1> QED
  BY <1>7

\* The members that the amendment adds are those of the prefix, each once.
IsFiltered(i) ==
    /\ Forwarded[i] \in Seq({Amended(AmendWithClass[k]) : k \in 1..Len(AmendWithClass)})
    /\ \A j \in 1..Len(Forwarded[i]) : \E k \in 1..i :
          Forwarded[i][j] = Amended(AmendWithClass[k]) /\ AmendWithClass[k].name \in Prefixed
    /\ \A k \in 1..i : AmendWithClass[k].name \in Prefixed =>
          \E j \in 1..Len(Forwarded[i]) : Forwarded[i][j] = Amended(AmendWithClass[k])
    /\ \A j, k \in 1..Len(Forwarded[i]) :
          Forwarded[i][j].name = Forwarded[i][k].name => j = k

LEMMA ForwardedIsFiltered == \A i \in 0..Len(AmendWithClass) : IsFiltered(i)
<1> DEFINE n == Len(AmendWithClass)
           A == {Amended(AmendWithClass[k]) : k \in 1..n}
           K == {i \in Nat : i <= n => IsFiltered(i)}
<1>1. n \in Nat
  BY AmendmentAssumption DEF AreMembers
<1>2. ASSUME NEW i \in Nat, \A m \in 0..i - 1 : m \in K
      PROVE  i \in K
  <2>1. SUFFICES ASSUME i <= n PROVE IsFiltered(i)
    OBVIOUS
  <2>2. Forwarded[i] = Body(Forwarded, i)
    BY <1>1, <2>1, ForwardedDef
  <2>3. CASE i = 0
    <3>1. Forwarded[i] = <<>>
      BY <2>2, <2>3 DEF Body
    <3> QED
      BY <2>3, <3>1 DEF IsFiltered
  <2>4. CASE i # 0
    <3>1. i - 1 \in 0..i - 1 /\ i \in 1..n
      BY <1>1, <2>1, <2>4
    <3>2. IsFiltered(i - 1)
      BY <1>1, <1>2, <2>1, <3>1
    <3> DEFINE g == Forwarded[i - 1]
               m == Amended(AmendWithClass[i])
    <3>3. CASE AmendWithClass[i].name \notin Prefixed
      <4>1. Forwarded[i] = g
        BY <2>2, <2>4, <3>3 DEF Body
      <4> QED
        BY <3>1, <3>2, <3>3, <4>1 DEF IsFiltered
    <3>4. CASE AmendWithClass[i].name \in Prefixed
      <4>1. Forwarded[i] = Append(g, m) /\ g \in Seq(A) /\ m \in A
        BY <2>2, <2>4, <3>1, <3>2, <3>4 DEF Body, IsFiltered
      <4>2. /\ Forwarded[i] \in Seq(A) /\ Len(g) \in Nat /\ Len(Forwarded[i]) = Len(g) + 1
            /\ \A j \in 1..Len(g) : Forwarded[i][j] = g[j]
            /\ Forwarded[i][Len(g) + 1] = m
        <5> HIDE DEF g, m, A
        <5> QED
          BY <4>1
      <4>3. m.name = AmendWithClass[i].name
        BY DEF Amended
      <4>4. ASSUME NEW j \in 1..Len(g)
            PROVE  /\ \E k \in 1..i - 1 :
                         g[j] = Amended(AmendWithClass[k]) /\ AmendWithClass[k].name \in Prefixed
                   /\ g[j].name # m.name
        <5>1. PICK k \in 1..i - 1 :
                 g[j] = Amended(AmendWithClass[k]) /\ AmendWithClass[k].name \in Prefixed
          BY <3>2 DEF IsFiltered
        <5>2. AmendWithClass[k].name # AmendWithClass[i].name
          BY <3>1, <5>1, AmendmentAssumption
        <5> QED
          BY <4>3, <5>1, <5>2 DEF Amended
      <4>5. \A j, k \in 1..Len(g) : g[j].name = g[k].name => j = k
        BY <3>2 DEF IsFiltered
      <4>6. \A k \in 1..i - 1 : AmendWithClass[k].name \in Prefixed =>
               \E j \in 1..Len(g) : g[j] = Amended(AmendWithClass[k])
        BY <3>2 DEF IsFiltered
      <4>7. \A j \in 1..Len(g) + 1 : j \in 1..Len(g) \/ j = Len(g) + 1
        BY <4>2
      <4>8. \A j \in 1..Len(Forwarded[i]) : \E k \in 1..i :
               Forwarded[i][j] = Amended(AmendWithClass[k]) /\ AmendWithClass[k].name \in Prefixed
        <5>1. \A j \in 1..Len(g) : \E k \in 1..i :
                 Forwarded[i][j] = Amended(AmendWithClass[k]) /\ AmendWithClass[k].name \in Prefixed
          BY <3>1, <4>2, <4>4
        <5>2. \E k \in 1..i :
                 Forwarded[i][Len(g) + 1] = Amended(AmendWithClass[k]) /\ AmendWithClass[k].name \in Prefixed
          BY <3>1, <3>4, <4>2
        <5> QED
          BY <4>2, <4>7, <5>1, <5>2
      <4>9. ASSUME NEW k \in 1..i, AmendWithClass[k].name \in Prefixed
            PROVE  \E j \in 1..Len(Forwarded[i]) : Forwarded[i][j] = Amended(AmendWithClass[k])
        <5>1. CASE k = i
          <6>1. Len(g) + 1 \in 1..Len(Forwarded[i]) /\ Forwarded[i][Len(g) + 1] = m
            BY <4>2
          <6> QED
            BY <5>1, <6>1
        <5>2. CASE k \in 1..i - 1
          <6>1. PICK j \in 1..Len(g) : g[j] = Amended(AmendWithClass[k])
            BY <4>6, <4>9, <5>2
          <6>2. j \in 1..Len(Forwarded[i]) /\ Forwarded[i][j] = g[j]
            BY <4>2
          <6> QED
            BY <6>1, <6>2
        <5> QED
          BY <3>1, <5>1, <5>2
      <4>10. \A j, k \in 1..Len(Forwarded[i]) :
                Forwarded[i][j].name = Forwarded[i][k].name => j = k
        BY <4>2, <4>4, <4>5, <4>7
      <4> QED
        BY <4>2, <4>8, <4>9, <4>10 DEF IsFiltered
    <3> QED
      BY <3>3, <3>4
  <2> QED
    BY <2>3, <2>4
<1> HIDE DEF K
<1>3. \A i \in Nat : i \in K
  BY <1>2, StrongInduction
<1> QED
  BY <1>1, <1>3 DEF K

LEMMA AcceptIsFiltered ==
  /\ Accept \in Seq({Amended(AmendWithClass[k]) : k \in 1..Len(AmendWithClass)})
  /\ \A j \in 1..Len(Accept) : \E k \in 1..Len(AmendWithClass) :
        Accept[j] = Amended(AmendWithClass[k]) /\ AmendWithClass[k].name \in Prefixed
  /\ \A k \in 1..Len(AmendWithClass) : AmendWithClass[k].name \in Prefixed =>
        \E j \in 1..Len(Accept) : Accept[j] = Amended(AmendWithClass[k])
  /\ \A j, k \in 1..Len(Accept) : Accept[j].name = Accept[k].name => j = k
<1>1. Len(AmendWithClass) \in 0..Len(AmendWithClass)
  BY AmendmentAssumption DEF AreMembers
<1> QED
  BY <1>1, ForwardedIsFiltered DEF Accept, IsFiltered

\* Every member of an instrumented class is one of the class or one of the
\* amendment.
LEMMA VisitedMembers ==
  ASSUME NEW c \in Classes
  PROVE  /\ Len(c.members) \in Nat /\ Len(Accept) \in Nat
         /\ Len(Visited(c)) = Len(c.members) + (IF c.name = ClassToAmend THEN Len(Accept) ELSE 0)
         /\ \A i \in 1..Len(c.members) : Visited(c)[i] = c.members[i]
         /\ \A i \in 1..Len(Visited(c)) : i > Len(c.members) =>
               /\ c.name = ClassToAmend /\ i - Len(c.members) \in 1..Len(Accept)
               /\ Visited(c)[i] = Accept[i - Len(c.members)]
<1> DEFINE S == {c.members[i] : i \in DOMAIN c.members}
           A == {Amended(AmendWithClass[k]) : k \in 1..Len(AmendWithClass)}
<1>1. c.members \in Seq(S) /\ Accept \in Seq(A)
  BY InstrumenterAssumption, AcceptIsFiltered DEF AreMembers
<1> HIDE DEF S, A
<1>2. c.members \in Seq(S \union A) /\ Accept \in Seq(S \union A)
  BY <1>1
<1>3. CASE c.name = ClassToAmend
  <2>1. Visited(c) = c.members \o Accept
    BY <1>3 DEF Visited
  <2> QED
    BY <1>2, <1>3, <2>1
<1>4. CASE c.name # ClassToAmend
  <2>1. Visited(c) = c.members
    BY <1>4 DEF Visited
  <2> QED
    BY <1>2, <1>4, <2>1
<1> QED
  BY <1>3, <1>4

LEMMA VisitedIsOwnOrAdded ==
  ASSUME NEW c \in Classes, NEW i \in 1..Len(Visited(c))
  PROVE  \/ i \in 1..Len(c.members) /\ Visited(c)[i] = c.members[i]
         \/ /\ i > Len(c.members)
            /\ \E k \in 1..Len(AmendWithClass) :
                 /\ Visited(c)[i] = Amended(AmendWithClass[k])
                 /\ AmendWithClass[k].name \in Prefixed
<1>1. Len(c.members) \in Nat /\ Len(Accept) \in Nat /\ Len(Visited(c)) \in Nat
  BY VisitedMembers
<1>2. CASE i <= Len(c.members)
  <2>1. i \in 1..Len(c.members)
    BY <1>1, <1>2
  <2> QED
    BY <2>1, VisitedMembers
<1>3. CASE i > Len(c.members)
  <2>1. i - Len(c.members) \in 1..Len(Accept) /\ Visited(c)[i] = Accept[i - Len(c.members)]
    BY <1>3, VisitedMembers
  <2> QED
    BY <1>3, <2>1, AcceptIsFiltered
<1> QED
  BY <1>1, <1>2, <1>3

LEMMA VisitedAreMembers ==
  ASSUME NEW c \in Classes, NEW i \in 1..Len(Visited(c))
  PROVE  IsMember(Visited(c)[i])
<1>1. CASE i \in 1..Len(c.members) /\ Visited(c)[i] = c.members[i]
  BY <1>1, InstrumenterAssumption DEF AreMembers
<1>2. ASSUME NEW k \in 1..Len(AmendWithClass), Visited(c)[i] = Amended(AmendWithClass[k])
      PROVE  IsMember(Visited(c)[i])
  <2>1. IsMember(AmendWithClass[k])
    BY AmendmentAssumption DEF AreMembers
  <2> QED
    BY <1>2, <2>1 DEF IsMember, Amended
<1> QED
  BY <1>1, <1>2, VisitedIsOwnOrAdded

LEMMA MethodType ==
  ASSUME class \in Classes, member \in 1..Len(Visited(class))
  PROVE  /\ IsMember(Method)
         /\ \A i \in 1..Len(Method.insns) :
               Method.insns[i].op \in Ops /\ Method.insns[i].to \in 1..Len(Method.insns)
<1>1. IsMember(Method)
  BY VisitedAreMembers DEF Method
<1>2. ASSUME NEW i \in 1..Len(Method.insns)
      PROVE  Method.insns[i].op \in Ops /\ Method.insns[i].to \in 1..Len(Method.insns)
  <2>1. Method.insns \in Seq([op : Ops, to : 1..Len(Method.insns)])
    BY <1>1 DEF IsMember
  <2>2. Method.insns[i] \in [op : Ops, to : 1..Len(Method.insns)]
    BY <2>1, Element
  <2> QED
    BY <2>2
<1> QED
  BY <1>1, <1>2

\* What the thread executes, from where it is.
LEMMA ItemCases ==
  ASSUME Inv
  PROVE  /\ Insn.op \in Ops /\ Insn.to \in 1..Len(Method.insns)
         /\ Len(Method.insns) \in Nat \ {0}
         /\ \/ /\ pos[2] = 1 /\ Item \in Calls /\ Len(Group) = 2
               /\ Insn.op = "monitorenter" => Item = "monitorEnter"
               /\ Insn.op = "monitorexit" => Item = "monitorExit"
            \/ /\ pos[2] = Len(Group) /\ Item = Insn.op
               /\ Item = "monitorenter" => pos[2] = 2 /\ Group[1] = "monitorEnter"
               /\ Item = "monitorexit" => pos[2] = 2 /\ Group[1] = "monitorExit"
<1>1. IsMember(Method)
  BY MethodType DEF Inv, PosInv
<1>2. Insn.op \in Ops /\ Insn.to \in 1..Len(Method.insns)
  BY MethodType DEF Inv, PosInv, Insn
<1>3. Len(Method.insns) \in Nat \ {0}
  BY <1>1 DEF IsMember
<1>4. CASE Insn.op = "monitorenter"
  <2>1. Group = <<"monitorEnter", "monitorenter">> /\ Len(Group) = 2
    BY <1>2, <1>4, GroupOf DEF Group
  <2>2. pos[2] \in {1, 2}
    BY <2>1 DEF Inv, PosInv
  <2> QED
    BY <1>2, <1>3, <1>4, <2>1, <2>2 DEF Item, Calls
<1>5. CASE Insn.op = "monitorexit"
  <2>1. Group = <<"monitorExit", "monitorexit">> /\ Len(Group) = 2
    BY <1>2, <1>5, GroupOf DEF Group
  <2>2. pos[2] \in {1, 2}
    BY <2>1 DEF Inv, PosInv
  <2> QED
    BY <1>2, <1>3, <1>5, <2>1, <2>2 DEF Item, Calls
<1>6. CASE Insn.op \notin {"monitorenter", "monitorexit"}
  <2>1. Group = <<Insn.op>> /\ Len(Group) = 1
    BY <1>2, <1>6, GroupOf DEF Group
  <2>2. pos[2] = 1
    BY <2>1 DEF Inv, PosInv
  <2> QED
    BY <1>2, <1>3, <1>6, <2>1, <2>2 DEF Item
<1> QED
  BY <1>4, <1>5, <1>6

LEMMA InitInv == Init => Inv
<1> SUFFICES ASSUME Init PROVE Inv
  OBVIOUS
<1>1. IsMember(Method)
  BY MethodType DEF Init
<1>2. pos = <<1, 1>> /\ 1 \in 1..Len(Method.insns)
  BY <1>1 DEF Init, IsMember
<1>3. Insn.op \in Ops
  BY <1>2, MethodType DEF Init, Insn
<1>4. Len(Group) \in {1, 2}
  <2>1. VisitInsn(Insn.op) = <<"monitorEnter", Insn.op>> \/ VisitInsn(Insn.op) = <<"monitorExit", Insn.op>>
        \/ VisitInsn(Insn.op) = <<Insn.op>>
    BY <1>3, GroupOf
  <2> QED
    BY <2>1 DEF Group
<1>5. pos[1] \in 1..Len(Method.insns) /\ pos[2] \in 1..Len(Group)
  BY <1>2, <1>4
<1>6. TypeOK
  BY <1>5, InstrumenterAssumption DEF Init, TypeOK
<1>7. PosInv
  BY <1>2, <1>5 DEF Init, PosInv
<1> QED
  BY <1>6, <1>7 DEF Inv

\* Steps that leave the thread at the beginning of a group, where labels are.
LEMMA AtLabel ==
  ASSUME Inv, UNCHANGED <<class, member>>,
         NEW i \in 1..Len(Method.insns), pos' = <<i, 1>>,
         held' \in 0..MaxHeld, status' \in {"running", "returned", "thrown"}
  PROVE  Inv'
<1>1. Method' = Method
  BY DEF Method
<1>2. pos' = <<i, 1>> /\ pos'[1] = i /\ pos'[2] = 1
  OBVIOUS
<1>3. Len(Group') \in {1, 2}
  <2>1. Insn' = Method.insns[i]
    BY <1>1, <1>2 DEF Insn
  <2>2. Insn'.op \in Ops
    BY <2>1, MethodType DEF Inv, PosInv
  <2>3. VisitInsn(Insn'.op) = <<"monitorEnter", Insn'.op>> \/ VisitInsn(Insn'.op) = <<"monitorExit", Insn'.op>>
        \/ VisitInsn(Insn'.op) = <<Insn'.op>>
    BY <2>2, GroupOf
  <2>4. Len(VisitInsn(Insn'.op)) \in {1, 2}
    BY <2>3
  <2> QED
    BY <2>4 DEF Group
<1>4. class' \in Classes /\ member' \in 1..Len(Visited(class'))
  BY DEF Inv, PosInv
<1>5. pos'[1] \in 1..Len(Method'.insns) /\ pos'[2] \in 1..Len(Group')
  BY <1>1, <1>2, <1>3
<1>6. TypeOK'
  BY <1>4, <1>5 DEF TypeOK
<1>7. PosInv'
  BY <1>2, <1>4, <1>5 DEF PosInv
<1> QED
  BY <1>6, <1>7 DEF Inv

\* An execution that proceeds goes from a call to its instruction, from an
\* instruction to the beginning of the next group.
LEMMA Proceeds ==
  ASSUME Inv, UNCHANGED <<class, member>>, last' = Item, Item # "return",
         held' \in 0..MaxHeld, Proceed
  PROVE  /\ Inv'
         /\ Item \in Calls => pos'[1] = pos[1]
         /\ Item \notin Calls => pos' = <<pos[1] + 1, 1>>
<1>1. Method' = Method
  BY DEF Method
<1>2. CASE pos[2] = 1 /\ Item \in Calls /\ Len(Group) = 2
  <2>1. pos' = <<pos[1], 2>>
    BY <1>2 DEF Proceed, FollowingPos
  <2>2. Group' = Group
    BY <1>1, <2>1 DEF Group, Insn
  <2>3. last' = Group'[1]
    BY <1>2, <2>2 DEF Item
  <2> QED
    BY <1>1, <1>2, <2>1, <2>2, <2>3 DEF Inv, TypeOK, PosInv, Proceed
<1>3. CASE pos[2] = Len(Group) /\ Item = Insn.op
  <2>1. pos' = <<pos[1] + 1, 1>>
    BY <1>3 DEF Proceed, FollowingPos
  <2>2. pos[1] # Len(Method.insns)
    BY <1>3, MethodType DEF Inv, PosInv, Insn, IsMember
  <2>3. pos[1] + 1 \in 1..Len(Method.insns)
    BY <2>2, ItemCases DEF Inv, PosInv
  <2>4. Inv'
    BY <2>1, <2>3, AtLabel DEF Proceed, Inv, TypeOK
  <2>5. Item \notin Calls
    BY <1>3, ItemCases DEF Ops, Calls
  <2> QED
    BY <2>1, <2>4, <2>5
<1> QED
  BY <1>2, <1>3, ItemCases

\* Throw: a handler begins at a label, and no thread goes on behind a call that
\* has thrown.
LEMMA Throws == Inv /\ Throw => Inv'
<1> SUFFICES ASSUME Inv, Throw PROVE Inv'
  OBVIOUS
<1>1. CASE \E h \in Handlers : pos' = Label(Method.insns, h.handler) /\ UNCHANGED status
  <2>1. PICK h \in Handlers : pos' = Label(Method.insns, h.handler) /\ UNCHANGED status
    BY <1>1
  <2>2. h.handler \in 1..Len(Method.insns)
    BY MethodType DEF Inv, PosInv, IsMember, Handlers
  <2> QED
    BY <2>1, <2>2, AtLabel DEF Label, Throw, Inv, TypeOK
<1>2. CASE Handlers = {} /\ status' = "thrown" /\ UNCHANGED pos
  <2>1. Method' = Method
    BY DEF Method, Throw
  <2>2. Group' = Group
    BY <1>2, <2>1 DEF Group, Insn
  <2> QED
    BY <1>2, <2>1, <2>2 DEF Throw, Inv, TypeOK, PosInv
<1> QED
  BY <1>1, <1>2 DEF Throw

LEMMA Stutters == Inv /\ UNCHANGED vars => Inv' /\ UNCHANGED Method
<1> SUFFICES ASSUME Inv, UNCHANGED vars PROVE Inv' /\ UNCHANGED Method
  OBVIOUS
<1>1. Method' = Method
  BY DEF Method, vars
<1>2. Group' = Group
  BY <1>1 DEF Group, Insn, vars
<1> QED
  BY <1>1, <1>2 DEF Inv, TypeOK, PosInv, vars

LEMMA NextInv == Inv /\ [Next]_vars => Inv'
<1> SUFFICES ASSUME Inv, [Next]_vars PROVE Inv'
  OBVIOUS
<1> USE DEF Execute
<1>1. CASE CallRuntime
  BY <1>1, Proceeds DEF CallRuntime, Inv, TypeOK, Call
<1>2. CASE MonitorEnter
  <2>1. held' \in 0..MaxHeld
    BY <1>2, InstrumenterAssumption DEF MonitorEnter, Inv, TypeOK
  <2> QED
    BY <1>2, <2>1, Proceeds DEF MonitorEnter
<1>3. CASE MonitorExit
  <2>1. held' \in 0..MaxHeld
    BY <1>3, InstrumenterAssumption DEF MonitorExit, Inv, TypeOK
  <2> QED
    BY <1>3, <2>1, Proceeds DEF MonitorExit
<1>4. CASE Plain
  BY <1>4, Proceeds DEF Plain, Inv, TypeOK
<1>5. CASE Branch
  <2>1. CASE pos' = FollowingPos
    BY <1>5, <2>1, Proceeds DEF Branch, Proceed, Inv, TypeOK
  <2>2. CASE pos' = Label(Method.insns, Insn.to)
    BY <1>5, <2>2, AtLabel, ItemCases DEF Label, Branch, Inv, TypeOK
  <2> QED
    BY <1>5, <2>1, <2>2 DEF Branch
<1>6. CASE Return
  <2>1. Method' = Method
    BY <1>6 DEF Method, Return
  <2>2. Group' = Group
    BY <1>6, <2>1 DEF Group, Insn, Return
  <2> QED
    BY <1>6, <2>1, <2>2 DEF Return, Inv, TypeOK, PosInv
<1>7. CASE Throw
  BY <1>7, Throws
<1>8. CASE UNCHANGED vars
  BY <1>8, Stutters
<1> QED
  BY <1>1, <1>2, <1>3, <1>4, <1>5, <1>6, <1>7, <1>8 DEF Next

LEMMA SpecInv == Spec => []Inv
BY InitInv, NextInv, PTL DEF Spec

\* Types, and that the thread stays in the code.
THEOREM TypeCorrect == Spec => []TypeOK
BY SpecInv, PTL DEF Inv

\* MethodInstrumenter: nothing leads to a monitor instruction but its call.
THEOREM MonitorInsnsAreAnnounced == Spec => EveryMonitorInsnIsAnnounced
<1> DEFINE Announced == /\ held' > held => last = "monitorEnter"
                        /\ held' < held => last = "monitorExit"
<1>1. Inv /\ [Next]_vars => [Announced]_vars
  <2> SUFFICES ASSUME Inv, Next PROVE Announced
    OBVIOUS
  <2>1. CASE MonitorEnter
    <3>1. last = "monitorEnter" /\ held' = held + 1
      BY <2>1, ItemCases DEF MonitorEnter, Execute, Inv, PosInv, Calls
    <3> QED
      BY <3>1 DEF Inv, TypeOK
  <2>2. CASE MonitorExit
    <3>1. last = "monitorExit" /\ held' = held - 1
      BY <2>2, ItemCases DEF MonitorExit, Execute, Inv, PosInv, Calls
    <3> QED
      BY <3>1 DEF Inv, TypeOK
  <2>3. CASE CallRuntime \/ Plain \/ Branch \/ Return \/ Throw
    BY <2>3 DEF CallRuntime, Plain, Branch, Return, Throw, Inv, TypeOK
  <2> QED
    BY <2>1, <2>2, <2>3 DEF Next
<1> QED
  BY <1>1, SpecInv, PTL DEF Spec, EveryMonitorInsnIsAnnounced

-----------------------------------------------------------------------------
(* Refinement: a call maps to a step that leaves the method alone, and an  *)
(* exception that it throws to one of the instruction after it.            *)

\* A step that executes an instruction of the original method, and proceeds.
LEMMA ProceedsToo ==
  ASSUME Inv, NEW op \in Ops, op # "return", Execute(op), held' \in 0..MaxHeld, Proceed
  PROVE  Original!At(op) /\ Original!Proceed
<1>1. Item = op /\ op \notin Calls
  BY DEF Execute, Ops, Calls
<1>2. Insn.op = op
  BY <1>1, ItemCases
<1>3. Original!At(op)
  BY <1>2 DEF Original!At, Execute, Insn
<1>4. pos'[1] = pos[1] + 1
  BY <1>1, Proceeds DEF Execute
<1>5. Method' = Method
  BY DEF Method, Execute
<1> QED
  BY <1>3, <1>4, <1>5 DEF Original!Proceed, Proceed

LEMMA StepRefines == Inv /\ [Next]_vars => [Original!Next]_(Original!vars)
<1> SUFFICES ASSUME Inv, [Next]_vars
             PROVE  Original!Next \/ UNCHANGED Original!vars
  OBVIOUS
<1> USE DEF Original!Next
<1>0. ASSUME UNCHANGED <<class, member>> PROVE Method' = Method
  BY <1>0 DEF Method
<1>1. CASE CallRuntime
  <2>1. pos'[1] = pos[1]
    BY <1>1, Proceeds DEF CallRuntime, Execute, Call, Calls, Inv, TypeOK
  <2> QED
    BY <1>0, <1>1, <2>1 DEF CallRuntime, Execute, Proceed, Original!vars
<1>2. CASE MonitorEnter
  <2>1. held' \in 0..MaxHeld
    BY <1>2, InstrumenterAssumption DEF MonitorEnter, Inv, TypeOK
  <2> QED
    BY <1>2, <2>1, ProceedsToo DEF MonitorEnter, Original!MonitorEnter, Ops
<1>3. CASE MonitorExit
  <2>1. held' \in 0..MaxHeld
    BY <1>3, InstrumenterAssumption DEF MonitorExit, Inv, TypeOK
  <2> QED
    BY <1>3, <2>1, ProceedsToo DEF MonitorExit, Original!MonitorExit, Ops
<1>4. CASE Plain
  BY <1>4, ProceedsToo DEF Plain, Original!Plain, Ops, Inv, TypeOK
<1>5. CASE Branch
  <2>1. Insn.op = "branch" /\ Original!At("branch")
    BY <1>5, ItemCases DEF Branch, Execute, Calls, Original!At, Insn
  <2>2. CASE pos' = FollowingPos
    <3>1. Original!Proceed
      BY <1>5, <2>2, ProceedsToo DEF Branch, Proceed, Ops, Inv, TypeOK
    <3> QED
      BY <1>5, <2>1, <3>1 DEF Branch, Original!Branch, Original!Proceed
  <2>3. CASE pos' = Label(Method.insns, Insn.to)
    <3>1. pos'[1] = Method.insns[pos[1]].to
      BY <2>3 DEF Label, Insn
    <3> QED
      BY <1>0, <1>5, <2>1, <3>1 DEF Branch, Execute, Original!Branch
  <2> QED
    BY <1>5, <2>2, <2>3 DEF Branch
<1>6. CASE Return
  <2>1. Insn.op = "return"
    BY <1>6, ItemCases DEF Return, Execute, Calls
  <2> QED
    BY <1>0, <1>6, <2>1 DEF Return, Execute, Insn, Original!Return, Original!At
<1>7. CASE Throw
  <2>1. Original!Handlers = Handlers
    <3>1. pos[1] \in Nat /\ pos[2] \in Nat \ {0}
      BY ItemCases DEF Inv, PosInv
    <3>2. IsMember(Method)
      BY MethodType DEF Inv, PosInv
    <3>3. ASSUME NEW h \in Method.handlers
          PROVE  h.from \in Nat /\ h.to \in Nat
      BY <3>2 DEF IsMember
    <3> QED
      BY <3>1, <3>3 DEF Handlers, IsBefore, Label, Original!Handlers
  <2>2. ASSUME NEW h \in Handlers, pos' = Label(Method.insns, h.handler)
        PROVE  pos'[1] = h.handler
    BY <2>2 DEF Label
  <2> QED
    BY <1>0, <1>7, <2>1, <2>2 DEF Throw, Original!Throw
<1>8. CASE UNCHANGED vars
  BY <1>0, <1>8 DEF vars, Original!vars
<1> QED
  BY <1>1, <1>2, <1>3, <1>4, <1>5, <1>6, <1>7, <1>8 DEF Next

\* MonitorInsnInstrumenter.instrument(): the code with calls, which may throw,
\* implements the code without them.
THEOREM InstrumentedImplementsOriginal == Spec => ImplementsOriginal
<1>1. Init => Original!Start
  BY DEF Init, Original!Start
<1> QED
  BY <1>1, SpecInv, StepRefines, PTL DEF Spec, ImplementsOriginal, Original!Spec

\* For every class and every amendment: a class whose members have different
\* names, and none of the prefix, has no two members of a name afterwards
\* (Amendment.java, accept()).
THEOREM AmendedMembersAreDistinct == Spec => []MembersAreDistinct
<1>1. ASSUME class \in Classes PROVE MembersAreDistinct
  <2> DEFINE v == Visited(class)
  <2>1. SUFFICES ASSUME \A i, j \in 1..Len(class.members) :
                           class.members[i].name = class.members[j].name => i = j,
                        \A i \in 1..Len(class.members) : class.members[i].name \notin Prefixed,
                        NEW i \in 1..Len(v), NEW j \in 1..Len(v), v[i].name = v[j].name
                 PROVE  i = j
    BY VisitedMembers, <1>1 DEF MembersAreDistinct
  <2>2. Len(class.members) \in Nat /\ Len(v) \in Nat
    BY <1>1, VisitedMembers
  <2>3. ASSUME NEW k \in 1..Len(v)
        PROVE  \/ k \in 1..Len(class.members) /\ v[k] = class.members[k] /\ v[k].name \notin Prefixed
               \/ k > Len(class.members) /\ v[k].name \in Prefixed
    <3>1. CASE k \in 1..Len(class.members) /\ v[k] = class.members[k]
      BY <2>1, <3>1
    <3>2. ASSUME NEW l \in 1..Len(AmendWithClass), k > Len(class.members),
                 v[k] = Amended(AmendWithClass[l]), AmendWithClass[l].name \in Prefixed
          PROVE  k > Len(class.members) /\ v[k].name \in Prefixed
      BY <3>2 DEF Amended
    <3> QED
      BY <1>1, <3>1, <3>2, VisitedIsOwnOrAdded
  <2>4. CASE i <= Len(class.members) /\ j <= Len(class.members)
    BY <2>1, <2>2, <2>3, <2>4
  <2>5. CASE i > Len(class.members) /\ j > Len(class.members)
    <3>1. /\ i - Len(class.members) \in 1..Len(Accept)
          /\ j - Len(class.members) \in 1..Len(Accept)
          /\ Accept[i - Len(class.members)].name = Accept[j - Len(class.members)].name
      BY <1>1, <2>1, <2>5, VisitedMembers
    <3>2. i - Len(class.members) = j - Len(class.members)
      BY <3>1, AcceptIsFiltered
    <3> QED
      BY <1>1, <3>2, VisitedMembers
  <2> QED
    BY <2>1, <2>2, <2>3, <2>4, <2>5
<1>2. Inv => MembersAreDistinct
  BY <1>1 DEF Inv, TypeOK
<1> QED
  BY <1>2, SpecInv, PTL

\* For every class and every amendment: what any executed method uses of
\* Object's new members is among those that the amendment adds, under Object's
\* name (Amendment.java, renameClass()).
THEOREM AddedUsesResolve == Spec => []UsesResolve
<1>1. ASSUME class \in Classes, member \in 1..Len(Visited(class)) PROVE UsesResolve
  <2>1. SUFFICES ASSUME NEW u \in Uses(Method),
                        u.owner \in {ClassToAmend, AmendWithName}, u.name \in Prefixed
                 PROVE  \E i \in 1..Len(Accept) : u.owner = ClassToAmend /\ u.name = Accept[i].name
    BY DEF UsesResolve
  <2>2. ASSUME NEW name \in Added PROVE \E i \in 1..Len(Accept) : name = Accept[i].name
    <3>1. PICK k \in 1..Len(AmendWithClass) : name = AmendWithClass[k].name /\ name \in Prefixed
      BY AmendmentAssumption DEF Added, AreMembers
    <3>2. PICK i \in 1..Len(Accept) : Accept[i] = Amended(AmendWithClass[k])
      BY <3>1, AcceptIsFiltered
    <3> QED
      BY <3>1, <3>2 DEF Amended
  <2>3. CASE u \notin Method.uses
    <3>1. PICK op \in DOMAIN Call : u = [owner |-> ClassToAmend, name |-> Call[op]]
      BY <2>3 DEF Uses
    <3>2. u.owner = ClassToAmend /\ u.name \in {"monitorEnter", "monitorExit"}
      BY <3>1 DEF Call
    <3> QED
      BY <2>2, <3>2, AmendmentAssumption
  <2>4. CASE u \in Method.uses /\ member \in 1..Len(class.members) /\ Method = class.members[member]
    <3>1. u.name \in UsesOfObject(class.members[member]) \intersect Prefixed
      BY <2>1, <2>4 DEF UsesOfObject
    <3> QED
      BY <1>1, <2>4, <3>1, InstrumenterAssumption
  <2>5. ASSUME NEW k \in 1..Len(AmendWithClass), u \in Method.uses, Method = Amended(AmendWithClass[k])
        PROVE  \E i \in 1..Len(Accept) : u.owner = ClassToAmend /\ u.name = Accept[i].name
    <3>2. u \in Renamed(AmendWithClass[k].uses)
      BY <2>5 DEF Amended
    <3>3. PICK w \in AmendWithClass[k].uses :
             u = IF w.owner = AmendWithName THEN [owner |-> ClassToAmend, name |-> w.name] ELSE w
      BY <3>2 DEF Renamed
    <3>4. u.owner = ClassToAmend /\ w.owner \in {ClassToAmend, AmendWithName} /\ u.name = w.name
      BY <2>1, <3>3
    <3>5. w.name \in UsesOfObject(AmendWithClass[k]) \intersect Prefixed
      BY <2>1, <3>4 DEF UsesOfObject
    <3>6. u.name \in Added
      BY <3>4, <3>5, AmendmentAssumption
    <3> QED
      BY <2>2, <3>4, <3>6
  <2> QED
    BY <1>1, <2>3, <2>4, <2>5, VisitedIsOwnOrAdded DEF Method
<1>2. Inv => UsesResolve
  BY <1>1 DEF Inv, TypeOK
<1> QED
  BY <1>2, SpecInv, PTL
=============================================================================
