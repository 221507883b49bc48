---------------------- MODULE MCMonitorInsnInstrumenter ----------------------
(***************************************************************************)
(* Classes for MonitorInsnInstrumenter: one for each way to compose a      *)
(* method of three instructions, with any branches, and one handler at     *)
(* most; the code of javac for a synchronized block in a loop; and Object. *)
(***************************************************************************)
EXTENDS MonitorInsnInstrumenter

MCPrefixed ==
    {"instrumentationIsEnabled", "enableInstrumentation", "monitorEnter", "monitorExit"}

Do(op) == [op |-> op, to |-> 1]
Go(to) == [op |-> "branch", to |-> to]
Member(name, uses, insns, handlers) ==
    [name |-> name, uses |-> uses, insns |-> insns, handlers |-> handlers]
Use(owner, name) == [owner |-> owner, name |-> name]

Flag == Use("JavaLangObjectAmendment", "instrumentationIsEnabled")

Forward(name) ==
    Member(name, {Flag, Use("ApplicationEvents", name)},
           <<Go(3), Do("plain"), Do("return")>>, {})

\* JavaLangObjectAmendment.java, as it is compiled.
MCAmendWithClass ==
    << Member("instrumentationIsEnabled", {}, <<Do("return")>>, {}),
       Member("<init>", {Use("Object", "<init>")}, <<Do("plain"), Do("return")>>, {}),
       Member("enableInstrumentation", {Flag}, <<Do("plain"), Do("return")>>, {}),
       Forward("monitorEnter"), Forward("monitorExit") >>

Object ==
    [name |-> "Object",
     members |-> << Member("<init>", {}, <<Do("return")>>, {}),
                    Member("wait", {}, <<Do("plain"), Do("return")>>, {}) >>]

Shapes ==
    {Member("run", {}, <<a, b, Do("return")>>, hs) :
        a, b \in [op : Ops, to : {1}] \union [op : {"branch"}, to : 1..3],
        hs \in {{}} \union {{h} : h \in [from : 1..2, to : 2..4, handler : 1..3]}}

\* while (..) { synchronized (..) { .. } }: the handler covers itself.
SyncLoop ==
    Member("loop", {},
        << Go(10), Do("monitorenter"), Do("plain"), Do("monitorexit"), Go(1), Go(9),
           Do("plain"), Do("monitorexit"), Do("plain"), Do("return") >>,
        {[from |-> 3, to |-> 5, handler |-> 7], [from |-> 7, to |-> 9, handler |-> 7]})

MCClasses == {Object} \union {[name |-> "App", members |-> <<m>>] : m \in Shapes \union {SyncLoop}}
=============================================================================
