--------------------------- MODULE MethodExecution ---------------------------
(***************************************************************************)
(* What a thread of the JVM does with the code of one method, as far as    *)
(* monitors and the flow of control go.  The code is a sequence of         *)
(* instructions [op, to] with a set of exception handlers, each for the    *)
(* instructions from `from` to before `to`.                                *)
(***************************************************************************)
EXTENDS Integers, Sequences

CONSTANT MaxHeld   \* bound: how often the thread holds the monitor
VARIABLES
    code,          \* of the method
    pc,            \* the instruction to be executed
    held,          \* how often the thread has entered the monitor
    status         \* running, or how the method completed

vars == <<code, pc, held, status>>

Start == pc = 1 /\ held = 0 /\ status = "running"

At(op) == status = "running" /\ code.insns[pc].op = op

Proceed == pc' = pc + 1 /\ UNCHANGED <<code, status>>

MonitorEnter == At("monitorenter") /\ held < MaxHeld /\ held' = held + 1 /\ Proceed

MonitorExit == At("monitorexit") /\ held > 0 /\ held' = held - 1 /\ Proceed

Plain == At("plain") /\ UNCHANGED held /\ Proceed

Branch ==
    /\ At("branch")
    /\ pc' \in {pc + 1, code.insns[pc].to}
    /\ UNCHANGED <<code, held, status>>

Return == At("return") /\ status' = "returned" /\ UNCHANGED <<code, pc, held>>

Handlers == {h \in code.handlers : h.from <= pc /\ pc < h.to}

\* Any instruction may complete abruptly, if only for an asynchronous exception.
Throw ==
    /\ status = "running"
    /\ \/ \E h \in Handlers : pc' = h.handler /\ UNCHANGED status
       \/ Handlers = {} /\ status' = "thrown" /\ UNCHANGED pc
    /\ UNCHANGED <<code, held>>

Next == MonitorEnter \/ MonitorExit \/ Plain \/ Branch \/ Return \/ Throw

Spec == Start /\ [][Next]_vars
=============================================================================
