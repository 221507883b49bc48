------------------------------ MODULE EventLog ------------------------------
(***************************************************************************)
(* What the PhasicJ events daemon promises to the clients that record      *)
(* events with it, without sockets, threads, locks or process lifetimes:   *)
(*                                                                         *)
(*   - a log only grows, and all its events come from one daemon process;  *)
(*   - the events of a client are stored in the order it sent them, each   *)
(*     at most once;                                                       *)
(*   - an event is acknowledged only after it is stored, and at most one   *)
(*     stored event of a client is not acknowledged.                       *)
(*                                                                         *)
(* Module Daemon implements this specification.                            *)
(***************************************************************************)
EXTENDS Naturals, Sequences

CONSTANTS
    Clients,     \* runs of a client program
    Databases,   \* database files
    NumEvents,   \* how many events each client has to send
    Boots        \* identities of the daemon processes

VARIABLES
    log,         \* for each database, the sequence of events stored in it
    acked        \* for each client, how many of its events were acknowledged

logVars == <<log, acked>>

IsStored(c, i) ==
    \E d \in Databases : \E k \in DOMAIN log[d] :
        log[d][k].client = c /\ log[d][k].idx = i

\* The stored events of c are its first n, and no others.
StoredUpTo(c, n) == \A i \in 1..NumEvents : IsStored(c, i) <=> i <= n

WrittenOnlyBy(d, b) == \A k \in DOMAIN log[d] : log[d][k].boot = b

LogInit ==
    /\ log = [d \in Databases |-> <<>>]
    /\ acked = [c \in Clients |-> 0]

Store(c, d, b) ==
    /\ acked[c] < NumEvents
    /\ StoredUpTo(c, acked[c])
    /\ WrittenOnlyBy(d, b)
    /\ log' = [log EXCEPT ![d] =
                  Append(@, [client |-> c, idx |-> acked[c] + 1, boot |-> b])]
    /\ UNCHANGED acked

Acknowledge(c) ==
    /\ acked[c] < NumEvents
    /\ StoredUpTo(c, acked[c] + 1)
    /\ acked' = [acked EXCEPT ![c] = @ + 1]
    /\ UNCHANGED log

LogNext ==
    \E c \in Clients :
        \/ \E d \in Databases, b \in Boots : Store(c, d, b)
        \/ Acknowledge(c)

LogSpec == LogInit /\ [][LogNext]_logVars
=============================================================================
