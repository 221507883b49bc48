------------------------------- MODULE Daemon -------------------------------
(***************************************************************************)
(* The PhasicJ events daemon (daemon/main.rs, daemon/rtevents.rs), the     *)
(* clients that replay recorded events to it                               *)
(* (daemon/tests/sqlite_replay_client/main.rs), and what outlives a daemon *)
(* process: its UNIX domain socket file and its SQLite databases.          *)
(*                                                                         *)
(* Each request is handled by a Tokio task that, having no await, occupies *)
(* one of `Workers` threads from its start to its return, while it blocks  *)
(* on the std::sync::Mutex around the one SQLite connection too.  A panic  *)
(* while that mutex is held poisons it for the rest of the process.        *)
(***************************************************************************)
EXTENDS Naturals, Sequences, FiniteSets

CONSTANTS
    Clients,     \* runs of the replay client
    Databases,   \* values of the daemon's --database option
    NumEvents,   \* rows in the database each client replays
    Workers,     \* worker threads of the Tokio runtime
    MaxBoots,    \* bound: how often the daemon is started
    NoClient     \* stands for "nobody holds the mutex"

ASSUME DaemonAssumption ==
    /\ IsFiniteSet(Clients)
    /\ NumEvents \in Nat
    /\ Workers \in Nat \ {0}
    /\ MaxBoots \in Nat
    /\ NoClient \notin Clients

VARIABLES
    daemon,      \* where the daemon process is in main()
    boot,        \* how many times it was started
    database,    \* the --database option of the last start
    socketFile,  \* does the socket file exist?
    created,     \* databases in which the table `rtevents` exists
    log,         \* rows of that table, per database
    holder,      \* the handler that holds the mutex
    poisoned,    \* is the mutex poisoned?
    handler,     \* where the handler of each client's request is
    client,      \* where each client is in its main()
    acked        \* events acknowledged to each client

storage == <<created, log>>
process == <<daemon, boot, database, socketFile>>
mutex   == <<holder, poisoned>>
rpc     == <<handler, client, acked>>
vars    == <<process, storage, mutex, rpc>>

DaemonStates  == {"down", "starting", "bound", "serving"}
\* "queued" is a request that no worker thread has picked up yet.
HandlerStates == {"none", "queued", "running", "locked", "inserted", "replying"}
ClientStates  == {"start", "ready", "waiting", "done", "failed"}

Row == [client : Clients, idx : 1..NumEvents, boot : 1..MaxBoots]

Init ==
    /\ daemon = "down" /\ boot = 0
    /\ database \in Databases
    /\ socketFile = FALSE
    /\ created = {}
    /\ log = [d \in Databases |-> <<>>]
    /\ holder = NoClient /\ poisoned = FALSE
    /\ handler = [c \in Clients |-> "none"]
    /\ client = [c \in Clients |-> "start"]
    /\ acked = [c \in Clients |-> 0]

-----------------------------------------------------------------------------
(* The daemon process.                                                     *)

\* Variant: the client sends the event again.
RetryIfWaiting(c) == IF client[c] = "waiting" THEN "ready" ELSE client[c]

\* A client whose call fails returns the error from main().
FailIfWaiting(c) == IF client[c] = "waiting" THEN "failed" ELSE client[c]

\* The process is gone, and with it every request and the mutex.  The socket
\* file and the databases stay.
ProcessEnds ==
    /\ daemon' = "down"
    /\ holder' = NoClient /\ poisoned' = FALSE
    /\ handler' = [c \in Clients |-> "none"]
    /\ client' = [c \in Clients |-> FailIfWaiting(c)]
    /\ UNCHANGED <<boot, database, socketFile, storage, acked>>

StartDaemon(d) ==
    /\ daemon = "down" /\ boot < MaxBoots
    /\ daemon' = "starting"
    /\ boot' = boot + 1
    /\ database' = d
    /\ UNCHANGED <<socketFile, storage, mutex, rpc>>

Bind ==
    /\ daemon = "starting" /\ ~socketFile
    /\ daemon' = "bound"
    /\ socketFile' = TRUE
    /\ UNCHANGED <<boot, database, storage, mutex, rpc>>

\* EADDRINUSE: a socket file is there, even if nobody listens on it.
BindPanics == daemon = "starting" /\ socketFile /\ ProcessEnds

\* Variant: CREATE TABLE IF NOT EXISTS.
CreateTableIfNotExists ==
    /\ daemon = "bound"
    /\ daemon' = "serving"
    /\ created' = created \union {database}
    /\ UNCHANGED <<boot, database, socketFile, log, mutex, rpc>>

CreateTable ==
    /\ daemon = "bound" /\ database \notin created
    /\ daemon' = "serving"
    /\ created' = created \union {database}
    /\ UNCHANGED <<boot, database, socketFile, log, mutex, rpc>>

\* The table exists already: CREATE TABLE has no IF NOT EXISTS.
CreateTablePanics == daemon = "bound" /\ database \in created /\ ProcessEnds

\* The process is killed, or accept() yields an error, which ends the server
\* with an error that is unwrapped.
Crash == daemon # "down" /\ ProcessEnds

RemoveSocketFile ==
    /\ daemon = "down" /\ socketFile
    /\ socketFile' = FALSE
    /\ UNCHANGED <<daemon, boot, database, storage, mutex, rpc>>

-----------------------------------------------------------------------------
(* A client.                                                               *)

\* From bind() on, the kernel queues connections for the daemon to accept.
Listening == daemon \in {"bound", "serving"}

Connect(c) ==
    /\ client[c] = "start"
    /\ client' = [client EXCEPT ![c] = IF Listening THEN "ready" ELSE "failed"]
    /\ UNCHANGED <<process, storage, mutex, handler, acked>>

\* Variant: one event too many.
SendPastEnd(c) ==
    /\ client[c] = "ready" /\ Listening
    /\ client' = [client EXCEPT ![c] = "waiting"]
    /\ handler' = [handler EXCEPT ![c] = "queued"]
    /\ UNCHANGED <<process, storage, mutex, acked>>

\* The channel connects again if the daemon it was connected to is gone.
Send(c) ==
    /\ client[c] = "ready" /\ acked[c] < NumEvents
    /\ IF Listening
       THEN /\ client' = [client EXCEPT ![c] = "waiting"]
            /\ handler' = [handler EXCEPT ![c] = "queued"]
       ELSE /\ client' = [client EXCEPT ![c] = "failed"]
            /\ UNCHANGED handler
    /\ UNCHANGED <<process, storage, mutex, acked>>

\* Variant: the client does not send its last event.
FinishEarly(c) ==
    /\ client[c] = "ready" /\ acked[c] + 1 = NumEvents
    /\ client' = [client EXCEPT ![c] = "done"]
    /\ UNCHANGED <<process, storage, mutex, handler, acked>>

Finish(c) ==
    /\ client[c] = "ready" /\ acked[c] = NumEvents
    /\ client' = [client EXCEPT ![c] = "done"]
    /\ UNCHANGED <<process, storage, mutex, handler, acked>>

\* The client is killed while it waits.  A request that no worker thread has
\* picked up may be lost with it; one that runs goes on.
KillClient(c) ==
    /\ client[c] = "waiting"
    /\ client' = [client EXCEPT ![c] = "failed"]
    /\ \/ UNCHANGED handler
       \/ /\ handler[c] = "queued"
          /\ handler' = [handler EXCEPT ![c] = "none"]
    /\ UNCHANGED <<process, storage, mutex, acked>>

-----------------------------------------------------------------------------
(* record_events(), as called by client c.                                 *)

Busy == {c \in Clients : handler[c] \notin {"none", "queued"}}

BeginHandler(c) ==
    /\ daemon = "serving" /\ handler[c] = "queued"
    /\ Cardinality(Busy) < Workers
    /\ handler' = [handler EXCEPT ![c] = "running"]
    /\ UNCHANGED <<process, storage, mutex, client, acked>>

HandlerPanics(c) ==
    /\ handler' = [handler EXCEPT ![c] = "none"]
    /\ client' = [client EXCEPT ![c] = FailIfWaiting(c)]
    /\ UNCHANGED <<process, storage, acked>>

\* Variants: no mutual exclusion; a handler that recovers the poisoned guard.
LockShared(c) ==
    /\ handler[c] = "running" /\ ~poisoned
    /\ handler' = [handler EXCEPT ![c] = "locked"]
    /\ holder' = c
    /\ UNCHANGED <<process, storage, poisoned, client, acked>>

LockIgnoringPoison(c) ==
    /\ handler[c] = "running" /\ holder = NoClient
    /\ handler' = [handler EXCEPT ![c] = "locked"]
    /\ holder' = c
    /\ UNCHANGED <<process, storage, poisoned, client, acked>>

Lock(c) ==
    /\ handler[c] = "running" /\ holder = NoClient /\ ~poisoned
    /\ handler' = [handler EXCEPT ![c] = "locked"]
    /\ holder' = c
    /\ UNCHANGED <<process, storage, poisoned, client, acked>>

LockPanics(c) ==
    /\ handler[c] = "running" /\ holder = NoClient /\ poisoned
    /\ HandlerPanics(c)
    /\ UNCHANGED mutex

Insert(c) ==
    /\ handler[c] = "locked"
    /\ log' = [log EXCEPT ![database] =
                  Append(@, [client |-> c, idx |-> acked[c] + 1, boot |-> boot])]
    /\ handler' = [handler EXCEPT ![c] = "inserted"]
    /\ UNCHANGED <<process, created, mutex, client, acked>>

\* Variants: the error is ignored; the guard is leaked.
InsertErrorIgnored(c) ==
    /\ handler[c] = "locked"
    /\ handler' = [handler EXCEPT ![c] = "inserted"]
    /\ UNCHANGED <<process, storage, mutex, client, acked>>

InsertPanicsLocked(c) ==
    /\ handler[c] = "locked"
    /\ HandlerPanics(c)
    /\ UNCHANGED mutex

\* The database is locked by another process, or the disk is full, ...: the
\* panic drops the guard of the mutex, which poisons it.
InsertPanics(c) ==
    /\ handler[c] = "locked"
    /\ holder' = NoClient /\ poisoned' = TRUE
    /\ HandlerPanics(c)

Unlock(c) ==
    /\ handler[c] = "inserted"
    /\ handler' = [handler EXCEPT ![c] = "replying"]
    /\ holder' = NoClient
    /\ UNCHANGED <<process, storage, poisoned, client, acked>>

\* Nobody receives the reply if the client has been killed.
Reply(c) ==
    /\ handler[c] = "replying"
    /\ handler' = [handler EXCEPT ![c] = "none"]
    /\ IF client[c] = "waiting"
       THEN /\ client' = [client EXCEPT ![c] = "ready"]
            /\ acked' = [acked EXCEPT ![c] = @ + 1]
       ELSE UNCHANGED <<client, acked>>
    /\ UNCHANGED <<process, storage, mutex>>

-----------------------------------------------------------------------------
Startup == Bind \/ BindPanics \/ CreateTable \/ CreateTablePanics
ClientStep(c) == Connect(c) \/ Send(c) \/ Finish(c)
HandlerStep(c) ==
    \/ BeginHandler(c) \/ Lock(c) \/ LockPanics(c)
    \/ Insert(c) \/ InsertPanics(c) \/ Unlock(c) \/ Reply(c)

Next ==
    \/ \E d \in Databases : StartDaemon(d)
    \/ Startup
    \/ Crash
    \/ RemoveSocketFile
    \/ \E c \in Clients : ClientStep(c) \/ KillClient(c) \/ HandlerStep(c)

Spec == Init /\ [][Next]_vars

\* The threads of a live process run: main() gets through its startup, each
\* worker thread through its handler, each client through its main().  Nobody
\* has to start or to crash the daemon, or to kill a client.
FairSpec ==
    /\ Spec
    /\ WF_vars(Startup)
    /\ \A c \in Clients : WF_vars(ClientStep(c)) /\ WF_vars(HandlerStep(c))

-----------------------------------------------------------------------------
(* Properties.                                                             *)

TypeOK ==
    /\ daemon \in DaemonStates
    /\ boot \in 0..MaxBoots
    /\ database \in Databases
    /\ socketFile \in BOOLEAN
    /\ created \subseteq Databases
    /\ log \in [Databases -> Seq(Row)]
    /\ holder \in Clients \union {NoClient}
    /\ poisoned \in BOOLEAN
    /\ handler \in [Clients -> HandlerStates]
    /\ client \in [Clients -> ClientStates]
    /\ acked \in [Clients -> 0..NumEvents]

Promise == INSTANCE EventLog WITH Boots <- 1..MaxBoots

\* The daemon with its threads, its mutex, its failures and its restarts
\* implements the log that EventLog specifies.
ImplementsEventLog == Promise!LogSpec

\* The acknowledgements a client has got never run ahead of what is stored, in
\* whatever order handlers, panics and restarts interleave: the handler
\* replies only after the autocommitted INSERT, and at most one INSERT of a
\* client is ever unacknowledged.
AckedIsStored ==
    \A c \in Clients :
        \/ Promise!StoredUpTo(c, acked[c])
        \/ Promise!StoredUpTo(c, acked[c] + 1) /\ client[c] \in {"waiting", "failed"}

\* No event is stored twice or out of order, also when the daemon that stored
\* it crashes before the acknowledgement and the client reconnects to the next.
StoredOnceInOrder ==
    \A d, e \in Databases : \A j \in DOMAIN log[d], k \in DOMAIN log[e] :
        (log[d][j].client = log[e][k].client /\ <<d, j>> # <<e, k>>) =>
            /\ log[d][j].idx # log[e][k].idx
            /\ d = e => (j < k <=> log[d][j].idx < log[e][k].idx)

\* A database never mixes the events of two daemon processes: the second one
\* dies at CREATE TABLE.
OneBootPerLog ==
    \A d \in Databases : \A j, k \in DOMAIN log[d] : log[d][j].boot = log[d][k].boot

\* Handlers use the connection one at a time, and a handler that panics or
\* returns never leaves the mutex locked.
ConnectionIsExclusive ==
    \A c \in Clients : handler[c] \in {"locked", "inserted"} <=> holder = c

\* Once an INSERT has failed, this daemon process stores nothing any more.
PoisonIsForever ==
    [][poisoned /\ daemon' # "down" => poisoned' /\ UNCHANGED log]_vars

\* Every request comes to an end, with as few as one worker thread: a handler
\* that occupies a worker never waits for one that needs a worker.
RequestsEnd ==
    \A c \in Clients : client[c] = "waiting" ~> client[c] # "waiting"

\* Every client comes to its end, and with success only if the whole of its
\* database is stored.
ClientsEnd ==
    \A c \in Clients :
        <>(\/ client[c] = "failed"
           \/ client[c] = "done" /\ Promise!StoredUpTo(c, NumEvents))
=============================================================================
