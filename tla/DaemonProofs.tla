---------------------------- MODULE DaemonProofs ----------------------------
(***************************************************************************)
(* The safety properties of Daemon, and what its liveness rests on, for    *)
(* every number of clients, events, databases, workers and restarts.       *)
(***************************************************************************)
EXTENDS Daemon, FiniteSetTheorems, TLAPS

(***************************************************************************)
(* The inductive invariant.  None of the properties is inductive alone:    *)
(* that an INSERT stores the next event of its client depends on where     *)
(* client and handler are, and that the database it stores it into holds   *)
(* events of this process only depends on where the daemon is.             *)
(***************************************************************************)
ProcessInv ==
    /\ daemon # "down" => boot \in 1..MaxBoots
    /\ daemon = "serving" =>
          /\ database \in created
          /\ \A k \in DOMAIN log[database] : log[database][k].boot = boot
    /\ \A d \in Databases \ created : log[d] = <<>>
    /\ poisoned => holder = NoClient

HandlerInv ==
    \A c \in Clients :
        /\ handler[c] \notin {"none", "queued"} => daemon = "serving"
        /\ handler[c] # "none" =>
              Listening /\ acked[c] < NumEvents /\ client[c] \in {"waiting", "failed"}
        /\ client[c] = "waiting" => handler[c] # "none"

ControlInv == TypeOK /\ ProcessInv /\ HandlerInv /\ ConnectionIsExclusive

\* Which events are stored, depending on where handler and client are.
StoredInv ==
    \A c \in Clients :
        /\ handler[c] \in {"inserted", "replying"} =>
              Promise!StoredUpTo(c, acked[c] + 1)
        /\ handler[c] \in {"queued", "running", "locked"} =>
              Promise!StoredUpTo(c, acked[c])
        /\ handler[c] = "none" =>
              \/ Promise!StoredUpTo(c, acked[c])
              \/ Promise!StoredUpTo(c, acked[c] + 1) /\ client[c] = "failed"

Inv == ControlInv /\ OneBootPerLog /\ StoredInv /\ StoredOnceInOrder

-----------------------------------------------------------------------------
(* Control: processes, handlers, mutex.                                    *)

\* Initially nothing runs.
LEMMA ControlInit == Init => ControlInv
<1> SUFFICES ASSUME Init PROVE ControlInv
  OBVIOUS
<1> USE DaemonAssumption DEF Init
<1>1. TypeOK
  <2>1. log \in [Databases -> Seq(Row)] /\ boot \in 0..MaxBoots
    OBVIOUS
  <2>2. acked \in [Clients -> 0..NumEvents]
    OBVIOUS
  <2> QED
    BY <2>1, <2>2 DEF TypeOK, DaemonStates, HandlerStates, ClientStates, Row
<1>2. ProcessInv
  BY DEF ProcessInv
<1>3. HandlerInv
  BY DEF HandlerInv
<1>4. ConnectionIsExclusive
  BY DEF ConnectionIsExclusive
<1> QED
  BY <1>1, <1>2, <1>3, <1>4 DEF ControlInv

\* The end of the process keeps the control part of the invariant.
LEMMA ControlProcessEnds ==
  ASSUME ControlInv, ProcessEnds
  PROVE  ControlInv'
  BY DaemonAssumption DEF ControlInv, TypeOK, ProcessInv, HandlerInv, ConnectionIsExclusive,
     DaemonStates, HandlerStates, ClientStates, ProcessEnds, FailIfWaiting,
     storage, Listening

\* So does a step of main() and of the operator.
LEMMA ControlDaemonStep ==
  ASSUME ControlInv,
         \/ \E d \in Databases : StartDaemon(d)
         \/ Startup \/ Crash \/ RemoveSocketFile
  PROVE  ControlInv'
<1> USE DEF ControlInv, TypeOK, ProcessInv, HandlerInv, ConnectionIsExclusive,
     DaemonStates, HandlerStates, ClientStates, storage, mutex, rpc, Listening
<1>1. ASSUME NEW d \in Databases, StartDaemon(d) PROVE ControlInv'
  <2>1. TypeOK'
    <3>1. boot' \in 0..MaxBoots
      BY <1>1, DaemonAssumption DEF StartDaemon
    <3> QED
      BY <1>1, <3>1 DEF StartDaemon
  <2>2. ProcessInv'
    BY <1>1, DaemonAssumption DEF StartDaemon
  <2>3. HandlerInv' /\ ConnectionIsExclusive'
    BY <1>1, DaemonAssumption DEF StartDaemon
  <2> QED
    BY <2>1, <2>2, <2>3
<1>2. CASE Bind
  BY <1>2 DEF Bind
<1>3. CASE CreateTable
  <2>1. TypeOK'
    BY <1>3 DEF CreateTable
  <2>2. ProcessInv'
    BY <1>3 DEF CreateTable
  <2>3. HandlerInv' /\ ConnectionIsExclusive'
    BY <1>3 DEF CreateTable
  <2> QED
    BY <2>1, <2>2, <2>3
<1>4. CASE RemoveSocketFile
  BY <1>4 DEF RemoveSocketFile
<1>5. CASE BindPanics \/ CreateTablePanics \/ Crash
  BY <1>5, ControlProcessEnds DEF BindPanics, CreateTablePanics, Crash
<1> QED
  BY <1>1, <1>2, <1>3, <1>4, <1>5 DEF Startup

\* So does a step of a client.
LEMMA ControlClientStep ==
  ASSUME ControlInv, NEW c \in Clients, ClientStep(c) \/ KillClient(c)
  PROVE  ControlInv'
<1> USE DEF ControlInv, TypeOK, ProcessInv, HandlerInv, ConnectionIsExclusive,
     DaemonStates, HandlerStates, ClientStates, storage, mutex, process, Listening
<1>1. CASE Connect(c)
  BY <1>1 DEF Connect
<1>2. CASE Send(c)
  BY <1>2, DaemonAssumption DEF Send
<1>3. CASE Finish(c)
  BY <1>3 DEF Finish
<1>4. CASE KillClient(c)
  BY <1>4, DaemonAssumption DEF KillClient
<1> QED
  BY <1>1, <1>2, <1>3, <1>4 DEF ClientStep

\* So does a step of a handler.
LEMMA ControlHandlerStep ==
  ASSUME ControlInv, NEW c \in Clients, HandlerStep(c)
  PROVE  ControlInv'
<1> USE DaemonAssumption DEF ControlInv, TypeOK, ProcessInv, HandlerInv,
     ConnectionIsExclusive, DaemonStates, HandlerStates, ClientStates, storage,
     process, Listening
<1>1. CASE BeginHandler(c)
  BY <1>1 DEF BeginHandler, mutex
<1>2. CASE Lock(c)
  BY <1>2 DEF Lock
<1>3. CASE LockPanics(c)
  BY <1>3 DEF LockPanics, HandlerPanics, FailIfWaiting, mutex
<1>4. CASE Insert(c)
  <2>1. TypeOK'
    <3> DEFINE row == [client |-> c, idx |-> acked[c] + 1, boot |-> boot]
    <3>1. acked[c] + 1 \in 1..NumEvents /\ boot \in 1..MaxBoots
      <4>1. acked[c] \in 0..NumEvents /\ acked[c] < NumEvents
        BY <1>4 DEF Insert
      <4>2. boot \in 1..MaxBoots
        BY <1>4 DEF Insert
      <4> QED
        BY ONLY <4>1, <4>2, DaemonAssumption
    <3>2. row \in Row
      BY <3>1 DEF Row
    <3>3. Append(log[database], row) \in Seq(Row)
      BY <3>2
    <3>4. log' \in [Databases -> Seq(Row)]
      BY <1>4, <3>3 DEF Insert
    <3> QED
      BY <1>4, <3>4 DEF Insert, mutex
  <2>2. ProcessInv'
    BY <1>4 DEF Insert, mutex
  <2>3. HandlerInv' /\ ConnectionIsExclusive'
    BY <1>4 DEF Insert, mutex
  <2> QED
    BY <2>1, <2>2, <2>3
<1>5. CASE InsertPanics(c)
  BY <1>5 DEF InsertPanics, HandlerPanics, FailIfWaiting
<1>6. CASE Unlock(c)
  BY <1>6 DEF Unlock
<1>7. CASE Reply(c)
  <2>1. TypeOK'
    <3>1. acked' \in [Clients -> 0..NumEvents]
      BY <1>7 DEF Reply
    <3> QED
      BY <1>7, <3>1 DEF Reply, mutex
  <2>2. ProcessInv'
    BY <1>7 DEF Reply, mutex
  <2>3. HandlerInv' /\ ConnectionIsExclusive'
    BY <1>7 DEF Reply, mutex
  <2> QED
    BY <2>1, <2>2, <2>3
<1> QED
  BY <1>1, <1>2, <1>3, <1>4, <1>5, <1>6, <1>7 DEF HandlerStep

LEMMA ControlNext ==
  ASSUME ControlInv, [Next]_vars
  PROVE  ControlInv'
<1>1. CASE UNCHANGED vars
  BY <1>1 DEF ControlInv, TypeOK, ProcessInv, HandlerInv, ConnectionIsExclusive,
     vars, process, storage, mutex, rpc, Listening
<1>2. CASE Next
  BY <1>2, ControlDaemonStep, ControlClientStep, ControlHandlerStep DEF Next
<1> QED
  BY <1>1, <1>2

-----------------------------------------------------------------------------
(* What an INSERT adds to the log.                                         *)

\* The new row is the last one of the database, and the others are as before.
LEMMA InsertAppends ==
  ASSUME ControlInv, NEW c \in Clients, Insert(c)
  PROVE  /\ log[database] \in Seq(Row)
         /\ Len(log[database]) \in Nat
         /\ DOMAIN log[database] = 1..Len(log[database])
         /\ DOMAIN log'[database] = 1..(Len(log[database]) + 1)
         /\ \A k \in DOMAIN log[database] : log'[database][k] = log[database][k]
         /\ log'[database][Len(log[database]) + 1] =
               [client |-> c, idx |-> acked[c] + 1, boot |-> boot]
         /\ \A d \in Databases \ {database} : log'[d] = log[d]
<1> DEFINE row == [client |-> c, idx |-> acked[c] + 1, boot |-> boot]
<1>1. log[database] \in Seq(Row) /\ database \in Databases
  BY DEF ControlInv, TypeOK
<1>2. log'[database] = Append(log[database], row)
  BY <1>1 DEF Insert, ControlInv, TypeOK
<1>3. \A d \in Databases \ {database} : log'[d] = log[d]
  BY DEF Insert, ControlInv, TypeOK
<1>4. /\ Len(log[database]) \in Nat
      /\ DOMAIN log[database] = 1..Len(log[database])
  BY <1>1
<1>5. /\ DOMAIN log'[database] = 1..(Len(log[database]) + 1)
      /\ \A k \in 1..Len(log[database]) : log'[database][k] = log[database][k]
      /\ log'[database][Len(log[database]) + 1] = row
  BY <1>1, <1>2, <1>4
<1> QED
  BY <1>1, <1>3, <1>4, <1>5

\* So exactly one more event is stored than before.
LEMMA InsertStores ==
  ASSUME ControlInv, NEW c \in Clients, Insert(c),
         NEW e \in Clients, NEW i \in Nat
  PROVE  Promise!IsStored(e, i)' <=>
            Promise!IsStored(e, i) \/ (e = c /\ i = acked[c] + 1)
<1> DEFINE n == Len(log[database])
<1>1. /\ n \in Nat /\ database \in Databases
      /\ DOMAIN log[database] = 1..n
      /\ DOMAIN log'[database] = 1..(n + 1)
      /\ \A k \in DOMAIN log[database] : log'[database][k] = log[database][k]
      /\ log'[database][n + 1] = [client |-> c, idx |-> acked[c] + 1, boot |-> boot]
      /\ \A d \in Databases \ {database} : log'[d] = log[d]
  <2>1. database \in Databases
    BY DEF ControlInv, TypeOK
  <2> QED
    BY <2>1, InsertAppends
<1> HIDE DEF n
<1>2. ASSUME Promise!IsStored(e, i)'
      PROVE  Promise!IsStored(e, i) \/ (e = c /\ i = acked[c] + 1)
  <2>1. PICK d \in Databases : \E k \in DOMAIN log'[d] :
           log'[d][k].client = e /\ log'[d][k].idx = i
    BY <1>2 DEF Promise!IsStored
  <2>2. PICK k \in DOMAIN log'[d] : log'[d][k].client = e /\ log'[d][k].idx = i
    BY <2>1
  <2>3. CASE d = database /\ k = n + 1
    BY <2>2, <2>3, <1>1
  <2>4. CASE ~(d = database /\ k = n + 1)
    <3>1. k \in DOMAIN log[d] /\ log[d][k] = log'[d][k]
      BY <1>1, <2>4
    <3> QED
      BY <2>2, <3>1 DEF Promise!IsStored
  <2> QED
    BY <2>3, <2>4
<1>3. ASSUME Promise!IsStored(e, i) PROVE Promise!IsStored(e, i)'
  <2>1. PICK d \in Databases : \E k \in DOMAIN log[d] :
           log[d][k].client = e /\ log[d][k].idx = i
    BY <1>3 DEF Promise!IsStored
  <2>2. PICK k \in DOMAIN log[d] : log[d][k].client = e /\ log[d][k].idx = i
    BY <2>1
  <2>3. k \in DOMAIN log'[d] /\ log'[d][k] = log[d][k]
    BY <1>1
  <2> QED
    BY <2>2, <2>3 DEF Promise!IsStored
<1>4. ASSUME e = c, i = acked[c] + 1 PROVE Promise!IsStored(e, i)'
  <2>1. n + 1 \in DOMAIN log'[database]
    BY <1>1
  <2> QED
    BY <1>1, <1>4, <2>1 DEF Promise!IsStored
<1> QED
  BY <1>2, <1>3, <1>4

\* A step that leaves the log alone leaves what is stored alone.
LEMMA SameLog ==
  ASSUME UNCHANGED log
  PROVE  /\ \A e \in Clients, i \in Nat : Promise!IsStored(e, i)' <=> Promise!IsStored(e, i)
         /\ OneBootPerLog => OneBootPerLog'
         /\ StoredOnceInOrder => StoredOnceInOrder'
  BY DEF Promise!IsStored, OneBootPerLog, StoredOnceInOrder

\* Only an INSERT changes the log.
LEMMA OnlyInsertWrites ==
  ASSUME [Next]_vars
  PROVE  UNCHANGED log \/ \E c \in Clients : Insert(c)
  BY DEF Next, vars, process, storage, mutex, rpc, StartDaemon, Startup, Bind,
     BindPanics, CreateTable, CreateTablePanics, Crash, ProcessEnds,
     RemoveSocketFile, ClientStep, Connect, Send, Finish, KillClient,
     HandlerStep, BeginHandler, Lock, LockPanics, InsertPanics, HandlerPanics,
     Unlock, Reply

-----------------------------------------------------------------------------
(* What is stored.                                                         *)

LEMMA OneBootNext ==
  ASSUME ControlInv, OneBootPerLog, [Next]_vars
  PROVE  OneBootPerLog'
<1>1. CASE UNCHANGED log
  BY <1>1, SameLog
<1>2. ASSUME NEW c \in Clients, Insert(c) PROVE OneBootPerLog'
  <2>1. \A k \in DOMAIN log[database] : log[database][k].boot = boot
    BY <1>2 DEF ControlInv, ProcessInv, HandlerInv, Insert
  <2>2. ASSUME NEW k \in DOMAIN log'[database] PROVE log'[database][k].boot = boot
    <3> DEFINE n == Len(log[database])
    <3>1. /\ n \in Nat
          /\ DOMAIN log[database] = 1..n
          /\ DOMAIN log'[database] = 1..(n + 1)
          /\ \A j \in DOMAIN log[database] : log'[database][j] = log[database][j]
          /\ log'[database][n + 1] = [client |-> c, idx |-> acked[c] + 1, boot |-> boot]
      BY <1>2, InsertAppends
    <3> HIDE DEF n
    <3>2. k \in DOMAIN log[database] \/ k = n + 1
      BY <3>1
    <3> QED
      BY <2>1, <3>1, <3>2
  <2>3. \A d \in Databases \ {database} : log'[d] = log[d]
    BY <1>2, InsertAppends
  <2> QED
    BY <2>2, <2>3 DEF OneBootPerLog
<1> QED
  BY <1>1, <1>2, OnlyInsertWrites

\* All stored events of a client whose handler holds the mutex to insert the
\* next one are older than that one.
LEMMA InsertIsFresh ==
  ASSUME ControlInv, StoredInv, NEW c \in Clients, Insert(c),
         NEW d \in Databases, NEW k \in DOMAIN log[d], log[d][k].client = c
  PROVE  log[d][k].idx \in Nat /\ log[d][k].idx < acked[c] + 1
<1>1. log[d][k] \in Row
  BY DEF ControlInv, TypeOK
<1>2. log[d][k].idx \in 1..NumEvents /\ acked[c] \in Nat
  BY <1>1, DaemonAssumption DEF Row, ControlInv, TypeOK
<1>3. Promise!IsStored(c, log[d][k].idx)
  BY DEF Promise!IsStored
<1>4. Promise!StoredUpTo(c, acked[c])
  BY DEF StoredInv, Insert
<1> QED
  BY <1>2, <1>3, <1>4, DaemonAssumption DEF Promise!StoredUpTo

LEMMA OrderNext ==
  ASSUME ControlInv, StoredInv, StoredOnceInOrder, [Next]_vars
  PROVE  StoredOnceInOrder'
<1>1. CASE UNCHANGED log
  BY <1>1, SameLog
<1>2. ASSUME NEW c \in Clients, Insert(c) PROVE StoredOnceInOrder'
  <2> DEFINE n == Len(log[database])
             Old(d, j) == ~(d = database /\ j = n + 1)
  <2>1. /\ n \in Nat /\ database \in Databases
        /\ DOMAIN log[database] = 1..n
        /\ DOMAIN log'[database] = 1..(n + 1)
        /\ \A k \in DOMAIN log[database] : log'[database][k] = log[database][k]
        /\ log'[database][n + 1] = [client |-> c, idx |-> acked[c] + 1, boot |-> boot]
        /\ \A d \in Databases \ {database} : log'[d] = log[d]
    <3>1. database \in Databases
      BY DEF ControlInv, TypeOK
    <3> QED
      BY <1>2, <3>1, InsertAppends
  <2> HIDE DEF n
  <2>2. \A d \in Databases, j \in Nat :
           (j \in DOMAIN log'[d] /\ Old(d, j)) =>
               j \in DOMAIN log[d] /\ log[d][j] = log'[d][j]
    BY <2>1
  <2>3. acked[c] \in Nat
    BY DaemonAssumption DEF ControlInv, TypeOK
  <2>4. \A d \in Databases : \A j \in DOMAIN log[d] :
            log[d][j].client = c =>
               log[d][j].idx \in Nat /\ log[d][j].idx < acked[c] + 1
    BY <1>2, InsertIsFresh
  <2>5. \A d \in Databases : DOMAIN log'[d] \subseteq Nat
    <3>1. \A d \in Databases : DOMAIN log[d] \subseteq Nat
      BY DEF ControlInv, TypeOK
    <3> QED
      BY <2>1, <3>1
  <2> SUFFICES ASSUME NEW d \in Databases, NEW e \in Databases,
                      NEW j \in DOMAIN log'[d], NEW k \in DOMAIN log'[e],
                      log'[d][j].client = log'[e][k].client,
                      <<d, j>> # <<e, k>>
               PROVE  /\ log'[d][j].idx # log'[e][k].idx
                      /\ d = e => (j < k <=> log'[d][j].idx < log'[e][k].idx)
    BY DEF StoredOnceInOrder
  <2>6. j \in Nat /\ k \in Nat
    BY <2>5
  <2>7. CASE Old(d, j) /\ Old(e, k)
    BY <2>2, <2>6, <2>7 DEF StoredOnceInOrder
  <2>8. CASE ~Old(d, j)
    <3>1. Old(e, k) /\ log'[d][j].client = c /\ log'[d][j].idx = acked[c] + 1
      BY <2>1, <2>8
    <3>2. /\ k \in DOMAIN log[e] /\ log[e][k] = log'[e][k]
          /\ log'[e][k].idx \in Nat /\ log'[e][k].idx < acked[c] + 1
      BY <2>2, <2>4, <2>6, <3>1
    <3>3. d = e => k < j
      BY <2>1, <2>6, <2>8, <3>1, <3>2
    <3> QED
      BY <2>3, <2>6, <3>1, <3>2, <3>3
  <2>9. CASE ~Old(e, k)
    <3>1. Old(d, j) /\ log'[e][k].client = c /\ log'[e][k].idx = acked[c] + 1
      BY <2>1, <2>9
    <3>2. /\ j \in DOMAIN log[d] /\ log[d][j] = log'[d][j]
          /\ log'[d][j].idx \in Nat /\ log'[d][j].idx < acked[c] + 1
      BY <2>2, <2>4, <2>6, <3>1
    <3>3. d = e => j < k
      BY <2>1, <2>6, <2>9, <3>1, <3>2
    <3> QED
      BY <2>3, <2>6, <3>1, <3>2, <3>3
  <2> QED
    BY <2>7, <2>8, <2>9
<1> QED
  BY <1>1, <1>2, OnlyInsertWrites

\* A step that leaves the log, the acknowledgements and the handler of a client
\* alone keeps what is said of it, and so does one that drops its request.
LEMMA StoredKept ==
  ASSUME StoredInv, UNCHANGED log, NEW e \in Clients,
         acked'[e] = acked[e],
         \/ handler'[e] = handler[e] /\ (client[e] = "failed" => client'[e] = "failed")
         \/ /\ handler'[e] = "none" /\ client'[e] = "failed"
            /\ handler[e] \in HandlerStates
         \/ handler[e] \in {"queued", "running"} /\ handler'[e] \in {"running", "locked"}
         \/ handler[e] = "inserted" /\ handler'[e] = "replying"
         \/ handler[e] = "none" /\ client[e] = "ready" /\ handler'[e] = "queued"
  PROVE  /\ handler'[e] \in {"inserted", "replying"} =>
               Promise!StoredUpTo(e, acked[e] + 1)'
         /\ handler'[e] \in {"queued", "running", "locked"} =>
               Promise!StoredUpTo(e, acked[e])'
         /\ handler'[e] = "none" =>
               \/ Promise!StoredUpTo(e, acked[e])'
               \/ Promise!StoredUpTo(e, acked[e] + 1)' /\ client'[e] = "failed"
<1>1. /\ Promise!StoredUpTo(e, acked[e])' <=> Promise!StoredUpTo(e, acked[e])
      /\ Promise!StoredUpTo(e, acked[e] + 1)' <=> Promise!StoredUpTo(e, acked[e] + 1)
  BY DEF Promise!StoredUpTo, Promise!IsStored
<1> QED
  BY <1>1 DEF StoredInv, HandlerStates

LEMMA StoredNext ==
  ASSUME ControlInv, StoredInv, [Next]_vars
  PROVE  StoredInv'
<1> DEFINE Kept(e) ==
      /\ acked'[e] = acked[e]
      /\ \/ handler'[e] = handler[e] /\ (client[e] = "failed" => client'[e] = "failed")
         \/ /\ handler'[e] = "none" /\ client'[e] = "failed"
            /\ handler[e] \in HandlerStates
         \/ handler[e] \in {"queued", "running"} /\ handler'[e] \in {"running", "locked"}
         \/ handler[e] = "inserted" /\ handler'[e] = "replying"
         \/ handler[e] = "none" /\ client[e] = "ready" /\ handler'[e] = "queued"
<1> USE DEF ControlInv, HandlerInv, TypeOK
<1>1. ASSUME UNCHANGED log, \A e \in Clients : Kept(e) PROVE StoredInv'
  BY <1>1, StoredKept DEF StoredInv
<1>2. CASE UNCHANGED vars
  BY <1>1, <1>2 DEF vars, storage, rpc
<1>3. ASSUME ProcessEnds PROVE StoredInv'
  <2>1. \A e \in Clients : Kept(e)
    BY <1>3 DEF ProcessEnds, FailIfWaiting, HandlerStates
  <2> QED
    BY <1>1, <1>3, <2>1 DEF ProcessEnds, storage
<1>4. ASSUME NEW d \in Databases, StartDaemon(d) PROVE StoredInv'
  BY <1>1, <1>4 DEF StartDaemon, storage, rpc
<1>5. CASE Startup \/ Crash \/ RemoveSocketFile
  BY <1>1, <1>3, <1>5 DEF Startup, Crash, RemoveSocketFile, Bind, BindPanics,
     CreateTable, CreateTablePanics, storage, rpc
<1>6. ASSUME NEW c \in Clients, ClientStep(c) \/ KillClient(c) PROVE StoredInv'
  <2>1. \A e \in Clients : Kept(e)
    BY <1>6 DEF ClientStep, Connect, Send, Finish, KillClient, HandlerStates
  <2>2. UNCHANGED log
    BY <1>6 DEF ClientStep, Connect, Send, Finish, KillClient, storage
  <2> QED
    BY <1>1, <2>1, <2>2
<1>7. ASSUME NEW c \in Clients, BeginHandler(c) \/ Lock(c) \/ Unlock(c)
      PROVE  StoredInv'
  <2>1. \A e \in Clients : Kept(e)
    BY <1>7 DEF BeginHandler, Lock, Unlock
  <2> QED
    BY <1>1, <1>7, <2>1 DEF BeginHandler, Lock, Unlock, storage
<1>8. ASSUME NEW c \in Clients, LockPanics(c) \/ InsertPanics(c) PROVE StoredInv'
  <2>1. \A e \in Clients : Kept(e)
    BY <1>8 DEF LockPanics, InsertPanics, HandlerPanics, FailIfWaiting, HandlerStates
  <2> QED
    BY <1>1, <1>8, <2>1 DEF LockPanics, InsertPanics, HandlerPanics, storage
<1>9. ASSUME NEW c \in Clients, Insert(c) PROVE StoredInv'
  <2>1. \A e \in Clients, i \in 1..NumEvents :
           Promise!IsStored(e, i)' <=>
              Promise!IsStored(e, i) \/ (e = c /\ i = acked[c] + 1)
    BY <1>9, InsertStores
  <2>2. /\ UNCHANGED <<client, acked>> /\ handler'[c] = "inserted"
        /\ \A e \in Clients \ {c} : handler'[e] = handler[e]
        /\ handler[c] = "locked"
        /\ \A e \in Clients : acked[e] \in Nat
    BY <1>9, DaemonAssumption DEF Insert
  <2>3. Promise!StoredUpTo(c, acked[c] + 1)'
    BY <2>1, <2>2, DaemonAssumption DEF Promise!StoredUpTo, StoredInv
  <2>4. \A e \in Clients \ {c} :
          /\ Promise!StoredUpTo(e, acked[e])' <=> Promise!StoredUpTo(e, acked[e])
          /\ Promise!StoredUpTo(e, acked[e] + 1)' <=> Promise!StoredUpTo(e, acked[e] + 1)
    BY <2>1, <2>2 DEF Promise!StoredUpTo
  <2> QED
    BY <2>2, <2>3, <2>4 DEF StoredInv
<1>10. ASSUME NEW c \in Clients, Reply(c) PROVE StoredInv'
  <2>1. \A e \in Clients \ {c} : Kept(e)
    BY <1>10 DEF Reply
  <2>2. CASE client[c] # "waiting"
    <3>1. client[c] = "failed" /\ handler'[c] = "none" /\ acked' = acked /\ client' = client
      BY <1>10, <2>2 DEF Reply
    <3> QED
      BY <1>1, <1>10, <2>1, <3>1 DEF Reply, storage
  <2>3. CASE client[c] = "waiting"
    <3>1. /\ acked'[c] = acked[c] + 1 /\ handler'[c] = "none"
          /\ Promise!StoredUpTo(c, acked[c] + 1) /\ UNCHANGED log
      BY <1>10, <2>3 DEF Reply, StoredInv, storage
    <3>2. Promise!StoredUpTo(c, acked[c])'
      BY <3>1 DEF Promise!StoredUpTo, Promise!IsStored
    <3> QED
      BY <2>1, <3>1, <3>2, StoredKept DEF StoredInv
  <2> QED
    BY <2>2, <2>3
<1> QED
  BY <1>2, <1>4, <1>5, <1>6, <1>7, <1>8, <1>9, <1>10 DEF Next, HandlerStep

-----------------------------------------------------------------------------
(* The theorems.                                                           *)

LEMMA InvInit == Init => Inv
<1> SUFFICES ASSUME Init PROVE Inv
  OBVIOUS
<1>1. ControlInv
  BY ControlInit
<1>2. \A d \in Databases : DOMAIN log[d] = {}
  BY DEF Init
<1>3. OneBootPerLog /\ StoredOnceInOrder
  BY <1>2 DEF OneBootPerLog, StoredOnceInOrder
<1>4. StoredInv
  <2>1. \A c \in Clients : Promise!StoredUpTo(c, acked[c])
    BY <1>2 DEF Init, Promise!StoredUpTo, Promise!IsStored
  <2> QED
    BY <2>1 DEF StoredInv, Init
<1> QED
  BY <1>1, <1>3, <1>4 DEF Inv

LEMMA InvNext ==
  ASSUME Inv, [Next]_vars
  PROVE  Inv'
  BY ControlNext, OneBootNext, StoredNext, OrderNext DEF Inv

\* The invariant holds in every reachable state of the daemon.
THEOREM Invariance == Spec => []Inv
<1>1. Init => Inv
  BY InvInit
<1>2. Inv /\ [Next]_vars => Inv'
  BY InvNext
<1> QED
  BY <1>1, <1>2, PTL DEF Spec

\* The variables keep their types; in particular no client ever gets more
\* acknowledgements than it has events.
THEOREM TypeCorrect == Spec => []TypeOK
<1>1. Inv => TypeOK
  BY DEF Inv, ControlInv
<1> QED
  BY <1>1, Invariance, PTL

\* What record_events() has acknowledged is stored, through any interleaving of
\* handlers, panics, crashes and restarts.
THEOREM AcknowledgedEventsAreStored == Spec => []AckedIsStored
<1>1. Inv => AckedIsStored
  BY DEF Inv, ControlInv, TypeOK, HandlerInv, StoredInv, HandlerStates, AckedIsStored
<1> QED
  BY <1>1, Invariance, PTL

\* No event is stored twice, and those of a client are in order.
THEOREM EventsAreStoredOnceInOrder == Spec => []StoredOnceInOrder
<1>1. Inv => StoredOnceInOrder
  BY DEF Inv
<1> QED
  BY <1>1, Invariance, PTL

\* All rows of a database come from one daemon process.
THEOREM LogsHaveOneWriter == Spec => []OneBootPerLog
<1>1. Inv => OneBootPerLog
  BY DEF Inv
<1> QED
  BY <1>1, Invariance, PTL

\* The SQLite connection is used by one handler at a time.
THEOREM ConnectionMutualExclusion == Spec => []ConnectionIsExclusive
<1>1. Inv => ConnectionIsExclusive
  BY DEF Inv, ControlInv
<1> QED
  BY <1>1, Invariance, PTL

\* After a failed INSERT the process stores nothing any more.
THEOREM PoisonedDaemonStoresNothing == Spec => PoisonIsForever
<1>1. Inv /\ [Next]_vars =>
         [poisoned /\ daemon' # "down" => poisoned' /\ UNCHANGED log]_vars
  <2> SUFFICES ASSUME Inv, Next, poisoned, daemon' # "down"
               PROVE  poisoned' /\ UNCHANGED log
    OBVIOUS
  <2>1. \A c \in Clients : handler[c] # "locked"
    BY DaemonAssumption DEF Inv, ControlInv, ProcessInv, ConnectionIsExclusive
  <2>2. UNCHANGED log
    BY <2>1, OnlyInsertWrites DEF Insert
  <2>3. poisoned'
    BY <2>1 DEF Next, StartDaemon, Startup, Bind, BindPanics, CreateTable,
       CreateTablePanics, Crash, ProcessEnds, RemoveSocketFile, ClientStep,
       Connect, Send, Finish, KillClient, HandlerStep, BeginHandler, Lock,
       LockPanics, Insert, InsertPanics, HandlerPanics, Unlock, Reply, mutex
  <2> QED
    BY <2>2, <2>3
<1> QED
  BY <1>1, Invariance, PTL DEF Spec, PoisonIsForever

\* An INSERT is the abstract Store, a reply that the client receives the
\* abstract Acknowledge, and every other step of the daemon, its clients and
\* its failures is invisible in the abstract log.
THEOREM DaemonImplementsEventLog == Spec => ImplementsEventLog
<1>1. Init => Promise!LogInit
  BY DEF Init, Promise!LogInit
<1>2. Inv /\ [Next]_vars => [Promise!LogNext]_Promise!logVars
  <2> SUFFICES ASSUME Inv, [Next]_vars
               PROVE  Promise!LogNext \/ UNCHANGED <<log, acked>>
    BY DEF Promise!logVars
  <2> USE DEF Inv, ControlInv, TypeOK
  <2>1. ASSUME NEW c \in Clients, Insert(c) PROVE Promise!LogNext
    <3>1. Promise!StoredUpTo(c, acked[c])
      BY <2>1 DEF StoredInv, Insert
    <3>2. acked[c] < NumEvents /\ daemon = "serving"
      BY <2>1 DEF HandlerInv, Insert
    <3>3. boot \in 1..MaxBoots /\ Promise!WrittenOnlyBy(database, boot)
      BY <3>2 DEF ProcessInv, Promise!WrittenOnlyBy
    <3>4. Promise!Store(c, database, boot)
      BY <2>1, <3>1, <3>2, <3>3 DEF Promise!Store, Insert
    <3> QED
      BY <3>3, <3>4 DEF Promise!LogNext
  <2>2. ASSUME NEW c \in Clients, Reply(c)
        PROVE  Promise!LogNext \/ UNCHANGED <<log, acked>>
    <3>1. Promise!StoredUpTo(c, acked[c] + 1) /\ acked[c] < NumEvents
      BY <2>2 DEF StoredInv, HandlerInv, Reply
    <3>2. CASE client[c] = "waiting"
      BY <2>2, <3>1, <3>2 DEF Reply, storage, Promise!Acknowledge, Promise!LogNext
    <3>3. CASE client[c] # "waiting"
      BY <2>2, <3>3 DEF Reply, storage
    <3> QED
      BY <3>2, <3>3
  <2>3. CASE ~\E c \in Clients : Insert(c) \/ Reply(c)
    <3>1. UNCHANGED log
      BY <2>3, OnlyInsertWrites
    <3>2. UNCHANGED acked
      BY <2>3 DEF vars, Next, StartDaemon, Startup, Bind, BindPanics, CreateTable,
         CreateTablePanics, Crash, ProcessEnds, RemoveSocketFile, ClientStep,
         Connect, Send, Finish, KillClient, HandlerStep, BeginHandler, Lock,
         LockPanics, InsertPanics, HandlerPanics, Unlock, rpc
    <3> QED
      BY <3>1, <3>2
  <2> QED
    BY <2>1, <2>2, <2>3
<1> QED
  BY <1>1, <1>2, Invariance, PTL DEF Spec, ImplementsEventLog, Promise!LogSpec
-----------------------------------------------------------------------------
(* What liveness rests on: handlers do not wait for each other in a circle *)
(* of workers and mutex, and clients and handlers take finitely many steps.*)

\* The conditions under which the handler of a client goes on.
MayHandle(c) ==
    \/ handler[c] = "queued" /\ Cardinality(Busy) < Workers
    \/ handler[c] = "running" /\ holder = NoClient
    \/ handler[c] \in {"locked", "inserted", "replying"}

SomeRequestProceeds ==
    daemon = "serving" /\ (\E c \in Clients : handler[c] # "none") =>
        \E c \in Clients : MayHandle(c)

\* With any number of requests and as few as one worker thread, some record_events()
\* goes on: the holder of the mutex has a worker, and a panic frees both.
THEOREM HandlersDoNotStarveEachOther == Spec => []SomeRequestProceeds
<1>1. Inv => SomeRequestProceeds
  <2> SUFFICES ASSUME Inv, NEW c \in Clients, handler[c] # "none"
               PROVE  \E d \in Clients : MayHandle(d)
    BY DEF SomeRequestProceeds
  <2> USE DEF Inv, ControlInv, TypeOK, HandlerStates
  <2>1. CASE holder # NoClient
    <3>1. holder \in Clients /\ handler[holder] \in {"locked", "inserted"}
      BY <2>1 DEF ConnectionIsExclusive
    <3> QED
      BY <3>1 DEF MayHandle
  <2>2. CASE holder = NoClient /\ Busy # {}
    <3>1. PICK d \in Clients : handler[d] \notin {"none", "queued"}
      BY <2>2 DEF Busy
    <3> QED
      BY <2>2, <3>1 DEF MayHandle
  <2>3. CASE Busy = {}
    <3>1. handler[c] = "queued"
      BY <2>3 DEF Busy
    <3>2. Cardinality(Busy) < Workers
      BY <2>3, FS_EmptySet, DaemonAssumption
    <3> QED
      BY <3>1, <3>2 DEF MayHandle
  <2> QED
    BY <2>1, <2>2, <2>3
<1> QED
  BY <1>1, Invariance, PTL

\* How many steps a client and the handler of its request can still take.
StepsOfClient(c) ==
    IF client[c] = "start" THEN 8 * (NumEvents - acked[c]) + 2
    ELSE IF client[c] = "ready" THEN 8 * (NumEvents - acked[c]) + 1
    ELSE IF client[c] = "waiting" THEN 8 * (NumEvents - acked[c]) - 6
    ELSE 0

StepsOfHandler(c) ==
    IF handler[c] = "queued" THEN 5
    ELSE IF handler[c] = "running" THEN 4
    ELSE IF handler[c] = "locked" THEN 3
    ELSE IF handler[c] = "inserted" THEN 2
    ELSE IF handler[c] = "replying" THEN 1
    ELSE 0

StepsLeft(c) == StepsOfClient(c) + StepsOfHandler(c)

LEMMA StepsLeftType ==
  ASSUME Inv, NEW c \in Clients
  PROVE  StepsLeft(c) \in Nat
<1> USE DaemonAssumption DEF Inv, ControlInv, TypeOK
<1>1. StepsOfHandler(c) \in Nat
  BY DEF StepsOfHandler
<1>2. client[c] = "waiting" => acked[c] < NumEvents
  BY DEF HandlerInv
<1>3. StepsOfClient(c) \in Nat
  BY <1>2 DEF StepsOfClient
<1> QED
  BY <1>1, <1>3 DEF StepsLeft

\* The end of a process, and a kill, end the work of clients.
LEMMA EndsTakeNoSteps ==
  ASSUME Inv, ProcessEnds \/ \E d \in Clients : KillClient(d)
  PROVE  \A c \in Clients : StepsLeft(c)' <= StepsLeft(c)
<1> USE DaemonAssumption DEF Inv, ControlInv, TypeOK, HandlerInv, StepsLeft, StepsOfClient, StepsOfHandler
<1>1. CASE ProcessEnds
  BY <1>1 DEF ProcessEnds, FailIfWaiting
<1>2. ASSUME NEW d \in Clients, KillClient(d), NEW c \in Clients PROVE StepsLeft(c)' <= StepsLeft(c)
  <2>1. CASE c = d
    BY <1>2, <2>1 DEF KillClient
  <2>2. CASE c # d
    BY <1>2, <2>2 DEF KillClient
  <2> QED
    BY <2>1, <2>2
<1> QED
  BY <1>1, <1>2

LEMMA StepsDecrease ==
  ASSUME Inv, NEW c \in Clients, ClientStep(c) \/ HandlerStep(c)
  PROVE  /\ StepsLeft(c)' < StepsLeft(c) /\ StepsLeft(c)' <= StepsLeft(c)
         /\ \A d \in Clients \ {c} : StepsLeft(d)' = StepsLeft(d)
<1> USE DEF StepsLeft, StepsOfClient, StepsOfHandler
<1>1. /\ handler \in [Clients -> HandlerStates] /\ client \in [Clients -> ClientStates]
      /\ acked \in [Clients -> 0..NumEvents] /\ NumEvents \in Nat /\ HandlerInv
  BY DaemonAssumption DEF Inv, ControlInv, TypeOK
<1>2. CASE Connect(c)
  BY <1>1, <1>2 DEF HandlerInv, Connect
<1>3. CASE Send(c)
  BY <1>1, <1>3 DEF HandlerInv, Send
<1>4. CASE Finish(c)
  BY <1>1, <1>4 DEF HandlerInv, Finish
<1>5. CASE BeginHandler(c)
  BY <1>1, <1>5 DEF BeginHandler
<1>6. CASE Lock(c)
  BY <1>1, <1>6 DEF Lock
<1>7. CASE Insert(c)
  BY <1>1, <1>7 DEF Insert
<1>8. CASE Unlock(c)
  BY <1>1, <1>8 DEF Unlock
<1>9. CASE LockPanics(c) \/ InsertPanics(c)
  BY <1>1, <1>9 DEF HandlerInv, LockPanics, InsertPanics, HandlerPanics, FailIfWaiting
<1>10. CASE Reply(c)
  BY <1>1, <1>10 DEF HandlerInv, Reply
<1> QED
  BY <1>2, <1>3, <1>4, <1>5, <1>6, <1>7, <1>8, <1>9, <1>10 DEF ClientStep, HandlerStep

\* Each step of a replay client, and of the record_events() that it calls, brings that
\* client closer to its end, and no crash, restart or other client sets it back:
\* nothing is sent again.
THEOREM ClientsRunOut == Spec => [][\A c \in Clients :
    /\ StepsLeft(c) \in Nat /\ StepsLeft(c)' <= StepsLeft(c)
    /\ ClientStep(c) \/ HandlerStep(c) => StepsLeft(c)' < StepsLeft(c)]_vars
<1> DEFINE A == \A c \in Clients :
                    /\ StepsLeft(c) \in Nat /\ StepsLeft(c)' <= StepsLeft(c)
                    /\ ClientStep(c) \/ HandlerStep(c) => StepsLeft(c)' < StepsLeft(c)
<1>1. ASSUME Inv, Next, ~\E c \in Clients : ClientStep(c) \/ HandlerStep(c)
      PROVE  \A c \in Clients : StepsLeft(c)' <= StepsLeft(c)
  <2>1. CASE BindPanics \/ CreateTablePanics \/ Crash \/ \E c \in Clients : KillClient(c)
    BY <1>1, <2>1, EndsTakeNoSteps DEF BindPanics, CreateTablePanics, Crash
  <2>2. CASE (\E d \in Databases : StartDaemon(d)) \/ Bind \/ CreateTable \/ RemoveSocketFile
    <3>1. UNCHANGED rpc
      BY <2>2 DEF StartDaemon, Bind, CreateTable, RemoveSocketFile
    <3>2. \A c \in Clients : StepsLeft(c)' = StepsLeft(c)
      BY <3>1 DEF rpc, StepsLeft, StepsOfClient, StepsOfHandler
    <3> QED
      BY <1>1, <3>2, StepsLeftType
  <2> QED
    BY <1>1, <2>1, <2>2 DEF Next, Startup
<1>2. ASSUME Inv, Next PROVE A
  <2> DEFINE Steps(c) == ClientStep(c) \/ HandlerStep(c)
  <2>1. ASSUME NEW c \in Clients, Steps(c)
        PROVE  StepsLeft(c)' < StepsLeft(c) /\ StepsLeft(c)' <= StepsLeft(c)
    BY <1>2, <2>1, StepsDecrease
  <2>2. ASSUME NEW c \in Clients, ~Steps(c) PROVE StepsLeft(c)' <= StepsLeft(c)
    <3>1. CASE \E d \in Clients : Steps(d)
      <4>1. PICK d \in Clients : Steps(d)
        BY <3>1
      <4>2. StepsLeft(c)' = StepsLeft(c)
        BY <1>2, <2>2, <4>1, StepsDecrease
      <4> QED
        BY <1>2, <4>2, StepsLeftType
    <3>2. CASE ~\E d \in Clients : Steps(d)
      BY <1>1, <1>2, <3>2
    <3> QED
      BY <3>1, <3>2
  <2>3. \A c \in Clients : StepsLeft(c) \in Nat
    BY <1>2, StepsLeftType
  <2> HIDE DEF Steps
  <2>4. \A c \in Clients : StepsLeft(c)' <= StepsLeft(c) /\ (Steps(c) => StepsLeft(c)' < StepsLeft(c))
    BY <2>1, <2>2
  <2> QED
    BY <2>3, <2>4 DEF Steps
<1>3. Inv /\ [Next]_vars => [A]_vars
  BY <1>2
<1> QED
  BY <1>3, Invariance, PTL DEF Spec
=============================================================================
