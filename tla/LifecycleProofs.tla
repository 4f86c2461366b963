-------------------------- MODULE LifecycleProofs --------------------------
(***************************************************************************)
(* What holds of Lifecycle for every number of instances, builds, requests *)
(* and starts.                                                             *)
(***************************************************************************)
EXTENDS Lifecycle, TLAPS

(***************************************************************************)
(* Types.                                                                  *)
(***************************************************************************)
\* The end of a process leaves every variable in its type.
LEMMA ExitType ==
    ASSUME TypeOK, NEW i \in Instances, Exit(i),
           recorded' \subseteq Nat, applied' \in Seq(Nat)
    PROVE  TypeOK'
<1>1. MaxAttempts \in Nat \ {0}
  BY LifecycleAssumption
<1> QED
  BY <1>1 DEF TypeOK, Exit, Goto, FilesOf, Starting, Listening, Stopping

\* A commit, of files that belong to the build, keeps the schema in its type.
LEMMA CommittedType ==
    ASSUME TypeOK, NEW i \in Instances, Committed(i)
    PROVE  recorded' \subseteq Nat /\ applied' \in Seq(Nat)
<1>1. inTx[i] \subseteq Nat
  BY DEF TypeOK
<1>2. PICK f \in inTx[i] : applied' = Append(applied, f)
  BY DEF Committed
<1>3. applied \in Seq(Nat) /\ f \in Nat
  BY <1>1 DEF TypeOK
<1>4. Append(applied, f) \in Seq(Nat)
  BY <1>3
<1> QED
  BY <1>1, <1>2, <1>4 DEF Committed, TypeOK

\* Every step of the start keeps the types.
LEMMA StartupType ==
    ASSUME TypeOK, NEW i \in Instances, Startup(i) \/ Start(i) \/ StartFails(i)
    PROVE  TypeOK'
<1> USE LifecycleAssumption
<1> USE DEF TypeOK, Goto, FilesOf, Starting, Listening, Stopping,
            schema, startup, serving, clients
<1>1. CASE Start(i)
  BY <1>1 DEF Start
<1>2. CASE DatabaseAnswers(i)
  BY <1>2 DEF DatabaseAnswers
<1>3. CASE DatabaseRefuses(i)
  <2>1. CASE Exit(i) /\ UNCHANGED <<recorded, applied>>
    BY <2>1, ExitType
  <2>2. CASE /\ ~LastAttempt(i)
             /\ attempts' = [attempts EXCEPT ![i] = @ + 1]
             /\ UNCHANGED <<schema, pc, todo, inTx, serving, clients, starts>>
    <3>1. attempts[i] + 1 \in 0 .. MaxAttempts - 1
      <4>1. MaxAttempts \in Nat /\ attempts[i] \in 0 .. MaxAttempts - 1
        OBVIOUS
      <4>2. attempts[i] # MaxAttempts - 1
        BY <2>2 DEF LastAttempt
      <4> HIDE DEF TypeOK
      <4> QED
        BY <4>1, <4>2
    <3>2. attempts' \in [Instances -> 0 .. MaxAttempts - 1]
      BY <2>2, <3>1
    <3> QED
      BY <2>2, <3>2
  <2> QED
    BY <1>3, <2>1, <2>2 DEF DatabaseRefuses
<1>4. CASE TakeLock(i)
  BY <1>4 DEF TakeLock
<1>5. CASE ReadDone(i)
  BY <1>5 DEF ReadDone
<1>6. CASE RunFile(i)
  BY <1>6 DEF RunFile, NextFiles
<1>7. CASE Commit(i)
  <2>1. recorded' \subseteq Nat /\ applied' \in Seq(Nat)
    BY <1>7, CommittedType DEF Commit
  <2> QED
    BY <1>7, <2>1 DEF Commit
<1>8. CASE Unlock(i)
  <2>1. CASE Exit(i) /\ UNCHANGED <<recorded, applied>>
    BY <2>1, ExitType
  <2> QED
    BY <1>8, <2>1 DEF Unlock
<1>9. CASE StartConsumer(i)
  BY <1>9 DEF StartConsumer
<1>10. CASE StartFails(i)
  BY <1>10, ExitType, CommittedType DEF StartFails
<1> QED
  BY <1>1, <1>2, <1>3, <1>4, <1>5, <1>6, <1>7, <1>8, <1>9, <1>10 DEF Startup

\* So does every step of the clients and of the shutdown.
LEMMA ServingType ==
    ASSUME TypeOK
    PROVE  /\ \A i \in Instances : Dies(i) => TypeOK'
           /\ \A i \in Servers : Signal(i) \/ Shutdown(i) => TypeOK'
           /\ \A r \in Requests, i \in Servers : Connect(r, i) => TypeOK'
           /\ \A f \in Feeds : Subscribe(f) \/ Unsubscribe(f) => TypeOK'
           /\ \A r \in Payouts : Answer(r) => TypeOK'
<1> USE LifecycleAssumption
<1>1. ASSUME NEW i \in Instances, Exit(i), UNCHANGED <<recorded, applied>>
      PROVE  TypeOK'
  BY <1>1, ExitType DEF TypeOK
<1>2. ASSUME NEW i \in Instances, Dies(i)
      PROVE  TypeOK'
  BY <1>1, <1>2 DEF Dies
<1> USE DEF TypeOK, Goto, Starting, Listening, Stopping,
            Instances, Requests, schema, startup, serving, clients
<1>3. ASSUME NEW i \in Servers, Signal(i) \/ Shutdown(i)
      PROVE  TypeOK'
  <2>1. CASE Signal(i)
    BY <2>1 DEF Signal
  <2>2. CASE CloseServer(i)
    BY <2>2 DEF CloseServer, OpenOn, Open
  <2>3. CASE ServerClosed(i)
    BY <2>3 DEF ServerClosed
  <2>4. CASE ConsumerStopped(i)
    BY <2>4 DEF ConsumerStopped
  <2>5. CASE Quit(i) \/ HardExit(i)
    BY <1>1, <2>5 DEF Quit, HardExit
  <2> QED
    BY <1>3, <2>1, <2>2, <2>3, <2>4, <2>5 DEF Shutdown
<1>4. ASSUME NEW r \in Requests, NEW i \in Servers, Connect(r, i)
      PROVE  TypeOK'
  BY <1>4 DEF Connect
<1>5. ASSUME NEW f \in Feeds, Subscribe(f) \/ Unsubscribe(f)
      PROVE  TypeOK'
  <2>1. CASE Subscribe(f)
    BY <2>1 DEF Subscribe
  <2>2. CASE Unsubscribe(f)
    BY <2>2 DEF Unsubscribe
  <2> QED
    BY <1>5, <2>1, <2>2
<1>6. ASSUME NEW r \in Payouts, Answer(r)
      PROVE  TypeOK'
  BY <1>6 DEF Answer
<1> QED
  BY <1>2, <1>3, <1>4, <1>5, <1>6

\* No process is ever at an unknown place, and no request with an instance
\* that is none (server.ts, migrate.ts, sse.ts).
THEOREM TypeCorrect == Spec => []TypeOK
<1>1. Init => TypeOK
  BY LifecycleAssumption
     DEF Init, TypeOK, FilesOf, Starting, Listening, Stopping
<1>2. TypeOK /\ [Next]_vars => TypeOK'
  <2> SUFFICES ASSUME TypeOK, [Next]_vars
               PROVE  TypeOK'
    OBVIOUS
  <2>1. CASE Next
    BY <2>1, StartupType, ServingType DEF Next
  <2>2. CASE UNCHANGED vars
    BY <2>2 DEF vars, schema, startup, serving, clients, TypeOK, FilesOf
  <2> QED
    BY <2>1, <2>2
<1> QED
  BY <1>1, <1>2, PTL DEF Spec

(***************************************************************************)
(* The migrations.                                                         *)
(***************************************************************************)
\* Who reads or changes the schema holds the lock.
Locked(i) == pc[i] \in {"read", "migrate", "commit"} => lock = i

\* Its list is what its build has and Postgres does not record.
Pending(i) ==
    pc[i] \in {"migrate", "commit"} => todo[i] = FilesOf(i) \ recorded

\* An open transaction has the next file of the build.
Running(i) ==
    /\ pc[i] = "commit" => /\ inTx[i] = {Len(applied) + 1}
                           /\ Len(applied) + 1 \in FilesOf(i)
    /\ pc[i] # "commit" => inTx[i] = {}

SchemaInv ==
    /\ TypeOK
    /\ AppliedInOrder
    /\ \A i \in Instances : Locked(i) /\ Pending(i) /\ Running(i)

\* What an instance has pending begins right after what is applied.
LEMMA NextIsNext ==
    ASSUME TypeOK, AppliedInOrder, NEW i \in Instances,
           todo[i] = FilesOf(i) \ recorded, NEW f \in NextFiles(i)
    PROVE  f = Len(applied) + 1 /\ f \in FilesOf(i)
<1>1. Len(applied) \in Nat /\ Build[i] \in Nat
  BY LifecycleAssumption DEF TypeOK
<1>2. /\ f \in 1 .. Build[i] /\ f \notin 1 .. Len(applied)
      /\ \A g \in (1 .. Build[i]) \ (1 .. Len(applied)) : f <= g
  BY DEF NextFiles, FilesOf, AppliedInOrder
<1>3. Len(applied) + 1 \in (1 .. Build[i]) \ (1 .. Len(applied))
  BY <1>1, <1>2
<1> QED
  BY <1>1, <1>2, <1>3 DEF FilesOf

\* A commit of the next file keeps the order.
LEMMA CommittedInOrder ==
    ASSUME SchemaInv, NEW i \in Instances, pc[i] = "commit", Committed(i)
    PROVE  /\ AppliedInOrder'
           /\ recorded' = recorded \union inTx[i]
<1>1. applied \in Seq(Nat) /\ inTx[i] = {Len(applied) + 1}
  BY DEF SchemaInv, TypeOK, Running
<1>2. applied' = Append(applied, Len(applied) + 1)
  BY <1>1 DEF Committed
<1>3. recorded' = recorded \union {Len(applied) + 1}
  BY <1>1 DEF Committed
<1>4. /\ recorded = 1 .. Len(applied)
      /\ \A k \in 1 .. Len(applied) : applied[k] = k
  BY DEF SchemaInv, AppliedInOrder
<1>5. Len(applied') = Len(applied) + 1 /\ Len(applied) \in Nat
  BY <1>1, <1>2
<1>6. recorded' = 1 .. Len(applied')
  BY <1>3, <1>4, <1>5
<1>7. ASSUME NEW k \in 1 .. Len(applied')
      PROVE  applied'[k] = k
  BY <1>1, <1>2, <1>4, <1>5, <1>7
<1> QED
  BY <1>6, <1>7 DEF AppliedInOrder, Committed

\* The end of a process, which takes its lock and its transaction with it,
\* leaves the others as they are.
LEMMA ExitKeepsSchema ==
    ASSUME SchemaInv, TypeOK', NEW i \in Instances, Exit(i),
           \/ UNCHANGED <<recorded, applied>>
           \/ pc[i] = "commit" /\ Committed(i)
    PROVE  SchemaInv'
<1>1. AppliedInOrder'
  BY CommittedInOrder DEF SchemaInv, AppliedInOrder
<1>2. ASSUME NEW j \in Instances
      PROVE  (Locked(j) /\ Pending(j) /\ Running(j))'
  <2>1. CASE j = i
    BY <2>1 DEF SchemaInv, TypeOK, Exit, Goto, Locked, Pending, Running
  <2>2. CASE j # i /\ UNCHANGED <<recorded, applied>>
    BY <2>2 DEF SchemaInv, TypeOK, Exit, Goto, Locked, Pending, Running, FilesOf
  <2>3. CASE j # i /\ pc[i] = "commit"
    <3>1. pc[j] \notin {"read", "migrate", "commit"}
      BY <2>3 DEF SchemaInv, Locked
    <3> QED
      BY <2>3, <3>1 DEF SchemaInv, TypeOK, Exit, Goto, Locked, Pending, Running
  <2> QED
    BY <2>1, <2>2, <2>3
<1> QED
  BY <1>1, <1>2 DEF SchemaInv

\* A step that moves an instance outside of the migrations keeps the schema.
LEMMA ElsewhereKeepsSchema ==
    ASSUME SchemaInv, TypeOK', NEW i \in Instances, NEW place,
           UNCHANGED <<schema, todo, inTx>>,
           pc[i] \notin {"read", "migrate", "commit"},
           place \notin {"read", "migrate", "commit"},
           Goto(i, place) \/ UNCHANGED pc
    PROVE  SchemaInv'
BY DEF SchemaInv, TypeOK, Goto, AppliedInOrder, Locked, Pending, Running,
       FilesOf, schema

\* The steps of the start keep the schema.
LEMMA StartupKeepsSchema ==
    ASSUME SchemaInv, TypeOK', NEW i \in Instances,
           Startup(i) \/ Start(i) \/ StartFails(i)
    PROVE  SchemaInv'
<1>1. CASE Start(i) \/ DatabaseAnswers(i) \/ StartConsumer(i)
  BY <1>1, ElsewhereKeepsSchema
     DEF Start, DatabaseAnswers, StartConsumer, startup
<1>2. CASE DatabaseRefuses(i)
  <2>1. CASE Exit(i) /\ UNCHANGED <<recorded, applied>>
    BY <2>1, ExitKeepsSchema
  <2>2. CASE UNCHANGED <<schema, pc, todo, inTx>>
    BY <2>2 DEF SchemaInv, AppliedInOrder, Locked, Pending, Running, FilesOf, schema
  <2> QED
    BY <1>2, <2>1, <2>2 DEF DatabaseRefuses
<1>3. CASE TakeLock(i)
  <2>1. \A j \in Instances : pc[j] \notin {"read", "migrate", "commit"}
    BY <1>3, LifecycleAssumption DEF TakeLock, SchemaInv, Locked
  <2> QED
    BY <1>3, <2>1 DEF TakeLock, Goto, startup, SchemaInv, TypeOK, AppliedInOrder,
                      Locked, Pending, Running, FilesOf
<1>4. CASE ReadDone(i)
  BY <1>4 DEF ReadDone, Goto, schema, SchemaInv, TypeOK, AppliedInOrder,
              Locked, Pending, Running, FilesOf
<1>5. CASE RunFile(i)
  <2>1. PICK f \in NextFiles(i) : inTx' = [inTx EXCEPT ![i] = {f}]
    BY <1>5 DEF RunFile
  <2>2. f = Len(applied) + 1 /\ f \in FilesOf(i)
    BY <1>5, NextIsNext DEF RunFile, SchemaInv, Pending
  <2> QED
    BY <1>5, <2>1, <2>2 DEF RunFile, Goto, schema, SchemaInv, TypeOK, AppliedInOrder,
                            Locked, Pending, Running, FilesOf
<1>6. CASE Commit(i)
  <2>1. AppliedInOrder' /\ recorded' = recorded \union inTx[i]
    BY <1>6, CommittedInOrder DEF Commit
  <2>2. ASSUME NEW j \in Instances, j # i
        PROVE  pc[j] \notin {"read", "migrate", "commit"}
    BY <1>6, <2>2 DEF Commit, SchemaInv, Locked
  <2>3. ASSUME NEW j \in Instances
        PROVE  (Locked(j) /\ Pending(j) /\ Running(j))'
    BY <1>6, <2>1, <2>2, <2>3
       DEF Commit, Goto, SchemaInv, TypeOK, Locked, Pending, Running, FilesOf
  <2> QED
    BY <2>1, <2>3 DEF SchemaInv
<1>7. CASE Unlock(i)
  <2>1. CASE Exit(i)
    BY <1>7, <2>1, ExitKeepsSchema DEF Unlock
  <2>2. CASE /\ lock' = IF lock = i THEN Nobody ELSE lock
             /\ Goto(i, "group")
             /\ UNCHANGED startup
    BY <1>7, <2>2 DEF Unlock, Goto, startup, SchemaInv, TypeOK, AppliedInOrder,
                      Locked, Pending, Running, FilesOf
  <2> QED
    BY <1>7, <2>1, <2>2 DEF Unlock
<1>8. CASE StartFails(i)
  BY <1>8, ExitKeepsSchema DEF StartFails
<1> QED
  BY <1>1, <1>2, <1>3, <1>4, <1>5, <1>6, <1>7, <1>8 DEF Startup

\* The invariant of the migrations holds of every reachable state.
LEMMA SchemaInvHolds == Spec => []SchemaInv
<1>1. Init => SchemaInv
  <2> SUFFICES ASSUME Init PROVE SchemaInv
    OBVIOUS
  <2>1. Len(applied) = 0
    BY DEF Init
  <2>2. TypeOK
    BY LifecycleAssumption
       DEF Init, TypeOK, FilesOf, Starting, Listening, Stopping
  <2> QED
    BY <2>1, <2>2 DEF Init, SchemaInv, AppliedInOrder, Locked, Pending, Running
<1>2. SchemaInv /\ TypeOK' /\ [Next]_vars => SchemaInv'
  <2> SUFFICES ASSUME SchemaInv, TypeOK', [Next]_vars
               PROVE  SchemaInv'
    OBVIOUS
  <2>1. ASSUME NEW i \in Instances, Startup(i) \/ Start(i) \/ StartFails(i)
        PROVE  SchemaInv'
    BY <2>1, StartupKeepsSchema
  <2>2. ASSUME NEW i \in Instances, Exit(i), UNCHANGED <<recorded, applied>>
        PROVE  SchemaInv'
    BY <2>2, ExitKeepsSchema
  <2>3. ASSUME NEW i \in Servers, Signal(i) \/ Shutdown(i)
        PROVE  SchemaInv'
    <3>1. CASE Quit(i) \/ HardExit(i)
      BY <2>2, <3>1 DEF Quit, HardExit, Instances
    <3>2. CASE Signal(i) \/ CloseServer(i) \/ ServerClosed(i) \/ ConsumerStopped(i)
      BY <3>2, ElsewhereKeepsSchema
         DEF Signal, CloseServer, ServerClosed, ConsumerStopped, Instances, startup
    <3> QED
      BY <2>3, <3>1, <3>2 DEF Shutdown
  <2>4. CASE UNCHANGED <<schema, pc, todo, inTx>>
    BY <2>4 DEF SchemaInv, AppliedInOrder, Locked, Pending, Running, FilesOf, schema
  <2>5. CASE \E r \in Requests, i \in Servers : Connect(r, i)
    BY <2>4, <2>5 DEF Connect, startup
  <2>6. CASE \E f \in Feeds : Subscribe(f) \/ Unsubscribe(f)
    BY <2>4, <2>6 DEF Subscribe, Unsubscribe, startup
  <2>7. CASE \E r \in Payouts : Answer(r)
    BY <2>4, <2>7 DEF Answer, startup
  <2>8. CASE UNCHANGED vars
    BY <2>4, <2>8 DEF vars, startup
  <2> QED
    BY <2>1, <2>2, <2>3, <2>5, <2>6, <2>7, <2>8 DEF Next, Dies
<1> QED
  BY <1>1, <1>2, TypeCorrect, PTL DEF Spec

\* No instance runs a file that another has applied since it read the list,
\* whatever dies or fails (migrate.ts, the advisory lock).
THEOREM WorkStaysCurrent == Spec => []WorkIsCurrent
<1>1. SchemaInv => WorkIsCurrent
  BY DEF SchemaInv, Pending, WorkIsCurrent
<1> QED
  BY <1>1, SchemaInvHolds, PTL

\* The files are applied once each, in the order of their names, and
\* schema_migrations records just those (migrate.ts).
THEOREM FilesAppliedInOrder == Spec => []AppliedInOrder
<1>1. SchemaInv => AppliedInOrder
  BY DEF SchemaInv
<1> QED
  BY <1>1, SchemaInvHolds, PTL

(***************************************************************************)
(* Readiness, requests and subscribers.                                    *)
(***************************************************************************)
\* Who says that it is ready has not begun to shut down and has its tables.
ReadyInv ==
    \A i \in Instances : ready[i] =>
        pc[i] \in {"group", "up"} /\ FilesOf(i) \subseteq recorded

\* Who can have requests has its consumer; a request that is under way is with
\* such an instance, and a subscriber with one whose timer runs.
ServeInv ==
    /\ \A i \in Instances : pc[i] \in Listening \union {"close"} => consuming[i]
    /\ \A r \in Requests : Open(r) =>
          /\ where[r] \in Servers
          /\ pc[where[r]] \in Listening \union {"close"}
    /\ SubscribersArePinged

\* A schema only grows.
LEMMA RecordedGrows ==
    ASSUME [Next]_vars
    PROVE  recorded \subseteq recorded'
BY DEF Next, vars, Start, Startup, DatabaseAnswers, DatabaseRefuses, TakeLock,
       ReadDone, RunFile, Commit, Committed, Unlock, StartConsumer, StartFails, Dies,
       Signal, Shutdown, CloseServer, ServerClosed, ConsumerStopped, Quit, HardExit,
       Connect, Subscribe, Unsubscribe, Answer, schema

\* The end of a process ends its readiness, its requests and its subscribers.
LEMMA ExitKeepsServing ==
    ASSUME SchemaInv, ReadyInv, ServeInv, recorded \subseteq recorded',
           NEW i \in Instances, Exit(i)
    PROVE  ReadyInv' /\ ServeInv'
<1>1. ReadyInv'
  BY DEF SchemaInv, TypeOK, ReadyInv, Exit, Goto, FilesOf
<1>2. ASSUME NEW r \in Requests, Open(r)'
      PROVE  Open(r) /\ where[r] # i /\ where'[r] = where[r] /\ conn'[r] = conn[r]
  BY <1>2 DEF SchemaInv, TypeOK, Exit, Open, OpenOn
<1>3. ServeInv'
  BY <1>2 DEF SchemaInv, TypeOK, ServeInv, SubscribersArePinged, Exit, Goto, Open,
              Listening, Instances, Requests
<1> QED
  BY <1>1, <1>3

\* The steps of the start, none of which has a request.
LEMMA StartupKeepsServing ==
    ASSUME SchemaInv, ReadyInv, ServeInv, recorded \subseteq recorded',
           NEW i \in Instances, Startup(i) \/ Start(i) \/ StartFails(i)
    PROVE  ReadyInv' /\ ServeInv'
<1>1. CASE Exit(i)
  BY <1>1, ExitKeepsServing
<1> USE DEF SchemaInv, TypeOK, Goto, FilesOf, startup, serving, clients, schema
<1>2. CASE /\ pc[i] \notin {"group", "up"} \union Listening \union {"close"}
           /\ \E place \in {"wait", "lock", "read", "migrate", "commit"} :
                 Goto(i, place)
           /\ UNCHANGED <<serving, clients>>
  <2>1. ReadyInv'
    BY <1>2 DEF ReadyInv
  <2>2. ServeInv'
    BY <1>2 DEF ServeInv, SubscribersArePinged, Open, Listening
  <2> QED
    BY <2>1, <2>2
<1>3. CASE UNCHANGED <<pc, serving, clients>>
  BY <1>3 DEF ReadyInv, ServeInv, SubscribersArePinged, Open
<1>4. CASE Unlock(i)
  <2>1. CASE /\ pc[i] = "migrate" /\ todo[i] = {}
             /\ ready' = [ready EXCEPT ![i] = TRUE]
             /\ Goto(i, "group")
             /\ UNCHANGED <<consuming, pings, conn, where, recorded>>
    <3>1. FilesOf(i) \subseteq recorded
      BY <2>1 DEF Pending
    <3>2. ReadyInv'
      BY <2>1, <3>1 DEF ReadyInv
    <3>3. ServeInv'
      BY <2>1 DEF ServeInv, SubscribersArePinged, Open, Listening
    <3> QED
      BY <3>2, <3>3
  <2> QED
    BY <1>1, <1>4, <2>1 DEF Unlock
<1>5. CASE StartConsumer(i)
  <2>1. ReadyInv'
    BY <1>5 DEF StartConsumer, ReadyInv
  <2>2. ServeInv'
    BY <1>5 DEF StartConsumer, ServeInv, SubscribersArePinged, Open, Listening
  <2> QED
    BY <2>1, <2>2
<1>6. CASE Start(i) \/ DatabaseAnswers(i) \/ TakeLock(i) \/ ReadDone(i)
             \/ RunFile(i) \/ Commit(i)
  BY <1>2, <1>6 DEF Start, DatabaseAnswers, TakeLock, ReadDone, RunFile, Commit,
                    Listening
<1>7. CASE DatabaseRefuses(i) \/ StartFails(i)
  BY <1>1, <1>3, <1>7 DEF DatabaseRefuses, StartFails
<1> QED
  BY <1>1, <1>4, <1>5, <1>6, <1>7 DEF Startup

\* The steps of the shutdown.
LEMMA ShutdownKeepsServing ==
    ASSUME SchemaInv, ReadyInv, ServeInv, recorded \subseteq recorded',
           NEW i \in Servers, Signal(i) \/ Shutdown(i)
    PROVE  ReadyInv' /\ ServeInv'
<1> USE DEF SchemaInv, TypeOK, Goto, FilesOf, Instances, startup, clients, schema
<1>1. CASE Signal(i)
  BY <1>1 DEF Signal, ReadyInv, ServeInv, SubscribersArePinged, Open, Listening
<1>2. CASE CloseServer(i)
  <2>1. ReadyInv'
    BY <1>2 DEF CloseServer, ReadyInv
  <2>2. ASSUME NEW r \in Requests, Open(r)'
        PROVE  Open(r) /\ conn'[r] = conn[r]
    BY <1>2, <2>2 DEF CloseServer, Open
  <2>3. ASSUME NEW f \in Feeds, conn'[f] = "subscribed"
        PROVE  conn[f] = "subscribed" /\ where[f] # i
    BY <1>2, <2>3 DEF CloseServer, Open, OpenOn, Requests
  <2>4. ServeInv'
    BY <1>2, <2>2, <2>3
       DEF CloseServer, ServeInv, SubscribersArePinged, Listening, Open, Requests
  <2> QED
    BY <2>1, <2>4
<1>3. CASE ServerClosed(i)
  <2>1. ReadyInv'
    BY <1>3 DEF ServerClosed, ReadyInv
  <2>2. ASSUME NEW r \in Requests, Open(r)
        PROVE  where[r] # i
    BY <1>3, <2>2 DEF ServerClosed, OpenOn
  <2>3. ServeInv'
    BY <1>3, <2>2 DEF ServerClosed, ServeInv, SubscribersArePinged, Listening, Open
  <2> QED
    BY <2>1, <2>3
<1>4. CASE ConsumerStopped(i)
  <2>1. ReadyInv'
    BY <1>4 DEF ConsumerStopped, ReadyInv, serving
  <2>2. ServeInv'
    BY <1>4 DEF ConsumerStopped, ServeInv, SubscribersArePinged, Listening, Open,
                serving
  <2> QED
    BY <2>1, <2>2
<1>5. CASE Quit(i) \/ HardExit(i)
  BY <1>5, ExitKeepsServing DEF Quit, HardExit
<1> QED
  BY <1>1, <1>2, <1>3, <1>4, <1>5 DEF Shutdown

\* The steps of the clients.
LEMMA ClientsKeepServing ==
    ASSUME SchemaInv, ReadyInv, ServeInv, recorded \subseteq recorded'
    PROVE  /\ \A r \in Requests, i \in Servers : Connect(r, i) => ReadyInv' /\ ServeInv'
           /\ \A f \in Feeds :
                 Subscribe(f) \/ Unsubscribe(f) => ReadyInv' /\ ServeInv'
           /\ \A r \in Payouts : Answer(r) => ReadyInv' /\ ServeInv'
<1> USE DEF SchemaInv, TypeOK, FilesOf, Instances, Requests, startup, serving, schema
<1>1. ASSUME UNCHANGED <<pc, ready, recorded>> PROVE ReadyInv'
  BY <1>1 DEF ReadyInv
<1>2. ASSUME NEW r \in Requests, NEW i \in Servers, Connect(r, i)
      PROVE  ReadyInv' /\ ServeInv'
  BY <1>1, <1>2 DEF Connect, ServeInv, SubscribersArePinged, Open, Listening
<1>3. ASSUME NEW f \in Feeds, Subscribe(f)
      PROVE  ReadyInv' /\ ServeInv'
  BY <1>1, <1>3 DEF Subscribe, ServeInv, SubscribersArePinged, Open, Listening
<1>4. ASSUME NEW f \in Feeds, Unsubscribe(f)
      PROVE  ReadyInv' /\ ServeInv'
  BY <1>1, <1>4 DEF Unsubscribe, ServeInv, SubscribersArePinged, Open, Listening
<1>5. ASSUME NEW r \in Payouts, Answer(r)
      PROVE  ReadyInv' /\ ServeInv'
  BY <1>1, <1>5 DEF Answer, ServeInv, SubscribersArePinged, Open, Listening
<1> QED
  BY <1>2, <1>3, <1>4, <1>5

\* Both invariants hold of every reachable state.
LEMMA ServingHolds == Spec => [](ReadyInv /\ ServeInv)
<1>1. Init => ReadyInv /\ ServeInv
  BY DEF Init, ReadyInv, ServeInv, SubscribersArePinged, Open, Listening, Requests
<1>2. SchemaInv /\ (ReadyInv /\ ServeInv) /\ [Next]_vars => (ReadyInv /\ ServeInv)'
  <2> SUFFICES ASSUME SchemaInv, ReadyInv, ServeInv, [Next]_vars
               PROVE  ReadyInv' /\ ServeInv'
    OBVIOUS
  <2>1. recorded \subseteq recorded'
    BY RecordedGrows
  <2>2. CASE Next
    BY <2>1, <2>2, StartupKeepsServing, ShutdownKeepsServing, ClientsKeepServing,
       ExitKeepsServing DEF Next, Dies
  <2>3. CASE UNCHANGED vars
    BY <2>3 DEF vars, schema, serving, clients, ReadyInv, ServeInv,
                SubscribersArePinged, Open, FilesOf
  <2> QED
    BY <2>2, <2>3
<1> QED
  BY <1>1, <1>2, SchemaInvHolds, PTL DEF Spec

\* An instance that says it is ready has the tables of its build and has not
\* begun to shut down (healthService.ts, server.ts).
THEOREM ReadyStaysTrue == Spec => []ReadyIsTrue
<1>1. ReadyInv => ReadyIsTrue
  BY DEF ReadyInv, ReadyIsTrue, Listening, Instances
<1> QED
  BY <1>1, ServingHolds, PTL

\* No request is under way on an instance that has stopped its consumer or
\* closes its stores (server.ts, the order of the shutdown).
THEOREM RequestsStayServed == Spec => []RequestsAreServed
<1>1. ServeInv => RequestsAreServed
  BY DEF ServeInv, RequestsAreServed, Instances
<1> QED
  BY <1>1, ServingHolds, PTL

\* Every subscriber of the event feed is with an instance whose timer runs
\* (sse.ts).
THEOREM SubscribersStayPinged == Spec => []SubscribersArePinged
<1>1. ServeInv => SubscribersArePinged
  BY DEF ServeInv
<1> QED
  BY <1>1, ServingHolds, PTL
=============================================================================
