----------------------------- MODULE Lifecycle -----------------------------
(***************************************************************************)
(* The life of the processes, from src/server.ts, src/db/migrate.ts,       *)
(* src/db/migrateCli.ts, src/db/pool.ts, src/lib/sse.ts and                *)
(* src/services/healthService.ts: an instance waits for Postgres, applies  *)
(* the pending migrations under an advisory lock, starts the outcome       *)
(* consumer, listens, and shuts down against requests and subscribers that *)
(* are still there.  Instances of different builds start together and may  *)
(* die anywhere.  What the consumer does is in module OutcomeStream.       *)
(***************************************************************************)
EXTENDS Integers, Sequences, FiniteSets

CONSTANTS
    Servers,      \* instances of the service
    Migrators,    \* runs of the command line migration
    Build,        \* how many migration files the build of each knows
    Payouts,      \* requests that are answered, or hang
    Feeds,        \* requests for the event feed
    MaxAttempts,  \* of waitForDatabase
    MaxStarts,    \* bound on the starts, of all the instances together
    Nobody

Instances == Servers \union Migrators
Requests  == Payouts \union Feeds

\* Files are applied in the order of their names, and a newer build adds
\* files at the end.
FilesOf(i) == 1 .. Build[i]

ASSUME LifecycleAssumption ==
    /\ Build \in [Instances -> Nat]
    /\ Servers \intersect Migrators = {}
    /\ Payouts \intersect Feeds = {}
    /\ MaxAttempts \in Nat \ {0}
    /\ MaxStarts \in Nat
    /\ Nobody \notin Instances

VARIABLES
    lock,       \* Postgres: the session that holds the advisory lock
    recorded,   \* Postgres: the names in schema_migrations
    applied,    \* history: the files whose statements were committed
    pc,         \* where each instance stands
    attempts,   \* failed attempts to reach Postgres
    todo,       \* the files an instance has found pending
    inTx,       \* the files in its open transaction, one or none
    ready,      \* migrationsComplete of HealthService
    consuming,  \* running of OutcomeConsumer
    pings,      \* whether the keep-alive timer of the event feed is set
    conn,       \* each request: "none", "waiting", "subscribed" or "over"
    where,      \* the instance that has accepted it
    starts      \* the starts so far

schema  == <<lock, recorded, applied>>
startup == <<attempts, todo, inTx>>
serving == <<ready, consuming, pings>>
clients == <<conn, where>>
vars    == <<schema, pc, startup, serving, clients, starts>>

Starting  == {"wait", "lock", "read", "migrate", "commit", "group"}
Listening == {"up", "drain"}
Stopping  == {"drain", "close", "stop", "quit"}

TypeOK ==
    /\ lock \in Instances \union {Nobody}
    /\ recorded \subseteq Nat /\ applied \in Seq(Nat)
    /\ pc \in [Instances -> {"off"} \union Starting \union Listening \union Stopping]
    /\ attempts \in [Instances -> 0 .. MaxAttempts - 1]
    /\ todo \in [Instances -> SUBSET Nat] /\ inTx \in [Instances -> SUBSET Nat]
    /\ \A i \in Instances : todo[i] \union inTx[i] \subseteq FilesOf(i)
    /\ ready \in [Instances -> BOOLEAN]
    /\ consuming \in [Instances -> BOOLEAN]
    /\ pings \in [Instances -> BOOLEAN]
    /\ conn \in [Requests -> {"none", "waiting", "subscribed", "over"}]
    /\ where \in [Requests -> Servers \union {Nobody}]
    /\ starts \in 0 .. MaxStarts

Goto(i, place) == pc' = [pc EXCEPT ![i] = place]

Open(r) == conn[r] \in {"waiting", "subscribed"}

OpenOn(i) == {r \in Requests : Open(r) /\ where[r] = i}

\* The process ends: Postgres rolls its transaction back and drops the lock of
\* its session, and the requests it has not answered are cut.
Exit(i) ==
    /\ Goto(i, "off")
    /\ lock' = IF lock = i THEN Nobody ELSE lock
    /\ attempts' = [attempts EXCEPT ![i] = 0]
    /\ todo' = [todo EXCEPT ![i] = {}]
    /\ inTx' = [inTx EXCEPT ![i] = {}]
    /\ ready' = [ready EXCEPT ![i] = FALSE]
    /\ consuming' = [consuming EXCEPT ![i] = FALSE]
    /\ pings' = [pings EXCEPT ![i] = FALSE]
    /\ conn' = [r \in Requests |-> IF r \in OpenOn(i) THEN "over" ELSE conn[r]]
    /\ UNCHANGED <<where, starts>>

(***************************************************************************)
(* Start.                                                                  *)
(***************************************************************************)
Start(i) ==
    /\ pc[i] = "off" /\ starts < MaxStarts
    /\ starts' = starts + 1
    /\ Goto(i, "wait")
    /\ UNCHANGED <<schema, startup, serving, clients>>

\* waitForDatabase: SELECT 1.
DatabaseAnswers(i) ==
    /\ pc[i] = "wait"
    /\ Goto(i, "lock")
    /\ UNCHANGED <<schema, startup, serving, clients, starts>>

\* Fault: one attempt more.
LastAttempt_oneMore(i) == attempts[i] = MaxAttempts

LastAttempt(i) == attempts[i] = MaxAttempts - 1

\* waitForDatabase waits and tries again, and gives up after the last attempt.
DatabaseRefuses(i) ==
    /\ pc[i] = "wait"
    /\ \/ /\ LastAttempt(i) /\ Exit(i)
          /\ UNCHANGED <<recorded, applied>>
       \/ /\ ~LastAttempt(i)
          /\ attempts' = [attempts EXCEPT ![i] = @ + 1]
          /\ UNCHANGED <<schema, pc, todo, inTx, serving, clients, starts>>

\* Fault: the lock is not waited for.
TakeLock_atOnce(i) ==
    /\ pc[i] = "lock"
    /\ lock' = i
    /\ Goto(i, "read")
    /\ UNCHANGED <<recorded, applied, startup, serving, clients, starts>>

\* pg_advisory_lock.
TakeLock(i) ==
    /\ pc[i] = "lock" /\ lock = Nobody
    /\ lock' = i
    /\ Goto(i, "read")
    /\ UNCHANGED <<recorded, applied, startup, serving, clients, starts>>

\* schema_migrations is made if need be and read.
ReadDone(i) ==
    /\ pc[i] = "read"
    /\ todo' = [todo EXCEPT ![i] = FilesOf(i) \ recorded]
    /\ Goto(i, "migrate")
    /\ UNCHANGED <<schema, attempts, inTx, serving, clients, starts>>

\* Fault: the files are taken in any order.
NextFiles_unsorted(i) == todo[i]

\* The first by name.
NextFiles(i) == {f \in todo[i] : \A g \in todo[i] : f <= g}

\* BEGIN, the statements of the file and the row of its name.  The row waits
\* for another open transaction with the same name and fails on a committed one.
RunFile(i) ==
    /\ pc[i] = "migrate"
    /\ \E f \in NextFiles(i) :
          /\ f \notin recorded
          /\ \A j \in Instances : f \notin inTx[j]
          /\ inTx' = [inTx EXCEPT ![i] = {f}]
    /\ Goto(i, "commit")
    /\ UNCHANGED <<schema, attempts, todo, serving, clients, starts>>

Committed(i) ==
    /\ recorded' = recorded \union inTx[i]
    /\ \E f \in inTx[i] : applied' = Append(applied, f)

\* COMMIT.
Commit(i) ==
    /\ pc[i] = "commit"
    /\ Committed(i)
    /\ todo' = [todo EXCEPT ![i] = @ \ inTx[i]]
    /\ inTx' = [inTx EXCEPT ![i] = {}]
    /\ Goto(i, "migrate")
    /\ UNCHANGED <<lock, attempts, serving, clients, starts>>

\* Fault: the lock stays with the connection in the pool.
Unlock_never(i) ==
    /\ pc[i] = "migrate" /\ todo[i] = {} /\ i \in Servers
    /\ ready' = [ready EXCEPT ![i] = TRUE]
    /\ Goto(i, "group")
    /\ UNCHANGED <<schema, startup, consuming, pings, clients, starts>>

\* pg_advisory_unlock.  A server is then ready and starts its consumer; the
\* command line ends.
Unlock(i) ==
    /\ pc[i] = "migrate" /\ todo[i] = {}
    /\ \/ /\ i \in Servers
          /\ lock' = IF lock = i THEN Nobody ELSE lock
          /\ ready' = [ready EXCEPT ![i] = TRUE]
          /\ Goto(i, "group")
          /\ UNCHANGED <<startup, consuming, pings, clients, starts>>
       \/ i \in Migrators /\ Exit(i)
    /\ UNCHANGED <<recorded, applied>>

\* OutcomeConsumer.start makes the group; then the server listens.
StartConsumer(i) ==
    /\ pc[i] = "group"
    /\ consuming' = [consuming EXCEPT ![i] = TRUE]
    /\ Goto(i, "up")
    /\ UNCHANGED <<schema, startup, ready, pings, clients, starts>>

\* A query of the start fails, or XGROUP CREATE does: ROLLBACK, the unlock of
\* the finally block, and exit.  The answer to a COMMIT may be lost after it
\* was done.
StartFails(i) ==
    /\ pc[i] \in Starting \ {"wait"}
    /\ \/ UNCHANGED <<recorded, applied>>
       \/ pc[i] = "commit" /\ Committed(i)
    /\ Exit(i)

(***************************************************************************)
(* Requests and subscribers.                                               *)
(***************************************************************************)
\* The server listens, and accepts a connection.
Connect(r, i) ==
    /\ conn[r] = "none" /\ pc[i] \in Listening
    /\ conn' = [conn EXCEPT ![r] = "waiting"]
    /\ where' = [where EXCEPT ![r] = i]
    /\ UNCHANGED <<schema, pc, startup, serving, starts>>

\* SseHub.subscribe, also for a connection that was accepted before closeAll.
Subscribe(f) ==
    /\ conn[f] = "waiting"
    /\ conn' = [conn EXCEPT ![f] = "subscribed"]
    /\ pings' = [pings EXCEPT ![where[f]] = TRUE]
    /\ UNCHANGED <<schema, pc, startup, ready, consuming, where, starts>>

\* Fault: any subscriber that leaves stops the timer.
Unsubscribe_stops(f) ==
    /\ conn[f] = "subscribed"
    /\ conn' = [conn EXCEPT ![f] = "over"]
    /\ pings' = [pings EXCEPT ![where[f]] = FALSE]
    /\ UNCHANGED <<schema, pc, startup, ready, consuming, where, starts>>

\* The console closes its feed.
Unsubscribe(f) ==
    LET others == {g \in Feeds \ {f} : conn[g] = "subscribed" /\ where[g] = where[f]}
    IN  /\ conn[f] = "subscribed"
        /\ conn' = [conn EXCEPT ![f] = "over"]
        /\ pings' = [pings EXCEPT ![where[f]] = @ /\ others # {}]
        /\ UNCHANGED <<schema, pc, startup, ready, consuming, where, starts>>

\* A request has its answer, or its error.
Answer(r) ==
    /\ conn[r] = "waiting"
    /\ conn' = [conn EXCEPT ![r] = "over"]
    /\ UNCHANGED <<schema, pc, startup, serving, where, starts>>

(***************************************************************************)
(* Shutdown.                                                               *)
(***************************************************************************)
\* Fault: the instance still says that it is ready.
Signal_stillReady(i) ==
    /\ pc[i] = "up"
    /\ Goto(i, "drain")
    /\ UNCHANGED <<schema, startup, serving, clients, starts>>

\* SIGTERM or SIGINT; a second one changes nothing.
Signal(i) ==
    /\ pc[i] = "up"
    /\ ready' = [ready EXCEPT ![i] = FALSE]
    /\ Goto(i, "drain")
    /\ UNCHANGED <<schema, startup, consuming, pings, clients, starts>>

\* After the sleep: events.closeAll, and server.close accepts nothing more.
CloseServer(i) ==
    /\ pc[i] = "drain"
    /\ conn' = [r \in Requests |->
                   IF r \in OpenOn(i) /\ conn[r] = "subscribed" THEN "over" ELSE conn[r]]
    /\ pings' = [pings EXCEPT ![i] = FALSE]
    /\ Goto(i, "close")
    /\ UNCHANGED <<schema, startup, ready, consuming, where, starts>>

\* Fault: server.close is not waited for.
ServerClosed_atOnce(i) ==
    /\ pc[i] = "close"
    /\ consuming' = [consuming EXCEPT ![i] = FALSE]
    /\ Goto(i, "stop")
    /\ UNCHANGED <<schema, startup, ready, pings, clients, starts>>

\* The last connection has ended, and consumer.stop begins.
ServerClosed(i) ==
    /\ pc[i] = "close" /\ OpenOn(i) = {}
    /\ consuming' = [consuming EXCEPT ![i] = FALSE]
    /\ Goto(i, "stop")
    /\ UNCHANGED <<schema, startup, ready, pings, clients, starts>>

\* The read loop has returned, or two seconds have passed.
ConsumerStopped(i) ==
    /\ pc[i] = "stop"
    /\ Goto(i, "quit")
    /\ UNCHANGED <<schema, startup, serving, clients, starts>>

\* closeRedis and closePools are done.
Quit(i) ==
    /\ pc[i] = "quit"
    /\ Exit(i)
    /\ UNCHANGED <<recorded, applied>>

\* Fault: nobody watches the time.
HardExit_never(i) == FALSE /\ UNCHANGED vars

\* Fifteen seconds have passed since the signal.
HardExit(i) ==
    /\ pc[i] \in Stopping \ {"drain"}
    /\ Exit(i)
    /\ UNCHANGED <<recorded, applied>>

\* The process is killed, or ends on an uncaught exception.
Dies(i) ==
    /\ pc[i] # "off"
    /\ Exit(i)
    /\ UNCHANGED <<recorded, applied>>

Startup(i) ==
    \/ DatabaseAnswers(i) \/ DatabaseRefuses(i) \/ TakeLock(i) \/ ReadDone(i)
    \/ RunFile(i) \/ Commit(i) \/ Unlock(i) \/ StartConsumer(i)

Shutdown(i) ==
    \/ CloseServer(i) \/ ServerClosed(i) \/ ConsumerStopped(i) \/ Quit(i)
    \/ HardExit(i)

Init ==
    /\ lock = Nobody /\ recorded = {} /\ applied = <<>>
    /\ pc = [i \in Instances |-> "off"]
    /\ attempts = [i \in Instances |-> 0]
    /\ todo = [i \in Instances |-> {}]
    /\ inTx = [i \in Instances |-> {}]
    /\ ready = [i \in Instances |-> FALSE]
    /\ consuming = [i \in Instances |-> FALSE]
    /\ pings = [i \in Instances |-> FALSE]
    /\ conn = [r \in Requests |-> "none"]
    /\ where = [r \in Requests |-> Nobody]
    /\ starts = 0

Next ==
    \/ \E i \in Instances : Start(i) \/ Startup(i) \/ StartFails(i) \/ Dies(i)
    \/ \E i \in Servers : Signal(i) \/ Shutdown(i)
    \/ \E r \in Requests, i \in Servers : Connect(r, i)
    \/ \E f \in Feeds : Subscribe(f) \/ Unsubscribe(f)
    \/ \E r \in Payouts : Answer(r)

Spec == Init /\ [][Next]_vars

\* Every query is answered, and every timer fires.  Nothing says that a query
\* which waits for the lock ever fails, that a request is answered or that a
\* subscriber leaves.
FairSpec ==
    /\ Spec
    /\ \A i \in Instances : WF_vars(Startup(i))
    /\ \A i \in Servers : WF_vars(Shutdown(i))

(***************************************************************************)
(* What must hold.                                                         *)
(***************************************************************************)
\* Nobody works from an old list: no file in it has been applied by somebody
\* else since it was read (migrate.ts: without the lock two containers that
\* start together both try to create the same table).
WorkIsCurrent ==
    \A i \in Instances : pc[i] \in {"migrate", "commit"} =>
        todo[i] \intersect recorded = {}

\* Whatever starts, fails or dies in between, the files are applied once each
\* and in order, and schema_migrations tells which (migrate.ts: each migration
\* in its own transaction, with its name).
AppliedInOrder ==
    /\ recorded = 1 .. Len(applied)
    /\ \A k \in 1 .. Len(applied) : applied[k] = k

\* An instance that can be asked says that it is ready only with the tables of
\* its own build in place and no shutdown begun (healthService.ts, server.ts).
ReadyIsTrue ==
    \A i \in Servers : ready[i] /\ pc[i] \in Listening =>
        pc[i] = "up" /\ FilesOf(i) \subseteq recorded

\* While a request is under way its instance has its stores, and the outcomes
\* still reach the windows (server.ts: the consumer stops after the server).
RequestsAreServed ==
    \A r \in Requests : Open(r) =>
        consuming[where[r]] /\ pc[where[r]] \in Listening \union {"close"}

\* Every subscriber gets the comment lines that keep a proxy from closing the
\* connection, also one that comes after closeAll (sse.ts).
SubscribersArePinged ==
    \A f \in Feeds : conn[f] = "subscribed" => pings[where[f]]

\* An instance that starts is up some day, or gives up: nobody waits for ever
\* for the lock of another (migrate.ts: the finally block).
StartEnds ==
    \A i \in Instances : pc[i] \in Starting ~> pc[i] \in {"up", "off"}

\* A signal ends the process, although a request hangs or a subscriber stays
\* (server.ts: hardExit).
ShutdownEnds ==
    \A i \in Servers : pc[i] \in Stopping ~> pc[i] = "off"
=============================================================================
