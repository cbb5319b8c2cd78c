------------------------------ MODULE Lifecycle ------------------------------
(***************************************************************************)
(* Start-up and shutdown of sr-ctrl: main, with launch_srdb, srdb_new,     *)
(* srdb_monitor, srdb_monitor_join_all and srdb_destroy, and the threads   *)
(* it creates, waits for and stops.  Modules MonitorStream, NetState,      *)
(* FlowTable and SrdbTransact have what the threads do in detail; here     *)
(* they do as much as the order of the start and of the stop depends on:   *)
(*   - a monitor hands over the initial rows of its table one by one, and  *)
(*     ends when the server closes its connection;                         *)
(*   - a worker takes a request, answers it from the active graph and      *)
(*     waits for a transaction;                                            *)
(*   - netmon copies a dirty staging graph and waits for the transactions  *)
(*     of recompute_flows;                                                 *)
(*   - a transaction worker connects, sends one transaction at a time and   *)
(*     hands the result, if there is ever one, to the thread that waits.   *)
(* Buffers are the bounded FIFOs of module Sbuf.  Routers and links are    *)
(* there when the server is started.                                       *)
(***************************************************************************)
EXTENDS Integers, Sequences, FiniteSets

CONSTANTS Routers,      \* rows of NodeState
          Links, Ends,  \* rows of LinkState, and their routers
          Requests,     \* rows of FlowReq
          Needs,        \* Needs[r]: the routers of request r
          Workers, TrWorkers,
          ReqSize,      \* req_buffer_size
          CanFail       \* whether srdb_monitor can fail

\* load_config replaces a worker_threads or ntransacts of 0 by 1.
ASSUME LifecycleAssumption ==
    /\ Ends \in [Links -> SUBSET Routers] /\ Needs \in [Requests -> SUBSET Routers]
    /\ IsFiniteSet(Workers) /\ Workers # {}
    /\ IsFiniteSet(TrWorkers) /\ TrWorkers # {}
    /\ ReqSize \in Nat \ {0} /\ CanFail \in BOOLEAN

Monitors == 1 .. 3    \* of NodeState, LinkState and FlowReq, as launched
Netmon == "netmon"
Callers == Workers \cup {Netmon}
Null == "NULL"

ASSUME NamesAssumption ==
    Netmon \notin Workers /\ Null \notin Callers /\ Null \notin Requests

TrSize == 2 * Cardinality(TrWorkers)

VARIABLES main, k,      \* where main is, and a loop counter
          monStop,      \* the semaphore mon_stop of netmon
          freed,        \* what main has freed
          server,       \* "down", "up" or "closed"
          mon,          \* mon[m]: where the m-th monitor is
          initialRead, stop,
          todo,         \* todo[m]: initial rows not handed over
          later,        \* requests made while the FlowReq monitor runs
          staging,      \* routers and links the controller knows of
          active, dirty,
          reqs,         \* req_buffer
          pc,           \* where the workers and netmon are
          req,          \* req[w]: the request of worker w
          transactions, \* srdb->transactions
          trpc,         \* where the transaction workers are
          tr,           \* tr[t]: whose transaction is pending at t, or Null
          results,      \* workers whose connection holds an unread result
          answer,       \* answer[r]: the status of request r
          refused       \* history: a connection or a launch failed

mainVars == <<main, k, monStop, freed>>
monVars == <<mon, initialRead, stop, refused>>
rowVars == <<todo, later>>
graphVars == <<staging, active, dirty>>
workVars == <<reqs, pc, req, answer>>
trVars == <<transactions, trpc, tr, results>>
\* What main leaves alone when it deals with the monitors, or with the workers.
othersVars == <<server, rowVars, graphVars, workVars, trVars>>
vars == <<mainVars, server, monVars, rowVars, graphVars, workVars, trVars>>

Init ==
    /\ main = "srdb" /\ k = 1 /\ monStop = 0 /\ freed = {}
    /\ server \in {"down", "up"}
    /\ mon = [m \in Monitors |-> "none"]
    /\ initialRead = [m \in Monitors |-> 0] /\ stop = [m \in Monitors |-> 0]
    /\ later \in SUBSET Requests
    /\ todo = <<Routers, Links, Requests \ later>>
    /\ staging = {} /\ active = {} /\ dirty = FALSE
    /\ reqs = << >>
    /\ pc = [c \in Callers |-> "none"]
    /\ req = [w \in Workers |-> Null]
    /\ answer = [r \in Requests |-> "pending"]
    /\ transactions = << >>
    /\ trpc = [t \in TrWorkers |-> "none"]
    /\ tr = [t \in TrWorkers |-> Null]
    /\ results = {}
    /\ refused = FALSE

-----------------------------------------------------------------------------
(***************************************************************************)
(* main                                                                    *)
(***************************************************************************)
Goto(from, to) == main = from /\ main' = to

\* One more of n rounds of a loop of main, which then goes on to another place.
Round(at, n, to) ==
    /\ main = at
    /\ main' = IF k < n THEN at ELSE to
    /\ k' = IF k < n THEN k + 1 ELSE 1

\* srdb_new, then the worker threads.
StartWorkers ==
    /\ Goto("srdb", "launch")
    /\ trpc' = [t \in TrWorkers |-> "connect"]
    /\ pc' = [c \in Callers |-> IF c = Netmon THEN "none" ELSE "idle"]
    /\ UNCHANGED <<k, monStop, freed, server, monVars, rowVars, graphVars, reqs,
                   req, answer, transactions, tr, results>>

\* launch_srdb: srdb_monitor of the k-th table.
Launch ==
    /\ Goto("launch", "sync")
    /\ mon' = [mon EXCEPT ![k] = "connect"]
    /\ UNCHANGED <<k, monStop, freed, initialRead, stop, refused, othersVars>>

LaunchFails ==
    /\ CanFail
    /\ Goto("launch", "free")
    /\ refused' = TRUE
    /\ UNCHANGED <<k, monStop, freed, mon, initialRead, stop, othersVars>>

\* Mutant: srdb_monitor does not wait.
SyncNotAsked == TRUE

InitialRead == initialRead[k] > 0

Sync ==
    /\ Goto("sync", IF k = 3 THEN "netmon" ELSE "launch")
    /\ InitialRead
    /\ initialRead' = [initialRead EXCEPT ![k] = @ - 1]
    /\ k' = IF k = 3 THEN 1 ELSE k + 1
    /\ UNCHANGED <<monStop, freed, mon, stop, refused, othersVars>>

\* Mutant: main does not wait for the monitors to end.
AfterNetmonNulls == "nulls"

AfterNetmon == "joinmon"

StartNetmon ==
    /\ Goto("netmon", AfterNetmon)
    /\ pc' = [pc EXCEPT ![Netmon] = "loop"]
    /\ UNCHANGED <<k, monStop, freed, server, monVars, rowVars, graphVars, reqs,
                   req, answer, trVars>>

\* srdb_monitor_join_all, which takes the monitor off the list.
JoinMonitor ==
    /\ Round("joinmon", 3, "nulls")
    /\ mon[k] = "done"
    /\ mon' = [mon EXCEPT ![k] = "none"]
    /\ UNCHANGED <<monStop, freed, initialRead, stop, refused, othersVars>>

RoomForNull == Len(reqs) < ReqSize

\* A NULL for every worker.
StopWorkers ==
    /\ Round("nulls", Cardinality(Workers), "joinworkers")
    /\ RoomForNull
    /\ reqs' = Append(reqs, Null)
    /\ UNCHANGED <<monStop, freed, server, monVars, rowVars, graphVars, pc, req,
                   answer, trVars>>

\* Mutant: netmon is not told to stop.
StopForgotten == monStop

StopPosted == monStop + 1

JoinWorkers ==
    /\ Goto("joinworkers", "joinnetmon")
    /\ \A w \in Workers : pc[w] = "done"
    /\ monStop' = StopPosted
    /\ UNCHANGED <<k, freed, monVars, othersVars>>

\* Mutant: netmon is not joined.
NetmonIsJoinable == TRUE

NetmonJoinable == pc[Netmon] = "done"

\* destroy_netstate.
JoinNetmon ==
    /\ Goto("joinnetmon", "free")
    /\ NetmonJoinable
    /\ freed' = {"netstate"}
    /\ UNCHANGED <<k, monStop, monVars, othersVars>>

\* sbuf_destroy and hmap_destroy.
FreeBuffers ==
    /\ Goto("free", "trnulls")
    /\ freed' = freed \cup {"req_buffer", "flows"}
    /\ k' = 1
    /\ UNCHANGED <<monStop, monVars, othersVars>>

\* srdb_destroy: a NULL for every transaction worker.
StopTransactions ==
    /\ Round("trnulls", Cardinality(TrWorkers), "jointr")
    /\ Len(transactions) < TrSize
    /\ transactions' = Append(transactions, Null)
    /\ UNCHANGED <<monStop, freed, server, monVars, rowVars, graphVars, workVars,
                   trpc, tr, results>>

JoinTransactions ==
    /\ Goto("jointr", "stopmon")
    /\ \A t \in TrWorkers : trpc[t] = "done"
    /\ UNCHANGED <<k, monStop, freed, monVars, othersVars>>

\* srdb_destroy: the monitors still in the list, after a failed launch.
StopMonitor ==
    /\ Goto("stopmon", "joinstopped")
    /\ mon[k] # "none"
    /\ stop' = [stop EXCEPT ![k] = @ + 1]
    /\ UNCHANGED <<k, monStop, freed, mon, initialRead, refused, othersVars>>

JoinStopped ==
    /\ Goto("joinstopped", "stopmon")
    /\ mon[k] = "done"
    /\ mon' = [mon EXCEPT ![k] = "none"]
    /\ UNCHANGED <<k, monStop, freed, initialRead, stop, refused, othersVars>>

FreeSrdb ==
    /\ Round("stopmon", 3, "returned")
    /\ mon[k] = "none"
    /\ freed' = IF k < 3 THEN freed ELSE freed \cup {"srdb"}
    /\ UNCHANGED <<monStop, monVars, othersVars>>

Main ==
    \/ StartWorkers \/ Launch \/ LaunchFails \/ Sync \/ StartNetmon \/ JoinMonitor
    \/ StopWorkers \/ JoinWorkers \/ JoinNetmon \/ FreeBuffers \/ StopTransactions
    \/ JoinTransactions \/ StopMonitor \/ JoinStopped \/ FreeSrdb

-----------------------------------------------------------------------------
(***************************************************************************)
(* The monitors                                                            *)
(***************************************************************************)
\* out: initial_read is posted in any case.
MonitorEnds(m) ==
    /\ mon' = [mon EXCEPT ![m] = "done"]
    /\ initialRead' = [initialRead EXCEPT ![m] = @ + 1]

Connect(m) ==
    /\ mon[m] = "connect"
    /\ IF server = "up"
       THEN mon' = [mon EXCEPT ![m] = "initial"] /\ UNCHANGED <<initialRead, refused>>
       ELSE MonitorEnds(m) /\ refused' = TRUE
    /\ UNCHANGED <<mainVars, stop, othersVars>>

\* A link without its routers is ignored, for good.
Ignored(m, x) == m = 2 /\ ~ Ends[x] \subseteq staging

\* nodestate_read, linkstate_read and flowreq_read of an initial row.  After an
\* error the rows that follow are not handed over.
Row(m, x) ==
    /\ mon[m] = "initial"
    /\ x \in todo[m]
    /\ CASE m \in {1, 2} /\ ~ Ignored(m, x) ->
               staging' = staging \cup {x} /\ dirty' = TRUE /\ UNCHANGED reqs
         [] Ignored(m, x) -> UNCHANGED <<staging, dirty, reqs>>
         [] m = 3 -> /\ Len(reqs) < ReqSize
                     /\ reqs' = Append(reqs, x)
                     /\ UNCHANGED <<staging, dirty>>
    /\ todo' = [todo EXCEPT ![m] = IF Ignored(m, x) THEN {} ELSE @ \ {x}]
    /\ UNCHANGED <<mainVars, server, monVars, later, active, pc, req, answer, trVars>>

NewRequest(r) ==
    /\ mon[3] = "live" /\ server = "up"
    /\ r \in later
    /\ Len(reqs) < ReqSize
    /\ reqs' = Append(reqs, r)
    /\ later' = later \ {r}
    /\ UNCHANGED <<mainVars, server, monVars, todo, graphVars, pc, req, answer, trVars>>

InitialDone(m) ==
    /\ mon[m] = "initial" /\ todo[m] = {}
    /\ mon' = [mon EXCEPT ![m] = "live"]
    /\ initialRead' = [initialRead EXCEPT ![m] = @ + 1]
    /\ UNCHANGED <<mainVars, stop, refused, othersVars>>

\* The server has closed the connection, maybe in the middle of the initial
\* rows, or a stop was posted and data arrives.
MonitorStops(m) ==
    /\ mon[m] \in {"initial", "live"}
    /\ server = "closed" \/ stop[m] > 0
    /\ MonitorEnds(m)
    /\ stop' = [stop EXCEPT ![m] = 0]
    /\ refused' = (refused \/ mon[m] = "initial")
    /\ UNCHANGED <<mainVars, othersVars>>

MonitorStep ==
    \/ \E m \in Monitors : \/ Connect(m) \/ InitialDone(m) \/ MonitorStops(m)
                           \/ \E x \in todo[m] : Row(m, x)
    \/ \E r \in later : NewRequest(r)

-----------------------------------------------------------------------------
(***************************************************************************)
(* The workers, netmon and the transaction workers                         *)
(***************************************************************************)
Step(c, from, to) == pc[c] = from /\ pc' = [pc EXCEPT ![c] = to]

\* thread_worker: sbuf_pop.
Take(w) ==
    /\ reqs # << >>
    /\ req' = [req EXCEPT ![w] = Head(reqs)]
    /\ Step(w, "idle", IF Head(reqs) = Null THEN "done" ELSE "request")
    /\ reqs' = Tail(reqs)
    /\ UNCHANGED <<mainVars, server, monVars, rowVars, graphVars, answer, trVars>>

\* process_request up to the transaction that stores the status: the routers
\* are those of the network state, their nodes those of the active graph.
Answer(w) ==
    LET r == req[w]
    IN  /\ Step(w, "request", "transact")
        /\ answer' = [answer EXCEPT ![r] =
                        IF ~ Needs[r] \subseteq staging THEN "norouter"
                        ELSE IF ~ Needs[r] \subseteq active THEN "unavailable"
                        ELSE "answered"]
        /\ UNCHANGED <<mainVars, server, monVars, rowVars, graphVars, reqs, req, trVars>>

\* sbuf_push of a transaction, by a worker or by recompute_flows.
Transact(c) ==
    /\ Step(c, "transact", "wait")
    /\ Len(transactions) < TrSize
    /\ transactions' = Append(transactions, c)
    /\ UNCHANGED <<mainVars, server, monVars, rowVars, graphVars, reqs, req, answer,
                   trpc, tr, results>>

\* transaction_worker: without a connection the thread ends at once.
TrConnect(t) ==
    /\ trpc[t] = "connect"
    /\ trpc' = [trpc EXCEPT ![t] = IF server = "up" THEN "loop" ELSE "done"]
    /\ UNCHANGED <<mainVars, server, monVars, rowVars, graphVars, workVars,
                   transactions, tr, results>>

\* The result of the pending transaction goes to the thread that waits for it.
Fetch(t) ==
    /\ trpc[t] = "loop" /\ t \in results /\ tr[t] # Null
    /\ Step(tr[t], "wait", IF tr[t] = Netmon THEN "loop" ELSE "idle")
    /\ tr' = [tr EXCEPT ![t] = Null]
    /\ results' = results \ {t}
    /\ UNCHANGED <<mainVars, server, monVars, rowVars, graphVars, reqs, req, answer,
                   transactions, trpc>>

\* sbuf_trypop when nothing is pending.  NULL ends the thread; a transaction is
\* sent.  On a connection that the server has closed the send fails, which ends
\* the thread as well, or still succeeds, and the transaction stays pending.
TakeTransaction(t) ==
    /\ trpc[t] = "loop" /\ tr[t] = Null
    /\ transactions # << >>
    /\ transactions' = Tail(transactions)
    /\ \/ /\ Head(transactions) = Null \/ server = "closed"
          /\ trpc' = [trpc EXCEPT ![t] = "done"]
          /\ UNCHANGED tr
       \/ /\ Head(transactions) # Null
          /\ tr' = [tr EXCEPT ![t] = Head(transactions)]
          /\ UNCHANGED trpc
    /\ UNCHANGED <<mainVars, server, monVars, rowVars, graphVars, workVars, results>>

\* poll reports an error on the closed connection.  The transaction pending is
\* abandoned, even if its result has arrived.
PollFails(t) ==
    /\ trpc[t] = "loop" /\ server = "closed"
    /\ trpc' = [trpc EXCEPT ![t] = "done"]
    /\ tr' = [tr EXCEPT ![t] = Null]
    /\ results' = results \ {t}
    /\ UNCHANGED <<mainVars, server, monVars, rowVars, graphVars, workVars,
                   transactions>>

\* thread_netmon: a synchronisation, after which flows may have changed.
NetmonSync ==
    /\ monStop = 0 /\ dirty
    /\ \E to \in {"loop", "transact"} : Step(Netmon, "loop", to)
    /\ active' = staging
    /\ dirty' = FALSE
    /\ UNCHANGED <<mainVars, server, monVars, rowVars, staging, reqs, req, answer, trVars>>

NetmonStops ==
    /\ Step(Netmon, "loop", "done")
    /\ monStop > 0
    /\ monStop' = monStop - 1
    /\ UNCHANGED <<main, k, freed, server, monVars, rowVars, graphVars, reqs, req,
                   answer, trVars>>

\* The server answers a transaction that is pending.
Reply(t) ==
    /\ server = "up" /\ trpc[t] = "loop"
    /\ tr[t] # Null /\ t \notin results
    /\ results' = results \cup {t}
    /\ UNCHANGED <<mainVars, server, monVars, rowVars, graphVars, workVars,
                   transactions, trpc, tr>>

\* The server is started, and ended.
Server ==
    /\ \/ server = "down" /\ server' = "up"
       \/ server = "up" /\ server' = "closed"
    /\ UNCHANGED <<mainVars, monVars, rowVars, graphVars, workVars, trVars>>

Next ==
    \/ Main \/ MonitorStep
    \/ \E w \in Workers : Take(w) \/ Answer(w)
    \/ \E c \in Callers : Transact(c)
    \/ \E t \in TrWorkers : TrConnect(t) \/ Fetch(t) \/ TakeTransaction(t) \/ PollFails(t)
    \/ \E t \in TrWorkers : Reply(t)
    \/ NetmonSync \/ NetmonStops \/ Server

Spec == Init /\ [][Next]_vars

\* Every thread is scheduled.  Nothing is assumed of the server: it need not
\* answer, nor start, nor close, and a closed connection need not report an error.
Fairness ==
    /\ WF_vars(Main) /\ WF_vars(MonitorStep)
    /\ \A w \in Workers : WF_vars(Take(w) \/ Answer(w) \/ Transact(w))
    /\ WF_vars(NetmonSync \/ NetmonStops \/ Transact(Netmon))
    /\ \A t \in TrWorkers : WF_vars(TrConnect(t) \/ Fetch(t) \/ TakeTransaction(t))

FairSpec == Spec /\ Fairness

-----------------------------------------------------------------------------
TypeOK ==
    /\ k \in Nat \ {0} /\ monStop \in 0 .. 1
    /\ freed \subseteq {"netstate", "req_buffer", "flows", "srdb"}
    /\ \A m \in Monitors :
          /\ mon[m] \in {"none", "connect", "initial", "live", "done"}
          /\ initialRead[m] \in 0 .. 2 /\ stop[m] \in 0 .. 1
    /\ staging \subseteq Routers \cup Links /\ active \subseteq staging
    /\ Len(reqs) <= ReqSize /\ Len(transactions) <= TrSize
    /\ \A c \in Callers :
          pc[c] \in {"none", "idle", "request", "transact", "wait", "loop", "done"}
    /\ \A w \in Workers : req[w] \in Requests \cup {Null}
    /\ \A t \in TrWorkers : /\ trpc[t] \in {"none", "connect", "loop", "done"}
                           /\ tr[t] \in Callers \cup {Null}
    /\ results \subseteq TrWorkers

Over(c) == pc[c] \in {"none", "done"}

\* The links that are in the database before the controller starts are all in
\* the staging graph once the LinkState table has been read: none is handled
\* before its routers, as long as no connection fails.
InitialLinksAreKept ==
    ~ refused /\ mon[2] = "live" => Links \subseteq staging

\* main frees what a thread uses only after that thread has ended.  A failed
\* launch, which frees the buffers but not the network state, is excepted: the
\* workers are then still waiting for requests.
NothingIsFreedInUse ==
    "netstate" \in freed =>
        /\ \A c \in Callers : Over(c)
        /\ \A m \in Monitors : mon[m] \in {"none", "done"}
        /\ "srdb" \in freed => \A t \in TrWorkers : trpc[t] = "done"

\* Every request that the monitor handed over has been answered when the
\* workers have been joined: none is left behind the NULL elements.
HandedOverIsAnswered ==
    main = "joinnetmon" =>
        /\ reqs = << >>
        /\ \A r \in Requests \ (later \cup todo[3]) : answer[r] # "pending"

\* A thread waits in sbuf_pop for a result that will never come: the server has
\* closed, and no connection holds the result.  Nothing ends this wait.
Unanswered ==
    /\ server = "closed"
    /\ \E c \in Callers : pc[c] = "wait" /\ \A t \in results : tr[t] # c

\* Once the server has closed the connections, main returns, unless a worker or
\* netmon has given a transaction to a transaction worker that ends or waits
\* without an answer.
MainReturns == server = "closed" ~> main = "returned" \/ Unanswered

-----------------------------------------------------------------------------
\* A request of known routers is unavailable only in the rare case of a router
\* that appeared later than the controller's start (comment in
\* process_request): not when all routers were there before it.
StartIsNotUnavailable == \A r \in Requests : answer[r] # "unavailable"

\* What MainReturns excepts: main would return although a transaction is never
\* answered.
MainAlwaysReturns == server = "closed" ~> main = "returned"
=============================================================================
