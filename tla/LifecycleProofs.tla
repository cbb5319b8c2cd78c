--------------------------- MODULE LifecycleProofs ---------------------------
(***************************************************************************)
(* Proofs about the start-up and the shutdown of sr-ctrl for any contents  *)
(* of the database, any number of workers and any sizes of the buffers.    *)
(*                                                                         *)
(* The argument follows main: which threads may be alive, and which NULL   *)
(* elements have been pushed, is a function of where main is (MainInv,     *)
(* EndInv, NullsInv).  The monitor of LinkState is launched when the       *)
(* initial read of NodeState is complete, unless a connection was refused  *)
(* (StartInv).  A request is in the buffer, with a worker or answered from *)
(* the moment the monitor hands it over (HeldInv); the NULL elements come  *)
(* after all of them, one for each worker.                                 *)
(***************************************************************************)
EXTENDS Lifecycle, SequenceTheorems, FiniteSetTheorems, TLAPS

\* Where main frees what it has created.
Freeing == {"free", "trnulls", "jointr", "stopmon", "joinstopped", "returned"}
MainLabels ==
    {"srdb", "launch", "sync", "netmon", "joinmon", "nulls", "joinworkers",
     "joinnetmon"} \cup Freeing

\* TypeOK, with the functions and sequences typed as such.
TypeInv ==
    /\ main \in MainLabels /\ k \in Nat \ {0} /\ monStop \in 0 .. 1
    /\ freed \subseteq {"netstate", "req_buffer", "flows", "srdb"}
    /\ server \in {"down", "up", "closed"}
    /\ mon \in [Monitors -> {"none", "connect", "initial", "live", "done"}]
    /\ initialRead \in [Monitors -> 0 .. 2] /\ stop \in [Monitors -> 0 .. 1]
    /\ DOMAIN todo = Monitors
    /\ todo[1] \subseteq Routers /\ todo[2] \subseteq Links
    /\ todo[3] \subseteq Requests /\ later \subseteq Requests
    /\ staging \subseteq Routers \cup Links /\ active \subseteq staging
    /\ dirty \in BOOLEAN /\ refused \in BOOLEAN
    /\ reqs \in Seq(Requests \cup {Null}) /\ Len(reqs) <= ReqSize
    /\ pc \in [Callers -> {"none", "idle", "request", "transact", "wait", "loop",
                           "done"}]
    /\ req \in [Workers -> Requests \cup {Null}]
    /\ answer \in [Requests -> {"pending", "norouter", "unavailable", "answered"}]
    /\ transactions \in Seq(Callers \cup {Null}) /\ Len(transactions) <= TrSize
    /\ trpc \in [TrWorkers -> {"none", "connect", "loop", "done"}]
    /\ tr \in [TrWorkers -> Callers \cup {Null}] /\ results \subseteq TrWorkers

\* The loop counter of main, and the semaphores, go by where main is.
MainInv ==
    /\ main \in {"launch", "sync", "joinmon", "stopmon", "joinstopped"} => k \in 1 .. 3
    /\ main \in {"srdb", "netmon"} => k = 1
    /\ main = "nulls" => k \in 1 .. Cardinality(Workers)
    /\ main \in {"joinworkers", "joinnetmon"} => k = 1
    /\ main = "jointr" => k = 1
    /\ monStop > 0 => main \in {"joinnetmon"} \cup Freeing
    /\ \A m \in Monitors :
          /\ (main \in {"srdb", "launch"} /\ m >= k) \/ (main = "sync" /\ m > k)
                => mon[m] = "none" /\ initialRead[m] = 0
          /\ mon[m] \in {"connect", "initial"} => initialRead[m] = 0
          /\ mon[m] = "live" => initialRead[m] <= 1
          /\ stop[m] > 0 => /\ main \in {"stopmon", "joinstopped", "returned"}
                            /\ mon[m] = "none" \/ (main = "joinstopped" /\ m = k)

\* Who has ended, and is joined, by the time main is at a place.
EndInv ==
    /\ main = "srdb" => \A c \in Callers : pc[c] = "none"
    /\ main = "joinmon" => \A m \in Monitors : m < k => mon[m] = "none"
    /\ main \in {"nulls", "joinworkers", "joinnetmon"} =>
          \A m \in Monitors : mon[m] = "none"
    /\ main = "joinnetmon" => \A w \in Workers : pc[w] = "done"
    /\ main \in {"stopmon", "joinstopped", "returned"} =>
          \A t \in TrWorkers : trpc[t] = "done"
    /\ freed # {} => main \in Freeing
    /\ "srdb" \in freed => main = "returned"
    /\ "netstate" \in freed =>
          /\ \A c \in Callers : pc[c] = "done"
          /\ \A m \in Monitors : mon[m] = "none"

\* The first sem_wait of launch_srdb has returned.
NodeStateRead == main # "srdb" /\ (main \in {"launch", "sync"} => k > 1)

\* What is in the staging graph, unless a connection was refused.
StartInv ==
    /\ Routers \ todo[1] \subseteq staging
    /\ \A m \in Monitors : mon[m] = "live" => todo[m] = {}
    /\ mon[2] # "none" => NodeStateRead
    /\ ~ refused => /\ initialRead[1] > 0 \/ NodeStateRead => todo[1] = {}
                    /\ Links \ todo[2] \subseteq staging

\* A request that was handed over is somewhere.
HeldInv ==
    /\ \A w \in Workers : pc[w] = "request" => req[w] \in Requests
    /\ \A r \in Requests \ (later \cup todo[3]) :
          \/ answer[r] # "pending"
          \/ \E i \in 1 .. Len(reqs) : reqs[i] = r
          \/ \E w \in Workers : pc[w] = "request" /\ req[w] = r

\* The workers that have ended, and the NULL elements pushed for them.
Ended == {w \in Workers : pc[w] = "done"}
Pushed == CASE main = "nulls" -> k - 1
            [] main \in {"joinworkers", "joinnetmon"} -> Cardinality(Workers)
            [] OTHER -> 0

\* req_buffer holds p requests, then the NULL elements not yet taken.
NullsAfter(p) ==
    /\ \A i \in 1 .. Len(reqs) : reqs[i] = Null <=> i > p
    /\ Len(reqs) - p + Cardinality(Ended) = Pushed
    /\ p > 0 => Ended = {}

NullsInv == main \notin Freeing => \E p \in 0 .. Len(reqs) : NullsAfter(p)

IInv ==
    /\ TypeInv
    /\ MainInv
    /\ EndInv
    /\ StartInv
    /\ HeldInv
    /\ NullsInv


-----------------------------------------------------------------------------
\* The library's facts on Append, Head and Tail, in the form used below.
LEMMA Appended ==
    ASSUME NEW S, NEW s \in Seq(S), NEW x \in S
    PROVE  /\ Append(s, x) \in Seq(S)
           /\ Len(s) \in Nat /\ Len(Append(s, x)) = Len(s) + 1
           /\ Append(s, x)[Len(s) + 1] = x
           /\ \A i \in 1 .. Len(s) : Append(s, x)[i] = s[i]
BY AppendProperties

LEMMA Taken ==
    ASSUME NEW S, NEW s \in Seq(S), s # << >>
    PROVE  /\ Head(s) \in S /\ Head(s) = s[1] /\ 1 \in 1 .. Len(s)
           /\ Tail(s) \in Seq(S)
           /\ Len(s) \in Nat /\ Len(Tail(s)) = Len(s) - 1
           /\ \A i \in 1 .. Len(Tail(s)) : i + 1 \in 1 .. Len(s) /\ Tail(s)[i] = s[i + 1]
BY HeadTailProperties

\* There are workers and transaction workers, and finitely many of each.
LEMMA Counts ==
    Cardinality(Workers) \in Nat \ {0} /\ Cardinality(TrWorkers) \in Nat \ {0}
BY LifecycleAssumption, FS_CardinalityType, FS_EmptySet


\* Every step of main and of the threads keeps the types.
LEMMA TypeStep == ASSUME IInv, [Next]_vars PROVE TypeInv'
<1> USE LifecycleAssumption, NamesAssumption
<1> USE DEF IInv, TypeInv, MainInv, Monitors, Callers, MainLabels, Freeing, Goto, mainVars,
            monVars, rowVars, graphVars, workVars, trVars, othersVars
<1>1. CASE Main
  <2>1. CASE StartWorkers
    BY <2>1 DEF StartWorkers
  <2>2. CASE Launch
    BY <2>2 DEF Launch
  <2>3. CASE LaunchFails
    BY <2>3 DEF LaunchFails
  <2>4. CASE Sync
    BY <2>4 DEF Sync, InitialRead
  <2>5. CASE StartNetmon
    BY <2>5 DEF StartNetmon, AfterNetmon
  <2>6. CASE JoinMonitor
    BY <2>6 DEF JoinMonitor, Round
  <2>7. CASE StopWorkers
    BY <2>7, Appended DEF StopWorkers, RoomForNull, Round
  <2>8. CASE JoinWorkers
    BY <2>8 DEF JoinWorkers, StopPosted
  <2>9. CASE JoinNetmon
    BY <2>9 DEF JoinNetmon, NetmonJoinable
  <2>10. CASE FreeBuffers
    BY <2>10 DEF FreeBuffers
  <2>11. CASE StopTransactions
    BY <2>11, Appended, Counts DEF StopTransactions, Round, TrSize
  <2>12. CASE JoinTransactions
    BY <2>12 DEF JoinTransactions
  <2>13. CASE StopMonitor
    BY <2>13 DEF StopMonitor
  <2>14. CASE JoinStopped
    BY <2>14 DEF JoinStopped
  <2>15. CASE FreeSrdb
    BY <2>15 DEF FreeSrdb, Round
  <2> QED BY <1>1, <2>1, <2>2, <2>3, <2>4, <2>5, <2>6, <2>7, <2>8, <2>9, <2>10, <2>11,
             <2>12, <2>13, <2>14, <2>15 DEF Main
<1>2. ASSUME NEW m \in Monitors, NEW x \in todo[m], Row(m, x) PROVE TypeInv'
  <2>1. CASE Ignored(m, x)
    BY <1>2, <2>1 DEF Row, Ignored
  <2>2. CASE m \in {1, 2} /\ ~ Ignored(m, x)
    <3>1. /\ staging' = staging \cup {x} /\ dirty' = TRUE /\ reqs' = reqs
          /\ todo' = [todo EXCEPT ![m] = @ \ {x}]
      <4>1. CASE m = 1
        BY <1>2, <2>2, <4>1 DEF Row, Ignored
      <4>2. CASE m = 2
        BY <1>2, <2>2, <4>2 DEF Row
      <4> QED BY <2>2, <4>1, <4>2
    <3> QED BY <1>2, <2>2, <3>1 DEF Row
  <2>3. CASE m = 3
    <3>1. /\ Len(reqs) < ReqSize /\ reqs' = Append(reqs, x)
          /\ staging' = staging /\ dirty' = dirty
          /\ todo' = [todo EXCEPT ![3] = @ \ {x}]
      BY <1>2, <2>3 DEF Row, Ignored
    <3> QED BY <1>2, <2>3, <3>1, Appended DEF Row
  <2> QED BY <2>1, <2>2, <2>3
<1>3. ASSUME NEW m \in Monitors, Connect(m) \/ InitialDone(m) \/ MonitorStops(m)
      PROVE  TypeInv'
  <2>1. CASE Connect(m)
    <3>1. CASE server = "up"
      BY <2>1, <3>1 DEF Connect
    <3>2. CASE server # "up"
      BY <2>1, <3>2 DEF Connect, MonitorEnds
    <3> QED BY <3>1, <3>2
  <2>2. CASE InitialDone(m)
    BY <2>2 DEF InitialDone
  <2>3. CASE MonitorStops(m)
    BY <2>3 DEF MonitorStops, MonitorEnds
  <2> QED BY <1>3, <2>1, <2>2, <2>3
<1>4. ASSUME NEW r \in later, NewRequest(r) PROVE TypeInv'
  BY <1>4, Appended DEF NewRequest
<1>5. ASSUME NEW w \in Workers, Take(w) \/ Answer(w) PROVE TypeInv'
  <2>1. CASE Take(w)
    BY <2>1, Taken DEF Take, Step
  <2>2. CASE Answer(w)
    BY <2>2 DEF Answer, Step
  <2> QED BY <1>5, <2>1, <2>2
<1>6. ASSUME NEW c \in Callers, Transact(c) PROVE TypeInv'
  BY <1>6, Appended, Counts DEF Transact, Step, TrSize
<1>7. ASSUME NEW t \in TrWorkers,
             TrConnect(t) \/ Fetch(t) \/ TakeTransaction(t) \/ PollFails(t) \/ Reply(t)
      PROVE  TypeInv'
  <2>1. CASE TrConnect(t)
    BY <2>1 DEF TrConnect
  <2>2. CASE Fetch(t)
    <3>1. tr[t] \in Callers
      BY <2>2 DEF Fetch
    <3>2. pc' \in [Callers -> {"none", "idle", "request", "transact", "wait", "loop", "done"}]
      BY <2>2, <3>1 DEF Fetch, Step
    <3> QED BY <2>2, <3>2 DEF Fetch
  <2>3. CASE TakeTransaction(t)
    <3>1. /\ Tail(transactions) \in Seq(Callers \cup {Null})
          /\ Head(transactions) \in Callers \cup {Null}
          /\ Len(Tail(transactions)) <= TrSize
      BY <2>3, Taken, Counts DEF TakeTransaction, TrSize
    <3> QED BY <2>3, <3>1 DEF TakeTransaction
  <2>4. CASE PollFails(t)
    BY <2>4 DEF PollFails
  <2>5. CASE Reply(t)
    BY <2>5 DEF Reply
  <2> QED BY <1>7, <2>1, <2>2, <2>3, <2>4, <2>5
<1>8. CASE NetmonSync
  <2>1. pc' \in [Callers -> {"none", "idle", "request", "transact", "wait", "loop", "done"}]
    BY <1>8 DEF NetmonSync, Step
  <2> QED BY <1>8, <2>1 DEF NetmonSync
<1>9. CASE NetmonStops
  BY <1>9 DEF NetmonStops, Step
<1>10. CASE Server
  BY <1>10 DEF Server
<1>11. CASE UNCHANGED vars
  BY <1>11 DEF vars
<1> QED BY <1>1, <1>2, <1>3, <1>4, <1>5, <1>6, <1>7, <1>8, <1>9, <1>10, <1>11
       DEF Next, MonitorStep

\* main posts and waits for each semaphore once, and its loops run as often as
\* there are threads.
LEMMA MainStep == ASSUME IInv, [Next]_vars PROVE MainInv'
<1> USE LifecycleAssumption, NamesAssumption
<1> USE DEF IInv, TypeInv, MainInv, Monitors, Callers, MainLabels, Freeing, Goto, mainVars,
            monVars, rowVars, graphVars, workVars, trVars, othersVars
<1>1. CASE Main
  <2>1. CASE StartWorkers
    BY <2>1 DEF StartWorkers
  <2>2. CASE Launch
    BY <2>2 DEF Launch
  <2>3. CASE LaunchFails
    BY <2>3 DEF LaunchFails
  <2>4. CASE Sync
    BY <2>4 DEF Sync, InitialRead
  <2>5. CASE StartNetmon
    BY <2>5 DEF StartNetmon, AfterNetmon
  <2>6. CASE JoinMonitor
    BY <2>6, Counts DEF JoinMonitor, Round
  <2>7. CASE StopWorkers
    BY <2>7, Counts DEF StopWorkers, RoomForNull, Round
  <2>8. CASE JoinWorkers
    BY <2>8 DEF JoinWorkers, StopPosted
  <2>9. CASE JoinNetmon
    BY <2>9 DEF JoinNetmon, NetmonJoinable
  <2>10. CASE FreeBuffers
    BY <2>10, Counts DEF FreeBuffers
  <2>11. CASE StopTransactions
    BY <2>11, Counts DEF StopTransactions, Round
  <2>12. CASE JoinTransactions
    BY <2>12 DEF JoinTransactions
  <2>13. CASE StopMonitor
    BY <2>13 DEF StopMonitor
  <2>14. CASE JoinStopped
    BY <2>14 DEF JoinStopped
  <2>15. CASE FreeSrdb
    BY <2>15 DEF FreeSrdb, Round
  <2> QED BY <1>1, <2>1, <2>2, <2>3, <2>4, <2>5, <2>6, <2>7, <2>8, <2>9, <2>10, <2>11,
             <2>12, <2>13, <2>14, <2>15 DEF Main
<1>2. ASSUME NEW m \in Monitors, NEW x \in todo[m], Row(m, x) PROVE MainInv'
  BY <1>2 DEF Row, Ignored
<1>3. ASSUME NEW m \in Monitors, Connect(m) \/ InitialDone(m) \/ MonitorStops(m)
      PROVE  MainInv'
  <2>1. CASE Connect(m) \/ InitialDone(m) \/ MonitorStops(m)
    BY <2>1 DEF Connect, MonitorEnds, InitialDone, MonitorStops
  <2> QED BY <1>3, <2>1
<1>4. ASSUME NEW r \in later, NewRequest(r) PROVE MainInv'
  BY <1>4 DEF NewRequest
<1>5. ASSUME NEW w \in Workers, Take(w) \/ Answer(w) PROVE MainInv'
  <2>1. CASE Take(w)
    BY <2>1 DEF Take, Step
  <2>2. CASE Answer(w)
    BY <2>2 DEF Answer, Step
  <2> QED BY <1>5, <2>1, <2>2
<1>6. ASSUME NEW c \in Callers, Transact(c) PROVE MainInv'
  BY <1>6 DEF Transact, Step
<1>7. ASSUME NEW t \in TrWorkers,
             TrConnect(t) \/ Fetch(t) \/ TakeTransaction(t) \/ PollFails(t) \/ Reply(t)
      PROVE  MainInv'
  <2>1. CASE Fetch(t)
    BY <2>1 DEF Fetch, Step
  <2>2. CASE TrConnect(t) \/ TakeTransaction(t) \/ PollFails(t) \/ Reply(t)
    BY <2>2 DEF TrConnect, TakeTransaction, PollFails, Reply
  <2> QED BY <1>7, <2>1, <2>2
<1>8. CASE NetmonSync
  BY <1>8 DEF NetmonSync, Step
<1>9. CASE NetmonStops
  BY <1>9 DEF NetmonStops, Step
<1>10. CASE Server
  BY <1>10 DEF Server
<1>11. CASE UNCHANGED vars
  BY <1>11 DEF vars
<1> QED BY <1>1, <1>2, <1>3, <1>4, <1>5, <1>6, <1>7, <1>8, <1>9, <1>10, <1>11
       DEF Next, MonitorStep

\* Nobody that main has joined comes back, and nothing is freed before.
LEMMA EndStep == ASSUME IInv, [Next]_vars PROVE EndInv'
<1> USE LifecycleAssumption, NamesAssumption
<1> USE DEF IInv, TypeInv, MainInv, Monitors, Callers, MainLabels, Freeing, EndInv, Goto,
            mainVars, monVars, rowVars, graphVars, workVars, trVars, othersVars
<1>1. CASE Main
  <2>1. CASE StartWorkers
    BY <2>1 DEF StartWorkers
  <2>2. CASE Launch
    BY <2>2 DEF Launch
  <2>3. CASE LaunchFails
    BY <2>3 DEF LaunchFails
  <2>4. CASE Sync
    BY <2>4 DEF Sync, InitialRead
  <2>5. CASE StartNetmon
    BY <2>5 DEF StartNetmon, AfterNetmon
  <2>6. CASE JoinMonitor
    BY <2>6 DEF JoinMonitor, Round
  <2>7. CASE StopWorkers
    BY <2>7 DEF StopWorkers, RoomForNull, Round
  <2>8. CASE JoinWorkers
    BY <2>8 DEF JoinWorkers, StopPosted
  <2>9. CASE JoinNetmon
    BY <2>9 DEF JoinNetmon, NetmonJoinable
  <2>10. CASE FreeBuffers
    BY <2>10 DEF FreeBuffers
  <2>11. CASE StopTransactions
    BY <2>11 DEF StopTransactions, Round
  <2>12. CASE JoinTransactions
    BY <2>12 DEF JoinTransactions
  <2>13. CASE StopMonitor
    BY <2>13 DEF StopMonitor
  <2>14. CASE JoinStopped
    BY <2>14 DEF JoinStopped
  <2>15. CASE FreeSrdb
    BY <2>15 DEF FreeSrdb, Round
  <2> QED BY <1>1, <2>1, <2>2, <2>3, <2>4, <2>5, <2>6, <2>7, <2>8, <2>9, <2>10, <2>11,
             <2>12, <2>13, <2>14, <2>15 DEF Main
<1>2. ASSUME NEW m \in Monitors, NEW x \in todo[m], Row(m, x) PROVE EndInv'
  BY <1>2 DEF Row, Ignored
<1>3. ASSUME NEW m \in Monitors, Connect(m) \/ InitialDone(m) \/ MonitorStops(m)
      PROVE  EndInv'
  <2>1. CASE Connect(m) \/ InitialDone(m) \/ MonitorStops(m)
    BY <2>1 DEF Connect, MonitorEnds, InitialDone, MonitorStops
  <2> QED BY <1>3, <2>1
<1>4. ASSUME NEW r \in later, NewRequest(r) PROVE EndInv'
  BY <1>4 DEF NewRequest
<1>5. ASSUME NEW w \in Workers, Take(w) \/ Answer(w) PROVE EndInv'
  <2>1. CASE Take(w)
    BY <2>1 DEF Take, Step
  <2>2. CASE Answer(w)
    BY <2>2 DEF Answer, Step
  <2> QED BY <1>5, <2>1, <2>2
<1>6. ASSUME NEW c \in Callers, Transact(c) PROVE EndInv'
  BY <1>6 DEF Transact, Step
<1>7. ASSUME NEW t \in TrWorkers,
             TrConnect(t) \/ Fetch(t) \/ TakeTransaction(t) \/ PollFails(t) \/ Reply(t)
      PROVE  EndInv'
  <2>1. CASE Fetch(t)
    BY <2>1 DEF Fetch, Step
  <2>2. CASE TrConnect(t) \/ TakeTransaction(t) \/ PollFails(t) \/ Reply(t)
    BY <2>2 DEF TrConnect, TakeTransaction, PollFails, Reply
  <2> QED BY <1>7, <2>1, <2>2
<1>8. CASE NetmonSync
  BY <1>8 DEF NetmonSync, Step
<1>9. CASE NetmonStops
  BY <1>9 DEF NetmonStops, Step
<1>10. CASE Server
  BY <1>10 DEF Server
<1>11. CASE UNCHANGED vars
  BY <1>11 DEF vars
<1> QED BY <1>1, <1>2, <1>3, <1>4, <1>5, <1>6, <1>7, <1>8, <1>9, <1>10, <1>11
       DEF Next, MonitorStep

\* A link is read when its routers are all in the staging graph.
LEMMA StartStep == ASSUME IInv, [Next]_vars PROVE StartInv'
<1> USE LifecycleAssumption, NamesAssumption
<1> USE DEF IInv, TypeInv, MainInv, Monitors, Callers, MainLabels, Freeing, EndInv,
            StartInv, NodeStateRead, Goto, mainVars, monVars, rowVars, graphVars, workVars,
            trVars, othersVars
<1>1. CASE Main
  <2>1. CASE StartWorkers \/ Launch \/ LaunchFails \/ Sync \/ StartNetmon \/ JoinMonitor
          \/ StopWorkers \/ JoinWorkers \/ JoinNetmon \/ FreeBuffers \/ StopTransactions
          \/ JoinTransactions \/ StopMonitor \/ JoinStopped \/ FreeSrdb
    BY <2>1 DEF StartWorkers, Launch, LaunchFails, Sync, InitialRead, StartNetmon,
       AfterNetmon, JoinMonitor, Round, StopWorkers, RoomForNull, JoinWorkers, StopPosted,
       JoinNetmon, NetmonJoinable, FreeBuffers, StopTransactions, JoinTransactions,
       StopMonitor, JoinStopped, FreeSrdb
  <2> QED BY <1>1, <2>1 DEF Main
<1>2. ASSUME NEW m \in Monitors, NEW x \in todo[m], Row(m, x) PROVE StartInv'
  <2>1. CASE m = 3
    BY <1>2, <2>1 DEF Row, Ignored
  <2>2. CASE m \in {1, 2} /\ ~ Ignored(m, x)
    <3>1. /\ staging' = staging \cup {x} /\ todo' = [todo EXCEPT ![m] = @ \ {x}]
          /\ mon' = mon /\ refused' = refused /\ initialRead' = initialRead
          /\ main' = main /\ k' = k /\ mon[m] = "initial" /\ DOMAIN todo = {1, 2, 3}
      <4>1. CASE m = 1
        BY <1>2, <2>2, <4>1 DEF Row, Ignored
      <4>2. CASE m = 2
        BY <1>2, <2>2, <4>2 DEF Row
      <4> QED BY <2>2, <4>1, <4>2
    <3> QED BY <1>2, <2>2, <3>1
  <2>3. CASE Ignored(m, x)
    <3>1. /\ m = 2 /\ mon[2] = "initial" /\ staging' = staging /\ todo' = [todo EXCEPT ![2] = {}]
          /\ mon' = mon /\ refused' = refused /\ initialRead' = initialRead
          /\ main' = main /\ k' = k /\ x \in Links
      BY <1>2, <2>3 DEF Row, Ignored
    <3>2. ~ refused => Routers \subseteq staging
      BY <3>1
    <3>3. refused
      BY <2>3, <3>1, <3>2 DEF Ignored
    <3> QED BY <3>1, <3>3
  <2> QED BY <2>1, <2>2, <2>3
<1>3. ASSUME NEW m \in Monitors, Connect(m) \/ InitialDone(m) \/ MonitorStops(m)
      PROVE  StartInv'
  <2>1. CASE Connect(m) \/ InitialDone(m)
    BY <2>1 DEF Connect, MonitorEnds, InitialDone
  <2>2. CASE MonitorStops(m)
    <3>1. CASE mon[m] = "initial"
      <4>1. /\ refused' /\ todo' = todo /\ staging' = staging /\ main' = main /\ k' = k
            /\ mon' = [mon EXCEPT ![m] = "done"]
        BY <2>2, <3>1 DEF MonitorStops, MonitorEnds
      <4> QED BY <3>1, <4>1
    <3>2. CASE mon[m] = "live"
      <4>1. todo[m] = {}
        BY <3>2
      <4>2. /\ \A n \in Monitors : n # m => mon'[n] = mon[n] /\ initialRead'[n] = initialRead[n]
            /\ mon'[m] = "done" /\ refused' = refused /\ todo' = todo /\ staging' = staging
            /\ main' = main /\ k' = k
        BY <2>2, <3>2 DEF MonitorStops, MonitorEnds
      <4> QED BY <3>2, <4>1, <4>2
    <3> QED BY <2>2, <3>1, <3>2 DEF MonitorStops
  <2> QED BY <1>3, <2>1, <2>2
<1>4. ASSUME NEW r \in later, NewRequest(r) PROVE StartInv'
  BY <1>4 DEF NewRequest
<1>5. ASSUME NEW w \in Workers, Take(w) \/ Answer(w) PROVE StartInv'
  <2>1. CASE Take(w)
    BY <2>1 DEF Take, Step
  <2>2. CASE Answer(w)
    BY <2>2 DEF Answer, Step
  <2> QED BY <1>5, <2>1, <2>2
<1>6. ASSUME NEW c \in Callers, Transact(c) PROVE StartInv'
  BY <1>6 DEF Transact, Step
<1>7. ASSUME NEW t \in TrWorkers,
             TrConnect(t) \/ Fetch(t) \/ TakeTransaction(t) \/ PollFails(t) \/ Reply(t)
      PROVE  StartInv'
  <2>1. CASE Fetch(t)
    BY <2>1 DEF Fetch, Step
  <2>2. CASE TrConnect(t) \/ TakeTransaction(t) \/ PollFails(t) \/ Reply(t)
    BY <2>2 DEF TrConnect, TakeTransaction, PollFails, Reply
  <2> QED BY <1>7, <2>1, <2>2
<1>8. CASE NetmonSync
  BY <1>8 DEF NetmonSync, Step
<1>9. CASE NetmonStops
  BY <1>9 DEF NetmonStops, Step
<1>10. CASE Server
  BY <1>10 DEF Server
<1>11. CASE UNCHANGED vars
  BY <1>11 DEF vars
<1> QED BY <1>1, <1>2, <1>3, <1>4, <1>5, <1>6, <1>7, <1>8, <1>9, <1>10, <1>11
       DEF Next, MonitorStep

\* The monitors of NodeState and LinkState push no request.
LEMMA RowsOfOthers ==
    ASSUME IInv, NEW m \in Monitors, m # 3, NEW x \in todo[m], Row(m, x)
    PROVE  reqs' = reqs /\ todo'[3] = todo[3]
<1>1. todo'[3] = todo[3]
  BY DEF Row, IInv, TypeInv, Monitors
<1>2. CASE Ignored(m, x)
  BY <1>2 DEF Row
<1>3. CASE ~ Ignored(m, x)
  <2>1. m \in {1, 2}
    BY DEF Monitors
  <2> QED BY <1>3, <2>1 DEF Row
<1> QED BY <1>1, <1>2, <1>3

\* A step that touches neither the requests, nor who is at work on one.
LEMMA HeldFrame ==
    ASSUME HeldInv, reqs' = reqs, req' = req, later' = later, todo' = todo,
           answer' = answer, \A w \in Workers : pc'[w] = "request" <=> pc[w] = "request"
    PROVE  HeldInv'
BY DEF HeldInv

\* A request passes from the buffer to a worker and leaves it answered.
LEMMA HeldStep == ASSUME IInv, [Next]_vars PROVE HeldInv'
<1> USE LifecycleAssumption, NamesAssumption
<1> USE DEF IInv, TypeInv, MainInv, EndInv, Monitors, Callers, MainLabels, Freeing,
            HeldInv, Goto, mainVars, monVars, rowVars, graphVars, workVars, trVars,
            othersVars
<1>1. CASE Main
  <2>1. CASE StartWorkers \/ Launch \/ LaunchFails \/ Sync \/ StartNetmon \/ JoinMonitor
          \/ JoinWorkers \/ JoinNetmon \/ FreeBuffers \/ StopTransactions
          \/ JoinTransactions \/ StopMonitor \/ JoinStopped \/ FreeSrdb
    <3>1. reqs' = reqs /\ answer' = answer /\ req' = req /\ later' = later /\ todo' = todo
      BY <2>1 DEF StartWorkers, Launch, LaunchFails, Sync, InitialRead, StartNetmon,
         AfterNetmon, JoinMonitor, Round, JoinWorkers, StopPosted, JoinNetmon,
         NetmonJoinable, FreeBuffers, StopTransactions, JoinTransactions, StopMonitor,
         JoinStopped, FreeSrdb
    <3>2. \A w \in Workers : pc'[w] = "request" <=> pc[w] = "request"
      <4>1. CASE StartWorkers
        BY <4>1 DEF StartWorkers
      <4>2. CASE StartNetmon
        BY <4>2 DEF StartNetmon
      <4>3. CASE ~ StartWorkers /\ ~ StartNetmon
        <5>1. pc' = pc
          BY <2>1, <4>3 DEF Launch, LaunchFails, Sync, JoinMonitor, JoinWorkers, JoinNetmon,
             FreeBuffers, StopTransactions, JoinTransactions, StopMonitor, JoinStopped,
             FreeSrdb
        <5> QED BY <5>1
      <4> QED BY <4>1, <4>2, <4>3
    <3> QED BY <3>1, <3>2, HeldFrame
  <2>2. CASE StopWorkers
    <3>1. reqs' = Append(reqs, Null) /\ answer' = answer /\ pc' = pc /\ req' = req
          /\ later' = later /\ todo' = todo
      BY <2>2 DEF StopWorkers
    <3>2. Len(reqs') = Len(reqs) + 1 /\ \A i \in 1 .. Len(reqs) : reqs'[i] = reqs[i]
      BY <3>1, Appended
    <3> QED BY <3>1, <3>2
  <2> QED BY <1>1, <2>1, <2>2 DEF Main
<1>2. ASSUME NEW m \in Monitors, NEW x \in todo[m], Row(m, x) PROVE HeldInv'
  <2>1. CASE m # 3
    <3>1. todo'[3] = todo[3] /\ reqs' = reqs /\ answer' = answer /\ pc' = pc /\ req' = req
          /\ later' = later
      BY <1>2, <2>1, RowsOfOthers DEF Row
    <3> QED BY <3>1
  <2>2. CASE m = 3
    <3>1. /\ reqs' = Append(reqs, x) /\ x \in Requests /\ todo' = [todo EXCEPT ![3] = @ \ {x}]
      BY <1>2, <2>2 DEF Row, Ignored
    <3>2. /\ answer' = answer /\ pc' = pc /\ req' = req /\ later' = later
      BY <1>2 DEF Row
    <3>3. /\ Len(reqs) \in Nat /\ Len(reqs') = Len(reqs) + 1 /\ reqs'[Len(reqs) + 1] = x
          /\ \A i \in 1 .. Len(reqs) : reqs'[i] = reqs[i]
      BY <3>1, Appended
    <3> QED BY <3>1, <3>2, <3>3
  <2> QED BY <2>1, <2>2
<1>3. ASSUME NEW m \in Monitors, Connect(m) \/ InitialDone(m) \/ MonitorStops(m)
      PROVE  HeldInv'
  <2>1. CASE Connect(m)
    BY <2>1 DEF Connect, MonitorEnds
  <2>2. CASE InitialDone(m)
    BY <2>2 DEF InitialDone
  <2>3. CASE MonitorStops(m)
    BY <2>3 DEF MonitorStops, MonitorEnds
  <2> QED BY <1>3, <2>1, <2>2, <2>3
<1>4. ASSUME NEW r \in later, NewRequest(r) PROVE HeldInv'
  <2>1. /\ reqs' = Append(reqs, r) /\ r \in Requests /\ later' = later \ {r}
        /\ answer' = answer /\ pc' = pc /\ req' = req /\ todo' = todo
    BY <1>4 DEF NewRequest
  <2>2. /\ Len(reqs) \in Nat /\ Len(reqs') = Len(reqs) + 1 /\ reqs'[Len(reqs) + 1] = r
        /\ \A i \in 1 .. Len(reqs) : reqs'[i] = reqs[i]
    BY <2>1, Appended
  <2> QED BY <2>1, <2>2
<1>5. ASSUME NEW w \in Workers, Take(w) \/ Answer(w) PROVE HeldInv'
  <2>1. CASE Take(w)
    <3>1. /\ reqs # << >> /\ reqs' = Tail(reqs) /\ req' = [req EXCEPT ![w] = Head(reqs)]
          /\ pc[w] = "idle"
          /\ pc' = [pc EXCEPT ![w] = IF Head(reqs) = Null THEN "done" ELSE "request"]
          /\ answer' = answer /\ later' = later /\ todo' = todo
      BY <2>1 DEF Take, Step
    <3>2. /\ Head(reqs) \in Requests \cup {Null} /\ Head(reqs) = reqs[1]
          /\ Len(reqs) \in Nat /\ Len(reqs') = Len(reqs) - 1
          /\ \A i \in 1 .. Len(reqs') : reqs'[i] = reqs[i + 1]
      BY <3>1, Taken
    <3>3. ASSUME NEW v \in Workers, pc'[v] = "request" PROVE req'[v] \in Requests
      BY <3>1, <3>2, <3>3
    <3>4. ASSUME NEW r \in Requests \ (later \cup todo[3]), answer[r] = "pending"
          PROVE  \/ \E i \in 1 .. Len(reqs') : reqs'[i] = r
                 \/ \E v \in Workers : pc'[v] = "request" /\ req'[v] = r
      <4>1. CASE \E i \in 1 .. Len(reqs) : reqs[i] = r
        <5>1. PICK i \in 1 .. Len(reqs) : reqs[i] = r
          BY <4>1
        <5>2. CASE i = 1
          <6>1. pc'[w] = "request" /\ req'[w] = r
            BY <3>1, <3>2, <5>1, <5>2
          <6> QED BY <6>1
        <5>3. CASE i # 1
          <6>1. i - 1 \in 1 .. Len(reqs') /\ (i - 1) + 1 = i
            BY <3>2, <5>3
          <6>2. reqs'[i - 1] = r
            BY <3>2, <5>1, <6>1
          <6> QED BY <6>1, <6>2
        <5> QED BY <5>2, <5>3
      <4>2. CASE \E v \in Workers : pc[v] = "request" /\ req[v] = r
        <5>1. PICK v \in Workers : pc[v] = "request" /\ req[v] = r
          BY <4>2
        <5>2. pc'[v] = "request" /\ req'[v] = r
          BY <3>1, <5>1
        <5> QED BY <5>2
      <4> QED BY <3>4, <4>1, <4>2
    <3> QED BY <3>1, <3>3, <3>4
  <2>2. CASE Answer(w)
    <3>1. /\ pc[w] = "request" /\ pc' = [pc EXCEPT ![w] = "transact"]
          /\ reqs' = reqs /\ req' = req /\ later' = later /\ todo' = todo
      BY <2>2 DEF Answer, Step
    <3>2. answer'[req[w]] # "pending" /\ \A r \in Requests : r # req[w] => answer'[r] = answer[r]
      BY <2>2, <3>1 DEF Answer
    <3>3. ASSUME NEW r \in Requests \ (later \cup todo[3]), answer'[r] = "pending"
          PROVE  \/ \E i \in 1 .. Len(reqs) : reqs[i] = r
                 \/ \E v \in Workers : v # w /\ pc[v] = "request" /\ req[v] = r
      <4>1. r # req[w] /\ answer[r] = "pending"
        BY <3>2, <3>3
      <4>2. \/ \E i \in 1 .. Len(reqs) : reqs[i] = r
            \/ \E v \in Workers : pc[v] = "request" /\ req[v] = r
        BY <4>1
      <4> QED BY <4>1, <4>2
    <3>4. \A v \in Workers : pc'[v] = "request" <=> v # w /\ pc[v] = "request"
      BY <3>1
    <3> QED BY <3>1, <3>3, <3>4
  <2> QED BY <1>5, <2>1, <2>2
<1>6. ASSUME NEW c \in Callers, Transact(c) PROVE HeldInv'
  <2>1. /\ reqs' = reqs /\ req' = req /\ later' = later /\ todo' = todo /\ answer' = answer
        /\ \A v \in Workers : pc'[v] = "request" <=> pc[v] = "request"
    BY <1>6 DEF Transact, Step
  <2>2. HeldInv
    OBVIOUS
  <2> HIDE DEF HeldInv
  <2> QED BY <2>1, <2>2, HeldFrame
<1>7. ASSUME NEW t \in TrWorkers,
             TrConnect(t) \/ Fetch(t) \/ TakeTransaction(t) \/ PollFails(t) \/ Reply(t)
      PROVE  HeldInv'
  <2>1. /\ reqs' = reqs /\ req' = req /\ later' = later /\ todo' = todo /\ answer' = answer
    BY <1>7 DEF TrConnect, Fetch, TakeTransaction, PollFails, Reply
  <2>2. \A v \in Workers : pc'[v] = "request" <=> pc[v] = "request"
    <3>1. CASE Fetch(t)
      BY <3>1 DEF Fetch, Step
    <3>2. CASE TrConnect(t) \/ TakeTransaction(t) \/ PollFails(t) \/ Reply(t)
      BY <3>2 DEF TrConnect, TakeTransaction, PollFails, Reply
    <3> QED BY <1>7, <3>1, <3>2
  <2>3. HeldInv
    OBVIOUS
  <2> HIDE DEF HeldInv
  <2> QED BY <2>1, <2>2, <2>3, HeldFrame
<1>8. CASE NetmonSync
  BY <1>8 DEF NetmonSync, Step
<1>9. CASE NetmonStops
  BY <1>9 DEF NetmonStops, Step
<1>10. CASE Server
  BY <1>10 DEF Server
<1>11. CASE UNCHANGED vars
  BY <1>11 DEF vars
<1> QED BY <1>1, <1>2, <1>3, <1>4, <1>5, <1>6, <1>7, <1>8, <1>9, <1>10, <1>11
       DEF Next, MonitorStep


\* A step that touches neither the buffer, nor the ended workers, nor the
\* number of NULL elements.
LEMMA NullsFrame ==
    ASSUME NullsInv, reqs' = reqs, Ended' = Ended, Pushed' = Pushed,
           main' \notin Freeing => main \notin Freeing
    PROVE  NullsInv'
BY DEF NullsInv, NullsAfter

\* The workers that have ended are counted.
LEMMA EndedCount ==
    /\ Cardinality(Ended) \in Nat /\ Ended \subseteq Workers /\ IsFiniteSet(Ended)
    /\ Cardinality(Ended) = 0 <=> Ended = {}
    /\ \A w \in Workers \ Ended : Cardinality(Ended \cup {w}) = Cardinality(Ended) + 1
<1>1. Ended \subseteq Workers
  BY DEF Ended
<1>2. IsFiniteSet(Ended)
  BY <1>1, LifecycleAssumption, FS_Subset
<1> QED BY <1>1, <1>2, FS_CardinalityType, FS_EmptySet, FS_AddElement

\* The NULL elements follow all the requests, and every worker that ends has
\* taken one.
LEMMA NullsStep == ASSUME IInv, [Next]_vars PROVE NullsInv'
<1> USE LifecycleAssumption, NamesAssumption
<1> USE DEF IInv, TypeInv, MainInv, EndInv, Monitors, Callers, MainLabels, Freeing, Goto,
            mainVars, monVars, rowVars, graphVars, workVars, trVars, othersVars
<1>1. CASE Main
  <2>1. CASE StartWorkers \/ Launch \/ LaunchFails \/ Sync \/ StartNetmon \/ JoinMonitor
          \/ JoinWorkers \/ FreeBuffers \/ StopTransactions \/ JoinTransactions
          \/ StopMonitor \/ JoinStopped \/ FreeSrdb
    <3>1. reqs' = reqs /\ Ended' = Ended
      BY <2>1 DEF StartWorkers, Launch, LaunchFails, Sync, InitialRead, StartNetmon,
         AfterNetmon, JoinMonitor, Round, JoinWorkers, StopPosted, FreeBuffers,
         StopTransactions, JoinTransactions, StopMonitor, JoinStopped, FreeSrdb, Ended
    <3>2. Pushed' = Pushed /\ (main' \notin Freeing => main \notin Freeing)
      BY <2>1 DEF StartWorkers, Launch, LaunchFails, Sync, InitialRead, StartNetmon,
         AfterNetmon, JoinMonitor, Round, JoinWorkers, StopPosted, FreeBuffers,
         StopTransactions, JoinTransactions, StopMonitor, JoinStopped, FreeSrdb, Pushed
    <3> QED BY <3>1, <3>2, NullsFrame
  <2>2. CASE StopWorkers
    <3>1. /\ main = "nulls" /\ reqs' = Append(reqs, Null) /\ Ended' = Ended
          /\ Pushed' = Pushed + 1 /\ k - 1 \in Nat
      BY <2>2, Counts DEF StopWorkers, Round, Ended, Pushed
    <3>2. /\ Len(reqs) \in Nat /\ Len(reqs') = Len(reqs) + 1 /\ reqs'[Len(reqs) + 1] = Null
          /\ \A i \in 1 .. Len(reqs) : reqs'[i] = reqs[i]
      BY <3>1, Appended
    <3>3. PICK p \in 0 .. Len(reqs) : NullsAfter(p)
      BY <3>1 DEF NullsInv
    <3>4. NullsAfter(p)'
      BY <3>1, <3>2, <3>3, EndedCount DEF NullsAfter
    <3>5. p \in 0 .. Len(reqs')
      BY <3>2
    <3> QED BY <3>4, <3>5 DEF NullsInv
  <2>3. CASE JoinNetmon
    BY <2>3 DEF JoinNetmon, NullsInv
  <2> QED BY <1>1, <2>1, <2>2, <2>3 DEF Main
<1>2. ASSUME NEW m \in Monitors, NEW x \in todo[m], Row(m, x) PROVE NullsInv'
  <2>1. CASE m # 3
    <3>1. reqs' = reqs /\ Ended' = Ended
      <4>1. reqs' = reqs
        BY <1>2, <2>1, RowsOfOthers
      <4>2. pc' = pc
        BY <1>2 DEF Row
      <4> QED BY <4>1, <4>2 DEF Ended
    <3>2. Pushed' = Pushed /\ (main' \notin Freeing => main \notin Freeing)
      BY <1>2, <2>1 DEF Row, Ignored, Pushed
    <3> QED BY <3>1, <3>2, NullsFrame
  <2>2. CASE m = 3
    <3>1. /\ reqs' = Append(reqs, x) /\ x \in Requests /\ x # Null
          /\ Ended' = Ended /\ main' = main /\ mon[3] \in {"initial", "live"}
      BY <1>2, <2>2 DEF Row, Ignored, Ended
    <3>2. SUFFICES ASSUME main \notin Freeing PROVE NullsInv'
      BY <3>1 DEF NullsInv
    <3>3. Pushed = 0 /\ Pushed' = 0
      BY <3>1, <3>2 DEF Pushed
    <3>4. PICK p \in 0 .. Len(reqs) : NullsAfter(p)
      BY <3>2 DEF NullsInv
    <3>5. p = Len(reqs) /\ Len(reqs) \in Nat /\ Ended = {} /\ Cardinality(Ended) = 0
      <4>1. Len(reqs) \in Nat /\ Len(reqs) - p + Cardinality(Ended) = 0
        BY <3>3, <3>4 DEF NullsAfter
      <4>2. Cardinality(Ended) \in Nat /\ (Cardinality(Ended) = 0 <=> Ended = {})
        BY EndedCount
      <4> QED BY <4>1, <4>2
    <3>6. /\ Len(reqs') = Len(reqs) + 1 /\ reqs'[Len(reqs) + 1] = x
          /\ \A i \in 1 .. Len(reqs) : reqs'[i] = reqs[i]
      BY <3>1, Appended
    <3>7. \A i \in 1 .. Len(reqs') : reqs'[i] # Null
      BY <3>1, <3>4, <3>5, <3>6 DEF NullsAfter
    <3>8. PICK q : q = Len(reqs')
      OBVIOUS
    <3>9. NullsAfter(q)' /\ q \in 0 .. Len(reqs')
      BY <3>1, <3>3, <3>5, <3>6, <3>7, <3>8 DEF NullsAfter
    <3> QED BY <3>9 DEF NullsInv
  <2> QED BY <2>1, <2>2
<1>3. ASSUME NEW m \in Monitors, Connect(m) \/ InitialDone(m) \/ MonitorStops(m)
      PROVE  NullsInv'
  <2>1. CASE Connect(m)
    <3>1. reqs' = reqs /\ Ended' = Ended
      BY <2>1 DEF Connect, MonitorEnds, Ended
    <3>2. Pushed' = Pushed /\ (main' \notin Freeing => main \notin Freeing)
      BY <2>1 DEF Connect, MonitorEnds, Pushed
    <3> QED BY <3>1, <3>2, NullsFrame
  <2>2. CASE InitialDone(m)
    <3>1. reqs' = reqs /\ Ended' = Ended
      BY <2>2 DEF InitialDone, Ended
    <3>2. Pushed' = Pushed /\ (main' \notin Freeing => main \notin Freeing)
      BY <2>2 DEF InitialDone, Pushed
    <3> QED BY <3>1, <3>2, NullsFrame
  <2>3. CASE MonitorStops(m)
    <3>1. reqs' = reqs /\ Ended' = Ended
      BY <2>3 DEF MonitorStops, MonitorEnds, Ended
    <3>2. Pushed' = Pushed /\ (main' \notin Freeing => main \notin Freeing)
      BY <2>3 DEF MonitorStops, MonitorEnds, Pushed
    <3> QED BY <3>1, <3>2, NullsFrame
  <2> QED BY <1>3, <2>1, <2>2, <2>3
<1>4. ASSUME NEW r \in later, NewRequest(r) PROVE NullsInv'
  <2>1. /\ reqs' = Append(reqs, r) /\ r \in Requests /\ r # Null
        /\ Ended' = Ended /\ main' = main /\ mon[3] \in {"initial", "live"}
    BY <1>4 DEF NewRequest, Ignored, Ended
  <2>2. SUFFICES ASSUME main \notin Freeing PROVE NullsInv'
    BY <2>1 DEF NullsInv
  <2>3. Pushed = 0 /\ Pushed' = 0
    BY <2>1, <2>2 DEF Pushed
  <2>4. PICK p \in 0 .. Len(reqs) : NullsAfter(p)
    BY <2>2 DEF NullsInv
  <2>5. p = Len(reqs) /\ Len(reqs) \in Nat /\ Ended = {} /\ Cardinality(Ended) = 0
    <3>1. Len(reqs) \in Nat /\ Len(reqs) - p + Cardinality(Ended) = 0
      BY <2>3, <2>4 DEF NullsAfter
    <3>2. Cardinality(Ended) \in Nat /\ (Cardinality(Ended) = 0 <=> Ended = {})
      BY EndedCount
    <3> QED BY <3>1, <3>2
  <2>6. /\ Len(reqs') = Len(reqs) + 1 /\ reqs'[Len(reqs) + 1] = r
        /\ \A i \in 1 .. Len(reqs) : reqs'[i] = reqs[i]
    BY <2>1, Appended
  <2>7. \A i \in 1 .. Len(reqs') : reqs'[i] # Null
    BY <2>1, <2>4, <2>5, <2>6 DEF NullsAfter
  <2>8. PICK q : q = Len(reqs')
    OBVIOUS
  <2>9. NullsAfter(q)' /\ q \in 0 .. Len(reqs')
    BY <2>1, <2>3, <2>5, <2>6, <2>7, <2>8 DEF NullsAfter
  <2> QED BY <2>9 DEF NullsInv
<1>5. ASSUME NEW w \in Workers, Take(w) \/ Answer(w) PROVE NullsInv'
  <2>1. CASE Take(w)
    <3>1. /\ reqs # << >> /\ reqs' = Tail(reqs) /\ main' = main /\ Pushed' = Pushed
          /\ pc[w] = "idle"
          /\ pc' = [pc EXCEPT ![w] = IF Head(reqs) = Null THEN "done" ELSE "request"]
      BY <2>1 DEF Take, Step, Pushed
    <3>2. /\ Head(reqs) = reqs[1] /\ Len(reqs) \in Nat /\ Len(reqs') = Len(reqs) - 1
          /\ 1 \in 1 .. Len(reqs)
          /\ \A i \in 1 .. Len(reqs') : i + 1 \in 1 .. Len(reqs) /\ reqs'[i] = reqs[i + 1]
      BY <3>1, Taken
    <3>3. SUFFICES ASSUME main \notin Freeing PROVE NullsInv'
      BY <3>1 DEF NullsInv
    <3>4. PICK p \in 0 .. Len(reqs) : NullsAfter(p)
      BY <3>3 DEF NullsInv
    <3>5. CASE p > 0
      <4>1. reqs[1] # Null /\ Ended = {}
        BY <3>2, <3>4, <3>5 DEF NullsAfter
      <4>2. Ended' = Ended
        BY <3>1, <3>2, <4>1 DEF Ended
      <4>3. PICK q \in 0 .. Len(reqs') : q = p - 1
        BY <3>2, <3>5
      <4>4. NullsAfter(q)'
        BY <3>1, <3>2, <3>4, <3>5, <4>1, <4>2, <4>3, EndedCount DEF NullsAfter
      <4> QED BY <4>4 DEF NullsInv
    <3>6. CASE p = 0
      <4>1. reqs[1] = Null
        BY <3>2, <3>4, <3>6 DEF NullsAfter
      <4>2. Ended' = Ended \cup {w} /\ w \notin Ended
        BY <3>1, <3>2, <4>1 DEF Ended
      <4>3. Cardinality(Ended') = Cardinality(Ended) + 1 /\ Cardinality(Ended) \in Nat
        BY <4>2, EndedCount
      <4>4. 0 \in 0 .. Len(reqs') /\ NullsAfter(0)'
        BY <3>1, <3>2, <3>4, <3>6, <4>3 DEF NullsAfter
      <4> QED BY <4>4 DEF NullsInv
    <3> QED BY <3>5, <3>6
  <2>2. CASE Answer(w)
    <3>1. reqs' = reqs /\ Ended' = Ended
      BY <2>2 DEF Answer, Step, Ended
    <3>2. Pushed' = Pushed /\ (main' \notin Freeing => main \notin Freeing)
      BY <2>2 DEF Answer, Step, Pushed
    <3> QED BY <3>1, <3>2, NullsFrame
  <2> QED BY <1>5, <2>1, <2>2
<1>6. ASSUME NEW c \in Callers, Transact(c) PROVE NullsInv'
  <2>1. reqs' = reqs /\ Ended' = Ended
    BY <1>6 DEF Transact, Step, Ended
  <2>2. Pushed' = Pushed /\ (main' \notin Freeing => main \notin Freeing)
    BY <1>6 DEF Transact, Step, Pushed
  <2> QED BY <2>1, <2>2, NullsFrame
<1>7. ASSUME NEW t \in TrWorkers,
             TrConnect(t) \/ Fetch(t) \/ TakeTransaction(t) \/ PollFails(t) \/ Reply(t)
      PROVE  NullsInv'
  <2>1. reqs' = reqs /\ Ended' = Ended
    BY <1>7 DEF TrConnect, Fetch, TakeTransaction, PollFails, Reply, Step, Ended
  <2>2. Pushed' = Pushed /\ (main' \notin Freeing => main \notin Freeing)
    BY <1>7 DEF TrConnect, Fetch, TakeTransaction, PollFails, Reply, Step, Pushed
  <2> QED BY <2>1, <2>2, NullsFrame
<1>8. CASE NetmonSync
  <2>1. reqs' = reqs /\ Ended' = Ended
    BY <1>8 DEF NetmonSync, Step, Ended
  <2>2. Pushed' = Pushed /\ (main' \notin Freeing => main \notin Freeing)
    BY <1>8 DEF NetmonSync, Step, Pushed
  <2> QED BY <2>1, <2>2, NullsFrame
<1>9. CASE NetmonStops
  <2>1. reqs' = reqs /\ Ended' = Ended
    BY <1>9 DEF NetmonStops, Step, Ended
  <2>2. Pushed' = Pushed /\ (main' \notin Freeing => main \notin Freeing)
    BY <1>9 DEF NetmonStops, Step, Pushed
  <2> QED BY <2>1, <2>2, NullsFrame
<1>10. CASE Server
  <2>1. reqs' = reqs /\ Ended' = Ended
    BY <1>10 DEF Server, Ended
  <2>2. Pushed' = Pushed /\ (main' \notin Freeing => main \notin Freeing)
    BY <1>10 DEF Server, Pushed
  <2> QED BY <2>1, <2>2, NullsFrame
<1>11. CASE UNCHANGED vars
  BY <1>11, NullsFrame DEF vars, Ended, Pushed
<1> QED BY <1>1, <1>2, <1>3, <1>4, <1>5, <1>6, <1>7, <1>8, <1>9, <1>10, <1>11
       DEF Next, MonitorStep

-----------------------------------------------------------------------------
\* The state main starts from.
LEMMA InitInv == Init => IInv
<1> SUFFICES ASSUME Init PROVE IInv
  OBVIOUS
<1> USE LifecycleAssumption, NamesAssumption DEF Init
<1>1. TypeInv
  <2>1. /\ todo[1] = Routers /\ todo[2] = Links /\ todo[3] = Requests \ later
        /\ DOMAIN todo = Monitors
    BY DEF Monitors
  <2>2. /\ reqs \in Seq(Requests \cup {Null}) /\ Len(reqs) = 0
        /\ transactions \in Seq(Callers \cup {Null}) /\ Len(transactions) = 0
    OBVIOUS
  <2>3. 0 <= TrSize /\ 0 <= ReqSize
    BY Counts DEF TrSize
  <2>4. /\ mon \in [Monitors -> {"none"}]
        /\ initialRead \in [Monitors -> {0}] /\ stop \in [Monitors -> {0}]
        /\ pc \in [Callers -> {"none"}] /\ req \in [Workers -> {Null}]
        /\ answer \in [Requests -> {"pending"}] /\ trpc \in [TrWorkers -> {"none"}]
        /\ tr \in [TrWorkers -> {Null}] /\ results = {}
    OBVIOUS
  <2>5. /\ main \in MainLabels /\ k \in Nat \ {0} /\ monStop \in 0 .. 1
        /\ server \in {"down", "up", "closed"} /\ later \subseteq Requests
    BY DEF MainLabels
  <2>6. /\ freed = {} /\ staging = {} /\ active = {}
        /\ dirty \in BOOLEAN /\ refused \in BOOLEAN
    OBVIOUS
  <2> HIDE DEF Init
  <2> QED BY <2>1, <2>2, <2>3, <2>4, <2>5, <2>6 DEF TypeInv
<1>2. MainInv /\ EndInv
  BY DEF MainInv, EndInv, Freeing
<1>3. StartInv
  BY DEF StartInv, NodeStateRead, Monitors
<1>4. HeldInv
  BY DEF HeldInv, Callers
<1>5. NullsInv
  <2>1. Ended = {} /\ Cardinality(Ended) = 0
    BY FS_EmptySet DEF Ended, Callers
  <2>2. Pushed = 0 /\ Len(reqs) = 0
    BY DEF Pushed
  <2>3. 0 \in 0 .. Len(reqs) /\ NullsAfter(0)
    BY <2>1, <2>2 DEF NullsAfter
  <2> QED BY <2>3 DEF NullsInv
<1> QED BY <1>1, <1>2, <1>3, <1>4, <1>5 DEF IInv

\* The conjunction is inductive.
LEMMA NextInv == IInv /\ [Next]_vars => IInv'
BY TypeStep, MainStep, EndStep, StartStep, HeldStep, NullsStep DEF IInv

\* IInv holds in every reachable state.
THEOREM Invariance == Spec => []IInv
BY InitInv, NextInv, PTL DEF Spec

\* The types of main and of all threads; the buffers stay within their sizes
\* and the semaphores within what is posted to them.
THEOREM TypeCorrect == Spec => []TypeOK
<1>1. IInv => TypeOK
  BY DEF IInv, TypeInv, TypeOK, Callers
<1> QED BY <1>1, Invariance, PTL

\* launch_srdb starts the monitor of LinkState when that of NodeState has read
\* the table: linkstate_read finds the routers of every link that is in the
\* database, unless a connection was refused.
THEOREM LinksAreKept == Spec => []InitialLinksAreKept
<1>1. IInv => InitialLinksAreKept
  BY DEF IInv, StartInv, InitialLinksAreKept, Monitors
<1> QED BY <1>1, Invariance, PTL

\* main frees the network state after the monitors, the workers and netmon
\* have ended, and the connections to the database after the transaction
\* workers have ended too.
THEOREM FreedIsUnused == Spec => []NothingIsFreedInUse
<1>1. IInv => NothingIsFreedInUse
  BY DEF IInv, EndInv, NothingIsFreedInUse, Over
<1> QED BY <1>1, Invariance, PTL

\* main stops the workers with one NULL each, pushed when no monitor is left to
\* push a request: when they are joined, req_buffer is empty and every request
\* handed over has been answered.
THEOREM NoRequestIsLeft == Spec => []HandedOverIsAnswered
<1>1. IInv => HandedOverIsAnswered
  <2> SUFFICES ASSUME IInv, main = "joinnetmon" PROVE HandedOverIsAnswered
    BY DEF HandedOverIsAnswered
  <2>1. \A w \in Workers : pc[w] = "done"
    BY DEF IInv, EndInv
  <2>2. Ended = Workers
    BY <2>1 DEF Ended
  <2>3. PICK p \in 0 .. Len(reqs) : NullsAfter(p)
    BY DEF IInv, NullsInv, Freeing
  <2>4. p = 0
    BY <2>2, <2>3, LifecycleAssumption DEF NullsAfter
  <2>5. Len(reqs) - p + Cardinality(Workers) = Cardinality(Workers)
    BY <2>2, <2>3 DEF NullsAfter, Pushed
  <2>6. reqs \in Seq(Requests \cup {Null}) /\ Len(reqs) \in Nat
    BY DEF IInv, TypeInv
  <2>7. Len(reqs) = 0
    BY <2>4, <2>5, <2>6, Counts
  <2>8. reqs = << >>
    BY <2>6, <2>7
  <2>9. \A r \in Requests \ (later \cup todo[3]) : answer[r] # "pending"
    BY <2>1, <2>7 DEF IInv, HeldInv
  <2> QED BY <2>8, <2>9 DEF HandedOverIsAnswered
<1> QED BY <1>1, Invariance, PTL
=============================================================================
