-------------------------- MODULE SrdbTransactProofs --------------------------
(***************************************************************************)
(* Proofs about the transactions of lib/srdb.c for any callers, any        *)
(* workers, any number of calls and any way in which recv cuts the stream  *)
(* of a connection.                                                        *)
(*                                                                         *)
(* The argument is that a transaction is in one place: in the buffer, or   *)
(* with the one worker that has sent it and waits for its result, or its   *)
(* result is in the hands of its caller (BufferInv, WorkerInv, ResultInv); *)
(* and that at most one transaction or result is under way on a            *)
(* connection, that of the worker's pending transaction (ConnectionInv),   *)
(* which is why a worker need not look at the id of a result.              *)
(***************************************************************************)
EXTENDS SrdbTransact, SequenceTheorems, FiniteSetTheorems, TLAPS

Results == {Result(x) : x \in Transactions}

\* TypeOK, with the sequences typed as such.
TypeInv ==
    /\ call \in [Callers -> {"idle", "push", "wait"}]
    /\ calls \in [Callers -> 0 .. MaxCalls]
    /\ result \in [Callers -> Seq(Results)]
    /\ transactions \in Seq(Transactions \cup {Null})
    /\ pc \in [TrWorkers -> {"connect", "poll", "next", "exit"}]
    /\ tr \in [TrWorkers -> Transactions \cup {Null}]
    /\ pending \in [TrWorkers -> BOOLEAN]
    /\ sent \in [TrWorkers -> Seq(Transactions)]
    /\ recvq \in [TrWorkers -> Seq(Messages)]
    /\ echos \in [TrWorkers -> 0 .. MaxEchos]
    /\ up \in [TrWorkers -> BOOLEAN]
    /\ nulls \in -1 .. Cardinality(TrWorkers)
    /\ lost \in BOOLEAN
    /\ Len(transactions) <= Capacity
    /\ \A c \in Callers : call[c] # "idle" => calls[c] # 0

\* The transaction is waited for and its result is not there yet.
Unanswered(x) == x \in Transactions /\ Live(x) /\ result[x[1]] = << >>

\* The buffer holds unanswered transactions, each one once.
BufferInv ==
    /\ \A i \in 1 .. Len(transactions) :
          transactions[i] # Null => Unanswered(transactions[i])
    /\ \A i, j \in 1 .. Len(transactions) :
          transactions[i] # Null /\ transactions[i] = transactions[j] => i = j

\* A worker waits for the result of an unanswered transaction, which is not
\* in the buffer, and for which no other worker waits.
WorkerInv ==
    \A t \in TrWorkers : pending[t] =>
        /\ Unanswered(tr[t])
        /\ \A i \in 1 .. Len(transactions) : transactions[i] # tr[t]
        /\ \A u \in TrWorkers : pending[u] /\ tr[u] = tr[t] => u = t

\* What is under way on a connection: echo requests, and one transaction or
\* one result at most, that of the pending transaction.
ConnectionOf(t) ==
    /\ sent[t] # << >> => pending[t] /\ sent[t] = <<tr[t]>>
    /\ \A i \in 1 .. Len(recvq[t]) :
          recvq[t][i] # Echo =>
              /\ pending[t] /\ sent[t] = << >>
              /\ recvq[t][i] = Result(tr[t])
              /\ \A j \in 1 .. Len(recvq[t]) : recvq[t][j] # Echo => j = i

ConnectionInv == \A t \in TrWorkers : ConnectionOf(t)

\* A caller has its own result or none.
ResultInv ==
    \A c \in Callers :
        result[c] # << >> => call[c] = "wait" /\ result[c] = <<Result(<<c, calls[c]>>)>>

IInv ==
    /\ TypeInv
    /\ BufferInv
    /\ WorkerInv
    /\ ConnectionInv
    /\ ResultInv


-----------------------------------------------------------------------------
\* What the assumptions on the constants give.
LEMMA Constants ==
    /\ MaxCalls \in Nat /\ MaxEchos \in Nat
    /\ Cardinality(TrWorkers) \in Nat
BY TransactAssumption, FS_CardinalityType

\* A transaction is not the NULL that stops a worker.
LEMMA NullIsNoTransaction == Null \notin Transactions
BY DEF Null, Transactions

\* What recv leaves of the queue of a connection is a tail of it.
LEMMA CutsOfQueue ==
    ASSUME NEW q \in Seq(Messages), q # << >>, NEW cut \in Cuts(q)
    PROVE  /\ cut.msg = q[1] \/ cut.msg = NoMessage
           /\ cut.rest \in Seq(Messages)
           /\ \E k \in 1 .. Len(q) :
                 /\ Len(cut.rest) = Len(q) - k
                 /\ \A i \in 1 .. Len(cut.rest) : cut.rest[i] = q[i + k]
<1>1. cut.msg = q[1] \/ cut.msg = NoMessage
  BY DEF Cuts
<1>2. PICK k \in 1 .. Len(q) : cut.rest = SubSeq(q, k + 1, Len(q))
  <2>1. Tail(q) = SubSeq(q, 1 + 1, Len(q)) /\ 1 \in 1 .. Len(q)
    OBVIOUS
  <2> QED BY <2>1 DEF Cuts
<1>3. /\ cut.rest \in Seq(Messages)
      /\ Len(cut.rest) = Len(q) - k
      /\ \A i \in 1 .. Len(cut.rest) : cut.rest[i] = q[i + k]
  BY <1>2, SubSeqProperties
<1> QED BY <1>1, <1>3

\* The library's facts on Append, Head and Tail, in the form used below.
LEMMA Appended ==
    ASSUME NEW S, NEW s \in Seq(S), NEW x \in S
    PROVE  /\ Append(s, x) \in Seq(S) /\ Append(s, x) # << >>
           /\ Len(s) \in Nat /\ Len(Append(s, x)) = Len(s) + 1
           /\ Append(s, x)[Len(s) + 1] = x
           /\ \A i \in 1 .. Len(s) : Append(s, x)[i] = s[i]
BY AppendProperties

LEMMA Taken ==
    ASSUME NEW S, NEW s \in Seq(S), s # << >>
    PROVE  /\ Head(s) \in S /\ Head(s) = s[1] /\ 1 \in 1 .. Len(s)
           /\ Tail(s) \in Seq(S)
           /\ Len(s) \in Nat /\ Len(Tail(s)) = Len(s) - 1
           /\ \A i \in 1 .. Len(Tail(s)) : i + 1 \in 1 .. Len(s) /\ Tail(s)[i] = s[i + 1]
BY HeadTailProperties

\* A transaction is named by its caller and its number; a caller has one that
\* is live at most.
LEMMA NamesOfTransactions ==
    ASSUME NEW x \in Transactions
    PROVE  x[1] \in Callers /\ x[2] \in 1 .. MaxCalls /\ x = <<x[1], x[2]>>
BY DEF Transactions

LEMMA OneLive ==
    ASSUME NEW x \in Transactions, NEW y \in Transactions, Live(x), Live(y), x # y
    PROVE  x[1] # y[1]
BY NamesOfTransactions DEF Live

\* The messages of a connection are echo requests and results.
LEMMA MessageKinds ==
    /\ \A m \in Messages : m # Echo => m \in Results /\ m.kind = "result"
    /\ Echo.kind = "echo" /\ NoMessage.kind = "none"
BY DEF Messages, Echo, Results, Result, NoMessage


\* Every step of callers, workers, srdb_destroy and the server keeps the types.
LEMMA TypeStep == ASSUME IInv, [Next]_vars PROVE TypeInv'
<1> USE DEF IInv, TypeInv, Goto, callVars, workVars, connVars
<1>1. ASSUME NEW c \in Callers, Create(c) \/ CallStep(c) PROVE TypeInv'
  <2>1. CASE Create(c)
    BY <2>1, Constants DEF Create
  <2>2. CASE Push(c)
    <3> DEFINE x == <<c, calls[c]>>
    <3>1. x \in Transactions
      BY <2>2 DEF Push, Transactions
    <3>2. /\ Append(transactions, x) \in Seq(Transactions \cup {Null})
          /\ Len(Append(transactions, x)) <= Capacity
      BY <2>2, <3>1, Appended, Constants DEF Push, Capacity
    <3> QED BY <2>2, <3>2 DEF Push
  <2>3. CASE Return(c)
    BY <2>3 DEF Return
  <2> QED BY <1>1, <2>1, <2>2, <2>3 DEF CallStep
<1>2. ASSUME NEW t \in TrWorkers, WorkerStep(t) PROVE TypeInv'
  <2>1. CASE Connect(t)
    BY <2>1 DEF Connect
  <2>2. CASE ConnectFails(t)
    BY <2>2 DEF ConnectFails
  <2>3. CASE PollIdle(t)
    BY <2>3 DEF PollIdle
  <2>4. CASE Fetch(t)
    <3>1. PICK cut \in Cuts(recvq[t]) :
             /\ recvq' = [recvq EXCEPT ![t] = cut.rest]
             /\ IF cut.msg.kind # "result" \/ ~ pending[t]
                THEN UNCHANGED <<result, pending>>
                ELSE /\ result' = [result EXCEPT ![tr[t][1]] = Append(@, cut.msg)]
                     /\ pending' = [pending EXCEPT ![t] = FALSE]
      BY <2>4 DEF Fetch
    <3>2. recvq[t] \in Seq(Messages) /\ recvq[t] # << >>
      BY <2>4 DEF Fetch
    <3>3. cut.rest \in Seq(Messages)
      BY <3>2, CutsOfQueue
    <3>4. recvq[t][1] \in Messages
      BY <3>2
    <3>5. cut.msg.kind = "result" => cut.msg \in Results
      BY <3>2, <3>4, CutsOfQueue, MessageKinds
    <3>6. result' \in [Callers -> Seq(Results)] /\ pending' \in [TrWorkers -> BOOLEAN]
      <4>1. CASE cut.msg.kind # "result" \/ ~ pending[t]
        BY <3>1, <4>1
      <4>2. CASE cut.msg.kind = "result" /\ pending[t]
        <5>1. tr[t] \in Transactions
          BY <4>2 DEF WorkerInv, Unanswered
        <5>2. tr[t][1] \in Callers
          BY <5>1, NamesOfTransactions
        <5>3. Append(result[tr[t][1]], cut.msg) \in Seq(Results)
          BY <3>5, <4>2, <5>2, Appended
        <5> QED BY <3>1, <4>2, <5>2, <5>3
      <4> QED BY <4>1, <4>2
    <3>7. lost' \in BOOLEAN
      BY <2>4 DEF Fetch
    <3> QED BY <2>4, <3>1, <3>3, <3>6, <3>7 DEF Fetch
  <2>5. CASE FetchNothing(t)
    BY <2>5 DEF FetchNothing
  <2>6. CASE Again(t)
    BY <2>6 DEF Again
  <2>7. CASE Send(t)
    <3>1. /\ Head(transactions) \in Transactions
          /\ Tail(transactions) \in Seq(Transactions \cup {Null})
          /\ Len(Tail(transactions)) <= Capacity
      BY <2>7, Taken, Constants DEF Send, Capacity
    <3>2. Append(sent[t], Head(transactions)) \in Seq(Transactions)
      BY <3>1
    <3> QED BY <2>7, <3>1, <3>2 DEF Send
  <2>8. CASE SendFails(t)
    <3>1. /\ Head(transactions) \in Transactions \cup {Null}
          /\ Tail(transactions) \in Seq(Transactions \cup {Null})
          /\ Len(Tail(transactions)) <= Capacity
      BY <2>8, Taken, Constants DEF SendFails, Capacity
    <3> QED BY <2>8, <3>1 DEF SendFails
  <2>9. CASE Stop(t)
    <3>1. /\ Head(transactions) \in Transactions \cup {Null}
          /\ Tail(transactions) \in Seq(Transactions \cup {Null})
          /\ Len(Tail(transactions)) <= Capacity
      BY <2>9, Taken, Constants DEF Stop, Capacity
    <3> QED BY <2>9, <3>1 DEF Stop
  <2> QED BY <1>2, <2>1, <2>2, <2>3, <2>4, <2>5, <2>6, <2>7, <2>8, <2>9 DEF WorkerStep
<1>3. CASE Destroy
  BY <1>3, Constants DEF Destroy
<1>4. CASE PushNull
  <2>1. /\ Append(transactions, Null) \in Seq(Transactions \cup {Null})
        /\ Len(Append(transactions, Null)) <= Capacity
    BY <1>4, Appended, Constants DEF PushNull, Capacity
  <2> QED BY <1>4, <2>1, Constants DEF PushNull
<1>5. ASSUME NEW t \in TrWorkers, Reply(t) \/ EchoRequest(t) \/ Close(t) PROVE TypeInv'
  <2>1. CASE Reply(t)
    <3>1. Head(sent[t]) \in Transactions /\ Tail(sent[t]) \in Seq(Transactions)
      BY <2>1, Taken DEF Reply
    <3>2. Append(recvq[t], Result(Head(sent[t]))) \in Seq(Messages)
      BY <3>1, Appended DEF Messages
    <3> QED BY <2>1, <3>1, <3>2 DEF Reply
  <2>2. CASE EchoRequest(t)
    <3>1. Append(recvq[t], Echo) \in Seq(Messages)
      BY Appended DEF Messages
    <3> QED BY <2>2, <3>1, Constants DEF EchoRequest
  <2>3. CASE Close(t)
    BY <2>3 DEF Close
  <2> QED BY <1>5, <2>1, <2>2, <2>3
<1>6. CASE UNCHANGED vars
  BY <1>6 DEF vars
<1> QED BY <1>1, <1>2, <1>3, <1>4, <1>5, <1>6 DEF Next

\* A transaction enters the buffer when its caller starts to wait, and leaves
\* it with a worker.
LEMMA BufferStep == ASSUME IInv, [Next]_vars PROVE BufferInv'
<1> USE DEF IInv, TypeInv, BufferInv, WorkerInv, ResultInv, Unanswered, Live, Goto,
            callVars, workVars, connVars
<1>1. ASSUME NEW c \in Callers, Create(c) \/ CallStep(c) PROVE BufferInv'
  <2>1. CASE Create(c)
    BY <2>1 DEF Create
  <2>2. CASE Push(c)
    <3>1. PICK x \in Transactions : x = <<c, calls[c]>>
      <4>1. <<c, calls[c]>> \in Transactions
        BY <2>2 DEF Push, Transactions
      <4> QED BY <4>1
    <3>2. /\ transactions' = Append(transactions, x) /\ call' = [call EXCEPT ![c] = "wait"]
          /\ calls' = calls /\ result' = result /\ call[c] = "push" /\ x # Null
      BY <2>2, <3>1, NullIsNoTransaction DEF Push
    <3>3. /\ Len(transactions) \in Nat /\ Len(transactions') = Len(transactions) + 1
          /\ transactions'[Len(transactions) + 1] = x
          /\ \A i \in 1 .. Len(transactions) : transactions'[i] = transactions[i]
      BY <3>2, Appended
    <3>4. ASSUME NEW y, Unanswered(y) PROVE Unanswered(y)' /\ y # x
      BY <3>1, <3>2, <3>4
    <3>5. Unanswered(x)'
      BY <3>1, <3>2
    <3>6. ASSUME NEW i \in 1 .. Len(transactions'), transactions'[i] # Null
          PROVE  Unanswered(transactions[i])' /\ (transactions'[i] = x <=> i = Len(transactions) + 1)
      <4>1. CASE i = Len(transactions) + 1
        BY <3>3, <3>5, <4>1
      <4>2. CASE i \in 1 .. Len(transactions)
        <5>1. PICK y : y = transactions[i] /\ y = transactions'[i]
          BY <3>3, <4>2
        <5>2. Unanswered(y)
          BY <3>6, <4>2, <5>1, ZenonT(30)
        <5> QED BY <3>3, <3>4, <4>2, <5>1, <5>2
      <4> QED BY <3>3, <4>1, <4>2
    <3>7. ASSUME NEW i \in 1 .. Len(transactions'), NEW j \in 1 .. Len(transactions'),
                 transactions'[i] # Null, transactions'[i] = transactions'[j]
          PROVE  i = j
      <4>1. CASE transactions'[i] = x
        <5>1. transactions'[j] # Null /\ transactions'[j] = x
          BY <3>7, <4>1
        <5> QED BY <3>6, <3>7, <4>1, <5>1
      <4>2. CASE transactions'[i] # x
        <5>1. i \in 1 .. Len(transactions) /\ j \in 1 .. Len(transactions)
          BY <3>3, <3>6, <3>7, <4>2
        <5> QED BY <3>3, <3>7, <5>1
      <4> QED BY <4>1, <4>2
    <3> QED BY <3>6, <3>7
  <2>3. CASE Return(c)
    BY <2>3 DEF Return
  <2> QED BY <1>1, <2>1, <2>2, <2>3 DEF CallStep
<1>2. ASSUME NEW t \in TrWorkers, WorkerStep(t) PROVE BufferInv'
  <2>1. CASE Connect(t)
    BY <2>1 DEF Connect
  <2>2. CASE ConnectFails(t)
    BY <2>2 DEF ConnectFails
  <2>3. CASE PollIdle(t)
    BY <2>3 DEF PollIdle
  <2>4. CASE Fetch(t)
    <3>1. /\ call' = call /\ calls' = calls /\ transactions' = transactions /\ tr' = tr
          /\ \/ result' = result /\ pending' = pending
             \/ /\ pending[t] /\ pending' = [pending EXCEPT ![t] = FALSE]
                /\ \A c \in Callers : c # tr[t][1] => result'[c] = result[c]
      BY <2>4 DEF Fetch
    <3>2. ASSUME pending[t], NEW x \in Transactions, Unanswered(x), x # tr[t]
          PROVE  x[1] # tr[t][1] /\ x[1] \in Callers
      <4>1. tr[t] \in Transactions /\ Live(tr[t]) /\ Live(x)
        BY <3>2
      <4> QED BY <3>2, <4>1, OneLive, NamesOfTransactions
    <3>3. ASSUME pending[t], NEW i \in 1 .. Len(transactions), transactions[i] # Null
          PROVE  Unanswered(transactions[i]) /\ transactions[i] # tr[t]
      BY <3>3
    <3> QED BY <3>1, <3>2, <3>3, ZenonT(30)
  <2>5. CASE FetchNothing(t)
    BY <2>5 DEF FetchNothing
  <2>6. CASE Again(t)
    BY <2>6 DEF Again
  <2>7. CASE Send(t)
    BY <2>7 DEF Send
  <2>8. CASE SendFails(t)
    BY <2>8 DEF SendFails
  <2>9. CASE Stop(t)
    BY <2>9 DEF Stop
  <2> QED BY <1>2, <2>1, <2>2, <2>3, <2>4, <2>5, <2>6, <2>7, <2>8, <2>9 DEF WorkerStep
<1>3. CASE Destroy
  BY <1>3 DEF Destroy
<1>4. CASE PushNull
  BY <1>4 DEF PushNull
<1>5. ASSUME NEW t \in TrWorkers, Reply(t) \/ EchoRequest(t) \/ Close(t) PROVE BufferInv'
  <2>1. CASE Reply(t)
    BY <2>1 DEF Reply
  <2>2. CASE EchoRequest(t)
    BY <2>2 DEF EchoRequest
  <2>3. CASE Close(t)
    BY <2>3 DEF Close
  <2> QED BY <1>5, <2>1, <2>2, <2>3
<1>6. CASE UNCHANGED vars
  BY <1>6 DEF vars
<1> QED BY <1>1, <1>2, <1>3, <1>4, <1>5, <1>6 DEF Next

\* A worker that waits for a result is the only one to know the transaction.
LEMMA WorkerInvStep == ASSUME IInv, [Next]_vars PROVE WorkerInv'
<1> USE DEF IInv, TypeInv, BufferInv, WorkerInv, ResultInv, Unanswered, Live, Goto,
            callVars, workVars, connVars
<1>1. ASSUME NEW c \in Callers, Create(c) \/ CallStep(c) PROVE WorkerInv'
  <2>1. CASE Create(c)
    BY <2>1 DEF Create
  <2>2. CASE Push(c)
    BY <2>2 DEF Push, Transactions
  <2>3. CASE Return(c)
    BY <2>3 DEF Return
  <2> QED BY <1>1, <2>1, <2>2, <2>3 DEF CallStep
<1>2. ASSUME NEW t \in TrWorkers, WorkerStep(t) PROVE WorkerInv'
  <2>1. CASE Connect(t)
    BY <2>1 DEF Connect
  <2>2. CASE ConnectFails(t)
    BY <2>2 DEF ConnectFails
  <2>3. CASE PollIdle(t)
    BY <2>3 DEF PollIdle
  <2>4. CASE Fetch(t)
    <3>1. /\ call' = call /\ calls' = calls /\ transactions' = transactions /\ tr' = tr
          /\ \/ result' = result /\ pending' = pending
             \/ /\ pending[t] /\ pending' = [pending EXCEPT ![t] = FALSE]
                /\ \A c \in Callers : c # tr[t][1] => result'[c] = result[c]
      BY <2>4 DEF Fetch
    <3>2. ASSUME pending[t], NEW x \in Transactions, Unanswered(x), x # tr[t]
          PROVE  x[1] # tr[t][1] /\ x[1] \in Callers
      <4>1. tr[t] \in Transactions /\ Live(tr[t]) /\ Live(x)
        BY <3>2
      <4> QED BY <3>2, <4>1, OneLive, NamesOfTransactions
    <3>3. ASSUME NEW u \in TrWorkers, pending'[u]
          PROVE  /\ pending[u] /\ Unanswered(tr[u])
                 /\ pending[t] => Unanswered(tr[t])
                 /\ pending' # pending => u # t /\ tr[u] # tr[t]
      BY <3>1, <3>3
    <3> QED BY <3>1, <3>2, <3>3, ZenonT(30)
  <2>5. CASE FetchNothing(t)
    BY <2>5 DEF FetchNothing
  <2>6. CASE Again(t)
    BY <2>6 DEF Again
  <2>7. CASE Send(t)
    BY <2>7 DEF Send
  <2>8. CASE SendFails(t)
    BY <2>8 DEF SendFails
  <2>9. CASE Stop(t)
    BY <2>9 DEF Stop
  <2> QED BY <1>2, <2>1, <2>2, <2>3, <2>4, <2>5, <2>6, <2>7, <2>8, <2>9 DEF WorkerStep
<1>3. CASE Destroy
  BY <1>3 DEF Destroy
<1>4. CASE PushNull
  <2>1. /\ Len(transactions) \in Nat /\ Len(transactions') = Len(transactions) + 1
        /\ transactions'[Len(transactions) + 1] = Null
        /\ \A i \in 1 .. Len(transactions) : transactions'[i] = transactions[i]
    BY <1>4, Appended DEF PushNull
  <2> QED BY <1>4, <2>1, NullIsNoTransaction DEF PushNull
<1>5. ASSUME NEW t \in TrWorkers, Reply(t) \/ EchoRequest(t) \/ Close(t) PROVE WorkerInv'
  <2>1. CASE Reply(t)
    BY <2>1 DEF Reply
  <2>2. CASE EchoRequest(t)
    BY <2>2 DEF EchoRequest
  <2>3. CASE Close(t)
    BY <2>3 DEF Close
  <2> QED BY <1>5, <2>1, <2>2, <2>3
<1>6. CASE UNCHANGED vars
  BY <1>6 DEF vars
<1> QED BY <1>1, <1>2, <1>3, <1>4, <1>5, <1>6 DEF Next

\* A worker sends when nothing is pending, so that a connection never carries
\* two results.
LEMMA ConnectionStep == ASSUME IInv, [Next]_vars PROVE ConnectionInv'
<1> USE DEF IInv, TypeInv, BufferInv, WorkerInv, ResultInv, Unanswered, Live, Goto,
            callVars, workVars, connVars, ConnectionInv, ConnectionOf
<1>1. ASSUME NEW c \in Callers, Create(c) \/ CallStep(c) PROVE ConnectionInv'
  <2>1. CASE Create(c)
    BY <2>1 DEF Create
  <2>2. CASE Push(c)
    BY <2>2 DEF Push
  <2>3. CASE Return(c)
    BY <2>3 DEF Return
  <2> QED BY <1>1, <2>1, <2>2, <2>3 DEF CallStep
<1>2. ASSUME NEW t \in TrWorkers, WorkerStep(t) PROVE ConnectionInv'
  <2>1. CASE Connect(t)
    BY <2>1 DEF Connect
  <2>2. CASE ConnectFails(t)
    BY <2>2 DEF ConnectFails
  <2>3. CASE PollIdle(t)
    BY <2>3 DEF PollIdle
  <2>4. CASE Fetch(t)
    <3>1. PICK cut \in Cuts(recvq[t]) :
             /\ recvq' = [recvq EXCEPT ![t] = cut.rest]
             /\ IF cut.msg.kind # "result" \/ ~ pending[t]
                THEN UNCHANGED <<result, pending>>
                ELSE /\ result' = [result EXCEPT ![tr[t][1]] = Append(@, cut.msg)]
                     /\ pending' = [pending EXCEPT ![t] = FALSE]
      BY <2>4 DEF Fetch
    <3>2. recvq[t] \in Seq(Messages) /\ recvq[t] # << >> /\ sent' = sent /\ tr' = tr
      BY <2>4 DEF Fetch
    <3>3. PICK k \in 1 .. Len(recvq[t]) :
             /\ Len(cut.rest) = Len(recvq[t]) - k
             /\ \A i \in 1 .. Len(cut.rest) : cut.rest[i] = recvq[t][i + k]
      BY ONLY <3>1, <3>2, CutsOfQueue
    <3>4. cut.msg = recvq[t][1] \/ cut.msg = NoMessage
      BY <3>2, CutsOfQueue
    <3>5. ASSUME NEW i \in 1 .. Len(cut.rest)
          PROVE  i + k \in 1 .. Len(recvq[t]) /\ i + k # 1 /\ recvq'[t][i] = recvq[t][i + k]
      BY <3>1, <3>2, <3>3
    <3>6. CASE pending' = pending
      <4>1. ASSUME NEW i \in 1 .. Len(recvq'[t]), recvq'[t][i] # Echo
            PROVE  /\ pending'[t] /\ sent'[t] = << >> /\ recvq'[t][i] = Result(tr'[t])
                   /\ \A j \in 1 .. Len(recvq'[t]) : recvq'[t][j] # Echo => j = i
        <5>1. recvq[t][i + k] # Echo /\ i + k \in 1 .. Len(recvq[t])
          BY <3>1, <3>2, <3>5, <4>1, SMTT(30)
        <5>2. \A j \in 1 .. Len(recvq[t]) : recvq[t][j] # Echo => j = i + k
          BY <5>1
        <5>3. \A j \in 1 .. Len(cut.rest) : recvq'[t][j] # Echo => j + k = i + k
          BY <3>5, <5>2
        <5> QED BY <3>1, <3>2, <3>3, <3>5, <3>6, <4>1, <5>1, <5>3
      <4> QED BY <3>1, <3>2, <3>6, <4>1
    <3>7. CASE pending' # pending
      <4>1. recvq[t][1] # Echo /\ pending' = [pending EXCEPT ![t] = FALSE]
        BY <3>1, <3>4, <3>7, MessageKinds
      <4>2. 1 \in 1 .. Len(recvq[t]) /\ sent[t] = << >>
        BY <3>2, <4>1
      <4>3. \A j \in 1 .. Len(recvq[t]) : recvq[t][j] # Echo => j = 1
        BY <4>1, <4>2, ZenonT(30)
      <4>4. \A i \in 1 .. Len(cut.rest) : recvq'[t][i] = Echo
        BY <3>5, <4>3
      <4>5. \A i \in 1 .. Len(recvq'[t]) : recvq'[t][i] = Echo
        BY <3>1, <3>2, <4>4
      <4>6. \A u \in TrWorkers : u # t => /\ pending'[u] = pending[u] /\ recvq'[u] = recvq[u]
                                         /\ sent'[u] = sent[u] /\ tr'[u] = tr[u]
        BY <3>1, <3>2, <4>1
      <4>7. ASSUME NEW u \in TrWorkers, u # t PROVE ConnectionOf(u)'
        BY <4>6, <4>7, SMTT(30)
      <4>8. ConnectionOf(t)'
        BY <3>2, <4>2, <4>5
      <4> HIDE DEF ConnectionOf
      <4> QED BY <4>7, <4>8
    <3> QED BY <3>6, <3>7
  <2>5. CASE FetchNothing(t)
    BY <2>5 DEF FetchNothing
  <2>6. CASE Again(t)
    BY <2>6 DEF Again
  <2>7. CASE Send(t)
    <3>1. Head(transactions) \in Transactions
      BY <2>7, Taken DEF Send
    <3>2. sent[t] = << >> /\ \A i \in 1 .. Len(recvq[t]) : recvq[t][i] = Echo
      BY <2>7 DEF Send
    <3>3. sent'[t] = <<Head(transactions)>> /\ tr'[t] = Head(transactions) /\ pending'[t]
      BY <2>7, <3>1, <3>2 DEF Send
    <3> QED BY <2>7, <3>2, <3>3 DEF Send
  <2>8. CASE SendFails(t)
    BY <2>8 DEF SendFails
  <2>9. CASE Stop(t)
    BY <2>9 DEF Stop
  <2> QED BY <1>2, <2>1, <2>2, <2>3, <2>4, <2>5, <2>6, <2>7, <2>8, <2>9 DEF WorkerStep
<1>3. CASE Destroy
  BY <1>3 DEF Destroy
<1>4. CASE PushNull
  BY <1>4 DEF PushNull
<1>5. ASSUME NEW t \in TrWorkers, Reply(t) \/ EchoRequest(t) \/ Close(t)
      PROVE  ConnectionInv'
  <2>1. CASE Reply(t)
    <3>1. pending[t] /\ sent[t] = <<tr[t]>> /\ tr[t] \in Transactions
      BY <2>1 DEF Reply
    <3>2. \A i \in 1 .. Len(recvq[t]) : recvq[t][i] = Echo
      BY <2>1 DEF Reply
    <3>3. sent'[t] = << >> /\ recvq'[t] = Append(recvq[t], Result(tr[t]))
      BY <2>1, <3>1 DEF Reply
    <3>4. Result(tr[t]) \in Messages
      BY <3>1 DEF Messages
    <3>5. /\ Len(recvq[t]) \in Nat /\ Len(recvq'[t]) = Len(recvq[t]) + 1
          /\ recvq'[t][Len(recvq[t]) + 1] = Result(tr[t])
          /\ \A i \in 1 .. Len(recvq[t]) : recvq'[t][i] = recvq[t][i]
      BY <3>3, <3>4, Appended
    <3> QED BY <2>1, <3>1, <3>2, <3>3, <3>5, SMTT(30) DEF Reply
  <2>2. CASE EchoRequest(t)
    <3>1. recvq[t] \in Seq(Messages) /\ Echo \in Messages
      BY DEF Messages
    <3>2. recvq'[t] = Append(recvq[t], Echo)
      BY <2>2 DEF EchoRequest
    <3>3. /\ Len(recvq[t]) \in Nat /\ Len(recvq'[t]) = Len(recvq[t]) + 1
          /\ recvq'[t][Len(recvq[t]) + 1] = Echo
          /\ \A i \in 1 .. Len(recvq[t]) : recvq'[t][i] = recvq[t][i]
      BY <3>1, <3>2, Appended
    <3>4. /\ pending' = pending /\ sent' = sent /\ tr' = tr
          /\ \A u \in TrWorkers : u # t => recvq'[u] = recvq[u]
      BY <2>2 DEF EchoRequest
    <3>5. ASSUME NEW i \in 1 .. Len(recvq'[t]), recvq'[t][i] # Echo
          PROVE  i \in 1 .. Len(recvq[t]) /\ recvq'[t][i] = recvq[t][i]
      BY <3>3, <3>5
    <3>6. ASSUME NEW u \in TrWorkers, u # t PROVE ConnectionOf(u)'
      BY <3>4, <3>6
    <3>7. ConnectionOf(t)'
      <4>1. ASSUME NEW i \in 1 .. Len(recvq'[t]), recvq'[t][i] # Echo
            PROVE  /\ pending[t] /\ sent[t] = << >> /\ recvq'[t][i] = Result(tr[t])
                   /\ \A j \in 1 .. Len(recvq[t]) : recvq[t][j] # Echo => j = i
        BY <3>5, <4>1
      <4>2. ASSUME NEW i \in 1 .. Len(recvq'[t]), recvq'[t][i] # Echo
            PROVE  \A j \in 1 .. Len(recvq'[t]) : recvq'[t][j] # Echo => j = i
        BY <3>5, <4>1, <4>2
      <4> QED BY <3>4, <4>1, <4>2
    <3> HIDE DEF ConnectionOf
    <3> QED BY <3>6, <3>7
  <2>3. CASE Close(t)
    BY <2>3 DEF Close
  <2> QED BY <1>5, <2>1, <2>2, <2>3
<1>6. CASE UNCHANGED vars
  BY <1>6 DEF vars
<1> QED BY <1>1, <1>2, <1>3, <1>4, <1>5, <1>6 DEF Next

\* The result a worker hands over is that of the transaction it has sent, whose
\* caller still waits for it.
LEMMA ResultStep == ASSUME IInv, [Next]_vars PROVE ResultInv'
<1> USE DEF IInv, TypeInv, BufferInv, WorkerInv, ResultInv, Unanswered, Live, Goto,
            callVars, workVars, connVars, ConnectionInv, ConnectionOf
<1>1. ASSUME NEW c \in Callers, Create(c) \/ CallStep(c) PROVE ResultInv'
  <2>1. CASE Create(c)
    BY <2>1 DEF Create
  <2>2. CASE Push(c)
    BY <2>2 DEF Push
  <2>3. CASE Return(c)
    BY <2>3 DEF Return
  <2> QED BY <1>1, <2>1, <2>2, <2>3 DEF CallStep
<1>2. ASSUME NEW t \in TrWorkers, WorkerStep(t) PROVE ResultInv'
  <2>1. CASE Connect(t)
    BY <2>1 DEF Connect
  <2>2. CASE ConnectFails(t)
    BY <2>2 DEF ConnectFails
  <2>3. CASE PollIdle(t)
    BY <2>3 DEF PollIdle
  <2>4. CASE Fetch(t)
    <3>1. PICK cut \in Cuts(recvq[t]) :
             IF cut.msg.kind # "result" \/ ~ pending[t]
             THEN UNCHANGED <<result, pending>>
             ELSE result' = [result EXCEPT ![tr[t][1]] = Append(@, cut.msg)]
      BY <2>4 DEF Fetch
    <3>2. recvq[t] \in Seq(Messages) /\ recvq[t] # << >> /\ calls' = calls /\ call' = call
      BY <2>4 DEF Fetch
    <3>3. SUFFICES ASSUME cut.msg.kind = "result", pending[t] PROVE ResultInv'
      BY <3>1, <3>2
    <3>4. cut.msg = recvq[t][1] /\ cut.msg # Echo
      BY <3>2, <3>3, CutsOfQueue, MessageKinds
    <3>5. cut.msg = Result(tr[t])
      BY <3>2, <3>3, <3>4
    <3>6. PICK c \in Callers, k \in 1 .. MaxCalls : tr[t] = <<c, k>>
      <4>1. tr[t] \in Transactions
        BY <3>3
      <4> QED BY <4>1, NamesOfTransactions
    <3>7. result[c] = << >> /\ call[c] = "wait" /\ calls[c] = k
      BY <3>3, <3>6
    <3>8. result' = [result EXCEPT ![c] = <<Result(<<c, k>>)>>]
      BY <3>1, <3>3, <3>5, <3>6, <3>7
    <3> QED BY <3>2, <3>7, <3>8
  <2>5. CASE FetchNothing(t)
    BY <2>5 DEF FetchNothing
  <2>6. CASE Again(t)
    BY <2>6 DEF Again
  <2>7. CASE Send(t)
    BY <2>7 DEF Send
  <2>8. CASE SendFails(t)
    BY <2>8 DEF SendFails
  <2>9. CASE Stop(t)
    BY <2>9 DEF Stop
  <2> QED BY <1>2, <2>1, <2>2, <2>3, <2>4, <2>5, <2>6, <2>7, <2>8, <2>9 DEF WorkerStep
<1>3. CASE Destroy
  BY <1>3 DEF Destroy
<1>4. CASE PushNull
  BY <1>4 DEF PushNull
<1>5. ASSUME NEW t \in TrWorkers, Reply(t) \/ EchoRequest(t) \/ Close(t) PROVE ResultInv'
  <2>1. CASE Reply(t)
    BY <2>1 DEF Reply
  <2>2. CASE EchoRequest(t)
    BY <2>2 DEF EchoRequest
  <2>3. CASE Close(t)
    BY <2>3 DEF Close
  <2> QED BY <1>5, <2>1, <2>2, <2>3
<1>6. CASE UNCHANGED vars
  BY <1>6 DEF vars
<1> QED BY <1>1, <1>2, <1>3, <1>4, <1>5, <1>6 DEF Next

-----------------------------------------------------------------------------
\* srdb_new and srdb_init leave no transaction anywhere.
LEMMA InitInv == Init => IInv
<1> SUFFICES ASSUME Init PROVE IInv
  OBVIOUS
<1> USE DEF Init
<1>1. TypeInv
  <2>1. << >> \in Seq(Transactions \cup {Null}) /\ Len(<< >>) = 0
    OBVIOUS
  <2>2. 0 <= Capacity
    BY Constants DEF Capacity
  <2>3. /\ result \in [Callers -> Seq(Results)]
        /\ sent \in [TrWorkers -> Seq(Transactions)]
        /\ recvq \in [TrWorkers -> Seq(Messages)]
    OBVIOUS
  <2>4. nulls \in -1 .. Cardinality(TrWorkers)
    BY Constants
  <2>5. /\ call \in [Callers -> {"idle", "push", "wait"}]
        /\ calls \in [Callers -> 0 .. MaxCalls]
        /\ pc \in [TrWorkers -> {"connect", "poll", "next", "exit"}]
        /\ tr \in [TrWorkers -> Transactions \cup {Null}]
        /\ echos \in [TrWorkers -> 0 .. MaxEchos]
    BY Constants
  <2>6. /\ transactions = << >> /\ Len(transactions) <= Capacity
        /\ \A c \in Callers : call[c] = "idle"
    BY <2>1, <2>2
  <2>7. /\ pending \in [TrWorkers -> BOOLEAN]
        /\ up \in [TrWorkers -> BOOLEAN] /\ lost \in BOOLEAN
    OBVIOUS
  <2> HIDE DEF Init
  <2> QED BY <2>1, <2>3, <2>4, <2>5, <2>6, <2>7 DEF TypeInv
<1>2. BufferInv /\ WorkerInv /\ ConnectionInv /\ ResultInv
  BY DEF BufferInv, WorkerInv, ConnectionInv, ConnectionOf, ResultInv
<1> QED BY <1>1, <1>2 DEF IInv

\* The conjunction is inductive.
LEMMA NextInv == IInv /\ [Next]_vars => IInv'
BY TypeStep, BufferStep, WorkerInvStep, ConnectionStep, ResultStep DEF IInv

\* IInv holds in every reachable state.
THEOREM Invariance == Spec => []IInv
BY InitInv, NextInv, PTL DEF Spec

\* Callers, workers, buffer and connections keep their types; the buffer never
\* exceeds its capacity and a transaction never gets a second result.
THEOREM TypeCorrect == Spec => []TypeOK
<1>1. IInv => TypeOK
  <2>1. IInv => \A c \in Callers : Len(result[c]) <= 1
    <3> SUFFICES ASSUME IInv, NEW c \in Callers PROVE Len(result[c]) <= 1
      OBVIOUS
    <3>1. CASE result[c] = << >>
      BY <3>1
    <3>2. CASE result[c] # << >>
      <4>1. result[c] = <<Result(<<c, calls[c]>>)>>
        BY <3>2 DEF IInv, ResultInv
      <4> QED BY <4>1
    <3> QED BY <3>1, <3>2
  <2> QED BY <2>1 DEF IInv, TypeInv, TypeOK
<1> QED BY <1>1, Invariance, PTL

\* When srdb_update_sync or srdb_insert_sync frees its transaction, neither
\* the buffer nor a transaction_worker refers to it, however the connections
\* fail and whatever recv makes of the answers.
THEOREM NothingDangles == Spec => []NoDanglingTransaction
<1>1. IInv => NoDanglingTransaction
  BY DEF IInv, BufferInv, WorkerInv, Unanswered, NoDanglingTransaction
<1> QED BY <1>1, Invariance, PTL

\* transaction_worker hands a result to the pending transaction without a look
\* at its id: it is the result of that transaction all the same.
THEOREM ResultsAreOwn == Spec => []OwnResult
<1>1. IInv => OwnResult
  <2> SUFFICES ASSUME IInv, NEW c \in Callers, NEW i \in 1 .. Len(result[c])
               PROVE  call[c] = "wait" /\ result[c][i].of = <<c, calls[c]>>
    BY DEF OwnResult
  <2>1. result[c] # << >>
    BY DEF IInv, TypeInv
  <2>2. call[c] = "wait" /\ result[c] = <<Result(<<c, calls[c]>>)>>
    BY <2>1 DEF IInv, ResultInv
  <2> QED BY <2>2 DEF Result
<1> QED BY <1>1, Invariance, PTL
=============================================================================
