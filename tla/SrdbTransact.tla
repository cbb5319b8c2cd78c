---------------------------- MODULE SrdbTransact ----------------------------
(***************************************************************************)
(* Transactions of lib/srdb.c.  A thread of the controller that updates or *)
(* inserts a row (srdb_update_sync, srdb_insert_sync) builds a struct      *)
(* transaction, pushes it to srdb->transactions and waits for the result.  *)
(* Each of the ntransacts threads transaction_worker has a connection to   *)
(* the OVSDB server; it takes a transaction from the buffer, sends it,     *)
(* polls the connection for the result and hands it to the caller.  The    *)
(* server also sends echo requests on the connection, at any time.         *)
(*                                                                         *)
(* The k-th transaction of caller c is <<c, k>>.  srdb->transactions and   *)
(* tr->result are buffers of module Sbuf, which module SbufProofs shows to *)
(* be bounded FIFOs; here they are sequences.  The contents of a           *)
(* transaction and of its result are left out: what becomes of them is the *)
(* business of module FlowTable.                                           *)
(***************************************************************************)
EXTENDS Integers, Sequences, FiniteSets

CONSTANTS Callers,      \* threads that call srdb_*_sync
          TrWorkers,    \* srdb->tr_workers
          Recv,         \* what recv returns: "one" message, "whole" messages,
                        \* or "any" part of the stream
          Reliable,     \* whether connections are made, and last
          MaxCalls,     \* bound: transactions of a caller
          MaxEchos      \* bound: echo requests on a connection

ASSUME TransactAssumption ==
    /\ IsFiniteSet(TrWorkers) /\ IsFiniteSet(Callers)
    /\ Recv \in {"one", "whole", "any"} /\ Reliable \in BOOLEAN
    /\ MaxCalls \in Nat /\ MaxEchos \in Nat

Null == <<"null">>
Capacity == 2 * Cardinality(TrWorkers)
Transactions == Callers \X (1 .. MaxCalls)
NoMessage == [kind |-> "none"]
Echo == [kind |-> "echo"]
Result(x) == [kind |-> "result", of |-> x]
Messages == {Echo} \cup {Result(x) : x \in Transactions}

VARIABLES call,         \* call[c]: where caller c is
          calls,        \* calls[c]: transactions c has built
          result,       \* result[c]: tr->result of its last transaction
          transactions, \* srdb->transactions
          pc, tr,       \* pc[t], tr[t], pending[t]: transaction_worker t
          pending,
          sent,         \* sent[t]: transactions on the way to the server
          recvq,        \* recvq[t]: messages of the server not yet received
          echos,        \* echos[t]: echo requests sent on connection t
          up,           \* up[t]: the server has not closed connection t
          nulls,        \* NULLs srdb_destroy has still to push, or -1
          lost          \* history: recv has swallowed a message

callVars == <<call, calls, result>>
workVars == <<pc, tr, pending>>
connVars == <<sent, recvq, echos, up>>
vars == <<callVars, transactions, workVars, connVars, nulls, lost>>

Init ==
    /\ call = [c \in Callers |-> "idle"]
    /\ calls = [c \in Callers |-> 0]
    /\ result = [c \in Callers |-> << >>]
    /\ transactions = << >>
    /\ pc = [t \in TrWorkers |-> "connect"]
    /\ tr = [t \in TrWorkers |-> Null]
    /\ pending = [t \in TrWorkers |-> FALSE]
    /\ sent = [t \in TrWorkers |-> << >>]
    /\ recvq = [t \in TrWorkers |-> << >>]
    /\ echos = [t \in TrWorkers |-> 0]
    /\ up = [t \in TrWorkers |-> TRUE]
    /\ nulls = -1
    /\ lost = FALSE

Goto(t, from, to) ==
    /\ pc[t] = from
    /\ pc' = [pc EXCEPT ![t] = to]

-----------------------------------------------------------------------------
(***************************************************************************)
(* srdb_update_sync and srdb_insert_sync                                   *)
(***************************************************************************)
\* create_transaction; the caller reaches sbuf_push.
Create(c) ==
    /\ call[c] = "idle"
    /\ nulls = -1
    /\ calls[c] < MaxCalls
    /\ call' = [call EXCEPT ![c] = "push"]
    /\ calls' = [calls EXCEPT ![c] = @ + 1]
    /\ result' = [result EXCEPT ![c] = << >>]
    /\ UNCHANGED <<transactions, workVars, connVars, nulls, lost>>

Push(c) ==
    /\ call[c] = "push"
    /\ Len(transactions) < Capacity
    /\ call' = [call EXCEPT ![c] = "wait"]
    /\ transactions' = Append(transactions, <<c, calls[c]>>)
    /\ UNCHANGED <<calls, result, workVars, connVars, nulls, lost>>

\* Mutant: the caller does not wait for the result (sbuf_trypop).
ReturnAtOnce(c) ==
    /\ call[c] = "wait"
    /\ call' = [call EXCEPT ![c] = "idle"]
    /\ result' = [result EXCEPT ![c] = << >>]
    /\ UNCHANGED <<calls, transactions, workVars, connVars, nulls, lost>>

\* sbuf_pop of the result, and free_transaction.
Return(c) ==
    /\ call[c] = "wait"
    /\ result[c] # << >>
    /\ call' = [call EXCEPT ![c] = "idle"]
    /\ result' = [result EXCEPT ![c] = << >>]
    /\ UNCHANGED <<calls, transactions, workVars, connVars, nulls, lost>>

CallStep(c) == Push(c) \/ Return(c)

-----------------------------------------------------------------------------
(***************************************************************************)
(* transaction_worker                                                      *)
(***************************************************************************)
Connect(t) ==
    /\ Goto(t, "connect", "poll")
    /\ UNCHANGED <<callVars, transactions, tr, pending, connVars, nulls, lost>>

\* ovsdb_socket fails and the thread ends.
ConnectFails(t) ==
    /\ ~ Reliable
    /\ Goto(t, "connect", "exit")
    /\ up' = [up EXCEPT ![t] = FALSE]
    /\ UNCHANGED <<callVars, transactions, tr, pending, sent, recvq, echos, nulls,
                   lost>>

\* poll finds nothing to read.
PollIdle(t) ==
    /\ Goto(t, "poll", "next")
    /\ recvq[t] = << >> /\ up[t]
    /\ UNCHANGED <<callVars, transactions, tr, pending, connVars, nulls, lost>>

FirstMessage(q) == [msg |-> Head(q), rest |-> Tail(q)]

\* The ways in which recv can cut the stream: what it returns starts with a
\* whole message, which is parsed, and whatever comes along with it is lost; or
\* it starts with a part of a message, and nothing is parsed.
Cuts(q) ==
    [msg : IF Recv = "any" THEN {Head(q), NoMessage} ELSE {Head(q)},
     rest : IF Recv = "one" THEN {Tail(q)}
            ELSE {SubSeq(q, k + 1, Len(q)) : k \in 1 .. Len(q)}]

\* Mutant: an echo request passes for the result.
FetchEchoAsResult(t) ==
    /\ Goto(t, "poll", "next")
    /\ recvq[t] # << >>
    /\ \E cut \in Cuts(recvq[t]) :
          /\ recvq' = [recvq EXCEPT ![t] = cut.rest]
          /\ lost' = (lost \/ cut # FirstMessage(recvq[t]))
          /\ IF cut.msg.kind = "result" /\ pending[t]
             THEN result' = [result EXCEPT ![tr[t][1]] = Append(@, cut.msg)]
             ELSE result' = result
    /\ pending' = [pending EXCEPT ![t] = FALSE]
    /\ UNCHANGED <<call, calls, transactions, tr, sent, echos, up, nulls>>

\* fetch_transaction_result: an echo request is answered (the answer changes
\* nothing in this model), a result goes to the caller of the transaction
\* pending, or is dropped when there is none.
Fetch(t) ==
    /\ Goto(t, "poll", "next")
    /\ recvq[t] # << >>
    /\ \E cut \in Cuts(recvq[t]) :
          /\ recvq' = [recvq EXCEPT ![t] = cut.rest]
          /\ lost' = (lost \/ cut # FirstMessage(recvq[t]))
          /\ IF cut.msg.kind # "result" \/ ~ pending[t]
             THEN UNCHANGED <<result, pending>>
             ELSE /\ result' = [result EXCEPT ![tr[t][1]] = Append(@, cut.msg)]
                  /\ pending' = [pending EXCEPT ![t] = FALSE]
    /\ UNCHANGED <<call, calls, transactions, tr, sent, echos, up, nulls>>

\* The server has closed the connection: poll reports it readable, recv
\* returns 0, and the loop goes on.
FetchNothing(t) ==
    /\ Goto(t, "poll", "next")
    /\ recvq[t] = << >> /\ ~ up[t]
    /\ UNCHANGED <<callVars, transactions, tr, pending, connVars, nulls, lost>>

\* A result is pending, or sbuf_trypop finds no transaction.
Again(t) ==
    /\ Goto(t, "next", "poll")
    /\ pending[t] \/ transactions = << >>
    /\ UNCHANGED <<callVars, transactions, tr, pending, connVars, nulls, lost>>

\* Mutant: a transaction is sent while a result is pending.
SendWhilePending(t) ==
    /\ Goto(t, "next", "poll")
    /\ transactions # << >> /\ Head(transactions) # Null
    /\ transactions' = Tail(transactions)
    /\ tr' = [tr EXCEPT ![t] = Head(transactions)]
    /\ sent' = [sent EXCEPT ![t] = Append(@, Head(transactions))]
    /\ pending' = [pending EXCEPT ![t] = TRUE]
    /\ UNCHANGED <<callVars, recvq, echos, up, nulls, lost>>

\* sbuf_trypop and send_transaction.
Send(t) ==
    /\ Goto(t, "next", "poll")
    /\ ~ pending[t]
    /\ transactions # << >> /\ Head(transactions) # Null
    /\ transactions' = Tail(transactions)
    /\ tr' = [tr EXCEPT ![t] = Head(transactions)]
    /\ sent' = [sent EXCEPT ![t] = Append(@, Head(transactions))]
    /\ pending' = [pending EXCEPT ![t] = TRUE]
    /\ UNCHANGED <<callVars, recvq, echos, up, nulls, lost>>

\* send fails: the thread ends, and leaves the caller without a result.
SendFails(t) ==
    /\ ~ up[t]
    /\ Goto(t, "next", "exit")
    /\ ~ pending[t]
    /\ transactions # << >> /\ Head(transactions) # Null
    /\ transactions' = Tail(transactions)
    /\ tr' = [tr EXCEPT ![t] = Head(transactions)]
    /\ UNCHANGED <<callVars, pending, connVars, nulls, lost>>

Stop(t) ==
    /\ Goto(t, "next", "exit")
    /\ ~ pending[t]
    /\ transactions # << >> /\ Head(transactions) = Null
    /\ transactions' = Tail(transactions)
    /\ tr' = [tr EXCEPT ![t] = Null]
    /\ UNCHANGED <<callVars, pending, connVars, nulls, lost>>

WorkerStep(t) ==
    \/ Connect(t) \/ ConnectFails(t) \/ PollIdle(t) \/ Fetch(t)
    \/ FetchNothing(t) \/ Again(t) \/ Send(t) \/ SendFails(t) \/ Stop(t)

-----------------------------------------------------------------------------
(***************************************************************************)
(* srdb_destroy: a NULL for each worker, then the workers are joined.  It  *)
(* is called when the threads that make transactions have ended.           *)
(***************************************************************************)
\* Mutant: one NULL too few.
DestroyOffByOne ==
    /\ nulls = -1
    /\ \A c \in Callers : call[c] = "idle"
    /\ nulls' = Cardinality(TrWorkers) - 1
    /\ UNCHANGED <<callVars, transactions, workVars, connVars, lost>>

Destroy ==
    /\ nulls = -1
    /\ \A c \in Callers : call[c] = "idle"
    /\ nulls' = Cardinality(TrWorkers)
    /\ UNCHANGED <<callVars, transactions, workVars, connVars, lost>>

PushNull ==
    /\ nulls > 0
    /\ Len(transactions) < Capacity
    /\ transactions' = Append(transactions, Null)
    /\ nulls' = nulls - 1
    /\ UNCHANGED <<callVars, workVars, connVars, lost>>

-----------------------------------------------------------------------------
(***************************************************************************)
(* The OVSDB server                                                        *)
(***************************************************************************)
Reply(t) ==
    /\ up[t] /\ sent[t] # << >>
    /\ recvq' = [recvq EXCEPT ![t] = Append(@, Result(Head(sent[t])))]
    /\ sent' = [sent EXCEPT ![t] = Tail(@)]
    /\ UNCHANGED <<callVars, transactions, workVars, echos, up, nulls, lost>>

EchoRequest(t) ==
    /\ up[t] /\ pc[t] \in {"poll", "next"}
    /\ echos[t] < MaxEchos
    /\ echos' = [echos EXCEPT ![t] = @ + 1]
    /\ recvq' = [recvq EXCEPT ![t] = Append(@, Echo)]
    /\ UNCHANGED <<callVars, transactions, workVars, sent, up, nulls, lost>>

Close(t) ==
    /\ ~ Reliable
    /\ up[t] /\ pc[t] # "connect"
    /\ up' = [up EXCEPT ![t] = FALSE]
    /\ UNCHANGED <<callVars, transactions, workVars, sent, recvq, echos, nulls,
                   lost>>

Next ==
    \/ \E c \in Callers : Create(c) \/ CallStep(c)
    \/ \E t \in TrWorkers : WorkerStep(t)
    \/ Destroy \/ PushNull
    \/ \E t \in TrWorkers : Reply(t) \/ EchoRequest(t) \/ Close(t)

Spec == Init /\ [][Next]_vars

\* Threads are scheduled and the server answers the transactions it receives.
\* Workers compete for the buffer: none of them is promised a transaction.
Fairness ==
    /\ \A c \in Callers : WF_vars(CallStep(c))
    /\ \A t \in TrWorkers : WF_vars(WorkerStep(t)) /\ WF_vars(Reply(t))
    /\ WF_vars(PushNull)

FairSpec == Spec /\ Fairness

-----------------------------------------------------------------------------
TypeOK ==
    /\ call \in [Callers -> {"idle", "push", "wait"}]
    /\ calls \in [Callers -> 0 .. MaxCalls]
    /\ \A c \in Callers : Len(result[c]) <= 1
    /\ Len(transactions) <= Capacity
    /\ \A i \in 1 .. Len(transactions) :
          transactions[i] \in Transactions \cup {Null}
    /\ pc \in [TrWorkers -> {"connect", "poll", "next", "exit"}]
    /\ tr \in [TrWorkers -> Transactions \cup {Null}]
    /\ pending \in [TrWorkers -> BOOLEAN]
    /\ \A t \in TrWorkers :
          /\ \A i \in 1 .. Len(sent[t]) : sent[t][i] \in Transactions
          /\ \A i \in 1 .. Len(recvq[t]) : recvq[t][i] \in Messages
    /\ echos \in [TrWorkers -> 0 .. MaxEchos]
    /\ up \in [TrWorkers -> BOOLEAN]
    /\ nulls \in -1 .. Cardinality(TrWorkers)
    /\ lost \in BOOLEAN

\* The transaction of caller c that has not been freed.
Live(x) == call[x[1]] = "wait" /\ calls[x[1]] = x[2]

\* free_transaction is called by the caller: nobody still refers to the
\* transaction then, neither the buffer nor a worker waiting for its result.
NoDanglingTransaction ==
    /\ \A i \in 1 .. Len(transactions) :
          transactions[i] # Null => Live(transactions[i])
    /\ \A t \in TrWorkers : pending[t] => Live(tr[t])

\* A worker does not check the id of a result against the transaction it has
\* sent; all the same, a caller gets the result of its own last transaction.
OwnResult ==
    \A c \in Callers : \A i \in 1 .. Len(result[c]) :
        call[c] = "wait" /\ result[c][i].of = <<c, calls[c]>>

\* Every call returns, as long as connections are made and last and recv
\* returns what the server has sent message by message.
CallsReturn ==
    \A c \in Callers :
        call[c] # "idle" ~>
            call[c] = "idle" \/ lost \/ \E t \in TrWorkers : ~ up[t]

\* srdb_destroy joins the workers: they all end, each on a NULL of its own,
\* whatever has become of their connections.
DestroyEnds == nulls # -1 ~> \A t \in TrWorkers : pc[t] = "exit"

\* What the comment in fetch_transaction_result says of the data on a
\* connection, "echo, and if pending, transaction result": both are handled,
\* so that a call returns although the server sends echo requests.
EchosAreHarmless == \A c \in Callers : call[c] # "idle" ~> call[c] = "idle"
=============================================================================
