---------------------------- MODULE MonitorStream ----------------------------
(***************************************************************************)
(* A monitor of lib/srdb.c: the thread ovsdb_monitor, which subscribes to  *)
(* a table of the OVSDB server and turns the byte stream of its connection *)
(* into calls of the callbacks, and the thread that starts it with         *)
(* srdb_monitor, waits for the initial contents, and later stops it        *)
(* (srdb_destroy) or waits for it to end (srdb_monitor_join_all).          *)
(*                                                                         *)
(* A message is Size[kind] bytes long and byte i of message m is <<m, i>>. *)
(* What the callbacks do to the controller is module NetState; here they   *)
(* keep a copy of the rows.  A row is a name with a value, 0 being absent. *)
(***************************************************************************)
EXTENDS Integers, SequencesExt

CONSTANTS Rows,         \* rows of the table
          Values,       \* the values a row can have
          BadRows,      \* rows whose cb_insert returns an error
          Size,         \* Size[k]: bytes of a message of kind k
          BufLen,       \* JSON_BUFLEN
          MonMax,       \* JSON_BUFLEN_MONMAX
          MaxWire       \* bound: the server sends only while fewer bytes wait

Kinds == {"initial", "update", "echo", "error"}

\* Doublings lead from BufLen to MonMax (4096 and 8M in the code).
Doublings(S) ==
    /\ BufLen \in S /\ MonMax \in S
    /\ \A len \in S \ {MonMax} : 2 * len \in S

ASSUME StreamAssumption ==
    /\ IsFiniteSet(Rows) /\ BadRows \subseteq Rows
    /\ Values \subseteq Nat \ {0}
    /\ Size \in [Kinds -> Nat \ {0}]
    /\ BufLen \in Nat \ {0} /\ MonMax \in Nat
    /\ \E S \in SUBSET (BufLen .. MonMax) : Doublings(S)

VARIABLES caller,       \* where the thread that uses the monitor is
          stop,         \* value of desc->stop
          initialRead,  \* value of tbl->initial_read
          pc,           \* where ovsdb_monitor is
          buf, curBuflen,
          jpos,         \* bytes of buf parsed in this pass
          json,         \* whether the last json_loadb gave an object
          view,         \* the rows as the callbacks were told of them
          rows,         \* the rows in the database
          wire,         \* bytes the server sent and recv has not returned
          up,           \* the server has not closed the connection
          dropped,      \* history: bytes that were not parsed were discarded
          skipped,      \* history: rows were not handed to the callbacks
          silent        \* history: the server does not answer the request
                        \* with a result

userVars == <<caller, stop, initialRead>>
readVars == <<pc, buf, curBuflen, jpos, json>>
dbVars == <<rows, wire, up, silent>>
histVars == <<dropped, skipped>>
vars == <<userVars, readVars, view, dbVars, histVars>>

Absent == [r \in Rows |-> 0]
Bytes(m) == [i \in 1 .. Size[m.kind] |-> <<m, i>>]

Init ==
    /\ caller = "start" /\ stop = 0 /\ initialRead = 0
    /\ pc = "off"
    /\ buf = << >> /\ curBuflen = BufLen /\ jpos = 0 /\ json = FALSE
    /\ view = Absent
    /\ rows \in [Rows -> {0} \cup Values]
    /\ wire = << >> /\ up = TRUE
    /\ dropped = FALSE /\ skipped = FALSE /\ silent = FALSE

-----------------------------------------------------------------------------
(***************************************************************************)
(* The thread that uses the monitor                                        *)
(***************************************************************************)
\* srdb_monitor: the thread is created, then its caller waits.
Monitor ==
    /\ caller = "start"
    /\ caller' = "waiting"
    /\ pc' = "connect"
    /\ UNCHANGED <<stop, initialRead, buf, curBuflen, jpos, json, view, dbVars,
                   histVars>>

\* sem_wait(&tbl->initial_read) returns.
InitialReadDone ==
    /\ caller = "waiting"
    /\ initialRead > 0
    /\ initialRead' = initialRead - 1
    /\ caller' = "running"
    /\ UNCHANGED <<stop, readVars, view, dbVars, histVars>>

\* srdb_destroy.
Destroy ==
    /\ caller = "running"
    /\ caller' = "joining"
    /\ stop' = stop + 1
    /\ UNCHANGED <<initialRead, readVars, view, dbVars, histVars>>

\* srdb_monitor_join_all.
JoinAll ==
    /\ caller = "running"
    /\ caller' = "joining"
    /\ UNCHANGED <<stop, initialRead, readVars, view, dbVars, histVars>>

Join ==
    /\ caller = "joining"
    /\ pc = "done"
    /\ caller' = "joined"
    /\ UNCHANGED <<stop, initialRead, readVars, view, dbVars, histVars>>

-----------------------------------------------------------------------------
(***************************************************************************)
(* ovsdb_monitor                                                           *)
(***************************************************************************)
\* out_close and out: the caller of srdb_monitor is released in any case.
Exit ==
    /\ pc' = "done"
    /\ initialRead' = initialRead + 1

\* ovsdb_socket and the request; the server answers with the contents of the
\* table, in some order, or with an error.
Connect ==
    /\ pc = "connect"
    /\ up
    /\ pc' = "poll"
    /\ \/ \E s \in SetToSeqs({r \in Rows : rows[r] # 0}) :
             wire' = Bytes([kind |-> "initial",
                            rows |-> [i \in DOMAIN s |-> <<s[i], rows[s[i]]>>]])
          /\ UNCHANGED silent
       \/ wire' = Bytes([kind |-> "error"]) /\ silent' = TRUE
    /\ UNCHANGED <<userVars, buf, curBuflen, jpos, json, view, rows, up, histVars>>

ConnectFails ==
    /\ pc = "connect"
    /\ ~ up
    /\ Exit
    /\ UNCHANGED <<caller, stop, buf, curBuflen, jpos, json, view, dbVars, histVars>>

\* poll reports data or the end of the stream; only then the stop is seen.
Readable == wire # << >> \/ ~ up

\* Mutant: the thread takes the stop and goes on.
StopConsumed ==
    /\ pc = "poll" /\ Readable
    /\ stop > 0
    /\ stop' = stop - 1
    /\ UNCHANGED <<caller, initialRead, readVars, view, dbVars, histVars>>

Stopped ==
    /\ pc = "poll" /\ Readable
    /\ stop > 0
    /\ stop' = stop - 1
    /\ Exit
    /\ UNCHANGED <<caller, buf, curBuflen, jpos, json, view, dbVars, histVars>>

\* recv returns some of the bytes that fit.
Recv(n) ==
    /\ pc = "poll" /\ stop = 0
    /\ n <= Len(wire) /\ n <= curBuflen - Len(buf)
    /\ buf' = buf \o SubSeq(wire, 1, n)
    /\ wire' = SubSeq(wire, n + 1, Len(wire))
    /\ jpos' = 0
    /\ pc' = "parse"
    /\ UNCHANGED <<userVars, curBuflen, json, view, rows, up, silent, histVars>>

\* recv returns 0, as it also would if there were no room in the buffer.
RecvNothing ==
    /\ pc = "poll" /\ Readable /\ stop = 0
    /\ wire = << >> \/ Len(buf) = curBuflen
    /\ Exit
    /\ UNCHANGED <<caller, stop, buf, curBuflen, jpos, json, view, dbVars, histVars>>

\* What json_loadb finds at jpos: a whole message, or nothing.  Text that
\* begins in the middle of a message is not JSON.
Rest == SubSeq(buf, jpos + 1, Len(buf))
Parses ==
    /\ Rest # << >>
    /\ Head(Rest)[2] = 1
    /\ Len(Rest) >= Size[Head(Rest)[1].kind]
Next1 == Head(Rest)[1]

\* srdb_read of the rows of a reply, until a callback returns an error.
Reported(s) ==
    {s[i] : i \in {j \in DOMAIN s : \A k \in 1 .. j - 1 : s[k][1] \notin BadRows}}

\* Mutant: a reply that is an error releases the caller too.
PostsAnyReply(m) == m.kind \in {"initial", "error"}

\* The messages after which initial_read is posted.
Posts(m) == m.kind = "initial"

\* parse_ovsdb_monitor_reply and parse_ovsdb_update; the operation srdb_read
\* finds from "new" and "old" gives the row its new value, or removes it.
Handle(m) ==
    /\ initialRead' = IF Posts(m) THEN initialRead + 1 ELSE initialRead
    /\ view' = CASE m.kind = "initial" ->
                      [r \in Rows |-> IF r \in {p[1] : p \in Reported(m.rows)}
                                      THEN (CHOOSE p \in Reported(m.rows) : p[1] = r)[2]
                                      ELSE view[r]]
                 [] m.kind = "update" -> [view EXCEPT ![m.row] = m.new]
                 [] OTHER -> view
    /\ skipped' = (skipped \/ (m.kind = "initial" /\ Reported(m.rows) # ToSet(m.rows)))

\* One pass of the loop over the buffer; it ends one byte before the end.
Parse ==
    /\ pc = "parse" /\ Parses
    /\ Handle(Next1)
    /\ json' = TRUE
    /\ jpos' = jpos + Size[Next1.kind]
    /\ pc' = IF jpos' < Len(buf) - 1 THEN "parse" ELSE "compact"
    /\ UNCHANGED <<caller, stop, buf, curBuflen, dbVars, dropped>>

ParseFails ==
    /\ pc = "parse" /\ ~ Parses
    /\ json' = FALSE
    /\ pc' = "compact"
    /\ UNCHANGED <<userVars, buf, curBuflen, jpos, view, dbVars, histVars>>

\* Mutant: what is left after the last message is not moved.
LeftKept == IF json THEN << >> ELSE buf

\* Mutant: bytes that are no message yet are discarded.
LeftCleared == << >>

\* What the buffer keeps.
Left == IF json THEN << >> ELSE Rest

Grown(len) == IF len = curBuflen THEN 2 * curBuflen ELSE curBuflen

\* What was parsed is removed, and a full buffer doubled.
Compact ==
    /\ pc = "compact"
    /\ buf' = Left
    /\ dropped' = (dropped \/ (json /\ Rest # << >>))
    /\ IF Len(Left) = MonMax
       THEN Exit /\ UNCHANGED curBuflen
       ELSE /\ pc' = "poll"
            /\ curBuflen' = Grown(Len(Left))
            /\ UNCHANGED initialRead
    /\ UNCHANGED <<caller, stop, jpos, json, view, dbVars, skipped>>

MonitorStep ==
    \/ Connect \/ ConnectFails \/ Stopped \/ (\E n \in 1 .. MonMax : Recv(n))
    \/ RecvNothing \/ Parse \/ ParseFails \/ Compact

-----------------------------------------------------------------------------
(***************************************************************************)
(* The server                                                              *)
(***************************************************************************)
Listening == pc \in {"poll", "parse", "compact"} /\ up

Send(m) ==
    /\ Listening /\ Len(wire) < MaxWire
    /\ wire' = wire \o Bytes(m)

\* The database changes; the monitor, once it is subscribed, is told.
Change(r, v) ==
    /\ rows[r] # v
    /\ rows' = [rows EXCEPT ![r] = v]
    /\ ~ silent
    /\ Send([kind |-> "update", row |-> r, old |-> rows[r], new |-> v])
    /\ UNCHANGED <<userVars, readVars, view, up, silent, histVars>>

EchoRequest ==
    /\ Send([kind |-> "echo"])
    /\ UNCHANGED <<userVars, readVars, view, rows, up, silent, histVars>>

Close ==
    /\ up
    /\ up' = FALSE
    /\ UNCHANGED <<userVars, readVars, view, rows, wire, silent, histVars>>

Next ==
    \/ Monitor \/ InitialReadDone \/ Destroy \/ JoinAll \/ Join
    \/ MonitorStep
    \/ \E r \in Rows, v \in {0} \cup Values : Change(r, v)
    \/ EchoRequest \/ Close

Spec == Init /\ [][Next]_vars

\* The threads are scheduled, and the server sends echo requests on an idle
\* connection.
Fairness ==
    /\ WF_vars(Monitor) /\ WF_vars(InitialReadDone) /\ WF_vars(Join)
    /\ WF_vars(MonitorStep)
    /\ WF_vars(EchoRequest)

FairSpec == Spec /\ Fairness

-----------------------------------------------------------------------------
TypeOK ==
    /\ caller \in {"start", "waiting", "running", "joining", "joined"}
    /\ stop \in 0 .. 1 /\ initialRead \in 0 .. 2
    /\ pc \in {"off", "connect", "poll", "parse", "compact", "done"}
    /\ Len(buf) <= curBuflen /\ curBuflen \in BufLen .. MonMax
    /\ jpos \in 0 .. Len(buf) + MonMax
    /\ json \in BOOLEAN /\ up \in BOOLEAN /\ silent \in BOOLEAN
    /\ dropped \in BOOLEAN /\ skipped \in BOOLEAN
    /\ view \in [Rows -> {0} \cup Values]
    /\ rows \in [Rows -> {0} \cup Values]

\* The rows w after byte b: a message counts where it begins, and an update
\* must find its row as the server had it.
Told(w, b) ==
    LET m == b[1]
    IN  CASE b[2] = 1 /\ m.kind = "initial" ->
                [r \in Rows |-> IF r \in {p[1] : p \in ToSet(m.rows)}
                                THEN (CHOOSE p \in ToSet(m.rows) : p[1] = r)[2]
                                ELSE w[r]]
          [] b[2] = 1 /\ m.kind = "update" ->
                [w EXCEPT ![m.row] = IF @ = m.old THEN m.new ELSE -1]
          [] OTHER -> w

\* The rows after the messages that begin in s.
Replay(v, s) ==
    LET after[n \in 0 .. Len(s)] ==
            IF n = 0 THEN v ELSE Told(after[n - 1], s[n])
    IN  after[Len(s)]

Unparsed == IF pc = "poll" THEN buf ELSE Rest

\* However recv cuts the stream, the callbacks hear of every row event once
\* and in order: what they were told, and what is still in the buffer and on
\* the wire, add up to the contents of the table.  Excepted are the byte the
\* end of the loop can drop, and the rows of a reply that follow a row whose
\* callback failed.
ViewCatchesUp ==
    pc \in {"poll", "parse"} /\ ~ dropped /\ ~ skipped /\ ~ silent
        => Replay(view, Unparsed \o wire) = rows

\* srdb_monitor with sync returns after the rows of the table have been read,
\* unless the thread of the monitor has ended without them.
InitialBeforeReturn ==
    [][InitialReadDone /\ pc # "done"
          => ~ silent /\ \A b \in ToSet(Unparsed \o wire) : b[1].kind # "initial"]_vars

\* A stop is honoured and srdb_destroy returns, given that the server sends
\* something: the semaphore is only looked at when there is data.
StopIsHonoured == caller = "joining" /\ stop > 0 ~> caller = "joined"

\* After a lost byte nothing is parsed any more, but the monitor does not stay
\* in that state: the buffer fills up and the thread ends.
LostIsAborted == dropped ~> pc = "done"

-----------------------------------------------------------------------------
\* "The full buffer was processed" (comment in ovsdb_monitor) when the buffer
\* is emptied.
FullBufferProcessed ==
    [][Compact /\ json => Rest = << >>]_vars
=============================================================================
