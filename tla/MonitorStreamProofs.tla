------------------------- MODULE MonitorStreamProofs -------------------------
(***************************************************************************)
(* Proofs about a monitor of lib/srdb.c, for any table, any sizes of the   *)
(* messages and of the buffer, and any way in which recv cuts the stream.  *)
(*                                                                         *)
(* What is in the buffer and not parsed, and what is on the wire, is one   *)
(* stream: recv moves the border between the two, the loop over the buffer *)
(* takes whole messages from its front and the server appends whole        *)
(* messages to its end (FrameInv).  The messages in the stream lead from   *)
(* the rows the callbacks know of to those of the table (ViewInv).  The    *)
(* reply with the initial contents is at the front of the stream until it  *)
(* is parsed (InitialInv), and only then is the caller released.           *)
(***************************************************************************)
EXTENDS MonitorStream, SequenceTheorems, FiniteSetTheorems, WellFoundedInduction,
        TLAPS

Tables == [Rows -> {0} \cup Values]
Messages ==
    [kind : {"initial"}, rows : Seq(Rows \X Values)]
        \cup [kind : {"update"}, row : Rows, old : {0} \cup Values, new : {0} \cup Values]
        \cup [kind : {"echo", "error"}]
Chars == Messages \X Nat

\* TypeOK, with the sequences typed as such.
TypeInv ==
    /\ caller \in {"start", "waiting", "running", "joining", "joined"}
    /\ stop \in 0 .. 1 /\ initialRead \in 0 .. 2
    /\ pc \in {"off", "connect", "poll", "parse", "compact", "done"}
    /\ buf \in Seq(Chars) /\ wire \in Seq(Chars)
    /\ curBuflen \in BufLen .. MonMax /\ Len(buf) <= curBuflen
    /\ jpos \in 0 .. curBuflen
    /\ json \in BOOLEAN /\ up \in BOOLEAN /\ silent \in BOOLEAN
    /\ dropped \in BOOLEAN /\ skipped \in BOOLEAN
    /\ view \in Tables /\ rows \in Tables

\* The buffer has one of the sizes that lead to MonMax.
SizeInv ==
    \E S \in SUBSET (BufLen .. MonMax) : Doublings(S) /\ curBuflen \in S

\* Where the two threads are.
ThreadInv ==
    /\ caller = "start" <=> pc = "off"
    /\ stop > 0 => caller \in {"joining", "joined"}
    /\ pc # "done" => initialRead <= 1
    /\ pc \in {"off", "connect"} =>
          /\ buf = << >> /\ wire = << >> /\ view = Absent
          /\ initialRead = 0 /\ ~ silent /\ ~ dropped
          /\ caller \in {"start", "waiting"}
    /\ pc \in {"parse", "compact"} => jpos <= Len(buf)
    /\ pc = "compact" /\ json => jpos > 0

Reading == pc \in {"poll", "parse", "compact"}

\* What the callbacks have not been told of yet.
Stream == Unparsed \o wire

\* The initial contents have been read, or the caller would not be released.
Posted == initialRead > 0 \/ caller \notin {"start", "waiting"}
Parsed == pc \in {"parse", "compact"} /\ jpos > 0

IsInitial(b) == b[1].kind = "initial"

InitialInv ==
    Reading =>
        /\ \A i \in 1 .. Len(Stream) :
              IsInitial(Stream[i]) =>
                  /\ i <= Size["initial"] /\ IsInitial(Stream[1])
                  /\ ~ dropped /\ ~ silent /\ ~ Posted /\ ~ Parsed
        /\ Posted => ~ silent

\* A stream of whole messages: byte k of a message is k - 1 bytes behind its
\* first one.
Framed(s) ==
    \A i \in 1 .. Len(s) :
        LET m == s[i][1]
            start == i - s[i][2]
        IN  /\ start >= 0 /\ s[i][2] \in 1 .. Size[m.kind]
            /\ start + Size[m.kind] <= Len(s)
            /\ \A j \in 1 .. Size[m.kind] : s[start + j] = <<m, j>>

FrameInv == Reading /\ ~ dropped => Framed(Stream)

\* The rows after each byte of s, none of which is an update that does not
\* find its row: they lead from v to w.
Path(f, v, s, w) ==
    /\ f \in [0 .. Len(s) -> Tables]
    /\ f[0] = v /\ f[Len(s)] = w
    /\ \A i \in 1 .. Len(s) : f[i] = Told(f[i - 1], s[i])
Leads(v, s, w) == \E f \in [0 .. Len(s) -> Tables] : Path(f, v, s, w)

ViewInv ==
    Reading /\ ~ dropped /\ ~ skipped /\ ~ silent => Leads(view, Stream, rows)

IInv ==
    /\ TypeInv /\ SizeInv /\ ThreadInv
    /\ InitialInv /\ FrameInv /\ ViewInv

-----------------------------------------------------------------------------
(***************************************************************************)
(* Numbers, sequences and messages                                         *)
(***************************************************************************)
\* A nonempty set of naturals has a least element.
LEMMA LeastExists ==
    ASSUME NEW S \in SUBSET Nat, S # {}
    PROVE  \E m \in S : \A y \in S : m <= y
<1> DEFINE Less == {s \in Nat \X Nat : s[1] < s[2]}
<1>1. IsWellFoundedOn(Less, Nat)
  BY NatLessThanWellFounded DEF OpToRel
<1>2. \A m, n \in Nat : m < n => <<m, n>> \in Less
  OBVIOUS
<1> HIDE DEF Less
<1>3. PICK m \in S : \A y \in S : ~ (<<y, m>> \in Less)
  BY <1>1, WFMin, Zenon
<1>4. \A y \in S : m <= y
  <2> SUFFICES ASSUME NEW y \in S, ~ (m <= y) PROVE FALSE
    OBVIOUS
  <2>1. m \in Nat /\ y \in Nat /\ y < m
    OBVIOUS
  <2>2. <<y, m>> \in Less
    BY <1>2, <2>1
  <2> QED
    BY <1>3, <2>2
<1> QED
  BY <1>4

\* Two functions on 0 .. n that start alike and make the same steps are equal.
InStep(n, f, g) ==
    f[0] = g[0] /\ \A i \in 1 .. n : f[i - 1] = g[i - 1] => f[i] = g[i]

LEMMA SameSteps ==
    ASSUME NEW n \in Nat, NEW f, NEW g, InStep(n, f, g)
    PROVE  \A i \in 0 .. n : f[i] = g[i]
<1> DEFINE D == {i \in 0 .. n : f[i] # g[i]}
<1> SUFFICES ASSUME D # {} PROVE FALSE
  OBVIOUS
<1>0. D \in SUBSET Nat
  OBVIOUS
<1>1. PICK m \in D : \A y \in D : m <= y
  <2> HIDE DEF D
  <2> QED
    BY <1>0, LeastExists, Zenon
<1>2. m \in 1 .. n /\ f[m] # g[m]
  BY <1>1 DEF InStep
<1>3. f[m - 1] = g[m - 1]
  <2>1. m - 1 \in 0 .. n /\ ~ (m <= m - 1)
    BY <1>2
  <2> QED
    BY <1>1, <2>1
<1> QED
  BY <1>2, <1>3 DEF InStep

\* A removal from the front, and an appended sequence.
LEMMA Shifted ==
    ASSUME NEW s \in Seq(Chars), NEW n \in 0 .. Len(s)
    PROVE  LET t == SubSeq(s, n + 1, Len(s))
           IN  /\ t \in Seq(Chars) /\ Len(t) = Len(s) - n
               /\ \A i \in 1 .. Len(t) : t[i] = s[i + n]
<1>1. Len(s) \in Nat /\ \A i \in 1 .. Len(s) : s[i] \in Chars
  OBVIOUS
<1> QED
  BY <1>1, SubSeqProperties, SMTT(30)

LEMMA Joined ==
    ASSUME NEW s \in Seq(Chars), NEW t \in Seq(Chars)
    PROVE  /\ s \o t \in Seq(Chars) /\ Len(s \o t) = Len(s) + Len(t)
           /\ \A i \in 1 .. Len(s) : (s \o t)[i] = s[i]
           /\ \A i \in 1 .. Len(t) : (s \o t)[Len(s) + i] = t[i]
BY ConcatProperties

\* The kinds of messages and the bytes of one.
LEMMA SizeOf ==
    ASSUME NEW m \in Messages
    PROVE  m.kind \in Kinds /\ Size[m.kind] \in Nat \ {0}
BY StreamAssumption DEF Messages, Kinds

LEMMA BytesOf ==
    ASSUME NEW m \in Messages
    PROVE  /\ Bytes(m) \in Seq(Chars) /\ Len(Bytes(m)) = Size[m.kind]
           /\ \A i \in 1 .. Size[m.kind] : Bytes(m)[i] = <<m, i>>
<1>1. Size[m.kind] \in Nat
  BY SizeOf
<1>2. \A i \in 1 .. Size[m.kind] : <<m, i>> \in Chars
  BY DEF Chars
<1>3. Bytes(m) \in [1 .. Size[m.kind] -> Chars]
  BY <1>2 DEF Bytes
<1> QED
  BY <1>1, <1>3 DEF Bytes

\* Bytes behind the first of a message change nothing, nor do echo requests
\* and errors.
LEMMA ToldNothing ==
    ASSUME NEW w, NEW b, b[2] # 1 \/ b[1].kind \in {"echo", "error"}
    PROVE  Told(w, b) = w
BY DEF Told

LEMMA ToldUpdate ==
    ASSUME NEW w, NEW m, m.kind = "update"
    PROVE  Told(w, <<m, 1>>) = [w EXCEPT ![m.row] = IF @ = m.old THEN m.new ELSE -1]
BY DEF Told

LEMMA ToldInitial ==
    ASSUME NEW w, NEW m, m.kind = "initial"
    PROVE  Told(w, <<m, 1>>) =
              [r \in Rows |-> IF r \in {p[1] : p \in ToSet(m.rows)}
                              THEN (CHOOSE p \in ToSet(m.rows) : p[1] = r)[2]
                              ELSE w[r]]
BY DEF Told

\* Replay gives the end of a path, if there is one.
LEMMA PathIsReplay ==
    ASSUME NEW v, NEW s \in Seq(Chars), NEW w, Leads(v, s, w)
    PROVE  Replay(v, s) = w
<1> DEFINE F(h) == [n \in 0 .. Len(s) |-> IF n = 0 THEN v ELSE Told(h[n - 1], s[n])]
<1>1. PICK f \in [0 .. Len(s) -> Tables] : Path(f, v, s, w)
  BY DEF Leads
<1>2. f = F(f)
  BY <1>1 DEF Path
<1> DEFINE g == CHOOSE h : h = F(h)
<1>3. g = F(g)
  BY <1>2, Zenon
<1> HIDE DEF g
<1>4. f[0] = v /\ g[0] = v
  BY <1>1, <1>3 DEF Path
<1>5. \A i \in 1 .. Len(s) : f[i] = Told(f[i - 1], s[i]) /\ g[i] = Told(g[i - 1], s[i])
  BY <1>1, <1>3 DEF Path
<1>6. f[Len(s)] = g[Len(s)]
  <2>1. InStep(Len(s), f, g)
    BY <1>4, <1>5 DEF InStep
  <2>2. Len(s) \in Nat /\ Len(s) \in 0 .. Len(s)
    OBVIOUS
  <2>3. \A i \in 0 .. Len(s) : f[i] = g[i]
    BY <2>1, <2>2, SameSteps, Zenon
  <2> QED
    BY <2>2, <2>3
<1>7. Replay(v, s) = g[Len(s)]
  BY DEF Replay, g
<1> QED
  BY <1>1, <1>6, <1>7 DEF Path

-----------------------------------------------------------------------------
(***************************************************************************)
(* What the steps of the monitor do to the stream                          *)
(***************************************************************************)
\* What is left of the buffer.
LEMMA RestOf ==
    ASSUME TypeInv, jpos <= Len(buf)
    PROVE  /\ Rest \in Seq(Chars) /\ Len(Rest) = Len(buf) - jpos
           /\ \A i \in 1 .. Len(Rest) : Rest[i] = buf[i + jpos]
           /\ jpos = 0 => Rest = buf
<1>1. buf \in Seq(Chars) /\ jpos \in 0 .. Len(buf) /\ Len(buf) \in Nat
  BY DEF TypeInv
<1>2. jpos = 0 => Rest = buf
  BY <1>1, SubSeqFull DEF Rest
<1> QED
  BY <1>1, <1>2, Shifted DEF Rest

LEMMA StreamOf ==
    ASSUME TypeInv, ThreadInv, Reading
    PROVE  /\ Unparsed \in Seq(Chars) /\ Stream \in Seq(Chars)
           /\ Len(Stream) = Len(Unparsed) + Len(wire)
           /\ \A i \in 1 .. Len(Unparsed) : Stream[i] = Unparsed[i]
           /\ \A i \in 1 .. Len(wire) : Stream[Len(Unparsed) + i] = wire[i]
<1>1. pc = "poll" => Unparsed = buf /\ buf \in Seq(Chars)
  BY DEF TypeInv, Unparsed
<1>2. pc # "poll" => Unparsed = Rest /\ Rest \in Seq(Chars)
  BY RestOf DEF ThreadInv, Reading, Unparsed
<1>3. Unparsed \in Seq(Chars) /\ wire \in Seq(Chars)
  BY <1>1, <1>2 DEF TypeInv
<1> QED
  BY <1>3, Joined DEF Stream

\* recv moves bytes within the stream.
LEMMA RecvStream ==
    ASSUME TypeInv, ThreadInv, NEW n \in 1 .. MonMax, Recv(n)
    PROVE  /\ Stream' = Stream
           /\ buf' \in Seq(Chars) /\ wire' \in Seq(Chars)
           /\ Len(buf') = Len(buf) + n
<1> DEFINE got == SubSeq(wire, 1, n)
           left == SubSeq(wire, n + 1, Len(wire))
<1>1. /\ buf \in Seq(Chars) /\ wire \in Seq(Chars) /\ Len(wire) \in Nat
      /\ n \in 1 .. Len(wire) /\ MonMax \in Nat
  BY StreamAssumption DEF TypeInv, Recv
<1>2. got \in Seq(Chars) /\ Len(got) = n
  <2>1. \A i \in 1 .. n : wire[i] \in Chars
    BY <1>1
  <2> QED
    BY <1>1, <2>1, SubSeqProperties
<1>3. left \in Seq(Chars) /\ Len(left) = Len(wire) - n
  BY <1>1, Shifted
<1>4. got \o left = wire
  <2>1. got \o left = SubSeq(wire, 1, Len(wire))
    BY <1>1, ConcatAdjacentSubSeq
  <2> QED
    BY <1>1, <2>1, SubSeqFull
<1> HIDE DEF got, left
<1>5. buf' = buf \o got /\ wire' = left /\ jpos' = 0 /\ pc' = "parse" /\ pc = "poll"
  BY DEF Recv, got, left
<1>6. buf \o got \in Seq(Chars) /\ Len(buf \o got) = Len(buf) + n
  BY <1>1, <1>2, Joined
<1>7. Unparsed' = buf \o got
  <2>1. Unparsed' = SubSeq(buf', 0 + 1, Len(buf'))
    BY <1>5 DEF Unparsed, Rest
  <2> QED
    BY <1>5, <1>6, <2>1, SubSeqFull
<1>8. Stream' = (buf \o got) \o left
  BY <1>5, <1>7 DEF Stream
<1>9. Stream = buf \o (got \o left)
  BY <1>4, <1>5 DEF Stream, Unparsed
<1>10. (buf \o got) \o left = buf \o (got \o left)
  <2>1. \A s, t, u \in Seq(Chars) : (s \o t) \o u = s \o (t \o u)
    BY ConcatAssociative
  <2> QED
    BY <1>1, <1>2, <1>3, <2>1
<1> QED
  BY <1>2, <1>3, <1>5, <1>6, <1>8, <1>9, <1>10

\* A pass of the loop takes the message at the front of the stream.
LEMMA ParseStream ==
    ASSUME TypeInv, ThreadInv, Parse
    PROVE  LET n == Size[Next1.kind]
           IN  /\ Next1 \in Messages /\ n \in Nat \ {0}
               /\ jpos' = jpos + n /\ jpos' <= Len(buf)
               /\ Len(Stream) \in Nat /\ n <= Len(Stream)
               /\ Stream[1] = <<Next1, 1>>
               /\ Stream' = SubSeq(Stream, n + 1, Len(Stream))
<1> DEFINE n == Size[Next1.kind]
<1>1. /\ pc = "parse" /\ pc' \in {"parse", "compact"} /\ buf' = buf /\ wire' = wire
      /\ Rest # << >> /\ Head(Rest)[2] = 1 /\ Len(Rest) >= n /\ jpos' = jpos + n
  BY DEF Parse, Parses, Next1, dbVars
<1>2. /\ buf \in Seq(Chars) /\ wire \in Seq(Chars)
      /\ jpos \in 0 .. Len(buf) /\ Len(buf) \in Nat
  BY <1>1 DEF TypeInv, ThreadInv
<1>3. /\ Rest \in Seq(Chars) /\ Len(Rest) = Len(buf) - jpos
  BY <1>2, RestOf
<1>4. Head(Rest) = Rest[1] /\ Rest[1] \in Chars /\ Len(Rest) \in Nat \ {0}
  BY <1>1, <1>3
<1>5. Next1 \in Messages /\ Rest[1] = <<Next1, 1>>
  BY <1>1, <1>4 DEF Next1, Chars
<1>6. n \in Nat \ {0}
  BY <1>5, SizeOf
<1> HIDE DEF n
<1>7. Unparsed = Rest
  BY <1>1 DEF Unparsed
<1>8. /\ Stream \in Seq(Chars) /\ Len(Stream) = Len(Rest) + Len(wire)
      /\ Stream[1] = Rest[1]
  BY <1>1, <1>4, <1>7, StreamOf DEF Reading
<1>9. Len(wire) \in Nat
  BY <1>2
<1>10. Stream' = SubSeq(Stream, n + 1, Len(Stream))
  <2> DEFINE s == SubSeq(Rest, n + 1, Len(Rest))
  <2>1. Unparsed' = SubSeq(buf, jpos + n + 1, Len(buf))
    BY <1>1 DEF Unparsed, Rest
  <2>2. SubSeq(buf, jpos + n + 1, Len(buf)) = s
    <3>1. jpos + n \in 0 .. Len(buf) /\ n \in 0 .. Len(Rest)
      BY <1>1, <1>2, <1>3, <1>6
    <3> DEFINE t == SubSeq(buf, jpos + n + 1, Len(buf))
    <3>2. /\ t \in Seq(Chars) /\ Len(t) = Len(buf) - (jpos + n)
          /\ \A i \in 1 .. Len(t) : t[i] = buf[i + (jpos + n)]
      BY <1>2, <3>1, Shifted
    <3>3. /\ s \in Seq(Chars) /\ Len(s) = Len(Rest) - n
          /\ \A i \in 1 .. Len(s) : s[i] = Rest[i + n]
      BY <1>3, <3>1, Shifted
    <3>4. \A i \in 1 .. Len(Rest) : Rest[i] = buf[i + jpos]
      BY <1>2, RestOf
    <3> HIDE DEF s, t
    <3>5. Len(s) = Len(t)
      BY <1>2, <1>3, <1>6, <3>2, <3>3
    <3>6. ASSUME NEW i \in 1 .. Len(t) PROVE t[i] = s[i]
      <4>1. i + n \in 1 .. Len(Rest) /\ i + (jpos + n) = (i + n) + jpos
        BY <1>2, <1>3, <1>6, <3>1, <3>2, <3>5, <3>3
      <4> QED
        BY <3>2, <3>3, <3>4, <3>5, <4>1
    <3>7. t = s
      BY <3>2, <3>3, <3>5, <3>6, SeqEqual
    <3> QED
      BY <3>7 DEF t
  <2>3. s \in Seq(Chars) /\ Len(s) = Len(Rest) - n
        /\ \A i \in 1 .. Len(s) : s[i] = Rest[i + n]
    <3>1. n \in 0 .. Len(Rest)
      BY <1>1, <1>4, <1>6
    <3> QED
      BY <1>3, <3>1, Shifted
  <2> HIDE DEF s
  <2>4. Stream' = s \o wire
    BY <1>1, <2>1, <2>2 DEF Stream
  <2>5. Stream = Rest \o wire
    BY <1>7 DEF Stream
  <2> DEFINE u == SubSeq(Stream, n + 1, Len(Stream))
  <2>6. /\ u \in Seq(Chars) /\ Len(u) = Len(Stream) - n
        /\ \A i \in 1 .. Len(u) : u[i] = Stream[i + n]
    <3>1. n \in 0 .. Len(Stream)
      BY <1>1, <1>4, <1>6, <1>8, <1>9
    <3> QED
      BY <1>8, <3>1, Shifted
  <2>7. /\ s \o wire \in Seq(Chars) /\ Len(s \o wire) = Len(s) + Len(wire)
        /\ \A i \in 1 .. Len(s) : (s \o wire)[i] = s[i]
        /\ \A i \in 1 .. Len(wire) : (s \o wire)[Len(s) + i] = wire[i]
    BY <1>2, <2>3, Joined
  <2>8. /\ \A i \in 1 .. Len(Rest) : Stream[i] = Rest[i]
        /\ \A i \in 1 .. Len(wire) : Stream[Len(Rest) + i] = wire[i]
    BY <1>2, <1>3, <2>5, Joined
  <2> HIDE DEF u
  <2>9. Len(u) = Len(s \o wire)
    BY <1>4, <1>6, <1>8, <1>9, <2>3, <2>6, <2>7
  <2>10. ASSUME NEW i \in 1 .. Len(u) PROVE u[i] = (s \o wire)[i]
    <3>1. CASE i <= Len(s)
      <4>1. i \in 1 .. Len(s) /\ i + n \in 1 .. Len(Rest)
        BY <1>4, <1>6, <2>3, <3>1
      <4> QED
        BY <2>3, <2>6, <2>7, <2>8, <4>1
    <3>2. CASE i > Len(s)
      <4> DEFINE j == i - Len(s)
      <4>1. /\ j \in 1 .. Len(wire) /\ i = Len(s) + j /\ i + n = Len(Rest) + j
        BY <1>1, <1>4, <1>6, <1>9, <2>3, <2>7, <2>9, <3>2
      <4> HIDE DEF j
      <4> QED
        BY <2>6, <2>7, <2>8, <4>1
    <3>3. i <= Len(s) \/ i > Len(s)
      BY <2>3
    <3> QED
      BY <3>1, <3>2, <3>3, Zenon
  <2>11. u = s \o wire
    BY <2>6, <2>7, <2>9, <2>10, SeqEqual
  <2> QED
    BY <2>4, <2>11 DEF u
<1>11. jpos + n <= Len(buf) /\ Len(Stream) \in Nat /\ n <= Len(Stream)
  BY <1>1, <1>2, <1>3, <1>4, <1>6, <1>8, <1>9
<1>12. Stream[1] = <<Next1, 1>>
  BY <1>5, <1>8
<1> QED
  BY <1>1, <1>5, <1>6, <1>10, <1>11, <1>12 DEF n

\* The server appends a message to the stream.
LEMMA SendStream ==
    ASSUME TypeInv, ThreadInv, NEW m \in Messages, Send(m),
           UNCHANGED <<pc, buf, jpos>>
    PROVE  /\ Reading /\ Reading' /\ wire' \in Seq(Chars)
           /\ Stream' = Stream \o Bytes(m)
<1>1. wire' = wire \o Bytes(m) /\ Unparsed' = Unparsed /\ Reading /\ Reading'
  BY DEF Send, Listening, Unparsed, Rest, Reading
<1>2. wire \in Seq(Chars) /\ Bytes(m) \in Seq(Chars) /\ Unparsed \in Seq(Chars)
  BY <1>1, BytesOf, StreamOf DEF TypeInv
<1>3. wire \o Bytes(m) \in Seq(Chars)
  BY <1>2, Joined
<1>4. \A s, t, u \in Seq(Chars) : (s \o t) \o u = s \o (t \o u)
  BY ConcatAssociative
<1>5. Stream' = Unparsed \o (wire \o Bytes(m)) /\ Stream = Unparsed \o wire
  BY <1>1 DEF Stream
<1> QED
  BY <1>1, <1>2, <1>3, <1>4, <1>5

\* What is left is moved to the front of the buffer, or dropped.
LEMMA CompactStream ==
    ASSUME TypeInv, ThreadInv, Compact
    PROVE  /\ Left \in Seq(Chars) /\ buf' = Left /\ Len(Left) <= Len(buf)
           /\ wire' = wire /\ pc' \in {"poll", "done"}
           /\ pc' = "poll" => \/ Stream' = Stream /\ dropped' = dropped
                              \/ /\ dropped' /\ Parsed
                                 /\ Len(Stream') <= Len(Stream)
                                 /\ Stream' = SubSeq(Stream, Len(Rest) + 1, Len(Stream))
<1>1. /\ pc = "compact" /\ buf' = Left /\ wire' = wire
      /\ dropped' = (dropped \/ (json /\ Rest # << >>)) /\ pc' \in {"poll", "done"}
  BY DEF Compact, Exit, dbVars
<1>2. /\ buf \in Seq(Chars) /\ wire \in Seq(Chars) /\ Len(buf) \in Nat
      /\ jpos \in 0 .. Len(buf) /\ Len(wire) \in Nat
  BY <1>1 DEF TypeInv, ThreadInv
<1>3. /\ Rest \in Seq(Chars) /\ Len(Rest) = Len(buf) - jpos
  BY <1>2, RestOf
<1>4. Left \in Seq(Chars) /\ Len(Left) <= Len(buf) /\ Len(Rest) \in Nat
  BY <1>2, <1>3 DEF Left
<1>5. Unparsed = Rest /\ Stream = Rest \o wire
  BY <1>1 DEF Unparsed, Stream
<1>6. ASSUME pc' = "poll"
      PROVE  \/ Stream' = Stream /\ dropped' = dropped
             \/ /\ dropped' /\ Parsed
                /\ Len(Stream') <= Len(Stream)
                /\ Stream' = SubSeq(Stream, Len(Rest) + 1, Len(Stream))
  <2>1. Stream' = Left \o wire
    BY <1>1, <1>6 DEF Stream, Unparsed
  <2>2. CASE ~ json \/ Rest = << >>
    <3>1. Left = Rest
      BY <2>2 DEF Left
    <3>2. dropped' = dropped
      BY <1>1, <2>2 DEF TypeInv
    <3> QED
      BY <1>5, <2>1, <3>1, <3>2
  <2>3. CASE json /\ Rest # << >>
    <3>1. Left = << >> /\ dropped' /\ Parsed
      BY <1>1, <2>3 DEF Left, Parsed, ThreadInv
    <3>2. Stream' = wire
      BY <1>2, <2>1, <3>1, ConcatEmptySeq
    <3> DEFINE u == SubSeq(Stream, Len(Rest) + 1, Len(Stream))
    <3>3. /\ Stream \in Seq(Chars) /\ Len(Stream) = Len(Rest) + Len(wire)
          /\ \A i \in 1 .. Len(wire) : Stream[Len(Rest) + i] = wire[i]
      BY <1>2, <1>3, <1>5, Joined
    <3>4. Len(Rest) \in 0 .. Len(Stream) /\ Len(Stream) \in Nat
      BY <1>2, <1>4, <3>3
    <3>5. /\ u \in Seq(Chars) /\ Len(u) = Len(Stream) - Len(Rest)
          /\ \A i \in 1 .. Len(u) : u[i] = Stream[i + Len(Rest)]
      BY <3>3, <3>4, Shifted
    <3> HIDE DEF u
    <3>6. Len(u) = Len(wire)
      BY <1>2, <1>4, <3>3, <3>5
    <3>7. \A i \in 1 .. Len(u) : u[i] = wire[i]
      BY <1>2, <1>4, <3>3, <3>5, <3>6
    <3>8. u = wire
      BY <1>2, <3>5, <3>6, <3>7, SeqEqual
    <3>9. Len(Stream') <= Len(Stream)
      BY <1>2, <1>4, <3>2, <3>3
    <3> QED
      BY <3>1, <3>2, <3>8, <3>9 DEF u
  <2> QED
    BY <2>2, <2>3 DEF TypeInv
<1> QED
  BY <1>1, <1>4, <1>6

\* The server answers the request of a new monitor, and its buffer is empty.
LEMMA ConnectStream ==
    ASSUME TypeInv, ThreadInv, Connect
    PROVE  \E m \in Messages :
              /\ Stream' = Bytes(m) /\ wire' = Bytes(m)
              /\ \/ /\ m.kind = "error" /\ silent'
                 \/ /\ m.kind = "initial" /\ silent' = silent
                    /\ \A p \in ToSet(m.rows) : p = <<p[1], rows[p[1]]>> /\ p[1] \in Rows
                    /\ \A r \in Rows : rows[r] # 0 => <<r, rows[r]>> \in ToSet(m.rows)
<1>1. /\ buf = << >> /\ buf' = << >> /\ pc' = "poll"
  BY DEF Connect, ThreadInv
<1>2. ASSUME NEW m \in Messages, wire' = Bytes(m) PROVE Stream' = Bytes(m)
  BY <1>1, <1>2, BytesOf, ConcatEmptySeq DEF Stream, Unparsed
<1>3. CASE wire' = Bytes([kind |-> "error"]) /\ silent' = TRUE
  <2>1. [kind |-> "error"] \in Messages
    BY DEF Messages
  <2> QED
    BY <1>2, <1>3, <2>1
<1>4. ASSUME NEW s \in SetToSeqs({r \in Rows : rows[r] # 0}), UNCHANGED silent,
             wire' = Bytes([kind |-> "initial",
                            rows |-> [i \in DOMAIN s |-> <<s[i], rows[s[i]]>>]])
      PROVE  \E m \in Messages :
              /\ Stream' = Bytes(m) /\ wire' = Bytes(m)
              /\ m.kind = "initial" /\ silent' = silent
              /\ \A p \in ToSet(m.rows) : p = <<p[1], rows[p[1]]>> /\ p[1] \in Rows
              /\ \A r \in Rows : rows[r] # 0 => <<r, rows[r]>> \in ToSet(m.rows)
  <2> DEFINE present == {r \in Rows : rows[r] # 0}
             told == [i \in DOMAIN s |-> <<s[i], rows[s[i]]>>]
             m == [kind |-> "initial", rows |-> told]
             n == Cardinality(present)
  <2>1. IsFiniteSet(present)
    BY StreamAssumption, FS_Subset
  <2>2. n \in Nat
    BY <2>1, FS_CardinalityType
  <2>3. s \in [1 .. n -> present] /\ \A i, j \in 1 .. n : i # j => s[i] # s[j]
    BY DEF SetToSeqs
  <2>4. s \in Injection(1 .. n, present)
    BY <2>3 DEF Injection, IsInjective
  <2>5. Cardinality(1 .. n) = Cardinality(present)
    BY <2>2, FS_Interval
  <2>6. \A r \in present : \E i \in 1 .. n : s[i] = r
    <3> HIDE DEF present
    <3>1. s \in Surjection(1 .. n, present)
      BY <2>1, <2>4, <2>5, FS_Injection
    <3> QED
      BY <3>1 DEF Surjection
  <2>7. rows \in Tables /\ \A r \in present : rows[r] \in Values
    BY DEF TypeInv, Tables
  <2> HIDE DEF n
  <2>8. told = [i \in 1 .. n |-> <<s[i], rows[s[i]]>>]
    BY <2>3
  <2>9. told \in [1 .. n -> Rows \X Values]
    BY <2>3, <2>7, <2>8
  <2>10. told \in Seq(Rows \X Values)
    BY <2>2, <2>9
  <2>11. m \in Messages
    BY <2>10 DEF Messages
  <2>12. m.kind = "initial" /\ m.rows = told
    OBVIOUS
  <2>13. ToSet(told) = {<<s[i], rows[s[i]]>> : i \in 1 .. n}
    BY <2>8 DEF ToSet
  <2>14. \A p \in ToSet(told) : p = <<p[1], rows[p[1]]>> /\ p[1] \in Rows
    BY <2>3, <2>13
  <2>15. \A r \in Rows : rows[r] # 0 => <<r, rows[r]>> \in ToSet(told)
    BY <2>6, <2>13
  <2>16. wire' = Bytes(m)
    BY <1>4
  <2> HIDE DEF told, m
  <2> QED
    BY <1>2, <1>4, <2>11, <2>12, <2>14, <2>15, <2>16
<1> QED
  BY <1>3, <1>4 DEF Connect

-----------------------------------------------------------------------------
(***************************************************************************)
(* The steps that leave the stream alone                                   *)
(***************************************************************************)
\* The thread that uses the monitor, and the end of the connection.
LEMMA UserStep ==
    ASSUME IInv,
           Monitor \/ InitialReadDone \/ Destroy \/ JoinAll \/ Join \/ Close
              \/ UNCHANGED vars
    PROVE  IInv'
<1>1. UNCHANGED <<buf, curBuflen, jpos, json, view, rows, wire, silent, dropped, skipped>>
  BY DEF Monitor, InitialReadDone, Destroy, JoinAll, Join, Close, vars, userVars,
         readVars, dbVars, histVars
<1>2. (pc = "off" /\ pc' = "connect") \/ pc' = pc
  BY DEF Monitor, InitialReadDone, Destroy, JoinAll, Join, Close, vars, userVars,
         readVars, dbVars, histVars, IInv, ThreadInv
<1>3. TypeInv'
  <2>1. /\ caller' \in {"start", "waiting", "running", "joining", "joined"}
        /\ pc' \in {"off", "connect", "poll", "parse", "compact", "done"}
        /\ up' \in BOOLEAN
    BY <1>2 DEF Monitor, InitialReadDone, Destroy, JoinAll, Join, Close, vars, userVars,
         readVars, dbVars, histVars, IInv, TypeInv
  <2>2. stop' \in 0 .. 1 /\ initialRead' \in 0 .. 2
    BY DEF Monitor, InitialReadDone, Destroy, JoinAll, Join, Close, vars, userVars,
         readVars, dbVars, histVars, IInv, TypeInv, ThreadInv
  <2> QED
    BY <1>1, <2>1, <2>2 DEF IInv, TypeInv
<1>4. SizeInv'
  BY <1>1 DEF IInv, SizeInv
<1>5. ThreadInv'
  BY <1>1 DEF Monitor, InitialReadDone, Destroy, JoinAll, Join, Close, vars, userVars,
         readVars, dbVars, histVars, IInv, TypeInv, ThreadInv
<1>6. Reading' => Reading /\ Stream' = Stream /\ pc' = pc /\ Parsed' = Parsed
  BY <1>1, <1>2 DEF Reading, Stream, Unparsed, Rest, Parsed
<1>7. Posted' => Posted
  BY DEF Monitor, InitialReadDone, Destroy, JoinAll, Join, Close, vars, userVars,
         readVars, dbVars, histVars, IInv, TypeInv, Posted
<1>8. InitialInv'
  BY <1>1, <1>6, <1>7 DEF IInv, InitialInv, IsInitial
<1>9. FrameInv' /\ ViewInv'
  BY <1>1, <1>6 DEF IInv, FrameInv, ViewInv
<1> QED
  BY <1>3, <1>4, <1>5, <1>8, <1>9 DEF IInv

\* The thread ends.
LEMMA EndStep ==
    ASSUME IInv, ConnectFails \/ Stopped \/ RecvNothing
    PROVE  IInv'
<1>1. /\ UNCHANGED <<buf, curBuflen, jpos, json, view, rows, wire, up, silent,
                     dropped, skipped, caller>>
      /\ pc # "done" /\ pc' = "done" /\ initialRead' = initialRead + 1
      /\ stop' = stop \/ (stop > 0 /\ stop' = stop - 1)
      /\ pc # "off"
  BY DEF ConnectFails, Stopped, RecvNothing, Exit, dbVars, histVars
<1>2. TypeInv'
  BY <1>1 DEF IInv, TypeInv, ThreadInv
<1>3. SizeInv' /\ ThreadInv'
  BY <1>1 DEF IInv, SizeInv, ThreadInv, TypeInv
<1> QED
  BY <1>1, <1>2, <1>3 DEF IInv, InitialInv, FrameInv, ViewInv, Reading

LEMMA ParseFailsStep == ASSUME IInv, ParseFails PROVE IInv'
<1>1. /\ UNCHANGED <<caller, stop, initialRead, buf, curBuflen, jpos, view, rows, wire,
                     up, silent, dropped, skipped>>
      /\ pc = "parse" /\ pc' = "compact" /\ json' = FALSE
  BY DEF ParseFails, userVars, dbVars, histVars
<1>2. TypeInv' /\ SizeInv' /\ ThreadInv'
  BY <1>1 DEF IInv, TypeInv, SizeInv, ThreadInv
<1>3. Stream' = Stream /\ Posted' = Posted /\ Parsed' = Parsed /\ Reading
  BY <1>1 DEF Stream, Unparsed, Rest, Posted, Parsed, Reading
<1>4. InitialInv'
  BY <1>1, <1>3 DEF IInv, InitialInv, IsInitial
<1> QED
  BY <1>1, <1>2, <1>3, <1>4 DEF IInv, FrameInv, ViewInv

LEMMA RecvStep == ASSUME IInv, NEW n \in 1 .. MonMax, Recv(n) PROVE IInv'
<1>1. /\ UNCHANGED <<caller, stop, initialRead, curBuflen, json, view, rows,
                     up, silent, dropped, skipped>>
      /\ pc = "poll" /\ pc' = "parse" /\ jpos' = 0 /\ n <= curBuflen - Len(buf)
  BY DEF Recv, userVars, histVars
<1>2. /\ Stream' = Stream /\ buf' \in Seq(Chars) /\ wire' \in Seq(Chars)
      /\ Len(buf') = Len(buf) + n
  BY RecvStream DEF IInv
<1>3. TypeInv'
  <2>1. Len(buf) \in Nat /\ curBuflen \in Nat /\ n \in Nat
    BY StreamAssumption DEF IInv, TypeInv
  <2>2. Len(buf') <= curBuflen
    BY <1>1, <1>2, <2>1
  <2> QED
    BY <1>1, <1>2, <2>1, <2>2 DEF IInv, TypeInv
<1>4. SizeInv'
  BY <1>1 DEF IInv, SizeInv
<1>5. ThreadInv'
  <2>1. Len(buf') \in Nat
    BY <1>2
  <2> QED
    BY <1>1, <2>1 DEF IInv, ThreadInv
<1>6. Reading /\ Posted' = Posted /\ ~ Parsed'
  BY <1>1 DEF Reading, Posted, Parsed
<1>7. InitialInv'
  BY <1>1, <1>2, <1>6 DEF IInv, InitialInv, IsInitial
<1>8. FrameInv' /\ ViewInv'
  BY <1>1, <1>2, <1>6 DEF IInv, FrameInv, ViewInv
<1> QED
  BY <1>3, <1>4, <1>5, <1>7, <1>8 DEF IInv

-----------------------------------------------------------------------------
(***************************************************************************)
(* Whole messages at both ends of the stream                               *)
(***************************************************************************)
LEMMA FramedTail ==
    ASSUME NEW s \in Seq(Chars), Framed(s), NEW m \in Messages, Len(s) > 0,
           s[1] = <<m, 1>>
    PROVE  LET n == Size[m.kind]
           IN  /\ n <= Len(s) /\ \A j \in 1 .. n : s[j] = <<m, j>>
               /\ Framed(SubSeq(s, n + 1, Len(s)))
<1> DEFINE n == Size[m.kind]
           t == SubSeq(s, n + 1, Len(s))
<1>1. n \in Nat \ {0} /\ Len(s) \in Nat \ {0}
  BY SizeOf
<1>2. n <= Len(s) /\ \A j \in 1 .. n : s[j] = <<m, j>>
  <2>1. 1 \in 1 .. Len(s) /\ s[1][1] = m /\ 1 - s[1][2] = 0
    BY <1>1
  <2>2. 0 + n <= Len(s) /\ \A j \in 1 .. n : s[0 + j] = <<m, j>>
    BY <2>1, Zenon DEF Framed
  <2> QED
    BY <1>1, <2>2
<1>3. t \in Seq(Chars) /\ Len(t) = Len(s) - n /\ \A i \in 1 .. Len(t) : t[i] = s[i + n]
  <2>1. n \in 0 .. Len(s)
    BY <1>1, <1>2
  <2> QED
    BY <2>1, Shifted
<1> HIDE DEF n, t
<1>4. ASSUME NEW i \in 1 .. Len(t)
      PROVE  LET x == t[i][1]
                 start == i - t[i][2]
             IN  /\ start >= 0 /\ t[i][2] \in 1 .. Size[x.kind]
                 /\ start + Size[x.kind] <= Len(t)
                 /\ \A j \in 1 .. Size[x.kind] : t[start + j] = <<x, j>>
  <2>1. PICK q \in 1 .. Len(s) : q = i + n /\ t[i] = s[q]
    BY <1>1, <1>3
  <2> DEFINE x == s[q][1]
             k == s[q][2]
             start == q - k
  <2>2. /\ start >= 0 /\ k \in 1 .. Size[x.kind]
        /\ start + Size[x.kind] <= Len(s)
        /\ \A j \in 1 .. Size[x.kind] : s[start + j] = <<x, j>>
    BY Zenon DEF Framed
  <2>3. s[q] \in Chars
    BY <2>1
  <2>4. x \in Messages /\ Size[x.kind] \in Nat \ {0} /\ k \in Nat
    BY <2>2, <2>3, SizeOf DEF Chars
  <2> HIDE DEF x, k
  <2>5. start >= n
    <3> SUFFICES ASSUME start < n PROVE FALSE
      BY <1>1, <2>4
    <3>1. start + 1 \in 1 .. n /\ 1 \in 1 .. Size[x.kind]
      BY <1>1, <2>2, <2>4
    <3> HIDE DEF start
    <3>2. s[start + 1] = <<m, start + 1>> /\ s[start + 1] = <<x, 1>>
      BY <1>2, <2>2, <3>1
    <3>3. x = m /\ start + 1 = 1
      BY <3>2
    <3> QED
      BY <1>1, <2>1, <2>2, <2>4, <3>3 DEF start, n
  <2>6. i - k >= 0 /\ (i - k) + Size[x.kind] <= Len(t)
    BY <1>1, <1>3, <2>1, <2>2, <2>4, <2>5
  <2>7. ASSUME NEW j \in 1 .. Size[x.kind] PROVE t[(i - k) + j] = <<x, j>>
    <3>1. (i - k) + j \in 1 .. Len(t) /\ (i - k) + j + n = start + j
      BY <1>1, <1>3, <2>1, <2>4, <2>6
    <3>2. t[(i - k) + j] = s[start + j]
      BY <1>3, <3>1
    <3> QED
      BY <2>2, <3>2
  <2>8. t[i][1] = x /\ t[i][2] = k
    BY <2>1 DEF x, k
  <2> QED
    BY <2>2, <2>6, <2>7, <2>8
<1>5. Framed(t)
  BY <1>4, Zenon DEF Framed
<1> QED
  BY <1>2, <1>5 DEF n, t

LEMMA FramedAppend ==
    ASSUME NEW s \in Seq(Chars), Framed(s), NEW m \in Messages
    PROVE  Framed(s \o Bytes(m))
<1> DEFINE n == Size[m.kind]
           t == s \o Bytes(m)
<1>1. n \in Nat \ {0} /\ Len(s) \in Nat
  BY SizeOf
<1>2. /\ Len(t) = Len(s) + n
      /\ \A i \in 1 .. Len(s) : t[i] = s[i]
      /\ \A i \in 1 .. n : t[Len(s) + i] = <<m, i>>
  <2>1. /\ Bytes(m) \in Seq(Chars) /\ Len(Bytes(m)) = n
        /\ \A i \in 1 .. n : Bytes(m)[i] = <<m, i>>
    BY BytesOf
  <2> QED
    BY <2>1, Joined
<1> HIDE DEF t
<1>3. ASSUME NEW i \in 1 .. Len(t)
      PROVE  LET x == t[i][1]
                 start == i - t[i][2]
             IN  /\ start >= 0 /\ t[i][2] \in 1 .. Size[x.kind]
                 /\ start + Size[x.kind] <= Len(t)
                 /\ \A j \in 1 .. Size[x.kind] : t[start + j] = <<x, j>>
  <2>1. CASE i <= Len(s)
    <3> DEFINE x == s[i][1]
               k == s[i][2]
    <3>1. i \in 1 .. Len(s) /\ t[i] = s[i]
      BY <1>1, <1>2, <2>1
    <3>2. /\ i - k >= 0 /\ k \in 1 .. Size[x.kind]
          /\ (i - k) + Size[x.kind] <= Len(s)
          /\ \A j \in 1 .. Size[x.kind] : s[(i - k) + j] = <<x, j>>
      BY <3>1, Zenon DEF Framed
    <3>3. x \in Messages /\ Size[x.kind] \in Nat \ {0} /\ k \in Nat
      <4>1. s[i] \in Chars
        BY <3>1
      <4> QED
        BY <3>2, <4>1, SizeOf DEF Chars
    <3>4. t[i][1] = x /\ t[i][2] = k
      BY <3>1
    <3> HIDE DEF x, k
    <3>5. (i - k) + Size[x.kind] <= Len(t)
      BY <1>1, <1>2, <3>2, <3>3
    <3>6. ASSUME NEW j \in 1 .. Size[x.kind] PROVE t[(i - k) + j] = <<x, j>>
      <4>1. (i - k) + j \in 1 .. Len(s)
        BY <1>1, <3>2, <3>3
      <4> QED
        BY <1>2, <3>2, <4>1
    <3> QED
      BY <3>2, <3>4, <3>5, <3>6
  <2>2. CASE i > Len(s)
    <3>1. PICK k \in 1 .. n : i = Len(s) + k
      <4>1. i - Len(s) \in 1 .. n /\ i = Len(s) + (i - Len(s))
        BY <1>1, <1>2, <2>2
      <4> QED
        BY <4>1
    <3>2. t[i][1] = m /\ t[i][2] = k /\ i - k = Len(s)
      BY <1>1, <1>2, <3>1
    <3> QED
      BY <1>1, <1>2, <3>1, <3>2
  <2>3. i <= Len(s) \/ i > Len(s)
    BY <1>1
  <2> QED
    BY <2>1, <2>2, <2>3, Zenon
<1>4. Framed(t)
  BY <1>3, Zenon DEF Framed
<1> QED
  BY <1>4 DEF t

\* A message at the front is the first step of the path.
LEMMA LeadsTail ==
    ASSUME NEW v, NEW w, NEW s \in Seq(Chars), Leads(v, s, w),
           NEW m \in Messages, Len(s) > 0, Size[m.kind] <= Len(s),
           \A j \in 1 .. Size[m.kind] : s[j] = <<m, j>>
    PROVE  LET n == Size[m.kind]
           IN  /\ Told(v, <<m, 1>>) \in Tables
               /\ Leads(Told(v, <<m, 1>>), SubSeq(s, n + 1, Len(s)), w)
<1> DEFINE n == Size[m.kind]
           t == SubSeq(s, n + 1, Len(s))
<1>1. PICK f \in [0 .. Len(s) -> Tables] : Path(f, v, s, w)
  BY DEF Leads
<1>2. n \in Nat \ {0} /\ Len(s) \in Nat /\ n \in 0 .. Len(s)
  BY SizeOf
<1>3. t \in Seq(Chars) /\ Len(t) = Len(s) - n /\ \A i \in 1 .. Len(t) : t[i] = s[i + n]
  BY <1>2, Shifted
<1> HIDE DEF n, t
<1>4. f[1] = Told(v, <<m, 1>>) /\ f[1] \in Tables
  <2>1. 1 \in 1 .. n /\ 1 \in 1 .. Len(s) /\ 1 \in 0 .. Len(s)
    BY <1>2
  <2>2. s[1] = <<m, 1>>
    BY <2>1 DEF n
  <2>3. f[1] = Told(f[1 - 1], s[1]) /\ f[1 - 1] = v
    BY <1>1, <2>1 DEF Path
  <2> QED
    BY <1>1, <2>1, <2>2, <2>3 DEF Path
<1>5. f[n] = f[1]
  <2> DEFINE g == [i \in 0 .. n - 1 |-> f[i + 1]]
             h == [i \in 0 .. n - 1 |-> f[1]]
  <2>1. g[0] = h[0]
    BY <1>2
  <2>2. ASSUME NEW i \in 1 .. n - 1, g[i - 1] = h[i - 1] PROVE g[i] = h[i]
    <3>1. i + 1 \in 1 .. n /\ i + 1 \in 1 .. Len(s) /\ (i + 1) - 1 = i /\ i + 1 # 1
      BY <1>2
    <3>2. f[i + 1] = Told(f[i], s[i + 1])
      BY <1>1, <3>1 DEF Path
    <3>3. s[i + 1] = <<m, i + 1>>
      BY <3>1 DEF n
    <3>4. s[i + 1][2] # 1
      BY <3>1, <3>3
    <3>5. f[i + 1] = f[i]
      BY <3>2, <3>4, ToldNothing
    <3>6. f[i] = f[1]
      <4>1. i - 1 \in 0 .. n - 1 /\ (i - 1) + 1 = i
        BY <1>2
      <4> QED
        BY <2>2, <4>1
    <3>7. i \in 0 .. n - 1
      BY <1>2
    <3> QED
      BY <3>5, <3>6, <3>7
  <2>3. n - 1 \in Nat /\ n - 1 \in 0 .. n - 1
    BY <1>2
  <2>4. g[n - 1] = f[(n - 1) + 1] /\ h[n - 1] = f[1] /\ (n - 1) + 1 = n
    BY <1>2
  <2> HIDE DEF g, h
  <2>5. InStep(n - 1, g, h)
    BY <2>1, <2>2 DEF InStep
  <2>6. \A i \in 0 .. n - 1 : g[i] = h[i]
    BY <2>3, <2>5, SameSteps
  <2> QED
    BY <2>3, <2>4, <2>6
<1>6. Leads(f[n], t, w)
  <2> DEFINE g == [i \in 0 .. Len(t) |-> f[i + n]]
  <2>1. g \in [0 .. Len(t) -> Tables]
    BY <1>1, <1>2, <1>3
  <2>2. g[0] = f[n] /\ g[Len(t)] = w
    BY <1>1, <1>2, <1>3 DEF Path
  <2>3. ASSUME NEW i \in 1 .. Len(t) PROVE g[i] = Told(g[i - 1], t[i])
    <3>1. /\ i + n \in 1 .. Len(s) /\ (i + n) - 1 = (i - 1) + n
          /\ i \in 0 .. Len(t) /\ i - 1 \in 0 .. Len(t)
      BY <1>2, <1>3
    <3>2. f[i + n] = Told(f[(i + n) - 1], s[i + n])
      BY <1>1, <3>1 DEF Path
    <3>3. g[i] = f[i + n] /\ g[i - 1] = f[(i - 1) + n] /\ t[i] = s[i + n]
      BY <1>3, <3>1
    <3> QED
      BY <3>1, <3>2, <3>3
  <2> HIDE DEF g
  <2>4. Path(g, f[n], t, w)
    BY <2>1, <2>2, <2>3 DEF Path
  <2> QED
    BY <2>1, <2>4 DEF Leads
<1> QED
  BY <1>4, <1>5, <1>6 DEF n, t

\* A message at the end is the last step of the path.
LEMMA LeadsAppend ==
    ASSUME NEW v, NEW w, NEW s \in Seq(Chars), Leads(v, s, w), NEW m \in Messages,
           Told(w, <<m, 1>>) \in Tables
    PROVE  Leads(v, s \o Bytes(m), Told(w, <<m, 1>>))
<1> DEFINE n == Size[m.kind]
           t == s \o Bytes(m)
           x == Told(w, <<m, 1>>)
<1>1. PICK f \in [0 .. Len(s) -> Tables] : Path(f, v, s, w)
  BY DEF Leads
<1>2. n \in Nat \ {0} /\ Len(s) \in Nat
  BY SizeOf
<1>3. /\ Len(t) = Len(s) + n
      /\ \A i \in 1 .. Len(s) : t[i] = s[i]
      /\ \A i \in 1 .. n : t[Len(s) + i] = <<m, i>>
  <2>1. /\ Bytes(m) \in Seq(Chars) /\ Len(Bytes(m)) = n
        /\ \A i \in 1 .. n : Bytes(m)[i] = <<m, i>>
    BY BytesOf
  <2> QED
    BY <2>1, Joined
<1> HIDE DEF n, t, x
<1> DEFINE g == [i \in 0 .. Len(t) |-> IF i <= Len(s) THEN f[i] ELSE x]
<1>4. g \in [0 .. Len(t) -> Tables]
  BY <1>1, <1>2, <1>3 DEF x
<1>5. g[0] = v /\ g[Len(t)] = x
  BY <1>1, <1>2, <1>3 DEF Path
<1>6. ASSUME NEW i \in 1 .. Len(t) PROVE g[i] = Told(g[i - 1], t[i])
  <2>1. i \in 0 .. Len(t) /\ i - 1 \in 0 .. Len(t)
    BY <1>2, <1>3
  <2>2. CASE i <= Len(s)
    <3>1. i \in 1 .. Len(s) /\ g[i] = f[i] /\ g[i - 1] = f[i - 1] /\ t[i] = s[i]
      BY <1>2, <1>3, <2>1, <2>2
    <3> QED
      BY <1>1, <3>1 DEF Path
  <2>3. CASE i > Len(s)
    <3>1. PICK k \in 1 .. n : i = Len(s) + k
      <4>1. i - Len(s) \in 1 .. n /\ i = Len(s) + (i - Len(s))
        BY <1>2, <1>3, <2>3
      <4> QED
        BY <4>1
    <3>2. t[i] = <<m, k>> /\ g[i] = x
      BY <1>2, <1>3, <2>1, <2>3, <3>1
    <3>3. CASE k = 1
      <4>1. i - 1 = Len(s)
        BY <1>2, <3>1, <3>3
      <4>2. g[i - 1] = w
        BY <1>1, <2>1, <4>1 DEF Path
      <4> QED
        BY <3>2, <3>3, <4>2 DEF x
    <3>4. CASE k # 1
      <4>1. g[i - 1] = x
        BY <1>2, <2>1, <3>1, <3>4
      <4>2. t[i][2] # 1
        BY <3>2, <3>4
      <4> QED
        BY <3>2, <4>1, <4>2, ToldNothing
    <3> QED
      BY <3>3, <3>4
  <2>4. i <= Len(s) \/ i > Len(s)
    BY <1>2
  <2> QED
    BY <2>2, <2>3, <2>4, Zenon
<1> HIDE DEF g
<1>7. Path(g, v, t, x)
  BY <1>4, <1>5, <1>6 DEF Path
<1> QED
  BY <1>4, <1>7 DEF Leads, t, x

-----------------------------------------------------------------------------
(***************************************************************************)
(* The steps that change the stream                                        *)
(***************************************************************************)
\* The callbacks hear what Told says of the message, if none refused a row and
\* every update finds its row.
LEMMA Handled ==
    ASSUME TypeInv, NEW m \in Messages, Handle(m)
    PROVE  /\ view' \in Tables /\ skipped' \in BOOLEAN
           /\ skipped => skipped'
           /\ ~ skipped' /\ Told(view, <<m, 1>>) \in Tables
                 => view' = Told(view, <<m, 1>>)
<1>1. view \in Tables
  BY DEF TypeInv
<1>2. skipped' \in BOOLEAN /\ (skipped => skipped')
  BY DEF Handle, TypeInv
<1>3. CASE m.kind = "initial"
  <2>1. m.rows \in Seq(Rows \X Values)
    BY <1>3 DEF Messages
  <2>2. Reported(m.rows) \subseteq Rows \X Values
    BY <2>1 DEF Reported
  <2>3. view' = [r \in Rows |-> IF r \in {p[1] : p \in Reported(m.rows)}
                                THEN (CHOOSE p \in Reported(m.rows) : p[1] = r)[2]
                                ELSE view[r]]
    BY <1>3 DEF Handle
  <2>4. ASSUME NEW r \in Rows PROVE view'[r] \in {0} \cup Values
    <3>1. CASE r \in {p[1] : p \in Reported(m.rows)}
      <4> DEFINE q == CHOOSE p \in Reported(m.rows) : p[1] = r
      <4>1. q \in Reported(m.rows)
        BY <3>1
      <4>2. view'[r] = q[2]
        BY <2>3, <3>1
      <4> QED
        BY <2>2, <4>1, <4>2
    <3>2. CASE r \notin {p[1] : p \in Reported(m.rows)}
      BY <1>1, <2>3, <3>2 DEF Tables
    <3> QED
      BY <3>1, <3>2
  <2>5. view' \in Tables
    BY <2>3, <2>4 DEF Tables
  <2>6. ASSUME ~ skipped' PROVE view' = Told(view, <<m, 1>>)
    <3>1. Reported(m.rows) = ToSet(m.rows)
      BY <1>3, <2>6 DEF Handle
    <3> QED
      BY <1>3, <2>3, <3>1, ToldInitial
  <2> QED
    BY <1>2, <2>5, <2>6
<1>4. CASE m.kind = "update"
  <2>1. m.row \in Rows /\ m.new \in {0} \cup Values
    BY <1>4 DEF Messages
  <2>2. view' = [view EXCEPT ![m.row] = m.new]
    BY <1>4 DEF Handle
  <2>3. view' \in Tables
    BY <1>1, <2>1, <2>2 DEF Tables
  <2>4. ASSUME Told(view, <<m, 1>>) \in Tables PROVE view' = Told(view, <<m, 1>>)
    <3>1. Told(view, <<m, 1>>)
             = [view EXCEPT ![m.row] = IF view[m.row] = m.old THEN m.new ELSE -1]
      BY <1>4, ToldUpdate
    <3>2. Told(view, <<m, 1>>)[m.row] # -1
      BY <2>1, <2>4, StreamAssumption DEF Tables
    <3>3. view[m.row] = m.old
      BY <1>1, <2>1, <3>1, <3>2 DEF Tables
    <3> QED
      BY <2>2, <3>1, <3>3
  <2> QED
    BY <1>2, <2>3, <2>4
<1>5. CASE m.kind \in {"echo", "error"}
  <2>1. view' = view
    BY <1>5 DEF Handle
  <2>2. Told(view, <<m, 1>>) = view
    BY <1>5, ToldNothing
  <2> QED
    BY <1>1, <1>2, <2>1, <2>2
<1> QED
  BY <1>3, <1>4, <1>5, SizeOf DEF Kinds

LEMMA ParseStep == ASSUME IInv, Parse PROVE IInv'
<1> DEFINE n == Size[Next1.kind]
<1>1. /\ UNCHANGED <<caller, stop, buf, curBuflen, rows, wire, up, silent, dropped>>
      /\ pc = "parse" /\ pc' \in {"parse", "compact"} /\ json' = TRUE
      /\ Handle(Next1)
  BY DEF Parse, dbVars
<1>2. /\ Next1 \in Messages /\ n \in Nat \ {0}
      /\ jpos' = jpos + n /\ jpos' <= Len(buf)
      /\ Len(Stream) \in Nat /\ n <= Len(Stream)
      /\ Stream[1] = <<Next1, 1>>
      /\ Stream' = SubSeq(Stream, n + 1, Len(Stream))
  BY ParseStream DEF IInv
<1>3. Reading /\ Reading' /\ Stream \in Seq(Chars)
  BY <1>1, StreamOf DEF IInv, Reading
<1>4. /\ Stream' \in Seq(Chars) /\ Len(Stream') = Len(Stream) - n
      /\ \A i \in 1 .. Len(Stream') : Stream'[i] = Stream[i + n]
  <2>1. n \in 0 .. Len(Stream)
    BY <1>2
  <2> QED
    BY <1>2, <1>3, <2>1, Shifted
<1>5. 1 \in 1 .. Len(Stream)
  BY <1>2
<1>6. IsInitial(Stream[1]) <=> Next1.kind = "initial"
  BY <1>2 DEF IsInitial
<1>7. initialRead' = IF Next1.kind = "initial" THEN initialRead + 1 ELSE initialRead
  BY <1>1 DEF Handle, Posts
<1>8. Next1.kind = "initial" => ~ silent /\ ~ Posted /\ initialRead = 0
  <2>1. initialRead \in 0 .. 2
    BY DEF IInv, TypeInv
  <2> QED
    BY <1>3, <1>5, <1>6, <2>1 DEF IInv, InitialInv, Posted
<1>9. /\ view' \in Tables /\ skipped' \in BOOLEAN /\ (skipped => skipped')
      /\ ~ skipped' /\ Told(view, <<Next1, 1>>) \in Tables
                 => view' = Told(view, <<Next1, 1>>)
  BY <1>1, <1>2, Handled DEF IInv
<1> HIDE DEF n
<1>10. TypeInv'
  <2>1. initialRead' \in 0 .. 2
    BY <1>7, <1>8 DEF IInv, TypeInv
  <2>2. jpos' \in 0 .. curBuflen
    BY <1>2, StreamAssumption DEF IInv, TypeInv
  <2> QED
    BY <1>1, <1>9, <2>1, <2>2 DEF IInv, TypeInv
<1>11. SizeInv'
  BY <1>1 DEF IInv, SizeInv
<1>12. ThreadInv'
  <2>1. initialRead' <= 1 /\ jpos' > 0
    BY <1>1, <1>2, <1>7, <1>8 DEF IInv, TypeInv, ThreadInv
  <2> QED
    BY <1>1, <1>2, <2>1 DEF IInv, ThreadInv
<1>13. InitialInv'
  <2>1. ASSUME NEW i \in 1 .. Len(Stream') PROVE ~ IsInitial(Stream'[i])
    <3> SUFFICES ASSUME IsInitial(Stream'[i]) PROVE FALSE
      OBVIOUS
    <3>1. i + n \in 1 .. Len(Stream) /\ Stream'[i] = Stream[i + n]
      BY <1>2, <1>4
    <3>2. i + n <= Size["initial"] /\ IsInitial(Stream[1])
      BY <1>3, <3>1 DEF IInv, InitialInv, IsInitial
    <3>3. n = Size["initial"]
      BY <1>6, <3>2 DEF n
    <3> QED
      BY <1>2, <3>2, <3>3
  <2>2. Posted' => Posted \/ Next1.kind = "initial"
    BY <1>1, <1>7 DEF Posted
  <2>3. Posted' => ~ silent'
    BY <1>1, <1>3, <1>8, <2>2 DEF IInv, InitialInv
  <2> QED
    BY <2>1, <2>3 DEF InitialInv, IsInitial
<1>14. ASSUME ~ dropped
       PROVE  /\ \A j \in 1 .. n : Stream[j] = <<Next1, j>>
              /\ Framed(Stream')
  <2>1. Framed(Stream) /\ Len(Stream) > 0
    BY <1>2, <1>3, <1>14 DEF IInv, FrameInv
  <2> QED
    BY <1>2, <1>3, <2>1, FramedTail DEF n
<1>15. FrameInv'
  BY <1>1, <1>14 DEF FrameInv
<1>16. ViewInv'
  <2> SUFFICES ASSUME ~ dropped, ~ skipped', ~ silent
               PROVE  Leads(view', Stream', rows')
    BY <1>1 DEF ViewInv
  <2>1. Leads(view, Stream, rows)
    BY <1>3, <1>9 DEF IInv, ViewInv
  <2>2. /\ Told(view, <<Next1, 1>>) \in Tables
        /\ Leads(Told(view, <<Next1, 1>>), Stream', rows)
    BY <1>2, <1>3, <1>14, <2>1, LeadsTail DEF n
  <2> QED
    BY <1>1, <1>9, <2>2
<1> QED
  BY <1>10, <1>11, <1>12, <1>13, <1>15, <1>16 DEF IInv

LEMMA CompactStep == ASSUME IInv, Compact PROVE IInv'
<1>1. /\ UNCHANGED <<caller, stop, jpos, json, view, rows, up, silent, skipped>>
      /\ pc = "compact"
      /\ dropped' = (dropped \/ (json /\ Rest # << >>))
      /\ \/ /\ pc' = "done" /\ initialRead' = initialRead + 1
            /\ curBuflen' = curBuflen
         \/ /\ pc' = "poll" /\ initialRead' = initialRead /\ Len(Left) # MonMax
            /\ curBuflen' = Grown(Len(Left))
  BY DEF Compact, Exit, dbVars
<1>2. /\ Left \in Seq(Chars) /\ buf' = Left /\ Len(Left) <= Len(buf)
      /\ wire' = wire
      /\ pc' = "poll" => \/ Stream' = Stream /\ dropped' = dropped
                         \/ /\ dropped' /\ Parsed
                            /\ Len(Stream') <= Len(Stream)
                            /\ Stream' = SubSeq(Stream, Len(Rest) + 1, Len(Stream))
  BY CompactStream DEF IInv
<1>3. /\ Len(Left) \in Nat /\ Len(buf) \in Nat /\ Len(buf) <= curBuflen
      /\ curBuflen \in Nat \ {0} /\ BufLen \in Nat \ {0} /\ MonMax \in Nat
      /\ curBuflen <= MonMax
  BY <1>2, StreamAssumption DEF IInv, TypeInv
<1>4. PICK S \in SUBSET (BufLen .. MonMax) : Doublings(S) /\ curBuflen \in S
  BY DEF IInv, SizeInv
<1>5. curBuflen' \in S /\ curBuflen' >= curBuflen
  <2>1. CASE curBuflen' = curBuflen
    BY <1>3, <1>4, <2>1
  <2>2. CASE curBuflen' = Grown(Len(Left)) /\ Len(Left) # MonMax /\ Len(Left) = curBuflen
    BY <1>3, <1>4, <2>2 DEF Grown, Doublings
  <2> QED
    BY <1>1, <2>1, <2>2 DEF Grown
<1>6. SizeInv'
  BY <1>4, <1>5 DEF SizeInv
<1>7. TypeInv'
  <2>1. curBuflen' \in BufLen .. MonMax /\ Len(Left) <= curBuflen' /\ jpos \in 0 .. curBuflen'
    BY <1>2, <1>3, <1>5 DEF IInv, TypeInv
  <2>2. initialRead' \in 0 .. 2
    BY <1>1 DEF IInv, TypeInv, ThreadInv
  <2>3. dropped' \in BOOLEAN /\ pc' \in {"poll", "done"}
    BY <1>1
  <2> QED
    BY <1>1, <1>2, <2>1, <2>2, <2>3 DEF IInv, TypeInv
<1>8. ThreadInv'
  BY <1>1 DEF IInv, ThreadInv
<1>9. CASE pc' = "done"
  BY <1>6, <1>7, <1>8, <1>9 DEF IInv, InitialInv, FrameInv, ViewInv, Reading
<1>10. CASE pc' = "poll"
  <2>1. Reading /\ Reading' /\ Posted' = Posted /\ ~ Parsed'
    BY <1>1, <1>10 DEF Reading, Posted, Parsed
  <2>2. CASE Stream' = Stream /\ dropped' = dropped
    <3>1. InitialInv'
      BY <1>1, <2>1, <2>2 DEF IInv, InitialInv, IsInitial
    <3>2. FrameInv' /\ ViewInv'
      BY <1>1, <2>1, <2>2 DEF IInv, FrameInv, ViewInv
    <3> QED
      BY <1>6, <1>7, <1>8, <3>1, <3>2 DEF IInv
  <2>3. CASE /\ dropped' /\ Parsed
             /\ Len(Stream') <= Len(Stream)
             /\ Stream' = SubSeq(Stream, Len(Rest) + 1, Len(Stream))
    <3>1. /\ Stream \in Seq(Chars) /\ Rest \in Seq(Chars) /\ Len(wire) \in Nat
          /\ Len(Stream) = Len(Rest) + Len(wire)
      <4>1. Unparsed = Rest
        BY <1>1 DEF Unparsed
      <4>2. wire \in Seq(Chars)
        BY DEF IInv, TypeInv
      <4> QED
        BY <2>1, <4>1, <4>2, StreamOf DEF IInv
    <3>2. Len(Rest) \in 0 .. Len(Stream) /\ Len(Stream) \in Nat
      BY <3>1
    <3>3. /\ Stream' \in Seq(Chars) /\ Len(Stream') = Len(Stream) - Len(Rest)
          /\ \A i \in 1 .. Len(Stream') : Stream'[i] = Stream[i + Len(Rest)]
      BY <2>3, <3>1, <3>2, Shifted
    <3>4. \A i \in 1 .. Len(Stream) : ~ IsInitial(Stream[i])
      BY <2>1, <2>3 DEF IInv, InitialInv
    <3>5. ASSUME NEW i \in 1 .. Len(Stream') PROVE ~ IsInitial(Stream'[i])
      <4>1. i + Len(Rest) \in 1 .. Len(Stream) /\ Stream'[i] = Stream[i + Len(Rest)]
        BY <3>2, <3>3
      <4> QED
        BY <3>4, <4>1 DEF IsInitial
    <3>6. InitialInv'
      BY <1>1, <2>1, <3>5 DEF IInv, InitialInv, IsInitial
    <3>7. FrameInv' /\ ViewInv'
      BY <2>3 DEF FrameInv, ViewInv
    <3> QED
      BY <1>6, <1>7, <1>8, <3>6, <3>7 DEF IInv
  <2> QED
    BY <1>2, <1>10, <2>2, <2>3
<1> QED
  BY <1>1, <1>9, <1>10

\* An empty stream leads nowhere.
LEMMA EmptyStream ==
    ASSUME NEW v \in Tables
    PROVE  << >> \in Seq(Chars) /\ Framed(<< >>) /\ Leads(v, << >>, v)
<1> DEFINE f == [i \in 0 .. 0 |-> v]
<1>1. << >> \in Seq(Chars) /\ Len(<< >>) = 0
  OBVIOUS
<1>2. Framed(<< >>)
  BY DEF Framed
<1>3. f \in [0 .. Len(<< >>) -> Tables] /\ Path(f, v, << >>, v)
  BY DEF Path
<1> QED
  BY <1>1, <1>2, <1>3 DEF Leads

LEMMA ConnectStep == ASSUME IInv, Connect PROVE IInv'
<1>1. /\ UNCHANGED <<caller, stop, initialRead, buf, curBuflen, jpos, json, view,
                     rows, up, dropped, skipped>>
      /\ pc = "connect" /\ pc' = "poll" /\ silent' \in BOOLEAN
  BY DEF Connect, userVars, histVars, IInv, TypeInv
<1>2. /\ buf = << >> /\ view = Absent /\ initialRead = 0 /\ ~ silent /\ ~ dropped
      /\ caller \in {"start", "waiting"} /\ caller # "start"
  BY <1>1 DEF IInv, ThreadInv
<1>3. PICK m \in Messages :
              /\ Stream' = Bytes(m) /\ wire' = Bytes(m)
              /\ \/ /\ m.kind = "error" /\ silent'
                 \/ /\ m.kind = "initial" /\ silent' = silent
                    /\ \A p \in ToSet(m.rows) : p = <<p[1], rows[p[1]]>> /\ p[1] \in Rows
                    /\ \A r \in Rows : rows[r] # 0 => <<r, rows[r]>> \in ToSet(m.rows)
  BY ConnectStream DEF IInv
<1>4. /\ Bytes(m) \in Seq(Chars) /\ Len(Bytes(m)) = Size[m.kind]
      /\ \A i \in 1 .. Size[m.kind] : Bytes(m)[i] = <<m, i>>
      /\ Size[m.kind] \in Nat \ {0}
  BY BytesOf, SizeOf
<1>5. TypeInv' /\ SizeInv'
  BY <1>1, <1>3, <1>4 DEF IInv, TypeInv, SizeInv
<1>6. ThreadInv'
  BY <1>1, <1>2 DEF IInv, ThreadInv
<1>7. Reading' /\ ~ Posted' /\ ~ Parsed'
  BY <1>1, <1>2 DEF Reading, Posted, Parsed
<1>8. InitialInv'
  <2>1. ASSUME NEW i \in 1 .. Size[m.kind], IsInitial(Bytes(m)[i])
        PROVE  /\ i <= Size["initial"] /\ IsInitial(Bytes(m)[1]) /\ ~ silent'
    <3>1. m.kind = "initial"
      BY <1>4, <2>1 DEF IsInitial
    <3>2. Bytes(m)[1] = <<m, 1>>
      BY <1>4
    <3> QED
      BY <1>2, <1>3, <1>4, <2>1, <3>1, <3>2 DEF IsInitial
  <2> QED
    BY <1>1, <1>2, <1>3, <1>4, <1>7, <2>1 DEF InitialInv, IsInitial
<1>9. << >> \in Seq(Chars) /\ << >> \o Bytes(m) = Bytes(m)
  BY <1>4, ConcatEmptySeq
<1>10. view \in Tables /\ rows \in Tables
  BY DEF IInv, TypeInv
<1>11. FrameInv'
  <2>1. Framed(<< >> \o Bytes(m))
    BY <1>9, <1>10, EmptyStream, FramedAppend
  <2> QED
    BY <1>3, <1>9, <2>1 DEF FrameInv
<1>12. ViewInv'
  <2> SUFFICES ASSUME ~ silent' PROVE Leads(view, Bytes(m), rows)
    BY <1>1, <1>3 DEF ViewInv
  <2>1. /\ m.kind = "initial"
        /\ \A p \in ToSet(m.rows) : p = <<p[1], rows[p[1]]>> /\ p[1] \in Rows
        /\ \A r \in Rows : rows[r] # 0 => <<r, rows[r]>> \in ToSet(m.rows)
    BY <1>3
  <2>2. Told(view, <<m, 1>>) = rows
    <3> DEFINE x == Told(view, <<m, 1>>)
    <3>1. x = [r \in Rows |-> IF r \in {p[1] : p \in ToSet(m.rows)}
                              THEN (CHOOSE p \in ToSet(m.rows) : p[1] = r)[2]
                              ELSE view[r]]
      BY <2>1, ToldInitial
    <3> HIDE DEF x
    <3>2. ASSUME NEW r \in Rows PROVE x[r] = rows[r]
      <4>1. CASE r \in {p[1] : p \in ToSet(m.rows)}
        <5> DEFINE q == CHOOSE p \in ToSet(m.rows) : p[1] = r
        <5>1. q \in ToSet(m.rows) /\ q[1] = r
          BY <4>1
        <5>2. x[r] = q[2]
          BY <3>1, <4>1
        <5> HIDE DEF q
        <5>3. q = <<q[1], rows[q[1]]>>
          BY <2>1, <5>1
        <5> QED
          BY <5>1, <5>2, <5>3
      <4>2. CASE r \notin {p[1] : p \in ToSet(m.rows)}
        <5>1. x[r] = view[r] /\ view[r] = 0
          BY <1>2, <3>1, <4>2 DEF Absent
        <5>2. rows[r] = 0
          <6> SUFFICES ASSUME rows[r] # 0 PROVE FALSE
            OBVIOUS
          <6>1. <<r, rows[r]>> \in ToSet(m.rows)
            BY <2>1
          <6>2. <<r, rows[r]>>[1] = r
            OBVIOUS
          <6> QED
            BY <4>2, <6>1, <6>2
        <5> QED
          BY <5>1, <5>2
      <4> QED
        BY <4>1, <4>2
    <3> QED
      BY <1>10, <3>1, <3>2 DEF Tables, x
  <2>3. Leads(view, << >> \o Bytes(m), Told(view, <<m, 1>>))
    BY <1>9, <1>10, <2>2, EmptyStream, LeadsAppend
  <2> QED
    BY <1>9, <2>2, <2>3
<1> QED
  BY <1>5, <1>6, <1>8, <1>11, <1>12 DEF IInv

LEMMA SendStep ==
    ASSUME IInv, NEW m \in Messages, m.kind # "initial", Send(m),
           UNCHANGED <<userVars, readVars, view, up, silent, histVars>>,
           rows' \in Tables, Told(rows, <<m, 1>>) = rows'
    PROVE  IInv'
<1>1. UNCHANGED <<caller, stop, initialRead, pc, buf, curBuflen, jpos, json, view, up,
                  silent, dropped, skipped>>
  BY DEF userVars, readVars, histVars
<1>2. Reading /\ Reading' /\ wire' \in Seq(Chars) /\ Stream' = Stream \o Bytes(m)
  BY <1>1, SendStream DEF IInv
<1>3. Stream \in Seq(Chars)
  BY <1>2, StreamOf DEF IInv
<1>4. /\ Bytes(m) \in Seq(Chars) /\ Len(Bytes(m)) = Size[m.kind]
      /\ \A i \in 1 .. Size[m.kind] : Bytes(m)[i] = <<m, i>>
      /\ Size[m.kind] \in Nat \ {0}
  BY BytesOf, SizeOf
<1>5. TypeInv' /\ SizeInv'
  BY <1>1, <1>2 DEF IInv, TypeInv, SizeInv
<1>6. ThreadInv'
  BY <1>1, <1>2 DEF IInv, ThreadInv, Reading
<1>7. Posted' = Posted /\ Parsed' = Parsed
  BY <1>1 DEF Posted, Parsed
<1>8. InitialInv'
  <2>1. /\ Len(Stream') = Len(Stream) + Size[m.kind] /\ Len(Stream) \in Nat
        /\ \A i \in 1 .. Len(Stream) : Stream'[i] = Stream[i]
        /\ \A i \in 1 .. Size[m.kind] : Stream'[Len(Stream) + i] = <<m, i>>
    <3> DEFINE b == Bytes(m)
    <3>1. /\ Len(Stream \o b) = Len(Stream) + Len(b)
          /\ \A i \in 1 .. Len(Stream) : (Stream \o b)[i] = Stream[i]
          /\ \A i \in 1 .. Len(b) : (Stream \o b)[Len(Stream) + i] = b[i]
      BY <1>3, <1>4, Joined
    <3>2. Len(Stream) \in Nat
      BY <1>3
    <3> QED
      BY <1>2, <1>4, <3>1, <3>2
  <2>2. ASSUME NEW i \in 1 .. Len(Stream'), IsInitial(Stream'[i])
        PROVE  /\ i <= Size["initial"] /\ IsInitial(Stream'[1])
               /\ ~ dropped /\ ~ silent /\ ~ Posted /\ ~ Parsed
    <3>1. i \in 1 .. Len(Stream)
      <4> SUFFICES ASSUME i > Len(Stream) PROVE FALSE
        BY <2>1
      <4>1. PICK k \in 1 .. Size[m.kind] : i = Len(Stream) + k
        <5>1. i - Len(Stream) \in 1 .. Size[m.kind] /\ i = Len(Stream) + (i - Len(Stream))
          BY <1>4, <2>1
        <5> QED
          BY <5>1
      <4>2. Stream'[i] = <<m, k>>
        BY <2>1, <4>1
      <4> QED
        BY <2>2, <4>2 DEF IsInitial
    <3>2. IsInitial(Stream[i]) /\ 1 \in 1 .. Len(Stream) /\ Stream'[1] = Stream[1]
      BY <2>1, <2>2, <3>1 DEF IsInitial
    <3> QED
      BY <1>2, <3>1, <3>2 DEF IInv, InitialInv, IsInitial
  <2>3. Posted => ~ silent
    BY <1>2 DEF IInv, InitialInv
  <2> QED
    BY <1>1, <1>7, <2>2, <2>3 DEF InitialInv, IsInitial
<1>9. FrameInv'
  BY <1>1, <1>2, <1>3, FramedAppend DEF IInv, FrameInv
<1>10. ViewInv'
  <2> SUFFICES ASSUME ~ dropped, ~ skipped, ~ silent PROVE Leads(view, Stream', rows')
    BY <1>1 DEF ViewInv
  <2>1. Leads(view, Stream, rows)
    BY <1>2 DEF IInv, ViewInv
  <2> QED
    BY <1>2, <1>3, <2>1, LeadsAppend
<1> QED
  BY <1>5, <1>6, <1>8, <1>9, <1>10 DEF IInv

-----------------------------------------------------------------------------
(***************************************************************************)
(* The invariant                                                           *)
(***************************************************************************)
\* The state srdb_monitor starts from.
LEMMA InitInv == Init => IInv
<1> SUFFICES ASSUME Init PROVE IInv
  OBVIOUS
<1>1. Absent \in Tables
  BY DEF Absent, Tables
<1>2. PICK S \in SUBSET (BufLen .. MonMax) : Doublings(S)
  BY StreamAssumption
<1>3. BufLen \in S /\ BufLen \in Nat \ {0} /\ MonMax \in Nat
  BY <1>2, StreamAssumption DEF Doublings
<1>4. SizeInv
  BY <1>2, <1>3 DEF SizeInv, Init
<1>5. << >> \in Seq(Chars) /\ Len(<< >>) = 0
  OBVIOUS
<1>6. TypeInv
  <2>1. BufLen \in BufLen .. MonMax /\ 0 <= BufLen /\ 0 \in 0 .. BufLen
    BY <1>3
  <2>2. rows \in Tables /\ view \in Tables
    BY <1>1 DEF Init, Tables
  <2>3. buf \in Seq(Chars) /\ wire \in Seq(Chars) /\ Len(buf) = 0
    BY <1>5 DEF Init
  <2>4. /\ curBuflen \in BufLen .. MonMax /\ Len(buf) <= curBuflen
        /\ jpos \in 0 .. curBuflen
    BY <2>1, <2>3 DEF Init
  <2>5. /\ json \in BOOLEAN /\ up \in BOOLEAN /\ silent \in BOOLEAN
        /\ dropped \in BOOLEAN /\ skipped \in BOOLEAN
    BY Zenon DEF Init
  <2>6. /\ caller = "start" /\ pc = "off" /\ stop \in 0 .. 1 /\ initialRead \in 0 .. 2
    BY DEF Init
  <2> QED
    BY <2>2, <2>3, <2>4, <2>5, <2>6 DEF TypeInv
<1>7. ThreadInv
  BY DEF Init, ThreadInv
<1>8. ~ Reading
  BY DEF Init, Reading
<1> QED
  BY <1>4, <1>6, <1>7, <1>8 DEF IInv, InitialInv, FrameInv, ViewInv

\* The conjunction is inductive.
LEMMA NextInv == IInv /\ [Next]_vars => IInv'
<1> SUFFICES ASSUME IInv, [Next]_vars PROVE IInv'
  OBVIOUS
<1>1. CASE MonitorStep
  BY <1>1, ConnectStep, EndStep, RecvStep, ParseStep, ParseFailsStep, CompactStep
  DEF MonitorStep
<1>2. ASSUME NEW r \in Rows, NEW v \in {0} \cup Values, Change(r, v) PROVE IInv'
  <2> DEFINE m == [kind |-> "update", row |-> r, old |-> rows[r], new |-> v]
  <2>1. rows \in Tables
    BY DEF IInv, TypeInv
  <2>2. m \in Messages /\ m.kind = "update" /\ m.row = r /\ m.old = rows[r] /\ m.new = v
    BY <2>1 DEF Messages, Tables
  <2>3. /\ rows' = [rows EXCEPT ![r] = v] /\ Send(m)
        /\ UNCHANGED <<userVars, readVars, view, up, silent, histVars>>
    BY <1>2 DEF Change
  <2> HIDE DEF m
  <2>4. rows' \in Tables
    BY <2>1, <2>3 DEF Tables
  <2>5. Told(rows, <<m, 1>>) = [rows EXCEPT ![r] = v]
    BY <2>2, ToldUpdate
  <2> QED
    BY <2>2, <2>3, <2>4, <2>5, SendStep
<1>3. CASE EchoRequest
  <2> DEFINE m == [kind |-> "echo"]
  <2>1. m \in Messages /\ m.kind = "echo"
    BY DEF Messages
  <2>2. /\ Send(m) /\ rows' = rows
        /\ UNCHANGED <<userVars, readVars, view, up, silent, histVars>>
    BY <1>3 DEF EchoRequest
  <2> HIDE DEF m
  <2>3. rows \in Tables /\ Told(rows, <<m, 1>>) = rows
    BY <2>1, ToldNothing DEF IInv, TypeInv
  <2> QED
    BY <2>1, <2>2, <2>3, SendStep
<1>4. CASE \/ Monitor \/ InitialReadDone \/ Destroy \/ JoinAll \/ Join \/ Close
           \/ UNCHANGED vars
  BY <1>4, UserStep
<1> QED
  BY <1>1, <1>2, <1>3, <1>4 DEF Next

\* IInv holds in every reachable state.
THEOREM Invariance == Spec => []IInv
BY InitInv, NextInv, PTL DEF Spec

-----------------------------------------------------------------------------
\* The types of both threads and of the database; the buffer never exceeds
\* JSON_BUFLEN_MONMAX, and initial_read is posted at most twice.
THEOREM TypeCorrect == Spec => []TypeOK
<1>1. IInv => TypeOK
  BY StreamAssumption DEF IInv, TypeInv, TypeOK, Tables
<1> QED
  BY <1>1, Invariance, PTL

\* However recv cuts the stream and whatever the sizes of messages and buffer,
\* the callbacks of ovsdb_monitor are told of every row event once and in
\* order, but for the dropped byte and the rows behind a failed callback.
THEOREM EveryEventIsTold == Spec => []ViewCatchesUp
<1>1. IInv => ViewCatchesUp
  <2> SUFFICES ASSUME IInv, pc \in {"poll", "parse"}, ~ dropped, ~ skipped, ~ silent
               PROVE  Replay(view, Unparsed \o wire) = rows
    BY DEF ViewCatchesUp
  <2>1. Reading
    BY DEF Reading
  <2>2. Leads(view, Stream, rows) /\ Stream \in Seq(Chars)
    BY <2>1, StreamOf DEF IInv, ViewInv
  <2> QED
    BY <2>2, PathIsReplay DEF Stream
<1> QED
  BY <1>1, Invariance, PTL

\* sem_wait on initial_read lets srdb_monitor return when the thread has
\* ended, or when the rows of the table have been read.
THEOREM ReadBeforeReturn == Spec => InitialBeforeReturn
<1>1. IInv /\ [Next]_vars
        => [InitialReadDone /\ pc # "done"
              => /\ ~ silent
                 /\ \A b \in ToSet(Unparsed \o wire) : b[1].kind # "initial"]_vars
  <2> SUFFICES ASSUME IInv, InitialReadDone, pc # "done"
               PROVE  /\ ~ silent
                      /\ \A b \in ToSet(Unparsed \o wire) : b[1].kind # "initial"
    OBVIOUS
  <2>1. caller = "waiting" /\ initialRead > 0 /\ Posted
    BY DEF InitialReadDone, Posted
  <2>2. Reading
    BY <2>1 DEF IInv, TypeInv, ThreadInv, Reading
  <2>3. ~ silent /\ \A i \in 1 .. Len(Stream) : ~ IsInitial(Stream[i])
    BY <2>1, <2>2 DEF IInv, InitialInv
  <2>4. Stream \in Seq(Chars)
    BY <2>2, StreamOf DEF IInv
  <2>5. ASSUME NEW b \in ToSet(Stream) PROVE b[1].kind # "initial"
    <3>1. PICK i \in 1 .. Len(Stream) : b = Stream[i]
      BY <2>4 DEF ToSet
    <3> QED
      BY <2>3, <3>1 DEF IsInitial
  <2> QED
    BY <2>3, <2>5 DEF Stream
<1> QED
  BY <1>1, Invariance, PTL DEF Spec, InitialBeforeReturn
=============================================================================
