------------------------ MODULE CycleMonitorProofs ------------------------
(***************************************************************************)
(* Proofs about CycleMonitor, for every number of segments, every range of *)
(* probe numbers and every threshold.                                      *)
(*                                                                         *)
(* A cycle is watched for silence only once it has earned it               *)
(* (MonIsEarned), which is inductive as it stands.  That a report names    *)
(* the nearest segment that is silent (ReportedIsNearest) rests on what a  *)
(* round of dprobes has gathered so far (RoundInv), and on tmp_up never    *)
(* being all segments between two steps (TypeOK): otherwise the monitor    *)
(* would look for the least element of the empty set.                      *)
(***************************************************************************)
EXTENDS CycleMonitor, FiniteSetTheorems, WellFoundedInduction, TLAPS

\* While the answers of a round are awaited, the segments that answered are in
\* tmp_up, and only late answers of an earlier round put others there.
RoundInv ==
    state = "DWAIT" =>
        /\ answered \subseteq tmpUp
        /\ late \/ tmpUp \subseteq answered

IInv ==
    /\ TypeOK
    /\ MonIsEarned
    /\ RoundInv

-----------------------------------------------------------------------------
\* A nonempty set of naturals has a least element.
LEMMA LeastExists ==
    ASSUME NEW S \in SUBSET Nat, S # {}
    PROVE  \E m \in S : \A y \in S : m <= y
<1> DEFINE Less == {s \in Nat \X Nat : s[1] < s[2]}
<1>1. IsWellFoundedOn(Less, Nat)
  BY NatLessThanWellFounded DEF OpToRel
<1>2. \A m, n \in Nat : m < n => <<m, n>> \in Less
  OBVIOUS
<1> HIDE DEF Less
<1>3. PICK m \in S : \A y \in S : ~ (<<y, m>> \in Less)
  BY <1>1, WFMin, Zenon
<1>4. \A y \in S : m <= y
  <2> SUFFICES ASSUME NEW y \in S, ~ (m <= y) PROVE FALSE
    OBVIOUS
  <2>1. m \in Nat /\ y \in Nat /\ y < m
    OBVIOUS
  <2>2. <<y, m>> \in Less
    BY <1>2, <2>1
  <2> QED
    BY <1>3, <2>2
<1> QED
  BY <1>4

\* Min, which the monitor's report uses, gives that element.
LEMMA MinIsLeast ==
    ASSUME NEW S \in SUBSET Nat, S # {}
    PROVE  Min(S) \in S /\ \A y \in S : Min(S) <= y
BY LeastExists DEF Min

\* An age stops at its bound.
LEMMA Aged ==
    ASSUME NEW b \in Nat, NEW a \in 0 .. b
    PROVE  Min({a + 1, b}) \in 0 .. b
BY MinIsLeast

\* The next probe number, which wraps.
LEMMA NextId ==
    ASSUME NEW m \in Nat, NEW i \in 0 .. m
    PROVE  (i + 1) % (m + 1) \in 0 .. m
OBVIOUS

\* The receiver counts the segments that are up: all are when N are.
LEMMA AllUp ==
    ASSUME Cardinality(Segs) # N
    PROVE  FALSE
BY CycleAssumption, FS_Interval DEF Segs

-----------------------------------------------------------------------------
\* Each step of the transmitter, the receiver, the monitor, the network and the
\* clock keeps the invariant.
LEMMA InitInv ==
    ASSUME Init
    PROVE  IInv
<1> USE CycleAssumption DEF Init, T1, T2, T3
<1>1. TypeOK
  <2>1. 0 \in Segs
    BY DEF Segs
  <2>2. /\ xmtAge \in 0 .. T1 /\ rcvAge \in 0 .. T2 /\ disasAge \in 0 .. T3(MaxRtt)
        /\ rtt1Thresh \in Rtt1Count .. IdMax + Rtt1Count
        /\ nearest \in -1 .. N - 1 /\ broken \in 0 .. N
    OBVIOUS
  <2>3. state \in States /\ late \in BOOLEAN
    BY Zenon DEF States
  <2>5. xmtId \in 0 .. IdMax /\ lastAck \in 0 .. IdMax /\ rtt \in 0 .. MaxRtt
    OBVIOUS
  <2>4. /\ tmpUp \in SUBSET Segs /\ tmpUp # Segs /\ answered \in SUBSET Segs
        /\ probes \in SUBSET (0 .. IdMax) /\ dprobes \in SUBSET (Segs \X BOOLEAN)
    BY <2>1
  <2> HIDE DEF Init, T1, T2, T3
  <2> QED
    BY <2>2, <2>3, <2>4, <2>5 DEF TypeOK
<1>2. MonIsEarned /\ RoundInv
  BY DEF MonIsEarned, RoundInv
<1> QED
  BY <1>1, <1>2 DEF IInv

LEMMA TransmitterStep ==
    ASSUME IInv, Transmitter
    PROVE  IInv'
<1> USE CycleAssumption DEF IInv, histVars, idVars
<1>1. CASE Disassemble
  <2>1. TypeOK'
    <3>1. dprobes' \subseteq Segs \X BOOLEAN
      <4>1. PICK sent \in SUBSET {s \in Segs : s < broken} :
                dprobes' = {<<d[1], FALSE>> : d \in dprobes} \cup {<<s, TRUE>> : s \in sent}
        BY <1>1 DEF Disassemble
      <4>2. \A d \in dprobes : <<d[1], FALSE>> \in Segs \X BOOLEAN
        BY DEF TypeOK
      <4>3. \A s \in sent : <<s, TRUE>> \in Segs \X BOOLEAN
        OBVIOUS
      <4> QED
        BY <4>1, <4>2, <4>3
    <3>2. 0 \in Segs
      BY DEF Segs
    <3>3. disasAge' \in 0 .. T3(MaxRtt)
      BY <1>1 DEF Disassemble, T3
    <3>4. tmpUp' \in SUBSET Segs /\ tmpUp' # Segs
      BY <1>1, <3>2 DEF Disassemble, Reset
    <3> QED
      BY <1>1, <3>1, <3>3, <3>4 DEF Disassemble, TypeOK, States
  <2>2. MonIsEarned' /\ RoundInv'
    BY <1>1 DEF Disassemble, MonIsEarned, RoundInv, Reset
  <2> QED
    BY <2>1, <2>2
<1>2. CASE Probe
  <2>1. xmtId' \in 0 .. IdMax
    BY <1>2, NextId DEF Probe, TypeOK
  <2>2. probes' \subseteq 0 .. IdMax
    BY <1>2, <2>1 DEF Probe, TypeOK
  <2>3. state' \in {"RTT1", "MON"}
    BY <1>2 DEF Probe, AfterSend
  <2>4. TypeOK'
    BY <1>2, <2>1, <2>2, <2>3 DEF Probe, TypeOK, States, T1
  <2>5. MonIsEarned' /\ RoundInv'
    BY <1>2, <2>3 DEF Probe, MonIsEarned, RoundInv, AfterSend, TypeOK
  <2> QED
    BY <2>4, <2>5
<1> QED
  BY <1>1, <1>2 DEF Transmitter

LEMMA ProbeBack ==
    ASSUME IInv, NEW x \in 0 .. IdMax, Outdated(x) \/ Accept(x)
    PROVE  IInv'
<1> USE CycleAssumption DEF IInv, histVars, idVars, ageVars
<1>1. CASE Outdated(x)
  BY <1>1 DEF Outdated, TypeOK, MonIsEarned, RoundInv
<1>2. CASE Accept(x)
  <2>1. TypeOK'
    <3>1. probes' \subseteq 0 .. IdMax /\ rcvAge' \in 0 .. T2 /\ state' \in States
      BY <1>2 DEF Accept, TypeOK, States, T1, T2
    <3> QED
      BY <1>2, <3>1 DEF Accept, TypeOK
  <2>2. MonIsEarned'
    BY <1>2 DEF Accept, TypeOK, MonIsEarned
  <2>3. RoundInv'
    BY <1>2 DEF Accept, RoundInv
  <2> QED
    BY <2>1, <2>2, <2>3
<1> QED
  BY <1>1, <1>2

LEMMA DprobeBack ==
    ASSUME IInv, NEW d \in Segs \X BOOLEAN, DprobeAnswer(d)
    PROVE  IInv'
<1> USE CycleAssumption DEF IInv, ageVars
<1> DEFINE up == tmpUp \cup {d[1]}
<1>1. d[1] \in Segs /\ up \subseteq Segs
  BY DEF TypeOK
<1>2. CASE Cardinality(up) = N
  <2>1. /\ tmpUp' = {} /\ state' = "INIT"
        /\ rtt1Thresh' = lastAck + Rtt1Count /\ nearest' = -1
    BY <1>2 DEF DprobeAnswer, AfterAllUp
  <2>2. 0 \in Segs
    BY DEF Segs
  <2>3. TypeOK'
    BY <1>1, <2>1, <2>2 DEF DprobeAnswer, TypeOK, States
  <2> QED
    BY <2>1, <2>3 DEF MonIsEarned, RoundInv
<1>3. CASE Cardinality(up) # N
  <2>1. tmpUp' = up /\ UNCHANGED <<rtt1Thresh, state, nearest>>
    BY <1>3 DEF DprobeAnswer
  <2>2. up # Segs
    BY <1>3, AllUp
  <2>3. TypeOK'
    BY <1>1, <2>1, <2>2 DEF DprobeAnswer, TypeOK
  <2>4. MonIsEarned'
    BY <2>1 DEF DprobeAnswer, MonIsEarned
  <2>5. RoundInv'
    BY <2>1 DEF DprobeAnswer, RoundInv, TypeOK
  <2> QED
    BY <2>3, <2>4, <2>5
<1> QED
  BY <1>2, <1>3

LEMMA MissingHasLeast ==
    ASSUME TypeOK
    PROVE  /\ Missing # {}
           /\ Min(Missing) \in Segs \ tmpUp
           /\ 0 .. Min(Missing) - 1 \subseteq tmpUp
<1>1. Missing # {} /\ Missing \in SUBSET Nat /\ Missing \subseteq Segs
  <2>1. Segs \subseteq Nat
    BY CycleAssumption DEF Segs
  <2>2. tmpUp \subseteq Segs /\ tmpUp # Segs
    BY DEF TypeOK
  <2>3. Missing # {} /\ Missing \subseteq Segs
    BY <2>2 DEF Missing
  <2> QED
    BY <2>1, <2>3
<1>2. Min(Missing) \in Missing /\ \A y \in Missing : Min(Missing) <= y
  BY <1>1, MinIsLeast
<1>3. ASSUME NEW s \in 0 .. Min(Missing) - 1
      PROVE  s \in tmpUp
  <2>1. Min(Missing) \in 0 .. N - 1
    BY <1>1, <1>2 DEF Segs
  <2>2. s \in Segs /\ ~ (Min(Missing) <= s)
    BY <2>1, CycleAssumption DEF Segs
  <2> QED
    BY <1>2, <2>2 DEF Missing
<1> QED
  BY <1>1, <1>2, <1>3 DEF Missing

LEMMA MonitorStep ==
    ASSUME IInv, Monitor
    PROVE  IInv'
<1> USE CycleAssumption DEF IInv, histVars, netVars, idVars, ageVars
<1>1. CASE SendDue
  BY <1>1 DEF SendDue, TypeOK, States, MonIsEarned, RoundInv
<1>2. CASE Timeout
  BY <1>2 DEF Timeout, Investigates, TypeOK, States, MonIsEarned, RoundInv
<1>3. CASE DisassemblyTimeout
  <2>1. nearest' \in -1 .. N - 1
    BY <1>3, MissingHasLeast DEF DisassemblyTimeout, Segs
  <2> QED
    BY <1>3, <2>1 DEF DisassemblyTimeout, TypeOK, States, MonIsEarned, RoundInv
<1> QED
  BY <1>1, <1>2, <1>3 DEF Monitor

LEMMA NetworkStep ==
    ASSUME IInv, Lose \/ (\E k \in Segs : Break(k)) \/ Repair \/ Tick
    PROVE  IInv'
<1> USE CycleAssumption DEF IInv, histVars, netVars, idVars, ageVars
<1>1. CASE Lose
  BY <1>1 DEF Lose, TypeOK, MonIsEarned, RoundInv
<1>2. ASSUME NEW k \in Segs, Break(k)
      PROVE  IInv'
  BY <1>2 DEF Break, TypeOK, MonIsEarned, RoundInv, Segs
<1>3. CASE Repair
  BY <1>3 DEF Repair, TypeOK, MonIsEarned, RoundInv
<1>4. CASE Tick
  <2>1. /\ xmtAge' \in 0 .. T1
        /\ rcvAge' \in 0 .. T2
        /\ disasAge' \in 0 .. T3(MaxRtt)
    BY <1>4, Aged DEF Tick, TypeOK, T1, T2, T3
  <2> QED
    BY <1>4, <2>1 DEF Tick, TypeOK, MonIsEarned, RoundInv
<1> QED
  BY <1>1, <1>2, <1>3, <1>4

LEMMA NextInv ==
    ASSUME IInv, [Next]_vars
    PROVE  IInv'
<1>1. CASE UNCHANGED vars
  BY <1>1 DEF IInv, vars, idVars, ageVars, netVars, histVars, TypeOK,
              MonIsEarned, RoundInv
<1>2. CASE Receiver
  BY <1>2, ProbeBack, DprobeBack DEF Receiver
<1> QED
  BY <1>1, <1>2, TransmitterStep, MonitorStep, NetworkStep DEF Next

\* The inductive invariant.
THEOREM Invariance == Spec => []IInv
<1>1. Init => IInv
  BY InitInv
<1>2. IInv /\ [Next]_vars => IInv'
  BY NextInv
<1> QED
  BY <1>1, <1>2, PTL DEF Spec

-----------------------------------------------------------------------------
\* Every variable keeps its type; tmp_up is never all segments between two
\* steps, the state that Missing = {} in the monitor's report stands for.
THEOREM TypeCorrect == Spec => []TypeOK
<1>1. IInv => TypeOK
  BY DEF IInv
<1> QED
  BY <1>1, Invariance, PTL

\* However answers are lost, delayed and reordered, a cycle is watched, probed
\* segment by segment and reported on only after a probe whose number reaches
\* the threshold set at its last start has come back.
THEOREM SilenceIsEarned == Spec => []MonIsEarned
<1>1. IInv => MonIsEarned
  BY DEF IInv
<1> QED
  BY <1>1, Invariance, PTL

\* A report names a segment that has not answered in this round, and all before
\* it have, unless answers of an earlier round were counted.
THEOREM ReportsNameNearest == Spec => ReportedIsNearest
<1> DEFINE Nearest ==
       DisassemblyTimeout =>
           /\ nearest' \in Segs \ answered
           /\ late \/ 0 .. nearest' - 1 \subseteq answered
<1>1. ASSUME IInv, [Next]_vars
      PROVE  [Nearest]_vars
  <2> SUFFICES ASSUME DisassemblyTimeout
               PROVE  /\ nearest' \in Segs \ answered
                      /\ late \/ 0 .. nearest' - 1 \subseteq answered
    OBVIOUS
  <2>1. TypeOK /\ RoundInv /\ state = "DWAIT"
    BY <1>1 DEF IInv, DisassemblyTimeout
  <2>2. nearest' = Min(Missing)
    BY <2>1, MissingHasLeast DEF DisassemblyTimeout
  <2> QED
    BY <2>1, <2>2, MissingHasLeast DEF RoundInv
<1> QED
  BY <1>1, Invariance, PTL DEF Spec, ReportedIsNearest
=============================================================================
