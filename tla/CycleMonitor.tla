---------------------------- MODULE CycleMonitor ----------------------------
(***************************************************************************)
(* The SR cycle monitor, scmon-data/probe3.py: one cycle and the three     *)
(* threads that share it under its lock.  The transmitter sends probes     *)
(* around the cycle, the receiver takes those that come back, the monitor  *)
(* watches the clock.  A monitored cycle that falls silent is              *)
(* disassembled: a dprobe is sent to each prefix of the path, and the      *)
(* shortest prefix that does not answer is reported.                       *)
(*                                                                         *)
(* Each pass of a thread over a cycle, with its lock held, is one action;  *)
(* cycles do not interact.  The network loses, delays and reorders.  A     *)
(* break in segment k stops the probes, and the dprobes of k and beyond.   *)
(* Instants are represented by their age in units of T1.                   *)
(***************************************************************************)
EXTENDS Integers, FiniteSetsExt

CONSTANTS N,            \* len(disaspath)
          IdMax,        \* the largest xmt_id, 0xffff
          Rtt1Count,    \* rtt1_count
          MaxRtt,       \* bound: round-trip time
          MaxProbes     \* bound: probes under way, others are lost

ASSUME CycleAssumption ==
    /\ N \in Nat \ {0} /\ IdMax \in Nat \ {0}
    /\ Rtt1Count \in Nat /\ MaxRtt \in Nat /\ MaxProbes \in Nat

T1 == 1
T2 == 2 * T1
T3(r) == 2 * r
Segs == 0 .. N - 1
States == {"INIT", "RTT1", "MON", "SEND", "DISAS", "DWAIT"}

VARIABLES state, xmtId, lastAck, rtt1Thresh, tmpUp, rtt,
          xmtAge, rcvAge, disasAge,  \* age of xmt_time, rcv_time, xmt_disas_time
          nearest,      \* last "Nearest down segment" since all were up
          probes,       \* xmt_id of the probes under way
          dprobes,      \* dprobes under way: <<segment, of this round>>
          broken,       \* the first broken segment, N if there is none
          answered,     \* history: segments that answered in this round
          late          \* history: an answer of an earlier round was counted

idVars == <<xmtId, lastAck, rtt1Thresh>>
ageVars == <<xmtAge, rcvAge, disasAge>>
netVars == <<probes, dprobes, broken>>
histVars == <<answered, late>>
vars == <<state, idVars, tmpUp, rtt, ageVars, nearest, netVars, histVars>>

Init ==
    /\ state = "INIT"
    /\ xmtId = 0 /\ lastAck = 0 /\ rtt1Thresh = Rtt1Count
    /\ tmpUp = {} /\ rtt = 0
    /\ xmtAge = T1 /\ rcvAge = T2 /\ disasAge = T3(MaxRtt)
    /\ nearest = -1
    /\ probes = {} /\ dprobes = {} /\ broken = N
    /\ answered = {} /\ late = FALSE

-----------------------------------------------------------------------------
(***************************************************************************)
(* Transmitter.run                                                         *)
(***************************************************************************)
\* Mutant: tmp_up is not reset.
ResetForgotten == tmpUp

\* tmp_up when a round of dprobes starts.
Reset == {}

Disassemble ==
    /\ state = "DISAS"
    /\ tmpUp' = Reset
    /\ \E sent \in SUBSET {s \in Segs : s < broken} :
          dprobes' = {<<d[1], FALSE>> : d \in dprobes} \cup {<<s, TRUE>> : s \in sent}
    /\ disasAge' = 0
    /\ state' = "DWAIT"
    /\ answered' = {} /\ late' = FALSE
    /\ UNCHANGED <<idVars, rtt, xmtAge, rcvAge, nearest, probes, broken>>

\* Mutant: the threshold is not looked at.
AfterSendMon == IF state = "INIT" THEN "RTT1" ELSE "MON"

AfterSend == IF state = "INIT" \/ lastAck < rtt1Thresh THEN "RTT1" ELSE "MON"

Probe ==
    /\ state \in {"INIT", "SEND"}
    /\ xmtId' = (xmtId + 1) % (IdMax + 1)
    /\ \/ UNCHANGED probes
       \/ broken = N /\ Cardinality(probes) < MaxProbes /\ probes' = probes \cup {xmtId'}
    /\ xmtAge' = 0
    /\ state' = AfterSend
    /\ UNCHANGED <<lastAck, rtt1Thresh, tmpUp, rtt, rcvAge, disasAge, nearest,
                   dprobes, broken, histVars>>

-----------------------------------------------------------------------------
(***************************************************************************)
(* Receiver.run                                                            *)
(***************************************************************************)
Outdated(x) ==
    /\ x \in probes
    /\ lastAck > x
    /\ probes' = probes \ {x}
    /\ UNCHANGED <<state, idVars, tmpUp, rtt, ageVars, nearest, dprobes, broken,
                   histVars>>

Accept(x) ==
    /\ x \in probes
    /\ lastAck <= x
    /\ probes' = probes \ {x}
    /\ state' = IF state = "RTT1" /\ x > rtt1Thresh THEN "MON" ELSE state
    /\ rcvAge' = 0
    /\ rtt' \in 0 .. MaxRtt
    /\ lastAck' = x
    /\ UNCHANGED <<xmtId, rtt1Thresh, tmpUp, xmtAge, disasAge, nearest, dprobes,
                   broken, histVars>>

\* tmp_up after all segments have answered.
AfterAllUp == {}

\* The state is not looked at: the test is commented out.
DprobeAnswer(d) ==
    LET allUp == Cardinality(tmpUp \cup {d[1]}) = N
    IN  /\ d \in dprobes
        /\ dprobes' = dprobes \ {d}
        /\ answered' = IF d[2] THEN answered \cup {d[1]} ELSE answered
        /\ late' = (late \/ ~ d[2])
        /\ IF allUp
           THEN /\ tmpUp' = AfterAllUp
                /\ rtt1Thresh' = lastAck + Rtt1Count
                /\ state' = "INIT"
                /\ nearest' = -1
           ELSE /\ tmpUp' = tmpUp \cup {d[1]}
                /\ UNCHANGED <<rtt1Thresh, state, nearest>>
        /\ UNCHANGED <<xmtId, lastAck, rtt, ageVars, probes, broken>>

-----------------------------------------------------------------------------
(***************************************************************************)
(* Monitor.run                                                             *)
(***************************************************************************)
SendDue ==
    /\ xmtAge >= T1
    /\ state = "RTT1" \/ (state = "MON" /\ rcvAge < T2)
    /\ state' = "SEND"
    /\ UNCHANGED <<idVars, tmpUp, rtt, ageVars, nearest, netVars, histVars>>

\* Mutant: a silent cycle is only sent another probe.
Probes == "SEND"

\* The state a silent cycle goes to.
Investigates == "DISAS"

Timeout ==
    /\ state = "MON" /\ rcvAge >= T2
    /\ state' = Investigates
    /\ UNCHANGED <<idVars, tmpUp, rtt, ageVars, nearest, netVars, histVars>>

Missing == Segs \ tmpUp

DisassemblyTimeout ==
    /\ state = "DWAIT" /\ disasAge >= T3(rtt)
    /\ nearest' = IF Missing = {} THEN -1 ELSE Min(Missing)
    /\ state' = "DISAS"
    /\ UNCHANGED <<idVars, tmpUp, rtt, ageVars, netVars, histVars>>

-----------------------------------------------------------------------------
(***************************************************************************)
(* The network and the clock                                               *)
(***************************************************************************)
Lose ==
    /\ \/ \E x \in probes : probes' = probes \ {x} /\ UNCHANGED dprobes
       \/ \E d \in dprobes : dprobes' = dprobes \ {d} /\ UNCHANGED probes
    /\ UNCHANGED <<state, idVars, tmpUp, rtt, ageVars, nearest, broken, histVars>>

Break(k) ==
    /\ broken = N
    /\ broken' = k
    /\ probes' = {}
    /\ dprobes' = {d \in dprobes : d[1] < k}
    /\ UNCHANGED <<state, idVars, tmpUp, rtt, ageVars, nearest, histVars>>

Repair ==
    /\ broken < N
    /\ broken' = N
    /\ UNCHANGED <<state, idVars, tmpUp, rtt, ageVars, nearest, probes, dprobes,
                   histVars>>

\* Larger ages are not told apart.
Tick ==
    /\ xmtAge' = Min({xmtAge + 1, T1})
    /\ rcvAge' = Min({rcvAge + 1, T2})
    /\ disasAge' = Min({disasAge + 1, T3(MaxRtt)})
    /\ UNCHANGED <<state, idVars, tmpUp, rtt, nearest, netVars, histVars>>

Transmitter == Disassemble \/ Probe
Receiver ==
    \/ \E x \in 0 .. IdMax : Outdated(x) \/ Accept(x)
    \/ \E d \in Segs \X BOOLEAN : DprobeAnswer(d)
Monitor == SendDue \/ Timeout \/ DisassemblyTimeout

Next ==
    \/ Transmitter \/ Receiver \/ Monitor
    \/ Lose \/ (\E k \in Segs : Break(k)) \/ Repair \/ Tick

Spec == Init /\ [][Next]_vars

\* The three threads loop for ever and time passes; nothing is assumed of the
\* network.
Fairness ==
    WF_vars(Transmitter) /\ WF_vars(Receiver) /\ WF_vars(Monitor) /\ WF_vars(Tick)

FairSpec == Spec /\ Fairness

-----------------------------------------------------------------------------
TypeOK ==
    /\ state \in States
    /\ xmtId \in 0 .. IdMax /\ lastAck \in 0 .. IdMax
    /\ rtt1Thresh \in Rtt1Count .. IdMax + Rtt1Count
    /\ tmpUp \in SUBSET Segs /\ tmpUp # Segs /\ rtt \in 0 .. MaxRtt
    /\ xmtAge \in 0 .. T1 /\ rcvAge \in 0 .. T2 /\ disasAge \in 0 .. T3(MaxRtt)
    /\ nearest \in -1 .. N - 1
    /\ probes \in SUBSET (0 .. IdMax) /\ dprobes \in SUBSET (Segs \X BOOLEAN)
    /\ broken \in 0 .. N
    /\ answered \in SUBSET Segs /\ late \in BOOLEAN

\* A cycle is watched for silence only once a probe has come back whose number
\* reaches the threshold of the last start, whatever comes back late.
MonIsEarned == state \in {"MON", "DISAS", "DWAIT"} => lastAck >= rtt1Thresh

\* The report always names a segment, one that has not answered in this round
\* while, but for late answers, all before it have.
ReportedIsNearest ==
    [][DisassemblyTimeout =>
          /\ nearest' \in Segs \ answered
          /\ late \/ 0 .. nearest' - 1 \subseteq answered]_vars

\* A break of segment k in a monitored cycle that is not repaired is reported,
\* and not as being further away, unless late answers make all segments seem up.
BreakIsReported ==
    \A k \in Segs :
        state = "MON" /\ broken = k ~> nearest \in 0 .. k \/ broken = N \/ late

-----------------------------------------------------------------------------
\* An outdated xmt_id means "high delay or reordering" (the message of the
\* receiver): the last probe sent is never outdated.
LastIsNotOutdated ==
    [][\A x \in probes : Outdated(x) => x # xmtId]_vars
=============================================================================
