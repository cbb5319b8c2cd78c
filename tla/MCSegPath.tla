----------------------------- MODULE MCSegPath -----------------------------
EXTENDS SegPath

\* Four routers, every link present or not.  The links among 1, 2, 3 are short
\* or long and have bandwidth, except that of 1 and 2, which may have none;
\* those to 4 are short or long, without bandwidth when short; 2 and 4 may
\* also have a bundle of two.  A long link has the small delay.
MCNodes == 1..4

Pairs == <<<<1, 2>>, <<1, 3>>, <<1, 4>>, <<2, 3>>, <<2, 4>>, <<3, 4>>>>

Link(metric, bw) == [metric |-> metric, bw |-> bw, delay |-> 4 - metric]

Links == <<
    {<<>>, <<Link(1, 0)>>, <<Link(3, 1)>>},
    {<<>>, <<Link(1, 1)>>, <<Link(3, 1)>>},
    {<<>>, <<Link(1, 0)>>, <<Link(3, 1)>>},
    {<<>>, <<Link(1, 1)>>},
    {<<>>, <<Link(1, 0)>>, <<Link(1, 1)>>, <<Link(1, 0), Link(3, 1)>>},
    {<<>>, <<Link(1, 0)>>, <<Link(1, 1)>>}>>

\* Both directions of the i-th link of the p-th pair.
Directed(p, i, l) ==
    {[id |-> 4 * p + 2 * i + k, local |-> Pairs[p][k], remote |-> Pairs[p][3 - k],
      metric |-> l.metric, bw |-> l.bw, delay |-> l.delay] : k \in {1, 2}}

MCGraphs ==
    {UNION {UNION {Directed(p, i, c[p][i]) : i \in 1..Len(c[p])} : p \in 1..6} :
        c \in Links[1] \X Links[2] \X Links[3] \X Links[4] \X Links[5] \X Links[6]}

MCRequests ==
    {[src |-> 1, dst |-> 4, via |-> r[1], bw |-> r[2], byDelay |-> r[3]] :
        r \in {<<<<>>, 0, FALSE>>, <<<<>>, 1, FALSE>>, <<<<>>, 0, TRUE>>,
               <<<<2>>, 0, FALSE>>, <<<<3>>, 1, FALSE>>}}

\* Four links of at most 3 stay below Infinite, and every link costs something.
ASSUME Bounds(3) /\ PositiveCosts
=============================================================================
