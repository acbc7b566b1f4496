------------------------------ MODULE MCIngest ------------------------------
(***************************************************************************)
(* Ingest for TLC: topics small enough to enumerate.                       *)
(***************************************************************************)
EXTENDS Ingest

CONSTANTS c1, c2, p1, w1, w2, q1

Reading(c, t, v) == [ch |-> c, ts |-> t, val |-> v]

\* All workers in one process.
OneProc == [w \in Workers |-> q1]

\* Three readings of one channel in one partition, the first a breach: the
\* timestamps are in order, out of order or repeated, the other values arbitrary.
OneChannelLogs ==
    {[p \in {p1} |-> <<Reading(c1, t[1], v[1]), Reading(c1, t[2], v[2]),
                       Reading(c1, t[3], v[3])>>] :
        t \in {<<1, 2, 3>>, <<1, 3, 2>>, <<1, 1, 2>>},
        v \in {u \in [1..3 -> {"ok", "high", "crit"}] : Breached(u[1])}}

\* Two readings of one channel and, between or after them, a malformed body
\* or a reading of a channel without a rule.
MixedLogs ==
    {[p \in {p1} |-> <<Reading(c1, 1, v), Reading(c1, 2, x), y>>] :
        v \in {"high", "crit"}, x \in {"ok", "band"},
        y \in {Reading(c1, 0, Malformed), Reading(c2, 1, "crit"), Reading(c1, 2, "high")}}

\* Two readings of one channel.
PairLogs ==
    {[p \in {p1} |-> <<Reading(c1, 1, v), Reading(c1, 2, x)>>] :
        v, x \in {"ok", "high", "crit"}}

\* Two breaches: no CLEARED can close the alarm again.
BreachLogs ==
    {[p \in {p1} |-> <<Reading(c1, 1, v), Reading(c1, 2, x)>>] : v, x \in {"high", "crit"}}

=============================================================================
