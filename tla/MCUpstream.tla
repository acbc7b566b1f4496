----------------------------- MODULE MCUpstream -----------------------------
(* Upstream for TLC: a consumer fleet, a client and a few deployments.     *)
EXTENDS Upstream

CONSTANTS r1, g1, shared, own

StoresOf == [r \in Replicas |-> IF r \in Enterprise THEN own ELSE shared]

Never == MaxTime + 1

Licence == [known |-> TRUE, active |-> TRUE, expires |-> Never, tenant |-> "acme",
            plan |-> "STANDARD", entitled |-> TRUE]

Agreed == [preflight |-> TRUE, strict |-> FALSE, routed |-> FALSE, maxRpm |-> 0,
           worker |-> Licence, standard |-> Licence, graphrag |-> Licence]

\* The tables agree: learned pace, configured pace, no preflight; an ENTERPRISE
\* subscription routed to a GraphRAG interceptor that knows its key or does not.
Sound ==
    {Agreed, [Agreed EXCEPT !.maxRpm = 1], [Agreed EXCEPT !.preflight = FALSE],
     [Agreed EXCEPT !.standard.expires = 2]}
    \cup {[Agreed EXCEPT !.routed = TRUE, !.worker.plan = "ENTERPRISE",
                         !.standard.plan = "ENTERPRISE", !.graphrag.known = k] : k \in BOOLEAN}

\* The worker's own licence fails, or the interceptor's table differs in one field.
Broken ==
    {[Agreed EXCEPT !.worker.active = FALSE], [Agreed EXCEPT !.worker.expires = 1],
     [Agreed EXCEPT !.worker.plan = "COMMUNITY"],
     [Agreed EXCEPT !.standard.known = FALSE], [Agreed EXCEPT !.standard.expires = 0],
     [Agreed EXCEPT !.standard.tenant = "umbrella"],
     [Agreed EXCEPT !.standard.plan = "ENTERPRISE"], [Agreed EXCEPT !.standard.entitled = FALSE]}

MCDeployments ==
    Sound \cup Broken \cup {[d EXCEPT !.strict = TRUE] : d \in {Agreed} \cup Broken}

=============================================================================
