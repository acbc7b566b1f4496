----------------------------- MODULE MCClosure -----------------------------
(* Closure for TLC: one or two records and a planner with few ideas.       *)
EXTENDS Closure

CONSTANTS w1, w2, h1

SomeActions == {"ISOLATE", "INSPECT", "NOTIFY", Unsupported}

PlanOf(steps) == [steps |-> steps, conforms |-> TRUE]

\* Plans of different events do not meet, so one record of a log reaches the
\* planner; the others end before it, in every way they can.
MixedLogs == {<<"ok", "notjson">>, <<"refused", "rejected">>, <<"invalid", "rejected">>}

OneRecord == {<<"ok">>}

\* Two plans that agree on no step, one of them cut off by MaxCommands, and
\* one the actuators do not know.
SoundPlans == {PlanOf(<<"ISOLATE", "INSPECT">>), PlanOf(<<"NOTIFY", "ISOLATE", "NOTIFY">>),
               PlanOf(<<"NOTIFY", Unsupported>>)}

\* A plan the interceptor stores and the worker cannot parse.
PoisonPlans == {[steps |-> <<"NOTIFY">>, conforms |-> FALSE]}

=============================================================================
