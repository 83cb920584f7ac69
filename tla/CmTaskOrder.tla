------------------------------ MODULE CmTaskOrder ------------------------------
(***************************************************************************)
(* What a CmQueue promises its application: the tasks it accepts run one   *)
(* at a time in the order of the Enqueue calls, and a task is reported     *)
(* finished, and then forgotten, only after it ran, also in that order.    *)
(***************************************************************************)
EXTENDS Naturals, Sequences

CONSTANT Tasks

VARIABLES
    outstanding,  \* tasks accepted and not forgotten, oldest first
    executed,     \* tasks that ran
    reported      \* tasks reported finished

orderVars == <<outstanding, executed, reported>>

Init == outstanding = <<>> /\ executed = {} /\ reported = {}

Listed(t) == \E k \in DOMAIN outstanding : outstanding[k] = t

Accept(t) ==
    /\ ~Listed(t) /\ t \notin executed
    /\ outstanding' = Append(outstanding, t)
    /\ UNCHANGED <<executed, reported>>

\* Nothing overtakes: the oldest task that has not run is the next to run.
Execute ==
    \E k \in DOMAIN outstanding :
        /\ outstanding[k] \notin executed
        /\ \A j \in 1 .. k - 1 : outstanding[j] \in executed
        /\ executed' = executed \cup {outstanding[k]}
        /\ UNCHANGED <<outstanding, reported>>

Report(t) ==
    /\ Listed(t) /\ t \in executed \ reported
    /\ reported' = reported \cup {t}
    /\ UNCHANGED <<outstanding, executed>>

Forget ==
    /\ outstanding # <<>>
    /\ Head(outstanding) \in reported
    /\ outstanding' = Tail(outstanding)
    /\ UNCHANGED <<executed, reported>>

Next == Execute \/ Forget \/ \E t \in Tasks : Accept(t) \/ Report(t)

OrderSpec == Init /\ [][Next]_orderVars
=============================================================================
