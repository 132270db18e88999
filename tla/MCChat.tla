------------------------------- MODULE MCChat -------------------------------
(* A behaviour has the deployment and the bounds of one scenario: a sender at
   the limit of its rate, texts before each judge, and messages that are sent,
   retried and moderated at the same time. *)
EXTENDS Chat

MCTexts == {{}, {"listed"}, {"review", "block"}}

B(instances, redis, pg) ==
    [instances |-> instances, redis |-> redis, pg |-> pg, primary |-> "local",
     texts |-> {{}},
     moderate |-> FALSE, clients |-> 0, jobs |-> 3, time |-> 0, faults |-> 0]

AtTheLimit ==
    {[B(1, FALSE, FALSE) EXCEPT !.jobs = 4, !.time = 3],
     [B(1, FALSE, TRUE) EXCEPT !.jobs = 4, !.time = 1, !.faults = 1],
     [B(2, FALSE, TRUE) EXCEPT !.jobs = 4, !.time = 1],
     [B(2, TRUE, TRUE) EXCEPT !.time = 1, !.faults = 1]}
Judging ==
    {[B(1, FALSE, pg) EXCEPT
        !.primary = p, !.texts = MCTexts, !.jobs = 2, !.faults = 1] :
        pg \in BOOLEAN, p \in {"local", "green"}}
Moderating ==
    {[B(1, FALSE, pg) EXCEPT !.moderate = TRUE, !.clients = 1, !.jobs = 3, !.faults = 1] :
        pg \in BOOLEAN}
    \cup {[B(2, TRUE, TRUE) EXCEPT !.moderate = TRUE, !.clients = 1]}

MCBounds == AtTheLimit \cup Judging \cup Moderating
=============================================================================
