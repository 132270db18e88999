----------------------------- MODULE MCIdentity -----------------------------
(* A behaviour has the bounds of one scenario: racing logins in each store,
   rotation of stored and unstored keys with a restart, and two verifications
   of a token from each kind of provider. *)
EXTENDS Identity

B(kind, envKid, stored, pg) ==
    [kind |-> kind, envKid |-> envKid, stored |-> stored, pg |-> pg,
     dev |-> TRUE, ids |-> FALSE, challenges |-> 0, logins |-> 2, checks |-> 0,
     time |-> 0, rotations |-> 0, restarts |-> 0, faults |-> 0]

SmsRaces ==
    {[B("file", TRUE, FALSE, pg) EXCEPT
        !.dev = FALSE, !.challenges = 2, !.time = 2, !.restarts = 1, !.faults = 1] :
            pg \in BOOLEAN}
DevRaces ==
    {[B("file", TRUE, FALSE, pg) EXCEPT !.ids = TRUE, !.challenges = 1, !.logins = 3] :
            pg \in BOOLEAN}
Rotations ==
    {[B("kms", FALSE, stored, TRUE) EXCEPT
        !.logins = 1, !.rotations = 3, !.restarts = 1, !.faults = f, !.time = 5] :
            stored \in BOOLEAN, f \in 0 .. 1}
Clients ==
    {[B("kms", FALSE, FALSE, TRUE) EXCEPT
        !.checks = 2, !.rotations = 1, !.faults = f, !.time = 2 - f] : f \in 0 .. 1}
    \cup
    {[B(kind, TRUE, FALSE, TRUE) EXCEPT
        !.checks = 2, !.restarts = 1, !.time = 2] : kind \in {"file", "ephemeral"}}
    \cup
    {[B("ephemeral", FALSE, FALSE, TRUE) EXCEPT !.checks = 1, !.restarts = 1, !.time = 2],
     [B("vault", FALSE, FALSE, TRUE) EXCEPT
        !.checks = 1, !.restarts = 1, !.rotations = 1, !.faults = 1, !.time = 2]}

MCBounds == SmsRaces \cup DevRaces \cup Rotations \cup Clients
=============================================================================
