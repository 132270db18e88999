----------------------------- MODULE FeedState -----------------------------
(***************************************************************************)
(* go/pkg/yunmao/feedstate: the state machine of one feeding request, and   *)
(* the abstract specification every implementation of it must refine: each  *)
(* request is born "created" and walks the edges of allowedTransitions.     *)
(***************************************************************************)
CONSTANT Request
VARIABLE status

State == {"created", "rejected", "accepted", "queued", "dispatched",
          "acknowledged", "succeeded", "failed", "compensated"}

(* The adjacency table; a state with no edge out of it maps to the empty set *)
allowedTransitions ==
    [s \in State |->
        CASE s = "created"      -> {"rejected", "accepted"}
          [] s = "accepted"     -> {"queued", "rejected"}
          [] s = "queued"       -> {"dispatched", "failed", "rejected"}
          [] s = "dispatched"   -> {"acknowledged", "failed", "rejected"}
          [] s = "acknowledged" -> {"succeeded", "failed"}
          [] s = "failed"       -> {"compensated"}
          [] OTHER              -> {}]

IsTerminal(s) == s \in {"rejected", "succeeded", "compensated"}

Legal(from, to) == to \in allowedTransitions[from]

(* Mutant: the edge is not checked *)
Transition_Unchecked(from, to) == to

(* feedstate.Transition as transitionLocked uses it: on an illegal edge the
   error is dropped and the request stays where it is *)
Transition(from, to) == IF Legal(from, to) THEN to ELSE from

----------------------------------------------------------------------------
Init == status = [r \in Request |-> "created"]

(* One critical section may take two edges in a row (an acknowledgement does)
   and move several requests (a timeout scan does) *)
Reach(from, to) ==
    \/ Legal(from, to)
    \/ \E mid \in State : Legal(from, mid) /\ Legal(mid, to)

Next ==
    /\ status' \in [Request -> State]
    /\ \A r \in Request : status'[r] = status[r] \/ Reach(status[r], status'[r])

Spec == Init /\ [][Next]_status

TypeOK == status \in [Request -> State]
=============================================================================
