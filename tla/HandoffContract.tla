--------------------------- MODULE HandoffContract ---------------------------
(***************************************************************************)
(* What the planning backend promises about handing a plan to another      *)
(* service, whatever its requests and workers do concurrently and whatever *)
(* transaction is lost:                                                    *)
(*                                                                         *)
(*   - a call is made only for a plan whose approval is committed;         *)
(*   - success is recorded only for a call that was accepted, one receipt  *)
(*     per accepted call at most;                                          *)
(*   - the session is claimed to be handed off only when some receipt is   *)
(*     recorded.                                                           *)
(*                                                                         *)
(* Delivery is AT LEAST once: the contract lets the same key be called     *)
(* again, which is what the backend can keep without the downstream's      *)
(* help.                                                                   *)
(***************************************************************************)
EXTENDS Naturals

CONSTANT Keys        \* idempotency keys, one per approval

VARIABLES approved,  \* keys whose outbox row is committed
          accepted,  \* downstream jobs made for each key
          recorded,  \* receipts recorded for each key
          claimed    \* the session says HANDED_OFF

contractVars == <<approved, accepted, recorded, claimed>>

Init ==
    /\ approved = {}
    /\ accepted = [k \in Keys |-> 0]
    /\ recorded = [k \in Keys |-> 0]
    /\ claimed = FALSE

\* An approval; the session is then waiting for its handoff (again).
Approve(k) ==
    /\ k \notin approved
    /\ approved' = approved \cup {k}
    /\ claimed' \in {claimed, FALSE}
    /\ UNCHANGED <<accepted, recorded>>

\* A downstream service accepts a call.
Accept(k) ==
    /\ k \in approved
    /\ accepted' = [accepted EXCEPT ![k] = @ + 1]
    /\ UNCHANGED <<approved, recorded, claimed>>

\* A receipt for an accepted call, and with it the claim.
Record(k) ==
    /\ recorded[k] < accepted[k]
    /\ recorded' = [recorded EXCEPT ![k] = @ + 1]
    /\ claimed' \in {claimed, TRUE}
    /\ UNCHANGED <<approved, accepted>>

\* A request that read the session earlier writes another state over the claim.
Withdraw ==
    /\ claimed
    /\ claimed' = FALSE
    /\ UNCHANGED <<approved, accepted, recorded>>

Next ==
    \/ \E k \in Keys : Approve(k) \/ Accept(k) \/ Record(k)
    \/ Withdraw

Spec == Init /\ [][Next]_contractVars
=============================================================================
