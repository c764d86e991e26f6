------------------------------- MODULE PayOnce -------------------------------
(***************************************************************************)
(* What payment processing promises the client: the attempts to pay, one   *)
(* after the other, of which at most one has the money, and a verdict that *)
(* never says "completed" unless the operator was paid.                    *)
(***************************************************************************)
CONSTANTS Attempts

VARIABLES
    taken,    \* the attempts that have, or may still get, the money
    settled,  \* the operator has it for good
    verdict   \* "open", "closed" or "completed": what the kiosk has recorded

Init == taken = {} /\ settled = FALSE /\ verdict \in {"open", "closed"}

Take(a) ==
    /\ taken = {}
    /\ taken' = {a}
    /\ settled' \in BOOLEAN
    /\ UNCHANGED verdict

Settle ==
    /\ taken # {} /\ settled' = TRUE
    /\ UNCHANGED <<taken, verdict>>

Refuse ==
    /\ ~settled
    /\ taken' = {}
    /\ UNCHANGED <<settled, verdict>>

Decide(v) ==
    /\ v = "completed" => settled
    /\ verdict' = v
    /\ UNCHANGED <<taken, settled>>

Next == \/ \E a \in Attempts : Take(a)
        \/ Settle \/ Refuse
        \/ \E v \in {"open", "closed", "completed"} : Decide(v)

Spec == Init /\ [][Next]_<<taken, settled, verdict>>
=============================================================================
