----------------------------- MODULE AtomicSwap -----------------------------
(***************************************************************************)
(* What PROTOCOL.md promises of the swap from Lightning to Liquid, with    *)
(* no mention of processes, files or calls that fail: for each swap, a     *)
(* payment that is offered to the buyer, then held, and in the end taken   *)
(* by the service or given back, and an escrow output that exists or not.  *)
(* The service takes the payment only if the escrow exists, and creates    *)
(* the escrow only for a payment that was held.  What may go wrong is on   *)
(* the service's side alone: the payment of an escrow that already exists  *)
(* may still be given back.                                                *)
(***************************************************************************)
CONSTANT Swaps

VARIABLES payment, escrowed
vars == <<payment, escrowed>>

Payments == {"none", "offered", "held", "taken", "withdrawn", "returned"}

TypeOK == /\ payment \in [Swaps -> Payments]
          /\ escrowed \subseteq Swaps

Init == /\ payment = [s \in Swaps |-> "none"]
        /\ escrowed = {}

Becomes(s, from, to) == /\ payment[s] = from
                        /\ payment' = [payment EXCEPT ![s] = to]

Offer(s)    == Becomes(s, "none", "offered") /\ UNCHANGED escrowed
Hold(s)     == Becomes(s, "offered", "held") /\ UNCHANGED escrowed
Withdraw(s) == Becomes(s, "offered", "withdrawn") /\ UNCHANGED escrowed
Return(s)   == Becomes(s, "held", "returned") /\ UNCHANGED escrowed

Escrow(s) == /\ payment[s] \in {"held", "returned"}
             /\ escrowed' = escrowed \cup {s}
             /\ UNCHANGED payment

Take(s) == /\ s \in escrowed
           /\ Becomes(s, "held", "taken")
           /\ UNCHANGED escrowed

Next == \E s \in Swaps : \/ Offer(s) \/ Hold(s) \/ Withdraw(s)
                         \/ Return(s) \/ Escrow(s) \/ Take(s)

Spec == Init /\ [][Next]_vars
=============================================================================
