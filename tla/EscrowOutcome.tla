--------------------------- MODULE EscrowOutcome ---------------------------
(***************************************************************************)
(* What PROTOCOL.md promises of the end of a deal, with no mention of      *)
(* commands, files or failing calls: each escrow output leaves the escrow  *)
(* once.  Either its owner takes it with a recovery kit, or the service    *)
(* takes it for one party and then sends that party one payment.           *)
(***************************************************************************)
CONSTANT Outputs

VARIABLES
    holder,   \* who controls the money of each escrow output
    due,      \* whom the service has claimed it for
    payment   \* the service's payment to that party
vars == <<holder, due, payment>>

Parties == {"seller", "buyer"}

TypeOK == /\ holder \in [Outputs -> {"escrow", "service"} \cup Parties]
          /\ due \in [Outputs -> {"nobody"} \cup Parties]
          /\ payment \in [Outputs -> {"none", "inflight", "paid", "failed"}]

Init == /\ holder = [o \in Outputs |-> "escrow"]
        /\ due = [o \in Outputs |-> "nobody"]
        /\ payment = [o \in Outputs |-> "none"]

ClaimFor(o, p) == /\ holder[o] = "escrow"
                  /\ holder' = [holder EXCEPT ![o] = "service"]
                  /\ due' = [due EXCEPT ![o] = p]
                  /\ UNCHANGED payment

Recover(o, p) == /\ holder[o] = "escrow"
                 /\ holder' = [holder EXCEPT ![o] = p]
                 /\ UNCHANGED <<due, payment>>

Send(o) == /\ holder[o] = "service"
           /\ payment[o] = "none"
           /\ payment' = [payment EXCEPT ![o] = "inflight"]
           /\ UNCHANGED <<holder, due>>

Resolve(o) == /\ payment[o] = "inflight"
              /\ \E res \in {"paid", "failed"} :
                    payment' = [payment EXCEPT ![o] = res]
              /\ UNCHANGED <<holder, due>>

Next == \E o \in Outputs : \/ \E p \in Parties : ClaimFor(o, p) \/ Recover(o, p)
                           \/ Send(o)
                           \/ Resolve(o)

Spec == Init /\ [][Next]_vars
=============================================================================
