------------------------------ MODULE JoinDeal ------------------------------
(***************************************************************************)
(* The commands `escrow create` and `escrow join` on one deal file:        *)
(* createAction and joinAction of cmd/escrow/commands.go.                  *)
(*                                                                         *)
(* NewDeal draws the deal's ID, so one run alone, the Creator, can create  *)
(* the deal.  Its join token reaches the other runs, the joins, over       *)
(* whatever the seller likes.  A join works in the seller's data directory *)
(* or in one of its own, where there is no file yet.  A file that is not   *)
(* there and one that does not parse are both Torn, because joinAction     *)
(* does not tell the errors of Load apart.                                 *)
(***************************************************************************)
EXTENDS Command

CONSTANT Creator     \* the run of `escrow create`

VARIABLE token       \* the amount in the join token, once it was printed

vars == <<pc, copy, file, token>>

\* Each join draws the key and the secret that bear its name.
Joins == Runs \ {Creator}

PCs == {"idle", "save", "write"} \cup Final

TypeOK ==
    /\ pc \in [Runs -> PCs]
    /\ copy \in [Runs -> Deals \cup {Torn}]
    /\ file \in Deals \cup {Torn}
    /\ token \in {{}} \cup {{a} : a \in Amounts}

\* Nobody has created the deal yet, or someone has in another directory.
Init ==
    /\ copy = [r \in Runs |-> Torn]
    /\ file = Torn
    /\ \/ pc = [r \in Runs |-> "idle"] /\ token = {}
       \/ /\ pc = [r \in Runs |-> IF r = Creator THEN "done" ELSE "idle"]
          /\ \E a \in Amounts : token = {a}
-----------------------------------------------------------------------------
Create ==
    /\ pc[Creator] = "idle"
    /\ \E a \in Amounts : copy' = [copy EXCEPT ![Creator] = NewDeal(a)]
    /\ Goto(Creator, "save")
    /\ UNCHANGED <<file, token>>

\* What joinAction makes of the token: the seller's key is not in it.
FromToken(a) == [NewDeal(a) EXCEPT !.seller = FALSE]

\* Any error of Load makes joinAction rebuild the deal.
Loaded(a) == IF file = Torn THEN FromToken(a) ELSE file

JoinIt(r) ==
    /\ r # Creator
    /\ pc[r] = "idle"
    /\ \E a \in token :
          \/ /\ CanJoin(Loaded(a))
             /\ copy' = [copy EXCEPT ![r] = Join(Loaded(a), r)]
             /\ Goto(r, "save")
          \/ ~CanJoin(Loaded(a)) /\ Goto(r, "failed") /\ UNCHANGED copy
    /\ UNCHANGED <<file, token>>

Truncate(r) == TruncateFile(r) /\ UNCHANGED token

\* After its save, create prints the token.
Write(r) ==
    /\ WriteFile(r)
    /\ token' = IF r = Creator /\ pc'[r] = "done" THEN {copy[r].amount} ELSE token

Crash(r) == Die(r) /\ UNCHANGED token

Next == \/ Create
        \/ \E r \in Runs : JoinIt(r) \/ Truncate(r) \/ Write(r) \/ Crash(r)

Spec == Init /\ [][Next]_vars
-----------------------------------------------------------------------------
(***************************************************************************)
(* A statement of the source that the code does not keep.                  *)
(***************************************************************************)

\* commands.go:101, "Deal doesn't exist locally": a deal that was created in
\* this directory is never replaced by one that a join made from the token,
\* which does not have the seller's key.
SellerKeyKept ==
    pc[Creator] = "done" /\ copy[Creator] # Torn => file = Torn \/ file.seller
=============================================================================
