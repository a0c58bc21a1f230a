------------------------------ MODULE Command ------------------------------
(***************************************************************************)
(* What the commands of cmd/escrow have in common.  Each invocation is a   *)
(* process of its own, a run, that loads the deal file, makes its blocking *)
(* calls one after the other, and saves the deal it has in memory.  There  *)
(* is no lock on the file: runs overlap freely.                            *)
(*                                                                         *)
(* Each call is one step.  A call of a faulty run may fail before it has   *)
(* an effect, or after it (the answer is lost or times out); either way    *)
(* the command returns the error, and the process and its memory are gone. *)
(***************************************************************************)
EXTENDS Deal

CONSTANTS
    Runs,     \* invocations of the command; a run's name is also that of
              \* the one transaction it may broadcast
    Faulty,   \* those whose calls may fail and whose process may crash
    Torn      \* contents of a file that does not parse as a deal

ASSUME CommandAssumption ==
    /\ Runs \subseteq Txs
    /\ Faulty \subseteq Runs
    /\ Torn \notin Deals

VARIABLES
    pc,       \* where each run is
    copy,     \* the deal each run loaded, as it has changed it since
    file      \* contents of the deal file

Final == {"done", "failed", "crashed"}

Goto(r, l) == pc' = [pc EXCEPT ![r] = l]

\* The call had its effect; its answer arrives, or the run gets an error.
Answered(r, l) == \/ Goto(r, l)
                  \/ r \in Faulty /\ Goto(r, "failed")

\* The call had no effect and the run gets an error.
Refused(r) == r \in Faulty /\ Goto(r, "failed")

\* The store's Save is one os.WriteFile, which first empties the file ...
TruncateFile(r) ==
    /\ pc[r] = "save"
    /\ \/ file' = Torn /\ Answered(r, "write")
       \/ Refused(r) /\ UNCHANGED file
    /\ UNCHANGED copy

\* ... and then writes it; over what another run wrote in the meantime the
\* tail of a longer text remains.
WriteFile(r) ==
    /\ pc[r] = "write"
    /\ \/ file' = copy[r] /\ Goto(r, "done")
       \/ file # Torn /\ file' = Torn /\ Goto(r, "done")
       \/ Refused(r) /\ UNCHANGED file
    /\ UNCHANGED copy

\* The process dies at any point between its first and its last call.
Die(r) ==
    /\ r \in Faulty
    /\ pc[r] \notin {"idle"} \cup Final
    /\ Goto(r, "crashed")
    /\ UNCHANGED <<copy, file>>
=============================================================================
