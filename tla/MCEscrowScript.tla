--------------------------- MODULE MCEscrowScript ---------------------------
(* Scripts against every short witness, and locktimes at every boundary. *)
EXTENDS EscrowScript

MCItems == {Sig(k) : k \in Parties} \cup {Data("secret"), Data("other"), Empty}

\* Every stack of at most three items on the outputs with the shortest timeout;
\* on the others one signature of those who have a timeout leaf.
MCWitnesses(n) ==
    CASE n = 2          -> UNION {[1 .. l -> MCItems] : l \in 0 .. 3}
      [] n = 17         -> {<<Sig("buyer")>>}
      [] n \notin {2, 17} -> {<<Sig("buyer")>>, <<Sig("service")>>}
MCNoWitnesses(n) == {}

\* With every stack the sequences that differ in what the node makes of them;
\* on one timeout every sequence there is; on the others those next to the
\* timeout and to the width of the field, with and without the bits above it.
MCSequences(n) ==
    CASE n = 2  -> {0, n - 1, n, TypeFlag + n, DisableFlag + n, Word - 1}
      [] n = 17 -> 0 .. Word - 1
      [] n \notin {2, 17} ->
            {0, n - 1, n, n + 1, Mask - 1, Mask, Mask + n - 1, Mask + n, TypeFlag,
             TypeFlag + n, DisableFlag, DisableFlag + n, Word - 1}

\* A short timeout, small integers, 81 to 96 and the largest number of blocks,
\* each in the last block in which it is early and in the first in which not.
MCCases    == UNION {{<<n, n - 1>>, <<n, n>>} : n \in {1, 2, 16, 17, 80, 97, 127}}
MCTooLong  == {<<128, 0>>, <<128, 127>>, <<128, 128>>}
MCOpcodes  == {<<80, 80>>, <<81, 81>>}
=============================================================================
