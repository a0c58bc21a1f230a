----------------------------- MODULE MCAddress -----------------------------
(* Addresses of short programs, and of one as long as the hash of a key. *)
EXTENDS Address

\* "ert" and "ex".
MCHrps == {<<101, 114, 116>>, <<101, 120>>}

MCPrograms == {<<b>> : b \in {0, 1, 128, 255}}
                \cup {<<0, 255>>, <<255, 254>>, <<1, 2, 3>>, <<170, 85, 170, 85, 15>>}
                \cup {[i \in 1 .. 20 |-> (37 * i) % 256]}

\* A version, and groups with every kind of padding.
MCGroups  == {0, 1, 31}
MCForeign == {<<v>> \o g : v \in {0, 1, 31},
                           g \in UNION {[1 .. n -> MCGroups] : n \in 0 .. 2}}

\* Every character of the charset, the separator, "b" and "Q".
MCTypos == {bech32Charset[i] : i \in 1 .. 32} \cup {Separator, 98, 81}
=============================================================================
