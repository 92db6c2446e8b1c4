------------------------------ MODULE MCLimits ------------------------------
(* Two clients and two ISPs, prefixes of two lengths.                      *)
EXTENDS Limits

CONSTANTS c1, c2, w, A, B

Symmetry == Permutations(Client) \cup Permutations(Isp)

Cuts == [l \in 0..1 |-> IF l = 0 THEN {{0, 1}} ELSE {{0}, {1}}]

Plain == [clonecidr |-> 1, forced |-> FALSE, group |-> FALSE, active |-> TRUE,
          nogline |-> FALSE, limit |-> 1, identlimit |-> 1]
StoredIsps == {Plain, [Plain EXCEPT !.clonecidr = 0, !.forced = TRUE, !.limit = 2,
                                     !.identlimit = 0]}

(* With these and a third ISP a removal overlooks a client.                *)
StoredForced == {Plain, [Plain EXCEPT !.forced = TRUE], [Plain EXCEPT !.active = FALSE]}
=============================================================================
