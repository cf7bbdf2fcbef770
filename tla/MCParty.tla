------------------------------ MODULE MCParty ------------------------------
(* Four characters: a leader, a member, one who is invited and one outside.  *)
EXTENDS Party

Setting(m, r, j) == [max |-> m, remove |-> r, rejoin |-> j]
MCSettings == {Setting(3, FALSE, FALSE), Setting(3, TRUE, TRUE), Setting(2, TRUE, TRUE)}

Symmetry == Permutations(Chars)
=============================================================================
