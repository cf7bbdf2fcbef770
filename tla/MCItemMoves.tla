---------------------------- MODULE MCItemMoves ----------------------------
(* Two characters, with a stack that can be parted and one thing to wear, or with a *)
(* stack of one and two things to wear.                                             *)
EXTENDS ItemMoves, TLC

Symmetry == Permutations(Chars) \cup Permutations(Wearables) \cup Permutations(Stacks)

(* Where the last item came from matters while one is held, what was accepted while
   there is a trade: two states that differ only there are one. *)
View ==
  << amount, world, gotten_item, gotten_by, is_gotten, inuse, reserved, trading_with, client,
     [c \in Chars |-> Holds(c) /\ gotten_item_source[c] = "ground"],
     [c \in Chars |-> Holds(c) /\ gotten_item_source[c] = "equipped"],
     [c \in Chars |-> is_trading(c) /\ trade_accepted[c]] >>
=============================================================================
