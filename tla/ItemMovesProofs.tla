--------------------------- MODULE ItemMovesProofs ---------------------------
(***************************************************************************)
(* Proofs about ItemMoves, for any number of characters and items, any     *)
(* size of stacks and any amounts: the variables keep their types; and, as *)
(* long as every character has a backpack, no script moves an item out of  *)
(* a hand or into the trade window of somebody who does not trade, and no  *)
(* hook destroys what is being put into a trade (NoMisuse), every item is  *)
(* in one place that it knows, trades have two sides, and amounts are      *)
(* conserved.                                                              *)
(***************************************************************************)
EXTENDS ItemMoves, FiniteSetTheorems, TLAPS

NoMisuse ==
    /\ Packless = {}
    /\ Misuse \cap {"adds_to_no_trade", "takes_from_hand", "destroys_traded"} = {}

Worlds == [container : [Items -> Places], contents : [Places -> SUBSET Items]]

-----------------------------------------------------------------------------
(* Types.                                                                  *)

(* The containers of a character are different from each other and from other
   characters'. *)
LEMMA ContainersDiffer ==
    \A c, d \in Chars :
       /\ Pack(c) \in Places /\ Worn(c) \in Places /\ Offer(c) \in Places
       /\ None \notin {Pack(c), Worn(c), Offer(c)}
       /\ Pack(c) # Worn(d) /\ Pack(c) # Offer(d) /\ Worn(c) # Offer(d)
       /\ Pack(c) = Pack(d) => c = d
       /\ Worn(c) = Worn(d) => c = d
       /\ Offer(c) = Offer(d) => c = d
       /\ Pack(c)[2] = c /\ Worn(c)[2] = c /\ Offer(c)[2] = c
BY NoneAssumption DEF Pack, Worn, Offer, Places, Containers

(* Every place but the ground is a container of one character. *)
LEMMA EveryContainer ==
    ASSUME NEW k \in Places, k # None
    PROVE  \E c \in Chars : k[2] = c /\ (k = Pack(c) \/ k = Worn(c) \/ k = Offer(c))
BY DEF Pack, Worn, Offer, Places, Containers

(* What the four functions from worlds to worlds return is a world. *)
LEMMA PutType ==
    ASSUME NEW w \in Worlds, NEW i \in Items, NEW k \in Places
    PROVE  Put(w, i, k) \in Worlds
BY DEF Put, Worlds

LEMMA ExtricateType ==
    ASSUME NEW w \in Worlds, NEW i \in Items
    PROVE  true_extricate(w, i) \in Worlds
BY DEF true_extricate, Worlds, Places

LEMMA UndoType ==
    ASSUME NEW w \in Worlds, NEW i \in Items, NEW c \in Chars
    PROVE  undo_get_item(w, c, i) \subseteq Worlds
BY PutType, ContainersDiffer DEF undo_get_item, Places

LEMMA SwapType ==
    ASSUME NEW w \in Worlds, NEW c \in Chars, NEW d \in Chars
    PROVE  swap(w, c, d) \in Worlds
BY ContainersDiffer DEF swap, Worlds

LEMMA ReturnType ==
    ASSUME NEW w \in Worlds, NEW S \in SUBSET Chars
    PROVE  return_traded_items(w, S) \subseteq Worlds
<1> SUFFICES ASSUME NEW v \in return_traded_items(w, S)
             PROVE  v \in Worlds
  OBVIOUS
<1> DEFINE P == S \ Packless
           Of(c) == w.contents[Offer(c)]
<1>1. PICK g \in SUBSET UNION {Of(c) : c \in P} :
         v = [contents  |-> [k \in Places |->
                            IF k = None THEN w.contents[k] \cup g
                            ELSE IF k[2] \notin P \/ k = Worn(k[2]) THEN w.contents[k]
                            ELSE IF k = Offer(k[2]) THEN {}
                            ELSE w.contents[k] \cup (Of(k[2]) \ g)],
              container |-> [i \in Items |->
                            IF i \in g THEN None
                            ELSE IF \E c \in P : i \in Of(c)
                                 THEN Pack(CHOOSE c \in P : i \in Of(c))
                                 ELSE w.container[i]]]
  BY DEF return_traded_items
<1>2. \A c \in P : Of(c) \subseteq Items
  BY ContainersDiffer DEF Worlds
<1>3. g \subseteq Items
  BY <1>2
<1>4. v.contents \in [Places -> SUBSET Items]
  <2>1. \A k \in Places : w.contents[k] \subseteq Items
    BY DEF Worlds
  <2>2. v.contents = [k \in Places |->
                            IF k = None THEN w.contents[k] \cup g
                            ELSE IF k[2] \notin P \/ k = Worn(k[2]) THEN w.contents[k]
                            ELSE IF k = Offer(k[2]) THEN {}
                            ELSE w.contents[k] \cup (Of(k[2]) \ g)]
    BY <1>1
  <2>3. \A k \in Places : v.contents[k] \subseteq Items
    BY <1>2, <1>3, <2>1, <2>2
  <2> HIDE DEF Of
  <2> QED
    BY <2>2, <2>3
<1>5. v.container \in [Items -> Places]
  <2>1. ASSUME NEW i \in Items, \E c \in P : i \in Of(c)
        PROVE  Pack(CHOOSE c \in P : i \in Of(c)) \in Places
    <3>1. (CHOOSE c \in P : i \in Of(c)) \in Chars
      BY <2>1
    <3> QED
      BY <3>1, ContainersDiffer
  <2> HIDE DEF Of
  <2> QED
    BY <1>1, <2>1 DEF Places, Worlds
<1>6. DOMAIN v = {"contents", "container"} /\ v = [contents |-> v.contents, container |-> v.container]
  BY <1>1
<1> QED
  BY <1>4, <1>5, <1>6 DEF Worlds

(* The types of the hands, of the trades, and of the rest. *)
HandTypes ==
    /\ gotten_item \in [Chars -> Items \cup {None}]
    /\ gotten_item_source \in [Chars -> {"ground", "equipped", "container"}]
    /\ gotten_by \in [Items -> Chars \cup {None}]
    /\ is_gotten \subseteq Items /\ inuse \subseteq Items

TradeTypes ==
    /\ trading_with \in [Chars -> Chars \cup {None}]
    /\ trade_accepted \in [Chars -> BOOLEAN]

OtherTypes ==
    /\ amount \in [Items -> Nat]
    /\ reserved \subseteq Items
    /\ client \in [Chars -> {"playing", "closing", "lingering", "none"}]

LEMMA TypeParts ==
    TypeOK <=> world \in Worlds /\ HandTypes /\ TradeTypes /\ OtherTypes
BY DEF TypeOK, Worlds, HandTypes, TradeTypes, OtherTypes

LEMMA TypePartsNext ==
    world' \in Worlds /\ HandTypes' /\ TradeTypes' /\ OtherTypes' => TypeOK'
BY DEF TypeOK, Worlds, HandTypes, TradeTypes, OtherTypes

LEMMA TypeInit == Init => TypeOK
<1> SUFFICES ASSUME Init PROVE TypeOK
  OBVIOUS
<1>1. PICK s \in Stacks, n \in 1 .. StackSize, W \in SUBSET Wearables :
         /\ n + Cardinality(W) = Units
         /\ amount = [i \in Items |-> IF i = s THEN n ELSE IF i \in W THEN 1 ELSE 0]
         /\ world = [container |-> [i \in Items |-> None],
                     contents  |-> [k \in Places |->
                                    IF k = None THEN W \cup {s} ELSE {}]]
  BY Zenon DEF Init
<1>2. amount \in [Items -> Nat]
  BY <1>1, ItemMovesAssumption
<1>3. world \in Worlds
  BY <1>1 DEF Worlds, Places, Items
<1>4. HandTypes /\ TradeTypes
  BY DEF Init, HandTypes, TradeTypes
<1>5. OtherTypes
  BY <1>2 DEF Init, OtherTypes
<1> QED
  BY <1>3, <1>4, <1>5, TypeParts

(* Letting the item go, with the world that comes of it. *)
LEMMA LetGoTypes ==
    ASSUME HandTypes, NEW c \in Chars, Holds(c), LetGo(c)
    PROVE  HandTypes' /\ gotten_item[c] \in Items
BY DEF HandTypes, Holds, LetGo

LEMMA ClearTypes ==
    ASSUME HandTypes, world \in Worlds, NEW c \in Chars, clear_gotten_item(c)
    PROVE  HandTypes' /\ world' \in Worlds
<1>1. CASE Holds(c)
  <2>1. LetGo(c) /\ world' \in undo_get_item(world, c, gotten_item[c])
    BY <1>1 DEF clear_gotten_item
  <2> QED
    BY <1>1, <2>1, LetGoTypes, UndoType
<1>2. CASE ~Holds(c)
  <2>1. UNCHANGED << world, hand >>
    BY <1>2 DEF clear_gotten_item
  <2> QED
    BY <2>1 DEF hand, HandTypes
<1> QED
  BY <1>1, <1>2

LEMMA TradeTypesKept ==
    ASSUME TradeTypes, NEW c \in Chars, NEW d \in Chars
    PROVE  /\ do_open_trade_window(c, d) => TradeTypes'
           /\ NotAccepted(c, d) /\ UNCHANGED trading_with => TradeTypes'
BY DEF TradeTypes, do_open_trade_window, NotAccepted

LEMMA CancelTypes ==
    ASSUME TradeTypes, NEW w \in Worlds, NEW S \in SUBSET Chars,
           \A c \in S : is_trading(c), CancelTrades(w, S)
    PROVE  TradeTypes' /\ world' \in Worlds
<1> DEFINE T == S \cup {trading_with[c] : c \in S}
<1>1. T \in SUBSET Chars
  BY DEF TradeTypes, is_trading
<1>2. world' \in return_traded_items(w, T) /\ EndTrades(T)
  BY DEF CancelTrades
<1>3. world' \in Worlds
  BY <1>1, <1>2, ReturnType
<1>4. TradeTypes'
  BY <1>2 DEF TradeTypes, EndTrades
<1> QED
  BY <1>3, <1>4

LEMMA GetItemTypes ==
    ASSUME TypeOK, NEW c \in Chars, NEW i \in Items, get_item(c, i)
    PROVE  TypeOK'
<1>1. world \in Worlds /\ HandTypes /\ TradeTypes /\ OtherTypes
  BY TypeParts
<1>2. world' \in Worlds /\ amount' \in [Items -> Nat]
  <2>1. CASE world' = true_extricate(world, i) /\ UNCHANGED amount
    BY <1>1, <2>1, ExtricateType DEF OtherTypes
  <2>2. CASE \E n \in 1 .. amount[i] - 1, j \in Stacks : Slice(i, n, j)
    <3>1. PICK n \in 1 .. amount[i] - 1, j \in Stacks : Slice(i, n, j)
      BY <2>2
    <3>2. j \in Items /\ amount[i] \in Nat
      BY <1>1 DEF Items, OtherTypes
    <3>3. amount' \in [Items -> Nat]
      <4>1. n \in Nat /\ amount[i] - n \in Nat
        BY <3>2
      <4>2. amount' = [amount EXCEPT ![i] = n, ![j] = amount[i] - n]
        BY <3>1 DEF Slice
      <4> QED
        BY <1>1, <4>1, <4>2 DEF OtherTypes
    <3>4. PICK k \in {world.container[i], None} :
             world' = Put(true_extricate(world, i), j, k)
      BY <3>1 DEF Slice
    <3>5. k \in Places
      BY <1>1 DEF Worlds, Places
    <3> QED
      BY <1>1, <3>2, <3>3, <3>4, <3>5, ExtricateType, PutType
  <2> QED
    BY <2>1, <2>2 DEF get_item
<1>3. HandTypes'
  BY <1>1 DEF get_item, HandTypes
<1>4. TradeTypes' /\ reserved' = reserved /\ client' = client
  BY <1>1 DEF get_item, TradeTypes, trade
<1> QED
  BY <1>1, <1>2, <1>3, <1>4, TypePartsNext DEF OtherTypes

(* The actions that let an item go: the amounts and the trades aside. *)
LEMMA DroppingTypes ==
    ASSUME TypeOK, NEW c \in Chars, Dropping(c)
    PROVE  /\ world \in Worlds /\ TradeTypes /\ OtherTypes
           /\ HandTypes' /\ gotten_item[c] \in Items /\ client' = client
BY TypeParts, LetGoTypes DEF Dropping

LEMMA DragTypes ==
    ASSUME TypeOK, NEW c \in Chars, Drag(c)
    PROVE  TypeOK'
<1>0. world \in Worlds /\ HandTypes /\ TradeTypes /\ OtherTypes
  BY TypeParts
<1>1. CASE \E i \in Items : get_item(c, i)
  BY <1>1, GetItemTypes
<1>2. CASE WrongSerial(c)
  BY <1>0, <1>2, TypePartsNext DEF WrongSerial, HandTypes, TradeTypes, OtherTypes, trade, Holds
<1>3. CASE drop_item_on_ground(c)
  <2>1. /\ Dropping(c) /\ world' = Put(world, gotten_item[c], None)
        /\ UNCHANGED << amount, reserved, trade >>
    BY <1>3 DEF drop_item_on_ground
  <2>2. world' \in Worlds
    BY <2>1, DroppingTypes, PutType DEF Places
  <2> QED
    BY <2>1, <2>2, DroppingTypes, TypePartsNext DEF TradeTypes, OtherTypes, trade
<1>4. CASE place_item_in_container(c)
  <2>1. /\ Dropping(c) /\ world' = Put(world, gotten_item[c], Pack(c))
        /\ UNCHANGED << amount, reserved, trade >>
    BY <1>4 DEF place_item_in_container
  <2>2. world' \in Worlds
    BY <2>1, DroppingTypes, PutType, ContainersDiffer
  <2> QED
    BY <2>1, <2>2, DroppingTypes, TypePartsNext DEF TradeTypes, OtherTypes, trade
<1>5. ASSUME NEW j \in Stacks, add_item_to_stack(c, j)
      PROVE  TypeOK'
  <2> DEFINE i == gotten_item[c]
  <2>1. /\ Dropping(c) /\ UNCHANGED << world, trade >> /\ reserved' = reserved \ {i}
        /\ amount' = [amount EXCEPT ![j] = @ + amount[i], ![i] = 0]
    BY <1>5 DEF add_item_to_stack
  <2>2. j \in Items /\ i \in Items
    BY <2>1, DroppingTypes DEF Items
  <2>3. amount' \in [Items -> Nat]
    BY <1>0, <2>1, <2>2 DEF OtherTypes
  <2> QED
    BY <2>1, <2>3, DroppingTypes, TypePartsNext DEF TradeTypes, OtherTypes, trade
<1>6. CASE HookDestroys(c)
  <2>1. /\ Dropping(c) /\ UNCHANGED << world, trade >> /\ reserved' = reserved \ {gotten_item[c]}
        /\ amount' = [amount EXCEPT ![gotten_item[c]] = 0]
    BY <1>6 DEF HookDestroys
  <2>3. amount' \in [Items -> Nat]
    BY <1>0, <2>1 DEF OtherTypes
  <2> QED
    BY <2>1, <2>3, DroppingTypes, TypePartsNext DEF TradeTypes, OtherTypes, trade
<1>7. CASE Refused(c)
  <2>1. /\ Dropping(c) /\ world' \in undo_get_item(world, c, gotten_item[c])
        /\ UNCHANGED << amount, reserved, trade >>
    BY <1>7 DEF Refused
  <2>2. world' \in Worlds
    BY <2>1, DroppingTypes, UndoType
  <2> QED
    BY <2>1, <2>2, DroppingTypes, TypePartsNext DEF TradeTypes, OtherTypes, trade
<1>8. ASSUME NEW d \in Chars, equip_item(c, d)
      PROVE  TypeOK'
  <2>1. /\ Holds(c) /\ LetGo(c) /\ world' = Put(world, gotten_item[c], Worn(d))
        /\ UNCHANGED << amount, reserved, trade, client >>
    BY <1>8 DEF equip_item
  <2>2. HandTypes' /\ gotten_item[c] \in Items
    BY <1>0, <2>1, LetGoTypes
  <2>3. world' \in Worlds
    BY <1>0, <2>1, <2>2, PutType, ContainersDiffer
  <2> QED
    BY <1>0, <2>1, <2>2, <2>3, TypePartsNext DEF TradeTypes, OtherTypes, trade
<1> QED
  BY <1>1, <1>2, <1>3, <1>4, <1>5, <1>6, <1>7, <1>8 DEF Drag

LEMMA TradeTypesNext ==
    ASSUME TypeOK, NEW c \in Chars, Trade(c)
    PROVE  TypeOK'
<1>0. world \in Worlds /\ HandTypes /\ TradeTypes /\ OtherTypes
  BY TypeParts
<1>1. ASSUME NEW d \in Chars, open_trade_window(c, d)
      PROVE  TypeOK'
  <2>1. TradeTypes'
    BY <1>0, <1>1, TradeTypesKept DEF open_trade_window
  <2> QED
    BY <1>0, <1>1, <2>1, TypePartsNext DEF open_trade_window, hand, HandTypes, OtherTypes
<1>2. ASSUME NEW d \in Chars, drop_item_on_mobile(c, d)
      PROVE  TypeOK'
  <2>1. /\ Dropping(c) /\ do_open_trade_window(c, d) /\ UNCHANGED << amount, reserved >>
        /\ world' \in {Put(world, gotten_item[c], Offer(c))}
                        \cup undo_get_item(world, c, gotten_item[c])
    BY <1>2 DEF drop_item_on_mobile
  <2>2. TradeTypes'
    BY <1>0, <2>1, TradeTypesKept
  <2>3. world' \in Worlds
    BY <2>1, DroppingTypes, PutType, UndoType, ContainersDiffer
  <2> QED
    BY <2>1, <2>2, <2>3, DroppingTypes, TypePartsNext DEF OtherTypes
<1>3. CASE place_item_in_secure_trade_container(c)
  <2>1. /\ Dropping(c) /\ is_trading(c) /\ NotAccepted(c, trading_with[c])
        /\ world' = Put(world, gotten_item[c], Offer(c))
        /\ amount' \in {amount, [amount EXCEPT ![gotten_item[c]] = 0]}
        /\ UNCHANGED << reserved, trading_with >>
    BY <1>3 DEF place_item_in_secure_trade_container
  <2>2. TradeTypes'
    BY <1>0, <2>1, TradeTypesKept DEF TradeTypes, is_trading
  <2>3. world' \in Worlds
    BY <2>1, DroppingTypes, PutType, ContainersDiffer
  <2> QED
    BY <2>1, <2>2, <2>3, DroppingTypes, TypePartsNext DEF OtherTypes
<1>4. CASE cancel_trade(c)
  <2>1. is_trading(c) /\ CancelTrades(world, {c}) /\ UNCHANGED << amount, hand, reserved, client >>
    BY <1>4 DEF cancel_trade
  <2>2. TradeTypes' /\ world' \in Worlds
    BY <1>0, <2>1, CancelTypes
  <2> QED
    BY <1>0, <2>1, <2>2, TypePartsNext DEF hand, HandTypes, OtherTypes
<1>5. ASSUME NEW set \in BOOLEAN, change_trade_status(c, set)
      PROVE  TypeOK'
  <2>1. /\ is_trading(c) /\ trade_accepted' = [trade_accepted EXCEPT ![c] = set]
        /\ UNCHANGED << amount, hand, reserved, client >>
    BY <1>5 DEF change_trade_status
  <2>2. trade_accepted' \in [Chars -> BOOLEAN]
    BY <1>0, <2>1 DEF TradeTypes
  <2>3. trading_with[c] \in Chars
    BY <1>0, <2>1 DEF TradeTypes, is_trading
  <2>4. world' \in Worlds /\ trading_with' \in [Chars -> Chars \cup {None}]
    <3>1. CASE UNCHANGED << world, trading_with >>
      BY <1>0, <3>1 DEF TradeTypes
    <3>2. CASE /\ world' \in return_traded_items(swap(world, c, trading_with[c]),
                                                  {c, trading_with[c]})
               /\ trading_with' = [trading_with EXCEPT ![c] = None, ![trading_with[c]] = None]
      <4>1. swap(world, c, trading_with[c]) \in Worlds
        BY <1>0, <2>3, SwapType
      <4>2. world' \in Worlds
        BY <2>3, <3>2, <4>1, ReturnType
      <4> QED
        BY <1>0, <3>2, <4>2 DEF TradeTypes
    <3> QED
      BY <1>5, <3>1, <3>2 DEF change_trade_status
  <2> QED
    BY <1>0, <2>1, <2>2, <2>4, TypePartsNext DEF hand, HandTypes, TradeTypes, OtherTypes
<1> QED
  BY <1>1, <1>2, <1>3, <1>4, <1>5 DEF Trade

LEMMA ConnectionTypes ==
    ASSUME TypeOK, NEW c \in Chars, Connection(c) \/ ClearGottenItem(c)
    PROVE  TypeOK'
<1>0. world \in Worlds /\ HandTypes /\ TradeTypes /\ OtherTypes
  BY TypeParts
<1>1. CASE closeConnection(c)
  BY <1>0, <1>1, TypePartsNext DEF closeConnection, hand, trade, HandTypes, TradeTypes, OtherTypes
<1>2. ASSUME NEW next \in {"lingering", "none"}, Cleanup(c, next)
      PROVE  TypeOK'
  <2>1. TradeTypes' /\ world' \in Worlds
    <3>1. CASE is_trading(c)
      BY <1>0, <1>2, <3>1, CancelTypes DEF Cleanup
    <3>2. CASE ~is_trading(c)
      BY <1>0, <1>2, <3>2 DEF Cleanup, trade, TradeTypes
    <3> QED
      BY <3>1, <3>2
  <2>2. HandTypes' /\ OtherTypes'
    BY <1>0, <1>2 DEF Cleanup, hand, HandTypes, OtherTypes
  <2> QED
    BY <2>1, <2>2, TypePartsNext
<1>3. CASE start_client_char(c)
  <2>1. HandTypes' /\ world' \in Worlds
    BY <1>0, <1>3, ClearTypes DEF start_client_char
  <2> QED
    BY <1>0, <1>3, <2>1, TypePartsNext DEF start_client_char, trade, TradeTypes, OtherTypes
<1>4. CASE ClearGottenItem(c)
  <2>1. HandTypes' /\ world' \in Worlds
    BY <1>0, <1>4, ClearTypes DEF ClearGottenItem
  <2> QED
    BY <1>0, <1>4, <2>1, TypePartsNext DEF ClearGottenItem, trade, TradeTypes, OtherTypes
<1> QED
  BY <1>1, <1>2, <1>3, <1>4 DEF Connection, disconnect_cleanup, PreDelete

LEMMA SubtractTypes ==
    ASSUME TypeOK, NEW i \in Items, NEW n \in Nat, SubtractAmount(i, n)
    PROVE  TypeOK'
<1>0. world \in Worlds /\ HandTypes /\ TradeTypes /\ OtherTypes
  BY TypeParts
<1>1. amount' \in [Items -> Nat]
  <2>1. amount[i] \in Nat
    BY <1>0 DEF OtherTypes
  <2>2. Rest(i, n) \in Nat
    BY <2>1 DEF Rest
  <2> QED
    BY <1>0, <2>2 DEF SubtractAmount, OtherTypes
<1>2. \A w \in Worlds : Less(w, i, n) \in Worlds
  BY ExtricateType DEF Less
<1>3. HandTypes' /\ world' \in Worlds
  <2>1. CASE gotten_by[i] # None
    <3> DEFINE c == gotten_by[i]
    <3>1. c \in Chars
      BY <1>0, <2>1 DEF HandTypes
    <3>2. LetGo(c)
      BY <2>1 DEF SubtractAmount
    <3>3. PICK w \in undo_get_item(world, c, i) : world' = Less(w, i, n)
      BY <2>1 DEF SubtractAmount
    <3>4. world' \in Worlds
      BY <1>0, <1>2, <3>1, <3>3, UndoType
    <3>5. HandTypes'
      BY <1>0, <3>1, <3>2 DEF HandTypes, LetGo
    <3> QED
      BY <3>4, <3>5
  <2>2. CASE gotten_by[i] = None
    <3>1. world' = Less(world, i, n)
      BY <2>2 DEF SubtractAmount
    <3>2. HandTypes'
      BY <1>0, <2>2 DEF SubtractAmount, HandTypes
    <3> QED
      BY <1>0, <1>2, <3>1, <3>2
  <2> QED
    BY <2>1, <2>2
<1>4. reserved' \subseteq Items
  BY <1>0 DEF SubtractAmount, OtherTypes
<1> QED
  BY <1>0, <1>1, <1>3, <1>4, TypePartsNext DEF SubtractAmount, trade, TradeTypes, OtherTypes

(* The scripts that are asked whether an item may be put on or taken off. *)
LEMMA TestTypes ==
    ASSUME HandTypes, NEW i \in Items,
           check_test_scripts(i) \/ check_unequiptest_scripts(i)
    PROVE  HandTypes'
BY DEF HandTypes, hand, check_test_scripts, check_unequiptest_scripts

LEMMA ScriptTypes ==
    ASSUME TypeOK, NEW i \in Items, Script(i)
    PROVE  TypeOK'
<1>0. world \in Worlds /\ HandTypes /\ TradeTypes /\ OtherTypes
  BY TypeParts
<1>1. true_extricate(world, i) \in Worlds
  BY <1>0, ExtricateType
<1>2. ASSUME NEW k \in Places, MoveItem(i, k),
             check_test_scripts(i) \/ check_unequiptest_scripts(i),
             UNCHANGED << amount, reserved, trade, client >>
      PROVE  TypeOK'
  <2>1. world' \in Worlds
    BY <1>1, <1>2, PutType DEF MoveItem
  <2>2. HandTypes'
    BY <1>0, <1>2, TestTypes
  <2> QED
    BY <1>0, <1>2, <2>1, <2>2, TypePartsNext DEF trade, TradeTypes, OtherTypes
<1>3. ASSUME NEW c \in Chars, MoveItemToContainer(i, c) \/ EquipItem(i, c)
      PROVE  TypeOK'
  BY <1>2, <1>3, ContainersDiffer DEF MoveItemToContainer, EquipItem
<1>4. CASE internal_MoveItem(i)
  BY <1>2, <1>4 DEF internal_MoveItem, Places
<1>5. ASSUME NEW c \in Chars, MoveItemToSecureTradeWin(i, c)
      PROVE  TypeOK'
  <2>1. TradeTypes' /\ world' \in Worlds
    <3>1. CASE is_trading(c) /\ HasClient(trading_with[c])
      <4>1. trading_with[c] \in Chars
        BY <1>0, <3>1 DEF TradeTypes, is_trading
      <4> QED
        BY <1>0, <1>1, <1>5, <3>1, <4>1, PutType, ContainersDiffer, TradeTypesKept
        DEF MoveItemToSecureTradeWin
    <3>2. CASE ~(is_trading(c) /\ HasClient(trading_with[c]))
      BY <1>0, <1>1, <1>5, <3>2 DEF MoveItemToSecureTradeWin, trade, TradeTypes
    <3> QED
      BY <3>1, <3>2
  <2>2. HandTypes'
    BY <1>0, <1>5, TestTypes DEF MoveItemToSecureTradeWin
  <2> QED
    BY <1>0, <1>5, <2>1, <2>2, TypePartsNext DEF MoveItemToSecureTradeWin, OtherTypes
<1>6. ASSUME NEW n \in 1 .. stack_limit(i), SubtractAmount(i, n)
      PROVE  TypeOK'
  <2>1. stack_limit(i) \in Nat
    BY ItemMovesAssumption DEF stack_limit
  <2>2. n \in Nat
    BY <2>1
  <2> QED
    BY <1>6, <2>2, SubtractTypes
<1>7. CASE ReserveItem(i) \/ ReleaseItem(i)
  BY <1>0, <1>7, TypePartsNext DEF ReserveItem, ReleaseItem, trade, HandTypes, TradeTypes, OtherTypes
<1>8. CASE MoveRefused(i)
  <2>1. HandTypes'
    BY <1>0, <1>8, TestTypes DEF MoveRefused
  <2> QED
    BY <1>0, <1>8, <2>1, TypePartsNext DEF MoveRefused, trade, TradeTypes, OtherTypes
<1> QED
  BY <1>3, <1>4, <1>5, <1>6, <1>7, <1>8 DEF Script, ScriptGives

LEMMA TypeNext == TypeOK /\ [Next]_vars => TypeOK'
<1> SUFFICES ASSUME TypeOK, [Next]_vars PROVE TypeOK'
  OBVIOUS
<1>0. world \in Worlds /\ HandTypes /\ TradeTypes /\ OtherTypes
  BY TypeParts
<1>1. ASSUME NEW c \in Chars, Drag(c) \/ Trade(c) \/ Connection(c) \/ ClearGottenItem(c)
      PROVE  TypeOK'
  BY <1>1, DragTypes, TradeTypesNext, ConnectionTypes
<1>2. ASSUME NEW i \in Items, Script(i)
      PROVE  TypeOK'
  BY <1>2, ScriptTypes
<1>3. CASE cancel_all_trades
  <2> DEFINE S == {c \in Chars : client[c] = "playing" /\ is_trading(c)}
  <2>1. CancelTrades(world, S) /\ UNCHANGED << amount, hand, reserved, client >>
    BY <1>3 DEF cancel_all_trades
  <2>2. TradeTypes' /\ world' \in Worlds
    BY <1>0, <2>1, CancelTypes
  <2> QED
    BY <1>0, <2>1, <2>2, TypePartsNext DEF hand, HandTypes, OtherTypes
<1>4. CASE UNCHANGED vars
  BY <1>4, <1>0, TypePartsNext DEF vars, hand, trade, HandTypes, TradeTypes, OtherTypes
<1> QED
  BY <1>1, <1>2, <1>3, <1>4 DEF Next

(* Every variable keeps its type, amounts are never negative. *)
THEOREM TypeCorrect == Spec => []TypeOK
BY TypeInit, TypeNext, PTL DEF Spec
-----------------------------------------------------------------------------
(* What the functions from worlds to worlds do to a world that agrees.      *)

InWorld(w, i) == \E k \in Places : i \in w.contents[k]

(* An item is listed where it says it is, and nowhere else. *)
Agrees(w) ==
    \A i \in Items :
       /\ \A k \in Places : i \in w.contents[k] => w.container[i] = k
       /\ w.container[i] # None => i \in w.contents[w.container[i]]

WornOnce(w) == \A c \in Chars : \A i, j \in w.contents[Worn(c)] : i = j

Good(w) == w \in Worlds /\ Agrees(w) /\ WornOnce(w)

Gains(v, w, i) == \A j \in Items : InWorld(v, j) <=> j = i \/ InWorld(w, j)
Loses(v, w, i) == \A j \in Items : InWorld(v, j) <=> j # i /\ InWorld(w, j)

(* Putting an item that is nowhere to a place, if it is fit to be worn there. *)
LEMMA PutGood ==
    ASSUME NEW w, Good(w), NEW i \in Items, ~InWorld(w, i), NEW k \in Places,
           \A c \in Chars : k = Worn(c) => w.contents[k] = {}
    PROVE  Good(Put(w, i, k)) /\ Gains(Put(w, i, k), w, i)
<1> DEFINE v == Put(w, i, k)
<1>0. w \in Worlds /\ Agrees(w) /\ WornOnce(w)
  BY DEF Good
<1>1. v \in Worlds
  BY <1>0, PutType
<1>2. \A l \in Places : v.contents[l] = IF l = k THEN w.contents[k] \cup {i} ELSE w.contents[l]
  BY <1>0 DEF Put, Worlds
<1>3. \A j \in Items : v.container[j] = IF j = i THEN k ELSE w.container[j]
  BY <1>0 DEF Put, Worlds
<1>4. \A l \in Places : i \notin w.contents[l]
  BY DEF InWorld
<1> HIDE DEF v
<1>5. Agrees(v)
  BY <1>0, <1>2, <1>3, <1>4 DEF Agrees, Worlds
<1>6. WornOnce(v)
  BY <1>0, <1>2, ContainersDiffer DEF WornOnce
<1>7. Gains(v, w, i)
  BY <1>2 DEF Gains, InWorld
<1> QED
  BY <1>1, <1>5, <1>6, <1>7 DEF Good, v

LEMMA ExtricateGood ==
    ASSUME NEW w, Good(w), NEW i \in Items
    PROVE  Good(true_extricate(w, i)) /\ Loses(true_extricate(w, i), w, i)
<1> DEFINE v == true_extricate(w, i)
<1>0. w \in Worlds /\ Agrees(w) /\ WornOnce(w)
  BY DEF Good
<1>1. v \in Worlds
  BY <1>0, ExtricateType
<1>2. \A l \in Places : v.contents[l] = IF l = w.container[i] THEN w.contents[l] \ {i}
                                                            ELSE w.contents[l]
  BY <1>0 DEF true_extricate, Worlds, Places
<1>3. \A l \in Places : v.contents[l] = w.contents[l] \ {i}
  <2> HIDE DEF v
  <2>1. \A l \in Places : l # w.container[i] => i \notin w.contents[l]
    BY <1>0 DEF Agrees
  <2> QED
    BY <1>2, <2>1
<1>4. \A j \in Items : v.container[j] = IF j = i THEN None ELSE w.container[j]
  BY <1>0 DEF true_extricate, Worlds
<1> HIDE DEF v
<1>5. Agrees(v)
  <2>1. \A j \in Items : w.container[j] \in Places
    BY <1>0 DEF Worlds
  <2> QED
    BY <1>0, <1>3, <1>4, <2>1 DEF Agrees
<1>6. WornOnce(v)
  BY <1>0, <1>3, ContainersDiffer DEF WornOnce
<1>7. Loses(v, w, i)
  BY <1>3 DEF Loses, InWorld
<1> QED
  BY <1>1, <1>5, <1>6, <1>7 DEF Good, v

LEMMA UndoGood ==
    ASSUME NEW w, Good(w), NEW i \in Items, ~InWorld(w, i), NEW c \in Chars,
           NEW v \in undo_get_item(w, c, i)
    PROVE  Good(v) /\ Gains(v, w, i)
<1>1. CASE v = Put(w, i, None)
  BY <1>1, PutGood, ContainersDiffer DEF Places
<1>2. CASE equippable(w, c, i) /\ v = Put(w, i, Worn(c))
  BY <1>2, PutGood, ContainersDiffer DEF equippable
<1>3. CASE v = Put(w, i, Pack(c))
  BY <1>3, PutGood, ContainersDiffer
<1> QED
  BY <1>1, <1>2, <1>3 DEF undo_get_item

(* A world in which an item in a trade container may say that it is in another one:
   what swap() makes of a world that agrees. *)
AgreesButFor(w, S) ==
    \A i \in Items :
       /\ \A k, l \in Places : i \in w.contents[k] /\ i \in w.contents[l] => k = l
       /\ \A k \in Places : i \in w.contents[k] =>
             \/ w.container[i] = k
             \/ \E c \in S : k = Offer(c)
       /\ w.container[i] # None => InWorld(w, i)

LEMMA AgreesUnlessSwapped ==
    ASSUME NEW w, Good(w), NEW S \in SUBSET Chars
    PROVE  AgreesButFor(w, S)
<1>1. w \in Worlds /\ Agrees(w)
  BY DEF Good
<1>2. \A i \in Items : w.container[i] \in Places
  BY <1>1 DEF Worlds
<1> QED
  BY <1>1, <1>2 DEF Agrees, AgreesButFor, InWorld

LEMMA SwapAgrees ==
    ASSUME NEW w, Good(w), NEW c \in Chars, NEW d \in Chars
    PROVE  /\ AgreesButFor(swap(w, c, d), {c, d}) /\ WornOnce(swap(w, c, d))
           /\ \A i \in Items : InWorld(swap(w, c, d), i) <=> InWorld(w, i)
<1> DEFINE v == swap(w, c, d)
<1>0. w \in Worlds /\ Agrees(w) /\ WornOnce(w)
  BY DEF Good
<1>1. \A k \in Places : v.contents[k] = IF k = Offer(c) THEN w.contents[Offer(d)]
                                        ELSE IF k = Offer(d) THEN w.contents[Offer(c)]
                                        ELSE w.contents[k]
  BY <1>0, ContainersDiffer DEF swap, Worlds
<1>2. v.container = w.container
  BY <1>0 DEF swap, Worlds
<1>3. \A i \in Items : w.container[i] \in Places
  BY <1>0 DEF Worlds
<1> HIDE DEF v
<1>4. WornOnce(v)
  BY <1>0, <1>1, ContainersDiffer DEF WornOnce
<1>5. ASSUME NEW i \in Items
      PROVE  InWorld(v, i) <=> InWorld(w, i)
  BY <1>1, ContainersDiffer DEF InWorld
<1>6. ASSUME NEW i \in Items, NEW k \in Places, NEW l \in Places,
             i \in v.contents[k], i \in v.contents[l]
      PROVE  k = l
  BY <1>0, <1>1, <1>6, ContainersDiffer DEF Agrees
<1>7. ASSUME NEW i \in Items, NEW k \in Places, i \in v.contents[k]
      PROVE  v.container[i] = k \/ \E e \in {c, d} : k = Offer(e)
  BY <1>0, <1>1, <1>2, <1>7 DEF Agrees
<1>8. ASSUME NEW i \in Items, v.container[i] # None
      PROVE  InWorld(v, i)
  <2>1. InWorld(w, i)
    BY <1>0, <1>2, <1>3, <1>8 DEF Agrees, InWorld
  <2> QED
    BY <1>5, <2>1
<1> QED
  BY <1>4, <1>5, <1>6, <1>7, <1>8 DEF AgreesButFor, v

(* Emptying the trade containers of S puts right what the swap left wrong. *)
LEMMA ReturnGood ==
    ASSUME Packless = {}, NEW w \in Worlds, NEW S \in SUBSET Chars,
           AgreesButFor(w, S), WornOnce(w),
           NEW v \in return_traded_items(w, S)
    PROVE  /\ Good(v)
           /\ \A i \in Items : InWorld(v, i) <=> InWorld(w, i)
           /\ \A c \in Chars : v.contents[Offer(c)] =
                                   IF c \in S THEN {} ELSE w.contents[Offer(c)]
           /\ \A c \in Chars : v.contents[Worn(c)] = w.contents[Worn(c)]
           /\ \A c \in Chars : v.contents[Pack(c)] \subseteq
                 w.contents[Pack(c)] \cup (IF c \in S THEN w.contents[Offer(c)] ELSE {})
<1> DEFINE P == S \ Packless
           Of(c) == w.contents[Offer(c)]
<1>0. P = S
  OBVIOUS
<1>1. PICK g \in SUBSET UNION {Of(c) : c \in P} :
         v = [contents  |-> [k \in Places |->
                            IF k = None THEN w.contents[k] \cup g
                            ELSE IF k[2] \notin P \/ k = Worn(k[2]) THEN w.contents[k]
                            ELSE IF k = Offer(k[2]) THEN {}
                            ELSE w.contents[k] \cup (Of(k[2]) \ g)],
              container |-> [i \in Items |->
                            IF i \in g THEN None
                            ELSE IF \E c \in P : i \in Of(c)
                                 THEN Pack(CHOOSE c \in P : i \in Of(c))
                                 ELSE w.container[i]]]
  BY DEF return_traded_items
<1> HIDE DEF P
<1>2. v.contents[None] = w.contents[None] \cup g
  BY <1>1 DEF Places
<1>3. ASSUME NEW c \in Chars
      PROVE  /\ v.contents[Worn(c)] = w.contents[Worn(c)]
             /\ v.contents[Offer(c)] = IF c \in S THEN {} ELSE Of(c)
             /\ v.contents[Pack(c)] = IF c \in S THEN w.contents[Pack(c)] \cup (Of(c) \ g)
                                                  ELSE w.contents[Pack(c)]
  <2>1. /\ Worn(c) \in Places /\ Worn(c) # None /\ Worn(c)[2] = c
        /\ Offer(c) \in Places /\ Offer(c) # None /\ Offer(c)[2] = c /\ Offer(c) # Worn(c)
        /\ Pack(c) \in Places /\ Pack(c) # None /\ Pack(c)[2] = c /\ Pack(c) # Worn(c)
        /\ Pack(c) # Offer(c)
    BY ContainersDiffer
  <2> HIDE DEF Of
  <2>2. v.contents[Worn(c)] = w.contents[Worn(c)]
    BY <1>0, <1>1, <2>1
  <2>3. v.contents[Offer(c)] = IF c \in S THEN {} ELSE w.contents[Offer(c)]
    BY <1>0, <1>1, <2>1
  <2>4. v.contents[Pack(c)] = IF c \in S THEN w.contents[Pack(c)] \cup (Of(c) \ g)
                                         ELSE w.contents[Pack(c)]
    BY <1>0, <1>1, <2>1
  <2> QED
    BY <2>2, <2>3, <2>4 DEF Of
<1>4. \A i \in g : \E c \in S : i \in Of(c)
  BY <1>0, <1>1
<1>5. ASSUME NEW i \in Items, NEW c \in S, i \in Of(c)
      PROVE  (CHOOSE e \in S : i \in Of(e)) = c
  <2> DEFINE e0 == CHOOSE e \in S : i \in Of(e)
  <2>1. e0 \in S /\ i \in Of(e0)
    BY <1>5
  <2>2. Offer(e0) = Offer(c)
    BY <1>5, <2>1, ContainersDiffer DEF AgreesButFor
  <2> QED
    BY <2>1, <2>2, ContainersDiffer
<1>6. \A i \in Items : /\ i \in g => v.container[i] = None
                       /\ \A c \in S : i \in Of(c) \ g => v.container[i] = Pack(c)
                       /\ (\A c \in S : i \notin Of(c)) => v.container[i] = w.container[i]
  <2> SUFFICES ASSUME NEW i \in Items
               PROVE  /\ i \in g => v.container[i] = None
                      /\ \A c \in S : i \in Of(c) \ g => v.container[i] = Pack(c)
                      /\ (\A c \in S : i \notin Of(c)) => v.container[i] = w.container[i]
    OBVIOUS
  <2> HIDE DEF Of
  <2> QED
    BY <1>0, <1>1, <1>4, <1>5
<1>7. v \in Worlds
  BY ReturnType
<1>8. ASSUME NEW i \in Items
      PROVE  InWorld(v, i) <=> InWorld(w, i)
  <2>1. ASSUME InWorld(w, i)
        PROVE  InWorld(v, i)
    <3>1. PICK k \in Places : i \in w.contents[k]
      BY <2>1 DEF InWorld
    <3>2. CASE k = None
      BY <1>2, <3>1, <3>2 DEF InWorld
    <3>3. CASE k # None
      <4>1. PICK c \in Chars : k = Pack(c) \/ k = Worn(c) \/ k = Offer(c)
        BY <3>3, EveryContainer
      <4>2. None \in Places /\ Pack(c) \in Places /\ Worn(c) \in Places /\ Offer(c) \in Places
        BY ContainersDiffer DEF Places
      <4> QED
        BY <1>2, <1>3, <3>1, <4>1, <4>2 DEF InWorld
    <3> QED
      BY <3>2, <3>3
  <2>2. ASSUME InWorld(v, i)
        PROVE  InWorld(w, i)
    <3>1. PICK k \in Places : i \in v.contents[k]
      BY <2>2 DEF InWorld
    <3>0. \A c \in S : i \in Of(c) => InWorld(w, i)
      BY ContainersDiffer DEF InWorld
    <3>2. CASE k = None
      BY <1>2, <1>4, <3>0, <3>1, <3>2 DEF InWorld
    <3>3. CASE k # None
      <4>1. PICK c \in Chars : k = Pack(c) \/ k = Worn(c) \/ k = Offer(c)
        BY <3>3, EveryContainer
      <4>2. i \in w.contents[k] \/ \E e \in S : i \in Of(e)
        BY <1>3, <3>1, <4>1
      <4> QED
        BY <3>0, <4>2 DEF InWorld
    <3> QED
      BY <3>2, <3>3
  <2> QED
    BY <2>1, <2>2
<1>9. ASSUME NEW i \in Items, NEW k \in Places, i \in v.contents[k]
      PROVE  v.container[i] = k
  <2>1. CASE \E c \in S : i \in Of(c)
    <3>1. PICK c \in S : i \in Of(c)
      BY <2>1
    <3>2. \A l \in Places : i \in w.contents[l] => l = Offer(c)
      BY <3>1, ContainersDiffer DEF AgreesButFor
    <3>3. CASE k = None
      <4>1. i \in g
        BY <1>2, <1>9, <3>2, <3>3, ContainersDiffer
      <4> QED
        BY <1>6, <3>3, <4>1
    <3>4. CASE k # None
      <4>1. PICK e \in Chars : k = Pack(e) \/ k = Worn(e) \/ k = Offer(e)
        BY <3>4, EveryContainer
      <4>2. Pack(e) \in Places /\ Worn(e) \in Places /\ Offer(e) \in Places
        BY ContainersDiffer
      <4>3. i \notin w.contents[Pack(e)] /\ i \notin w.contents[Worn(e)]
        BY <3>2, <4>2, ContainersDiffer
      <4>4. i \in Of(e) => e = c
        BY <3>2, <4>2, ContainersDiffer
      <4>5. k = Pack(e) /\ e = c /\ i \notin g
        BY <1>3, <1>9, <3>1, <4>1, <4>3, <4>4
      <4> QED
        BY <1>6, <3>1, <4>5
    <3> QED
      BY <3>3, <3>4
  <2>2. CASE \A c \in S : i \notin Of(c)
    <3>1. i \notin g /\ v.container[i] = w.container[i]
      BY <1>4, <1>6, <2>2
    <3>2. i \in w.contents[k]
      <4>1. CASE k = None
        BY <1>2, <1>9, <3>1, <4>1
      <4>2. CASE k # None
        <5>1. PICK e \in Chars : k = Pack(e) \/ k = Worn(e) \/ k = Offer(e)
          BY <4>2, EveryContainer
        <5> QED
          BY <1>3, <1>9, <2>2, <5>1
      <4> QED
        BY <4>1, <4>2
    <3>3. \A c \in S : k # Offer(c)
      BY <2>2, <3>2
    <3> QED
      BY <3>1, <3>2, <3>3 DEF AgreesButFor
  <2> QED
    BY <2>1, <2>2
<1>10. ASSUME NEW i \in Items, v.container[i] # None
       PROVE  i \in v.contents[v.container[i]]
  <2>1. InWorld(w, i)
    <3>1. CASE \E c \in S : i \in Of(c)
      BY <3>1, ContainersDiffer DEF InWorld
    <3>2. CASE \A c \in S : i \notin Of(c)
      BY <1>6, <1>10, <3>2 DEF AgreesButFor
    <3> QED
      BY <3>1, <3>2
  <2>2. PICK k \in Places : i \in v.contents[k]
    BY <1>8, <2>1 DEF InWorld
  <2> QED
    BY <1>9, <2>2
<1>11. Agrees(v)
  BY <1>9, <1>10 DEF Agrees
<1>12. WornOnce(v)
  BY <1>3 DEF WornOnce
<1> QED
  BY <1>3, <1>7, <1>8, <1>11, <1>12 DEF Good
(* Nothing changes in the places that an item neither leaves nor comes to. *)
LEMMA PutElsewhere ==
    ASSUME NEW w \in Worlds, NEW i \in Items, NEW k \in Places
    PROVE  /\ \A l \in Places : l # k => Put(w, i, k).contents[l] = w.contents[l]
           /\ \A j \in Items : Put(w, i, k).container[j] = IF j = i THEN k ELSE w.container[j]
BY DEF Put, Worlds

LEMMA ExtricateElsewhere ==
    ASSUME NEW w \in Worlds, NEW i \in Items
    PROVE  /\ \A l \in Places : true_extricate(w, i).contents[l] \subseteq w.contents[l]
           /\ \A l \in Places : i \notin w.contents[l] =>
                                 true_extricate(w, i).contents[l] = w.contents[l]
           /\ \A j \in Items : true_extricate(w, i).container[j] =
                                IF j = i THEN None ELSE w.container[j]
<1>1. w.container[i] \in Places
  BY DEF Worlds
<1> QED
  BY <1>1 DEF true_extricate, Worlds

LEMMA UndoElsewhere ==
    ASSUME NEW w \in Worlds, NEW i \in Items, NEW c \in Chars,
           NEW v \in undo_get_item(w, c, i)
    PROVE  /\ \A d \in Chars : v.contents[Offer(d)] = w.contents[Offer(d)]
           /\ \A j \in Items : j # i => v.container[j] = w.container[j]
<1>1. \E k \in Places : v = Put(w, i, k) /\ \A d \in Chars : k # Offer(d)
  BY ContainersDiffer DEF undo_get_item, Places
<1> QED
  BY <1>1, PutElsewhere, ContainersDiffer

-----------------------------------------------------------------------------
(* Every item is in one place.                                              *)

(* The records of the hands agree: a hand holds one item and an item is in one hand,
   gotten_by names nobody or him who holds it, and an item that is in use is in a hand
   or reserved by a script. *)
HandsAgree ==
    /\ \A c, d \in Chars : Holds(c) /\ gotten_item[c] = gotten_item[d] => c = d
    /\ \A i \in Items : i \in is_gotten <=> \E c \in Chars : gotten_item[c] = i
    /\ \A i \in Items : gotten_by[i] # None => gotten_item[gotten_by[i]] = i
    /\ inuse \subseteq is_gotten \cup reserved

(* An item exists exactly if it is in a place or in a hand, and it is not in both. *)
Exist ==
    \A i \in Items :
       /\ amount[i] > 0 <=> InWorld(world, i) \/ i \in is_gotten
       /\ ~(InWorld(world, i) /\ i \in is_gotten)

(* The inductive invariant. *)
PlaceInv == TypeOK /\ Good(world) /\ HandsAgree /\ Exist
IInv == PlaceInv /\ TradesAgree

(* What is known of the item that a character holds. *)
LEMMA Held ==
    ASSUME PlaceInv, NEW c \in Chars, Holds(c)
    PROVE  /\ gotten_item[c] \in Items
           /\ gotten_item[c] \in is_gotten
           /\ ~InWorld(world, gotten_item[c])
           /\ amount[gotten_item[c]] > 0
<1>1. gotten_item[c] \in Items
  BY DEF PlaceInv, TypeOK, Holds
<1> QED
  BY <1>1 DEF PlaceInv, HandsAgree, Exist

LEMMA LetGoHands ==
    ASSUME PlaceInv, NEW c \in Chars, Holds(c), LetGo(c),
           reserved \ {gotten_item[c]} \subseteq reserved'
    PROVE  HandsAgree' /\ is_gotten' = is_gotten \ {gotten_item[c]}
<1> DEFINE i == gotten_item[c]
<1>0. HandTypes /\ HandsAgree
  BY TypeParts DEF PlaceInv
<1>1. i \in Items /\ reserved \ {i} \subseteq reserved'
  BY Held
<1>2. /\ gotten_item' = [gotten_item EXCEPT ![c] = None]
      /\ gotten_by' = [gotten_by EXCEPT ![i] = None]
      /\ is_gotten' = is_gotten \ {i} /\ inuse' = inuse \ {i}
  BY DEF LetGo
<1>3. \A d \in Chars : gotten_item'[d] = IF d = c THEN None ELSE gotten_item[d]
  BY <1>0, <1>2 DEF HandTypes
<1>4. \A j \in Items : gotten_by'[j] = IF j = i THEN None ELSE gotten_by[j]
  BY <1>0, <1>2 DEF HandTypes
<1>5. \A d \in Chars : gotten_item[d] = i => d = c
  BY <1>0 DEF HandsAgree, Holds
<1>6. \A j \in Items : gotten_by[j] \in Chars \cup {None}
  BY <1>0 DEF HandTypes
<1>7. None \notin Items
  BY ItemMovesAssumption
<1> HIDE DEF i
<1>8. (\A d, e \in Chars : Holds(d) /\ gotten_item[d] = gotten_item[e] => d = e)'
  BY <1>0, <1>3 DEF HandsAgree, Holds
<1>9. (\A j \in Items : j \in is_gotten <=> \E d \in Chars : gotten_item[d] = j)'
  <2> SUFFICES ASSUME NEW j \in Items
               PROVE  j \in is_gotten' <=> \E d \in Chars : gotten_item'[d] = j
    OBVIOUS
  <2>1. j \in is_gotten <=> \E d \in Chars : gotten_item[d] = j
    BY <1>0 DEF HandsAgree
  <2>2. CASE j = i
    BY <1>2, <1>3, <1>5, <1>7, <2>2
  <2>3. CASE j # i
    <3>1. \A d \in Chars : gotten_item'[d] = j <=> gotten_item[d] = j
      BY <1>3, <1>7, <2>3 DEF i
    <3> QED
      BY <1>2, <2>1, <2>3, <3>1
  <2> QED
    BY <2>2, <2>3
<1>10. (\A j \in Items : gotten_by[j] # None => gotten_item[gotten_by[j]] = j)'
  <2> SUFFICES ASSUME NEW j \in Items, gotten_by'[j] # None
               PROVE  gotten_item'[gotten_by'[j]] = j
    OBVIOUS
  <2>1. j # i /\ gotten_by'[j] = gotten_by[j]
    BY <1>4
  <2>2. gotten_by[j] \in Chars /\ gotten_item[gotten_by[j]] = j
    BY <1>0, <1>6, <2>1 DEF HandsAgree
  <2> QED
    BY <1>3, <2>1, <2>2 DEF i
<1>11. (inuse \subseteq is_gotten \cup reserved)'
  BY <1>0, <1>1, <1>2 DEF HandsAgree
<1> QED
  BY <1>2, <1>8, <1>9, <1>10, <1>11 DEF HandsAgree, i

(* An item that is let go is put somewhere. *)
LEMMA LetGoPut ==
    ASSUME PlaceInv, TypeOK', NEW c \in Chars, Holds(c), LetGo(c),
           reserved \ {gotten_item[c]} \subseteq reserved',
           amount' = amount, Good(world'), Gains(world', world, gotten_item[c])
    PROVE  PlaceInv'
<1>1. HandsAgree' /\ is_gotten' = is_gotten \ {gotten_item[c]}
  BY LetGoHands
<1>2. /\ gotten_item[c] \in Items /\ gotten_item[c] \in is_gotten
      /\ amount[gotten_item[c]] > 0
  BY Held
<1>3. Exist'
  <2> SUFFICES ASSUME NEW j \in Items
               PROVE  /\ amount'[j] > 0 <=> InWorld(world', j) \/ j \in is_gotten'
                      /\ ~(InWorld(world', j) /\ j \in is_gotten')
    BY DEF Exist, InWorld
  <2>1. /\ amount[j] > 0 <=> InWorld(world, j) \/ j \in is_gotten
        /\ ~(InWorld(world, j) /\ j \in is_gotten)
    BY DEF PlaceInv, Exist
  <2>2. InWorld(world', j) <=> j = gotten_item[c] \/ InWorld(world, j)
    BY DEF Gains
  <2> QED
    BY <1>1, <1>2, <2>1, <2>2
<1>4. Good(world)'
  BY DEF Good, Agrees, WornOnce
<1> QED
  BY <1>1, <1>3, <1>4 DEF PlaceInv

(* An item that is let go is destroyed. *)
LEMMA LetGoDestroyed ==
    ASSUME PlaceInv, TypeOK', NEW c \in Chars, Holds(c), LetGo(c),
           reserved \ {gotten_item[c]} \subseteq reserved',
           world' = world, amount'[gotten_item[c]] = 0,
           \A j \in Items : j # gotten_item[c] => (amount'[j] > 0 <=> amount[j] > 0)
    PROVE  PlaceInv'
<1>1. HandsAgree' /\ is_gotten' = is_gotten \ {gotten_item[c]}
  BY LetGoHands
<1>2. gotten_item[c] \in Items /\ ~InWorld(world, gotten_item[c])
  BY Held
<1>3. Exist'
  <2> SUFFICES ASSUME NEW j \in Items
               PROVE  /\ amount'[j] > 0 <=> InWorld(world', j) \/ j \in is_gotten'
                      /\ ~(InWorld(world', j) /\ j \in is_gotten')
    BY DEF Exist, InWorld
  <2>1. /\ amount[j] > 0 <=> InWorld(world, j) \/ j \in is_gotten
        /\ ~(InWorld(world, j) /\ j \in is_gotten)
    BY DEF PlaceInv, Exist
  <2>2. ~(0 > 0)
    OBVIOUS
  <2> QED
    BY <1>1, <1>2, <2>1, <2>2
<1> QED
  BY <1>1, <1>3 DEF PlaceInv, Good, Agrees, WornOnce

(* The hands stay as they are, if fewer items are in use. *)
SameHands ==
    /\ UNCHANGED << gotten_item, gotten_by, is_gotten >>
    /\ inuse' \subseteq inuse

LEMMA TestKeepsHands ==
    ASSUME NEW i, check_test_scripts(i) \/ check_unequiptest_scripts(i)
    PROVE  SameHands
BY DEF hand, SameHands, check_test_scripts, check_unequiptest_scripts

(* The same items are somewhere, if elsewhere. *)
LEMMA RearrangedUsed ==
    ASSUME PlaceInv, TypeOK', SameHands, UNCHANGED << amount, reserved >>, Good(world'),
           \A i \in Items : InWorld(world', i) <=> InWorld(world, i)
    PROVE  PlaceInv'
<1>1. HandsAgree'
  BY DEF PlaceInv, HandsAgree, SameHands, Holds
<1>2. Exist'
  BY DEF PlaceInv, Exist, InWorld, SameHands
<1>3. Good(world)'
  BY DEF Good, Agrees, WornOnce
<1> QED
  BY <1>1, <1>2, <1>3 DEF PlaceInv

LEMMA Rearranged ==
    ASSUME PlaceInv, TypeOK', UNCHANGED << amount, hand, reserved >>, Good(world'),
           \A i \in Items : InWorld(world', i) <=> InWorld(world, i)
    PROVE  PlaceInv'
<1>1. SameHands
  BY DEF hand, SameHands
<1> QED
  BY <1>1, RearrangedUsed

LEMMA PlaceInit == Init => PlaceInv
<1> SUFFICES ASSUME Init PROVE PlaceInv
  OBVIOUS
<1>1. PICK s \in Stacks, n \in 1 .. StackSize, W \in SUBSET Wearables :
         /\ n + Cardinality(W) = Units
         /\ amount = [i \in Items |-> IF i = s THEN n ELSE IF i \in W THEN 1 ELSE 0]
         /\ world = [container |-> [i \in Items |-> None],
                     contents  |-> [k \in Places |->
                                    IF k = None THEN W \cup {s} ELSE {}]]
  BY Zenon DEF Init
<1>2. TypeOK
  BY TypeInit
<1>3. world \in Worlds
  BY <1>2, TypeParts
<1>4. Good(world)
  <2>1. Agrees(world)
    BY <1>1 DEF Agrees
  <2>2. WornOnce(world)
    BY <1>1, ContainersDiffer DEF WornOnce
  <2> QED
    BY <1>3, <2>1, <2>2 DEF Good
<1>5. /\ gotten_item = [c \in Chars |-> None] /\ gotten_by = [i \in Items |-> None]
      /\ is_gotten = {} /\ inuse = {} /\ reserved = {}
  BY DEF Init
<1>6. HandsAgree
  BY <1>5, ItemMovesAssumption DEF HandsAgree, Holds
<1>7. Exist
  <2> SUFFICES ASSUME NEW i \in Items
               PROVE  amount[i] > 0 <=> InWorld(world, i)
    BY <1>5 DEF Exist
  <2>1. InWorld(world, i) <=> i \in W \cup {s}
    BY <1>1 DEF InWorld, Places
  <2>2. amount[i] = IF i = s THEN n ELSE IF i \in W THEN 1 ELSE 0
    BY <1>1
  <2>3. n > 0
    BY ItemMovesAssumption
  <2> QED
    BY <2>1, <2>2, <2>3
<1> QED
  BY <1>2, <1>4, <1>6, <1>7 DEF PlaceInv
(* What a character can reach and nobody uses is in the world. *)
LEMMA Reachable ==
    ASSUME PlaceInv, NEW c \in Chars, NEW i \in Items, i \in Legal(c) \ inuse
    PROVE  /\ InWorld(world, i) /\ i \notin is_gotten /\ amount[i] > 0
           /\ world.container[i] \in {None, Pack(c), Worn(c)}
<1>1. Agrees(world) /\ HandsAgree /\ Exist
  BY DEF PlaceInv, Good
<1>2. PICK k \in {None, Pack(c), Worn(c)} : i \in world.contents[k]
  BY DEF Legal
<1>3. k \in Places
  BY <1>2, ContainersDiffer DEF Places
<1> QED
  BY <1>1, <1>2, <1>3 DEF HandsAgree, Exist, Agrees, InWorld

(* What a script may move is in the world. *)
LEMMA MovableInWorld ==
    ASSUME PlaceInv, NoMisuse, NEW i \in Items, Movable(i), MayTake(i)
    PROVE  InWorld(world, i) /\ i \notin is_gotten
BY DEF PlaceInv, Exist, Movable, MayTake, NoMisuse

(* The item, or the part of it that is left, leaves the world, and what is parted from
   it takes its place. *)
LEMMA SlicePlaces ==
    ASSUME PlaceInv, NEW c \in Chars, NEW i \in Items, i \in Legal(c) \ inuse,
           NEW n \in 1 .. amount[i] - 1, NEW j \in Stacks, Slice(i, n, j)
    PROVE  /\ Good(world') /\ j \in Items /\ j # i /\ amount[j] = 0
           /\ \A l \in Items : amount'[l] > 0 <=> amount[l] > 0 \/ l = j
           /\ \A l \in Items : InWorld(world', l) <=> l # i /\ (l = j \/ InWorld(world, l))
           /\ \A d \in Chars : world'.contents[Offer(d)] = world.contents[Offer(d)]
           /\ \A l \in Items : l \notin {i, j} =>
                  world'.container[l] = world.container[l] /\ amount'[l] = amount[l]
           /\ world'.container[i] = None
<1> DEFINE u == true_extricate(world, i)
<1>0. Good(world) /\ world \in Worlds /\ Agrees(world) /\ WornOnce(world) /\ OtherTypes /\ Exist
  BY TypeParts DEF PlaceInv, Good
<1>1. j \in Items
  BY DEF Items
<1>2. InWorld(world, i) /\ world.container[i] \in {None, Pack(c), Worn(c)} /\ amount[i] > 0
  BY Reachable
<1>3. /\ amount[j] = 0
      /\ amount' = [amount EXCEPT ![i] = n, ![j] = amount[i] - n]
  BY DEF Slice
<1>4. j # i
  BY <1>2, <1>3
<1>5. \A l \in Items : amount'[l] = IF l = j THEN amount[i] - n
                                     ELSE IF l = i THEN n ELSE amount[l]
  BY <1>0, <1>1, <1>3, <1>4 DEF OtherTypes
<1>6. amount[i] \in Nat /\ n > 0 /\ amount[i] - n > 0
  BY <1>0 DEF OtherTypes
<1>7. ~InWorld(world, j)
  <2>1. ~(amount[j] > 0)
    BY <1>3
  <2> QED
    BY <1>0, <1>1, <2>1 DEF Exist
<1>8. PICK k \in {world.container[i], None} : world' = Put(u, j, k)
  BY DEF Slice
<1>9. Good(u) /\ Loses(u, world, i)
  BY <1>0, ExtricateGood
<1>10. k \in Places /\ k \in {None, Pack(c), Worn(c)}
  BY <1>2, <1>8, ContainersDiffer DEF Places
<1>11. ASSUME NEW d \in Chars, k = Worn(d)
       PROVE  u.contents[k] = {}
  <2>1. k = world.container[i] /\ k # None
    BY <1>8, <1>11, ContainersDiffer
  <2>2. \A l \in world.contents[k] : l = i
    BY <1>0, <1>11, <2>1 DEF Agrees, WornOnce
  <2>3. u.contents[k] \subseteq world.contents[k]
    BY <1>0, <1>10, ExtricateElsewhere
  <2>4. i \notin u.contents[k]
    <3>1. ~InWorld(u, i)
      BY <1>9 DEF Loses
    <3> QED
      BY <1>10, <3>1 DEF InWorld
  <2> QED
    BY <2>2, <2>3, <2>4
<1>12. ~InWorld(u, j)
  BY <1>1, <1>7, <1>9 DEF Loses
<1>13. u \in Worlds
  BY <1>9 DEF Good
<1> HIDE DEF u
<1>14. Good(world') /\ Gains(world', u, j)
  BY <1>1, <1>8, <1>9, <1>10, <1>11, <1>12, PutGood
<1>15. \A l \in Items : InWorld(world', l) <=> l # i /\ (l = j \/ InWorld(world, l))
  BY <1>4, <1>9, <1>14 DEF Gains, Loses
<1>16. \A d \in Chars : world'.contents[Offer(d)] = world.contents[Offer(d)]
  <2> SUFFICES ASSUME NEW d \in Chars
               PROVE  world'.contents[Offer(d)] = world.contents[Offer(d)]
    OBVIOUS
  <2>1. Offer(d) \in Places /\ Offer(d) # k
    BY <1>10, ContainersDiffer
  <2>2. i \notin world.contents[Offer(d)]
    BY <1>0, <1>2, <2>1, ContainersDiffer DEF Agrees
  <2>3. u.contents[Offer(d)] = world.contents[Offer(d)]
    BY <1>0, <2>1, <2>2, ExtricateElsewhere DEF u
  <2> QED
    BY <1>1, <1>8, <1>10, <1>13, <2>1, <2>3, PutElsewhere
<1>17. \A l \in Items : world'.container[l] =
          IF l = j THEN k ELSE IF l = i THEN None ELSE world.container[l]
  <2>1. \A l \in Items : u.container[l] = IF l = i THEN None ELSE world.container[l]
    BY <1>0, ExtricateElsewhere DEF u
  <2> QED
    BY <1>1, <1>8, <1>10, <1>13, <2>1, PutElsewhere
<1>18. \A l \in Items : amount'[l] > 0 <=> amount[l] > 0 \/ l = j
  BY <1>2, <1>5, <1>6
<1> QED
  BY <1>1, <1>3, <1>4, <1>5, <1>14, <1>15, <1>16, <1>17, <1>18

LEMMA GetItemPlace ==
    ASSUME PlaceInv, TypeOK', NEW c \in Chars, NEW i \in Items, get_item(c, i)
    PROVE  PlaceInv'
<1>0. HandTypes /\ OtherTypes /\ HandsAgree /\ Exist /\ Good(world)
  BY TypeParts DEF PlaceInv
<1>1. i \in Legal(c) \ inuse /\ ~Holds(c)
  BY DEF get_item
<1>2. InWorld(world, i) /\ i \notin is_gotten /\ amount[i] > 0
  BY <1>1, Reachable
<1>3. /\ Good(world')
      /\ amount'[i] > 0 /\ ~InWorld(world', i)
      /\ \A l \in Items \ {i} : /\ amount'[l] > 0 <=> InWorld(world', l) \/ l \in is_gotten
                              /\ ~(InWorld(world', l) /\ l \in is_gotten)
  <2>1. CASE world' = true_extricate(world, i) /\ UNCHANGED amount
    <3>1. Good(world') /\ Loses(world', world, i)
      BY <1>0, <2>1, ExtricateGood
    <3> QED
      BY <1>0, <1>2, <2>1, <3>1 DEF Exist, Loses
  <2>2. CASE \E n \in 1 .. amount[i] - 1, j \in Stacks : Slice(i, n, j)
    <3>1. PICK n \in 1 .. amount[i] - 1, j \in Stacks : Slice(i, n, j)
      BY <2>2
    <3>2. /\ Good(world') /\ j \in Items /\ j # i /\ amount[j] = 0
          /\ \A l \in Items : amount'[l] > 0 <=> amount[l] > 0 \/ l = j
          /\ \A l \in Items : InWorld(world', l) <=> l # i /\ (l = j \/ InWorld(world, l))
      BY <1>1, <3>1, SlicePlaces
    <3>3. j \notin is_gotten
      BY <1>0, <3>2 DEF Exist
    <3> QED
      BY <1>0, <1>2, <3>2, <3>3 DEF Exist
  <2> QED
    BY <2>1, <2>2 DEF get_item
<1>4. /\ gotten_item' = [gotten_item EXCEPT ![c] = i]
      /\ gotten_by' = [gotten_by EXCEPT ![i] = c]
      /\ is_gotten' = is_gotten \cup {i} /\ inuse' = inuse \cup {i} /\ reserved' = reserved
  BY DEF get_item
<1>5. \A d \in Chars : gotten_item'[d] = IF d = c THEN i ELSE gotten_item[d]
  BY <1>0, <1>4 DEF HandTypes
<1>6. \A j \in Items : gotten_by'[j] = IF j = i THEN c ELSE gotten_by[j]
  BY <1>0, <1>4 DEF HandTypes
<1>7. \A d \in Chars : gotten_item[d] # i
  BY <1>0, <1>2 DEF HandsAgree
<1>8. None \notin Items /\ gotten_item[c] = None
  BY <1>1, ItemMovesAssumption DEF Holds
<1>9. HandsAgree'
  <2>1. (\A d, e \in Chars : Holds(d) /\ gotten_item[d] = gotten_item[e] => d = e)'
    BY <1>0, <1>5, <1>7 DEF HandsAgree, Holds
  <2>2. (\A j \in Items : j \in is_gotten <=> \E d \in Chars : gotten_item[d] = j)'
    <3> SUFFICES ASSUME NEW j \in Items
                 PROVE  j \in is_gotten' <=> \E d \in Chars : gotten_item'[d] = j
      OBVIOUS
    <3>1. j \in is_gotten <=> \E d \in Chars : gotten_item[d] = j
      BY <1>0 DEF HandsAgree
    <3>2. j # i => ((\E d \in Chars : gotten_item'[d] = j) <=> \E d \in Chars : gotten_item[d] = j)
      BY <1>5, <1>8
    <3> QED
      BY <1>4, <1>5, <3>1, <3>2
  <2>3. (\A j \in Items : gotten_by[j] # None => gotten_item[gotten_by[j]] = j)'
    <3> SUFFICES ASSUME NEW j \in Items, gotten_by'[j] # None
                 PROVE  gotten_item'[gotten_by'[j]] = j
      OBVIOUS
    <3>1. CASE j = i
      BY <1>5, <1>6, <3>1
    <3>2. CASE j # i
      <4>1. gotten_by'[j] = gotten_by[j] /\ gotten_by[j] \in Chars
        BY <1>0, <1>6, <3>2 DEF HandTypes
      <4>2. gotten_item[gotten_by[j]] = j
        BY <1>0, <4>1 DEF HandsAgree
      <4> QED
        BY <1>5, <1>8, <4>1, <4>2
    <3> QED
      BY <3>1, <3>2
  <2>4. (inuse \subseteq is_gotten \cup reserved)'
    BY <1>0, <1>4 DEF HandsAgree
  <2> QED
    BY <2>1, <2>2, <2>3, <2>4 DEF HandsAgree
<1>10. Exist'
  <2> SUFFICES ASSUME NEW l \in Items
               PROVE  /\ amount'[l] > 0 <=> InWorld(world', l) \/ l \in is_gotten'
                      /\ ~(InWorld(world', l) /\ l \in is_gotten')
    BY DEF Exist, InWorld
  <2>1. l \in is_gotten' <=> l \in is_gotten \/ l = i
    BY <1>4
  <2>2. CASE l = i
    BY <1>3, <2>1, <2>2
  <2>3. CASE l # i
    BY <1>3, <2>1, <2>3
  <2> QED
    BY <2>2, <2>3
<1> QED
  BY <1>3, <1>9, <1>10 DEF PlaceInv, Good, Agrees, WornOnce

LEMMA DragPlace ==
    ASSUME PlaceInv, TypeOK', NEW c \in Chars, Drag(c)
    PROVE  PlaceInv'
<1>0. Good(world) /\ OtherTypes /\ HandTypes
  BY TypeParts DEF PlaceInv
<1> DEFINE i == gotten_item[c]
<1>1. CASE \E j \in Items : get_item(c, j)
  BY <1>1, GetItemPlace
<1>2. CASE WrongSerial(c)
  <2>1. \A j \in Items : gotten_by'[j] \in {gotten_by[j], None}
    BY <1>0, <1>2 DEF WrongSerial, HandTypes
  <2>2. HandsAgree'
    BY <1>2, <2>1 DEF PlaceInv, HandsAgree, Holds, WrongSerial
  <2> QED
    BY <1>2, <2>2 DEF WrongSerial, PlaceInv, Exist, Good, Agrees, WornOnce, InWorld
<1>3. ASSUME NEW k \in Places, \A d \in Chars : k # Worn(d),
             Dropping(c), world' = Put(world, i, k), UNCHANGED << amount, reserved >>
      PROVE  PlaceInv'
  <2>1. Holds(c) /\ LetGo(c)
    BY <1>3 DEF Dropping
  <2>2. i \in Items /\ ~InWorld(world, i)
    BY <2>1, Held
  <2>3. Good(world') /\ Gains(world', world, i)
    BY <1>0, <1>3, <2>2, PutGood
  <2> QED
    BY <1>3, <2>1, <2>3, LetGoPut
<1>4. CASE drop_item_on_ground(c)
  BY <1>3, <1>4, ContainersDiffer DEF drop_item_on_ground, Places
<1>5. CASE place_item_in_container(c)
  BY <1>3, <1>5, ContainersDiffer DEF place_item_in_container
<1>6. ASSUME NEW j \in Stacks, add_item_to_stack(c, j)
      PROVE  PlaceInv'
  <2>1. /\ Holds(c) /\ LetGo(c) /\ reserved' = reserved \ {i} /\ world' = world
        /\ j \in Legal(c) \ inuse
        /\ amount' = [amount EXCEPT ![j] = @ + amount[i], ![i] = 0]
    BY <1>6 DEF add_item_to_stack, Dropping
  <2>2. i \in Items /\ j \in Items
    BY <2>1, Held DEF Items
  <2>3. amount[j] > 0 /\ j # i
    BY <2>1, <2>2, Held, Reachable
  <2>4. amount'[i] = 0 /\ \A l \in Items : l # i => (amount'[l] > 0 <=> amount[l] > 0)
    <3>1. amount[j] \in Nat /\ amount[i] \in Nat
      BY <1>0, <2>2 DEF OtherTypes
    <3>2. amount[j] + amount[i] > 0
      BY <2>3, <3>1
    <3> QED
      BY <1>0, <2>1, <2>2, <2>3, <3>2 DEF OtherTypes
  <2> QED
    BY <2>1, <2>4, LetGoDestroyed
<1>7. CASE HookDestroys(c)
  <2>1. /\ Holds(c) /\ LetGo(c) /\ reserved' = reserved \ {i} /\ world' = world
        /\ amount' = [amount EXCEPT ![i] = 0]
    BY <1>7 DEF HookDestroys, Dropping
  <2>2. i \in Items
    BY <2>1, Held
  <2>3. amount'[i] = 0 /\ \A l \in Items : l # i => (amount'[l] > 0 <=> amount[l] > 0)
    BY <1>0, <2>1, <2>2 DEF OtherTypes
  <2> QED
    BY <2>1, <2>3, LetGoDestroyed
<1>8. CASE Refused(c)
  <2>1. /\ Holds(c) /\ LetGo(c) /\ reserved' = reserved /\ amount' = amount
        /\ world' \in undo_get_item(world, c, i)
    BY <1>8 DEF Refused, Dropping
  <2>2. i \in Items /\ ~InWorld(world, i)
    BY <2>1, Held
  <2>3. Good(world') /\ Gains(world', world, i)
    BY <1>0, <2>1, <2>2, UndoGood
  <2> QED
    BY <2>1, <2>3, LetGoPut
<1>9. ASSUME NEW d \in Chars, equip_item(c, d)
      PROVE  PlaceInv'
  <2>1. /\ Holds(c) /\ LetGo(c) /\ reserved' = reserved /\ amount' = amount
        /\ world' = Put(world, i, Worn(d)) /\ world.contents[Worn(d)] = {}
    BY <1>9 DEF equip_item, equippable
  <2>2. i \in Items /\ ~InWorld(world, i)
    BY <2>1, Held
  <2>3. Good(world') /\ Gains(world', world, i)
    BY <1>0, <2>1, <2>2, PutGood, ContainersDiffer
  <2> QED
    BY <2>1, <2>3, LetGoPut
<1> QED
  BY <1>1, <1>2, <1>4, <1>5, <1>6, <1>7, <1>8, <1>9 DEF Drag
(* Offering an item, ending a trade and exchanging what is offered leave the items in
   one place each. *)
LEMMA CancelPlace ==
    ASSUME NoMisuse, PlaceInv, NEW S \in SUBSET Chars, \A c \in S : is_trading(c),
           CancelTrades(world, S)
    PROVE  /\ Good(world')
           /\ \A i \in Items : InWorld(world', i) <=> InWorld(world, i)
           /\ \A c \in Chars : world'.contents[Offer(c)] =
                 IF c \in S \cup {trading_with[d] : d \in S} THEN {}
                 ELSE world.contents[Offer(c)]
<1> DEFINE T == S \cup {trading_with[c] : c \in S}
<1>1. T \in SUBSET Chars
  BY TypeParts DEF PlaceInv, TradeTypes, is_trading
<1>2. world' \in return_traded_items(world, T)
  BY DEF CancelTrades
<1>3. world \in Worlds /\ AgreesButFor(world, T) /\ WornOnce(world)
  BY <1>1, AgreesUnlessSwapped DEF PlaceInv, Good
<1> QED
  BY <1>1, <1>2, <1>3, ReturnGood DEF NoMisuse

LEMMA TradePlace ==
    ASSUME NoMisuse, PlaceInv, TypeOK', NEW c \in Chars, Trade(c)
    PROVE  PlaceInv'
<1>0. Good(world) /\ TradeTypes
  BY TypeParts DEF PlaceInv
<1> DEFINE i == gotten_item[c]
<1>1. ASSUME NEW d \in Chars, open_trade_window(c, d)
      PROVE  PlaceInv'
  BY <1>0, <1>1, Rearranged DEF open_trade_window
<1>2. ASSUME Dropping(c), world' = Put(world, i, Offer(c)), UNCHANGED << amount, reserved >>
      PROVE  PlaceInv'
  <2>1. Holds(c) /\ LetGo(c)
    BY <1>2 DEF Dropping
  <2>2. i \in Items /\ ~InWorld(world, i)
    BY <2>1, Held
  <2>3. Good(world') /\ Gains(world', world, i)
    BY <1>0, <1>2, <2>2, PutGood, ContainersDiffer
  <2> QED
    BY <1>2, <2>1, <2>3, LetGoPut
<1>3. ASSUME NEW d \in Chars, drop_item_on_mobile(c, d)
      PROVE  PlaceInv'
  <2>1. /\ Dropping(c) /\ UNCHANGED << amount, reserved >>
        /\ \/ world' = Put(world, i, Offer(c))
           \/ world' \in undo_get_item(world, c, i)
    BY <1>3 DEF drop_item_on_mobile
  <2>2. ASSUME world' \in undo_get_item(world, c, i)
        PROVE  PlaceInv'
    <3>1. Holds(c) /\ LetGo(c)
      BY <2>1 DEF Dropping
    <3>2. i \in Items /\ ~InWorld(world, i)
      BY <3>1, Held
    <3>3. Good(world') /\ Gains(world', world, i)
      BY <1>0, <2>2, <3>2, UndoGood
    <3> QED
      BY <2>1, <3>1, <3>3, LetGoPut
  <2> QED
    BY <1>2, <2>1, <2>2
<1>4. CASE place_item_in_secure_trade_container(c)
  <2>1. amount' = amount
    BY <1>4 DEF place_item_in_secure_trade_container, NoMisuse
  <2> QED
    BY <1>2, <1>4, <2>1 DEF place_item_in_secure_trade_container
<1>5. CASE cancel_trade(c)
  BY <1>5, CancelPlace, Rearranged DEF cancel_trade
<1>6. ASSUME NEW set \in BOOLEAN, change_trade_status(c, set)
      PROVE  PlaceInv'
  <2> DEFINE d == trading_with[c]
             w == swap(world, c, d)
  <2>1. d \in Chars /\ UNCHANGED << amount, hand, reserved >>
    BY <1>0, <1>6 DEF change_trade_status, is_trading, TradeTypes
  <2>2. CASE world' = world
    BY <1>0, <2>1, <2>2, Rearranged
  <2>3. CASE world' \in return_traded_items(w, {c, d})
    <3>1. w \in Worlds
      BY <1>0, <2>1, SwapType DEF Good
    <3>2. /\ AgreesButFor(w, {c, d}) /\ WornOnce(w)
          /\ \A j \in Items : InWorld(w, j) <=> InWorld(world, j)
      BY <1>0, <2>1, SwapAgrees
    <3> HIDE DEF w, d
    <3>3. {c, d} \in SUBSET Chars
      BY <2>1
    <3>4. Good(world') /\ \A j \in Items : InWorld(world', j) <=> InWorld(w, j)
      BY <2>3, <3>1, <3>2, <3>3, ReturnGood DEF NoMisuse
    <3> QED
      BY <2>1, <3>2, <3>4, Rearranged
  <2> QED
    BY <1>6, <2>2, <2>3 DEF change_trade_status
<1> QED
  BY <1>1, <1>3, <1>4, <1>5, <1>6 DEF Trade

LEMMA ClearPlace ==
    ASSUME PlaceInv, TypeOK', NEW c \in Chars, clear_gotten_item(c),
           UNCHANGED << amount, reserved >>
    PROVE  PlaceInv'
<1>0. Good(world)
  BY DEF PlaceInv
<1>1. CASE Holds(c)
  <2>1. LetGo(c) /\ world' \in undo_get_item(world, c, gotten_item[c])
    BY <1>1 DEF clear_gotten_item
  <2>2. gotten_item[c] \in Items /\ ~InWorld(world, gotten_item[c])
    BY <1>1, Held
  <2>3. Good(world') /\ Gains(world', world, gotten_item[c])
    BY <1>0, <2>1, <2>2, UndoGood
  <2> QED
    BY <1>1, <2>1, <2>3, LetGoPut
<1>2. CASE ~Holds(c)
  BY <1>0, <1>2, Rearranged DEF clear_gotten_item
<1> QED
  BY <1>1, <1>2

LEMMA ConnectionPlace ==
    ASSUME NoMisuse, PlaceInv, TypeOK', NEW c \in Chars,
           Connection(c) \/ ClearGottenItem(c)
    PROVE  PlaceInv'
<1>0. Good(world)
  BY DEF PlaceInv
<1>1. CASE closeConnection(c)
  BY <1>0, <1>1, Rearranged DEF closeConnection
<1>2. ASSUME NEW next, Cleanup(c, next)
      PROVE  PlaceInv'
  <2>1. CASE is_trading(c)
    BY <1>2, <2>1, CancelPlace, Rearranged DEF Cleanup
  <2>2. CASE ~is_trading(c)
    BY <1>0, <1>2, <2>2, Rearranged DEF Cleanup
  <2> QED
    BY <2>1, <2>2
<1>3. CASE start_client_char(c) \/ ClearGottenItem(c)
  BY <1>3, ClearPlace DEF start_client_char, ClearGottenItem
<1> QED
  BY <1>1, <1>2, <1>3 DEF Connection, disconnect_cleanup, PreDelete

(* A script moves an item from one place to another. *)
LEMMA MovePlace ==
    ASSUME NoMisuse, PlaceInv, TypeOK', NEW i \in Items, NEW k \in Places, MoveItem(i, k),
           \A c \in Chars : k = Worn(c) => world.contents[k] = {},
           check_test_scripts(i) \/ check_unequiptest_scripts(i),
           UNCHANGED << amount, reserved >>
    PROVE  PlaceInv'
<1> DEFINE u == true_extricate(world, i)
<1>0. Good(world) /\ world \in Worlds
  BY DEF PlaceInv, Good
<1>1. InWorld(world, i) /\ world' = Put(u, i, k)
  BY MovableInWorld DEF MoveItem
<1>2. Good(u) /\ Loses(u, world, i)
  BY <1>0, ExtricateGood
<1>3. ~InWorld(u, i) /\ u.contents[k] \subseteq world.contents[k]
  BY <1>0, <1>2, ExtricateElsewhere DEF Loses
<1> HIDE DEF u
<1>4. Good(world') /\ Gains(world', u, i)
  BY <1>1, <1>2, <1>3, PutGood
<1>5. \A j \in Items : InWorld(world', j) <=> InWorld(world, j)
  BY <1>1, <1>2, <1>4 DEF Gains, Loses
<1> QED
  BY <1>4, <1>5, TestKeepsHands, RearrangedUsed

LEMMA SubtractPlace ==
    ASSUME NoMisuse, PlaceInv, TypeOK', NEW i \in Items, NEW n \in Nat, n > 0,
           SubtractAmount(i, n)
    PROVE  PlaceInv'
<1>0. HandTypes /\ OtherTypes /\ Good(world) /\ HandsAgree /\ Exist
  BY TypeParts DEF PlaceInv
<1>1. /\ amount[i] > 0 /\ amount[i] \in Nat
      /\ \A j \in Items : amount'[j] = IF j = i THEN Rest(i, n) ELSE amount[j]
  BY <1>0 DEF SubtractAmount, OtherTypes
<1>2. Rest(i, n) > 0 <=> ~(n >= amount[i])
  BY <1>1 DEF Rest
<1>3. ASSUME NEW w, Good(w)
      PROVE  /\ Good(Less(w, i, n))
             /\ \A j \in Items : InWorld(Less(w, i, n), j) <=>
                    InWorld(w, j) /\ (j = i => ~(n >= amount[i]))
  <2>1. CASE n >= amount[i]
    <3>1. Less(w, i, n) = true_extricate(w, i)
      BY <2>1 DEF Less
    <3> QED
      BY <1>3, <2>1, <3>1, ExtricateGood DEF Loses
  <2>2. CASE ~(n >= amount[i])
    BY <1>3, <2>2 DEF Less
  <2> QED
    BY <2>1, <2>2
<1>4. CASE gotten_by[i] # None
  <2> DEFINE c == gotten_by[i]
  <2>1. c \in Chars /\ gotten_item[c] = i
    BY <1>0, <1>4 DEF HandTypes, HandsAgree
  <2>2. Holds(c) /\ LetGo(c) /\ reserved \ {i} \subseteq reserved'
    BY <1>4, <2>1, ItemMovesAssumption DEF SubtractAmount, Holds
  <2>3. PICK w \in undo_get_item(world, c, i) : world' = Less(w, i, n)
    BY <1>4 DEF SubtractAmount
  <2>4. i \in is_gotten /\ ~InWorld(world, i)
    BY <2>1, <2>2, Held
  <2>5. Good(w) /\ Gains(w, world, i)
    BY <1>0, <2>1, <2>3, <2>4, UndoGood
  <2>6. HandsAgree' /\ is_gotten' = is_gotten \ {i}
    BY <2>1, <2>2, LetGoHands
  <2>7. /\ Good(world')
        /\ \A j \in Items : InWorld(world', j) <=>
              (j = i \/ InWorld(world, j)) /\ (j = i => ~(n >= amount[i]))
    BY <1>3, <2>3, <2>5 DEF Gains
  <2>8. Exist'
    <3> SUFFICES ASSUME NEW j \in Items
                 PROVE  /\ amount'[j] > 0 <=> InWorld(world', j) \/ j \in is_gotten'
                        /\ ~(InWorld(world', j) /\ j \in is_gotten')
      BY DEF Exist, InWorld
    <3> QED
      BY <1>0, <1>1, <1>2, <2>6, <2>7 DEF Exist
  <2> QED
    BY <2>6, <2>7, <2>8 DEF PlaceInv, Good, Agrees, WornOnce
<1>5. CASE gotten_by[i] = None
  <2>1. /\ Movable(i) /\ MayTake(i) /\ world' = Less(world, i, n)
        /\ UNCHANGED << gotten_item, gotten_by, is_gotten >>
        /\ \/ inuse' = inuse \ {i} /\ reserved' = reserved \ {i}
           \/ UNCHANGED << inuse, reserved >>
    BY <1>5 DEF SubtractAmount
  <2>2. InWorld(world, i) /\ i \notin is_gotten
    BY <2>1, MovableInWorld
  <2>3. HandsAgree'
    BY <1>0, <2>1, <2>2 DEF HandsAgree, Holds
  <2>4. /\ Good(world')
        /\ \A j \in Items : InWorld(world', j) <=>
              InWorld(world, j) /\ (j = i => ~(n >= amount[i]))
    BY <1>0, <1>3, <2>1
  <2>5. Exist'
    <3> SUFFICES ASSUME NEW j \in Items
                 PROVE  /\ amount'[j] > 0 <=> InWorld(world', j) \/ j \in is_gotten'
                        /\ ~(InWorld(world', j) /\ j \in is_gotten')
      BY DEF Exist, InWorld
    <3> QED
      BY <1>0, <1>1, <1>2, <2>1, <2>2, <2>4 DEF Exist
  <2> QED
    BY <2>3, <2>4, <2>5 DEF PlaceInv, Good, Agrees, WornOnce
<1> QED
  BY <1>4, <1>5

LEMMA ScriptPlace ==
    ASSUME NoMisuse, PlaceInv, TypeOK', NEW i \in Items, Script(i)
    PROVE  PlaceInv'
<1>1. ASSUME NEW c \in Chars, MoveItemToContainer(i, c)
      PROVE  PlaceInv'
  BY <1>1, MovePlace, ContainersDiffer DEF MoveItemToContainer
<1>2. ASSUME NEW c \in Chars, EquipItem(i, c)
      PROVE  PlaceInv'
  BY <1>2, MovePlace, ContainersDiffer DEF EquipItem, equippable
<1>3. ASSUME NEW c \in Chars, MoveItemToSecureTradeWin(i, c)
      PROVE  PlaceInv'
  BY <1>3, MovePlace, ContainersDiffer DEF MoveItemToSecureTradeWin, MoveItem, NoMisuse
<1>4. CASE internal_MoveItem(i)
  BY <1>4, MovePlace, ContainersDiffer DEF internal_MoveItem, Places
<1>5. ASSUME NEW n \in 1 .. stack_limit(i), SubtractAmount(i, n)
      PROVE  PlaceInv'
  <2>1. n \in Nat /\ n > 0
    BY ItemMovesAssumption DEF stack_limit
  <2> QED
    BY <1>5, <2>1, SubtractPlace
<1>6. CASE ReserveItem(i) \/ ReleaseItem(i)
  <2>1. world' = world /\ amount' = amount /\ is_gotten' = is_gotten
    BY <1>6 DEF ReserveItem, ReleaseItem
  <2>2. HandsAgree'
    BY <1>6 DEF ReserveItem, ReleaseItem, PlaceInv, HandsAgree, Holds
  <2> QED
    BY <2>1, <2>2 DEF PlaceInv, Exist, Good, Agrees, WornOnce, InWorld
<1>7. CASE MoveRefused(i)
  <2>1. SameHands
    BY <1>7, TestKeepsHands DEF MoveRefused
  <2>2. Good(world)
    BY DEF PlaceInv
  <2> QED
    BY <1>7, <2>1, <2>2, RearrangedUsed DEF MoveRefused
<1> QED
  BY <1>1, <1>2, <1>3, <1>4, <1>5, <1>6, <1>7 DEF Script, ScriptGives

LEMMA PlaceNext == NoMisuse /\ PlaceInv /\ [Next]_vars => PlaceInv'
<1> SUFFICES ASSUME NoMisuse, PlaceInv, [Next]_vars PROVE PlaceInv'
  OBVIOUS
<1>0. TypeOK'
  BY TypeNext DEF PlaceInv
<1>1. ASSUME NEW c \in Chars, Drag(c) \/ Trade(c) \/ Connection(c) \/ ClearGottenItem(c)
      PROVE  PlaceInv'
  BY <1>0, <1>1, DragPlace, TradePlace, ConnectionPlace
<1>2. ASSUME NEW i \in Items, Script(i)
      PROVE  PlaceInv'
  BY <1>0, <1>2, ScriptPlace
<1>3. CASE cancel_all_trades
  <2> DEFINE S == {c \in Chars : client[c] = "playing" /\ is_trading(c)}
  <2>1. CancelTrades(world, S) /\ UNCHANGED << amount, hand, reserved, client >>
    BY <1>3 DEF cancel_all_trades
  <2>2. Good(world') /\ \A i \in Items : InWorld(world', i) <=> InWorld(world, i)
    BY <2>1, CancelPlace
  <2> QED
    BY <1>0, <2>1, <2>2, Rearranged
<1>4. CASE UNCHANGED vars
  BY <1>0, <1>4, Rearranged DEF vars, PlaceInv
<1> QED
  BY <1>1, <1>2, <1>3, <1>4 DEF Next
LEMMA ListedOnce ==
    ASSUME PlaceInv, NEW i \in Items
    PROVE  /\ InWorld(world, i) => ListedIn(i) = {world.container[i]}
           /\ ~InWorld(world, i) => ListedIn(i) = {} /\ world.container[i] = None
<1>1. Agrees(world) /\ world.container[i] \in Places
  BY DEF PlaceInv, Good, Worlds
<1> QED
  BY <1>1 DEF ListedIn, InWorld, Agrees

LEMMA HeldOnce ==
    ASSUME PlaceInv, NEW i \in Items
    PROVE  /\ i \in is_gotten => \E c \in Chars : HeldBy(i) = {c}
           /\ i \notin is_gotten => HeldBy(i) = {}
<1>1. HandsAgree /\ i # None
  BY ItemMovesAssumption DEF PlaceInv
<1>2. ASSUME i \in is_gotten
      PROVE  \E c \in Chars : HeldBy(i) = {c}
  <2>1. PICK c \in Chars : gotten_item[c] = i
    BY <1>1, <1>2 DEF HandsAgree
  <2>2. \A d \in Chars : gotten_item[d] = i => d = c
    BY <1>1, <2>1 DEF HandsAgree, Holds
  <2>3. HeldBy(i) = {c}
    BY <2>1, <2>2 DEF HeldBy
  <2> QED
    BY <2>3
<1>3. ASSUME i \notin is_gotten
      PROVE  HeldBy(i) = {}
  BY <1>1, <1>3 DEF HandsAgree, HeldBy
<1> QED
  BY <1>2, <1>3

LEMMA PlaceInvOnePlace == PlaceInv => OnePlace
<1> SUFFICES ASSUME PlaceInv PROVE OnePlace
  OBVIOUS
<1>0. HandsAgree /\ Exist /\ Good(world) /\ HandTypes
  BY TypeParts DEF PlaceInv
<1>1. ASSUME NEW i \in Items
      PROVE  InOnePlace(i)
  <2>1. CASE InWorld(world, i)
    <3>1. Cardinality(ListedIn(i)) = 1
      BY <2>1, ListedOnce, FS_Singleton
    <3>2. i \notin is_gotten /\ amount[i] > 0
      BY <1>0, <2>1 DEF Exist
    <3>3. Cardinality(HeldBy(i)) = 0
      BY <3>2, HeldOnce, FS_EmptySet
    <3> QED
      BY <3>1, <3>2, <3>3 DEF InOnePlace
  <2>2. CASE i \in is_gotten
    <3>1. ~InWorld(world, i) /\ amount[i] > 0
      BY <1>0, <2>2 DEF Exist
    <3>2. Cardinality(ListedIn(i)) = 0
      BY <3>1, ListedOnce, FS_EmptySet
    <3>3. PICK c \in Chars : HeldBy(i) = {c}
      BY <2>2, HeldOnce
    <3>4. Cardinality(HeldBy(i)) = 1
      BY <3>3, FS_Singleton
    <3> QED
      BY <3>1, <3>2, <3>4 DEF InOnePlace
  <2>3. CASE ~InWorld(world, i) /\ i \notin is_gotten
    <3>1. ~(amount[i] > 0)
      BY <1>0, <2>3 DEF Exist
    <3>2. Cardinality(ListedIn(i)) = 0 /\ Cardinality(HeldBy(i)) = 0
      BY <2>3, ListedOnce, HeldOnce, FS_EmptySet
    <3> QED
      BY <3>1, <3>2 DEF InOnePlace
  <2> QED
    BY <2>1, <2>2, <2>3
<1>2. ASSUME NEW i \in Items
      PROVE  RecordsAgree(i)
  <2>1. ListedIn(i) \cup {None} = {world.container[i], None}
    BY ListedOnce
  <2>2. i \in is_gotten <=> HeldBy(i) # {}
    BY HeldOnce
  <2>3. gotten_by[i] \in HeldBy(i) \cup {None}
    BY <1>0 DEF HandTypes, HandsAgree, HeldBy
  <2>4. i \in inuse => i \in is_gotten \cup reserved
    BY <1>0 DEF HandsAgree
  <2> QED
    BY <2>1, <2>2, <2>3, <2>4 DEF RecordsAgree
<1>3. ASSUME NEW c \in Chars
      PROVE  Cardinality(world.contents[Worn(c)]) <= 1
  <2>1. CASE world.contents[Worn(c)] = {}
    BY <2>1, FS_EmptySet
  <2>2. CASE world.contents[Worn(c)] # {}
    <3>1. PICK i : i \in world.contents[Worn(c)]
      BY <2>2
    <3>2. world.contents[Worn(c)] = {i}
      BY <1>0, <3>1 DEF Good, WornOnce
    <3>3. Cardinality({i}) = 1
      BY FS_Singleton
    <3> QED
      BY <3>2, <3>3
  <2> QED
    BY <2>1, <2>2
<1> QED
  BY <1>1, <1>2, <1>3 DEF OnePlace

(* The inductive invariant of the items: every record names the others' entries. *)
THEOREM Placed == ASSUME NoMisuse PROVE Spec => []PlaceInv
BY PlaceInit, PlaceNext, PTL DEF Spec

(* No item is lost, doubled or in a place that does not know of it, whatever drags,
   refusals, trades, disconnects and scripts do to it, and nobody wears two things on
   one layer: for any number of characters and items. *)
THEOREM ItemsInOnePlace == ASSUME NoMisuse PROVE Spec => []OnePlace
BY Placed, PlaceInvOnePlace, PTL

-----------------------------------------------------------------------------
(* Trades have two sides.                                                   *)

(* The trades stay; who has one has a client, and the trade containers of the others
   stay empty. *)
LEMMA TradesKept ==
    ASSUME TradesAgree, trading_with' = trading_with,
           \A c \in Chars : is_trading(c) => client'[c] # "none",
           \A c \in Chars : ~is_trading(c) =>
                world'.contents[Offer(c)] \subseteq world.contents[Offer(c)]
    PROVE  TradesAgree'
<1> SUFFICES ASSUME NEW c \in Chars
             PROVE  IF is_trading(c)
                    THEN /\ trading_with[c] # c /\ trading_with[trading_with[c]] = c
                         /\ client'[c] # "none"
                    ELSE world'.contents[Offer(c)] = {}
  BY DEF TradesAgree, is_trading, HasClient
<1> QED
  BY DEF TradesAgree

(* The same with UNCHANGED for most of it. *)
LEMMA TradesUntouched ==
    ASSUME TradesAgree, trading_with' = trading_with, client' = client,
           \A c \in Chars : world'.contents[Offer(c)] = world.contents[Offer(c)]
    PROVE  TradesAgree'
BY TradesKept DEF TradesAgree, HasClient

LEMMA CancelTradesAgree ==
    ASSUME NoMisuse, IInv, NEW S \in SUBSET Chars, \A c \in S : is_trading(c),
           CancelTrades(world, S), \A c \in Chars \ S : client'[c] = client[c]
    PROVE  TradesAgree'
<1> DEFINE T == S \cup {trading_with[c] : c \in S}
<1>0. PlaceInv /\ TradesAgree /\ TradeTypes
  BY TypeParts DEF IInv, PlaceInv
<1>1. \A c \in Chars : world'.contents[Offer(c)] = IF c \in T THEN {} ELSE world.contents[Offer(c)]
  BY <1>0, CancelPlace
<1>2. trading_with' = [c \in Chars |-> IF c \in T THEN None ELSE trading_with[c]]
  BY DEF CancelTrades, EndTrades
<1>3. ASSUME NEW c \in Chars \ T, is_trading(c)
      PROVE  trading_with[c] \in Chars \ T
  <2>1. trading_with[c] \in Chars /\ trading_with[trading_with[c]] = c
    BY <1>0, <1>3 DEF TradesAgree, TradeTypes, is_trading
  <2>2. trading_with[c] \notin S
    BY <1>3, <2>1
  <2>3. \A d \in S : trading_with[d] # trading_with[c]
    <3> SUFFICES ASSUME NEW d \in S, trading_with[d] = trading_with[c] PROVE FALSE
      OBVIOUS
    <3>1. trading_with[trading_with[d]] = d
      BY <1>0 DEF TradesAgree
    <3> QED
      BY <1>3, <2>1, <3>1
  <2> QED
    BY <2>1, <2>2, <2>3
<1> HIDE DEF T
<1>4. ASSUME NEW c \in Chars
      PROVE  IF trading_with'[c] # None
             THEN /\ trading_with'[c] # c /\ trading_with'[trading_with'[c]] = c
                  /\ client'[c] # "none"
             ELSE world'.contents[Offer(c)] = {}
  <2>1. CASE c \in T
    BY <1>1, <1>2, <2>1
  <2>2. CASE c \notin T
    <3>1. trading_with'[c] = trading_with[c] /\ client'[c] = client[c]
      BY <1>2, <2>2 DEF T
    <3>2. CASE is_trading(c)
      <4>1. trading_with'[trading_with[c]] = trading_with[trading_with[c]]
        BY <1>2, <1>3, <2>2, <3>2
      <4> QED
        BY <1>0, <3>1, <3>2, <4>1 DEF TradesAgree, HasClient, is_trading
    <3>3. CASE ~is_trading(c)
      BY <1>0, <1>1, <2>2, <3>1, <3>3 DEF TradesAgree, is_trading
    <3> QED
      BY <3>2, <3>3
  <2> QED
    BY <2>1, <2>2
<1> QED
  BY <1>4 DEF TradesAgree, is_trading, HasClient

LEMMA LetGoTrades ==
    ASSUME IInv, NEW i \in Items, NEW c \in Chars,
           \/ world' = world
           \/ world' \in undo_get_item(world, c, i)
           \/ \E k \in Places : (\A d \in Chars : k # Offer(d)) /\ world' = Put(world, i, k),
           trading_with' = trading_with, client' = client
    PROVE  TradesAgree'
<1>0. TradesAgree /\ world \in Worlds
  BY DEF IInv, PlaceInv, Good
<1>1. \A d \in Chars : world'.contents[Offer(d)] = world.contents[Offer(d)]
  BY <1>0, UndoElsewhere, PutElsewhere, ContainersDiffer
<1> QED
  BY <1>0, <1>1, TradesUntouched

LEMMA DragTrades ==
    ASSUME IInv, NEW c \in Chars, Drag(c)
    PROVE  TradesAgree'
<1>0. PlaceInv /\ TradesAgree /\ world \in Worlds
  BY DEF IInv, PlaceInv, Good
<1>1. ASSUME NEW i \in Items, get_item(c, i)
      PROVE  TradesAgree'
  <2>1. \A d \in Chars : world'.contents[Offer(d)] = world.contents[Offer(d)]
    <3>1. CASE world' = true_extricate(world, i)
      <4>1. \A d \in Chars : i \notin world.contents[Offer(d)]
        <5>1. world.container[i] \in {None, Pack(c), Worn(c)}
          BY <1>0, <1>1, Reachable DEF get_item
        <5> QED
          BY <1>0, <5>1, ContainersDiffer DEF PlaceInv, Good, Agrees
      <4> QED
        BY <1>0, <3>1, <4>1, ExtricateElsewhere, ContainersDiffer
    <3>2. CASE \E n \in 1 .. amount[i] - 1, j \in Stacks : Slice(i, n, j)
      BY <1>0, <1>1, <3>2, SlicePlaces DEF get_item
    <3> QED
      BY <1>1, <3>1, <3>2 DEF get_item
  <2> QED
    BY <1>0, <1>1, <2>1, TradesUntouched DEF get_item, trade
<1>2. CASE WrongSerial(c)
  BY <1>0, <1>2, TradesUntouched DEF WrongSerial, trade
<1>3. CASE drop_item_on_ground(c) \/ place_item_in_container(c) \/ Refused(c)
  BY <1>0, <1>3, Held, LetGoTrades, ContainersDiffer
  DEF drop_item_on_ground, place_item_in_container, Refused, Dropping, trade, Places
<1>4. CASE (\E j \in Stacks : add_item_to_stack(c, j)) \/ HookDestroys(c)
  BY <1>0, <1>4, TradesUntouched DEF add_item_to_stack, HookDestroys, Dropping, trade
<1>5. ASSUME NEW d \in Chars, equip_item(c, d)
      PROVE  TradesAgree'
  BY <1>0, <1>5, Held, LetGoTrades, ContainersDiffer DEF equip_item, trade
<1> QED
  BY <1>1, <1>2, <1>3, <1>4, <1>5 DEF Drag

(* A trade begins: the two had none, so that their trade containers are empty, unless
   the item that opens the trade is put there at once. *)
LEMMA OpenTrades ==
    ASSUME IInv, NEW c \in Chars, NEW d \in Chars, do_open_trade_window(c, d),
           client[c] = "playing", client' = client,
           \A e \in Chars \ {c} : world'.contents[Offer(e)] = world.contents[Offer(e)]
    PROVE  TradesAgree'
<1>0. TradesAgree /\ TradeTypes
  BY TypeParts DEF IInv, PlaceInv
<1>1. /\ c # d /\ trading_with[c] = None /\ trading_with[d] = None /\ client[d] # "none"
      /\ trading_with' = [trading_with EXCEPT ![c] = d, ![d] = c]
  BY DEF do_open_trade_window, is_trading, HasClient
<1>2. \A e \in Chars : trading_with'[e] = IF e = c THEN d ELSE IF e = d THEN c ELSE trading_with[e]
  BY <1>0, <1>1 DEF TradeTypes
<1>3. c # None /\ d # None
  BY ItemMovesAssumption
<1>4. ASSUME NEW e \in Chars, e \notin {c, d}
      PROVE  IF trading_with'[e] # None
             THEN /\ trading_with'[e] # e /\ trading_with'[trading_with'[e]] = e
                  /\ client'[e] # "none"
             ELSE world'.contents[Offer(e)] = {}
  <2>1. trading_with'[e] = trading_with[e]
    BY <1>2, <1>4
  <2>2. CASE is_trading(e)
    <3>1. trading_with[e] \in Chars \ {c, d} /\ trading_with[trading_with[e]] = e
      BY <1>0, <1>1, <1>4, <2>2, ItemMovesAssumption DEF TradesAgree, TradeTypes, is_trading
    <3> QED
      BY <1>0, <1>2, <2>1, <2>2, <3>1 DEF TradesAgree, HasClient, is_trading
  <2>3. CASE ~is_trading(e)
    BY <1>0, <1>4, <2>1, <2>3 DEF TradesAgree, is_trading
  <2> QED
    BY <2>2, <2>3
<1>5. ASSUME NEW e \in {c, d}
      PROVE  trading_with'[e] # None /\ trading_with'[e] # e
             /\ trading_with'[trading_with'[e]] = e /\ client'[e] # "none"
  BY <1>1, <1>2, <1>3
<1> QED
  BY <1>4, <1>5 DEF TradesAgree, is_trading, HasClient

LEMMA TradeTrades ==
    ASSUME NoMisuse, IInv, NEW c \in Chars, Trade(c)
    PROVE  TradesAgree'
<1>0. PlaceInv /\ TradesAgree /\ world \in Worlds /\ TradeTypes
  BY TypeParts DEF IInv, PlaceInv, Good
<1>1. ASSUME NEW d \in Chars, open_trade_window(c, d)
      PROVE  TradesAgree'
  BY <1>1, OpenTrades DEF open_trade_window
<1>2. ASSUME NEW d \in Chars, drop_item_on_mobile(c, d)
      PROVE  TradesAgree'
  <2>1. \A e \in Chars \ {c} : world'.contents[Offer(e)] = world.contents[Offer(e)]
    <3>1. gotten_item[c] \in Items
      BY <1>0, <1>2, Held DEF drop_item_on_mobile, Dropping
    <3> QED
      BY <1>0, <1>2, <3>1, PutElsewhere, UndoElsewhere, ContainersDiffer DEF drop_item_on_mobile
  <2> QED
    BY <1>2, <2>1, OpenTrades DEF drop_item_on_mobile, Dropping
<1>3. CASE place_item_in_secure_trade_container(c)
  <2>1. gotten_item[c] \in Items
    BY <1>0, <1>3, Held DEF place_item_in_secure_trade_container, Dropping
  <2>2. \A e \in Chars \ {c} : world'.contents[Offer(e)] = world.contents[Offer(e)]
    BY <1>0, <1>3, <2>1, PutElsewhere, ContainersDiffer DEF place_item_in_secure_trade_container
  <2>3. is_trading(c) /\ trading_with' = trading_with /\ client' = client
    BY <1>3 DEF place_item_in_secure_trade_container, Dropping
  <2>4. \A e \in Chars : is_trading(e) => client'[e] # "none"
    BY <1>0, <2>3 DEF TradesAgree, HasClient
  <2>5. \A e \in Chars : ~is_trading(e) => world'.contents[Offer(e)] \subseteq world.contents[Offer(e)]
    BY <2>2, <2>3
  <2> QED
    BY <1>0, <2>3, <2>4, <2>5, TradesKept
<1>4. CASE cancel_trade(c)
  BY <1>4, CancelTradesAgree DEF cancel_trade
<1>5. ASSUME NEW set \in BOOLEAN, change_trade_status(c, set)
      PROVE  TradesAgree'
  <2> DEFINE d == trading_with[c]
             w == swap(world, c, d)
  <2>1. /\ d \in Chars /\ d # c /\ trading_with[d] = c /\ client' = client
    BY <1>0, <1>5 DEF change_trade_status, is_trading, TradeTypes, TradesAgree
  <2>2. CASE UNCHANGED << world, trading_with >>
    BY <1>0, <2>1, <2>2, TradesUntouched
  <2>3. CASE /\ world' \in return_traded_items(w, {c, d})
             /\ trading_with' = [trading_with EXCEPT ![c] = None, ![d] = None]
    <3>1. w \in Worlds
      BY <1>0, <2>1, SwapType
    <3>2. AgreesButFor(w, {c, d}) /\ WornOnce(w)
      BY <1>0, <2>1, SwapAgrees DEF PlaceInv
    <3>3. \A e \in Chars \ {c, d} : w.contents[Offer(e)] = world.contents[Offer(e)]
      BY <1>0, <2>1, ContainersDiffer DEF swap, Worlds
    <3> HIDE DEF w, d
    <3>4. \A e \in Chars : world'.contents[Offer(e)] =
                             IF e \in {c, d} THEN {} ELSE world.contents[Offer(e)]
      <4>1. {c, d} \in SUBSET Chars
        BY <2>1
      <4> QED
        BY <2>3, <3>1, <3>2, <3>3, <4>1, ReturnGood DEF NoMisuse
    <3>5. \A e \in Chars : trading_with'[e] = IF e \in {c, d} THEN None ELSE trading_with[e]
      BY <1>0, <2>1, <2>3 DEF TradeTypes
    <3>6. ASSUME NEW e \in Chars
          PROVE  IF trading_with'[e] # None
                 THEN /\ trading_with'[e] # e /\ trading_with'[trading_with'[e]] = e
                      /\ client'[e] # "none"
                 ELSE world'.contents[Offer(e)] = {}
      <4>1. CASE e \in {c, d}
        BY <3>4, <3>5, <4>1
      <4>2. CASE e \notin {c, d} /\ is_trading(e)
        <5>1. trading_with[e] \in Chars /\ trading_with[trading_with[e]] = e
              /\ trading_with[e] # e /\ client[e] # "none"
          BY <1>0, <4>2 DEF TradesAgree, TradeTypes, is_trading, HasClient
        <5>2. trading_with[e] \notin {c, d}
          BY <2>1, <4>2, <5>1 DEF d
        <5> QED
          BY <2>1, <3>5, <4>2, <5>1, <5>2 DEF is_trading
      <4>3. CASE e \notin {c, d} /\ ~is_trading(e)
        BY <1>0, <3>4, <3>5, <4>3 DEF TradesAgree, is_trading
      <4> QED
        BY <4>1, <4>2, <4>3
    <3> QED
      BY <3>6 DEF TradesAgree, is_trading, HasClient
  <2> QED
    BY <1>5, <2>2, <2>3 DEF change_trade_status
<1> QED
  BY <1>1, <1>2, <1>3, <1>4, <1>5 DEF Trade

LEMMA ConnectionTrades ==
    ASSUME NoMisuse, IInv, NEW c \in Chars, Connection(c) \/ ClearGottenItem(c)
    PROVE  TradesAgree'
<1>0. PlaceInv /\ TradesAgree /\ world \in Worlds /\ OtherTypes
  BY TypeParts DEF IInv, PlaceInv, Good
<1>1. CASE closeConnection(c)
  BY <1>0, <1>1, TradesKept DEF closeConnection, trade, TradesAgree, HasClient, OtherTypes
<1>2. ASSUME NEW next \in {"lingering", "none"}, Cleanup(c, next)
      PROVE  TradesAgree'
  <2>1. \A d \in Chars \ {c} : client'[d] = client[d]
    BY <1>0, <1>2 DEF Cleanup, OtherTypes
  <2>2. CASE is_trading(c)
    BY <1>2, <2>1, <2>2, CancelTradesAgree DEF Cleanup
  <2>3. CASE ~is_trading(c)
    BY <1>0, <1>2, <2>1, <2>3, TradesKept DEF Cleanup, trade, TradesAgree, HasClient
  <2> QED
    BY <2>2, <2>3
<1>3. ASSUME clear_gotten_item(c), UNCHANGED trade,
             \A d \in Chars : client[d] # "none" => client'[d] # "none"
      PROVE  TradesAgree'
  <2>1. \A d \in Chars : world'.contents[Offer(d)] = world.contents[Offer(d)]
    BY <1>0, <1>3, Held, UndoElsewhere DEF clear_gotten_item
  <2> QED
    BY <1>0, <1>3, <2>1, TradesKept DEF trade, TradesAgree, HasClient
<1>4. CASE start_client_char(c) \/ ClearGottenItem(c)
  BY <1>0, <1>3, <1>4 DEF start_client_char, ClearGottenItem, OtherTypes
<1> QED
  BY <1>1, <1>2, <1>4 DEF Connection, disconnect_cleanup, PreDelete

LEMMA ScriptTrades ==
    ASSUME NoMisuse, IInv, NEW i \in Items, Script(i)
    PROVE  TradesAgree'
<1>0. PlaceInv /\ TradesAgree /\ world \in Worlds /\ TradeTypes /\ HandTypes
  BY TypeParts DEF IInv, PlaceInv, Good
<1> DEFINE u == true_extricate(world, i)
<1>1. u \in Worlds /\ \A c \in Chars : u.contents[Offer(c)] \subseteq world.contents[Offer(c)]
  BY <1>0, ExtricateType, ExtricateElsewhere, ContainersDiffer
<1> HIDE DEF u
<1>2. \A c \in Chars : is_trading(c) => client[c] # "none"
  BY <1>0 DEF TradesAgree, HasClient
<1>3. ASSUME NEW k \in Places, world' = Put(u, i, k),
             \A c \in Chars : k = Offer(c) => is_trading(c),
             trading_with' = trading_with, client' = client
      PROVE  TradesAgree'
  BY <1>0, <1>1, <1>2, <1>3, PutElsewhere, TradesKept, ContainersDiffer
<1>4. ASSUME NEW c \in Chars, MoveItemToContainer(i, c) \/ EquipItem(i, c)
      PROVE  TradesAgree'
  BY <1>3, <1>4, ContainersDiffer DEF MoveItemToContainer, EquipItem, MoveItem, trade, u
<1>5. CASE internal_MoveItem(i)
  BY <1>3, <1>5, ContainersDiffer DEF internal_MoveItem, MoveItem, trade, Places, u
<1>6. ASSUME NEW c \in Chars, MoveItemToSecureTradeWin(i, c)
      PROVE  TradesAgree'
  BY <1>3, <1>6, ContainersDiffer DEF MoveItemToSecureTradeWin, NoMisuse, u
<1>7. ASSUME NEW n, SubtractAmount(i, n)
      PROVE  TradesAgree'
  <2>1. \A c \in Chars : world'.contents[Offer(c)] \subseteq world.contents[Offer(c)]
    <3>1. ASSUME NEW w \in Worlds, NEW c \in Chars
          PROVE  Less(w, i, n).contents[Offer(c)] \subseteq w.contents[Offer(c)]
      BY ExtricateElsewhere, ContainersDiffer DEF Less
    <3>2. CASE gotten_by[i] # None
      <4>1. PICK w \in undo_get_item(world, gotten_by[i], i) : world' = Less(w, i, n)
        BY <1>7, <3>2 DEF SubtractAmount
      <4>2. gotten_by[i] \in Chars
        BY <1>0, <3>2 DEF HandTypes
      <4>3. w \in Worlds
        BY <1>0, <4>1, <4>2, UndoType
      <4>4. \A c \in Chars : w.contents[Offer(c)] = world.contents[Offer(c)]
        BY <1>0, <4>1, <4>2, UndoElsewhere
      <4> QED
        BY <3>1, <4>1, <4>3, <4>4
    <3>3. CASE gotten_by[i] = None
      BY <1>0, <1>7, <3>1, <3>3 DEF SubtractAmount
    <3> QED
      BY <3>2, <3>3
  <2> QED
    BY <1>0, <1>2, <1>7, <2>1, TradesKept DEF SubtractAmount, trade
<1>8. CASE ReserveItem(i) \/ ReleaseItem(i)
  BY <1>0, <1>8, TradesUntouched DEF ReserveItem, ReleaseItem, trade
<1>9. CASE MoveRefused(i)
  BY <1>0, <1>9, TradesUntouched DEF MoveRefused, trade
<1> QED
  BY <1>4, <1>5, <1>6, <1>7, <1>8, <1>9 DEF Script, ScriptGives

LEMMA TradesInit == Init => TradesAgree
BY ContainersDiffer DEF Init, TradesAgree, is_trading

LEMMA TradesNext == NoMisuse /\ IInv /\ [Next]_vars => TradesAgree'
<1> SUFFICES ASSUME NoMisuse, IInv, [Next]_vars PROVE TradesAgree'
  OBVIOUS
<1>1. ASSUME NEW c \in Chars, Drag(c) \/ Trade(c) \/ Connection(c) \/ ClearGottenItem(c)
      PROVE  TradesAgree'
  BY <1>1, DragTrades, TradeTrades, ConnectionTrades
<1>2. ASSUME NEW i \in Items, Script(i)
      PROVE  TradesAgree'
  BY <1>2, ScriptTrades
<1>3. CASE cancel_all_trades
  <2> DEFINE S == {c \in Chars : client[c] = "playing" /\ is_trading(c)}
  <2>1. CancelTrades(world, S) /\ client' = client
    BY <1>3 DEF cancel_all_trades
  <2> QED
    BY <2>1, CancelTradesAgree
<1>4. CASE UNCHANGED vars
  BY <1>4, TradesUntouched DEF vars, trade, IInv
<1> QED
  BY <1>1, <1>2, <1>3, <1>4 DEF Next

(* The inductive invariant of items and trades together. *)
THEOREM Invariant == ASSUME NoMisuse PROVE Spec => []IInv
<1>1. Init => IInv
  BY PlaceInit, TradesInit DEF IInv
<1>2. IInv /\ [Next]_vars => IInv'
  BY PlaceNext, TradesNext DEF IInv
<1> QED
  BY <1>1, <1>2, PTL DEF Spec

(* Two characters trade with each other or not at all, both have a client, and nothing
   is left in the trade container of a character who does not trade. *)
THEOREM TradesHaveTwoSides == ASSUME NoMisuse PROVE Spec => []TradesAgree
<1>1. IInv => TradesAgree
  BY DEF IInv
<1> QED
  BY <1>1, Invariant, PTL
-----------------------------------------------------------------------------
(* What was accepted is what is exchanged.                                  *)

(* A step that leaves alone what d offers. *)
Untouched(d) ==
    /\ world'.contents[Offer(d)] = world.contents[Offer(d)]
    /\ \A i \in world.contents[Offer(d)] : amount'[i] = amount[i]

(* A step that leaves alone what both sides offer, in every trade that goes on and is
   still accepted by one of them. *)
GoodsStand ==
    \A d \in Chars :
       trade_accepted[d] /\ trade_accepted'[d] /\ is_trading(d)
       /\ trading_with'[d] = trading_with[d]
          => Untouched(d) /\ Untouched(trading_with[d])

(* A step after which an item that was in a container is there, nowhere, or with the
   character whose container it was. *)
StaysOwned(i) ==
    \/ world.container[i] \in {None, world'.container[i]}
    \/ Owner(i)' \in {Owner(i), None}

NoMisuseAtAll == Packless = {} /\ Misuse = {}

(* What is offered is not in a hand nor within anybody's reach. *)
LEMMA OfferedApart ==
    ASSUME PlaceInv, NEW d \in Chars, NEW i \in Items, i \in world.contents[Offer(d)]
    PROVE  /\ InWorld(world, i) /\ i \notin is_gotten /\ amount[i] > 0
           /\ world.container[i] = Offer(d) /\ Owner(i) = d
           /\ \A c \in Chars : gotten_item[c] # i /\ i \notin Legal(c) \ inuse
<1>1. Offer(d) \in Places /\ Offer(d) # None /\ Offer(d)[2] = d
  BY ContainersDiffer
<1>2. InWorld(world, i) /\ world.container[i] = Offer(d)
  BY <1>1 DEF PlaceInv, Good, Agrees, InWorld
<1>3. i \notin is_gotten /\ amount[i] > 0
  BY <1>2 DEF PlaceInv, Exist
<1>4. \A c \in Chars : gotten_item[c] # i
  BY <1>3 DEF PlaceInv, HandsAgree
<1>5. \A c \in Chars : i \notin Legal(c) \ inuse
  BY <1>2, Reachable, ContainersDiffer
<1> QED
  BY <1>1, <1>2, <1>3, <1>4, <1>5 DEF Owner

(* An item in a container has nobody who holds it. *)
LEMMA ContainedNotGotten ==
    ASSUME PlaceInv, NEW i \in Items, world.container[i] # None
    PROVE  gotten_by[i] = None /\ i \notin is_gotten /\ \A c \in Chars : gotten_item[c] # i
<1>1. InWorld(world, i)
  BY ListedOnce
<1>2. i \notin is_gotten
  BY <1>1 DEF PlaceInv, Exist
<1>3. \A c \in Chars : gotten_item[c] # i
  BY <1>2 DEF PlaceInv, HandsAgree
<1>4. gotten_by[i] \in Chars \cup {None}
  BY DEF PlaceInv, TypeOK
<1> QED
  BY <1>2, <1>3, <1>4 DEF PlaceInv, HandsAgree

(* The item in a hand is let go, and all else stays where it is. *)
LEMMA LetGoOffers ==
    ASSUME IInv, NEW c \in Chars, Holds(c),
           \/ world' = world
           \/ world' \in undo_get_item(world, c, gotten_item[c])
           \/ \E k \in Places : /\ \A d \in Chars : k # Offer(d)
                              /\ world' = Put(world, gotten_item[c], k),
           \A j \in Items : amount'[j] # amount[j] =>
                j = gotten_item[c] \/ \E e \in Chars : j \in Legal(e) \ inuse
    PROVE  GoodsStand /\ \A i \in Items : StaysOwned(i)
<1> DEFINE h == gotten_item[c]
<1>0. PlaceInv /\ TradesAgree /\ world \in Worlds /\ TradeTypes
  BY TypeParts DEF IInv, PlaceInv, Good
<1>1. h \in Items
  BY <1>0, Held
<1>2. \A d \in Chars : world'.contents[Offer(d)] = world.contents[Offer(d)]
  BY <1>0, <1>1, UndoElsewhere, PutElsewhere, ContainersDiffer
<1>3. ASSUME NEW d \in Chars
      PROVE  Untouched(d)
  <2>1. world.contents[Offer(d)] \subseteq Items
    BY <1>0, ContainersDiffer DEF Worlds
  <2> QED
    BY <1>0, <1>2, <2>1, OfferedApart DEF Untouched
<1>4. GoodsStand
  BY <1>0, <1>3 DEF GoodsStand, TradeTypes, is_trading
<1>5. ASSUME NEW i \in Items
      PROVE  StaysOwned(i)
  <2>1. i # h => world'.container[i] = world.container[i]
    BY <1>0, <1>1, UndoElsewhere, PutElsewhere
  <2>2. world.container[h] = None
    BY <1>0, <1>1, ContainedNotGotten
  <2> QED
    BY <2>1, <2>2 DEF StaysOwned
<1> QED
  BY <1>4, <1>5

LEMMA GetItemOffers ==
    ASSUME IInv, NEW c \in Chars, NEW i \in Items, get_item(c, i)
    PROVE  GoodsStand /\ \A j \in Items : StaysOwned(j)
<1>0. PlaceInv /\ world \in Worlds /\ TradeTypes /\ HandTypes /\ OtherTypes
  BY TypeParts DEF IInv, PlaceInv, Good
<1>1. i \in Legal(c) \ inuse /\ gotten_by' = [gotten_by EXCEPT ![i] = c]
  BY DEF get_item
<1>2. world.container[i] \in {None, Pack(c), Worn(c)} /\ InWorld(world, i)
  BY <1>0, <1>1, Reachable
<1>3. /\ world'.container[i] = None
      /\ \A d \in Chars : world'.contents[Offer(d)] = world.contents[Offer(d)]
      /\ \A j \in Items : amount'[j] # amount[j] => j = i \/ amount[j] = 0
      /\ \A j \in Items : world'.container[j] # world.container[j] =>
                j = i \/ world.container[j] = None
  <2>1. CASE world' = true_extricate(world, i) /\ UNCHANGED amount
    <3>1. \A d \in Chars : i \notin world.contents[Offer(d)]
      BY <1>0, <1>2, ContainersDiffer DEF PlaceInv, Good, Agrees
    <3> QED
      BY <1>0, <2>1, <3>1, ExtricateElsewhere, ContainersDiffer
  <2>2. CASE \E n \in 1 .. amount[i] - 1, j \in Stacks : Slice(i, n, j)
    <3>1. PICK n \in 1 .. amount[i] - 1, j \in Stacks : Slice(i, n, j)
      BY <2>2
    <3>2. /\ j \in Items /\ amount[j] = 0 /\ world'.container[i] = None
          /\ \A d \in Chars : world'.contents[Offer(d)] = world.contents[Offer(d)]
          /\ \A l \in Items : l \notin {i, j} =>
                 world'.container[l] = world.container[l] /\ amount'[l] = amount[l]
      BY <1>0, <1>1, <3>1, SlicePlaces
    <3>3. world.container[j] = None
      <4>1. ~InWorld(world, j)
        BY <1>0, <3>2 DEF PlaceInv, Exist
      <4> QED
        BY <1>0, <3>2, <4>1, ListedOnce
    <3> QED
      BY <3>2, <3>3
  <2> QED
    BY <2>1, <2>2 DEF get_item
<1>4. ASSUME NEW d \in Chars
      PROVE  Untouched(d)
  <2>1. world.contents[Offer(d)] \subseteq Items
    BY <1>0, ContainersDiffer DEF Worlds
  <2>2. \A j \in world.contents[Offer(d)] : j # i /\ amount[j] # 0
    <3>1. \A j \in world.contents[Offer(d)] : amount[j] > 0 /\ j \notin Legal(c) \ inuse
      BY <1>0, <2>1, OfferedApart
    <3>2. ~(0 > 0)
      OBVIOUS
    <3> QED
      BY <1>1, <3>1, <3>2
  <2> QED
    BY <1>3, <2>1, <2>2 DEF Untouched
<1>5. GoodsStand
  BY <1>0, <1>4 DEF GoodsStand, TradeTypes, is_trading
<1>6. StaysOwned(i)
  <2>1. CASE world.container[i] = None
    BY <2>1 DEF StaysOwned
  <2>2. CASE world.container[i] # None
    <3>1. Owner(i) = c
      BY <1>2, <2>2, ContainersDiffer DEF Owner
    <3>2. Owner(i)' = c
      BY <1>0, <1>1, <1>3 DEF Owner, HandTypes
    <3> QED
      BY <3>1, <3>2 DEF StaysOwned
  <2> QED
    BY <2>1, <2>2
<1>7. \A j \in Items : StaysOwned(j)
  BY <1>3, <1>6 DEF StaysOwned
<1> QED
  BY <1>5, <1>7

LEMMA DragOffers ==
    ASSUME IInv, NEW c \in Chars, Drag(c)
    PROVE  GoodsStand /\ \A i \in Items : StaysOwned(i)
<1>0. PlaceInv /\ TradeTypes /\ OtherTypes
  BY TypeParts DEF IInv, PlaceInv
<1>1. CASE \E i \in Items : get_item(c, i)
  BY <1>1, GetItemOffers
<1>2. CASE WrongSerial(c)
  BY <1>0, <1>2 DEF WrongSerial, GoodsStand, Untouched, StaysOwned
<1>3. CASE drop_item_on_ground(c) \/ place_item_in_container(c) \/ Refused(c)
  BY <1>3, LetGoOffers, ContainersDiffer
  DEF drop_item_on_ground, place_item_in_container, Refused, Dropping, Places
<1>4. ASSUME NEW j \in Stacks, add_item_to_stack(c, j)
      PROVE  GoodsStand /\ \A i \in Items : StaysOwned(i)
  <2>1. Holds(c) /\ world' = world /\ j \in Legal(c) \ inuse
    BY <1>4 DEF add_item_to_stack, Dropping
  <2>2. \A l \in Items : amount'[l] # amount[l] => l = gotten_item[c] \/ l = j
    BY <1>0, <1>4 DEF add_item_to_stack, OtherTypes
  <2> QED
    BY <2>1, <2>2, LetGoOffers
<1>5. CASE HookDestroys(c)
  <2>1. Holds(c) /\ world' = world
    BY <1>5 DEF HookDestroys, Dropping
  <2>2. \A l \in Items : amount'[l] # amount[l] => l = gotten_item[c]
    BY <1>0, <1>5 DEF HookDestroys, OtherTypes
  <2> QED
    BY <2>1, <2>2, LetGoOffers
<1>6. ASSUME NEW d \in Chars, equip_item(c, d)
      PROVE  GoodsStand /\ \A i \in Items : StaysOwned(i)
  BY <1>6, LetGoOffers, ContainersDiffer DEF equip_item
<1> QED
  BY <1>1, <1>2, <1>3, <1>4, <1>5, <1>6 DEF Drag
(* Who gets what is in a trade container that is emptied: nobody but its owner. *)
LEMMA ReturnMoves ==
    ASSUME NEW w \in Worlds, NEW S \in SUBSET Chars,
           NEW v \in return_traded_items(w, S), NEW i \in Items
    PROVE  \/ v.container[i] = w.container[i]
           \/ \E c \in S : i \in w.contents[Offer(c)] /\ v.container[i] \in {None, Pack(c)}
<1> DEFINE P == S \ Packless
           Of(c) == w.contents[Offer(c)]
<1>1. PICK g \in SUBSET UNION {Of(c) : c \in P} :
         v = [contents  |-> [k \in Places |->
                            IF k = None THEN w.contents[k] \cup g
                            ELSE IF k[2] \notin P \/ k = Worn(k[2]) THEN w.contents[k]
                            ELSE IF k = Offer(k[2]) THEN {}
                            ELSE w.contents[k] \cup (Of(k[2]) \ g)],
              container |-> [j \in Items |->
                            IF j \in g THEN None
                            ELSE IF \E c \in P : j \in Of(c)
                                 THEN Pack(CHOOSE c \in P : j \in Of(c))
                                 ELSE w.container[j]]]
  BY DEF return_traded_items
<1>2. CASE i \in g
  <2>1. \E c \in P : i \in Of(c)
    BY <1>2
  <2> QED
    BY <1>1, <1>2, <2>1
<1>3. CASE i \notin g /\ \E c \in P : i \in Of(c)
  <2> DEFINE e == CHOOSE c \in P : i \in Of(c)
  <2>1. e \in P /\ i \in Of(e)
    BY <1>3
  <2>2. v.container[i] = Pack(e)
    BY <1>1, <1>3
  <2> HIDE DEF e
  <2> QED
    BY <2>1, <2>2
<1>4. CASE i \notin g /\ \A c \in P : i \notin Of(c)
  BY <1>1, <1>4
<1> QED
  BY <1>2, <1>3, <1>4

(* Trades that end give everybody back what was his. *)
LEMMA CancelOffers ==
    ASSUME NoMisuse, IInv, NEW S \in SUBSET Chars, \A c \in S : is_trading(c),
           CancelTrades(world, S), amount' = amount, gotten_by' = gotten_by
    PROVE  GoodsStand /\ \A i \in Items : StaysOwned(i)
<1> DEFINE T == S \cup {trading_with[c] : c \in S}
<1>0. PlaceInv /\ TradesAgree /\ TradeTypes /\ world \in Worlds
  BY TypeParts DEF IInv, PlaceInv, Good
<1>1. \A c \in Chars : world'.contents[Offer(c)] = IF c \in T THEN {} ELSE world.contents[Offer(c)]
  BY <1>0, CancelPlace
<1>2. trading_with' = [c \in Chars |-> IF c \in T THEN None ELSE trading_with[c]]
  BY DEF CancelTrades, EndTrades
<1>3. T \in SUBSET Chars
  BY <1>0 DEF TradeTypes, is_trading
<1>4. \A c \in Chars \ T : Untouched(c)
  BY <1>0, <1>1 DEF Untouched
<1>5. ASSUME NEW d \in Chars, is_trading(d), trading_with'[d] = trading_with[d]
      PROVE  d \in Chars \ T /\ trading_with[d] \in Chars \ T
  <2>1. d \notin T
    BY <1>2, <1>5 DEF is_trading
  <2>2. trading_with[d] \in Chars /\ trading_with[trading_with[d]] = d
    BY <1>0, <1>5 DEF TradesAgree, TradeTypes, is_trading
  <2>3. trading_with[d] \notin S
    BY <2>1, <2>2
  <2>4. ASSUME NEW e \in S, trading_with[e] = trading_with[d]
        PROVE  FALSE
    <3>1. trading_with[trading_with[e]] = e
      BY <1>0 DEF TradesAgree
    <3> QED
      BY <2>1, <2>2, <2>4, <3>1
  <2> QED
    BY <2>1, <2>2, <2>3, <2>4
<1>6. GoodsStand
  BY <1>4, <1>5 DEF GoodsStand
<1>7. ASSUME NEW i \in Items
      PROVE  StaysOwned(i)
  <2>1. world' \in return_traded_items(world, T)
    BY DEF CancelTrades
  <2> HIDE DEF T
  <2>2. CASE world'.container[i] = world.container[i]
    BY <2>2 DEF StaysOwned
  <2>3. ASSUME NEW c \in T, i \in world.contents[Offer(c)], world'.container[i] \in {None, Pack(c)}
        PROVE  StaysOwned(i)
    <3>1. c \in Chars /\ world.container[i] = Offer(c) /\ Owner(i) = c /\ Offer(c) # None
      BY <1>0, <1>3, <2>3, OfferedApart, ContainersDiffer
    <3>2. gotten_by[i] = None
      BY <1>0, <3>1, ContainedNotGotten
    <3>3. Owner(i)' \in {None, c}
      BY <2>3, <3>1, <3>2, ContainersDiffer DEF Owner
    <3> QED
      BY <3>1, <3>3 DEF StaysOwned
  <2> QED
    BY <1>0, <1>3, <2>1, <2>2, <2>3, ReturnMoves
<1> QED
  BY <1>6, <1>7

(* An exchange: both have accepted, and each gets what the other offered. *)
Exchanged(i) ==
    /\ trading_with[Owner(i)] = Owner(i)'
    /\ \A c \in {Owner(i), Owner(i)'} : trade_accepted'[c]
    /\ \E c \in {Owner(i), Owner(i)'} : trade_accepted[c]

LEMMA ExchangeOffers ==
    ASSUME NoMisuse, IInv, NEW c \in Chars, NEW set \in BOOLEAN, change_trade_status(c, set)
    PROVE  GoodsStand /\ \A i \in Items : StaysOwned(i) \/ Exchanged(i)
<1> DEFINE d == trading_with[c]
           w == swap(world, c, d)
<1>0. PlaceInv /\ TradesAgree /\ TradeTypes /\ world \in Worlds
  BY TypeParts DEF IInv, PlaceInv, Good
<1>1. /\ d \in Chars /\ d # c /\ trading_with[d] = c
      /\ amount' = amount /\ gotten_by' = gotten_by
      /\ trade_accepted' = [trade_accepted EXCEPT ![c] = set]
  BY <1>0 DEF change_trade_status, is_trading, TradeTypes, TradesAgree, hand
<1>2. CASE UNCHANGED << world, trading_with >>
  BY <1>1, <1>2 DEF GoodsStand, Untouched, StaysOwned
<1>3. CASE /\ BothAccept(c, set)
           /\ world' \in return_traded_items(w, {c, d})
           /\ trading_with' = [trading_with EXCEPT ![c] = None, ![d] = None]
  <2>1. w \in Worlds /\ {c, d} \in SUBSET Chars
    BY <1>0, <1>1, SwapType
  <2>2. AgreesButFor(w, {c, d}) /\ WornOnce(w)
    BY <1>0, <1>1, SwapAgrees DEF PlaceInv
  <2>3. /\ w.contents[Offer(c)] = world.contents[Offer(d)]
        /\ w.contents[Offer(d)] = world.contents[Offer(c)]
        /\ w.container = world.container
        /\ \A e \in Chars \ {c, d} : w.contents[Offer(e)] = world.contents[Offer(e)]
    BY <1>0, <1>1, ContainersDiffer DEF swap, Worlds
  <2>4. trade_accepted[d] /\ trade_accepted'[c] /\ trade_accepted'[d]
    BY <1>0, <1>1, <1>3 DEF BothAccept, TradeTypes
  <2>5. \A e \in Chars : trading_with'[e] = IF e \in {c, d} THEN None ELSE trading_with[e]
    BY <1>0, <1>1, <1>3 DEF TradeTypes
  <2> HIDE DEF w
  <2>6. \A e \in Chars \ {c, d} : Untouched(e)
    <3>1. \A e \in Chars \ {c, d} : world'.contents[Offer(e)] = w.contents[Offer(e)]
      BY <1>3, <2>1, <2>2, ReturnGood DEF NoMisuse
    <3> QED
      BY <1>1, <2>3, <3>1 DEF Untouched
  <2>7. ASSUME NEW e \in Chars, is_trading(e), trading_with'[e] = trading_with[e]
        PROVE  e \notin {c, d} /\ trading_with[e] \in Chars \ {c, d}
    <3>1. e \notin {c, d}
      BY <2>5, <2>7 DEF is_trading
    <3>2. trading_with[e] \in Chars /\ trading_with[trading_with[e]] = e
      BY <1>0, <2>7 DEF TradesAgree, TradeTypes, is_trading
    <3> QED
      BY <1>1, <3>1, <3>2
  <2>8. GoodsStand
    BY <2>6, <2>7 DEF GoodsStand
  <2>9. ASSUME NEW i \in Items
        PROVE  StaysOwned(i) \/ Exchanged(i)
    <3>1. CASE world'.container[i] = world.container[i]
      BY <3>1 DEF StaysOwned
    <3>2. ASSUME NEW e \in {c, d}, i \in w.contents[Offer(e)], world'.container[i] \in {None, Pack(e)}
          PROVE  StaysOwned(i) \/ Exchanged(i)
      <4> DEFINE f == trading_with[e]
      <4>1. e \in Chars /\ f \in {c, d} /\ f \in Chars /\ trading_with[f] = e /\ i \in world.contents[Offer(f)]
        BY <1>1, <2>3, <3>2
      <4>2. Owner(i) = f /\ world.container[i] = Offer(f) /\ Offer(f) # None
        BY <1>0, <4>1, OfferedApart, ContainersDiffer
      <4>3. gotten_by[i] = None
        BY <1>0, <4>2, ContainedNotGotten
      <4>4. CASE world'.container[i] = None
        BY <1>1, <4>3, <4>4 DEF StaysOwned, Owner
      <4>5. CASE world'.container[i] = Pack(e)
        <5>1. Owner(i)' = e
          BY <4>1, <4>5, ContainersDiffer DEF Owner
        <5>2. {e, f} = {c, d}
          BY <1>1, <3>2
        <5> QED
          BY <2>4, <4>1, <4>2, <5>1, <5>2 DEF Exchanged
      <4> QED
        BY <3>2, <4>4, <4>5
    <3> QED
      BY <1>3, <2>1, <2>3, <3>1, <3>2, ReturnMoves
  <2> QED
    BY <2>8, <2>9
<1> QED
  BY <1>2, <1>3 DEF change_trade_status

LEMMA TradeOffers ==
    ASSUME NoMisuse, IInv, NEW c \in Chars, Trade(c)
    PROVE  GoodsStand /\ \A i \in Items : StaysOwned(i) \/ Exchanged(i)
<1>0. PlaceInv /\ TradesAgree /\ TradeTypes /\ world \in Worlds
  BY TypeParts DEF IInv, PlaceInv, Good
<1>1. ASSUME NEW d \in Chars, open_trade_window(c, d)
      PROVE  GoodsStand /\ \A i \in Items : StaysOwned(i)
  BY <1>1 DEF open_trade_window, GoodsStand, Untouched, StaysOwned
<1>2. ASSUME Holds(c), amount' = amount,
             \/ world' = Put(world, gotten_item[c], Offer(c))
             \/ world' \in undo_get_item(world, c, gotten_item[c]),
             \A e \in Chars : is_trading(e) /\ trade_accepted'[e] => c \notin {e, trading_with[e]}
      PROVE  GoodsStand /\ \A i \in Items : StaysOwned(i)
  <2> DEFINE h == gotten_item[c]
  <2>1. h \in Items /\ Offer(c) \in Places
    BY <1>0, <1>2, Held, ContainersDiffer
  <2>2. \A e \in Chars \ {c} : Untouched(e)
    BY <1>0, <1>2, <2>1, PutElsewhere, UndoElsewhere, ContainersDiffer DEF Untouched
  <2>3. \A i \in Items : i # h => world'.container[i] = world.container[i]
    BY <1>0, <1>2, <2>1, PutElsewhere, UndoElsewhere
  <2>4. world.container[h] = None
    BY <1>0, <2>1, ContainedNotGotten
  <2>5. GoodsStand
    BY <1>0, <1>2, <2>2 DEF GoodsStand, TradeTypes, is_trading
  <2> QED
    BY <2>3, <2>4, <2>5 DEF StaysOwned
<1>3. ASSUME NEW d \in Chars, drop_item_on_mobile(c, d)
      PROVE  GoodsStand /\ \A i \in Items : StaysOwned(i)
  <2>1. ~is_trading(c) /\ Holds(c) /\ amount' = amount
    BY <1>3 DEF drop_item_on_mobile, do_open_trade_window, Dropping
  <2>2. \A e \in Chars : is_trading(e) => c \notin {e, trading_with[e]}
    BY <1>0, <2>1, ItemMovesAssumption DEF TradesAgree, is_trading
  <2> QED
    BY <1>2, <1>3, <2>1, <2>2 DEF drop_item_on_mobile
<1>4. CASE place_item_in_secure_trade_container(c)
  <2>1. /\ Holds(c) /\ amount' = amount /\ is_trading(c)
        /\ trade_accepted' = [trade_accepted EXCEPT ![c] = FALSE, ![trading_with[c]] = FALSE]
    BY <1>4 DEF place_item_in_secure_trade_container, Dropping, NotAccepted, NoMisuse
  <2>2. \A e \in Chars : is_trading(e) /\ c \in {e, trading_with[e]} => ~trade_accepted'[e]
    <3>1. \A e \in Chars : is_trading(e) /\ c = trading_with[e] => e = trading_with[c]
      BY <1>0 DEF TradesAgree
    <3>2. trading_with[c] \in Chars
      BY <1>0, <2>1 DEF TradeTypes, is_trading
    <3> QED
      BY <1>0, <2>1, <3>1, <3>2 DEF TradeTypes
  <2> QED
    BY <1>2, <1>4, <2>1, <2>2 DEF place_item_in_secure_trade_container
<1>5. CASE cancel_trade(c)
  BY <1>5, CancelOffers DEF cancel_trade, hand
<1>6. ASSUME NEW set \in BOOLEAN, change_trade_status(c, set)
      PROVE  GoodsStand /\ \A i \in Items : StaysOwned(i) \/ Exchanged(i)
  BY <1>6, ExchangeOffers
<1> QED
  BY <1>1, <1>3, <1>4, <1>5, <1>6 DEF Trade

LEMMA ConnectionOffers ==
    ASSUME NoMisuse, IInv, NEW c \in Chars, Connection(c) \/ ClearGottenItem(c)
    PROVE  GoodsStand /\ \A i \in Items : StaysOwned(i)
<1>1. ASSUME UNCHANGED << amount, world, trade >>
      PROVE  GoodsStand /\ \A i \in Items : StaysOwned(i)
  BY <1>1 DEF GoodsStand, Untouched, StaysOwned, trade
<1>2. CASE closeConnection(c)
  BY <1>1, <1>2 DEF closeConnection
<1>3. ASSUME NEW next, Cleanup(c, next)
      PROVE  GoodsStand /\ \A i \in Items : StaysOwned(i)
  <2>1. CASE is_trading(c)
    BY <1>3, <2>1, CancelOffers DEF Cleanup, hand
  <2>2. CASE ~is_trading(c)
    BY <1>1, <1>3, <2>2 DEF Cleanup
  <2> QED
    BY <2>1, <2>2
<1>4. ASSUME clear_gotten_item(c), amount' = amount
      PROVE  GoodsStand /\ \A i \in Items : StaysOwned(i)
  <2>1. CASE Holds(c)
    BY <1>4, <2>1, LetGoOffers DEF clear_gotten_item
  <2>2. CASE ~Holds(c)
    <3>1. world' = world
      BY <1>4, <2>2 DEF clear_gotten_item
    <3> QED
      BY <1>4, <3>1 DEF GoodsStand, Untouched, StaysOwned
  <2> QED
    BY <2>1, <2>2
<1>5. CASE start_client_char(c) \/ ClearGottenItem(c)
  BY <1>4, <1>5 DEF start_client_char, ClearGottenItem
<1> QED
  BY <1>2, <1>3, <1>5 DEF Connection, disconnect_cleanup, PreDelete

(* An item that is in nobody's trade is moved by a script. *)
LEMMA MoveOffers ==
    ASSUME IInv, NEW i \in Items, ~Offered(i), NEW k \in Places, amount' = amount,
           world' = Put(true_extricate(world, i), i, k)
    PROVE  /\ \A d \in Chars : k # Offer(d) => Untouched(d)
           /\ \A j \in Items : j # i => StaysOwned(j)
           /\ world'.container[i] = k
<1> DEFINE u == true_extricate(world, i)
<1>0. world \in Worlds
  BY DEF IInv, PlaceInv, Good
<1>1. u \in Worlds
  BY <1>0, ExtricateType
<1>2. \A d \in Chars : u.contents[Offer(d)] = world.contents[Offer(d)]
  BY <1>0, ExtricateElsewhere, ContainersDiffer DEF Offered
<1>3. \A j \in Items : j # i => u.container[j] = world.container[j]
  BY <1>0, ExtricateElsewhere
<1> HIDE DEF u
<1>4. \A d \in Chars : k # Offer(d) => world'.contents[Offer(d)] = world.contents[Offer(d)]
  BY <1>1, <1>2, PutElsewhere, ContainersDiffer DEF u
<1>5. \A j \in Items : world'.container[j] = IF j = i THEN k ELSE world.container[j]
  BY <1>1, <1>3, PutElsewhere DEF u
<1> QED
  BY <1>4, <1>5 DEF Untouched, StaysOwned

LEMMA SubtractOffers ==
    ASSUME NoMisuseAtAll, IInv, NEW i \in Items, NEW n, SubtractAmount(i, n)
    PROVE  GoodsStand /\ \A j \in Items : StaysOwned(j)
<1>0. PlaceInv /\ world \in Worlds /\ HandTypes /\ TradeTypes /\ OtherTypes
  BY TypeParts DEF IInv, PlaceInv, Good
<1>1. \A j \in Items : j # i => amount'[j] = amount[j]
  BY <1>0 DEF SubtractAmount, OtherTypes
<1>2. ~Offered(i)
  <2>1. CASE gotten_by[i] # None
    <3>1. i \in is_gotten
      BY <1>0, <2>1 DEF PlaceInv, HandsAgree, HandTypes
    <3> QED
      BY <1>0, <3>1, OfferedApart DEF Offered
  <2>2. CASE gotten_by[i] = None
    BY <2>2 DEF SubtractAmount, MayTake, NoMisuseAtAll
  <2> QED
    BY <2>1, <2>2
<1>3. ASSUME NEW w \in Worlds, \A d \in Chars : i \notin w.contents[Offer(d)]
      PROVE  /\ \A d \in Chars : Less(w, i, n).contents[Offer(d)] = w.contents[Offer(d)]
             /\ \A j \in Items : j # i => Less(w, i, n).container[j] = w.container[j]
             /\ Less(w, i, n).container[i] \in {None, w.container[i]}
  BY <1>3, ExtricateElsewhere, ContainersDiffer DEF Less
<1>4. /\ \A d \in Chars : world'.contents[Offer(d)] = world.contents[Offer(d)]
      /\ \A j \in Items : j # i => world'.container[j] = world.container[j]
      /\ StaysOwned(i)
  <2>1. CASE gotten_by[i] # None
    <3>1. PICK w \in undo_get_item(world, gotten_by[i], i) : world' = Less(w, i, n)
      BY <2>1 DEF SubtractAmount
    <3>2. gotten_by[i] \in Chars
      BY <1>0, <2>1 DEF HandTypes
    <3>3. /\ w \in Worlds
          /\ \A d \in Chars : w.contents[Offer(d)] = world.contents[Offer(d)]
          /\ \A j \in Items : j # i => w.container[j] = world.container[j]
      BY <1>0, <3>1, <3>2, UndoType, UndoElsewhere
    <3>4. world.container[i] = None
      BY <1>0, <2>1, ContainedNotGotten
    <3> QED
      BY <1>2, <1>3, <3>1, <3>3, <3>4 DEF StaysOwned, Offered
  <2>2. CASE gotten_by[i] = None
    <3>1. world' = Less(world, i, n) /\ gotten_by' = gotten_by
      BY <2>2 DEF SubtractAmount
    <3>2. /\ \A d \in Chars : world'.contents[Offer(d)] = world.contents[Offer(d)]
          /\ \A j \in Items : j # i => world'.container[j] = world.container[j]
          /\ world'.container[i] \in {None, world.container[i]}
      BY <1>0, <1>2, <1>3, <3>1 DEF Offered
    <3>3. StaysOwned(i)
      BY <2>2, <3>1, <3>2 DEF StaysOwned, Owner
    <3> QED
      BY <3>2, <3>3
  <2> QED
    BY <2>1, <2>2
<1>5. \A d \in Chars : Untouched(d)
  <2>1. \A d \in Chars : world.contents[Offer(d)] \subseteq Items
    BY <1>0, ContainersDiffer DEF Worlds
  <2> QED
    BY <1>1, <1>2, <1>4, <2>1 DEF Untouched, Offered
<1> QED
  BY <1>0, <1>4, <1>5 DEF GoodsStand, StaysOwned, TradeTypes, is_trading

(* What a script takes from a container is not in a trade; what it gives to somebody
   it gives by one of the calls that do. *)
LEMMA ScriptOffers ==
    ASSUME NoMisuseAtAll, IInv, NEW i \in Items, Script(i)
    PROVE  /\ GoodsStand
           /\ \A j \in Items : \/ StaysOwned(j)
                               \/ \E c \in Chars : c = Owner(j)' /\ ScriptGives(j, c)
<1>0. PlaceInv /\ TradesAgree /\ world \in Worlds /\ TradeTypes
  BY TypeParts DEF IInv, PlaceInv, Good
<1>1. MayTake(i) => ~Offered(i)
  BY DEF MayTake, NoMisuseAtAll
<1>2. ASSUME NEW c \in Chars, MoveItemToContainer(i, c) \/ EquipItem(i, c)
      PROVE  GoodsStand /\ \A j \in Items : StaysOwned(j) \/ (j = i /\ c = Owner(i)' /\ ScriptGives(i, c))
  <2>1. PICK k \in {Pack(c), Worn(c)} : MoveItem(i, k) /\ amount' = amount
    BY <1>2 DEF MoveItemToContainer, EquipItem
  <2>2. k \in Places /\ k # None /\ k[2] = c /\ \A d \in Chars : k # Offer(d)
    BY <2>1, ContainersDiffer
  <2>3. /\ \A d \in Chars : Untouched(d)
        /\ \A j \in Items : j # i => StaysOwned(j)
        /\ world'.container[i] = k
    BY <1>1, <2>1, <2>2, MoveOffers DEF MoveItem
  <2>4. Owner(i)' = c
    BY <2>2, <2>3 DEF Owner
  <2>5. GoodsStand
    BY <1>0, <2>3 DEF GoodsStand, TradeTypes, is_trading
  <2> QED
    BY <1>2, <2>3, <2>4, <2>5 DEF ScriptGives
<1>3. CASE internal_MoveItem(i)
  <2>1. None \in Places /\ \A d \in Chars : None # Offer(d)
    BY ContainersDiffer DEF Places
  <2>2. /\ \A d \in Chars : Untouched(d)
        /\ \A j \in Items : j # i => StaysOwned(j)
        /\ world'.container[i] = None
    BY <1>1, <1>3, <2>1, MoveOffers DEF internal_MoveItem, MoveItem
  <2>3. StaysOwned(i)
    <3>1. CASE world.container[i] = None
      BY <3>1 DEF StaysOwned
    <3>2. CASE world.container[i] # None
      <4>1. gotten_by[i] = None
        BY <1>0, <3>2, ContainedNotGotten
      <4>2. gotten_by' = gotten_by
        BY <1>3, TestKeepsHands DEF internal_MoveItem, SameHands
      <4> QED
        BY <2>2, <4>1, <4>2 DEF StaysOwned, Owner
    <3> QED
      BY <3>1, <3>2
  <2> QED
    BY <1>0, <2>2, <2>3 DEF GoodsStand, TradeTypes, is_trading
<1>4. ASSUME NEW c \in Chars, MoveItemToSecureTradeWin(i, c)
      PROVE  GoodsStand /\ \A j \in Items : StaysOwned(j) \/ (j = i /\ c = Owner(i)' /\ ScriptGives(i, c))
  <2>1. /\ is_trading(c) /\ amount' = amount /\ MayTake(i)
        /\ world' = Put(true_extricate(world, i), i, Offer(c))
        /\ trade_accepted' = [trade_accepted EXCEPT ![c] = FALSE, ![trading_with[c]] = FALSE]
    BY <1>4 DEF MoveItemToSecureTradeWin, NotAccepted, NoMisuseAtAll
  <2>2. /\ \A d \in Chars \ {c} : Untouched(d)
        /\ \A j \in Items : j # i => StaysOwned(j)
        /\ world'.container[i] = Offer(c)
    BY <1>1, <2>1, MoveOffers, ContainersDiffer
  <2>3. Owner(i)' = c
    BY <2>2, ContainersDiffer DEF Owner
  <2>4. \A e \in Chars : is_trading(e) /\ c \in {e, trading_with[e]} => ~trade_accepted'[e]
    <3>1. \A e \in Chars : is_trading(e) /\ c = trading_with[e] => e = trading_with[c]
      BY <1>0 DEF TradesAgree
    <3>2. trading_with[c] \in Chars
      BY <1>0, <2>1 DEF TradeTypes, is_trading
    <3> QED
      BY <1>0, <2>1, <3>1, <3>2 DEF TradeTypes
  <2>5. GoodsStand
    BY <1>0, <2>2, <2>4 DEF GoodsStand, TradeTypes, is_trading
  <2> QED
    BY <1>4, <2>2, <2>3, <2>5 DEF ScriptGives
<1>5. ASSUME NEW n, SubtractAmount(i, n)
      PROVE  GoodsStand /\ \A j \in Items : StaysOwned(j)
  BY <1>5, SubtractOffers
<1>6. CASE ReserveItem(i) \/ ReleaseItem(i) \/ MoveRefused(i)
  BY <1>0, <1>6 DEF ReserveItem, ReleaseItem, MoveRefused, GoodsStand, Untouched, StaysOwned
<1> QED
  BY <1>2, <1>3, <1>4, <1>5, <1>6 DEF Script, ScriptGives
LEMMA OffersNext ==
    ASSUME NoMisuseAtAll, IInv, [Next]_vars
    PROVE  /\ GoodsStand
           /\ \A i \in Items : \/ StaysOwned(i) \/ Exchanged(i)
                               \/ \E c \in Chars : c = Owner(i)' /\ ScriptGives(i, c)
<1>0. NoMisuse
  BY DEF NoMisuse, NoMisuseAtAll
<1>1. ASSUME NEW c \in Chars, Drag(c) \/ Trade(c) \/ Connection(c) \/ ClearGottenItem(c)
      PROVE  GoodsStand /\ \A i \in Items : StaysOwned(i) \/ Exchanged(i)
  BY <1>0, <1>1, DragOffers, TradeOffers, ConnectionOffers
<1>2. ASSUME NEW j \in Items, Script(j)
      PROVE  /\ GoodsStand
             /\ \A i \in Items : \/ StaysOwned(i)
                                 \/ \E c \in Chars : c = Owner(i)' /\ ScriptGives(i, c)
  BY <1>2, ScriptOffers
<1>3. CASE cancel_all_trades
  <2> DEFINE S == {c \in Chars : client[c] = "playing" /\ is_trading(c)}
  <2>1. CancelTrades(world, S) /\ amount' = amount /\ gotten_by' = gotten_by
    BY <1>3 DEF cancel_all_trades, hand
  <2> QED
    BY <1>0, <2>1, CancelOffers
<1>4. CASE UNCHANGED vars
  BY <1>4 DEF vars, GoodsStand, Untouched, StaysOwned, trade
<1> QED
  BY <1>1, <1>2, <1>3, <1>4 DEF Next

(* Who has accepted a trade has accepted these goods, and what a character has in his
   containers becomes another's only in a trade that both have accepted, or by a
   script, as long as scripts leave alone what is in a trade. *)
THEOREM ExchangesAccepted == ASSUME NoMisuseAtAll PROVE Spec => AcceptedAsOffered
<1> DEFINE Kept ==
             \A c \in Chars :
                trade_accepted[c] /\ trade_accepted'[c] /\ is_trading(c)
                /\ trading_with'[c] = trading_with[c]
                   => Goods(c)' = Goods(c) /\ Goods(trading_with[c])' = Goods(trading_with[c])
           Passed ==
             \A i \in Items :
                world.container[i] \notin {None, world.container'[i]}
                /\ Owner(i)' \notin {Owner(i), None} =>
                   \/ /\ trading_with[Owner(i)] = Owner(i)'
                      /\ \A c \in {Owner(i), Owner(i)'} : trade_accepted'[c]
                      /\ \E c \in {Owner(i), Owner(i)'} : trade_accepted[c]
                   \/ \E c \in Chars : c = Owner(i)' /\ ScriptGives(i, c)
<1>1. ASSUME IInv, [Next]_vars
      PROVE  Kept
  <2> SUFFICES ASSUME NEW c \in Chars, trade_accepted[c], trade_accepted'[c], is_trading(c),
                      trading_with'[c] = trading_with[c]
               PROVE  Goods(c)' = Goods(c) /\ Goods(trading_with[c])' = Goods(trading_with[c])
    OBVIOUS
  <2>1. Untouched(c) /\ Untouched(trading_with[c])
    BY <1>1, OffersNext DEF GoodsStand
  <2>2. Goods(c)' = Goods(c)
    BY <2>1 DEF Untouched, Goods
  <2>3. Goods(trading_with[c])' = Goods(trading_with[c])
    BY <2>1 DEF Untouched, Goods
  <2> QED
    BY <2>2, <2>3
<1>2. ASSUME IInv, [Next]_vars
      PROVE  Passed
  BY <1>2, OffersNext DEF StaysOwned, Exchanged
<1>3. IInv /\ [Next]_vars => [Kept /\ Passed]_vars
  BY <1>1, <1>2
<1>4. Spec => []IInv
  BY Invariant DEF NoMisuse, NoMisuseAtAll
<1> QED
  BY <1>3, <1>4, PTL DEF Spec, AcceptedAsOffered

-----------------------------------------------------------------------------
(* Amounts.                                                                 *)

First(s) == CHOOSE x \in s : TRUE
Adds(f, a, D) == f = [s \in D |-> IF s = {} THEN 0 ELSE a[First(s)] + f[s \ {First(s)}]]
SumOf(a) == CHOOSE f : Adds(f, a, SUBSET Items)
Small(n) == { s \in SUBSET Items : Cardinality(s) <= n }

(* What MapThenSumSet() adds up. *)
LEMMA TotalIs == Total = SumOf(amount)[Items] /\ Total' = SumOf(amount')[Items]
<1>1. Total = SumOf(amount)[Items]
  BY DEF Total, MapThenSumSet, MapThenFoldSet, SumOf, Adds, First
<1>2. Total' = SumOf(amount')[Items]
  BY DEF Total, MapThenSumSet, MapThenFoldSet, SumOf, Adds, First
<1> QED
  BY <1>1, <1>2

LEMMA FirstOf == ASSUME NEW s, s # {} PROVE First(s) \in s
BY DEF First

(* Sets of naturals have a least member. *)
LEMMA Least ==
    ASSUME NEW S \in SUBSET Nat, S # {}
    PROVE  \E n \in S : \A m \in S : n <= m
<1>1. IsWellFoundedOn(OpToRel(<, Nat), Nat)
  BY NatLessThanWellFounded
<1>2. PICK n \in S : \A m \in S : ~(<< m, n >> \in OpToRel(<, Nat))
  BY <1>1, WFMin
<1>3. OpToRel(<, Nat) = { ss \in Nat \X Nat : ss[1] < ss[2] }
  BY DEF OpToRel
<1>4. ASSUME NEW m \in S PROVE n <= m
  <2>1. ~(m < n)
    BY <1>2, <1>3
  <2> QED
    BY <2>1
<1> QED
  BY <1>4

(* A set of sets of items that contains a set whenever it contains its proper
   subsets contains all. *)
LEMMA ItemSets ==
    ASSUME IsFiniteSet(Items), NEW G \in SUBSET (SUBSET Items),
           \A s \in SUBSET Items : (\A t \in SUBSET s : t # s => t \in G) => s \in G
    PROVE  G = SUBSET Items
<1>1. SUFFICES ASSUME NEW t \in SUBSET Items, t \notin G PROVE FALSE
  OBVIOUS
<1>2. \A s \in SUBSET Items : IsFiniteSet(s) /\ Cardinality(s) \in Nat
  BY FS_Subset, FS_CardinalityType
<1> DEFINE S == { Cardinality(s) : s \in (SUBSET Items) \ G }
<1>3. S \in SUBSET Nat /\ S # {}
  BY <1>1, <1>2
<1>4. PICK n \in S : \A m \in S : n <= m
  <2> HIDE DEF S
  <2> QED
    BY <1>3, Least
<1>5. PICK s \in (SUBSET Items) \ G : n = Cardinality(s)
  OBVIOUS
<1>6. ASSUME NEW u \in SUBSET s, u # s PROVE u \in G
  <2>1. Cardinality(u) <= Cardinality(s) /\ Cardinality(u) # Cardinality(s) /\ u \in SUBSET Items
    BY <1>2, <1>5, <1>6, FS_Subset
  <2>2. Cardinality(u) \in Nat /\ Cardinality(s) \in Nat
    BY <1>2, <1>5, <2>1
  <2>3. Cardinality(u) \notin S
    BY <1>4, <1>5, <2>1, <2>2
  <2> QED
    BY <2>1, <2>3
<1> QED
  BY <1>5, <1>6

(* The sums exist: those of the subsets of a set extend to the set. *)
LEMMA SumExists ==
    ASSUME IsFiniteSet(Items), NEW a
    PROVE  Adds(SumOf(a), a, SUBSET Items)
<1> DEFINE N == Cardinality(Items)
           S == { n \in Nat : ~ \E f : Adds(f, a, Small(n)) }
<1>0. /\ N \in Nat
      /\ \A s \in SUBSET Items : IsFiniteSet(s) /\ Cardinality(s) \in 0..N
  BY FS_Subset, FS_CardinalityType
<1>1. S = {}
  <2>1. SUFFICES ASSUME S # {} PROVE FALSE
    OBVIOUS
  <2>2. PICK n \in S : \A m \in S : n <= m
    <3>1. S \in SUBSET Nat
      OBVIOUS
    <3> HIDE DEF S
    <3> QED
      BY <2>1, <3>1, Least
  <2>3. n # 0
    <3>1. SUFFICES ASSUME n = 0 PROVE FALSE
      OBVIOUS
    <3>2. \A s \in Small(0) : s = {}
      <4>1. ASSUME NEW s \in Small(0) PROVE s = {}
        <5>1. IsFiniteSet(s) /\ Cardinality(s) = 0
          BY <1>0 DEF Small
        <5> QED
          BY <5>1, FS_EmptySet
      <4> QED
        BY <4>1
    <3> DEFINE f == [s \in Small(0) |-> 0]
    <3>3. Adds(f, a, Small(0))
      BY <3>2 DEF Adds
    <3> QED
      BY <3>1, <3>3
  <2>4. n - 1 \in Nat /\ n - 1 \notin S
    BY <2>2, <2>3
  <2>5. PICK g : Adds(g, a, Small(n - 1))
    BY <2>4
  <2> DEFINE f == [s \in Small(n) |-> IF s = {} THEN 0 ELSE a[First(s)] + g[s \ {First(s)}]]
  <2>6. ASSUME NEW s \in Small(n), s # {} PROVE s \ {First(s)} \in Small(n - 1)
    <3>1. s \in SUBSET Items /\ Cardinality(s) <= n /\ First(s) \in s
      BY <2>6, FirstOf DEF Small
    <3>2. Cardinality(s \ {First(s)}) = Cardinality(s) - 1 /\ Cardinality(s) \in Nat
      BY <1>0, <3>1, FS_RemoveElement
    <3> QED
      BY <3>1, <3>2 DEF Small
  <2>7. ASSUME NEW s \in Small(n - 1) PROVE s \in Small(n) /\ f[s] = g[s]
    <3>1. s \in Small(n)
      BY <1>0 DEF Small
    <3> QED
      BY <2>5, <3>1 DEF Adds
  <2>8. \A s \in Small(n) : s # {} => g[s \ {First(s)}] = f[s \ {First(s)}]
    BY <2>6, <2>7
  <2>9. f = [s \in Small(n) |-> IF s = {} THEN 0 ELSE a[First(s)] + f[s \ {First(s)}]]
    <3> DEFINE h == [s \in Small(n) |-> IF s = {} THEN 0 ELSE a[First(s)] + f[s \ {First(s)}]]
    <3>1. \A s \in Small(n) : f[s] = h[s]
      BY <2>8
    <3> QED
      BY <3>1
  <2>10. \E k : Adds(k, a, Small(n))
    <3> HIDE DEF f
    <3> QED
      BY <2>9 DEF Adds
  <2> QED
    BY <2>2, <2>10
<1>2. \E f : Adds(f, a, Small(N))
  BY <1>0, <1>1
<1>3. Small(N) = SUBSET Items
  BY <1>0 DEF Small
<1> QED
  BY <1>2, <1>3 DEF SumOf

LEMMA SumIs ==
    ASSUME IsFiniteSet(Items), NEW a \in [Items -> Nat]
    PROVE  /\ SumOf(a)[{}] = 0
           /\ \A s \in SUBSET Items :
                 /\ SumOf(a)[s] \in Nat
                 /\ s # {} => SumOf(a)[s] = a[First(s)] + SumOf(a)[s \ {First(s)}]
<1> DEFINE f == SumOf(a)
           G == { s \in SUBSET Items : f[s] \in Nat }
<1>0. f = [s \in SUBSET Items |-> IF s = {} THEN 0 ELSE a[First(s)] + f[s \ {First(s)}]]
  BY SumExists DEF Adds
<1> HIDE DEF f
<1>1. f[{}] = 0 /\ \A s \in SUBSET Items : s # {} => f[s] = a[First(s)] + f[s \ {First(s)}]
  BY <1>0
<1>2. ASSUME NEW s \in SUBSET Items, \A t \in SUBSET s : t # s => t \in G
      PROVE  s \in G
  <2>1. CASE s = {}
    BY <1>1, <2>1
  <2>2. CASE s # {}
    <3>1. First(s) \in s /\ s \ {First(s)} \in SUBSET s /\ s \ {First(s)} # s
      BY <2>2, FirstOf
    <3>2. f[s \ {First(s)}] \in Nat /\ a[First(s)] \in Nat
      BY <1>2, <3>1
    <3>3. f[s] = a[First(s)] + f[s \ {First(s)}]
      BY <1>1, <2>2
    <3>4. f[s] \in Nat
      BY <3>2, <3>3
    <3> QED
      BY <3>4
  <2> QED
    BY <2>1, <2>2
<1>3. G = SUBSET Items
  <2>1. G \in SUBSET (SUBSET Items)
    OBVIOUS
  <2> HIDE DEF G
  <2> QED
    BY <1>2, <2>1, ItemSets
<1> QED
  BY <1>1, <1>3 DEF f

(* Any member may be added last. *)
LEMMA SumWithout ==
    ASSUME IsFiniteSet(Items), NEW a \in [Items -> Nat], NEW s \in SUBSET Items, NEW x \in s
    PROVE  SumOf(a)[s] = a[x] + SumOf(a)[s \ {x}]
<1> DEFINE f == SumOf(a)
           G == { t \in SUBSET Items : \A y \in t : f[t] = a[y] + f[t \ {y}] }
<1>0. \A t \in SUBSET Items : f[t] \in Nat /\ (t # {} => f[t] = a[First(t)] + f[t \ {First(t)}])
  BY SumIs
<1> HIDE DEF f
<1>1. ASSUME NEW t \in SUBSET Items, \A u \in SUBSET t : u # t => u \in G, NEW y \in t
      PROVE  f[t] = a[y] + f[t \ {y}]
  <2> DEFINE c == First(t)
             r == t \ {c, y}
  <2>1. c \in t /\ c \in Items /\ y \in Items /\ a[c] \in Nat /\ a[y] \in Nat
    BY FirstOf
  <2>2. f[t] = a[c] + f[t \ {c}]
    BY <1>0
  <2> HIDE DEF c
  <2>3. CASE c = y
    BY <2>2, <2>3
  <2>4. CASE c # y
    <3>1. t \ {c} \in G /\ t \ {y} \in G
      <4>1. /\ t \ {c} \in SUBSET t /\ t \ {c} # t
            /\ t \ {y} \in SUBSET t /\ t \ {y} # t
        BY <2>1
      <4> HIDE DEF G
      <4> QED
        BY <1>1, <4>1
    <3>2. (t \ {c}) \ {y} = r /\ (t \ {y}) \ {c} = r /\ r \in SUBSET Items
      OBVIOUS
    <3>3. f[t \ {c}] = a[y] + f[r]
      <4>1. y \in t \ {c}
        BY <2>4
      <4> QED
        BY <3>1, <3>2, <4>1
    <3>4. f[t \ {y}] = a[c] + f[r]
      <4>1. c \in t \ {y}
        BY <2>1, <2>4
      <4> QED
        BY <3>1, <3>2, <4>1
    <3>5. f[r] \in Nat
      BY <1>0, <3>2
    <3> HIDE DEF r
    <3> QED
      BY <2>1, <2>2, <3>3, <3>4, <3>5
  <2> QED
    BY <2>3, <2>4
<1>2. G = SUBSET Items
  <2>1. G \in SUBSET (SUBSET Items)
    OBVIOUS
  <2>2. \A t \in SUBSET Items : (\A u \in SUBSET t : u # t => u \in G) => t \in G
    BY <1>1
  <2> HIDE DEF G
  <2> QED
    BY <2>1, <2>2, ItemSets
<1>3. s \in G
  BY <1>2
<1> QED
  BY <1>3 DEF f

LEMMA SumSame ==
    ASSUME IsFiniteSet(Items), NEW a \in [Items -> Nat], NEW b \in [Items -> Nat],
           NEW s \in SUBSET Items, \A x \in s : a[x] = b[x]
    PROVE  SumOf(a)[s] = SumOf(b)[s]
<1> DEFINE f == SumOf(a)
           g == SumOf(b)
           G == { t \in SUBSET Items : (\A x \in t : a[x] = b[x]) => f[t] = g[t] }
<1>0. /\ f[{}] = 0 /\ g[{}] = 0
      /\ \A t \in SUBSET Items : t # {} => /\ f[t] = a[First(t)] + f[t \ {First(t)}]
                                           /\ g[t] = b[First(t)] + g[t \ {First(t)}]
  BY SumIs
<1> HIDE DEF f, g
<1>1. ASSUME NEW t \in SUBSET Items, \A u \in SUBSET t : u # t => u \in G,
             \A x \in t : a[x] = b[x]
      PROVE  f[t] = g[t]
  <2>1. CASE t = {}
    BY <1>0, <2>1
  <2>2. CASE t # {}
    <3> DEFINE c == First(t)
               u == t \ {c}
    <3>1. c \in t
      BY <2>2, FirstOf
    <3>2. u \in SUBSET t /\ u # t
      BY <3>1
    <3>3. f[t] = a[c] + f[u] /\ g[t] = b[c] + g[u]
      BY <1>0, <2>2
    <3>4. \A x \in u : a[x] = b[x]
      BY <1>1
    <3> HIDE DEF c, u
    <3>5. f[u] = g[u]
      BY <1>1, <3>2, <3>4
    <3> QED
      BY <1>1, <3>1, <3>3, <3>5
  <2> QED
    BY <2>1, <2>2
<1>2. G = SUBSET Items
  <2>1. G \in SUBSET (SUBSET Items)
    OBVIOUS
  <2>2. \A t \in SUBSET Items : (\A u \in SUBSET t : u # t => u \in G) => t \in G
    BY <1>1
  <2> HIDE DEF G
  <2> QED
    BY <2>1, <2>2, ItemSets
<1>3. s \in G
  BY <1>2
<1> QED
  BY <1>3 DEF f, g

(* What one item loses and another gains leaves the sum as it is. *)
LEMMA SumExchanged ==
    ASSUME IsFiniteSet(Items), NEW a \in [Items -> Nat], NEW b \in [Items -> Nat],
           NEW i \in Items, NEW j \in Items, i # j, b[i] + b[j] = a[i] + a[j],
           \A k \in Items \ {i, j} : b[k] = a[k]
    PROVE  SumOf(b)[Items] = SumOf(a)[Items]
<1> DEFINE R == (Items \ {i}) \ {j}
<1>1. /\ SumOf(a)[Items] = a[i] + SumOf(a)[Items \ {i}]
      /\ SumOf(b)[Items] = b[i] + SumOf(b)[Items \ {i}]
  <2>1. Items \in SUBSET Items
    OBVIOUS
  <2> QED
    BY <2>1, SumWithout
<1>2. /\ SumOf(a)[Items \ {i}] = a[j] + SumOf(a)[R]
      /\ SumOf(b)[Items \ {i}] = b[j] + SumOf(b)[R]
  <2>1. Items \ {i} \in SUBSET Items /\ j \in Items \ {i}
    OBVIOUS
  <2> QED
    BY <2>1, SumWithout
<1>3. SumOf(a)[R] = SumOf(b)[R] /\ SumOf(a)[R] \in Nat
  <2>1. R \in SUBSET Items /\ \A k \in R : a[k] = b[k]
    OBVIOUS
  <2> HIDE DEF R
  <2> QED
    BY <2>1, SumSame, SumIs
<1>4. a[i] \in Nat /\ a[j] \in Nat /\ b[i] \in Nat /\ b[j] \in Nat
  OBVIOUS
<1> HIDE DEF R
<1> QED
  BY <1>1, <1>2, <1>3, <1>4

(* What the item i loses the item j gains. *)
PassedOver(i, j) ==
    /\ i # j /\ amount'[i] + amount'[j] = amount[i] + amount[j]
    /\ \A k \in Items \ {i, j} : amount'[k] = amount[k]

LEMMA AmountsChange ==
    ASSUME NoMisuse, PlaceInv, [Next]_vars
    PROVE  \/ UNCHANGED amount
           \/ \E i, j \in Items : PassedOver(i, j)
           \/ \E i \in Items : /\ amount'[i] < amount[i]
                                /\ SubtractAmount(i, amount[i] - amount'[i])
           \/ \E c \in Chars : HookDestroys(c)
<1>0. amount \in [Items -> Nat] /\ Stacks \subseteq Items
  BY DEF PlaceInv, TypeOK, Items
<1>1. ASSUME NEW c \in Chars, NEW i \in Items, get_item(c, i)
      PROVE  UNCHANGED amount \/ \E j \in Items : PassedOver(i, j)
  <2>1. CASE \E n \in 1 .. amount[i] - 1, j \in Stacks : Slice(i, n, j)
    <3>1. PICK n \in 1 .. amount[i] - 1, j \in Stacks : Slice(i, n, j)
      BY <2>1
    <3>2. amount[i] \in Nat /\ j \in Items /\ amount[j] = 0 /\ i # j
      BY <1>0, <3>1 DEF Slice
    <3>3. amount' = [amount EXCEPT ![i] = n, ![j] = amount[i] - n]
      BY <3>1 DEF Slice
    <3>4. amount'[i] = n /\ amount'[j] = amount[i] - n /\ \A k \in Items \ {i, j} : amount'[k] = amount[k]
      BY <1>0, <3>2, <3>3
    <3>5. amount'[i] + amount'[j] = amount[i] + amount[j]
      BY <3>2, <3>4
    <3> QED
      BY <3>2, <3>4, <3>5 DEF PassedOver
  <2> QED
    BY <1>1, <2>1 DEF get_item
<1>2. ASSUME NEW c \in Chars, NEW j \in Stacks, add_item_to_stack(c, j)
      PROVE  \E i \in Items : PassedOver(i, j)
  <2> DEFINE i == gotten_item[c]
  <2>1. i \in Items /\ i \in is_gotten /\ j \in Items
    BY <1>0, <1>2, Held DEF add_item_to_stack, Dropping
  <2>2. j \in Legal(c) \ inuse /\ amount' = [amount EXCEPT ![j] = @ + amount[i], ![i] = 0]
    BY <1>2 DEF add_item_to_stack
  <2>3. i # j
    BY <2>1, <2>2, Reachable
  <2> HIDE DEF i
  <2>4. amount'[j] = amount[j] + amount[i] /\ amount'[i] = 0 /\ \A k \in Items \ {i, j} : amount'[k] = amount[k]
    BY <1>0, <2>1, <2>2, <2>3
  <2>5. amount'[i] + amount'[j] = amount[i] + amount[j]
    <3>1. amount[i] \in Nat /\ amount[j] \in Nat
      BY <1>0, <2>1
    <3> QED
      BY <2>4, <3>1
  <2> QED
    BY <2>1, <2>3, <2>4, <2>5 DEF PassedOver
<1>3. ASSUME NEW i \in Items, NEW n \in 1 .. stack_limit(i), SubtractAmount(i, n)
      PROVE  amount'[i] < amount[i] /\ SubtractAmount(i, amount[i] - amount'[i])
  <2> DEFINE d == amount[i] - amount'[i]
  <2>1. stack_limit(i) \in Nat /\ amount[i] \in Nat
    BY <1>0, ItemMovesAssumption DEF stack_limit
  <2>2. n \in Nat /\ n > 0 /\ amount[i] > 0 /\ amount' = [amount EXCEPT ![i] = Rest(i, n)]
    BY <1>3, <2>1 DEF SubtractAmount
  <2>3. amount'[i] = Rest(i, n)
    BY <1>0, <2>2
  <2>4. /\ amount'[i] < amount[i] /\ d \in Nat
        /\ d >= amount[i] <=> n >= amount[i]
        /\ Rest(i, d) = Rest(i, n)
    BY <2>1, <2>2, <2>3 DEF Rest
  <2> HIDE DEF d
  <2>5. \A w : Less(w, i, d) = Less(w, i, n)
    BY <2>4 DEF Less
  <2>6. SubtractAmount(i, d)
    BY <1>3, <2>4, <2>5 DEF SubtractAmount
  <2> QED
    BY <2>4, <2>6 DEF d
<1>4. ASSUME NEW c \in Chars, Drag(c)
      PROVE  \/ UNCHANGED amount
             \/ \E i, j \in Items : PassedOver(i, j)
             \/ HookDestroys(c)
  <2>1. CASE \/ WrongSerial(c) \/ drop_item_on_ground(c) \/ place_item_in_container(c)
             \/ Refused(c) \/ (\E d \in Chars : equip_item(c, d))
    BY <2>1 DEF WrongSerial, drop_item_on_ground, place_item_in_container, Refused, equip_item
  <2> QED
    BY <1>0, <1>1, <1>2, <1>4, <2>1 DEF Drag
<1>5. ASSUME NEW c \in Chars, Trade(c) \/ Connection(c) \/ ClearGottenItem(c)
      PROVE  UNCHANGED amount
  BY <1>5 DEF Trade, Connection, ClearGottenItem, open_trade_window, drop_item_on_mobile,
     place_item_in_secure_trade_container, NoMisuse, cancel_trade, change_trade_status, closeConnection,
     disconnect_cleanup, PreDelete, Cleanup, start_client_char
<1>6. ASSUME NEW i \in Items, Script(i)
      PROVE  \/ UNCHANGED amount
             \/ /\ amount'[i] < amount[i]
                /\ SubtractAmount(i, amount[i] - amount'[i])
  <2>1. CASE \E n \in 1 .. stack_limit(i) : SubtractAmount(i, n)
    BY <1>3, <2>1
  <2>2. CASE \/ \E c \in Chars : ScriptGives(i, c)
             \/ internal_MoveItem(i) \/ MoveRefused(i) \/ ReserveItem(i) \/ ReleaseItem(i)
    BY <2>2 DEF ScriptGives, MoveItemToContainer, EquipItem, MoveItemToSecureTradeWin,
       internal_MoveItem, MoveRefused, ReserveItem, ReleaseItem
  <2> QED
    BY <1>6, <2>1, <2>2 DEF Script
<1>7. ASSUME cancel_all_trades PROVE UNCHANGED amount
  BY <1>7 DEF cancel_all_trades
<1> QED
  BY <1>4, <1>5, <1>6, <1>7 DEF Next, vars

(* Whatever is lifted, parted, merged, refused, traded or cut off, the amounts of all
   items together stay the same unless a script takes some away or destroys an item:
   for any finite number of items, which is all that a sum needs. *)
THEOREM AmountsConserved == ASSUME NoMisuse, IsFiniteSet(Items) PROVE Spec => Conserved
<1>1. PlaceInv /\ PlaceInv' /\ [Next]_vars =>
         [\/ UNCHANGED amount
          \/ Total' = Total
          \/ \E i \in Items : /\ amount'[i] < amount[i]
                               /\ SubtractAmount(i, amount[i] - amount'[i])
          \/ \E c \in Chars : HookDestroys(c)]_vars
  <2>1. ASSUME PlaceInv, PlaceInv', NEW i \in Items, NEW j \in Items, PassedOver(i, j)
        PROVE  Total' = Total
    <3>1. amount \in [Items -> Nat] /\ amount' \in [Items -> Nat]
      BY <2>1 DEF PlaceInv, TypeOK
    <3>2. SumOf(amount')[Items] = SumOf(amount)[Items]
      BY <2>1, <3>1, SumExchanged DEF PassedOver
    <3> QED
      BY <3>2, TotalIs
  <2> QED
    BY <2>1, AmountsChange
<1>2. Spec => []PlaceInv
  BY Placed
<1> QED
  BY <1>1, <1>2, PTL DEF Spec, Conserved
=============================================================================
