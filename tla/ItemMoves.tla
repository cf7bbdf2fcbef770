----------------------------- MODULE ItemMoves -----------------------------
(***************************************************************************)
(* Items that players drag and trade (getitem.cpp, dropitem.cpp,           *)
(* eqpitem.cpp), with the clients that come and go meanwhile and the       *)
(* scripts that move, reserve and destroy the same items.  An item knows   *)
(* its container, a container its items, a zone the items on the ground,   *)
(* a character the item in his hand: four records that have to agree.      *)
(* Every action is one packet, script call or step of a connection's       *)
(* thread under the lock, with the hook scripts that it runs.              *)
(***************************************************************************)
EXTENDS FiniteSetsExt, Naturals

CONSTANTS Chars,      \* player characters
          Stacks,     \* items of one kind that can be stacked
          Wearables,  \* items that are worn on one layer
          None,       \* NULL
          StackSize,  \* the largest amount of a stack
          Units,      \* bound: how much there is of everything at the start
          Packless,   \* the characters without a backpack
          Misuse      \* see Misuses

\* What a script can do that leaves the records in disagreement: take something
\* out of a trade or lessen it; take it out of a hand, when it has reserved the item
\* or somebody's reservation has ended; move an item into the trade window of a
\* character who does not trade; destroy, as a hook, what is being put into a trade.
Misuses == {"takes_from_trade", "takes_from_hand", "adds_to_no_trade", "destroys_traded"}

Items == Stacks \cup Wearables

stack_limit(i) == IF i \in Stacks THEN StackSize ELSE 1

ASSUME ItemMovesAssumption ==
    /\ None \notin Items /\ None \notin Chars
    /\ Stacks # {} /\ Stacks \cap Wearables = {}
    /\ StackSize \in Nat \ {0} /\ Units \in Nat
    /\ Packless \subseteq Chars
    /\ Misuse \subseteq Misuses

VARIABLES amount,              \* amount[i], 0 for an item that does not exist
          world,               \* where the items are: see TypeOK
          gotten_item,         \* Character::gotten_item
          gotten_item_source,  \* Character::gotten_item_source
          gotten_by,           \* Item::gotten_by
          is_gotten,           \* the items with these flags
          inuse,
          reserved,            \* a script's reserved_items_, of those that exist
          trading_with,        \* Character::trading_with
          trade_accepted,      \* Character::trade_accepted
          client               \* "playing"; "closing", no more in the list of
                               \* clients; "lingering", until the logoff; "none"

hand == << gotten_item, gotten_item_source, gotten_by, is_gotten, inuse >>
trade == << trading_with, trade_accepted >>
vars == << amount, world, hand, reserved, trade, client >>

\* The containers of a character: his backpack, what he wears, and what he
\* offers in a trade.  Where an item's container is None it lies on the ground.
Pack(c) == << "pack", c >>
Worn(c) == << "worn", c >>
Offer(c) == << "offer", c >>
Containers == {"pack", "worn", "offer"} \X Chars
Places == Containers \cup {None}

ASSUME NoneAssumption == None \notin Containers

\* At the start a stack and things to wear lie on the ground.
Init ==
    /\ \E s \in Stacks, n \in 1 .. StackSize, W \in SUBSET Wearables :
          /\ n + Cardinality(W) = Units
          /\ amount = [i \in Items |-> IF i = s THEN n ELSE IF i \in W THEN 1 ELSE 0]
          /\ world = [container |-> [i \in Items |-> None],
                      contents  |-> [k \in Places |->
                                       IF k = None THEN W \cup {s} ELSE {}]]
    /\ gotten_item = [c \in Chars |-> None]
    /\ gotten_item_source = [c \in Chars |-> "ground"]
    /\ gotten_by = [i \in Items |-> None]
    /\ is_gotten = {} /\ inuse = {} /\ reserved = {}
    /\ trading_with = [c \in Chars |-> None]
    /\ trade_accepted = [c \in Chars |-> FALSE]
    /\ client = [c \in Chars |-> "none"]

-----------------------------------------------------------------------------
(* Taking items out of their places and putting them somewhere: functions    *)
(* from a world to the next.                                                 *)

\* UContainer::add(), Character::equip() and, for None, add_item_to_world().
Put(w, i, k) == [w EXCEPT !.contents[k] = @ \cup {i}, !.container[i] = k]

\* true_extricate(); destroy_item() does the same before the item is gone.
true_extricate(w, i) ==
    [w EXCEPT !.contents[w.container[i]] = @ \ {i}, !.container[i] = None]

\* Bug: the layer may be taken.
equippableAnyway(w, c, i) == i \in Wearables

equippable(w, c, i) == i \in Wearables /\ w.contents[Worn(c)] = {}

\* What undo_get_item() can come to: the item that c let go is worn again, in the
\* backpack or at his feet, by where it came from and by what the hooks allow.
undo_get_item(w, c, i) ==
    {Put(w, i, None)}
    \cup (IF gotten_item_source[c] = "equipped" /\ equippable(w, c, i)
          THEN {Put(w, i, Worn(c))} ELSE {})
    \cup (IF gotten_item_source[c] # "ground" /\ c \notin Packless
          THEN {Put(w, i, Pack(c))} ELSE {})

\* swap() exchanges the lists: the items' own records still name the other one.
swap(w, c, d) ==
    [w EXCEPT !.contents[Offer(c)] = w.contents[Offer(d)],
              !.contents[Offer(d)] = w.contents[Offer(c)]]

\* return_traded_items() for each character of S: what he offers, or was given in
\* exchange, goes to his backpack, the part g that does not fit to the ground.
return_traded_items(w, S) ==
    LET P == S \ Packless
        Of(c) == w.contents[Offer(c)]
    IN  { [contents  |-> [k \in Places |->
                            IF k = None THEN w.contents[k] \cup g
                            ELSE IF k[2] \notin P \/ k = Worn(k[2]) THEN w.contents[k]
                            ELSE IF k = Offer(k[2]) THEN {}
                            ELSE w.contents[k] \cup (Of(k[2]) \ g)],
           container |-> [i \in Items |->
                            IF i \in g THEN None
                            ELSE IF \E c \in P : i \in Of(c)
                                 THEN Pack(CHOOSE c \in P : i \in Of(c))
                                 ELSE w.container[i]]]
          : g \in SUBSET UNION {Of(c) : c \in P} }

-----------------------------------------------------------------------------
(* The item in the hand.                                                     *)

\* What drop_item(), equip_item() and clear_gotten_item() begin with and, for
\* is_gotten, end with.  The source is not read again before the next get_item().
LetGo(c) ==
    /\ gotten_item' = [gotten_item EXCEPT ![c] = None]
    /\ gotten_by' = [gotten_by EXCEPT ![gotten_item[c]] = None]
    /\ is_gotten' = is_gotten \ {gotten_item[c]}
    /\ inuse' = inuse \ {gotten_item[c]}
    /\ UNCHANGED gotten_item_source

Holds(c) == gotten_item[c] # None

clear_gotten_item(c) ==
    IF Holds(c)
    THEN LetGo(c) /\ world' \in undo_get_item(world, c, gotten_item[c])
    ELSE UNCHANGED << world, hand >>

\* Bug: the stack keeps its amount when a part of it is lifted.
SliceTwice(i, n, j) ==
    /\ amount[j] = 0
    /\ amount' = [amount EXCEPT ![i] = n, ![j] = amount[i]]
    /\ \E k \in {world.container[i], None} : world' = Put(true_extricate(world, i), j, k)

\* The part of the item that is not lifted takes its place as a new item, or lies on
\* the ground if there is no slot for it.
Slice(i, n, j) ==
    /\ amount[j] = 0
    /\ amount' = [amount EXCEPT ![i] = n, ![j] = amount[i] - n]
    /\ \E k \in {world.container[i], None} : world' = Put(true_extricate(world, i), j, k)

\* find_legal_item(): what the character carries, and the ground.
Legal(c) == world.contents[None] \cup world.contents[Pack(c)] \cup world.contents[Worn(c)]

get_item(c, i) ==
    /\ client[c] = "playing" /\ ~Holds(c)
    /\ i \in Legal(c) \ inuse
    /\ \/ world' = true_extricate(world, i) /\ UNCHANGED amount
       \/ \E n \in 1 .. amount[i] - 1, j \in Stacks : Slice(i, n, j)
    /\ gotten_item' = [gotten_item EXCEPT ![c] = i]
    /\ gotten_item_source' = [gotten_item_source EXCEPT ![c] =
          IF world.container[i] = None THEN "ground"
          ELSE IF world.container[i] = Worn(c) THEN "equipped" ELSE "container"]
    /\ gotten_by' = [gotten_by EXCEPT ![i] = c]
    /\ is_gotten' = is_gotten \cup {i} /\ inuse' = inuse \cup {i}
    /\ UNCHANGED << reserved, trade, client >>

\* A packet that names another item than the one in the hand.
WrongSerial(c) ==
    /\ client[c] = "playing" /\ Holds(c)
    /\ gotten_by' = [gotten_by EXCEPT ![gotten_item[c]] = None]
    /\ UNCHANGED << amount, world, gotten_item, gotten_item_source, is_gotten, inuse,
                    reserved, trade, client >>

\* drop_item() as far as all its outcomes go.
Dropping(c) ==
    /\ client[c] = "playing" /\ Holds(c)
    /\ LetGo(c)
    /\ UNCHANGED client

drop_item_on_ground(c) ==
    /\ Dropping(c)
    /\ world' = Put(world, gotten_item[c], None)
    /\ UNCHANGED << amount, reserved, trade >>

place_item_in_container(c) ==
    /\ c \notin Packless
    /\ Dropping(c)
    /\ world' = Put(world, gotten_item[c], Pack(c))
    /\ UNCHANGED << amount, reserved, trade >>

\* The item's amount goes to the stack j and the item is destroyed.
add_item_to_stack(c, j) ==
    LET i == gotten_item[c]
    IN  /\ Dropping(c)
        /\ {i, j} \subseteq Stacks
        /\ j \in Legal(c) \ inuse /\ amount[j] + amount[i] <= stack_limit(j)
        /\ amount' = [amount EXCEPT ![j] = @ + amount[i], ![i] = 0]
        /\ reserved' = reserved \ {i}
        /\ UNCHANGED << world, trade >>

\* The script that is asked whether the item may be put on the ground, into a
\* container or on a stack destroys it; for trades see below.
HookDestroys(c) ==
    /\ Dropping(c)
    /\ amount' = [amount EXCEPT ![gotten_item[c]] = 0]
    /\ reserved' = reserved \ {gotten_item[c]}
    /\ UNCHANGED << world, trade >>

\* The drop is refused, by a check or by a hook.
Refused(c) ==
    /\ Dropping(c)
    /\ world' \in undo_get_item(world, c, gotten_item[c])
    /\ UNCHANGED << amount, reserved, trade >>

\* Dressing somebody else takes a privilege.
equip_item(c, d) ==
    /\ client[c] = "playing" /\ Holds(c)
    /\ equippable(world, d, gotten_item[c])
    /\ LetGo(c)
    /\ world' = Put(world, gotten_item[c], Worn(d))
    /\ UNCHANGED << amount, reserved, trade, client >>

\* clear_gotten_item() from a script or from the character's death.
ClearGottenItem(c) ==
    /\ Holds(c) /\ clear_gotten_item(c)
    /\ UNCHANGED << amount, reserved, trade, client >>

-----------------------------------------------------------------------------
(* Secure trades.                                                            *)

is_trading(c) == trading_with[c] # None

HasClient(c) == client[c] # "none"

\* Bug: what was accepted stays accepted.
NotAcceptedStays(c, d) == UNCHANGED trade_accepted

NotAccepted(c, d) ==
    trade_accepted' = [trade_accepted EXCEPT ![c] = FALSE, ![d] = FALSE]

do_open_trade_window(c, d) ==
    /\ c # d /\ ~is_trading(c) /\ ~is_trading(d) /\ HasClient(d)
    /\ trading_with' = [trading_with EXCEPT ![c] = d, ![d] = c]
    /\ NotAccepted(c, d)

\* The script function SecureTradeWin().
open_trade_window(c, d) ==
    /\ client[c] = "playing" /\ client[d] = "playing"
    /\ do_open_trade_window(c, d)
    /\ UNCHANGED << amount, world, hand, reserved, client >>

\* The item that opens the trade may still be refused a place in it.
drop_item_on_mobile(c, d) ==
    /\ Dropping(c)
    /\ do_open_trade_window(c, d)
    /\ world' \in {Put(world, gotten_item[c], Offer(c))}
                    \cup undo_get_item(world, c, gotten_item[c])
    /\ UNCHANGED << amount, reserved >>

\* An item that the hooks of the trade have destroyed is put there all the same.
place_item_in_secure_trade_container(c) ==
    /\ Dropping(c)
    /\ is_trading(c) /\ HasClient(trading_with[c])
    /\ world' = Put(world, gotten_item[c], Offer(c))
    /\ amount' \in {amount} \cup (IF "destroys_traded" \in Misuse
                                  THEN {[amount EXCEPT ![gotten_item[c]] = 0]} ELSE {})
    /\ NotAccepted(c, trading_with[c])
    /\ UNCHANGED << reserved, trading_with >>

EndTrades(S) ==
    /\ trading_with' = [c \in Chars |-> IF c \in S THEN None ELSE trading_with[c]]
    /\ UNCHANGED trade_accepted

\* cancel_trade() for each trade that a character of S takes part in.
CancelTrades(w, S) ==
    LET T == S \cup {trading_with[c] : c \in S}
    IN  /\ world' \in return_traded_items(w, T)
        /\ EndTrades(T)

\* By the client, by walking away, by a script or by death.
cancel_trade(c) ==
    /\ is_trading(c)
    /\ CancelTrades(world, {c})
    /\ UNCHANGED << amount, hand, reserved, client >>

BothAccept(c, set) == set /\ trade_accepted[trading_with[c]]

\* The trade containers are swapped and emptied, unless one is then overloaded.
change_trade_status(c, set) ==
    /\ client[c] = "playing" /\ is_trading(c)
    /\ trade_accepted' = [trade_accepted EXCEPT ![c] = set]
    /\ \/ UNCHANGED << world, trading_with >>
       \/ /\ BothAccept(c, set)
          /\ world' \in return_traded_items(swap(world, c, trading_with[c]),
                                            {c, trading_with[c]})
          /\ trading_with' = [trading_with EXCEPT ![c] = None, ![trading_with[c]] = None]
    /\ UNCHANGED << amount, hand, reserved, client >>

\* Before every save.  A client that is closing is not in the list any more.
cancel_all_trades ==
    LET S == {c \in Chars : client[c] = "playing" /\ is_trading(c)}
    IN  /\ S # {}
        /\ CancelTrades(world, S)
        /\ UNCHANGED << amount, hand, reserved, client >>

-----------------------------------------------------------------------------
(* Clients come and go.                                                      *)

closeConnection(c) ==
    /\ client[c] = "playing"
    /\ client' = [client EXCEPT ![c] = "closing"]
    /\ UNCHANGED << amount, world, hand, reserved, trade >>

\* Bug: the trade goes on without the character.
CleanupNothing(c, next) ==
    /\ client' = [client EXCEPT ![c] = next]
    /\ UNCHANGED << amount, world, hand, reserved, trade >>

\* disconnect_cleanup(), which leaves the hand as it is.
Cleanup(c, next) ==
    /\ client' = [client EXCEPT ![c] = next]
    /\ IF is_trading(c) THEN CancelTrades(world, {c}) ELSE UNCHANGED << world, trade >>
    /\ UNCHANGED << amount, hand, reserved >>

disconnect_cleanup(c) == client[c] = "closing" /\ Cleanup(c, "lingering")

\* The logoff: the client object goes, and with it the character.
PreDelete(c) == client[c] = "lingering" /\ Cleanup(c, "none")

\* A logon, or another connection that takes the character over.
start_client_char(c) ==
    /\ client' = [client EXCEPT ![c] = "playing"]
    /\ clear_gotten_item(c)
    /\ UNCHANGED << amount, reserved, trade >>

-----------------------------------------------------------------------------
(* Scripts.                                                                  *)

\* An item that exists and is not in use, or reserved by this script.
Movable(i) == amount[i] > 0 /\ (i \notin inuse \/ i \in reserved)

Offered(i) == \E c \in Chars : i \in world.contents[Offer(c)]

MayTake(i) ==
    /\ Offered(i) => "takes_from_trade" \in Misuse
    /\ i \in is_gotten => "takes_from_hand" \in Misuse

\* The item is in use while its equiptest and unequiptest scripts run, and not in
\* use afterwards, whether there is a script or not and whoever has reserved it.
check_test_scripts(i) ==
    /\ inuse' = inuse \ {i}
    /\ UNCHANGED << gotten_item, gotten_item_source, gotten_by, is_gotten >>

IsWorn(i) == \E c \in Chars : world.container[i] = Worn(c)

check_unequiptest_scripts(i) ==
    IF IsWorn(i) THEN check_test_scripts(i) ELSE UNCHANGED hand

MoveItem(i, k) ==
    /\ Movable(i) /\ MayTake(i)
    /\ world' = Put(true_extricate(world, i), i, k)

MoveItemToContainer(i, c) ==
    /\ c \notin Packless
    /\ MoveItem(i, Pack(c))
    /\ check_unequiptest_scripts(i)
    /\ UNCHANGED << amount, reserved, trade, client >>

internal_MoveItem(i) ==
    /\ MoveItem(i, None)
    /\ check_unequiptest_scripts(i)
    /\ UNCHANGED << amount, reserved, trade, client >>

EquipItem(i, c) ==
    /\ equippable(world, c, i)
    /\ MoveItem(i, Worn(c))
    /\ check_test_scripts(i)
    /\ UNCHANGED << amount, reserved, trade, client >>

\* A script does not let the item be put on or taken off.
MoveRefused(i) ==
    /\ Movable(i) /\ MayTake(i)
    /\ IsWorn(i) \/ \E c \in Chars : equippable(world, c, i)
    /\ check_test_scripts(i)
    /\ UNCHANGED << amount, world, reserved, trade, client >>

\* The item has left its place when the trade turns out not to take it.
MoveItemToSecureTradeWin(i, c) ==
    /\ Movable(i) /\ MayTake(i) /\ HasClient(c)
    /\ IF is_trading(c) /\ HasClient(trading_with[c])
       THEN /\ world' = Put(true_extricate(world, i), i, Offer(c))
            /\ NotAccepted(c, trading_with[c]) /\ UNCHANGED trading_with
       ELSE /\ "adds_to_no_trade" \in Misuse
            /\ world' = true_extricate(world, i) /\ UNCHANGED trade
    /\ check_unequiptest_scripts(i)
    /\ UNCHANGED << amount, reserved, client >>

\* Bug: more can be taken than there is.
RestBelow(i, n) == amount[i] - n

Rest(i, n) == IF n >= amount[i] THEN 0 ELSE amount[i] - n

\* What is left of a world when n of the item i are gone.
Less(w, i, n) == IF n >= amount[i] THEN true_extricate(w, i) ELSE w

\* SubtractAmount() and, with all of it, DestroyItem(): an item in a hand is put
\* back first.
SubtractAmount(i, n) ==
    /\ amount[i] > 0
    /\ IF gotten_by[i] # None
       THEN /\ LetGo(gotten_by[i])
            /\ world' \in {Less(w, i, n) : w \in undo_get_item(world, gotten_by[i], i)}
       ELSE /\ Movable(i) /\ MayTake(i)
            /\ world' = Less(world, i, n)
            /\ inuse' = IF n >= amount[i] THEN inuse \ {i} ELSE inuse
            /\ UNCHANGED << gotten_item, gotten_item_source, gotten_by, is_gotten >>
    /\ reserved' = IF n >= amount[i] THEN reserved \ {i} ELSE reserved
    /\ amount' = [amount EXCEPT ![i] = Rest(i, n)]
    /\ UNCHANGED << trade, client >>

\* Bound: one script, one item at a time, and none twice.
ReserveItem(i) ==
    /\ reserved = {} /\ amount[i] > 0 /\ i \notin inuse
    /\ inuse' = inuse \cup {i} /\ reserved' = {i}
    /\ UNCHANGED << amount, world, gotten_item, gotten_item_source, gotten_by, is_gotten,
                    trade, client >>

\* By the script or when it ends, although somebody may have the item in his hand.
ReleaseItem(i) ==
    /\ i \in reserved
    /\ inuse' = inuse \ {i} /\ reserved' = reserved \ {i}
    /\ UNCHANGED << amount, world, gotten_item, gotten_item_source, gotten_by, is_gotten,
                    trade, client >>

-----------------------------------------------------------------------------
Drag(c) ==
    \/ \E i \in Items : get_item(c, i)
    \/ WrongSerial(c)
    \/ drop_item_on_ground(c)
    \/ place_item_in_container(c)
    \/ \E j \in Stacks : add_item_to_stack(c, j)
    \/ HookDestroys(c)
    \/ Refused(c)
    \/ \E d \in Chars : equip_item(c, d)

Trade(c) ==
    \/ \E d \in Chars : open_trade_window(c, d) \/ drop_item_on_mobile(c, d)
    \/ place_item_in_secure_trade_container(c)
    \/ cancel_trade(c)
    \/ \E set \in BOOLEAN : change_trade_status(c, set)

Connection(c) ==
    \/ closeConnection(c) \/ disconnect_cleanup(c) \/ PreDelete(c)
    \/ start_client_char(c)

ScriptGives(i, c) ==
    \/ MoveItemToContainer(i, c) \/ EquipItem(i, c) \/ MoveItemToSecureTradeWin(i, c)

Script(i) ==
    \/ \E c \in Chars : ScriptGives(i, c)
    \/ internal_MoveItem(i) \/ MoveRefused(i)
    \/ \E n \in 1 .. stack_limit(i) : SubtractAmount(i, n)
    \/ ReserveItem(i)
    \/ ReleaseItem(i)

Next ==
    \/ \E c \in Chars : Drag(c) \/ Trade(c) \/ Connection(c) \/ ClearGottenItem(c)
    \/ \E i \in Items : Script(i)
    \/ cancel_all_trades

Spec == Init /\ [][Next]_vars

-----------------------------------------------------------------------------
TypeOK ==
    /\ amount \in [Items -> Nat]
    /\ world \in [container : [Items -> Places],          \* Item::container
                  contents  : [Places -> SUBSET Items]]  \* UContainer::contents_, Zone::items
    /\ gotten_item \in [Chars -> Items \cup {None}]
    /\ gotten_item_source \in [Chars -> {"ground", "equipped", "container"}]
    /\ gotten_by \in [Items -> Chars \cup {None}]
    /\ is_gotten \subseteq Items /\ inuse \subseteq Items /\ reserved \subseteq Items
    /\ trading_with \in [Chars -> Chars \cup {None}]
    /\ trade_accepted \in [Chars -> BOOLEAN]
    /\ client \in [Chars -> {"playing", "closing", "lingering", "none"}]

ListedIn(i) == {k \in Places : i \in world.contents[k]}
HeldBy(i) == {c \in Chars : gotten_item[c] = i}

\* An item that exists is on the ground, in one container or in one hand.
InOnePlace(i) ==
    Cardinality(ListedIn(i)) + Cardinality(HeldBy(i))
       = IF amount[i] > 0 THEN 1 ELSE 0

\* It knows its container, and whether it is in a hand; and only what is in a hand or
\* reserved is in use, so that nothing stays so for ever.  (The flag alone says little:
\* what is reserved or in a hand need not be in use, see check_test_scripts().)
RecordsAgree(i) ==
    /\ ListedIn(i) \cup {None} = {world.container[i], None}
    /\ i \in is_gotten <=> HeldBy(i) # {}
    /\ gotten_by[i] \in HeldBy(i) \cup {None}
    /\ i \in inuse => i \in is_gotten \cup reserved

(* No item is lost, doubled or in a place that does not know of it, whatever drags,
   refusals, trades, disconnects and scripts did to it, and nobody wears two things
   on one layer: what the assertions of uworld.cpp, containr.cpp and item.cpp test
   one call at a time. *)
OnePlace ==
    /\ \A i \in Items : InOnePlace(i) /\ RecordsAgree(i)
    /\ \A c \in Chars : Cardinality(world.contents[Worn(c)]) <= 1

(* Two characters trade with each other or not at all, both have a client that the
   trade's packets can be sent to, and a character who does not trade has nothing left
   in his trade container, where neither he nor a save would find it. *)
TradesAgree ==
    \A c \in Chars :
       IF is_trading(c)
       THEN trading_with[c] # c /\ trading_with[trading_with[c]] = c /\ HasClient(c)
       ELSE world.contents[Offer(c)] = {}

Goods(c) == [i \in world.contents[Offer(c)] |-> amount[i]]

\* Whose container or hand the item is in.
Owner(i) == IF world.container[i] # None THEN world.container[i][2] ELSE gotten_by[i]

(* Who has accepted a trade has accepted these goods: neither side's change while the
   acceptance stands. And what a character has in his containers becomes another's only
   in a trade that both have accepted, or by a script. *)
AcceptedAsOffered ==
    [][/\ \A c \in Chars :
             trade_accepted[c] /\ trade_accepted'[c] /\ is_trading(c)
             /\ trading_with'[c] = trading_with[c]
                => Goods(c)' = Goods(c) /\ Goods(trading_with[c])' = Goods(trading_with[c])
       /\ \A i \in Items :
             world.container[i] \notin {None, world.container'[i]}
             /\ Owner(i)' \notin {Owner(i), None} =>
                \/ /\ trading_with[Owner(i)] = Owner(i)'
                   /\ \A c \in {Owner(i), Owner(i)'} : trade_accepted'[c]
                   /\ \E c \in {Owner(i), Owner(i)'} : trade_accepted[c]
                \/ \E c \in Chars : c = Owner(i)' /\ ScriptGives(i, c)]_vars

Total == MapThenSumSet(LAMBDA i : amount[i], Items)

(* Lifting parts of stacks and dropping them on others neither makes nor loses any:
   only scripts do. *)
Conserved ==
    [][\/ UNCHANGED amount
       \/ Total' = Total
       \/ \E i \in Items : /\ amount'[i] < amount[i]
                            /\ SubtractAmount(i, amount[i] - amount'[i])
       \/ \E c \in Chars : HookDestroys(c)]_vars
=============================================================================
