------------------------------- MODULE Mailbox -------------------------------
(***************************************************************************)
(* What the scripting documentation (osem.xml, Wait_For_Event and          *)
(* Set_Event_Queue_Size; configfiles.xml, DiscardOldEvents) promises a     *)
(* script about its events, without the scheduler, its hold lists and the  *)
(* value stack: a reader that waits is answered by the next event and by   *)
(* no later one, events come in the order in which they were sent, and     *)
(* only a full box or the reader's own wish loses any.                     *)
(***************************************************************************)
EXTENDS Naturals, Sequences

CONSTANTS Limits,       \* the sizes a reader may ask for
          DefaultLimit

VARIABLES sent,   \* how many events have been sent; an event is its number
          box,    \* those that wait to be read
          limit,  \* how many the box keeps
          oldest, \* a full box discards its oldest event, not the new one
          reader, \* "away", "waiting", "late" or "gone"
          answer, \* the event that a waiting reader is answered with, or 0
          taken   \* the events that the reader has got, in that order

vars == << sent, box, limit, oldest, reader, answer, taken >>

Init ==
    /\ sent = 0 /\ box = << >> /\ limit = DefaultLimit /\ oldest \in BOOLEAN
    /\ reader = "away" /\ answer = 0 /\ taken = << >>

Unanswered == reader = "waiting" /\ answer = 0

\* Where an event goes: to the reader that waits for it, into the box, or nowhere.
Keep(e) ==
    \/ Unanswered /\ answer' = e /\ UNCHANGED box
    \/ /\ ~Unanswered
       /\ \/ Len(box) < limit /\ box' = Append(box, e)
          \/ Len(box) >= limit /\ oldest /\ box' = Append(Tail(box), e)
          \/ Len(box) >= limit /\ ~oldest /\ UNCHANGED box
       /\ UNCHANGED answer

Arrive ==
    /\ reader # "gone"
    /\ sent' = sent + 1
    /\ Keep(sent')
    /\ UNCHANGED << limit, oldest, reader, taken >>

\* "If there is an event waiting, the function immediately returns with the event".
Take ==
    /\ reader = "away" /\ box # << >>
    /\ taken' = Append(taken, Head(box)) /\ box' = Tail(box)
    /\ UNCHANGED << sent, limit, oldest, reader, answer >>

\* "If no event is waiting, the script sleeps ... until a new event arrives."
Wait ==
    /\ reader = "away" /\ box = << >>
    /\ reader' = "waiting"
    /\ UNCHANGED << sent, box, limit, oldest, answer, taken >>

\* "If the timeout is reached, the function returns 0."
Expire ==
    /\ Unanswered
    /\ reader' = "late"
    /\ UNCHANGED << sent, box, limit, oldest, answer, taken >>

Return ==
    /\ \/ reader = "waiting" /\ answer # 0 /\ taken' = Append(taken, answer)
       \/ reader = "late" /\ UNCHANGED taken
    /\ reader' = "away" /\ answer' = 0
    /\ UNCHANGED << sent, box, limit, oldest >>

Clear ==
    /\ box' = << >>
    /\ UNCHANGED << sent, limit, oldest, reader, answer, taken >>

Resize ==
    /\ reader = "away"
    /\ limit' \in Limits
    /\ UNCHANGED << sent, box, oldest, reader, answer, taken >>

Reconfigure ==
    /\ oldest' \in BOOLEAN
    /\ UNCHANGED << sent, box, limit, reader, answer, taken >>

Leave ==
    /\ reader' = "gone" /\ box' = << >> /\ answer' = 0
    /\ UNCHANGED << sent, limit, oldest, taken >>

Next == \/ Arrive \/ Take \/ Wait \/ Expire \/ Return
        \/ Clear \/ Resize \/ Reconfigure \/ Leave

Spec == Init /\ [][Next]_vars
=============================================================================
