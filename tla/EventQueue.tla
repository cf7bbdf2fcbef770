------------------------------ MODULE EventQueue ------------------------------
(***************************************************************************)
(* The event queue of one script (OSExecutorModule, module/osmod.cpp) and  *)
(* what it shares with the script's other waits: blocked_, wait_type, its  *)
(* place in a hold list, and the top of its value stack, which is where an *)
(* event that ends a wait is put.  Everybody holds PolLock, so that a call *)
(* is a step.  An event is the number of its arrival.                      *)
(***************************************************************************)
EXTENDS Naturals, Sequences, FiniteSets

CONSTANTS MaxEvents,    \* bound: how many events are sent
          Sizes,        \* what the script passes to set_event_queue_size()
          DefaultSize,  \* MAX_EVENTQUEUE_SIZE
          FullNPC       \* whether NPC::send_event() finds full queues that refuse

Events == 1..MaxEvents

ASSUME EventAssumption ==
    MaxEvents \in Nat /\ Sizes \subseteq Nat /\ DefaultSize \in Nat \ {0}
    /\ FullNPC \in BOOLEAN

VARIABLES events,               \* events_
          max_eventqueue_size,
          discard_old_events,   \* the setting of pol.cfg
          blocked, wait_type,   \* blocked_, wait_type
          in_hold_list,         \* in_hold_list_: "none", "timeout", "notimeout"
          error,                \* the executor's error flag
          at,                   \* where the script is: "run", in "wait" or "sleep", "ended"
          value,                \* ValueStack.back() while it is in one of them: an event or 0
          sent,                 \* history: the events sent,
          taken,                \*   those that wait_for_event() returned, in that order,
          freed                 \*   how often each has been released

settings == << max_eventqueue_size, discard_old_events >>
waits    == << blocked, wait_type, in_hold_list >>
script   == << error, at, value >>
vars     == << events, settings, waits, script, sent, taken, freed >>

Init ==
    /\ events = << >>
    /\ max_eventqueue_size = DefaultSize
    /\ discard_old_events \in BOOLEAN
    /\ blocked = FALSE /\ wait_type = "unknown" /\ in_hold_list = "none"
    /\ error = FALSE /\ at = "run" /\ value = 0
    /\ sent = 0 /\ taken = << >> /\ freed = [e \in Events |-> 0]

-----------------------------------------------------------------------------
(* Waking the script.                                                      *)

\* Back to the run list, from whichever list.
revive ==
    /\ blocked' = FALSE /\ in_hold_list' = "none"
    /\ UNCHANGED wait_type

Waiting == blocked /\ wait_type = "event"

Full == Len(events) >= max_eventqueue_size

Release(S, times) == freed' = [e \in Events |-> freed[e] + IF e \in S THEN times ELSE 0]

queue_event(e, releases) ==
    \/ /\ ~Full
       /\ events' = Append(events, e)
       /\ UNCHANGED freed
    \/ /\ Full /\ discard_old_events
       /\ events' = Append(Tail(events), e)
       /\ Release({Head(events)}, 1)
    \/ /\ Full /\ ~discard_old_events
       /\ Release({e}, releases)
       /\ UNCHANGED events

\* Bug: answers whatever the script waits for.
signal_eventAnswersAll(e, releases) ==
    \/ /\ blocked
       /\ value' = e
       /\ revive
       /\ UNCHANGED << events, freed >>
    \/ /\ ~blocked
       /\ queue_event(e, releases)
       /\ UNCHANGED << value, waits >>

\* A refused event is released releases times: once here, and once more by
\* NPC::send_event() and send_event_script().
signal_event(e, releases) ==
    \/ /\ Waiting
       /\ value' = e
       /\ revive
       /\ UNCHANGED << events, freed >>
    \/ /\ ~Waiting
       /\ queue_event(e, releases)
       /\ UNCHANGED << value, waits >>

Signal(releases) ==
    /\ sent < MaxEvents /\ at # "ended"
    /\ sent' = sent + 1
    /\ signal_event(sent', releases)
    /\ UNCHANGED << settings, error, at, taken >>

\* sendevent() of a script object, speech, a line for an aux script.
Send == Signal(1)

\* An NPC's events.  Left out unless FullNPC: a refused event is released twice.
NPCSend ==
    /\ FullNPC \/ Waiting \/ ~Full \/ discard_old_events
    /\ Signal(2)

\* Bug: forgets the scripts that wait for an event.
check_blockedSleepers ==
    /\ in_hold_list = "timeout" /\ wait_type = "sleep"
    /\ revive
    /\ UNCHANGED << events, settings, script, sent, taken, freed >>

\* The time is over.
check_blocked ==
    /\ in_hold_list = "timeout"
    /\ revive
    /\ UNCHANGED << events, settings, script, sent, taken, freed >>

\* Whoever has suspend()ed the script has its answer: it is no event.
Answer ==
    /\ in_hold_list = "notimeout"
    /\ revive
    /\ UNCHANGED << events, settings, script, sent, taken, freed >>

\* kill() of a script object.
Kill ==
    /\ at # "ended"
    /\ error' = TRUE
    /\ revive
    /\ UNCHANGED << events, settings, at, value, sent, taken, freed >>

-----------------------------------------------------------------------------
(* The script.                                                             *)

\* The call has left 0 on the stack, and run_ready() puts the script aside.
Block(type, list) ==
    /\ blocked' = TRUE /\ wait_type' = type /\ in_hold_list' = list
    /\ value' = 0

\* Bug: takes the newest.
wait_for_eventNewest ==
    /\ at = "run" /\ ~error
    /\ \/ /\ events # << >>
          /\ taken' = Append(taken, events[Len(events)])
          /\ events' = SubSeq(events, 1, Len(events) - 1)
          /\ UNCHANGED << waits, at, value >>
       \/ /\ events = << >>
          /\ Block("event", "timeout") /\ at' = "wait"
          /\ UNCHANGED << events, taken >>
    /\ UNCHANGED << settings, error, sent, freed >>

\* wait_for_event( 0 ) takes an event too, and does nothing when there is none.
wait_for_event ==
    /\ at = "run" /\ ~error
    /\ \/ /\ events # << >>
          /\ taken' = Append(taken, Head(events))
          /\ events' = Tail(events)
          /\ UNCHANGED << waits, at, value >>
       \/ /\ events = << >>
          /\ Block("event", "timeout") /\ at' = "wait"
          /\ UNCHANGED << events, taken >>
    /\ UNCHANGED << settings, error, sent, freed >>

\* SleepFor(), SleepForMs(); suspend().
Sleep ==
    /\ at = "run" /\ ~error
    /\ \E list \in {"timeout", "notimeout"} : Block("sleep", list)
    /\ at' = "sleep"
    /\ UNCHANGED << events, settings, error, sent, taken, freed >>

\* run_ready() goes on with the script, which finds its result on the stack.
Resume ==
    /\ at \in {"wait", "sleep"} /\ ~blocked /\ ~error
    /\ at' = "run" /\ value' = 0
    /\ taken' = IF value # 0 THEN Append(taken, value) ELSE taken
    /\ UNCHANGED << events, settings, waits, error, sent, freed >>

InQueue == { events[i] : i \in 1..Len(events) }

\* Bug: pops the events without a BObject that releases them.
clear_event_queueLeaks ==
    /\ at # "ended"
    /\ events' = << >>
    /\ UNCHANGED << settings, waits, script, sent, taken, freed >>

\* The script, or another one that has its script object.
clear_event_queue ==
    /\ at # "ended"
    /\ events' = << >>
    /\ Release(InQueue, 1)
    /\ UNCHANGED << settings, waits, script, sent, taken >>

\* Left out: signal_event() takes the front of an empty queue.
TakesFromNothing(size, discards) == size = 0 /\ discards

set_event_queue_size ==
    /\ at = "run" /\ ~error
    /\ max_eventqueue_size' \in Sizes
    /\ ~TakesFromNothing(max_eventqueue_size', discard_old_events)
    /\ UNCHANGED << events, discard_old_events, waits, script, sent, taken, freed >>

\* Another pol.cfg.
Reconfigure ==
    /\ discard_old_events' = ~discard_old_events
    /\ ~TakesFromNothing(max_eventqueue_size, discard_old_events')
    /\ UNCHANGED << events, max_eventqueue_size, waits, script, sent, taken, freed >>

\* The script is done or has been killed: run_ready() deletes the executor.
Delete ==
    /\ at = "run" \/ (error /\ at # "ended")
    /\ at' = "ended" /\ events' = << >> /\ value' = 0
    /\ Release(InQueue \cup {value}, 1)
    /\ UNCHANGED << settings, waits, error, sent, taken >>

Others == NPCSend \/ Answer \/ Kill \/ clear_event_queue \/ Reconfigure
Script == wait_for_event \/ Sleep \/ Resume \/ set_event_queue_size \/ Delete

Next == Send \/ Others \/ check_blocked \/ Script

Spec == Init /\ [][Next]_vars

\* step_scripts() looks at the hold list and at the run list again and again.
Fairness == WF_vars(check_blocked) /\ WF_vars(Resume) /\ WF_vars(error /\ Delete)

-----------------------------------------------------------------------------
(* Properties.                                                             *)

(* The variables keep their types; a script is blocked when it is in a hold
   list, and in one of the two calls that block. *)
TypeOK ==
    /\ events \in Seq(Events)
    /\ max_eventqueue_size \in Sizes \cup {DefaultSize} /\ discard_old_events \in BOOLEAN
    /\ blocked \in BOOLEAN /\ wait_type \in {"unknown", "event", "sleep"}
    /\ in_hold_list \in {"none", "timeout", "notimeout"}
    /\ error \in BOOLEAN /\ at \in {"run", "wait", "sleep", "ended"}
    /\ value \in Events \cup {0} /\ sent \in 0..MaxEvents
    /\ taken \in Seq(Events) /\ freed \in [Events -> Nat]
    /\ blocked <=> in_hold_list # "none"
    /\ blocked => at \in {"wait", "sleep"}

(* No script sleeps in wait_for_event() beside an event in its queue: there is
   no wake-up to lose between the look at the queue and the wait. *)
WaitersHaveNone == Waiting => events = << >>

(* An event never becomes the result of another call: the result of a sleep,
   or of a call that suspend()ed the script, stays what that call has left. *)
SleepersKeepTheirResult == at = "sleep" => value = 0

\* Where an event is: in the queue, on the stack, with the script, released.
Places(e) ==
    ({"queue"} \X { i \in 1..Len(events) : events[i] = e })
      \cup ({"stack"} \X ({value} \cap {e}))
      \cup ({"script"} \X { i \in 1..Len(taken) : taken[i] = e })
      \cup ({"released"} \X (1..freed[e]))

(* Every event that was sent is in one place: in the queue, on the stack, with
   the script, or released, and released once.  No other event is anywhere. *)
Accounted == \A e \in Events : Cardinality(Places(e)) = IF e <= sent THEN 1 ELSE 0

(* The queue is the mailbox that the documentation describes: the hold lists,
   the wait type and the value stack are not to be seen. *)
Reader == CASE at = "ended" -> "gone"
            [] at = "wait" /\ (blocked \/ value # 0) -> "waiting"
            [] at = "wait" /\ ~(blocked \/ value # 0) -> "late"
            [] OTHER -> "away"

Box == INSTANCE Mailbox WITH Limits <- Sizes, DefaultLimit <- DefaultSize,
           sent <- sent, box <- events, limit <- max_eventqueue_size,
           oldest <- discard_old_events, reader <- Reader, answer <- value,
           taken <- taken
AsPromised == Box!Spec

(* A script that waits for an event goes on: with the event, or when its time
   is over, or to its end. *)
WaitsEnd == at = "wait" ~> at # "wait"
=============================================================================
