--------------------------- MODULE EventQueueProofs ---------------------------
(***************************************************************************)
(* Proofs about EventQueue, for any number of events and any sizes of the  *)
(* queue: its types, the two invariants about waits, that every event is   *)
(* in one place, and that it implements Mailbox.  All rest on one          *)
(* inductive invariant, which ties the script's place, the kind of its     *)
(* wait, its hold list and its result to each other.  At the end, about    *)
(* AuxClient: a connection is one of the queue's environments, so that all *)
(* of this holds beside its thread.                                        *)
(***************************************************************************)
EXTENDS AuxClient, FiniteSetTheorems, SequenceTheorems, TLAPS

(* What a blocked script waits for is what its place says. *)
WaitsAsPlaced ==
    blocked => /\ ~error
               /\ value = 0
               /\ at = "wait" => wait_type = "event" /\ in_hold_list = "timeout"
               /\ at = "sleep" => wait_type = "sleep"

(* A result other than 0 is an event that has ended a wait_for_event(). *)
ResultsOfWaits == value # 0 => at = "wait"

(* A queue that holds nothing never discards its oldest event. *)
FrontToDiscard == max_eventqueue_size = 0 => ~discard_old_events

(* Once the script has ended nothing is queued. *)
EndedEmpty == at = "ended" => events = << >>

IInv == /\ TypeOK /\ WaitersHaveNone
        /\ WaitsAsPlaced /\ ResultsOfWaits /\ FrontToDiscard /\ EndedEmpty

-----------------------------------------------------------------------------
(* The helpers.                                                            *)

(* Releasing events keeps their count a function to the naturals. *)
LEMMA ReleaseType ==
    ASSUME NEW S, NEW n \in Nat, freed \in [Events -> Nat], Release(S, n)
    PROVE  freed' \in [Events -> Nat]
<1>1. \A e \in Events : freed[e] + (IF e \in S THEN n ELSE 0) \in Nat
  OBVIOUS
<1> QED
  BY <1>1 DEF Release

(* A queue that discards its oldest event has one to discard. *)
LEMMA QueueType ==
    ASSUME IInv, NEW e \in Events, NEW n \in Nat, queue_event(e, n)
    PROVE  events' \in Seq(Events) /\ freed' \in [Events -> Nat]
<1>1. events \in Seq(Events) /\ freed \in [Events -> Nat] /\ max_eventqueue_size \in Nat
  BY EventAssumption DEF IInv, TypeOK
<1>2. CASE ~Full /\ events' = Append(events, e) /\ UNCHANGED freed
  BY <1>1, <1>2
<1>3. CASE Full /\ discard_old_events /\ events' = Append(Tail(events), e)
           /\ Release({Head(events)}, 1)
  <2>1. events # << >>
    BY <1>1, <1>3 DEF Full, IInv, FrontToDiscard
  <2>2. Tail(events) \in Seq(Events)
    BY <1>1, <2>1
  <2> QED
    BY <1>1, <1>3, <2>2, ReleaseType
<1>4. CASE Full /\ ~discard_old_events /\ Release({e}, n) /\ UNCHANGED events
  BY <1>1, <1>4, ReleaseType
<1> QED
  BY <1>2, <1>3, <1>4 DEF queue_event

-----------------------------------------------------------------------------
(* The invariant.                                                          *)

(* An event that arrives ends the wait for one, or is queued beside none. *)
LEMMA SignalKeeps ==
    ASSUME IInv, NEW n \in Nat, Signal(n)
    PROVE  IInv'
<1>1. sent' \in Events /\ sent' \in 0..MaxEvents
  BY EventAssumption DEF IInv, TypeOK, Signal, Events
<1>2. CASE Waiting /\ value' = sent' /\ revive /\ UNCHANGED << events, freed >>
  <2>1. at = "wait"
    BY <1>2 DEF IInv, TypeOK, WaitsAsPlaced, Waiting
  <2>2. ~Waiting'
    BY <1>2 DEF revive, Waiting
  <2>3. TypeOK'
    BY <1>1, <1>2 DEF IInv, TypeOK, Signal, revive, settings
  <2> QED
    BY <1>1, <1>2, <2>1, <2>2, <2>3
       DEF IInv, WaitersHaveNone, WaitsAsPlaced, ResultsOfWaits, FrontToDiscard, EndedEmpty,
           Signal, revive, settings
<1>3. CASE ~Waiting /\ queue_event(sent', n) /\ UNCHANGED << value, waits >>
  <2>1. events' \in Seq(Events) /\ freed' \in [Events -> Nat]
    BY <1>1, <1>3, QueueType
  <2>2. TypeOK'
    BY <1>1, <1>3, <2>1 DEF IInv, TypeOK, Signal, settings, waits
  <2> QED
    BY <1>3, <2>2
       DEF IInv, WaitersHaveNone, WaitsAsPlaced, ResultsOfWaits, FrontToDiscard, EndedEmpty,
           Signal, settings, waits, Waiting
<1> QED
  BY <1>2, <1>3 DEF Signal, signal_event

(* Whatever wakes the script leaves what it has been given. *)
LEMMA ReviveKeeps ==
    ASSUME IInv, revive, UNCHANGED << events, settings, at, value, sent, taken, freed >>,
           error' \in BOOLEAN
    PROVE  IInv'
<1>1. TypeOK'
  BY DEF IInv, TypeOK, revive, settings
<1> QED
  BY <1>1 DEF IInv, WaitersHaveNone, WaitsAsPlaced, ResultsOfWaits, FrontToDiscard, EndedEmpty,
              Waiting, revive, settings

(* The script starts to wait only after it has found its queue empty. *)
LEMMA WaitKeeps ==
    ASSUME IInv, wait_for_event
    PROVE  IInv'
<1>0. at = "run" /\ ~error /\ UNCHANGED << settings, error, sent, freed >>
  BY DEF wait_for_event
<1>1. CASE events # << >> /\ taken' = Append(taken, Head(events)) /\ events' = Tail(events)
           /\ UNCHANGED << waits, at, value >>
  <2>1. events' \in Seq(Events) /\ taken' \in Seq(Events)
    <3>1. Head(events) \in Events /\ Tail(events) \in Seq(Events)
      BY <1>1 DEF IInv, TypeOK
    <3> QED
      BY <1>1, <3>1 DEF IInv, TypeOK
  <2>2. TypeOK'
    BY <1>0, <1>1, <2>1 DEF IInv, TypeOK, settings, waits
  <2>3. ~blocked
    BY <1>0 DEF IInv, TypeOK
  <2> QED
    BY <1>0, <1>1, <2>2, <2>3
       DEF IInv, WaitersHaveNone, WaitsAsPlaced, ResultsOfWaits, FrontToDiscard, EndedEmpty,
           Waiting, settings, waits
<1>2. CASE events = << >> /\ Block("event", "timeout") /\ at' = "wait" /\ UNCHANGED << events, taken >>
  <2>1. TypeOK'
    BY <1>0, <1>2 DEF IInv, TypeOK, Block, settings
  <2> QED
    BY <1>0, <1>2, <2>1
       DEF IInv, WaitersHaveNone, WaitsAsPlaced, ResultsOfWaits, FrontToDiscard, EndedEmpty,
           Waiting, Block, settings
<1> QED
  BY <1>1, <1>2 DEF wait_for_event

(* The other steps of the script. *)
LEMMA ScriptKeeps ==
    ASSUME IInv, Script
    PROVE  IInv'
<1>1. CASE wait_for_event
  BY <1>1, WaitKeeps
<1>2. CASE Sleep
  <2>1. TypeOK'
    BY <1>2 DEF IInv, TypeOK, Sleep, Block, settings
  <2> QED
    BY <1>2, <2>1
       DEF IInv, WaitersHaveNone, WaitsAsPlaced, ResultsOfWaits, FrontToDiscard, EndedEmpty,
           Waiting, Sleep, Block, settings
<1>3. CASE Resume
  <2>1. taken' \in Seq(Events)
    BY <1>3 DEF IInv, TypeOK, Resume
  <2>2. TypeOK'
    BY <1>3, <2>1 DEF IInv, TypeOK, Resume, settings, waits
  <2> QED
    BY <1>3, <2>2
       DEF IInv, WaitersHaveNone, WaitsAsPlaced, ResultsOfWaits, FrontToDiscard, EndedEmpty,
           Waiting, Resume, settings, waits
<1>4. CASE set_event_queue_size
  <2>1. TypeOK'
    BY <1>4 DEF IInv, TypeOK, set_event_queue_size, waits, script
  <2> QED
    BY <1>4, <2>1
       DEF IInv, WaitersHaveNone, WaitsAsPlaced, ResultsOfWaits, FrontToDiscard, EndedEmpty,
           Waiting, set_event_queue_size, TakesFromNothing, waits, script
<1>5. CASE Delete
  <2>1. freed' \in [Events -> Nat]
    BY <1>5, ReleaseType DEF IInv, TypeOK, Delete
  <2>2. ~blocked
    BY <1>5 DEF IInv, TypeOK, WaitsAsPlaced, Delete
  <2>3. TypeOK'
    BY <1>5, <2>1, <2>2 DEF IInv, TypeOK, Delete, settings, waits
  <2> QED
    BY <1>5, <2>2, <2>3
       DEF IInv, WaitersHaveNone, WaitsAsPlaced, ResultsOfWaits, FrontToDiscard, EndedEmpty,
           Waiting, Delete, settings, waits
<1> QED
  BY <1>1, <1>2, <1>3, <1>4, <1>5 DEF Script

(* The steps of others. *)
LEMMA OthersKeep ==
    ASSUME IInv, Others
    PROVE  IInv'
<1>1. CASE NPCSend
  BY <1>1, SignalKeeps DEF NPCSend
<1>2. CASE Answer
  <2>1. error' \in BOOLEAN
    BY <1>2 DEF IInv, TypeOK, Answer, script
  <2> QED
    BY <1>2, <2>1, ReviveKeeps DEF Answer, script
<1>3. CASE Kill
  BY <1>3, ReviveKeeps DEF Kill
<1>4. CASE clear_event_queue
  <2>1. freed' \in [Events -> Nat]
    BY <1>4, ReleaseType DEF IInv, TypeOK, clear_event_queue
  <2>2. TypeOK'
    BY <1>4, <2>1 DEF IInv, TypeOK, clear_event_queue, settings, waits, script
  <2> QED
    BY <1>4, <2>2
       DEF IInv, WaitersHaveNone, WaitsAsPlaced, ResultsOfWaits, FrontToDiscard, EndedEmpty,
           Waiting, clear_event_queue, settings, waits, script
<1>5. CASE Reconfigure
  <2>1. TypeOK'
    BY <1>5 DEF IInv, TypeOK, Reconfigure, waits, script
  <2> QED
    BY <1>5, <2>1
       DEF IInv, WaitersHaveNone, WaitsAsPlaced, ResultsOfWaits, FrontToDiscard, EndedEmpty,
           Waiting, Reconfigure, TakesFromNothing, waits, script
<1> QED
  BY <1>1, <1>2, <1>3, <1>4, <1>5 DEF Others

LEMMA InitInv == Init => IInv
<1> SUFFICES ASSUME Init PROVE IInv
  OBVIOUS
<1>1. events \in Seq(Events) /\ taken \in Seq(Events) /\ freed \in [Events -> Nat]
  BY DEF Init
<1>2. sent \in 0..MaxEvents
  BY EventAssumption DEF Init
<1>3. TypeOK
  BY <1>1, <1>2 DEF Init, TypeOK
<1> QED
  BY <1>3, EventAssumption
     DEF Init, IInv, WaitersHaveNone, WaitsAsPlaced, ResultsOfWaits, FrontToDiscard, EndedEmpty,
         Waiting

LEMMA NextInv == IInv /\ [Next]_vars => IInv'
<1> SUFFICES ASSUME IInv, [Next]_vars PROVE IInv'
  OBVIOUS
<1>1. CASE Send
  BY <1>1, SignalKeeps DEF Send
<1>2. CASE Others
  BY <1>2, OthersKeep
<1>3. CASE check_blocked
  <2>1. error' \in BOOLEAN
    BY <1>3 DEF IInv, TypeOK, check_blocked, script
  <2> QED
    BY <1>3, <2>1, ReviveKeeps DEF check_blocked, script
<1>4. CASE Script
  BY <1>4, ScriptKeeps
<1>5. CASE UNCHANGED vars
  <2>1. TypeOK'
    BY <1>5 DEF IInv, TypeOK, vars, settings, waits, script
  <2> QED
    BY <1>5, <2>1
       DEF IInv, WaitersHaveNone, WaitsAsPlaced, ResultsOfWaits, FrontToDiscard, EndedEmpty,
           Waiting, vars, settings, waits, script
<1> QED
  BY <1>1, <1>2, <1>3, <1>4, <1>5 DEF Next

(* The script's place, the kind of its wait, its hold list and its result agree,
   whoever sends, kills, clears, resizes or reconfigures in whatever order. *)
THEOREM Invariant == Spec => []IInv
BY InitInv, NextInv, PTL DEF Spec

(* The variables of the queue keep their types. *)
THEOREM QueueTypeCorrect == Spec => []TypeOK
<1>1. IInv => TypeOK
  BY DEF IInv
<1> QED
  BY <1>1, Invariant, PTL

(* No script sleeps in wait_for_event() beside an event in its queue. *)
THEOREM NoWaitBesideEvents == Spec => []WaitersHaveNone
<1>1. IInv => WaitersHaveNone
  BY DEF IInv
<1> QED
  BY <1>1, Invariant, PTL

(* No event becomes the result of a sleep or of a suspended call. *)
THEOREM ResultsKept == Spec => []SleepersKeepTheirResult
<1>1. IInv => SleepersKeepTheirResult
  BY DEF IInv, ResultsOfWaits, SleepersKeepTheirResult
<1> QED
  BY <1>1, Invariant, PTL
-----------------------------------------------------------------------------
(* Every event is in one place.                                            *)

In(q, e) == \E i \in 1..Len(q) : q[i] = e
Once(q) == \A i, j \in 1..Len(q) : q[i] = q[j] => i = j

(* place is the place of each event, of those that are still to be sent "none".
   No event is twice in the queue or twice with the script. *)
KeptAt(place, queue, stack, script_has, releases, last) ==
    /\ place \in [Events -> {"none", "queue", "stack", "script", "released"}]
    /\ Once(queue) /\ Once(script_has)
    /\ \A e \in Events :
          /\ place[e] = "none" <=> e > last
          /\ place[e] = "queue" <=> In(queue, e)
          /\ place[e] = "stack" <=> stack = e
          /\ place[e] = "script" <=> In(script_has, e)
          /\ releases[e] = IF place[e] = "released" THEN 1 ELSE 0

Kept(place) == KeptAt(place, events, value, taken, freed, sent)
AllKept == \E place : Kept(place)
AllKeptNext == \E place : KeptAt(place, events', value', taken', freed', sent')

LEMMA AllKeptNow == AllKept' <=> AllKeptNext
BY DEF AllKept, AllKeptNext, Kept, KeptAt, Once, In

(* What a queue holds after an event has come or gone. *)
LEMMA Appended ==
    ASSUME NEW q \in Seq(Events), NEW e \in Events, Once(q), ~In(q, e)
    PROVE  /\ Once(Append(q, e))
           /\ \A x : In(Append(q, e), x) <=> x = e \/ In(q, x)
<1> DEFINE r == Append(q, e)
<1>1. /\ Len(r) = Len(q) + 1 /\ r[Len(q) + 1] = e /\ Len(q) \in Nat
      /\ \A i \in 1..Len(q) : r[i] = q[i]
  BY AppendProperties
<1> HIDE DEF r
<1>2. Once(r)
  BY <1>1 DEF Once, In
<1>3. \A x : In(r, x) <=> x = e \/ In(q, x)
  BY <1>1 DEF In
<1> QED
  BY <1>2, <1>3 DEF r

LEMMA Shifted ==
    ASSUME NEW q \in Seq(Events), Once(q), q # << >>
    PROVE  /\ Once(Tail(q)) /\ In(q, Head(q)) /\ Head(q) \in Events
           /\ \A x : In(Tail(q), x) <=> x # Head(q) /\ In(q, x)
<1> DEFINE r == Tail(q)
<1>1. /\ Len(r) = Len(q) - 1 /\ Len(q) \in Nat \ {0} /\ Head(q) = q[1]
      /\ \A i \in 1..(Len(q) - 1) : r[i] = q[i + 1]
  BY HeadTailProperties, EmptySeq, LenProperties
<1>2. In(q, Head(q)) /\ Head(q) \in Events
  BY <1>1, ElementOfSeq DEF In
<1> HIDE DEF r
<1>3. Once(r)
  BY <1>1 DEF Once
<1>4. ASSUME NEW x PROVE In(r, x) <=> x # Head(q) /\ In(q, x)
  <2>1. ASSUME In(r, x) PROVE x # Head(q) /\ In(q, x)
    BY <1>1, <2>1 DEF In, Once
  <2>2. ASSUME x # Head(q), In(q, x) PROVE In(r, x)
    <3>1. PICK i \in 1..Len(q) : q[i] = x
      BY <2>2 DEF In
    <3>2. i - 1 \in 1..(Len(q) - 1) /\ r[i - 1] = q[(i - 1) + 1] /\ (i - 1) + 1 = i
      BY <1>1, <2>2, <3>1
    <3> QED
      BY <1>1, <3>1, <3>2 DEF In
  <2> QED
    BY <2>1, <2>2
<1> QED
  BY <1>2, <1>3, <1>4 DEF r

LEMMA NoneIn == Once(<< >>) /\ \A x : ~In(<< >>, x)
BY DEF Once, In

(* In exactly one place: the sets of places have one member altogether. *)
LEMMA KeptAccounted ==
    ASSUME IInv, AllKept
    PROVE  Accounted
<1>1. PICK place : Kept(place)
  BY DEF AllKept
<1> SUFFICES ASSUME NEW e \in Events
             PROVE  Cardinality(Places(e)) = IF e <= sent THEN 1 ELSE 0
  BY DEF Accounted
<1> DEFINE Q == { i \in 1..Len(events) : events[i] = e }
           V == {value} \cap {e}
           T == { i \in 1..Len(taken) : taken[i] = e }
           F == 1..freed[e]
<1>0. Places(e) = ({"queue"} \X Q) \cup ({"stack"} \X V) \cup ({"script"} \X T)
                    \cup ({"released"} \X F)
  BY DEF Places
<1>2. /\ place[e] \in {"none", "queue", "stack", "script", "released"}
      /\ place[e] = "none" <=> e > sent
  BY <1>1 DEF Kept, KeptAt
<1>3. place[e] # "queue" => Q = {}
  BY <1>1 DEF Kept, KeptAt, In
<1>4. place[e] # "stack" => V = {}
  BY <1>1 DEF Kept, KeptAt
<1>5. place[e] # "script" => T = {}
  BY <1>1 DEF Kept, KeptAt, In
<1>6. place[e] # "released" => F = {}
  <2>1. place[e] # "released" => freed[e] = 0
    BY <1>1 DEF Kept, KeptAt
  <2> QED
    BY <2>1
<1>7. place[e] = "queue" => \E i : Q = {i}
  <2>1. ASSUME place[e] = "queue" PROVE \E i : Q = {i}
    <3>1. PICK i \in 1..Len(events) : events[i] = e
      BY <1>1, <2>1 DEF Kept, KeptAt, In
    <3>2. Q = {i}
      BY <1>1, <3>1 DEF Kept, KeptAt, Once
    <3> QED
      BY <3>2
  <2> QED
    BY <2>1
<1>8. place[e] = "stack" => \E i : V = {i}
  BY <1>1 DEF Kept, KeptAt
<1>9. place[e] = "script" => \E i : T = {i}
  <2>1. ASSUME place[e] = "script" PROVE \E i : T = {i}
    <3>1. PICK i \in 1..Len(taken) : taken[i] = e
      BY <1>1, <2>1 DEF Kept, KeptAt, In
    <3>2. T = {i}
      BY <1>1, <3>1 DEF Kept, KeptAt, Once
    <3> QED
      BY <3>2
  <2> QED
    BY <2>1
<1>10. place[e] = "released" => \E i : F = {i}
  <2>1. place[e] = "released" => freed[e] = 1
    BY <1>1 DEF Kept, KeptAt
  <2>2. 1..1 = {1}
    OBVIOUS
  <2> QED
    BY <2>1, <2>2
<1>11. e \in Nat /\ sent \in Nat
  BY EventAssumption DEF Events, IInv, TypeOK
<1> HIDE DEF Q, V, T, F
<1>12. CASE place[e] = "none"
  <2>1. Places(e) = {}
    BY <1>0, <1>3, <1>4, <1>5, <1>6, <1>12
  <2> QED
    BY <1>2, <1>11, <1>12, <2>1, FS_EmptySet
<1>13. CASE place[e] # "none"
  <2>1. \E p : Places(e) = {p}
    <3>1. CASE place[e] = "queue"
      <4>1. PICK i : Q = {i}
        BY <1>7, <3>1
      <4>2. Places(e) = {<< "queue", i >>}
        BY <1>0, <1>4, <1>5, <1>6, <3>1, <4>1
      <4> QED
        BY <4>2
    <3>2. CASE place[e] = "stack"
      <4>1. PICK i : V = {i}
        BY <1>8, <3>2
      <4>2. Places(e) = {<< "stack", i >>}
        BY <1>0, <1>3, <1>5, <1>6, <3>2, <4>1
      <4> QED
        BY <4>2
    <3>3. CASE place[e] = "script"
      <4>1. PICK i : T = {i}
        BY <1>9, <3>3
      <4>2. Places(e) = {<< "script", i >>}
        BY <1>0, <1>3, <1>4, <1>6, <3>3, <4>1
      <4> QED
        BY <4>2
    <3>4. CASE place[e] = "released"
      <4>1. PICK i : F = {i}
        BY <1>10, <3>4
      <4>2. Places(e) = {<< "released", i >>}
        BY <1>0, <1>3, <1>4, <1>5, <3>4, <4>1
      <4> QED
        BY <4>2
    <3> QED
      BY <1>2, <1>13, <3>1, <3>2, <3>3, <3>4
  <2>2. Cardinality(Places(e)) = 1
    BY <2>1, FS_Singleton
  <2> QED
    BY <1>2, <1>11, <1>13, <2>2
<1> QED
  BY <1>12, <1>13

(* An event that is released leaves the place where it was. *)
LEMMA ReleaseKeeps ==
    ASSUME IInv, NEW place, Kept(place), NEW S,
           \A e \in Events : e \in S => place[e] \in {"queue", "stack"},
           Release(S, 1)
    PROVE  \A e \in Events : freed'[e] = IF e \in S \/ place[e] = "released" THEN 1 ELSE 0
<1> SUFFICES ASSUME NEW e \in Events
             PROVE  freed'[e] = IF e \in S \/ place[e] = "released" THEN 1 ELSE 0
  OBVIOUS
<1>1. freed'[e] = freed[e] + IF e \in S THEN 1 ELSE 0
  BY DEF Release
<1>2. freed[e] = IF place[e] = "released" THEN 1 ELSE 0
  BY DEF Kept, KeptAt
<1> QED
  BY <1>1, <1>2

(* A new event is taken up, queued, or released at once. *)
LEMMA SignalKept ==
    ASSUME IInv, AllKept, NEW n \in Nat, Signal(n), n = 1 \/ Waiting \/ ~Full \/ discard_old_events
    PROVE  AllKept'
<1>1. PICK place : Kept(place)
  BY DEF AllKept
<1> DEFINE e == sent'
<1>2. /\ e \in Events /\ e > sent /\ sent \in Nat /\ taken' = taken /\ place[e] = "none"
      /\ \A x \in Events : x > sent' <=> x > sent /\ x # e
  BY <1>1, EventAssumption DEF IInv, TypeOK, Signal, Events, Kept, KeptAt
<1>3. ~In(events, e) /\ ~In(taken, e) /\ value # e /\ freed[e] = 0
  BY <1>1, <1>2 DEF Kept, KeptAt
<1>4. events \in Seq(Events) /\ Once(events) /\ Once(taken)
  BY <1>1 DEF IInv, TypeOK, Kept, KeptAt
<1>5. /\ place \in [Events -> {"none", "queue", "stack", "script", "released"}]
      /\ \A x \in Events :
            /\ place[x] = "none" <=> x > sent
            /\ place[x] = "queue" <=> In(events, x)
            /\ place[x] = "stack" <=> value = x
            /\ place[x] = "script" <=> In(taken, x)
            /\ freed[x] = IF place[x] = "released" THEN 1 ELSE 0
  BY <1>1 DEF Kept, KeptAt
<1> HIDE DEF e
<1>6. CASE Waiting /\ value' = e /\ UNCHANGED << events, freed >>
  <2>1. value = 0
    BY <1>6 DEF IInv, WaitsAsPlaced, Waiting
  <2>2. \A x \in Events : x # 0
    BY DEF Events
  <2> DEFINE new == [place EXCEPT ![e] = "stack"]
  <2>3. KeptAt(new, events', value', taken', freed', sent')
    BY <1>2, <1>3, <1>4, <1>5, <1>6, <2>1, <2>2 DEF Kept, KeptAt
  <2> QED
    BY <2>3, AllKeptNow DEF AllKeptNext
<1>7. CASE value' = value /\ ~Full /\ events' = Append(events, e) /\ freed' = freed
  <2>1. /\ Once(events')
        /\ \A x : In(events', x) <=> x = e \/ In(events, x)
    BY <1>2, <1>3, <1>4, <1>7, Appended
  <2> DEFINE new == [place EXCEPT ![e] = "queue"]
  <2>2. KeptAt(new, events', value', taken', freed', sent')
    BY <1>2, <1>3, <1>4, <1>5, <1>7, <2>1 DEF Kept, KeptAt
  <2> QED
    BY <2>2, AllKeptNow DEF AllKeptNext
<1>8. CASE value' = value /\ Full /\ discard_old_events /\ events' = Append(Tail(events), e)
           /\ Release({Head(events)}, 1)
  <2>1. events # << >>
    BY EventAssumption, <1>8 DEF IInv, TypeOK, FrontToDiscard, Full
  <2> DEFINE h == Head(events)
  <2>2. /\ Once(Tail(events)) /\ In(events, h) /\ h \in Events
        /\ \A x : In(Tail(events), x) <=> x # h /\ In(events, x)
    BY <1>4, <2>1, Shifted
  <2>3. Tail(events) \in Seq(Events) /\ ~In(Tail(events), e)
    BY <1>3, <1>4, <2>1, <2>2
  <2>4. /\ Once(events')
        /\ \A x : In(events', x) <=> x = e \/ In(Tail(events), x)
    BY <1>2, <1>8, <2>2, <2>3, Appended
  <2>5. place[h] = "queue" /\ h # e
    BY <1>2, <1>3, <1>5, <2>2
  <2>6. \A x \in Events : freed'[x] = IF x = h \/ place[x] = "released" THEN 1 ELSE 0
    BY <1>1, <1>8, <2>5, ReleaseKeeps
  <2> HIDE DEF h
  <2> DEFINE new == [place EXCEPT ![e] = "queue", ![h] = "released"]
  <2>7. KeptAt(new, events', value', taken', freed', sent')
    BY <1>2, <1>3, <1>4, <1>5, <1>8, <2>2, <2>4, <2>5, <2>6 DEF Kept, KeptAt
  <2> QED
    BY <2>7, AllKeptNow DEF AllKeptNext
<1>9. CASE value' = value /\ Full /\ ~discard_old_events /\ Release({e}, 1) /\ events' = events
  <2>1. freed'[e] = 1
    BY <1>2, <1>3, <1>9 DEF Release
  <2>2. \A x \in Events : x # e => freed'[x] = freed[x]
    BY <1>5, <1>9 DEF Release
  <2> DEFINE new == [place EXCEPT ![e] = "released"]
  <2>3. KeptAt(new, events', value', taken', freed', sent')
    BY <1>2, <1>3, <1>4, <1>5, <1>9, <2>1, <2>2 DEF Kept, KeptAt
  <2> QED
    BY <2>3, AllKeptNow DEF AllKeptNext
<1> QED
  BY <1>6, <1>7, <1>8, <1>9 DEF Signal, signal_event, queue_event, waits, e

(* Whoever leaves queue, stack, script and releases alone. *)
LEMMA SameKept ==
    ASSUME AllKept, UNCHANGED << events, value, sent, taken, freed >>
    PROVE  AllKept'
BY DEF AllKept, Kept, KeptAt, In, Once

(* The script takes the front of the queue, or what is on the stack. *)
LEMMA TakeKept ==
    ASSUME IInv, AllKept, wait_for_event \/ Resume \/ Sleep
    PROVE  AllKept'
<1>1. PICK place : Kept(place)
  BY DEF AllKept
<1>2. events \in Seq(Events) /\ taken \in Seq(Events) /\ value \in Events \cup {0}
      /\ Once(events) /\ Once(taken)
  BY <1>1 DEF IInv, TypeOK, Kept, KeptAt
<1>3. /\ place \in [Events -> {"none", "queue", "stack", "script", "released"}]
      /\ \A x \in Events :
            /\ place[x] = "none" <=> x > sent
            /\ place[x] = "queue" <=> In(events, x)
            /\ place[x] = "stack" <=> value = x
            /\ place[x] = "script" <=> In(taken, x)
            /\ freed[x] = IF place[x] = "released" THEN 1 ELSE 0
  BY <1>1 DEF Kept, KeptAt
<1>4. \A x \in Events : x # 0
  BY DEF Events
<1>5. CASE wait_for_event /\ events # << >>
  <2> DEFINE h == Head(events)
  <2>1. /\ Once(Tail(events)) /\ In(events, h) /\ h \in Events
        /\ \A x : In(Tail(events), x) <=> x # h /\ In(events, x)
    BY <1>2, <1>5, Shifted
  <2>2. /\ events' = Tail(events) /\ taken' = Append(taken, h)
        /\ value' = value /\ sent' = sent /\ freed' = freed
    BY <1>5 DEF wait_for_event
  <2>3. place[h] = "queue"
    BY <1>3, <2>1
  <2>4. ~In(taken, h)
    BY <1>3, <2>1, <2>3
  <2>5. /\ Once(taken')
        /\ \A x : In(taken', x) <=> x = h \/ In(taken, x)
    BY <1>2, <2>1, <2>2, <2>4, Appended
  <2> HIDE DEF h
  <2> DEFINE new == [place EXCEPT ![h] = "script"]
  <2>6. KeptAt(new, events', value', taken', freed', sent')
    BY <1>3, <2>1, <2>2, <2>3, <2>5 DEF Kept, KeptAt
  <2> QED
    BY <2>6, AllKeptNow DEF AllKeptNext
<1>6. CASE Resume /\ value # 0
  <2>1. value \in Events /\ place[value] = "stack" /\ ~In(taken, value)
    BY <1>2, <1>3, <1>6
  <2>2. events' = events /\ value' = 0 /\ sent' = sent /\ freed' = freed /\ taken' = Append(taken, value)
    BY <1>6 DEF Resume
  <2>3. /\ Once(taken')
        /\ \A x : In(taken', x) <=> x = value \/ In(taken, x)
    BY <1>2, <2>1, <2>2, Appended
  <2> DEFINE new == [place EXCEPT ![value] = "script"]
  <2>4. KeptAt(new, events', value', taken', freed', sent')
    BY <1>2, <1>3, <1>4, <2>1, <2>2, <2>3 DEF Kept, KeptAt
  <2> QED
    BY <2>4, AllKeptNow DEF AllKeptNext
<1>7. CASE ~(wait_for_event /\ events # << >>) /\ ~(Resume /\ value # 0)
  <2>1. value = 0 /\ value' = 0 /\ UNCHANGED << events, sent, taken, freed >>
    BY <1>7 DEF wait_for_event, Resume, Sleep, Block, IInv, TypeOK, ResultsOfWaits
  <2> QED
    BY <2>1, SameKept
<1> QED
  BY <1>5, <1>6, <1>7

(* What is queued is released, and at the script's end what is on the stack, too. *)
LEMMA ClearKept ==
    ASSUME IInv, AllKept, clear_event_queue \/ Delete
    PROVE  AllKept'
<1>1. PICK place : Kept(place)
  BY DEF AllKept
<1>3. /\ place \in [Events -> {"none", "queue", "stack", "script", "released"}]
      /\ Once(taken)
      /\ \A x \in Events :
            /\ place[x] = "none" <=> x > sent
            /\ place[x] = "queue" <=> In(events, x)
            /\ place[x] = "stack" <=> value = x
            /\ place[x] = "script" <=> In(taken, x)
            /\ freed[x] = IF place[x] = "released" THEN 1 ELSE 0
  BY <1>1 DEF Kept, KeptAt
<1>4. \A x \in Events : x # 0
  BY DEF Events
<1>5. events' = << >> /\ sent' = sent /\ taken' = taken
  BY DEF clear_event_queue, Delete, script
<1>6. PICK S : /\ Release(S, 1)
               /\ \/ S = InQueue /\ value' = value
                  \/ S = InQueue \cup {value} /\ value' = 0
  BY DEF clear_event_queue, Delete, script
<1>7. \A x \in Events : x \in InQueue <=> In(events, x)
  BY DEF InQueue, In
<1>8. \A x \in Events : x \in S => place[x] \in {"queue", "stack"}
  BY <1>3, <1>6, <1>7
<1>9. \A x \in Events : freed'[x] = IF x \in S \/ place[x] = "released" THEN 1 ELSE 0
  BY <1>1, <1>6, <1>8, ReleaseKeeps
<1> DEFINE new == [x \in Events |-> IF x \in S THEN "released" ELSE place[x]]
<1>10. new \in [Events -> {"none", "queue", "stack", "script", "released"}]
  BY <1>3
<1>11. Once(events') /\ \A x : ~In(events', x)
  BY <1>5, NoneIn
<1>12. ASSUME NEW x \in Events
       PROVE  /\ new[x] = "none" <=> x > sent'
              /\ new[x] = "queue" <=> In(events', x)
              /\ new[x] = "stack" <=> value' = x
              /\ new[x] = "script" <=> In(taken', x)
              /\ freed'[x] = IF new[x] = "released" THEN 1 ELSE 0
  <2>1. CASE x \in S
    <3>1. new[x] = "released" /\ place[x] \in {"queue", "stack"} /\ freed'[x] = 1
      BY <1>8, <1>9, <2>1
    <3>2. value' # x
      BY <1>3, <1>4, <1>6, <1>7, <2>1, <3>1
    <3> QED
      BY <1>3, <1>5, <1>11, <3>1, <3>2
  <2>2. CASE x \notin S
    <3>1. new[x] = place[x] /\ place[x] # "queue"
      BY <1>3, <1>6, <1>7, <2>2
    <3>2. value' = x <=> value = x
      BY <1>4, <1>6, <2>2
    <3> QED
      BY <1>3, <1>5, <1>9, <1>11, <2>2, <3>1, <3>2
  <2> QED
    BY <2>1, <2>2
<1> HIDE DEF new
<1>13. KeptAt(new, events', value', taken', freed', sent')
  BY <1>3, <1>5, <1>10, <1>11, <1>12 DEF Kept, KeptAt
<1> QED
  BY <1>13, AllKeptNow DEF AllKeptNext

LEMMA InitKept == Init => AllKept
<1> SUFFICES ASSUME Init PROVE AllKept
  OBVIOUS
<1> DEFINE place == [e \in Events |-> "none"]
<1>1. \A e \in Events : e > 0 /\ e # 0
  BY DEF Events
<1>2. Kept(place)
  BY <1>1, NoneIn DEF Init, Kept, KeptAt
<1> QED
  BY <1>2 DEF AllKept

LEMMA NextKept ==
    ASSUME ~FullNPC, IInv, AllKept, [Next]_vars
    PROVE  AllKept'
<1>1. CASE Send
  BY <1>1, SignalKept DEF Send
<1>2. CASE NPCSend
  BY <1>2, SignalKept DEF NPCSend
<1>3. CASE wait_for_event \/ Resume \/ Sleep
  BY <1>3, TakeKept
<1>4. CASE clear_event_queue \/ Delete
  BY <1>4, ClearKept
<1>5. CASE Answer \/ Kill \/ Reconfigure \/ check_blocked \/ set_event_queue_size \/ UNCHANGED vars
  BY <1>5, SameKept DEF Answer, Kill, Reconfigure, check_blocked, set_event_queue_size, script, vars
<1> QED
  BY <1>1, <1>2, <1>3, <1>4, <1>5 DEF Next, Others, Script

(* Unless an NPC's queue refuses events, every event that was sent is in one place or
   released once, whatever the sizes of the queue and however they change. *)
THEOREM EventsAccounted == ASSUME ~FullNPC PROVE Spec => []Accounted
<1>1. Init => IInv /\ AllKept
  BY InitInv, InitKept
<1>2. (IInv /\ AllKept) /\ [Next]_vars => (IInv /\ AllKept)'
  BY NextInv, NextKept
<1>3. IInv /\ AllKept => Accounted
  BY KeptAccounted
<1> QED
  BY <1>1, <1>2, <1>3, PTL DEF Spec
-----------------------------------------------------------------------------
(* The queue implements the mailbox.                                       *)

(* An event that arrives goes where the mailbox keeps it. *)
LEMMA SignalArrives ==
    ASSUME IInv, NEW n \in Nat, Signal(n)
    PROVE  Box!Arrive
<1>0. sent' \in Events /\ at # "ended" /\ UNCHANGED << settings, error, at, taken >>
  BY EventAssumption DEF IInv, TypeOK, Signal, Events
<1>1. CASE Waiting /\ value' = sent' /\ revive /\ UNCHANGED << events, freed >>
  <2>1. at = "wait" /\ value = 0 /\ sent' # 0
    BY <1>0, <1>1 DEF IInv, TypeOK, WaitsAsPlaced, Waiting, Events
  <2>2. Reader = "waiting" /\ Reader' = "waiting"
    BY <1>0, <1>1, <2>1 DEF Reader, Waiting
  <2> QED
    BY <1>0, <1>1, <2>1, <2>2 DEF Box!Arrive, Box!Keep, Box!Unanswered, Signal, settings
<1>2. CASE ~Waiting /\ queue_event(sent', n) /\ UNCHANGED << value, waits >>
  <2>1. ~(Reader = "waiting" /\ value = 0)
    BY <1>2 DEF IInv, TypeOK, WaitsAsPlaced, Waiting, Reader
  <2>2. UNCHANGED Reader /\ Reader # "gone"
    BY <1>0, <1>2 DEF Reader, waits
  <2>3. Len(events) \in Nat /\ max_eventqueue_size \in Nat
    BY EventAssumption DEF IInv, TypeOK
  <2>4. \/ Len(events) < max_eventqueue_size /\ events' = Append(events, sent')
        \/ /\ Len(events) >= max_eventqueue_size /\ discard_old_events
           /\ events' = Append(Tail(events), sent')
        \/ Len(events) >= max_eventqueue_size /\ ~discard_old_events /\ UNCHANGED events
    BY <1>2, <2>3 DEF queue_event, Full
  <2> QED
    BY <1>0, <1>2, <2>1, <2>2, <2>4 DEF Box!Arrive, Box!Keep, Box!Unanswered, Signal, settings
<1> QED
  BY <1>1, <1>2 DEF Signal, signal_event

(* Waking the script without an event ends a wait that is still unanswered. *)
LEMMA ReviveExpires ==
    ASSUME IInv, revive, UNCHANGED << events, settings, at, value, sent, taken, freed >>
    PROVE  Box!Expire \/ UNCHANGED Box!vars
<1>1. CASE at = "wait" /\ blocked
  <2>1. value = 0
    BY <1>1 DEF IInv, WaitsAsPlaced
  <2>2. Reader = "waiting" /\ Reader' = "late"
    BY <1>1, <2>1 DEF Reader, revive
  <2> QED
    BY <2>1, <2>2 DEF Box!Expire, Box!Unanswered, settings
<1>2. CASE ~(at = "wait" /\ blocked)
  <2>1. UNCHANGED Reader
    BY <1>2 DEF Reader, revive, IInv, TypeOK
  <2> QED
    BY <2>1 DEF Box!vars, settings
<1> QED
  BY <1>1, <1>2

(* Each step of the script is a step of its reader or none. *)
LEMMA ScriptReads ==
    ASSUME IInv, Script
    PROVE  [Box!Next]_Box!vars
<1>1. CASE wait_for_event
  <2>0. at = "run" /\ value = 0 /\ Reader = "away"
    BY <1>1 DEF wait_for_event, Reader, IInv, TypeOK, ResultsOfWaits
  <2>1. CASE events # << >>
    <3>1. UNCHANGED Reader
      BY <1>1, <2>1 DEF wait_for_event, Reader, waits
    <3>2. Box!Take
      BY <1>1, <2>0, <2>1, <3>1 DEF Box!Take, wait_for_event, settings
    <3> QED
      BY <3>2 DEF Box!Next
  <2>2. CASE events = << >>
    <3>1. Reader' = "waiting" /\ value' = 0
      BY <1>1, <2>2 DEF wait_for_event, Block, Reader
    <3>2. Box!Wait
      BY <1>1, <2>0, <2>2, <3>1 DEF Box!Wait, wait_for_event, settings
    <3> QED
      BY <3>2 DEF Box!Next
  <2> QED
    BY <2>1, <2>2
<1>2. CASE Sleep
  <2>1. value = 0 /\ value' = 0 /\ Reader = "away" /\ Reader' = "away"
    BY <1>2 DEF Sleep, Block, Reader, IInv, ResultsOfWaits
  <2> QED
    BY <1>2, <2>1 DEF Box!vars, Sleep, settings
<1>3. CASE Resume
  <2>0. Reader' = "away" /\ value' = 0
    BY <1>3 DEF Resume, Reader
  <2>1. CASE at = "wait"
    <3>1. Reader = IF value # 0 THEN "waiting" ELSE "late"
      BY <1>3, <2>1 DEF Resume, Reader
    <3>2. Box!Return
      BY <1>3, <2>0, <3>1 DEF Box!Return, Resume, settings
    <3> QED
      BY <3>2 DEF Box!Next
  <2>2. CASE at = "sleep"
    <3>1. value = 0 /\ Reader = "away"
      BY <2>2 DEF Reader, IInv, ResultsOfWaits
    <3> QED
      BY <1>3, <2>0, <3>1 DEF Box!vars, Resume, settings
  <2> QED
    BY <1>3, <2>1, <2>2 DEF Resume
<1>4. CASE set_event_queue_size
  <2>1. Reader = "away" /\ UNCHANGED Reader
    BY <1>4 DEF set_event_queue_size, Reader, script, waits
  <2>2. Box!Resize
    BY <1>4, <2>1 DEF Box!Resize, set_event_queue_size, script
  <2> QED
    BY <2>2 DEF Box!Next
<1>5. CASE Delete
  <2>1. Reader' = "gone"
    BY <1>5 DEF Delete, Reader
  <2>2. Box!Leave
    BY <1>5, <2>1 DEF Box!Leave, Delete, settings
  <2> QED
    BY <2>2 DEF Box!Next
<1> QED
  BY <1>1, <1>2, <1>3, <1>4, <1>5 DEF Script

(* Each step of the others is one of the mailbox or none. *)
LEMMA OthersSend ==
    ASSUME IInv, Others
    PROVE  [Box!Next]_Box!vars
<1>1. CASE NPCSend
  BY <1>1, SignalArrives DEF NPCSend, Box!Next
<1>2. CASE Answer
  BY <1>2, ReviveExpires DEF Answer, script, Box!Next
<1>3. CASE Kill
  BY <1>3, ReviveExpires DEF Kill, Box!Next
<1>4. CASE clear_event_queue
  <2>1. UNCHANGED Reader
    BY <1>4 DEF clear_event_queue, Reader, waits, script
  <2>2. Box!Clear
    BY <1>4, <2>1 DEF Box!Clear, clear_event_queue, settings, script
  <2> QED
    BY <2>2 DEF Box!Next
<1>5. CASE Reconfigure
  <2>1. UNCHANGED Reader
    BY <1>5 DEF Reconfigure, Reader, waits, script
  <2>2. Box!Reconfigure
    BY <1>5, <2>1 DEF Box!Reconfigure, Reconfigure, script
  <2> QED
    BY <2>2 DEF Box!Next
<1> QED
  BY <1>1, <1>2, <1>3, <1>4, <1>5 DEF Others

LEMMA NextBox ==
    ASSUME IInv, [Next]_vars
    PROVE  [Box!Next]_Box!vars
<1>1. CASE Send
  BY <1>1, SignalArrives DEF Send, Box!Next
<1>2. CASE Others
  BY <1>2, OthersSend
<1>3. CASE check_blocked
  BY <1>3, ReviveExpires DEF check_blocked, script, Box!Next
<1>4. CASE Script
  BY <1>4, ScriptReads
<1>5. CASE UNCHANGED vars
  <2>1. UNCHANGED Reader
    BY <1>5 DEF vars, Reader, waits, script
  <2> QED
    BY <1>5, <2>1 DEF vars, Box!vars, settings, script
<1> QED
  BY <1>1, <1>2, <1>3, <1>4, <1>5 DEF Next

(* For any number of events and any sizes of the queue, the event queue, its
   hold lists and its value stack are a Mailbox: events are read in the order in
   which they were sent, only a full queue, the script's wish or its end loses
   one, and a wait that is over takes none. *)
THEOREM Implements == Spec => AsPromised
<1>1. Init => Box!Init
  BY DEF Init, Box!Init, Reader
<1>2. IInv /\ [Next]_vars => [Box!Next]_Box!vars
  BY NextBox
<1> QED
  BY <1>1, <1>2, Invariant, PTL DEF Spec, AsPromised, Box!Spec
-----------------------------------------------------------------------------
(* Connections.                                                            *)

(* Every step of a connection is a step of the queue or leaves it alone. *)
LEMMA AuxStepsQueue == [AuxNext]_allvars => [Next]_vars
<1> SUFFICES ASSUME [AuxNext]_allvars PROVE [Next]_vars
  OBVIOUS
<1>1. CASE Readline \/ Leave \/ Hangup
  BY <1>1 DEF Readline, Leave, Hangup
<1>2. CASE Handle
  BY <1>2 DEF Handle, Next
<1>3. CASE SendElse \/ NPCElse
  BY <1>3 DEF SendElse, NPCElse, Next, Others
<1>4. CASE Answer \/ Kill \/ clear_event_queue \/ Reconfigure \/ check_blocked \/ Script
  BY <1>4 DEF Next, Others
<1>5. CASE UNCHANGED allvars
  BY <1>5 DEF allvars
<1> QED
  BY <1>1, <1>2, <1>3, <1>4, <1>5 DEF AuxNext

(* A script with an aux connection is a script with a queue: its thread only
   sends events. *)
THEOREM ConnectionIsSender == AuxSpec => Spec
<1>1. AuxInit => Init
  BY DEF AuxInit
<1> QED
  BY <1>1, AuxStepsQueue, PTL DEF AuxSpec, Spec

(* With a connection, too, the queue is a Mailbox. *)
THEOREM ConnectionKeepsPromise == AuxSpec => AsPromised
BY ConnectionIsSender, Implements, PTL
=============================================================================
