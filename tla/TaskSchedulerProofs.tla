------------------------- MODULE TaskSchedulerProofs --------------------------
(***************************************************************************)
(* Proofs about TaskScheduler: the safety properties that its runs check,  *)
(* for any number of tasks and handles, any period and any delays.  The    *)
(* inductive invariant adds to the types what becomes of a task between    *)
(* its places (Placed), that a handle and the task that knows its place    *)
(* name each other (OwnersAgree), that nothing in the queue is due before  *)
(* what has been run (Sorted), and the phase of the periodic tasks.        *)
(***************************************************************************)
EXTENDS TaskScheduler, TLAPS

(* A task is run outside the queue; only what is in the queue or being run is
   cancelled, and a one-shot task that is being run is.  A periodic task is in
   one of the two places for ever. *)
Placed ==
    /\ tasks.task # None <=> tasks.at = "run"
    /\ tasks.task \notin queue
    /\ cancelled \subseteq queue \cup {tasks.task}
    /\ tasks.task \in OneShots => tasks.task \in cancelled
    /\ \A p \in Periodics : p \in queue \/ p = tasks.task

(* OneShotTask::handle and the handle point at each other. *)
OwnersAgree ==
    \A o \in Owners, t \in OneShots : owner[t] = o <=> handle[o] = t

(* What is queued, or being run and then queued again, was not due before what
   has been run, and that was due by now. *)
Sorted ==
    /\ last <= 0
    /\ \A t \in queue \cup (Periodics \cap {tasks.task}) : due[t] >= last

(* Periodic tasks are due whole periods after their first time. *)
InPhase ==
    \A p \in Periodics : \E k \in Int : phase + due[p] - FirstRun = k * Period

IInv ==
    /\ TypeOK /\ Placed /\ OwnersAgree /\ HandlesAgree
    /\ SleepsUntilDue /\ Sorted /\ InPhase

-----------------------------------------------------------------------------
(* Steps of the same kind.                                                 *)

(* Whoever has the lock arms or disarms a task. *)
Operates == Operation /\ UNCHANGED << tasks, scripts, rest >>

(* A thread goes to sleep, is woken, ends, or leaves the queue alone. *)
Quiet ==
    \/ TasksPulse \/ TasksSleep \/ TasksTimeout \/ TasksEnd
    \/ ScriptsLock \/ StepEnds \/ ScriptsWait \/ ScriptsTimeout \/ ScriptsEnd
    \/ ClientWakes \/ SignalExit \/ StatusWakes \/ WakeSpuriously \/ UNCHANGED vars

LEMMA Kinds ==
    ASSUME [Next]_vars
    PROVE  \/ Operates \/ Quiet \/ TasksLock \/ Ran \/ CheckEnds \/ Tick
           \/ \E t \in Tasks : Execute(t)
BY DEF Next, TasksThread, ScriptsThread, OnRun, ScriptOperation, OtherThread, Operates, Quiet

TasksType ==
    [at : {"top", "check", "run", "pulse", "presleep", "sleep", "ended"},
     task : Tasks \cup {None}, lag : Nat, activity : BOOLEAN, sleep : Nat, left : Nat]
ScriptsType == [at : {"top", "step", "presleep", "wait", "ended"}, left : Nat]

(* A quiet step moves the tasks thread towards its sleep, or out of it. *)
QuietMove ==
    /\ tasks'.task = tasks.task
    /\ \/ tasks' = tasks
       \/ tasks.at \in {"top", "sleep"} /\ tasks'.at \in {"top", "ended"}
       \/ /\ tasks.at \in {"pulse", "presleep"} /\ tasks'.at \in {"presleep", "sleep"}
          /\ tasks'.sleep = tasks.sleep /\ tasks'.lag = tasks.lag

LEMMA QuietSteps ==
    ASSUME TypeOK, Quiet
    PROVE  /\ UNCHANGED << sched, phase, last >>
           /\ tasks' \in TasksType /\ scripts' \in ScriptsType
           /\ {exit, sent_wakeups}' \subseteq BOOLEAN
           /\ QuietMove
<1> USE TaskAssumption DEF TasksType, ScriptsType
<1>0. tasks \in TasksType /\ scripts \in ScriptsType /\ {exit, sent_wakeups} \subseteq BOOLEAN
  BY DEF TypeOK
<1> DEFINE S == scripts' \in ScriptsType /\ {exit, sent_wakeups}' \subseteq BOOLEAN
           Q == UNCHANGED << sched, phase, last >>
           T == tasks' \in TasksType /\ QuietMove
<1>1. send_pulse => scripts' \in ScriptsType
  BY <1>0 DEF send_pulse
<1>2. wake_tasks_thread => T
  <2>1. Woken(tasks) \in TasksType /\ Woken(tasks).task = tasks.task /\ Woken(tasks).at = "top"
    BY <1>0 DEF Woken
  <2>2. CASE tasks.at = "sleep"
    BY <2>1, <2>2 DEF wake_tasks_thread, QuietMove
  <2>3. CASE tasks.at # "sleep"
    BY <1>0, <2>3 DEF wake_tasks_thread, QuietMove
  <2> QED
    BY <2>2, <2>3
<1>3. UNCHANGED tasks => T
  BY <1>0 DEF QuietMove
<1>4. CASE TasksPulse
  BY <1>0, <1>1, <1>4 DEF TasksPulse, QuietMove, rest, sched
<1>5. CASE TasksSleep
  BY <1>0, <1>5 DEF TasksSleep, QuietMove, rest, sched
<1>6. CASE TasksTimeout
  BY <1>0, <1>6 DEF TasksTimeout, Woken, QuietMove, rest, sched
<1>7. CASE TasksEnd
  BY <1>0, <1>7 DEF TasksEnd, QuietMove, rest, sched
<1>8. CASE ScriptsLock \/ ScriptsWait \/ ScriptsTimeout \/ ScriptsEnd
  BY <1>0, <1>3, <1>8 DEF ScriptsLock, ScriptsWait, ScriptsTimeout, ScriptsEnd, rest, sched
<1>9. CASE StepEnds
  <2>1. Q /\ T
    BY <1>2, <1>3, <1>9 DEF StepEnds, rest
  <2>2. S
    BY <1>0, <1>9 DEF StepEnds, rest
  <2> QED
    BY <2>1, <2>2
<1>10. CASE ClientWakes
  BY <1>0, <1>1, <1>2, <1>3, <1>10 DEF ClientWakes, rest
<1>11. CASE SignalExit
  BY <1>0, <1>3, <1>11 DEF SignalExit, rest
<1>12. CASE StatusWakes
  BY <1>0, <1>1, <1>2, <1>12 DEF StatusWakes, rest
<1>13. CASE WakeSpuriously
  BY <1>0, <1>1, <1>2, <1>3, <1>13 DEF WakeSpuriously, rest
<1>14. CASE UNCHANGED vars
  BY <1>0, <1>3, <1>14 DEF vars, rest, sched
<1> QED
  BY <1>4, <1>5, <1>6, <1>7, <1>8, <1>9, <1>10, <1>11, <1>12, <1>13, <1>14 DEF Quiet

(* What arms and disarms has in common: each new task is free and due after now,
   and all that is left alone. *)
Adds(t, d) ==
    /\ t \in OneShots /\ t \notin queue /\ t # tasks.task /\ d \in Nat \ {0}
    /\ queue' = queue \cup {t} /\ due' = [due EXCEPT ![t] = d] /\ dirty' = TRUE

LEMMA Operations ==
    ASSUME TypeOK, Operates
    PROVE  /\ UNCHANGED << tasks, scripts, exit, sent_wakeups, phase, last >>
           /\ \/ UNCHANGED << queue, due, dirty >>
              \/ \E t \in OneShots, d \in Nat : Adds(t, d)
<1>0. 1..MaxDelay \subseteq Nat \ {0}
  BY TaskAssumption
<1>1. ASSUME NEW d \in 1..MaxDelay, Schedule(d)
      PROVE  \E t \in OneShots : Adds(t, d)
  BY <1>0, <1>1 DEF Schedule, Free, add_task, Adds
<1>2. ASSUME NEW d \in 1..MaxDelay, NEW o \in Owners, Replace(o, d)
      PROVE  \E t \in OneShots : Adds(t, d)
  BY <1>0, <1>2 DEF Replace, Free, add_task, Adds
<1>3. ASSUME NEW o \in Owners, Disarm(o)
      PROVE  UNCHANGED << queue, due, dirty >>
  BY <1>3 DEF Disarm
<1>4. UNCHANGED << tasks, scripts, exit, sent_wakeups, phase, last >>
  BY DEF Operates, rest
<1> QED
  BY <1>0, <1>1, <1>2, <1>3, <1>4 DEF Operates, Operation, Rearm, BringForward

QueueTypes ==
    /\ queue \subseteq Tasks /\ due \in [Tasks -> Int] /\ dirty \in BOOLEAN
HandleTypes ==
    /\ cancelled \subseteq OneShots
    /\ data \in [OneShots -> Owners \cup {None}] /\ owner \in [OneShots -> Owners \cup {None}]
    /\ handle \in [Owners -> OneShots \cup {None}]
ThreadTypes ==
    /\ tasks \in TasksType /\ scripts \in ScriptsType
    /\ tasks.at \in {"pulse", "presleep"} => tasks.sleep > 0
    /\ exit \in BOOLEAN /\ sent_wakeups \in BOOLEAN
    /\ phase \in 0..(Period - 1) /\ last \in Int

LEMMA Types == TypeOK <=> QueueTypes /\ HandleTypes /\ ThreadTypes
BY DEF TypeOK, QueueTypes, HandleTypes, ThreadTypes, TasksType, ScriptsType

LEMMA TypesNext == (QueueTypes /\ HandleTypes /\ ThreadTypes)' => TypeOK'
BY DEF TypeOK, QueueTypes, HandleTypes, ThreadTypes, TasksType, ScriptsType

LEMMA InitType == Init => TypeOK
<1> SUFFICES ASSUME Init PROVE QueueTypes /\ HandleTypes /\ ThreadTypes
  BY Types
<1> USE TaskAssumption DEF Init
<1>1. QueueTypes
  BY DEF QueueTypes, Tasks
<1>2. HandleTypes
  BY DEF HandleTypes
<1>3. ThreadTypes
  <2>1. tasks \in TasksType /\ scripts \in ScriptsType
    BY DEF TasksType, ScriptsType
  <2>2. 0 \in 0..(Period - 1)
    OBVIOUS
  <2> QED
    <3>1. exit \in BOOLEAN /\ sent_wakeups \in BOOLEAN
      OBVIOUS
    <3>2. last \in Int /\ phase = 0 /\ tasks.at = "top"
      OBVIOUS
    <3> QED
      BY <2>1, <2>2, <3>1, <3>2 DEF ThreadTypes
<1> QED
  BY <1>1, <1>2, <1>3

LEMMA OperatesType == TypeOK /\ Operates => TypeOK'
<1> SUFFICES ASSUME TypeOK, Operates PROVE (QueueTypes /\ HandleTypes /\ ThreadTypes)'
  BY TypesNext
<1>0. QueueTypes /\ HandleTypes /\ ThreadTypes
  BY Types
<1>1. QueueTypes'
  <2>1. CASE UNCHANGED << queue, due, dirty >>
    BY <1>0, <2>1 DEF QueueTypes
  <2>2. ASSUME NEW t \in OneShots, NEW d \in Nat, Adds(t, d) PROVE QueueTypes'
    BY <1>0, <2>2 DEF QueueTypes, Adds, Tasks
  <2> QED
    BY <2>1, <2>2, Operations
<1>2. ThreadTypes'
  BY <1>0, Operations DEF ThreadTypes
<1>3. HandleTypes'
  <2> USE <1>0, TaskAssumption DEF HandleTypes
  <2>1. ASSUME NEW d \in 1..MaxDelay, Schedule(d) PROVE HandleTypes'
    BY <2>1 DEF Schedule, Free
  <2>2. ASSUME NEW d \in 1..MaxDelay, NEW o \in Owners, Replace(o, d) PROVE HandleTypes'
    BY <2>2 DEF Replace, Free
  <2>3. ASSUME NEW o \in Owners, Disarm(o) PROVE HandleTypes'
    BY <2>3 DEF Disarm, cancel, Armed
  <2> QED
    BY <2>1, <2>2, <2>3 DEF Operates, Operation, Rearm, BringForward
<1> QED
  BY <1>1, <1>2, <1>3

LEMMA NextType == TypeOK /\ Placed /\ [Next]_vars => TypeOK'
<1> SUFFICES ASSUME TypeOK, Placed, [Next]_vars PROVE TypeOK'
  OBVIOUS
<1>0. QueueTypes /\ HandleTypes /\ ThreadTypes
  BY Types
<1> USE TaskAssumption
<1>1. CASE Operates
  BY <1>1, OperatesType
<1>2. CASE Quiet
  <2>1. QueueTypes' /\ HandleTypes'
    BY <1>0, <1>2, QuietSteps DEF QueueTypes, HandleTypes, sched
  <2>2. ThreadTypes'
    BY <1>0, <1>2, QuietSteps DEF ThreadTypes, QuietMove, TasksType
  <2> QED
    BY <2>1, <2>2, TypesNext
<1>3. CASE TasksLock
  <2>1. QueueTypes' /\ HandleTypes'
    BY <1>0, <1>3 DEF TasksLock, QueueTypes, HandleTypes
  <2>2. ThreadTypes'
    BY <1>0, <1>3 DEF TasksLock, ThreadTypes, TasksType, rest
  <2> QED
    BY <2>1, <2>2, TypesNext
<1>4. CASE Ran
  <2>1. tasks.task \in Tasks /\ tasks.task \notin queue
    BY <1>0, <1>4 DEF Ran, Placed, ThreadTypes, TasksType, Tasks
  <2>2. QueueTypes'
    BY <1>0, <1>4, <2>1 DEF Ran, QueueTypes, Tasks
  <2>3. HandleTypes'
    BY <1>0, <1>4, <2>1 DEF Ran, HandleTypes, Deleted
  <2>4. ThreadTypes'
    BY <1>0, <1>4 DEF Ran, ThreadTypes, TasksType, rest
  <2> QED
    BY <2>2, <2>3, <2>4, TypesNext
<1>5. CASE CheckEnds
  <2>1. QueueTypes' /\ HandleTypes'
    BY <1>0, <1>5 DEF CheckEnds, QueueTypes, HandleTypes, sched
  <2>2. PICK t \in queue :
           /\ ~ready(t)
           /\ tasks' = [tasks EXCEPT !.at = IF tasks.activity THEN "pulse" ELSE "presleep",
                                     !.activity = FALSE, !.sleep = due[t] + tasks.lag]
    BY <1>5 DEF CheckEnds
  <2>3. due[t] \in Int /\ tasks.lag \in Nat /\ due[t] + tasks.lag > 0
    BY <1>0, <2>2 DEF ready, QueueTypes, ThreadTypes, TasksType
  <2>4. tasks' \in TasksType /\ tasks'.sleep > 0
    <3>1. tasks \in TasksType /\ due[t] + tasks.lag \in Nat
      BY <1>0, <2>3 DEF ThreadTypes, TasksType
    <3>2. CASE tasks.activity
      BY <2>2, <2>3, <3>1, <3>2 DEF TasksType
    <3>3. CASE ~tasks.activity
      BY <2>2, <2>3, <3>1, <3>3 DEF TasksType
    <3> QED
      BY <3>2, <3>3
  <2>5. ThreadTypes'
    BY <1>0, <1>5, <2>3, <2>4 DEF CheckEnds, ThreadTypes
  <2> QED
    BY <2>1, <2>5, TypesNext
<1>6. CASE Tick
  <2>1. QueueTypes'
    BY <1>0, <1>6 DEF Tick, QueueTypes
  <2>2. HandleTypes'
    BY <1>0, <1>6 DEF Tick, HandleTypes
  <2>3. tasks' \in TasksType /\ tasks'.at = tasks.at /\ tasks'.sleep = tasks.sleep
    <3>1. tasks \in TasksType /\ Less(tasks.left) \in Nat /\ tasks.lag \in Nat
      BY <1>0 DEF Less, ThreadTypes, TasksType
    <3>2. CASE tasks.at = "ended"
      BY <1>6, <3>1, <3>2 DEF Tick
    <3>3. CASE tasks.at # "ended"
      <4> DEFINE n == IF tasks.at = "top" THEN 0 ELSE tasks.lag + 1
                 m == Less(tasks.left)
      <4>1. n \in Nat /\ m \in Nat
        BY <3>1
      <4>2. tasks' = [tasks EXCEPT !.lag = n, !.left = m]
        BY <1>6, <3>3 DEF Tick
      <4> QED
        BY <3>1, <4>1, <4>2 DEF TasksType
    <3> QED
      BY <3>2, <3>3
  <2>4. scripts' \in ScriptsType
    BY <1>0, <1>6 DEF Tick, Less, ThreadTypes, ScriptsType
  <2>5. phase' \in 0..(Period - 1) /\ last' \in Int
    BY <1>0, <1>6 DEF Tick, ThreadTypes
  <2>6. ThreadTypes'
    BY <1>0, <1>6, <2>3, <2>4, <2>5 DEF Tick, ThreadTypes
  <2> QED
    BY <2>1, <2>2, <2>6, TypesNext
<1>7. ASSUME NEW t \in Tasks, Execute(t) PROVE TypeOK'
  <2>1. QueueTypes'
    BY <1>0, <1>7 DEF Execute, NextRun, QueueTypes
  <2>2. HandleTypes'
    BY <1>0, <1>7 DEF Execute, cancel, Deleted, HandleTypes
  <2>3. tasks' \in TasksType /\ tasks'.at \in {"check", "run"}
    BY <1>0, <1>7 DEF Execute, ThreadTypes, TasksType
  <2>4. ThreadTypes'
    BY <1>0, <1>7, <2>3 DEF Execute, ThreadTypes, QueueTypes
  <2> QED
    BY <2>1, <2>2, <2>4, TypesNext
<1> QED
  BY <1>1, <1>2, <1>3, <1>4, <1>5, <1>6, <1>7, Kinds

-----------------------------------------------------------------------------
(* Where the tasks are, and who knows of them.                             *)

LEMMA OperatesPlaces ==
    ASSUME TypeOK, Placed, OwnersAgree, HandlesAgree, Operates
    PROVE  Placed' /\ OwnersAgree' /\ HandlesAgree'
<1> USE TaskAssumption DEF Placed, OwnersAgree, HandlesAgree, Tasks
<1>0. HandleTypes /\ QueueTypes
  BY Types
<1>1. UNCHANGED tasks
  BY Operations
<1>5. \A o \in Owners, p \in Owners, u \in OneShots : handle[o] = u /\ handle[p] = u => o = p
  OBVIOUS
<1>2. ASSUME NEW d \in 1..MaxDelay, Schedule(d)
      PROVE  Placed' /\ OwnersAgree' /\ HandlesAgree'
  <2>1. PICK t \in OneShots :
           /\ Free(t) /\ queue' = queue \cup {t}
           /\ data' = [data EXCEPT ![t] = None]
           /\ UNCHANGED << cancelled, owner, handle >>
    BY <1>2 DEF Schedule, add_task
  <2>2. t \notin queue /\ t # tasks.task /\ t \notin Periodics
    BY <2>1 DEF Free
  <2>3. \A o \in Owners : handle[o] # t
    BY <2>2
  <2>4. \A u \in OneShots : data'[u] = IF u = t THEN None ELSE data[u]
    BY <1>0, <2>1 DEF HandleTypes
  <2>5. Placed'
    BY <1>1, <2>1, <2>2
  <2>6. OwnersAgree'
    BY <2>1
  <2>7. HandlesAgree'
    BY <2>1, <2>3, <2>4
  <2> QED
    BY <2>5, <2>6, <2>7
<1>3. ASSUME NEW d \in 1..MaxDelay, NEW p \in Owners, Replace(p, d)
      PROVE  Placed' /\ OwnersAgree' /\ HandlesAgree'
  <2>1. PICK t \in OneShots :
           /\ Free(t) /\ queue' = queue \cup {t}
           /\ cancelled' = cancelled \cup ({handle[p]} \ {None})
           /\ data' = [data EXCEPT ![t] = p]
           /\ owner' = [u \in OneShots |-> IF u = t THEN p
                                           ELSE IF u = handle[p] THEN None ELSE owner[u]]
           /\ handle' = [handle EXCEPT ![p] = t]
    BY <1>3 DEF Replace, add_task
  <2>2. t \notin queue /\ t # tasks.task /\ t \notin Periodics /\ t \notin cancelled
    BY <2>1 DEF Free
  <2>3. /\ \A o \in Owners : handle[o] # t
        /\ handle[p] = None \/ handle[p] \in queue \cap OneShots
    BY <1>0, <2>2 DEF HandleTypes
  <2>4. /\ \A u \in OneShots : data'[u] = IF u = t THEN p ELSE data[u]
        /\ \A u \in OneShots : owner'[u] = IF u = t THEN p
                                           ELSE IF u = handle[p] THEN None ELSE owner[u]
        /\ \A o \in Owners : handle'[o] = IF o = p THEN t ELSE handle[o]
    BY <1>0, <2>1 DEF HandleTypes
  <2>5. Placed'
    BY <1>1, <2>1, <2>2, <2>3
  <2>6. ASSUME NEW o \in Owners, NEW u \in OneShots PROVE owner'[u] = o <=> handle'[o] = u
    <3>1. CASE o = p
      BY <2>3, <2>4, <3>1
    <3>2. CASE o # p
      BY <2>3, <2>4, <3>2
    <3> QED
      BY <3>1, <3>2
  <2>7. ASSUME NEW o \in Owners, NEW u \in OneShots
        PROVE  handle'[o] = u <=> u \in queue' \ cancelled' /\ data'[u] = o
    <3>1. CASE u = t
      BY <2>1, <2>2, <2>3, <2>4, <3>1
    <3>2. CASE u # t /\ u = handle[p]
      BY <1>5, <2>1, <2>2, <2>3, <2>4, <3>2
    <3>3. CASE u # t /\ u # handle[p]
      BY <2>1, <2>2, <2>3, <2>4, <3>3
    <3> QED
      BY <3>1, <3>2, <3>3
  <2> QED
    BY <2>5, <2>6, <2>7
<1>4. ASSUME NEW p \in Owners, Disarm(p)
      PROVE  Placed' /\ OwnersAgree' /\ HandlesAgree'
  <2> DEFINE t == handle[p]
  <2>1. t \in OneShots /\ t \in queue /\ owner[t] = p
    BY <1>0, <1>4 DEF Disarm, Armed, HandleTypes
  <2>2. /\ UNCHANGED << queue, data >> /\ cancelled' = cancelled \cup {t}
        /\ \A o \in Owners : handle'[o] = IF o = p THEN None ELSE handle[o]
        /\ \A u \in OneShots : owner'[u] = IF u = t THEN None ELSE owner[u]
    BY <1>0, <1>4, <2>1 DEF Disarm, cancel, HandleTypes
  <2> HIDE DEF t
  <2>3. handle[p] = t
    BY DEF t
  <2>4. Placed'
    BY <1>1, <2>1, <2>2
  <2>5. OwnersAgree'
    BY <1>5, <2>1, <2>2, <2>3
  <2>6. HandlesAgree'
    BY <1>5, <2>1, <2>2, <2>3
  <2> QED
    BY <2>4, <2>5, <2>6
<1> QED
  BY <1>2, <1>3, <1>4 DEF Operates, Operation, Rearm, BringForward

LEMMA ExecutePlaces ==
    ASSUME TypeOK, Placed, OwnersAgree, HandlesAgree, NEW t \in Tasks, Execute(t)
    PROVE  Placed' /\ OwnersAgree' /\ HandlesAgree'
<1> USE TaskAssumption DEF Placed, OwnersAgree, HandlesAgree, Tasks
<1>0. HandleTypes /\ QueueTypes /\ tasks \in TasksType
  BY Types DEF ThreadTypes
<1>1. t \in queue /\ queue' = queue \ {t} /\ tasks.at = "check" /\ tasks.task = None
      /\ UNCHANGED data
  BY <1>0, Types DEF Execute, Top, TasksType
<1>2. CASE t \in Periodics
  <2>1. /\ tasks' = [tasks EXCEPT !.at = "run", !.task = t, !.activity = TRUE]
        /\ UNCHANGED << cancelled, owner, handle >>
    BY <1>2, t \notin OneShots DEF Execute
  <2>2. tasks'.at = "run" /\ tasks'.task = t
    BY <1>0, <2>1 DEF TasksType
  <2> QED
    BY <1>0, <1>1, <1>2, <2>1, <2>2 DEF HandleTypes
<1>3. CASE t \in OneShots /\ CallsOnRun(t)
  <2>0. tasks' = [tasks EXCEPT !.at = "run", !.task = t, !.activity = TRUE] /\ cancel(t)
    BY <1>3, t \notin Periodics DEF Execute
  <2>1. tasks'.at = "run" /\ tasks'.task = t /\ cancel(t)
    BY <1>0, <2>0 DEF TasksType
  <2>2. /\ cancelled' = cancelled \cup {t}
        /\ \A o \in Owners : handle'[o] = IF o = owner[t] THEN None ELSE handle[o]
        /\ \A u \in OneShots : owner'[u] = IF u = t THEN None ELSE owner[u]
    BY <1>0, <1>3, <2>1 DEF cancel, HandleTypes
  <2>3. Placed'
    BY <1>0, <1>1, <1>3, <2>1, <2>2, t \notin Periodics DEF HandleTypes, QueueTypes
  <2>4. OwnersAgree'
    BY <1>0, <1>3, <2>2
  <2>5. HandlesAgree'
    BY <1>0, <1>1, <1>3, <2>2
  <2> QED
    BY <2>3, <2>4, <2>5
<1>4. CASE t \in OneShots /\ ~CallsOnRun(t)
  <2>1. t \in cancelled
    BY <1>4 DEF CallsOnRun
  <2>2. \A o \in Owners : owner[t] # o
    BY <1>4, <2>1
  <2>3. /\ tasks'.at = "check" /\ tasks'.task = None /\ cancelled' = cancelled \ {t}
        /\ \A o \in Owners : handle'[o] = handle[o]
        /\ \A u \in OneShots : owner'[u] = IF u = t THEN None ELSE owner[u]
    BY <1>0, <1>1, <1>4, <2>2 DEF Execute, Deleted, HandleTypes, TasksType
  <2>4. Placed'
    BY <1>0, <1>1, <1>4, <2>1, <2>3
  <2>5. OwnersAgree'
    BY <1>4, <2>2, <2>3
  <2>6. HandlesAgree'
    BY <1>1, <2>1, <2>3
  <2> QED
    BY <2>4, <2>5, <2>6
<1> QED
  BY <1>2, <1>3, <1>4

LEMMA RanPlaces ==
    ASSUME TypeOK, Placed, OwnersAgree, HandlesAgree, Ran
    PROVE  Placed' /\ OwnersAgree' /\ HandlesAgree'
<1> USE TaskAssumption DEF Placed, OwnersAgree, HandlesAgree, Tasks
<1>0. HandleTypes /\ QueueTypes /\ tasks \in TasksType
  BY Types DEF ThreadTypes
<1>1. tasks'.at = "check" /\ tasks'.task = None /\ UNCHANGED data
  BY <1>0 DEF Ran, TasksType
<1>2. CASE tasks.task \in Periodics
  <2>1. queue' = queue \cup {tasks.task} /\ UNCHANGED << cancelled, owner, handle >>
    BY <1>2 DEF Ran
  <2> QED
    BY <1>0, <1>1, <1>2, <2>1 DEF HandleTypes, QueueTypes
<1>3. CASE tasks.task \in OneShots
  <2> DEFINE t == tasks.task
  <2>1. t \in cancelled /\ t \notin queue /\ \A o \in Owners : owner[t] # o
    BY <1>3
  <2>2. /\ UNCHANGED queue /\ cancelled' = cancelled \ {t}
        /\ \A o \in Owners : handle'[o] = handle[o]
        /\ \A u \in OneShots : owner'[u] = IF u = t THEN None ELSE owner[u]
    BY <1>0, <1>3, <2>1 DEF Ran, Deleted, HandleTypes
  <2>3. Placed'
    BY <1>0, <1>1, <1>3, <2>1, <2>2 DEF HandleTypes, QueueTypes
  <2>4. OwnersAgree'
    BY <2>1, <2>2
  <2>5. HandlesAgree'
    BY <1>1, <2>1, <2>2
  <2> QED
    BY <2>3, <2>4, <2>5
<1> QED
  BY <1>2, <1>3 DEF Ran

-----------------------------------------------------------------------------
(* When the tasks are due.                                                 *)

Timed == SleepsUntilDue /\ Sorted

LEMMA OperatesTimes ==
    ASSUME TypeOK, Timed, Operates
    PROVE  Timed'
<1> USE TaskAssumption DEF Timed, SleepsUntilDue, Sorted, Tasks
<1>0. QueueTypes /\ last \in Int
  BY Types DEF ThreadTypes
<1>1. UNCHANGED << tasks, last >>
  BY Operations
<1>2. CASE UNCHANGED << queue, due, dirty >>
  BY <1>1, <1>2
<1>3. ASSUME NEW t \in OneShots, NEW d \in Nat, Adds(t, d) PROVE Timed'
  <2>1. /\ dirty' /\ d > 0
        /\ \A u \in queue' \cup (Periodics \cap {tasks.task}) :
              due'[u] = IF u = t THEN d ELSE due[u]
    BY <1>0, <1>3 DEF Adds, QueueTypes
  <2>2. \A u \in queue' \cup (Periodics \cap {tasks.task}) : due'[u] >= last
    BY <1>0, <1>3, <2>1 DEF Adds, QueueTypes
  <2> QED
    BY <1>1, <2>1, <2>2
<1> QED
  BY <1>2, <1>3, Operations

LEMMA ExecuteTimes ==
    ASSUME TypeOK, Placed, Timed, NEW t \in Tasks, Execute(t)
    PROVE  Timed'
<1> USE TaskAssumption DEF Timed, Sorted, Tasks
<1>0. QueueTypes /\ tasks \in TasksType /\ last \in Int
  BY Types DEF ThreadTypes
<1>1. /\ t \in queue /\ queue' = queue \ {t} /\ tasks.at = "check" /\ tasks.task = None
      /\ \A u \in queue : due[u] >= due[t]
      /\ due[t] \in Int /\ due[t] + tasks.lag <= 0 /\ tasks.lag \in Nat
  BY <1>0, Types DEF Execute, Top, ready, Placed, TasksType, QueueTypes
<1>2. SleepsUntilDue'
  <2>1. \/ tasks' = [tasks EXCEPT !.at = "run", !.task = t, !.activity = TRUE]
        \/ tasks' = [tasks EXCEPT !.activity = TRUE]
    BY DEF Execute
  <2>2. tasks'.at \in {"check", "run"}
    BY <1>0, <1>1, <2>1 DEF TasksType
  <2> QED
    BY <2>2 DEF SleepsUntilDue
<1>3. CASE t \in Periodics
  <2>1. /\ tasks'.task = t /\ last' = due[t]
        /\ \A u \in Tasks : due'[u] = IF u = t THEN due[t] + Period ELSE due[u]
    <3>1. /\ tasks' = [tasks EXCEPT !.at = "run", !.task = t, !.activity = TRUE]
          /\ due' = [due EXCEPT ![t] = NextRun(t)] /\ last' = due[t]
      BY <1>3, t \notin OneShots DEF Execute
    <3> QED
      BY <1>0, <3>1 DEF NextRun, QueueTypes, TasksType
  <2>2. Sorted'
    BY <1>0, <1>1, <2>1 DEF QueueTypes
  <2> QED
    BY <1>2, <2>2
<1>4. CASE t \in OneShots /\ CallsOnRun(t)
  <2>1. /\ tasks'.task = t /\ last' = due[t] /\ UNCHANGED due
    <3>1. /\ tasks' = [tasks EXCEPT !.at = "run", !.task = t, !.activity = TRUE]
          /\ last' = due[t] /\ UNCHANGED due
      BY <1>4, t \notin Periodics DEF Execute
    <3> QED
      BY <1>0, <3>1 DEF TasksType
  <2>2. Sorted'
    BY <1>0, <1>1, <1>4, <2>1 DEF QueueTypes
  <2> QED
    BY <1>2, <2>2
<1>5. CASE t \in OneShots /\ ~CallsOnRun(t)
  <2>1. /\ tasks'.task = None /\ last' = last
        /\ \A u \in Tasks : u # t => due'[u] = due[u]
    <3>1. /\ tasks' = [tasks EXCEPT !.activity = TRUE]
          /\ due' = [due EXCEPT ![t] = 0] /\ last' = last
      BY <1>5, t \notin Periodics DEF Execute
    <3> QED
      BY <1>0, <1>1, <3>1 DEF QueueTypes, TasksType
  <2>2. Sorted'
    BY <1>0, <1>1, <2>1 DEF QueueTypes
  <2> QED
    BY <1>2, <2>2
<1> QED
  BY <1>3, <1>4, <1>5

LEMMA NextTimes == TypeOK /\ Placed /\ Timed /\ [Next]_vars => Timed'
<1> SUFFICES ASSUME TypeOK, Placed, Timed, [Next]_vars PROVE Timed'
  OBVIOUS
<1> USE TaskAssumption DEF Timed, SleepsUntilDue, Sorted
<1>0. QueueTypes /\ tasks \in TasksType /\ last \in Int /\ tasks.lag \in Nat
  BY Types DEF ThreadTypes, TasksType
<1>1. CASE Operates
  BY <1>1, OperatesTimes
<1>2. CASE Quiet
  BY <1>0, <1>2, QuietSteps DEF QuietMove, sched
<1>3. CASE TasksLock
  BY <1>0, <1>3 DEF TasksLock, TasksType, rest
<1>4. CASE Ran
  <2>1. tasks'.at = "check" /\ tasks'.task = None /\ last' = last
    BY <1>0, <1>4 DEF Ran, TasksType, rest
  <2>2. CASE tasks.task \in Periodics
    BY <1>0, <1>4, <2>1, <2>2 DEF Ran, QueueTypes, Tasks
  <2>3. CASE tasks.task \notin Periodics
    <3>1. UNCHANGED queue /\ \A u \in queue : due'[u] = due[u]
      BY <1>0, <1>4, <2>3 DEF Ran, Placed, QueueTypes, Tasks
    <3> QED
      BY <1>0, <2>1, <3>1 DEF Tasks
  <2> QED
    BY <2>2, <2>3
<1>5. CASE CheckEnds
  <2>1. PICK t \in queue :
           /\ Top(t) /\ ~ready(t)
           /\ tasks' = [tasks EXCEPT !.at = IF tasks.activity THEN "pulse" ELSE "presleep",
                                     !.activity = FALSE, !.sleep = due[t] + tasks.lag]
    BY <1>5 DEF CheckEnds
  <2>2. tasks'.sleep = due[t] + tasks.lag /\ tasks'.lag = tasks.lag /\ tasks'.task = tasks.task
    BY <1>0, <2>1 DEF TasksType
  <2>3. \A u \in queue : due[u] \in Int /\ due[u] >= due[t] /\ due[u] + tasks.lag > 0
    BY <1>0, <2>1 DEF Top, ready, QueueTypes
  <2>4. last' = -tasks.lag /\ UNCHANGED << queue, due, dirty >> /\ tasks.task = None
    BY <1>5, Types DEF CheckEnds, sched, Placed, ThreadTypes, TasksType
  <2>5. SleepsUntilDue'
    <3> SUFFICES ASSUME NEW u \in queue PROVE due[u] + tasks.lag >= due[t] + tasks.lag
      BY <2>2, <2>4
    <3>1. due[t] \in Int /\ due[u] \in Int /\ due[u] >= due[t]
      BY <2>1, <2>3
    <3> QED
      BY <1>0, <3>1
  <2>6. Sorted'
    BY <1>0, <2>2, <2>3, <2>4 DEF Tasks
  <2> QED
    BY <2>5, <2>6
<1>6. CASE Tick
  <2>1. CASE tasks.at = "ended"
    BY <1>6, <2>1 DEF Tick
  <2>2. CASE tasks.at # "ended"
    <3>1. /\ tasks'.at = tasks.at /\ tasks'.task = tasks.task /\ tasks'.sleep = tasks.sleep
          /\ tasks.at # "top" => tasks'.lag = tasks.lag + 1
      BY <1>0, <1>6, <2>2 DEF Tick, TasksType
    <3>2. /\ last' = last - 1 /\ UNCHANGED << queue, dirty >>
          /\ \A u \in queue \cup (Periodics \cap {tasks.task}) : due'[u] = due[u] - 1
      BY <1>0, <1>6, <2>2 DEF Tick, QueueTypes, Tasks
    <3>3. \A u \in queue \cup (Periodics \cap {tasks.task}) : due[u] \in Int
      BY <1>0 DEF QueueTypes, Tasks
    <3>4. SleepsUntilDue'
      <4> SUFFICES ASSUME tasks.at \in {"pulse", "presleep", "sleep"}, ~dirty, NEW u \in queue
                   PROVE  due'[u] + tasks'.lag >= tasks'.sleep
        BY <3>1, <3>2
      <4>1. due[u] + tasks.lag >= tasks.sleep /\ tasks.sleep \in Nat
        BY <1>0 DEF TasksType
      <4> QED
        BY <1>0, <3>1, <3>2, <3>3, <4>1
    <3>5. Sorted'
      BY <1>0, <3>1, <3>2, <3>3
    <3> QED
      BY <3>4, <3>5
  <2> QED
    BY <2>1, <2>2
<1>7. ASSUME NEW t \in Tasks, Execute(t) PROVE Timed'
  BY <1>7, ExecuteTimes
<1> QED
  BY <1>1, <1>2, <1>3, <1>4, <1>5, <1>6, <1>7, Kinds

(* A number of whole periods after a tick is one, or one less if the count of the
   ticks has come round. *)
LEMMA TickKeepsPhase ==
    ASSUME NEW f \in Int, NEW d \in Int, NEW n \in 0..(Period - 1), NEW k \in Int,
           n + d - f = k * Period
    PROVE  \E j \in Int : ((n + 1) % Period) + (d - 1) - f = j * Period
<1> USE TaskAssumption
<1>1. CASE n + 1 < Period
  <2>1. (n + 1) % Period = n + 1
    BY <1>1
  <2>2. (n + 1) + (d - 1) - f = k * Period
    OBVIOUS
  <2>3. ((n + 1) % Period) + (d - 1) - f = k * Period
    BY <2>1, <2>2
  <2> QED
    BY <2>3
<1>2. CASE n + 1 = Period
  <2>1. (n + 1) % Period = 0
    BY <1>2
  <2>2. (k - 1) * Period = k * Period - Period
    OBVIOUS
  <2>3. 0 + (d - 1) - f = (k - 1) * Period
    BY <1>2, <2>2
  <2>4. ((n + 1) % Period) + (d - 1) - f = (k - 1) * Period /\ k - 1 \in Int
    BY <2>1, <2>3
  <2> QED
    BY <2>4
<1> QED
  BY <1>1, <1>2

LEMMA NextPhase == TypeOK /\ Placed /\ InPhase /\ [Next]_vars => InPhase'
<1> SUFFICES ASSUME TypeOK, Placed, InPhase, [Next]_vars, NEW p \in Periodics
             PROVE  (\E k \in Int : phase + due[p] - FirstRun = k * Period)'
  BY DEF InPhase
<1> USE TaskAssumption DEF Tasks
<1>0. QueueTypes /\ tasks \in TasksType /\ phase \in 0..(Period - 1) /\ due[p] \in Int
      /\ p \notin OneShots
  BY Types DEF ThreadTypes, QueueTypes
<1>1. PICK k \in Int : phase + due[p] - FirstRun = k * Period
  BY DEF InPhase
<1>2. CASE Operates
  <2>1. UNCHANGED phase /\ due'[p] = due[p]
    BY <1>0, <1>2, Operations DEF Adds, QueueTypes
  <2> QED
    BY <1>1, <2>1
<1>3. CASE Quiet \/ TasksLock \/ CheckEnds
  <2>1. UNCHANGED << phase, due >>
    BY <1>3, QuietSteps DEF sched, TasksLock, CheckEnds, rest
  <2> QED
    BY <1>1, <2>1
<1>4. CASE Ran
  <2>1. UNCHANGED phase /\ due'[p] = due[p]
    BY <1>0, <1>4 DEF Ran, rest, QueueTypes
  <2> QED
    BY <1>1, <2>1
<1>5. CASE Tick
  <2>1. CASE tasks.at = "ended"
    BY <1>1, <1>5, <2>1 DEF Tick
  <2>2. CASE tasks.at # "ended"
    <3>1. phase' = (phase + 1) % Period /\ due'[p] = due[p] - 1
      BY <1>5, <2>2 DEF Tick, Placed
    <3>2. FirstRun \in Int
      OBVIOUS
    <3>3. \E j \in Int : ((phase + 1) % Period) + (due[p] - 1) - FirstRun = j * Period
      BY ONLY <1>0, <1>1, <3>2, TickKeepsPhase
    <3> QED
      BY <3>1, <3>3
  <2> QED
    BY <2>1, <2>2
<1>6. ASSUME NEW t \in Tasks, Execute(t)
      PROVE  (\E j \in Int : phase + due[p] - FirstRun = j * Period)'
  <2>1. UNCHANGED phase /\ (due'[p] = due[p] \/ due'[p] = due[p] + Period)
    BY <1>0, <1>6 DEF Execute, NextRun, QueueTypes
  <2>2. (k + 1) * Period = k * Period + Period
    BY <1>1
  <2>3. phase + (due[p] + Period) - FirstRun = (k + 1) * Period
    BY <1>0, <1>1, <2>2
  <2>4. CASE due'[p] = due[p]
    BY <1>1, <2>1, <2>4
  <2>5. CASE due'[p] = due[p] + Period
    <3>1. phase' + due'[p] - FirstRun = (k + 1) * Period /\ k + 1 \in Int
      BY <2>1, <2>3, <2>5
    <3> QED
      BY <3>1
  <2> QED
    BY <2>1, <2>4, <2>5
<1> QED
  BY <1>2, <1>3, <1>4, <1>5, <1>6, Kinds

-----------------------------------------------------------------------------
(* The theorems.                                                           *)

LEMMA InitInv == Init => IInv
<1> SUFFICES ASSUME Init PROVE IInv
  OBVIOUS
<1> USE TaskAssumption DEF Init, Tasks
<1>1. TypeOK
  BY InitType
<1>2. Placed /\ OwnersAgree /\ HandlesAgree
  BY DEF Placed, OwnersAgree, HandlesAgree
<1>3. SleepsUntilDue /\ Sorted
  BY DEF SleepsUntilDue, Sorted
<1>4. InPhase
  <2> SUFFICES ASSUME NEW p \in Periodics
               PROVE  phase + due[p] - FirstRun = 0 * Period
    BY DEF InPhase
  <2> QED
    OBVIOUS
<1> QED
  BY <1>1, <1>2, <1>3, <1>4 DEF IInv

LEMMA NextInv == IInv /\ [Next]_vars => IInv'
<1> SUFFICES ASSUME IInv, [Next]_vars PROVE IInv'
  OBVIOUS
<1>1. TypeOK'
  BY NextType DEF IInv
<1>2. (Placed /\ OwnersAgree /\ HandlesAgree)'
  <2> USE DEF IInv
  <2>1. CASE Operates
    BY <2>1, OperatesPlaces
  <2>2. CASE Ran
    BY <2>2, RanPlaces
  <2>3. ASSUME NEW t \in Tasks, Execute(t) PROVE (Placed /\ OwnersAgree /\ HandlesAgree)'
    BY <2>3, ExecutePlaces
  <2>4. CASE Quiet \/ TasksLock \/ CheckEnds \/ Tick
    <3>1. UNCHANGED << queue, cancelled, data, owner, handle >>
      BY <2>4, QuietSteps DEF sched, TasksLock, CheckEnds, Tick
    <3>2. tasks'.task = tasks.task /\ (tasks'.at = "run" <=> tasks.at = "run")
      <4>0. tasks \in TasksType
        BY Types DEF ThreadTypes
      <4>1. CASE Quiet
        BY <4>1, QuietSteps DEF QuietMove
      <4>2. CASE TasksLock
        BY <4>0, <4>2 DEF TasksLock, TasksType
      <4>3. CASE CheckEnds
        BY <4>0, <4>3 DEF CheckEnds, TasksType
      <4>4. CASE Tick
        BY <4>0, <4>4 DEF Tick, TasksType
      <4> QED
        BY <2>4, <4>1, <4>2, <4>3, <4>4
    <3> QED
      BY <3>1, <3>2 DEF Placed, OwnersAgree, HandlesAgree
  <2> QED
    BY <2>1, <2>2, <2>3, <2>4, Kinds
<1>3. (SleepsUntilDue /\ Sorted)'
  BY NextTimes DEF IInv, Timed
<1>4. InPhase'
  BY NextPhase DEF IInv
<1> QED
  BY <1>1, <1>2, <1>3, <1>4 DEF IInv

(* Where every task is, whom it is about, when it is due and how long the tasks
   thread sleeps agree, whatever is armed, replaced, brought forward, cancelled
   and run, by whomever. *)
THEOREM Invariant == Spec => []IInv
BY InitInv, NextInv, PTL DEF Spec

(* The variables keep their types, and there is time to sleep when the tasks
   thread goes to sleep, which tasks_thread() asserts. *)
THEOREM SchedulerTypeCorrect == Spec => []TypeOK
<1>1. IInv => TypeOK
  BY DEF IInv
<1> QED
  BY <1>1, Invariant, PTL

(* A character's handle names the one task about him that may still run. *)
THEOREM HandlesNameTasks == Spec => []HandlesAgree
<1>1. IInv => HandlesAgree
  BY DEF IInv
<1> QED
  BY <1>1, Invariant, PTL

(* The tasks thread does not sleep past a task unless the queue is dirty. *)
THEOREM SleepIsBounded == Spec => []SleepsUntilDue
<1>1. IInv => SleepsUntilDue
  BY DEF IInv
<1> QED
  BY <1>1, Invariant, PTL

(* Tasks are run in the order of their times, periodic ones in phase, and those
   about a character only if his handle names them. *)
THEOREM TasksInOrder == Spec => RunsAsScheduled
<1> DEFINE A == \A t \in Tasks : Starts(t) =>
                  /\ last' >= last
                  /\ t \in Periodics => (phase + due[t] - FirstRun) % Period = 0
                  /\ t \in OneShots /\ data[t] # None => handle[data[t]] = t
<1>1. IInv /\ [Next]_vars => [A]_vars
  <2> SUFFICES ASSUME IInv, Next, NEW t \in Tasks, Starts(t)
               PROVE  /\ last' >= last
                      /\ t \in Periodics => (phase + due[t] - FirstRun) % Period = 0
                      /\ t \in OneShots /\ data[t] # None => handle[data[t]] = t
    OBVIOUS
  <2> USE TaskAssumption DEF IInv, Tasks
  <2>0. QueueTypes /\ HandleTypes /\ tasks \in TasksType /\ phase \in Int
    BY Types DEF ThreadTypes
  <2>1. PICK u \in Tasks : Execute(u)
    <3>1. CASE Operates
      BY <3>1, Operations DEF Starts
    <3>2. CASE Quiet
      BY <3>2, QuietSteps DEF QuietMove, Starts
    <3>3. CASE TasksLock \/ Ran \/ CheckEnds \/ Tick
      <4>1. CASE TasksLock
        BY <2>0, <4>1 DEF TasksLock, TasksType, Starts
      <4>2. CASE Ran
        BY <2>0, <4>2 DEF Ran, TasksType, Starts
      <4>3. CASE CheckEnds
        BY <2>0, <4>3 DEF CheckEnds, TasksType, Starts
      <4>4. CASE Tick
        BY <2>0, <4>4 DEF Tick, TasksType, Starts
      <4> QED
        BY <3>3, <4>1, <4>2, <4>3, <4>4
    <3> QED
      BY <3>1, <3>2, <3>3, Kinds
  <2>2. /\ u \in queue /\ last' = due[u] /\ tasks' = [tasks EXCEPT !.at = "run", !.task = u, !.activity = TRUE]
        /\ u \in OneShots => CallsOnRun(u)
    <3>1. CASE tasks' = [tasks EXCEPT !.activity = TRUE]
      BY <2>0, <3>1 DEF Starts, TasksType
    <3> QED
      BY <2>1, <3>1 DEF Execute, Top
  <2>3. u = t
    BY <2>0, <2>2 DEF Starts, TasksType
  <2>4. last' >= last
    BY <2>2 DEF Sorted
  <2>5. ASSUME t \in Periodics PROVE (phase + due[t] - FirstRun) % Period = 0
    <3>1. PICK k \in Int : phase + due[t] - FirstRun = k * Period
      BY <2>5 DEF InPhase
    <3>2. (k * Period) % Period = 0
      BY <3>1
    <3> QED
      BY <3>1, <3>2
  <2>6. ASSUME t \in OneShots, data[t] # None PROVE handle[data[t]] = t
    <3>1. data[t] \in Owners /\ t \in queue \ cancelled
      BY <2>0, <2>2, <2>3, <2>6 DEF CallsOnRun, HandleTypes
    <3> QED
      BY <2>6, <3>1 DEF HandlesAgree
  <2> QED
    BY <2>4, <2>5, <2>6
<1> QED
  BY <1>1, Invariant, PTL DEF Spec, RunsAsScheduled
=============================================================================
