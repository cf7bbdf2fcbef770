---------------------------- MODULE TaskScheduler ----------------------------
(***************************************************************************)
(* The task queue (schedule.cpp) and the threads around it (pol.cpp,       *)
(* polsem.cpp): the tasks thread that runs tasks and sleeps until the next *)
(* one is due, the scripts thread and a client's thread that add tasks and *)
(* wake it, the pulse that wakes the scripts thread, and the exit.  Wake-  *)
(* ups are condition variables without a flag: nobody waiting, they are    *)
(* lost.  Times are relative to polclock(), so that the clock needs no     *)
(* bound.                                                                  *)
(***************************************************************************)
EXTENDS Integers, FiniteSets

CONSTANTS OneShots,   \* addresses of OneShotTasks
          Periodics,  \* the PeriodicTasks of start_tasks()
          Owners,     \* places of handles: a character's party_decline_timeout_, ...
          None,       \* NULL
          Period,     \* n_clocks of the periodic tasks
          FirstRun,   \* n_initial_clocks
          MaxDelay,   \* bound: a new task is due after 1..MaxDelay ticks
          MaxSleep,   \* bound: step_scripts() asks for 1..MaxSleep ticks of sleep
          MaxLate     \* bound: no tick passes while a task is that late, unless
                      \* the tasks thread sleeps

Tasks == OneShots \cup Periodics

ASSUME TaskAssumption ==
    /\ OneShots \cap Periodics = {} /\ None \notin Tasks \cup Owners
    /\ IsFiniteSet(Tasks) /\ Periodics # {}
    /\ Period \in Nat \ {0} /\ FirstRun \in Nat \ {0}
    /\ MaxDelay \in Nat \ {0} /\ MaxSleep \in Nat \ {0} /\ MaxLate \in Nat

VARIABLES queue,      \* gamestate.task_queue
          due,        \* next_run_clock_ - polclock()
          cancelled,  \* the OneShotTasks with that flag
          data,       \* OneShotTaskInst::data_, whom a task is about
          owner,      \* OneShotTask::handle, and what is in the
          handle,     \* places that they point at
          dirty,      \* TaskScheduler::dirty_
          tasks,      \* the tasks thread: where it is, the task that it runs, ticks since
                      \* it has read the clock, activity, sleeptime, what is left of it
          scripts,    \* the scripts thread: where it is, and what is left of its sleep
          exit,       \* exit_signalled
          sent_wakeups,
          phase,      \* history: the ticks so far, modulo Period
          last        \* history: the time the last task that was run was due, or the
                      \* clock that the last check had read

sched == << queue, due, cancelled, data, owner, handle, dirty >>
rest  == << exit, sent_wakeups, phase, last >>
vars  == << sched, tasks, scripts, rest >>

Init ==
    /\ queue = Periodics
    /\ due = [t \in Tasks |-> IF t \in Periodics THEN FirstRun ELSE 0]
    /\ cancelled = {}
    /\ data = [t \in OneShots |-> None] /\ owner = data
    /\ handle = [o \in Owners |-> None]
    /\ dirty = TRUE
    /\ tasks = [at |-> "top", task |-> None, lag |-> 0, activity |-> FALSE,
                sleep |-> 0, left |-> 0]
    /\ scripts = [at |-> "top", left |-> 0]
    /\ exit = FALSE /\ sent_wakeups = FALSE
    /\ phase = 0 /\ last = 0

\* A thread has the PolLock for more than one step.
Locked == tasks.at \in {"check", "run"} \/ scripts.at = "step"

-----------------------------------------------------------------------------
(* What the lock's owner does to the queue.                                *)

Armed(o) == handle[o] # None

\* Bug: the task still knows the place of the handle.
cancelKeepsPlace(t) ==
    /\ cancelled' = cancelled \cup {t}
    /\ handle' = [o \in Owners |-> IF o = owner[t] THEN None ELSE handle[o]]
    /\ UNCHANGED owner

\* OneShotTask::cancel(): the task stays in the queue.
cancel(t) ==
    /\ cancelled' = cancelled \cup {t}
    /\ handle' = [o \in Owners |-> IF o = owner[t] THEN None ELSE handle[o]]
    /\ owner' = [owner EXCEPT ![t] = None]

Free(t) == t \in OneShots \ queue /\ t # tasks.task

\* Bug: the tasks thread is not told.
add_taskQuietly(t, d) ==
    /\ queue' = queue \cup {t}
    /\ due' = [due EXCEPT ![t] = d]
    /\ UNCHANGED dirty

add_task(t, d) ==
    /\ queue' = queue \cup {t}
    /\ due' = [due EXCEPT ![t] = d]
    /\ dirty' = TRUE

\* A new task for owner o, once the one that it has is cancelled.
Replace(o, d) ==
    \E t \in OneShots :
       /\ Free(t)
       /\ add_task(t, d)
       /\ cancelled' = cancelled \cup ({handle[o]} \ {None})
       /\ data' = [data EXCEPT ![t] = o]
       /\ owner' = [u \in OneShots |-> IF u = t THEN o ELSE IF u = handle[o] THEN None ELSE owner[u]]
       /\ handle' = [handle EXCEPT ![o] = t]

\* set_party_invite_timeout()
Rearm(o, d) == Replace(o, d)

\* schedule_repsys_task(): only an earlier time replaces a later one.
BringForward(o, d) == (Armed(o) => due[handle[o]] > d) /\ Replace(o, d)

\* cancel_party_invite_timeout()
Disarm(o) == Armed(o) /\ cancel(handle[o]) /\ UNCHANGED << queue, due, data, dirty >>

\* A task without a handle, as spells have.
Schedule(d) ==
    \E t \in OneShots :
       Free(t) /\ add_task(t, d) /\ data' = [data EXCEPT ![t] = None]
               /\ UNCHANGED << cancelled, owner, handle >>

Operation ==
    \/ \E d \in 1..MaxDelay : Schedule(d) \/ \E o \in Owners : Rearm(o, d) \/ BringForward(o, d)
    \/ \E o \in Owners : Disarm(o)

-----------------------------------------------------------------------------
(* Wake-ups.                                                               *)

send_pulse == scripts' = IF scripts.at = "wait" THEN [at |-> "top", left |-> 0] ELSE scripts

Woken(r) == [r EXCEPT !.at = "top", !.lag = 0, !.activity = FALSE, !.sleep = 0, !.left = 0]

wake_tasks_thread == tasks' = IF tasks.at = "sleep" THEN Woken(tasks) ELSE tasks

-----------------------------------------------------------------------------
(* tasks_thread() and check_scheduled_tasks().                             *)

ready(t) == due[t] + tasks.lag <= 0

\* Tasks that are due at the same time come in the order of their addresses.
Top(t) == t \in queue /\ \A u \in queue : due[t] <= due[u]

TasksLock ==
    /\ tasks.at = "top" /\ ~exit /\ ~Locked
    /\ dirty' = FALSE
    /\ tasks' = [tasks EXCEPT !.at = "check"]
    /\ UNCHANGED << queue, due, cancelled, data, owner, handle, scripts, rest >>

\* Bug: the next run is counted from this one.
NextRunFromNow(t) == Period

\* PeriodicTask::execute(): next_run_clock_ += n_clocks
NextRun(t) == due[t] + Period

\* OneShotTask::execute() does nothing once it is cancelled.
CallsOnRun(t) == t \notin cancelled

\* ~OneShotTask()
Deleted(t) == handle' = [o \in Owners |-> IF o = owner[t] THEN None ELSE handle[o]]

Execute(t) ==
    /\ tasks.at = "check" /\ Top(t) /\ ready(t)
    /\ queue' = queue \ {t}
    /\ \/ /\ t \in Periodics
          /\ due' = [due EXCEPT ![t] = NextRun(t)]
          /\ tasks' = [tasks EXCEPT !.at = "run", !.task = t, !.activity = TRUE]
          /\ last' = due[t]
          /\ UNCHANGED << cancelled, owner, handle >>
       \/ /\ t \in OneShots /\ CallsOnRun(t)
          /\ cancel(t)
          /\ tasks' = [tasks EXCEPT !.at = "run", !.task = t, !.activity = TRUE]
          /\ last' = due[t]
          /\ UNCHANGED due
       \/ /\ t \in OneShots /\ ~CallsOnRun(t)
          /\ Deleted(t)
          /\ cancelled' = cancelled \ {t}
          /\ owner' = [owner EXCEPT ![t] = None]
          /\ due' = [due EXCEPT ![t] = 0]
          /\ tasks' = [tasks EXCEPT !.activity = TRUE]
          /\ UNCHANGED last
    /\ UNCHANGED << data, dirty, scripts, exit, sent_wakeups, phase >>

\* What on_run() does, once or more often.
OnRun ==
    /\ tasks.at = "run"
    /\ Operation
    /\ UNCHANGED << tasks, scripts, rest >>

\* A one-shot task is deleted, a periodic one pushed again.
Ran ==
    /\ tasks.at = "run"
    /\ tasks' = [tasks EXCEPT !.at = "check", !.task = None]
    /\ \/ /\ tasks.task \in Periodics
          /\ queue' = queue \cup {tasks.task}
          /\ UNCHANGED << due, cancelled, owner, handle >>
       \/ /\ tasks.task \in OneShots
          /\ cancelled' = cancelled \ {tasks.task}
          /\ due' = [due EXCEPT ![tasks.task] = 0]
          /\ owner' = [owner EXCEPT ![tasks.task] = None]
          /\ Deleted(tasks.task)
          /\ UNCHANGED queue
    /\ UNCHANGED << data, dirty, scripts, rest >>

CheckEnds ==
    /\ tasks.at = "check"
    /\ \E t \in queue :
          /\ Top(t) /\ ~ready(t)
          /\ tasks' = [tasks EXCEPT !.at = IF tasks.activity THEN "pulse" ELSE "presleep",
                                    !.activity = FALSE, !.sleep = due[t] + tasks.lag]
    /\ last' = -tasks.lag
    /\ UNCHANGED << sched, scripts, exit, sent_wakeups, phase >>

TasksPulse ==
    /\ tasks.at = "pulse"
    /\ send_pulse
    /\ tasks' = [tasks EXCEPT !.at = "presleep"]
    /\ UNCHANGED << sched, rest >>

TasksSleep ==
    /\ tasks.at = "presleep"
    /\ tasks' = [tasks EXCEPT !.at = "sleep", !.left = tasks.sleep]
    /\ UNCHANGED << sched, scripts, rest >>

SleepEnds == tasks.left = 0

TasksTimeout ==
    /\ tasks.at = "sleep" /\ SleepEnds
    /\ tasks' = Woken(tasks)
    /\ UNCHANGED << sched, scripts, rest >>

TasksEnd ==
    /\ tasks.at = "top" /\ exit
    /\ tasks' = [tasks EXCEPT !.at = "ended"]
    /\ UNCHANGED << sched, scripts, rest >>

-----------------------------------------------------------------------------
(* scripts_thread().                                                       *)

ScriptsLock ==
    /\ scripts.at = "top" /\ ~exit /\ ~Locked
    /\ scripts' = [scripts EXCEPT !.at = "step"]
    /\ UNCHANGED << sched, tasks, rest >>

ScriptOperation ==
    /\ scripts.at = "step"
    /\ Operation
    /\ UNCHANGED << tasks, scripts, rest >>

\* step_scripts() returns: scripts that are still in runlist are stepped again at
\* once.
StepEnds ==
    /\ scripts.at = "step"
    /\ \/ scripts' = [scripts EXCEPT !.at = "top"]
       \/ \E n \in 1..MaxSleep : scripts' = [at |-> "presleep", left |-> n]
    /\ IF dirty THEN wake_tasks_thread ELSE UNCHANGED tasks
    /\ UNCHANGED << sched, rest >>

ScriptsWait ==
    /\ scripts.at = "presleep"
    /\ scripts' = [scripts EXCEPT !.at = "wait"]
    /\ UNCHANGED << sched, tasks, rest >>

\* Bug: only the pulse ends the wait.
WaitEndsPulsed == FALSE

WaitEnds == scripts.left = 0

ScriptsTimeout ==
    /\ scripts.at = "wait" /\ WaitEnds
    /\ scripts' = [at |-> "top", left |-> 0]
    /\ UNCHANGED << sched, tasks, rest >>

ScriptsEnd ==
    /\ scripts.at = "top" /\ exit
    /\ scripts' = [scripts EXCEPT !.at = "ended"]
    /\ UNCHANGED << sched, tasks, rest >>

-----------------------------------------------------------------------------
(* Clients, other threads, and the exit.                                   *)

OtherThread ==
    /\ ~exit /\ ~Locked
    /\ Operation
    /\ UNCHANGED << tasks, scripts, rest >>

\* A client's thread, some time after it has handled a message, be it one that has
\* changed nothing.  Decay, web and aux services tell nobody.
ClientWakes ==
    /\ ~Locked
    /\ send_pulse
    /\ IF dirty THEN wake_tasks_thread ELSE UNCHANGED tasks
    /\ UNCHANGED << sched, rest >>

SignalExit ==
    /\ ~exit /\ exit' = TRUE
    /\ UNCHANGED << sched, tasks, scripts, sent_wakeups, phase, last >>

\* threadstatus_thread(), which leaves last.
StatusWakes ==
    /\ exit /\ ~sent_wakeups
    /\ sent_wakeups' = TRUE
    /\ send_pulse /\ wake_tasks_thread
    /\ UNCHANGED << sched, exit, phase, last >>

\* A condition variable may wake its waiter for no reason.
WakeSpuriously ==
    /\ \/ tasks.at = "sleep" /\ wake_tasks_thread /\ UNCHANGED scripts
       \/ scripts.at = "wait" /\ send_pulse /\ UNCHANGED tasks
    /\ UNCHANGED << sched, rest >>

Asleep == tasks.at = "sleep" /\ tasks.left > 0

Less(n) == IF n > 0 THEN n - 1 ELSE 0

\* polclock() goes on, also while a thread has the lock.
Tick ==
    /\ tasks.at # "ended" \/ scripts.at = "wait"
    /\ \/ Asleep \/ tasks.at = "ended"
       \/ \A t \in queue \cup (Periodics \cap {tasks.task}) : due[t] > -MaxLate
    /\ scripts' = [scripts EXCEPT !.left = IF scripts.at = "wait" THEN Less(@) ELSE @]
    /\ IF tasks.at = "ended" THEN UNCHANGED << due, tasks, phase, last >>
       ELSE /\ due' = [t \in Tasks |-> IF t \in queue \/ t = tasks.task THEN due[t] - 1 ELSE 0]
            /\ tasks' = [tasks EXCEPT !.lag = IF tasks.at = "top" THEN 0 ELSE @ + 1,
                                      !.left = Less(@)]
            /\ phase' = (phase + 1) % Period
            /\ last' = last - 1
    /\ UNCHANGED << queue, cancelled, data, owner, handle, dirty, exit, sent_wakeups >>

-----------------------------------------------------------------------------
TasksThread ==
    \/ TasksLock \/ OnRun \/ Ran \/ CheckEnds \/ TasksPulse \/ TasksSleep
    \/ TasksTimeout \/ TasksEnd \/ \E t \in Tasks : Execute(t)

ScriptsThread ==
    ScriptsLock \/ ScriptOperation \/ StepEnds \/ ScriptsWait \/ ScriptsTimeout \/ ScriptsEnd

Next ==
    \/ TasksThread \/ ScriptsThread
    \/ OtherThread \/ ClientWakes
    \/ SignalExit \/ StatusWakes \/ WakeSpuriously \/ Tick

Spec == Init /\ [][Next]_vars

\* The threads go on, a waiting one gets the PolLock some time, and on_run() and
\* step_scripts() return.
Fairness ==
    /\ SF_vars(TasksLock) /\ SF_vars(ScriptsLock)
    /\ WF_vars(\E t \in Tasks : Execute(t)) /\ WF_vars(Ran) /\ WF_vars(CheckEnds)
    /\ WF_vars(TasksPulse) /\ WF_vars(TasksSleep) /\ WF_vars(TasksTimeout) /\ WF_vars(TasksEnd)
    /\ WF_vars(StepEnds) /\ WF_vars(ScriptsWait) /\ WF_vars(ScriptsTimeout) /\ WF_vars(ScriptsEnd)
    /\ WF_vars(StatusWakes) /\ WF_vars(Tick)

FairSpec == Spec /\ Fairness

-----------------------------------------------------------------------------
(* The types, with the passert of tasks_thread() that there is time to sleep. *)
TypeOK ==
    /\ queue \subseteq Tasks /\ cancelled \subseteq OneShots
    /\ due \in [Tasks -> Int]
    /\ data \in [OneShots -> Owners \cup {None}] /\ owner \in [OneShots -> Owners \cup {None}]
    /\ handle \in [Owners -> OneShots \cup {None}]
    /\ {dirty, exit, sent_wakeups} \subseteq BOOLEAN
    /\ tasks \in [at : {"top", "check", "run", "pulse", "presleep", "sleep", "ended"},
                  task : Tasks \cup {None}, lag : Nat, activity : BOOLEAN,
                  sleep : Nat, left : Nat]
    /\ tasks.at \in {"pulse", "presleep"} => tasks.sleep > 0
    /\ scripts \in [at : {"top", "step", "presleep", "wait", "ended"}, left : Nat]
    /\ phase \in 0..(Period - 1) /\ last \in Int

(* A character's handle names the one task about him that is queued and not
   cancelled, however often it is replaced and whatever becomes of the
   cancelled ones, which stay in the queue until they are due and clear the
   place of their handle when they are deleted. *)
HandlesAgree ==
    \A o \in Owners, t \in OneShots :
       handle[o] = t <=> t \in queue \ cancelled /\ data[t] = o

(* Unless the queue is marked dirty, so that the next thread that looks wakes
   it, the tasks thread sleeps no longer than until the next task is due, also
   if tasks are added before it sleeps or while it does. *)
SleepsUntilDue ==
    tasks.at \in {"pulse", "presleep", "sleep"} /\ ~dirty =>
       \A t \in queue : due[t] + tasks.lag >= tasks.sleep

Starts(t) == tasks.at # "run" /\ tasks'.at = "run" /\ tasks'.task = t

(* Over any time, tasks are run in the order of the times that they were due,
   be they added, brought forward, cancelled or late, and none is run that the
   check before should have run.  A periodic task keeps its phase: when it is
   late, it catches up instead of shifting.  A task about a character is the one
   that his handle names: never run after its cancellation, nor after it has
   been replaced. *)
RunsAsScheduled ==
    [][\A t \in Tasks : Starts(t) =>
          /\ last' >= last
          /\ t \in Periodics => (phase + due[t] - FirstRun) % Period = 0
          /\ t \in OneShots /\ data[t] # None => handle[data[t]] = t]_vars

(* After the exit signal every thread ends, though threadstatus_thread() sends
   its wake-ups only once and nobody may be waiting then. *)
ThreadsEnd ==
    exit ~> tasks.at = "ended" /\ scripts.at = "ended"
=============================================================================
