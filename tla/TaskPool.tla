------------------------------ MODULE TaskPool ------------------------------
(***************************************************************************)
(* threadhelp::TaskThreadPool (clib/threadhelp.cpp): a fixed number of     *)
(* worker threads that take tasks from one message queue, and an owner     *)
(* that pushes tasks and then destroys the pool.                           *)
(***************************************************************************)
EXTENDS MessageQueue, Naturals

CONSTANTS Workers,    \* _threads
          Tasks,      \* what the owner may push
          Checked,    \* those it pushes with checked_push()
          Throwing,   \* those that end with an exception
          Done        \* the message of the destructor

ASSUME PoolAssumption ==
    /\ Checked \subseteq Tasks /\ Throwing \subseteq Tasks
    /\ Done \notin Tasks

VARIABLES done,       \* _done
          pc,         \* pc[w]: where worker w is
          msg,        \* msg[w]: the f of worker w
          remaining,  \* remaining[w]: what worker w purges
          task,       \* task[t]: how far task t has come
          order,      \* the tasks in the order of their push (ghost)
          owner       \* "open", "destroying", "joined"

pool == << done, pc, msg, remaining >>
vars == << messages, pool, task, order, owner >>

Init ==
    /\ EmptyQueue
    /\ done = FALSE
    /\ pc = [w \in Workers |-> "test"]
    /\ msg = [w \in Workers |-> Done]
    /\ remaining = [w \in Workers |-> << >>]
    /\ task = [t \in Tasks |-> "new"]
    /\ order = << >>
    /\ owner = "open"

-----------------------------------------------------------------------------
(* The owner.                                                              *)

\* push() and checked_push().
Push(t) ==
    /\ owner = "open"
    /\ task[t] = "new"
    /\ push(t)
    /\ task' = [task EXCEPT ![t] = "pushed"]
    /\ order' = Append(order, t)
    /\ UNCHANGED << pool, owner >>

\* Bug: cancels the queue at once.
DestroyNow ==
    /\ owner = "open"
    /\ cancel
    /\ owner' = "destroying"
    /\ UNCHANGED << pool, task, order >>

\* ~TaskThreadPool() pushes the message that ends the pool ...
Destroy ==
    /\ owner = "open"
    /\ push(Done)
    /\ owner' = "destroying"
    /\ UNCHANGED << pool, task, order >>

\* ... and joins the threads.
Join ==
    /\ owner = "destroying"
    /\ \A w \in Workers : pc[w] = "ended"
    /\ owner' = "joined"
    /\ UNCHANGED << messages, pool, task, order >>

-----------------------------------------------------------------------------
(* A worker.                                                               *)

Goto(w, label) == pc' = [pc EXCEPT ![w] = label]

\* Nothing orders the test after the assignment to _done: it may see the old value.
Test(w) ==
    /\ pc[w] = "test"
    /\ \/ done /\ Goto(w, "purge")
       \/ Goto(w, "pop")
    /\ UNCHANGED << messages, done, msg, remaining, task, order, owner >>

Pop(w) ==
    /\ pc[w] = "pop"
    /\ \/ /\ pop_wait_blocks(w)
          /\ UNCHANGED << pc, msg, task >>
       \/ /\ pop_wait_throws(w)
          /\ Goto(w, "purge")
          /\ UNCHANGED << msg, task >>
       \/ /\ pop_wait_returns(w)
          /\ Goto(w, "run")
          /\ msg' = [msg EXCEPT ![w] = Head(queue)]
          /\ task' = [t \in Tasks |-> IF t = Head(queue) THEN "running" ELSE task[t]]
    /\ UNCHANGED << done, remaining, order, owner >>

\* An exception that reaches the worker: a checked task hands it to its future.
Escapes(t) == t \in Throwing \ Checked

\* The destructor's message sets _done ...
SetDone(w) == done' = TRUE /\ Goto(w, "cancel")

\* f() returns: a task is finished.
Return(w) ==
    /\ pc[w] = "run"
    /\ ~Escapes(msg[w])
    /\ IF msg[w] = Done
       THEN SetDone(w) /\ UNCHANGED task
       ELSE /\ task' = [task EXCEPT ![msg[w]] = "finished"]
            /\ Goto(w, "test")
            /\ UNCHANGED done
    /\ UNCHANGED << messages, msg, remaining, order, owner >>

\* ... and cancels the queue.
Cancel(w) ==
    /\ pc[w] = "cancel"
    /\ cancel
    /\ Goto(w, "test")
    /\ UNCHANGED << done, msg, remaining, task, order, owner >>

\* Bug: hands the task to another worker.
ThrowBack(w) ==
    /\ pc[w] = "run"
    /\ Escapes(msg[w])
    /\ Goto(w, "ended")
    /\ push(msg[w])
    /\ task' = [task EXCEPT ![msg[w]] = "pushed"]
    /\ UNCHANGED << done, msg, remaining, order, owner >>

\* f() throws: the worker reports it and returns.
Throw(w) ==
    /\ pc[w] = "run"
    /\ Escapes(msg[w])
    /\ Goto(w, "ended")
    /\ task' = [task EXCEPT ![msg[w]] = "finished"]
    /\ UNCHANGED << messages, done, msg, remaining, order, owner >>

Purge(w) ==
    /\ pc[w] = "purge"
    /\ pop_remaining
    /\ remaining' = [remaining EXCEPT ![w] = queue]
    /\ Goto(w, "drain")
    /\ UNCHANGED << done, msg, task, order, owner >>

Drain(w) ==
    /\ pc[w] = "drain"
    /\ IF remaining[w] = << >>
       THEN /\ Goto(w, "ended")
            /\ UNCHANGED << remaining, task >>
       ELSE /\ remaining' = [remaining EXCEPT ![w] = Tail(@)]
            /\ task' = [t \in Tasks |-> IF t = Head(remaining[w]) THEN "finished" ELSE task[t]]
            /\ UNCHANGED pc
    /\ UNCHANGED << messages, done, msg, order, owner >>

Worker(w) == Test(w) \/ Pop(w) \/ Return(w) \/ Cancel(w) \/ Throw(w) \/ Purge(w) \/ Drain(w)

\* Nobody can count on it: it is not part of the fairness.
Spurious(w) ==
    /\ WakeSpuriously(w)
    /\ UNCHANGED << pool, task, order, owner >>

Next == \/ \E t \in Tasks : Push(t)
        \/ Destroy \/ Join
        \/ \E w \in Workers : Worker(w) \/ Spurious(w)

Spec == Init /\ [][Next]_vars

\* Threads that can run do run, tasks end, and a destructor goes on to its end.
Fairness == /\ \A w \in Workers : WF_vars(Worker(w))
            /\ WF_vars(Join)
FairSpec == Spec /\ Fairness

-----------------------------------------------------------------------------
(* Properties.                                                             *)

(* The variables keep their types, and only threads inside pop_wait() wait. *)
TypeOK ==
    /\ queue \in Seq(Tasks \cup {Done})
    /\ cancelled \in BOOLEAN /\ done \in BOOLEAN
    /\ pc \in [Workers -> {"test", "pop", "run", "cancel", "purge", "drain", "ended"}]
    /\ msg \in [Workers -> Tasks \cup {Done}]
    /\ remaining \in [Workers -> Seq(Tasks \cup {Done})]
    /\ task \in [Tasks -> {"new", "pushed", "running", "finished"}]
    /\ order \in Seq(Tasks)
    /\ owner \in {"open", "destroying", "joined"}
    /\ waiting \subseteq { w \in Workers : pc[w] = "pop" }

(* When the destructor has joined its threads every task that was pushed has
   been run: "only the deconstructor ensures the msg to be finished". *)
FinishedAtJoin ==
    owner = "joined" => \A t \in Tasks : task[t] \in {"new", "finished"}

(* pop_remaining() takes no lock.  It never finds anything to take as long as
   the tasks push no tasks, so that no two threads splice the list at once. *)
NothingToPurge ==
    \A w \in Workers : pc[w] = "purge" => queue = << >>

(* Tasks start in the order in which they were pushed. *)
StartInOrder ==
    [][\A j \in 1..Len(order) :
          task[order[j]] = "pushed" /\ task'[order[j]] # "pushed"
             => \A i \in 1..(j - 1) : task[order[i]] # "pushed"]_vars

(* A pool of which at least one worker survives does what its owner may rely
   on: the threads, the queue and its cancellation, and the purge at the end
   are not to be seen from outside. *)
Executor == INSTANCE TaskExecutor WITH Tasks <- Tasks, task <- task, order <- order, owner <- owner
RunsAsPromised == Executor!Spec

(* Every task that is pushed is run. *)
TasksFinish == \A t \in Tasks : task[t] = "pushed" ~> task[t] = "finished"

(* The destructor returns: no worker sleeps through the end. *)
DestructorEnds == owner = "destroying" ~> owner = "joined"
=============================================================================
