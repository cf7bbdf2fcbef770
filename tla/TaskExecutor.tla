---------------------------- MODULE TaskExecutor ----------------------------
(***************************************************************************)
(* What threadhelp::TaskThreadPool (clib/threadhelp.h) promises its owner, *)
(* without threads, queue or exceptions: tasks start in the order of their *)
(* push, each once, and the destructor returns when all have been run.     *)
(***************************************************************************)
EXTENDS Sequences, Naturals

CONSTANT Tasks

VARIABLES task,   \* task[t]: "new", "pushed", "running" or "finished"
          order,  \* the tasks in the order of their push
          owner   \* "open", "destroying" or "joined"

vars == << task, order, owner >>

Init ==
    /\ task = [t \in Tasks |-> "new"]
    /\ order = << >>
    /\ owner = "open"

push(t) ==
    /\ owner = "open" /\ task[t] = "new"
    /\ task' = [task EXCEPT ![t] = "pushed"]
    /\ order' = Append(order, t)
    /\ UNCHANGED owner

\* The i-th task starts, with none before it still to start.
Start(i) ==
    /\ task[order[i]] = "pushed"
    /\ \A j \in 1..(i - 1) : task[order[j]] # "pushed"
    /\ task' = [task EXCEPT ![order[i]] = "running"]
    /\ UNCHANGED << order, owner >>

Finish(t) ==
    /\ task[t] = "running"
    /\ task' = [task EXCEPT ![t] = "finished"]
    /\ UNCHANGED << order, owner >>

Destroy ==
    /\ owner = "open"
    /\ owner' = "destroying"
    /\ UNCHANGED << task, order >>

Return ==
    /\ owner = "destroying"
    /\ \A t \in Tasks : task[t] \in {"new", "finished"}
    /\ owner' = "joined"
    /\ UNCHANGED << task, order >>

Next == \/ \E t \in Tasks : push(t) \/ Finish(t)
        \/ \E i \in 1..Len(order) : Start(i)
        \/ Destroy \/ Return

Spec == Init /\ [][Next]_vars
=============================================================================
