--------------------------- MODULE TaskPoolProofs ---------------------------
(***************************************************************************)
(* Theorems about TaskPool, for any number of workers and tasks.           *)
(***************************************************************************)
EXTENDS TaskPool, TLAPS

Messages == Tasks \cup {Done}

-----------------------------------------------------------------------------
(* Types.                                                                  *)

LEMMA AppendType == \A S, m : \A s \in Seq(S) : m \in S => Append(s, m) \in Seq(S)
  OBVIOUS

LEMMA TailType == \A S : \A s \in Seq(S) : s # << >> => Head(s) \in S /\ Tail(s) \in Seq(S)
  OBVIOUS

LEMMA ShortTail ==
  ASSUME NEW S, NEW s \in Seq(S), s # << >>, Len(s) = 1
  PROVE  Tail(s) = << >>
  <1>1. Tail(s) \in Seq(S) /\ Len(Tail(s)) = 0
    OBVIOUS
  <1>2. \A t \in Seq(S) : Len(t) = 0 => t = << >>
    OBVIOUS
  <1> QED BY <1>1, <1>2

(* What push() does to the queue, whoever it wakes. *)
LEMMA PushType ==
  ASSUME TypeOK, NEW m \in Messages, push(m)
  PROVE  /\ queue' = Append(queue, m) /\ queue' \in Seq(Messages)
         /\ cancelled' = cancelled
         /\ waiting' \subseteq waiting
  <1>1. queue' = Append(queue, m) /\ cancelled' = cancelled /\ waiting' \subseteq waiting
    BY DEF push
  <1> QED BY <1>1, AppendType DEF TypeOK, Messages

LEMMA InitTypeOK == Init => TypeOK
  <1> SUFFICES ASSUME Init PROVE TypeOK
    OBVIOUS
  <1>1. << >> \in Seq(Tasks \cup {Done}) /\ << >> \in Seq(Tasks)
    OBVIOUS
  <1>2. remaining \in [Workers -> Seq(Tasks \cup {Done})]
    BY <1>1 DEF Init
  <1>3. msg \in [Workers -> Tasks \cup {Done}]
    BY DEF Init
  <1> QED BY <1>1, <1>2, <1>3 DEF Init, EmptyQueue, TypeOK

LEMMA NextTypeOK == TypeOK /\ [Next]_vars => TypeOK'
  <1> SUFFICES ASSUME TypeOK, [Next]_vars PROVE TypeOK'
    OBVIOUS
  <1>1. ASSUME NEW t \in Tasks, Push(t) PROVE TypeOK'
    <2>1. push(t) BY <1>1 DEF Push
    <2>2. queue' \in Seq(Messages) /\ cancelled' = cancelled /\ waiting' \subseteq waiting
      BY <2>1, PushType DEF Messages
    <2>3. order' \in Seq(Tasks)
      BY <1>1, AppendType DEF TypeOK, Push
    <2> QED BY <1>1, <2>2, <2>3 DEF TypeOK, Push, pool, Messages
  <1>2. ASSUME Destroy PROVE TypeOK'
    <2>1. push(Done) BY <1>2 DEF Destroy
    <2>2. queue' \in Seq(Messages) /\ cancelled' = cancelled /\ waiting' \subseteq waiting
      BY <2>1, PushType DEF Messages
    <2> QED BY <1>2, <2>2 DEF TypeOK, Destroy, pool, Messages
  <1>3. CASE Join
    BY <1>3 DEF TypeOK, Join, pool, messages
  <1>4. ASSUME NEW w \in Workers, Test(w) PROVE TypeOK'
    BY <1>4 DEF TypeOK, Test, Goto, messages
  <1>5. ASSUME NEW w \in Workers, Pop(w) PROVE TypeOK'
    <2>1. CASE pop_wait_blocks(w) /\ UNCHANGED << pc, msg, task >>
      BY <1>5, <2>1 DEF TypeOK, Pop, pop_wait_blocks
    <2>2. CASE pop_wait_throws(w) /\ Goto(w, "purge") /\ UNCHANGED << msg, task >>
      BY <1>5, <2>2 DEF TypeOK, Pop, pop_wait_throws, Goto, messages
    <2>3. CASE /\ pop_wait_returns(w)
               /\ Goto(w, "run")
               /\ msg' = [msg EXCEPT ![w] = Head(queue)]
               /\ task' = [t \in Tasks |-> IF t = Head(queue) THEN "running" ELSE task[t]]
      <3>1. queue # << >> /\ queue' = Tail(queue) /\ w \notin waiting
        BY <2>3 DEF pop_wait_returns
      <3>2. Head(queue) \in Tasks \cup {Done} /\ queue' \in Seq(Tasks \cup {Done})
        BY <3>1, TailType DEF TypeOK
      <3> QED BY <1>5, <2>3, <3>1, <3>2 DEF TypeOK, Pop, pop_wait_returns, Goto
    <2> QED BY <1>5, <2>1, <2>2, <2>3 DEF Pop
  <1>6. ASSUME NEW w \in Workers, Return(w) PROVE TypeOK'
    BY <1>6 DEF TypeOK, Return, SetDone, Goto, messages
  <1>7. ASSUME NEW w \in Workers, Cancel(w) PROVE TypeOK'
    BY <1>7 DEF TypeOK, Cancel, cancel, Goto
  <1>8. ASSUME NEW w \in Workers, Throw(w) PROVE TypeOK'
    BY <1>8 DEF TypeOK, Throw, Goto, messages
  <1>9. ASSUME NEW w \in Workers, Purge(w) PROVE TypeOK'
    BY <1>9 DEF TypeOK, Purge, pop_remaining, Goto
  <1>10. ASSUME NEW w \in Workers, Drain(w) PROVE TypeOK'
    <2>1. CASE remaining[w] = << >>
      BY <1>10, <2>1 DEF TypeOK, Drain, Goto, messages
    <2>2. CASE remaining[w] # << >>
      <3>1. Tail(remaining[w]) \in Seq(Tasks \cup {Done})
        BY <2>2, TailType DEF TypeOK
      <3> QED BY <1>10, <2>2, <3>1 DEF TypeOK, Drain, messages
    <2> QED BY <2>1, <2>2
  <1>11. ASSUME NEW w \in Workers, Spurious(w) PROVE TypeOK'
    BY <1>11 DEF TypeOK, Spurious, WakeSpuriously, pool
  <1>12. CASE UNCHANGED vars
    BY <1>12 DEF TypeOK, vars, pool, messages
  <1> QED
    BY <1>1, <1>2, <1>3, <1>4, <1>5, <1>6, <1>7, <1>8, <1>9, <1>10, <1>11, <1>12
       DEF Next, Worker

(* The variables keep their types, and only threads inside pop_wait() wait. *)
THEOREM PoolTypeCorrect == Spec => []TypeOK
  BY InitTypeOK, NextTypeOK, PTL DEF Spec

-----------------------------------------------------------------------------
(* The invariant.                                                          *)

(* The destructor's message is the last one, and nothing follows it. *)
DoneLast ==
    \A i \in 1..Len(queue) : queue[i] = Done => i = Len(queue) /\ owner # "open"

(* Worker w runs the destructor's message or has run it. *)
RunsDone(w) == pc[w] \in {"run", "cancel"} /\ msg[w] = Done

(* Once that message has been taken the queue is empty for good. *)
AfterDone ==
    done \/ cancelled \/ (\E w \in Workers : RunsDone(w))
      => queue = << >> /\ owner # "open"

(* Why a worker is where it is. *)
WorkerAt(w) ==
    /\ pc[w] = "purge" => done \/ cancelled
    /\ pc[w] = "drain" => (done \/ cancelled) /\ remaining[w] = << >>
    /\ pc[w] = "ended" => done \/ cancelled \/ Escapes(msg[w])
    /\ pc[w] = "cancel" => msg[w] = Done

Ending ==
    /\ DoneLast /\ AfterDone
    /\ \A w \in Workers : WorkerAt(w)
    /\ owner = "joined" => \A w \in Workers : pc[w] = "ended"

LEMMA InitEnding == Init => Ending
  BY DEF Init, EmptyQueue, Ending, DoneLast, AfterDone, RunsDone, WorkerAt

LEMMA NextEnding == TypeOK /\ Ending /\ [Next]_vars => Ending'
  <1> SUFFICES ASSUME TypeOK, Ending, [Next]_vars PROVE Ending'
    OBVIOUS
  <1> USE PoolAssumption
  <1>1. ASSUME NEW t \in Tasks, Push(t) PROVE Ending'
    <2>1. owner = "open" /\ owner' = "open" /\ UNCHANGED << done, pc, msg, remaining >>
      BY <1>1 DEF Push, pool
    <2>2. queue' = Append(queue, t) /\ cancelled' = cancelled
      BY <1>1, PushType DEF Push, Messages
    <2>3. DoneLast'
      BY <2>1, <2>2 DEF Ending, DoneLast, TypeOK
    <2>4. AfterDone'
      BY <2>1, <2>2 DEF Ending, AfterDone, RunsDone
    <2>5. ASSUME NEW w \in Workers PROVE WorkerAt(w)'
      BY <2>1, <2>2 DEF Ending, WorkerAt, Escapes
    <2> QED BY <2>1, <2>3, <2>4, <2>5 DEF Ending
  <1>2. ASSUME Destroy PROVE Ending'
    <2>1. owner = "open" /\ owner' = "destroying" /\ UNCHANGED << done, pc, msg, remaining >>
      BY <1>2 DEF Destroy, pool
    <2>2. queue' = Append(queue, Done) /\ cancelled' = cancelled
      BY <1>2, PushType DEF Destroy, Messages
    <2>3. DoneLast'
      BY <2>1, <2>2 DEF Ending, DoneLast, TypeOK
    <2>4. AfterDone'
      BY <2>1, <2>2 DEF Ending, AfterDone, RunsDone
    <2>5. ASSUME NEW w \in Workers PROVE WorkerAt(w)'
      BY <2>1, <2>2 DEF Ending, WorkerAt, Escapes
    <2> QED BY <2>1, <2>3, <2>4, <2>5 DEF Ending
  <1>3. CASE Join
    BY <1>3 DEF Ending, DoneLast, AfterDone, RunsDone, WorkerAt, Escapes, Join, pool, messages
  <1>4. ASSUME NEW w \in Workers, Test(w) PROVE Ending'
    BY <1>4 DEF TypeOK, Ending, DoneLast, AfterDone, RunsDone, WorkerAt, Escapes, Test, Goto, messages
  <1>5. ASSUME NEW w \in Workers, Pop(w) PROVE Ending'
    <2>0. UNCHANGED << done, remaining, owner, cancelled >>
      BY <1>5 DEF Pop, pop_wait_blocks, pop_wait_throws, pop_wait_returns, messages
    <2>1. CASE pop_wait_blocks(w) /\ UNCHANGED << pc, msg, task >>
      BY <2>0, <2>1 DEF Ending, DoneLast, AfterDone, RunsDone, WorkerAt, Escapes, pop_wait_blocks
    <2>2. CASE pop_wait_throws(w) /\ Goto(w, "purge") /\ UNCHANGED << msg, task >>
      BY <1>5, <2>0, <2>2
         DEF TypeOK, Ending, DoneLast, AfterDone, RunsDone, WorkerAt, Escapes, pop_wait_throws,
             Pop, Goto, messages
    <2>3. CASE /\ pop_wait_returns(w)
               /\ Goto(w, "run")
               /\ msg' = [msg EXCEPT ![w] = Head(queue)]
      <3>1. queue # << >> /\ queue' = Tail(queue) /\ ~cancelled
        BY <2>3 DEF pop_wait_returns
      <3>2. ~done /\ \A v \in Workers : ~RunsDone(v)
        BY <3>1 DEF Ending, AfterDone
      <3>3. /\ Len(queue') = Len(queue) - 1
            /\ \A i \in 1..Len(queue') : queue'[i] = queue[i + 1] /\ i + 1 \in 1..Len(queue)
            /\ 1 \in 1..Len(queue) /\ Head(queue) = queue[1]
        BY <3>1 DEF TypeOK
      <3>4. DoneLast'
        BY <2>0, <3>3 DEF Ending, DoneLast
      <3>5. Head(queue) = Done => queue' = << >> /\ owner # "open"
        <4>1. Head(queue) = Done => Len(queue) = 1 /\ owner # "open"
          BY <3>3 DEF Ending, DoneLast
        <4>2. Len(queue) = 1 => Tail(queue) = << >>
          BY <3>1, ShortTail DEF TypeOK
        <4> QED BY <3>1, <4>1, <4>2
      <3>6. AfterDone'
        BY <1>5, <2>0, <2>3, <3>1, <3>2, <3>5 DEF TypeOK, AfterDone, RunsDone, Goto
      <3>7. ASSUME NEW v \in Workers PROVE WorkerAt(v)'
        BY <1>5, <2>0, <2>3, <3>2 DEF TypeOK, Ending, WorkerAt, Escapes, Goto
      <3>8. owner' # "joined"
        BY <1>5, <2>0 DEF Ending, Pop
      <3> QED BY <3>4, <3>6, <3>7, <3>8 DEF Ending
    <2> QED BY <1>5, <2>1, <2>2, <2>3 DEF Pop
  <1>6. ASSUME NEW w \in Workers, Return(w) PROVE Ending'
    <2>1. UNCHANGED << queue, cancelled, msg, remaining, owner >>
      BY <1>6 DEF Return, SetDone, messages
    <2>2. CASE msg[w] = Done /\ done' = TRUE /\ Goto(w, "cancel")
      BY <1>6, <2>1, <2>2
         DEF TypeOK, Ending, DoneLast, AfterDone, RunsDone, WorkerAt, Escapes, Return, SetDone, Goto
    <2>3. CASE done' = done /\ Goto(w, "test")
      BY <1>6, <2>1, <2>3
         DEF TypeOK, Ending, DoneLast, AfterDone, RunsDone, WorkerAt, Escapes, Return, SetDone, Goto
    <2> QED BY <1>6, <2>2, <2>3 DEF Return, SetDone
  <1>7. ASSUME NEW w \in Workers, Cancel(w) PROVE Ending'
    <2>1. RunsDone(w)
      BY <1>7 DEF Cancel, Ending, WorkerAt, RunsDone
    <2>2. queue = << >> /\ owner # "open"
      BY <2>1 DEF Ending, AfterDone
    <2> QED
      BY <1>7, <2>2
         DEF TypeOK, Ending, DoneLast, AfterDone, RunsDone, WorkerAt, Escapes, Cancel, cancel, Goto
  <1>8. ASSUME NEW w \in Workers, Throw(w) PROVE Ending'
    BY <1>8
       DEF TypeOK, Ending, DoneLast, AfterDone, RunsDone, WorkerAt, Escapes, Throw, Goto, messages
  <1>9. ASSUME NEW w \in Workers, Purge(w) PROVE Ending'
    <2>1. (done \/ cancelled) /\ queue = << >> /\ owner # "open"
      BY <1>9 DEF Purge, Ending, WorkerAt, AfterDone
    <2>2. queue' = << >> /\ cancelled' = cancelled
      BY <1>9 DEF Purge, pop_remaining
    <2> QED
      BY <1>9, <2>1, <2>2
         DEF TypeOK, Ending, DoneLast, AfterDone, RunsDone, WorkerAt, Escapes, Purge, Goto
  <1>10. ASSUME NEW w \in Workers, Drain(w) PROVE Ending'
    <2>1. remaining[w] = << >> /\ (done \/ cancelled)
      BY <1>10 DEF Drain, Ending, WorkerAt
    <2> QED
      BY <1>10, <2>1
         DEF TypeOK, Ending, DoneLast, AfterDone, RunsDone, WorkerAt, Escapes, Drain, Goto, messages
  <1>11. ASSUME NEW w \in Workers, Spurious(w) PROVE Ending'
    BY <1>11
       DEF Ending, DoneLast, AfterDone, RunsDone, WorkerAt, Escapes, Spurious, WakeSpuriously, pool
  <1>12. CASE UNCHANGED vars
    BY <1>12
       DEF Ending, DoneLast, AfterDone, RunsDone, WorkerAt, Escapes, vars, pool, messages
  <1> QED
    BY <1>1, <1>2, <1>3, <1>4, <1>5, <1>6, <1>7, <1>8, <1>9, <1>10, <1>11, <1>12
       DEF Next, Worker

(* pop_remaining(), which takes no lock, never finds a message: when a worker
   purges, the destructor's message has been taken, and it was the last. *)
THEOREM PurgedEmpty == Spec => []NothingToPurge
  <1>1. Ending => NothingToPurge
    BY DEF Ending, WorkerAt, AfterDone, NothingToPurge
  <1> QED BY <1>1, InitTypeOK, NextTypeOK, InitEnding, NextEnding, PTL DEF Spec

-----------------------------------------------------------------------------
(* What becomes of the tasks.                                              *)

TaskAt(t) ==
    /\ task[t] = "pushed" => \E i \in 1..Len(queue) : queue[i] = t
    /\ task[t] = "running" => \E w \in Workers : pc[w] = "run" /\ msg[w] = t

(* A message is in one place: once in the queue, or with one worker. *)
Distinct ==
    /\ \A i, j \in 1..Len(queue) : queue[i] = queue[j] => i = j
    /\ \A i \in 1..Len(queue) : queue[i] \in Tasks => task[queue[i]] = "pushed"
    /\ \A w \in Workers : msg[w] \in Tasks => task[msg[w]] \in {"running", "finished"}
    /\ \A w, v \in Workers : msg[w] = msg[v] /\ msg[w] \in Tasks => w = v

Tracked == Distinct /\ \A t \in Tasks : TaskAt(t)

LEMMA AppendDistinct ==
  ASSUME NEW S, NEW s \in Seq(S), NEW m \in S,
         \A i \in 1..Len(s) : s[i] # m,
         \A i, j \in 1..Len(s) : s[i] = s[j] => i = j
  PROVE  \A i, j \in 1..Len(Append(s, m)) : Append(s, m)[i] = Append(s, m)[j] => i = j
  <1> SUFFICES ASSUME NEW i \in 1..Len(Append(s, m)), NEW j \in 1..Len(Append(s, m)),
                      Append(s, m)[i] = Append(s, m)[j]
               PROVE  i = j
    OBVIOUS
  <1>1. Len(Append(s, m)) = Len(s) + 1 /\ Len(s) \in Nat
    OBVIOUS
  <1>2. \A k \in 1..Len(s) : Append(s, m)[k] = s[k]
    OBVIOUS
  <1>3. Append(s, m)[Len(s) + 1] = m
    OBVIOUS
  <1>4. CASE i \in 1..Len(s) /\ j \in 1..Len(s)
    BY <1>2, <1>4
  <1>5. CASE i = Len(s) + 1 /\ j \in 1..Len(s)
    BY <1>2, <1>3, <1>5
  <1>6. CASE j = Len(s) + 1 /\ i \in 1..Len(s)
    BY <1>2, <1>3, <1>6
  <1> QED BY <1>1, <1>4, <1>5, <1>6

LEMMA InitTracked == Init => Tracked
  BY PoolAssumption DEF Init, EmptyQueue, Tracked, Distinct, TaskAt

(* A step that moves no message and interrupts no task. *)
LEMMA SameTracked ==
  ASSUME Tracked, UNCHANGED << queue, msg, task >>,
         \A v \in Workers : pc[v] = "run" => pc'[v] = "run"
  PROVE  Tracked'
  <1>1. Distinct'
    BY DEF Tracked, Distinct
  <1>2. ASSUME NEW t \in Tasks PROVE TaskAt(t)'
    BY DEF Tracked, TaskAt
  <1> QED BY <1>1, <1>2 DEF Tracked

(* A worker finishes its task. *)
LEMMA FinishTracked ==
  ASSUME TypeOK, Tracked, NEW w \in Workers, pc[w] = "run", msg[w] \in Tasks,
         UNCHANGED << queue, msg >>, NEW label, pc' = [pc EXCEPT ![w] = label],
         task' = [task EXCEPT ![msg[w]] = "finished"]
  PROVE  Tracked'
  <1>1. task[msg[w]] # "pushed"
    BY DEF Tracked, Distinct
  <1>2. /\ task'[msg[w]] = "finished"
        /\ \A u \in Tasks : u # msg[w] => task'[u] = task[u]
    BY DEF TypeOK
  <1>3. \A i \in 1..Len(queue) : queue[i] \in Tasks => task'[queue[i]] = "pushed"
    BY <1>1, <1>2 DEF Tracked, Distinct
  <1>4. \A v \in Workers : msg[v] \in Tasks => task'[msg[v]] \in {"running", "finished"}
    BY <1>2 DEF Tracked, Distinct
  <1>5. Distinct'
    BY <1>3, <1>4 DEF Tracked, Distinct
  <1>6. ASSUME NEW u \in Tasks PROVE TaskAt(u)'
    <2>1. CASE u = msg[w]
      BY <1>2, <2>1 DEF TaskAt
    <2>2. CASE u # msg[w]
      <3>1. task'[u] = "running" => \E v \in Workers : v # w /\ pc[v] = "run" /\ msg[v] = u
        BY <1>2, <2>2 DEF Tracked, TaskAt
      <3>2. \A v \in Workers : v # w => pc'[v] = pc[v]
        BY DEF TypeOK
      <3>3. task'[u] = "pushed" => \E i \in 1..Len(queue) : queue[i] = u
        BY <1>2, <2>2 DEF Tracked, TaskAt
      <3> QED BY <3>1, <3>2, <3>3 DEF TaskAt
    <2> QED BY <2>1, <2>2
  <1> QED BY <1>5, <1>6 DEF Tracked

LEMMA NextTracked == TypeOK /\ Ending /\ Tracked /\ [Next]_vars => Tracked'
  <1> SUFFICES ASSUME TypeOK, Ending, Tracked, [Next]_vars PROVE Tracked'
    OBVIOUS
  <1> USE PoolAssumption
  <1>1. ASSUME NEW t \in Tasks, Push(t) PROVE Tracked'
    <2>1. task[t] = "new" /\ task' = [task EXCEPT ![t] = "pushed"] /\ UNCHANGED << pc, msg >>
      BY <1>1 DEF Push, pool
    <2>2. queue' = Append(queue, t)
      BY <1>1, PushType DEF Push, Messages
    <2>3. /\ Len(queue') = Len(queue) + 1 /\ Len(queue) \in Nat
          /\ \A i \in 1..Len(queue) : queue'[i] = queue[i] /\ i \in 1..Len(queue')
          /\ queue'[Len(queue) + 1] = t
      BY <2>2 DEF TypeOK
    <2>4. \A i \in 1..Len(queue) : queue[i] # t
      BY <2>1 DEF Tracked, Distinct
    <2>5. \A i, j \in 1..Len(queue') : queue'[i] = queue'[j] => i = j
      BY <2>2, <2>4, AppendDistinct DEF TypeOK, Tracked, Distinct
    <2>6. ASSUME NEW i \in 1..Len(queue'), queue'[i] \in Tasks PROVE task'[queue'[i]] = "pushed"
      <3>1. CASE i \in 1..Len(queue)
        BY <2>1, <2>3, <2>6, <3>1 DEF TypeOK, Tracked, Distinct
      <3>2. CASE i = Len(queue) + 1
        BY <2>1, <2>3, <3>2 DEF TypeOK
      <3> QED BY <2>3, <3>1, <3>2
    <2>7. \A w \in Workers : msg'[w] \in Tasks => task'[msg'[w]] \in {"running", "finished"}
      BY <2>1 DEF TypeOK, Tracked, Distinct
    <2>8. Distinct'
      BY <2>1, <2>5, <2>6, <2>7 DEF Tracked, Distinct
    <2>9. ASSUME NEW u \in Tasks PROVE TaskAt(u)'
      <3>1. CASE u = t
        <4>1. task'[u] = "pushed"
          BY <2>1, <3>1 DEF TypeOK
        <4>2. \E i \in 1..Len(queue') : queue'[i] = u
          <5>1. Len(queue) + 1 \in 1..Len(queue')
            BY <2>3
          <5> QED BY <2>3, <3>1, <5>1
        <4> QED BY <4>1, <4>2 DEF TaskAt
      <3>2. CASE u # t
        <4>1. task'[u] = task[u]
          BY <2>1, <3>2 DEF TypeOK
        <4>2. (\E i \in 1..Len(queue) : queue[i] = u) => \E i \in 1..Len(queue') : queue'[i] = u
          BY <2>3
        <4> QED BY <2>1, <4>1, <4>2 DEF Tracked, TaskAt
      <3> QED BY <3>1, <3>2
    <2> QED BY <2>8, <2>9 DEF Tracked
  <1>2. ASSUME Destroy PROVE Tracked'
    <2>1. UNCHANGED << task, pc, msg >>
      BY <1>2 DEF Destroy, pool
    <2>2. queue' = Append(queue, Done)
      BY <1>2, PushType DEF Destroy, Messages
    <2>3. /\ Len(queue') = Len(queue) + 1 /\ Len(queue) \in Nat
          /\ \A i \in 1..Len(queue) : queue'[i] = queue[i] /\ i \in 1..Len(queue')
          /\ queue'[Len(queue) + 1] = Done
      BY <2>2 DEF TypeOK
    <2>4. \A i \in 1..Len(queue) : queue[i] # Done
      BY <1>2 DEF Ending, DoneLast, Destroy
    <2>5. \A i, j \in 1..Len(queue') : queue'[i] = queue'[j] => i = j
      BY <2>2, <2>4, AppendDistinct DEF TypeOK, Tracked, Distinct
    <2>6. \A i \in 1..Len(queue') : queue'[i] \in Tasks => task'[queue'[i]] = "pushed"
      BY <2>1, <2>3 DEF Tracked, Distinct
    <2>7. Distinct'
      BY <2>1, <2>5, <2>6 DEF Tracked, Distinct
    <2>8. ASSUME NEW u \in Tasks PROVE TaskAt(u)'
      <3>1. (\E i \in 1..Len(queue) : queue[i] = u) => \E i \in 1..Len(queue') : queue'[i] = u
        BY <2>3
      <3> QED BY <2>1, <3>1 DEF Tracked, TaskAt
    <2> QED BY <2>7, <2>8 DEF Tracked
  <1>3. CASE Join
    BY <1>3, SameTracked DEF Join, pool, messages
  <1>4. ASSUME NEW w \in Workers, Test(w) PROVE Tracked'
    <2>1. UNCHANGED << queue, msg, task >> /\ pc[w] = "test"
      BY <1>4 DEF Test, messages
    <2>2. \A v \in Workers : pc[v] = "run" => pc'[v] = "run"
      BY <1>4 DEF TypeOK, Test, Goto
    <2> QED BY <2>1, <2>2, SameTracked
  <1>5. ASSUME NEW w \in Workers, Pop(w) PROVE Tracked'
    <2>1. CASE pop_wait_blocks(w) /\ UNCHANGED << pc, msg, task >>
      BY <2>1, SameTracked DEF pop_wait_blocks
    <2>2. CASE pop_wait_throws(w) /\ Goto(w, "purge") /\ UNCHANGED << msg, task >>
      <3>1. \A v \in Workers : pc[v] = "run" => pc'[v] = "run"
        BY <1>5, <2>2 DEF TypeOK, Pop, Goto
      <3> QED BY <2>2, <3>1, SameTracked DEF pop_wait_throws, messages
    <2>3. CASE /\ pop_wait_returns(w)
               /\ Goto(w, "run")
               /\ msg' = [msg EXCEPT ![w] = Head(queue)]
               /\ task' = [t \in Tasks |-> IF t = Head(queue) THEN "running" ELSE task[t]]
      <3> DEFINE h == Head(queue)
      <3>1. queue # << >> /\ queue' = Tail(queue)
        BY <2>3 DEF pop_wait_returns
      <3>2. /\ Len(queue) \in Nat \ {0} /\ Len(queue') = Len(queue) - 1
            /\ \A i \in 1..Len(queue') : queue'[i] = queue[i + 1] /\ i + 1 \in 1..Len(queue)
            /\ 1 \in 1..Len(queue) /\ h = queue[1]
        BY <3>1 DEF TypeOK
      <3>3. /\ msg' = [msg EXCEPT ![w] = h]
            /\ task' = [t \in Tasks |-> IF t = h THEN "running" ELSE task[t]]
            /\ pc[w] = "pop" /\ pc' = [pc EXCEPT ![w] = "run"]
        BY <1>5, <2>3 DEF Pop, Goto
      <3> HIDE DEF h
      <3>4. \A i \in 1..Len(queue') : queue'[i] # h
        BY <3>2 DEF Tracked, Distinct
      <3>5. h \in Tasks => task[h] = "pushed"
        BY <3>2 DEF Tracked, Distinct
      <3>6. \A v \in Workers : h \in Tasks => msg[v] # h
        BY <3>5 DEF Tracked, Distinct
      <3>7. \A i, j \in 1..Len(queue') : queue'[i] = queue'[j] => i = j
        BY <3>2 DEF Tracked, Distinct
      <3>8. \A i \in 1..Len(queue') : queue'[i] \in Tasks => task'[queue'[i]] = "pushed"
        <4>1. \A i \in 1..Len(queue') : queue'[i] \in Tasks => task[queue'[i]] = "pushed"
          BY <3>2 DEF Tracked, Distinct
        <4>2. \A u \in Tasks : u # h => task'[u] = task[u]
          BY <3>3
        <4> QED BY <3>4, <4>1, <4>2
      <3>9. \A v \in Workers : msg'[v] \in Tasks => task'[msg'[v]] \in {"running", "finished"}
        BY <3>3, <3>6 DEF TypeOK, Tracked, Distinct
      <3>10. \A u, v \in Workers : msg'[u] = msg'[v] /\ msg'[u] \in Tasks => u = v
        BY <3>3, <3>6 DEF TypeOK, Tracked, Distinct
      <3>11. ASSUME NEW u \in Tasks PROVE TaskAt(u)'
        <4>1. CASE u = h
          BY <3>3, <4>1 DEF TypeOK, TaskAt
        <4>2. CASE u # h
          <5>1. task'[u] = task[u]
            BY <3>3, <4>2
          <5>2. ASSUME task[u] = "pushed" PROVE \E i \in 1..Len(queue') : queue'[i] = u
            <6>1. PICK i \in 1..Len(queue) : queue[i] = u
              BY <5>2 DEF Tracked, TaskAt
            <6>2. i # 1
              BY <3>2, <4>2, <6>1
            <6>3. i - 1 \in 1..Len(queue') /\ queue'[i - 1] = queue[(i - 1) + 1] /\ (i - 1) + 1 = i
              BY <3>2, <6>1, <6>2
            <6> QED BY <6>1, <6>3
          <5>3. ASSUME task[u] = "running" PROVE \E v \in Workers : pc'[v] = "run" /\ msg'[v] = u
            <6>1. PICK v \in Workers : pc[v] = "run" /\ msg[v] = u
              BY <5>3 DEF Tracked, TaskAt
            <6>2. v # w
              BY <3>3, <6>1
            <6> QED BY <3>3, <6>1, <6>2 DEF TypeOK
          <5> QED BY <5>1, <5>2, <5>3 DEF TaskAt
        <4> QED BY <4>1, <4>2
      <3> QED BY <3>7, <3>8, <3>9, <3>10, <3>11 DEF Tracked, Distinct
    <2> QED BY <1>5, <2>1, <2>2, <2>3 DEF Pop
  <1>6. ASSUME NEW w \in Workers, Return(w) PROVE Tracked'
    <2>1. UNCHANGED << queue, msg >> /\ pc[w] = "run"
      BY <1>6 DEF Return, SetDone, messages
    <2>2. CASE msg[w] = Done /\ Goto(w, "cancel") /\ UNCHANGED task
      <3>1. \A v \in Workers : v # w => pc'[v] = pc[v]
        BY <2>2 DEF TypeOK, Goto
      <3>2. \A v \in Workers : msg[v] \in Tasks => v # w
        BY <2>2
      <3>3. ASSUME NEW t \in Tasks PROVE TaskAt(t)'
        BY <2>1, <2>2, <3>1, <3>2 DEF Tracked, TaskAt
      <3>4. Distinct'
        BY <2>1, <2>2 DEF Tracked, Distinct
      <3> QED BY <3>3, <3>4 DEF Tracked
    <2>3. CASE msg[w] # Done /\ Goto(w, "test") /\ task' = [task EXCEPT ![msg[w]] = "finished"]
      <3>1. msg[w] \in Tasks
        BY <2>3 DEF TypeOK
      <3> QED BY <2>1, <2>3, <3>1, FinishTracked DEF Goto
    <2> QED BY <1>6, <2>2, <2>3 DEF Return, SetDone
  <1>7. ASSUME NEW w \in Workers, Cancel(w) PROVE Tracked'
    <2>1. UNCHANGED << queue, msg, task >>
      BY <1>7 DEF Cancel, cancel
    <2>2. \A v \in Workers : pc[v] = "run" => pc'[v] = "run"
      BY <1>7 DEF TypeOK, Cancel, Goto
    <2> QED BY <2>1, <2>2, SameTracked
  <1>8. ASSUME NEW w \in Workers, Throw(w) PROVE Tracked'
    <2>1. /\ UNCHANGED << queue, msg >> /\ pc[w] = "run" /\ msg[w] \in Tasks
          /\ Goto(w, "ended") /\ task' = [task EXCEPT ![msg[w]] = "finished"]
      BY <1>8 DEF Throw, messages, Escapes
    <2> QED BY <2>1, FinishTracked DEF Goto
  <1>9. ASSUME NEW w \in Workers, Purge(w) PROVE Tracked'
    <2>1. queue = << >>
      BY <1>9 DEF Purge, Ending, WorkerAt, AfterDone
    <2>2. queue' = queue
      BY <1>9, <2>1 DEF Purge, pop_remaining
    <2>3. \A v \in Workers : pc[v] = "run" => pc'[v] = "run"
      BY <1>9 DEF TypeOK, Purge, Goto
    <2> QED BY <1>9, <2>2, <2>3, SameTracked DEF Purge
  <1>10. ASSUME NEW w \in Workers, Drain(w) PROVE Tracked'
    <2>1. remaining[w] = << >>
      BY <1>10 DEF Drain, Ending, WorkerAt
    <2>2. \A v \in Workers : pc[v] = "run" => pc'[v] = "run"
      BY <1>10, <2>1 DEF TypeOK, Drain, Goto
    <2> QED BY <1>10, <2>1, <2>2, SameTracked DEF Drain, messages
  <1>11. ASSUME NEW w \in Workers, Spurious(w) PROVE Tracked'
    BY <1>11, SameTracked DEF Spurious, WakeSpuriously, pool
  <1>12. CASE UNCHANGED vars
    BY <1>12, SameTracked DEF vars, pool, messages
  <1> QED
    BY <1>1, <1>2, <1>3, <1>4, <1>5, <1>6, <1>7, <1>8, <1>9, <1>10, <1>11, <1>12
       DEF Next, Worker

(* As long as fewer tasks escape with an exception than there are workers
   (they cannot take one worker each), every task that was pushed has been
   run when the destructor returns. *)
THEOREM AllFinished ==
  ASSUME ~\E f \in [Workers -> { t \in Tasks : Escapes(t) }] :
             \A w, v \in Workers : f[w] = f[v] => w = v
  PROVE  Spec => []FinishedAtJoin
  <1>1. TypeOK /\ Ending /\ Tracked => FinishedAtJoin
    <2> SUFFICES ASSUME TypeOK, Ending, Tracked, owner = "joined", NEW t \in Tasks
                 PROVE  task[t] \in {"new", "finished"}
      BY DEF FinishedAtJoin
    <2>1. \A w \in Workers : pc[w] = "ended"
      BY DEF Ending
    <2>2. done \/ cancelled
      <3> SUFFICES ASSUME ~(done \/ cancelled) PROVE FALSE
        OBVIOUS
      <3>1. \A w \in Workers : Escapes(msg[w]) /\ msg[w] \in Tasks
        BY <2>1, PoolAssumption DEF Ending, WorkerAt, Escapes
      <3>2. msg \in [Workers -> { u \in Tasks : Escapes(u) }]
        BY <3>1 DEF TypeOK
      <3>3. \A w, v \in Workers : msg[w] = msg[v] => w = v
        BY <3>1 DEF Tracked, Distinct
      <3> QED BY <3>2, <3>3
    <2>3. queue = << >>
      BY <2>2 DEF Ending, AfterDone
    <2>4. task[t] # "pushed" /\ task[t] # "running"
      BY <2>1, <2>3 DEF Tracked, TaskAt
    <2> QED BY <2>4 DEF TypeOK
  <1> QED
    BY <1>1, InitTypeOK, NextTypeOK, InitEnding, NextEnding, InitTracked, NextTracked, PTL DEF Spec

-----------------------------------------------------------------------------
(* The order of the tasks.                                                 *)

Ordered ==
    /\ \A i, j \in 1..Len(order) : order[i] = order[j] => i = j
    /\ \A i \in 1..Len(order) : task[order[i]] # "new"
    /\ \A i, j \in 1..Len(queue) : \A a, b \in 1..Len(order) :
          queue[i] = order[a] /\ queue[j] = order[b] /\ i < j => a < b

LEMMA InitOrdered == Init => Ordered
  BY DEF Init, EmptyQueue, Ordered

(* A step that leaves queue and order alone and creates no task. *)
LEMMA SameOrdered ==
  ASSUME TypeOK, Ordered, UNCHANGED << queue, order >>,
         \A t \in Tasks : task[t] # "new" => task'[t] # "new"
  PROVE  Ordered'
  <1>1. \A i \in 1..Len(order) : order[i] \in Tasks
    BY DEF TypeOK
  <1> QED BY <1>1 DEF Ordered

LEMMA NextOrdered == TypeOK /\ Ending /\ Tracked /\ Ordered /\ [Next]_vars => Ordered'
  <1> SUFFICES ASSUME TypeOK, Ending, Tracked, Ordered, [Next]_vars PROVE Ordered'
    OBVIOUS
  <1> USE PoolAssumption
  <1>0. /\ Len(order) \in Nat /\ Len(queue) \in Nat
        /\ \A i \in 1..Len(order) : order[i] \in Tasks
    BY DEF TypeOK
  <1>1. ASSUME NEW t \in Tasks, Push(t) PROVE Ordered'
    <2>1. task[t] = "new" /\ task' = [task EXCEPT ![t] = "pushed"]
      BY <1>1 DEF Push
    <2>2. queue' = Append(queue, t) /\ order' = Append(order, t)
      BY <1>1, PushType DEF Push, Messages
    <2>3. /\ Len(queue') = Len(queue) + 1 /\ queue'[Len(queue) + 1] = t
          /\ \A i \in 1..Len(queue) : queue'[i] = queue[i] /\ queue[i] # t
      <3>1. \A i \in 1..Len(queue) : queue[i] # t
        BY <2>1 DEF Tracked, Distinct
      <3>2. /\ Len(queue') = Len(queue) + 1 /\ queue'[Len(queue) + 1] = t
            /\ \A i \in 1..Len(queue) : queue'[i] = queue[i]
        BY <2>2 DEF TypeOK
      <3> QED BY <3>1, <3>2
    <2>4. /\ Len(order') = Len(order) + 1 /\ order'[Len(order) + 1] = t
          /\ \A i \in 1..Len(order) : order'[i] = order[i] /\ order[i] # t
      BY <2>1, <2>2 DEF TypeOK, Ordered
    <2>5. \A i, j \in 1..Len(order') : order'[i] = order'[j] => i = j
      <3>1. order \in Seq(Tasks) /\ \A i \in 1..Len(order) : order[i] # t
        BY <2>4 DEF TypeOK
      <3>2. \A i, j \in 1..Len(order) : order[i] = order[j] => i = j
        BY DEF Ordered
      <3>3. \A i, j \in 1..Len(Append(order, t)) :
               Append(order, t)[i] = Append(order, t)[j] => i = j
        BY <3>1, <3>2, AppendDistinct
      <3> QED BY <2>2, <3>3
    <2>6. ASSUME NEW i \in 1..Len(order') PROVE task'[order'[i]] # "new"
      <3>1. CASE i \in 1..Len(order)
        BY <1>0, <2>1, <2>4, <3>1 DEF TypeOK, Ordered
      <3>2. CASE i = Len(order) + 1
        BY <2>1, <2>4, <3>2 DEF TypeOK
      <3> QED BY <1>0, <2>4, <3>1, <3>2
    <2>7. ASSUME NEW i \in 1..Len(queue'), NEW j \in 1..Len(queue'),
                 NEW a \in 1..Len(order'), NEW b \in 1..Len(order'),
                 queue'[i] = order'[a], queue'[j] = order'[b], i < j
          PROVE  a < b
      <3>1. i \in 1..Len(queue)
        BY <1>0, <2>3, <2>7
      <3>2. a \in 1..Len(order)
        BY <1>0, <2>3, <2>4, <2>7, <3>1
      <3>3. CASE b = Len(order) + 1
        BY <1>0, <3>2, <3>3
      <3>4. CASE b \in 1..Len(order)
        <4>1. j \in 1..Len(queue)
          <5>1. order'[b] # t
            BY <2>4, <3>4
          <5>2. j # Len(queue) + 1
            BY <2>3, <2>7, <5>1
          <5> QED BY <1>0, <2>3, <2>7, <5>2
        <4> QED BY <2>3, <2>4, <2>7, <3>1, <3>2, <3>4, <4>1 DEF Ordered
      <3> QED BY <1>0, <2>4, <3>3, <3>4
    <2> QED BY <2>5, <2>6, <2>7 DEF Ordered
  <1>2. ASSUME Destroy PROVE Ordered'
    <2>1. UNCHANGED << task, order >>
      BY <1>2 DEF Destroy
    <2>2. queue' = Append(queue, Done)
      BY <1>2, PushType DEF Destroy, Messages
    <2>3. /\ Len(queue') = Len(queue) + 1 /\ queue'[Len(queue) + 1] = Done
          /\ \A i \in 1..Len(queue) : queue'[i] = queue[i]
      BY <2>2 DEF TypeOK
    <2>4. \A i \in 1..Len(queue'), a \in 1..Len(order) : queue'[i] = order[a] => i \in 1..Len(queue)
      BY <1>0, <2>3
    <2> QED BY <2>1, <2>3, <2>4 DEF Ordered
  <1>3. CASE Join
    BY <1>3, SameOrdered DEF Join, messages
  <1>4. ASSUME NEW w \in Workers, Test(w) PROVE Ordered'
    BY <1>4, SameOrdered DEF Test, messages
  <1>5. ASSUME NEW w \in Workers, Pop(w) PROVE Ordered'
    <2>1. CASE (pop_wait_blocks(w) \/ pop_wait_throws(w)) /\ UNCHANGED task
      BY <1>5, <2>1, SameOrdered DEF Pop, pop_wait_blocks, pop_wait_throws, messages
    <2>2. CASE /\ pop_wait_returns(w)
               /\ task' = [t \in Tasks |-> IF t = Head(queue) THEN "running" ELSE task[t]]
      <3>1. queue # << >> /\ queue' = Tail(queue) /\ order' = order
        BY <1>5, <2>2 DEF Pop, pop_wait_returns
      <3>2. \A i \in 1..Len(queue') : queue'[i] = queue[i + 1] /\ i + 1 \in 1..Len(queue)
        BY <3>1 DEF TypeOK
      <3>3. \A i \in 1..Len(order) : task'[order[i]] # "new"
        BY <1>0, <2>2 DEF Ordered
      <3>4. ASSUME NEW i \in 1..Len(queue'), NEW j \in 1..Len(queue'),
                   NEW a \in 1..Len(order), NEW b \in 1..Len(order),
                   queue'[i] = order[a], queue'[j] = order[b], i < j
            PROVE  a < b
        <4>1. queue[i + 1] = order[a] /\ queue[j + 1] = order[b] /\ i + 1 < j + 1
          BY <3>2, <3>4
        <4> QED BY <3>2, <4>1 DEF Ordered
      <3> QED BY <3>1, <3>3, <3>4 DEF Ordered
    <2> QED BY <1>5, <2>1, <2>2 DEF Pop
  <1>6. ASSUME NEW w \in Workers, Return(w) PROVE Ordered'
    BY <1>6, SameOrdered DEF Return, SetDone, messages, TypeOK
  <1>7. ASSUME NEW w \in Workers, Cancel(w) PROVE Ordered'
    BY <1>7, SameOrdered DEF Cancel, cancel
  <1>8. ASSUME NEW w \in Workers, Throw(w) PROVE Ordered'
    BY <1>8, SameOrdered DEF Throw, messages, TypeOK
  <1>9. ASSUME NEW w \in Workers, Purge(w) PROVE Ordered'
    <2>1. queue = << >>
      BY <1>9 DEF Purge, Ending, WorkerAt, AfterDone
    <2> QED BY <1>9, <2>1, SameOrdered DEF Purge, pop_remaining
  <1>10. ASSUME NEW w \in Workers, Drain(w) PROVE Ordered'
    <2>1. remaining[w] = << >>
      BY <1>10 DEF Drain, Ending, WorkerAt
    <2> QED BY <1>10, <2>1, SameOrdered DEF Drain, messages
  <1>11. ASSUME NEW w \in Workers, Spurious(w) PROVE Ordered'
    BY <1>11, SameOrdered DEF Spurious, WakeSpuriously
  <1>12. CASE UNCHANGED vars
    BY <1>12, SameOrdered DEF vars, pool, messages
  <1> QED
    BY <1>1, <1>2, <1>3, <1>4, <1>5, <1>6, <1>7, <1>8, <1>9, <1>10, <1>11, <1>12
       DEF Next, Worker

(* A task leaves "pushed" only at the head of the queue. *)
LEMMA StartsAtHead ==
  ASSUME TypeOK, Ending, Tracked, [Next]_vars,
         NEW t \in Tasks, task[t] = "pushed", task'[t] # "pushed"
  PROVE  queue # << >> /\ t = Head(queue)
  <1> USE PoolAssumption
  <1>1. ASSUME NEW u \in Tasks, Push(u) PROVE FALSE
    BY <1>1 DEF Push, TypeOK
  <1>2. CASE Destroy \/ Join
    BY <1>2 DEF Destroy, Join
  <1>3. ASSUME NEW w \in Workers, Test(w) \/ Cancel(w) \/ Purge(w) \/ Spurious(w) PROVE FALSE
    BY <1>3 DEF Test, Cancel, Purge, Spurious
  <1>4. ASSUME NEW w \in Workers, Pop(w) PROVE queue # << >> /\ t = Head(queue)
    BY <1>4 DEF Pop, pop_wait_returns
  <1>5. ASSUME NEW w \in Workers, Return(w) \/ Throw(w) PROVE FALSE
    <2>1. task' = [task EXCEPT ![msg[w]] = "finished"] /\ msg[w] \in Tasks
      BY <1>5 DEF Return, SetDone, Throw, Escapes, TypeOK
    <2>2. task[msg[w]] # "pushed"
      BY <2>1 DEF Tracked, Distinct
    <2> QED BY <2>1, <2>2 DEF TypeOK
  <1>6. ASSUME NEW w \in Workers, Drain(w) PROVE FALSE
    BY <1>6 DEF Drain, Ending, WorkerAt
  <1>7. CASE UNCHANGED vars
    BY <1>7 DEF vars
  <1> QED BY <1>1, <1>2, <1>3, <1>4, <1>5, <1>6, <1>7 DEF Next, Worker

(* Tasks start in the order of their push. *)
THEOREM InOrder == Spec => StartInOrder
  <1> DEFINE Step == \A j \in 1..Len(order) :
                        task[order[j]] = "pushed" /\ task'[order[j]] # "pushed"
                          => \A i \in 1..(j - 1) : task[order[i]] # "pushed"
  <1>1. TypeOK /\ Ending /\ Tracked /\ Ordered /\ [Next]_vars => [Step]_vars
    <2> SUFFICES ASSUME TypeOK, Ending, Tracked, Ordered, [Next]_vars,
                        NEW j \in 1..Len(order),
                        task[order[j]] = "pushed", task'[order[j]] # "pushed",
                        NEW i \in 1..(j - 1), task[order[i]] = "pushed"
                 PROVE  FALSE
      OBVIOUS
    <2>1. i \in 1..Len(order) /\ order[i] \in Tasks /\ order[j] \in Tasks /\ i < j
      BY DEF TypeOK
    <2>2. 1 \in 1..Len(queue) /\ queue[1] = order[j]
      BY <2>1, StartsAtHead DEF TypeOK
    <2>3. PICK k \in 1..Len(queue) : queue[k] = order[i]
      BY <2>1 DEF Tracked, TaskAt
    <2>4. k # 1
      BY <2>1, <2>2, <2>3 DEF Ordered
    <2> QED BY <2>1, <2>2, <2>3, <2>4 DEF Ordered
  <1> QED
    BY <1>1, InitTypeOK, NextTypeOK, InitEnding, NextEnding, InitTracked, NextTracked,
       InitOrdered, NextOrdered, PTL DEF Spec, StartInOrder

-----------------------------------------------------------------------------
(* The pool implements TaskExecutor.                                       *)

Running ==
    \A w \in Workers : msg[w] \in Tasks /\ pc[w] = "run" => task[msg[w]] = "running"

LEMMA InitRunning == Init => Running
  BY DEF Init, Running

LEMMA NextRunning == TypeOK /\ Ending /\ Tracked /\ Running /\ [Next]_vars => Running'
  <1> SUFFICES ASSUME TypeOK, Ending, Tracked, Running, [Next]_vars PROVE Running'
    OBVIOUS
  <1> USE PoolAssumption
  <1>1. ASSUME NEW t \in Tasks, Push(t) PROVE Running'
    BY <1>1 DEF TypeOK, Running, Push, pool
  <1>2. CASE Destroy \/ Join
    BY <1>2 DEF Running, Destroy, Join, pool
  <1>3. ASSUME NEW w \in Workers, Test(w) \/ Cancel(w) \/ Purge(w) PROVE Running'
    BY <1>3 DEF TypeOK, Running, Test, Cancel, Purge, Goto
  <1>4. ASSUME NEW w \in Workers, Pop(w) PROVE Running'
    <2>1. CASE UNCHANGED << pc, msg, task >>
      BY <2>1 DEF Running
    <2>2. CASE Goto(w, "purge") /\ UNCHANGED << msg, task >>
      BY <2>2 DEF TypeOK, Running, Goto
    <2>3. CASE /\ Goto(w, "run")
               /\ msg' = [msg EXCEPT ![w] = Head(queue)]
               /\ task' = [t \in Tasks |-> IF t = Head(queue) THEN "running" ELSE task[t]]
      BY <2>3 DEF TypeOK, Running, Goto
    <2> QED BY <1>4, <2>1, <2>2, <2>3 DEF Pop
  <1>5. ASSUME NEW w \in Workers, Return(w) \/ Throw(w) PROVE Running'
    <2>1. /\ msg' = msg /\ pc[w] = "run" /\ pc' \in { [pc EXCEPT ![w] = l] : l \in {"test", "cancel", "ended"} }
          /\ task' = IF msg[w] = Done THEN task ELSE [task EXCEPT ![msg[w]] = "finished"]
      BY <1>5 DEF Return, SetDone, Throw, Escapes, Goto
    <2>2. ASSUME NEW v \in Workers, msg'[v] \in Tasks, pc'[v] = "run"
          PROVE  task'[msg'[v]] = "running"
      <3>1. v # w /\ pc[v] = "run" /\ msg[v] \in Tasks
        BY <2>1, <2>2 DEF TypeOK
      <3>2. msg[v] # msg[w]
        BY <3>1 DEF Tracked, Distinct
      <3> QED BY <2>1, <3>1, <3>2 DEF TypeOK, Running
    <2> QED BY <2>2 DEF Running
  <1>6. ASSUME NEW w \in Workers, Drain(w) PROVE Running'
    <2>1. remaining[w] = << >>
      BY <1>6 DEF Drain, Ending, WorkerAt
    <2> QED BY <1>6, <2>1 DEF TypeOK, Running, Drain, Goto
  <1>7. ASSUME NEW w \in Workers, Spurious(w) PROVE Running'
    BY <1>7 DEF Running, Spurious, pool
  <1>8. CASE UNCHANGED vars
    BY <1>8 DEF Running, vars, pool
  <1> QED BY <1>1, <1>2, <1>3, <1>4, <1>5, <1>6, <1>7, <1>8 DEF Next, Worker

(* Every task that has been pushed is in order. *)
Complete ==
    \A t \in Tasks : task[t] # "new" => \E i \in 1..Len(order) : order[i] = t

LEMMA InitComplete == Init => Complete
  BY DEF Init, Complete

LEMMA NextComplete == TypeOK /\ Ending /\ Tracked /\ Complete /\ [Next]_vars => Complete'
  <1> SUFFICES ASSUME TypeOK, Ending, Tracked, Complete, [Next]_vars PROVE Complete'
    OBVIOUS
  <1> USE PoolAssumption
  <1>1. ASSUME NEW t \in Tasks, Push(t) PROVE Complete'
    <2>1. order' = Append(order, t) /\ task' = [task EXCEPT ![t] = "pushed"]
      BY <1>1 DEF Push
    <2>2. /\ Len(order') = Len(order) + 1 /\ Len(order) \in Nat /\ order'[Len(order) + 1] = t
          /\ \A i \in 1..Len(order) : order'[i] = order[i] /\ i \in 1..Len(order')
      BY <2>1 DEF TypeOK
    <2>3. ASSUME NEW u \in Tasks, task'[u] # "new" PROVE \E i \in 1..Len(order') : order'[i] = u
      <3>1. CASE u = t
        BY <2>2, <3>1
      <3>2. CASE u # t
        <4>1. PICK i \in 1..Len(order) : order[i] = u
          BY <2>1, <2>3, <3>2 DEF TypeOK, Complete
        <4> QED BY <2>2, <4>1
      <3> QED BY <3>1, <3>2
    <2> QED BY <2>3 DEF Complete
  <1>2. ASSUME order' = order, \A t \in Tasks : task[t] = "new" => task'[t] = "new"
        PROVE  Complete'
    BY <1>2 DEF Complete
  <1>3. ASSUME UNCHANGED << order, task >> PROVE Complete'
    BY <1>3 DEF Complete
  <1>4. CASE Destroy \/ Join
    BY <1>3, <1>4 DEF Destroy, Join
  <1>5. ASSUME NEW w \in Workers, Test(w) \/ Cancel(w) \/ Purge(w) \/ Spurious(w) PROVE Complete'
    BY <1>3, <1>5 DEF Test, Cancel, Purge, Spurious
  <1>6. ASSUME NEW w \in Workers, Pop(w) PROVE Complete'
    <2>1. CASE UNCHANGED task
      BY <1>3, <1>6, <2>1 DEF Pop
    <2>2. CASE /\ pop_wait_returns(w)
               /\ task' = [t \in Tasks |-> IF t = Head(queue) THEN "running" ELSE task[t]]
      <3>1. 1 \in 1..Len(queue) /\ Head(queue) = queue[1]
        BY <2>2 DEF TypeOK, pop_wait_returns
      <3>2. Head(queue) \in Tasks => task[Head(queue)] = "pushed"
        BY <3>1 DEF Tracked, Distinct
      <3> QED BY <1>2, <1>6, <2>2, <3>2 DEF Pop
    <2> QED BY <1>6, <2>1, <2>2 DEF Pop
  <1>7. ASSUME NEW w \in Workers, Return(w) \/ Throw(w) PROVE Complete'
    <2>1. order' = order /\ task' = IF msg[w] = Done THEN task ELSE [task EXCEPT ![msg[w]] = "finished"]
      BY <1>7 DEF Return, SetDone, Throw, Escapes
    <2>2. msg[w] \in Tasks => task[msg[w]] # "new"
      BY DEF Tracked, Distinct
    <2> QED BY <1>2, <2>1, <2>2 DEF TypeOK
  <1>8. ASSUME NEW w \in Workers, Drain(w) PROVE Complete'
    <2>1. remaining[w] = << >>
      BY <1>8 DEF Drain, Ending, WorkerAt
    <2> QED BY <1>3, <1>8, <2>1 DEF Drain
  <1>9. CASE UNCHANGED vars
    BY <1>3, <1>9 DEF vars
  <1> QED BY <1>1, <1>4, <1>5, <1>6, <1>7, <1>8, <1>9 DEF Next, Worker

(* A worker that takes the next message starts the next task, or only the
   destructor's message. *)
LEMMA PopStarts ==
  ASSUME TypeOK, Ending, Tracked, Ordered, Complete, NEW w \in Workers, Pop(w)
  PROVE  (\E i \in 1..Len(order) : Executor!Start(i)) \/ UNCHANGED Executor!vars
  <1> USE PoolAssumption
  <1>0. UNCHANGED << order, owner >>
    BY DEF Pop
  <1>1. CASE UNCHANGED task
    BY <1>0, <1>1 DEF Executor!vars
  <1>2. CASE /\ pop_wait_returns(w)
             /\ task' = [t \in Tasks |-> IF t = Head(queue) THEN "running" ELSE task[t]]
    <2>1. 1 \in 1..Len(queue) /\ Head(queue) = queue[1] /\ queue[1] \in Tasks \cup {Done}
      BY <1>2 DEF TypeOK, pop_wait_returns
    <2>2. CASE queue[1] = Done
      <3>1. task' = task
        BY <1>2, <2>1, <2>2 DEF TypeOK
      <3> QED BY <1>1, <3>1
    <2>3. CASE queue[1] \in Tasks
      <3>1. task[queue[1]] = "pushed"
        BY <2>1, <2>3 DEF Tracked, Distinct
      <3>2. PICK i \in 1..Len(order) : order[i] = queue[1]
        BY <2>3, <3>1 DEF Complete
      <3>3. task' = [task EXCEPT ![order[i]] = "running"]
        <4>1. task \in [Tasks -> {"new", "pushed", "running", "finished"}]
          BY DEF TypeOK
        <4>2. task' = [t \in Tasks |-> IF t = order[i] THEN "running" ELSE task[t]]
          BY <1>2, <2>1, <3>2
        <4> QED BY <4>1, <4>2
      <3>4. ASSUME NEW j \in 1..(i - 1), task[order[j]] = "pushed" PROVE FALSE
        <4>1. j \in 1..Len(order) /\ order[j] \in Tasks /\ j < i
          BY <3>2 DEF TypeOK
        <4>2. PICK k \in 1..Len(queue) : queue[k] = order[j]
          BY <3>4, <4>1 DEF Tracked, TaskAt
        <4>3. k # 1
          BY <3>2, <4>1, <4>2 DEF Ordered
        <4> QED BY <2>1, <3>2, <4>1, <4>2, <4>3 DEF Ordered
      <3>5. Executor!Start(i)
        BY <1>0, <3>1, <3>2, <3>3, <3>4 DEF Executor!Start
      <3> QED BY <3>5
    <2> QED BY <2>1, <2>2, <2>3
  <1> QED BY <1>1, <1>2 DEF Pop

LEMMA NextExecutor ==
  ASSUME TypeOK, Ending, Tracked, Ordered, Running, Complete, FinishedAtJoin', [Next]_vars
  PROVE  [Executor!Next]_Executor!vars
  <1> USE PoolAssumption
  <1>1. ASSUME NEW t \in Tasks, Push(t) PROVE Executor!push(t)
    BY <1>1 DEF Push, Executor!push
  <1>2. ASSUME Destroy PROVE Executor!Destroy
    BY <1>2 DEF Destroy, Executor!Destroy
  <1>3. ASSUME Join PROVE Executor!Return
    <2>1. task' = task /\ order' = order /\ owner = "destroying" /\ owner' = "joined"
      BY <1>3 DEF Join
    <2>2. \A t \in Tasks : task[t] \in {"new", "finished"}
      BY <2>1 DEF FinishedAtJoin
    <2> QED BY <2>1, <2>2 DEF Executor!Return
  <1>4. ASSUME NEW w \in Workers, Return(w) \/ Throw(w)
        PROVE  (\E t \in Tasks : Executor!Finish(t)) \/ UNCHANGED Executor!vars
    <2>1. CASE msg[w] = Done
      BY <1>4, <2>1 DEF Return, SetDone, Throw, Escapes, Executor!vars
    <2>2. CASE msg[w] # Done
      <3>1. msg[w] \in Tasks /\ pc[w] = "run"
        BY <1>4, <2>2 DEF Return, SetDone, Throw, TypeOK
      <3>2. task[msg[w]] = "running"
        BY <3>1 DEF Running
      <3>3. task' = [task EXCEPT ![msg[w]] = "finished"] /\ UNCHANGED << order, owner >>
        BY <1>4, <2>2 DEF Return, SetDone, Throw
      <3>4. Executor!Finish(msg[w])
        BY <3>2, <3>3 DEF Executor!Finish
      <3> QED BY <3>1, <3>4
    <2> QED BY <2>1, <2>2
  <1>5. ASSUME NEW w \in Workers, Test(w) \/ Cancel(w) \/ Purge(w) \/ Spurious(w)
        PROVE  UNCHANGED Executor!vars
    BY <1>5 DEF Test, Cancel, Purge, Spurious, Executor!vars
  <1>6. ASSUME NEW w \in Workers, Drain(w) PROVE UNCHANGED Executor!vars
    <2>1. remaining[w] = << >>
      BY <1>6 DEF Drain, Ending, WorkerAt
    <2> QED BY <1>6, <2>1 DEF Drain, Executor!vars
  <1>7. CASE UNCHANGED vars
    BY <1>7 DEF vars, Executor!vars
  <1> QED
    BY <1>1, <1>2, <1>3, <1>4, <1>5, <1>6, <1>7, PopStarts DEF Next, Worker, Executor!Next

(* Under the assumption of AllFinished the pool is a TaskExecutor: its owner
   sees nothing of the threads, of the cancelled queue and of the purge. *)
THEOREM Implements ==
  ASSUME ~\E f \in [Workers -> { t \in Tasks : Escapes(t) }] :
             \A w, v \in Workers : f[w] = f[v] => w = v
  PROVE  Spec => RunsAsPromised
  <1>1. Init => Executor!Init
    BY DEF Init, Executor!Init
  <1>2. TypeOK /\ Ending /\ Tracked /\ Ordered /\ Running /\ Complete /\ FinishedAtJoin' /\ [Next]_vars
          => [Executor!Next]_Executor!vars
    BY NextExecutor
  <1>3. Spec => []FinishedAtJoin
    BY AllFinished
  <1> QED
    BY <1>1, <1>2, <1>3, InitTypeOK, NextTypeOK, InitEnding, NextEnding, InitTracked, NextTracked,
       InitOrdered, NextOrdered, InitRunning, NextRunning, InitComplete, NextComplete, PTL
       DEF Spec, RunsAsPromised, Executor!Spec

=============================================================================
