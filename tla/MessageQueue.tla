---------------------------- MODULE MessageQueue ----------------------------
(***************************************************************************)
(* Clib::message_queue (clib/message_queue.h): a FIFO queue with a mutex,  *)
(* a condition variable and a cancel flag.  Every operation but the wait   *)
(* holds the mutex from its first to its last step, and is one step here.  *)
(***************************************************************************)
EXTENDS Sequences

VARIABLES queue,      \* _queue
          cancelled,  \* _cancel
          waiting     \* the threads that wait for _notifier

messages == << queue, cancelled, waiting >>

EmptyQueue == queue = << >> /\ cancelled = FALSE /\ waiting = {}

\* Bug: nobody is woken.
pushSilently(m) ==
    /\ queue' = Append(queue, m)
    /\ UNCHANGED << cancelled, waiting >>

\* push() and push_move(): notify_one() wakes any one of the waiting threads.
push(m) ==
    /\ queue' = Append(queue, m)
    /\ IF waiting = {} THEN UNCHANGED waiting ELSE \E t \in waiting : waiting' = waiting \ {t}
    /\ UNCHANGED cancelled

\* Bug: wakes one of the waiting threads only.
cancelOne ==
    /\ cancelled' = TRUE
    /\ IF waiting = {} THEN UNCHANGED waiting ELSE \E t \in waiting : waiting' = waiting \ {t}
    /\ UNCHANGED queue

\* cancel() wakes all of them.
cancel ==
    /\ cancelled' = TRUE
    /\ waiting' = {}
    /\ UNCHANGED queue

\* pop_wait() of thread t has to wait; it tests again when it is woken.
pop_wait_blocks(t) ==
    /\ t \notin waiting
    /\ queue = << >> /\ ~cancelled
    /\ waiting' = waiting \cup {t}
    /\ UNCHANGED << queue, cancelled >>

\* pop_wait() of thread t throws Canceled, whatever is in the queue.
pop_wait_throws(t) ==
    /\ t \notin waiting
    /\ cancelled
    /\ UNCHANGED messages

\* pop_wait() of thread t returns Head(queue).
pop_wait_returns(t) ==
    /\ t \notin waiting
    /\ queue # << >> /\ ~cancelled
    /\ queue' = Tail(queue)
    /\ UNCHANGED << cancelled, waiting >>

\* The standard allows a wait to end for no reason.
WakeSpuriously(t) ==
    /\ t \in waiting
    /\ waiting' = waiting \ {t}
    /\ UNCHANGED << queue, cancelled >>

\* pop_remaining() takes what is left, cancelled or not.
pop_remaining ==
    /\ queue' = << >>
    /\ UNCHANGED << cancelled, waiting >>
=============================================================================
