--------------------------- MODULE ScriptScheduler ---------------------------
(***************************************************************************)
(* The script scheduler of the POL core (pol-core/pol/scrsched.cpp) with   *)
(* the parts of the executors it works on: the blocking state, hold list   *)
(* membership and event queue length of module/osmod.cpp, the parent/child *)
(* pointers of uoexec.h, the run flags and debugger states of              *)
(* bscript/executor.cpp, process.kill() of exscrobj.cpp and the debugger   *)
(* commands of poldbg.cpp.                                                 *)
(*                                                                         *)
(* One thread, scripts_thread, runs step_scripts() with the PolLock held;  *)
(* every other thread touches executors only while it holds the same lock, *)
(* so its actions happen while pc = "idle".  Inside a pass everything is   *)
(* done by the scripts themselves, one instruction at a time.              *)
(*                                                                         *)
(* An executor is an address: Exec is the set of addresses the allocator   *)
(* hands out, none of them twice.  Touching a deleted executor is          *)
(* undefined behaviour: uaf records that it happened and the model claims  *)
(* nothing about what the program does afterwards.                         *)
(***************************************************************************)
EXTENDS Integers, Sequences, Functions

CONSTANTS
  Exec,        \* addresses of UOExecutor objects
  None,        \* the null pointer
  MaxClock,    \* bound: the last polclock() tick
  Durations,   \* the sleep lengths, in ticks, that scripts ask for
  MaxSlice,    \* bound: the largest priority / priority_divide
  MaxEvents,   \* max_eventqueue_size
  Killable,    \* executors that may be killed
  Debuggable   \* executors that a debugger may be attached to

ASSUME NoneAssumption == None \notin Exec
ASSUME BoundsAssumption ==
  /\ MaxClock \in Nat \ {0}
  /\ Durations \subseteq Nat
  /\ MaxSlice \in Nat \ {0}
  /\ MaxEvents \in Nat
ASSUME ActorsAssumption == Killable \subseteq Exec /\ Debuggable \subseteq Exec

VARIABLES
  life,              \* unborn, live or deleted
  runlist, ranlist,  \* the deques of executors to run in this and the next pass
  holdlist,          \* blocked with a timeout: a multimap on sleep_until
  notimeoutholdlist, \* blocked forever
  debuggerholdlist,  \* halted by the debugger
  in_hold_list,      \* the executor's own record of the hold list it is in
  blocked, sleep_until, wait_type,   \* OSExecutorModule: what it waits for
  critical,          \* no time slicing while set
  events,            \* number of events queued
  error, halt, done, run_ok,         \* Executor: run_ok is recomputed, not derived
  dbg,               \* debug_state_, NONE when not debugging
  pParent, pChild,   \* run_script(): who waits for whom
  pc, cur, insleft,  \* where step_scripts() is, the executor it runs, its slice
  clock, now_clock,  \* polclock(), and the value check_blocked() has read
  uaf                \* a deleted executor has been dereferenced

lists == <<runlist, ranlist, holdlist, notimeoutholdlist, debuggerholdlist, in_hold_list>>
waits == <<blocked, sleep_until, wait_type>>
flags == <<error, halt, done, run_ok>>
links == <<pParent, pChild, uaf>>
loop  == <<pc, cur, insleft, now_clock>>
vars  == <<life, lists, waits, critical, events, flags, dbg, links, loop, clock>>

HoldLists == {"NO_LIST", "TIMEOUT_LIST", "NOTIMEOUT_LIST", "DEBUGGER_LIST"}
DbgStates == {"NONE", "ATTACHING", "ATTACHED", "INS_TRACE", "RUN", "BREAK_INTO"}
Stages    == {"idle", "pop", "fetch", "exec", "settle", "check", "exit"}

Live == {e \in Exec : life[e] = "live"}

Init ==
  /\ life = [e \in Exec |-> "unborn"]
  /\ runlist = <<>> /\ ranlist = <<>>
  /\ holdlist = {} /\ notimeoutholdlist = {} /\ debuggerholdlist = {}
  /\ in_hold_list = [e \in Exec |-> "NO_LIST"]
  /\ blocked = [e \in Exec |-> FALSE]
  /\ sleep_until = [e \in Exec |-> 0]
  /\ wait_type = [e \in Exec |-> "WAIT_UNKNOWN"]
  /\ critical = [e \in Exec |-> FALSE]
  /\ events = [e \in Exec |-> 0]
  /\ error = [e \in Exec |-> FALSE]
  /\ halt = [e \in Exec |-> FALSE]
  /\ done = [e \in Exec |-> FALSE]
  /\ run_ok = [e \in Exec |-> FALSE]
  /\ dbg = [e \in Exec |-> "NONE"]
  /\ pParent = [e \in Exec |-> None]
  /\ pChild = [e \in Exec |-> None]
  /\ pc = "idle" /\ cur = None /\ insleft = 0
  /\ clock = 1 /\ now_clock = 0
  /\ uaf = FALSE

-----------------------------------------------------------------------------
(* Operations that several callers share.                                  *)

(* A new executor with its program set, queued behind runlist.             *)
Spawn(c) ==
  /\ life[c] = "unborn"
  /\ life' = [life EXCEPT ![c] = "live"]
  /\ run_ok' = [run_ok EXCEPT ![c] = TRUE]
  /\ runlist' = Append(runlist, c)

(* OSExecutorModule::revive(): unblock, and leave a timed or untimed hold  *)
(* list for runlist.  A debugged executor stays where it is.               *)
revive(e) ==
  /\ blocked' = [blocked EXCEPT ![e] = FALSE]
  /\ IF in_hold_list[e] \in {"TIMEOUT_LIST", "NOTIMEOUT_LIST"}
       THEN /\ holdlist' = holdlist \ {e}
            /\ notimeoutholdlist' = notimeoutholdlist \ {e}
            /\ in_hold_list' = [in_hold_list EXCEPT ![e] = "NO_LIST"]
            /\ runlist' = Append(runlist, e)
       ELSE UNCHANGED <<holdlist, notimeoutholdlist, in_hold_list, runlist>>
  /\ UNCHANGED <<sleep_until, wait_type>>

(* Bug: the executor keeps its record of the debugger's list.              *)
revive_debuggedKeepsRecord(e) ==
  /\ debuggerholdlist' = debuggerholdlist \ {e}
  /\ runlist' = Append(runlist, e)
  /\ UNCHANGED <<ranlist, holdlist, notimeoutholdlist, in_hold_list>>

(* revive_debugged(): out of the debugger's list and into runlist.         *)
revive_debugged(e) ==
  /\ debuggerholdlist' = debuggerholdlist \ {e}
  /\ in_hold_list' = [in_hold_list EXCEPT ![e] = "NO_LIST"]
  /\ runlist' = Append(runlist, e)
  /\ UNCHANGED <<ranlist, holdlist, notimeoutholdlist>>

seterror(e) ==
  /\ error' = [error EXCEPT ![e] = TRUE]
  /\ run_ok' = [run_ok EXCEPT ![e] = FALSE]
  /\ UNCHANGED <<halt, done>>

(* run_ok_ = !error_ && !halt_, whatever done says.                        *)
sethalt(e, h) ==
  /\ halt' = [halt EXCEPT ![e] = h]
  /\ run_ok' = [run_ok EXCEPT ![e] = ~error[e] /\ ~h]
  /\ UNCHANGED <<error, done>>

(* Bug: a sleeping script sits and waits until it wakes up to be killed.   *)
killMarksOnly(e) ==
  /\ e \in Killable \cap Live
  /\ seterror(e)
  /\ UNCHANGED <<lists, waits>>

(* process.kill(): mark, revive, and pull it from the debugger's list.     *)
kill(e) ==
  /\ e \in Killable \cap Live
  /\ seterror(e)
  /\ IF in_hold_list[e] = "DEBUGGER_LIST"
       THEN /\ blocked' = [blocked EXCEPT ![e] = FALSE]
            /\ UNCHANGED <<sleep_until, wait_type>>
            /\ revive_debugged(e)
       ELSE revive(e) /\ UNCHANGED <<ranlist, debuggerholdlist>>

(* Bug: an event wakes a script whatever it waits for.                     *)
BlockedAtAll(e) == blocked[e]

WaitsForEvent(e) == blocked[e] /\ wait_type[e] = "WAIT_EVENT"

(* signal_event(): hand the event to a script that waits for one, queue it *)
(* for any other, drop one when the queue is full.                         *)
signal_event(e) ==
  /\ e \in Live
  /\ \/ /\ WaitsForEvent(e)
        /\ revive(e)
        /\ UNCHANGED <<ranlist, debuggerholdlist, events>>
     \/ /\ ~WaitsForEvent(e)
        /\ events' = [events EXCEPT ![e] = IF @ < MaxEvents THEN @ + 1 ELSE @]
        /\ UNCHANGED <<lists, waits>>

(* Following the pointer q is undefined behaviour.                         *)
Dangling(q) == q # None /\ life[q] # "live"

(* Put e to sleep until t (0: forever) for reason w.                       *)
Block(e, t, w) ==
  /\ blocked' = [blocked EXCEPT ![e] = TRUE]
  /\ sleep_until' = [sleep_until EXCEPT ![e] = t]
  /\ wait_type' = [wait_type EXCEPT ![e] = w]

-----------------------------------------------------------------------------
(* step_scripts(): the passes of scripts_thread.                           *)

StepScripts ==
  /\ pc = "idle"
  /\ pc' = "pop"
  /\ UNCHANGED <<life, lists, waits, critical, events, flags, dbg, links,
                 cur, insleft, now_clock, clock>>

(* Where the instruction loop stands before an instruction of e: the       *)
(* debugger's hooks come after the assertions.                             *)
BeforeInstr(e, ok) ==
  IF ~ok THEN "settle" ELSE IF dbg[e] = "NONE" \/ done[e] THEN "exec" ELSE "fetch"

Pop ==
  /\ pc = "pop" /\ runlist # <<>>
  /\ cur' = Head(runlist)
  /\ runlist' = Tail(runlist)
  /\ insleft' \in 1..MaxSlice
  /\ pc' = BeforeInstr(Head(runlist), run_ok[Head(runlist)])
  /\ UNCHANGED <<life, ranlist, holdlist, notimeoutholdlist, debuggerholdlist,
                 in_hold_list, waits, critical, events, flags, dbg, links,
                 now_clock, clock>>

(* Bugs: the lists are not swapped; the clock is not read.                 *)
KeepLists == UNCHANGED <<runlist, ranlist>>

SwapLists == runlist' = ranlist /\ ranlist' = runlist

EndOfPassStaleClock ==
  /\ pc = "pop" /\ runlist = <<>>
  /\ SwapLists
  /\ pc' = "check" /\ now_clock' = now_clock
  /\ UNCHANGED <<life, holdlist, notimeoutholdlist, debuggerholdlist,
                 in_hold_list, waits, critical, events, flags, dbg, links,
                 cur, insleft, clock>>

(* runlist is empty: swap it with ranlist and go on to check_blocked().    *)
EndOfPass ==
  /\ pc = "pop" /\ runlist = <<>>
  /\ SwapLists
  /\ pc' = "check" /\ now_clock' = clock
  /\ UNCHANGED <<life, holdlist, notimeoutholdlist, debuggerholdlist,
                 in_hold_list, waits, critical, events, flags, dbg, links,
                 cur, insleft, clock>>

(* The debugger's hooks at the head of execInstr().  A stepping state is   *)
(* RUN with a breakpoint further on; a breakpoint may be on any            *)
(* instruction.                                                            *)
DebuggerStops ==
  /\ pc = "fetch"
  /\ dbg' = [dbg EXCEPT ![cur] = "ATTACHED"]
  /\ sethalt(cur, TRUE)
  /\ pc' = "settle"
  /\ dbg[cur] # "INS_TRACE"
  /\ UNCHANGED <<life, lists, waits, critical, events, links, cur, insleft,
                 now_clock, clock>>

(* INS_TRACE halts the script but still executes this instruction.         *)
DebuggerTraces ==
  /\ pc = "fetch" /\ dbg[cur] = "INS_TRACE"
  /\ dbg' = [dbg EXCEPT ![cur] = "ATTACHED"]
  /\ sethalt(cur, TRUE)
  /\ pc' = "exec"
  /\ UNCHANGED <<life, lists, waits, critical, events, links, cur, insleft,
                 now_clock, clock>>

DebuggerPasses ==
  /\ pc = "fetch" /\ dbg[cur] \notin {"ATTACHING", "BREAK_INTO", "INS_TRACE"}
  /\ pc' = "exec"
  /\ UNCHANGED <<life, lists, waits, critical, events, flags, dbg, links,
                 cur, insleft, now_clock, clock>>

Sliced == ~blocked'[cur] /\ ~critical'[cur]

SliceEnds == insleft = 1

(* The tail of the instruction loop: leave it when the script blocks or    *)
(* uses up its slice; a critical script has no slice.                      *)
AfterInstr ==
  /\ insleft' = IF Sliced THEN insleft - 1 ELSE insleft
  /\ UNCHANGED <<cur, now_clock, clock>>
  /\ pc' = IF Sliced /\ SliceEnds THEN "settle"
                                  ELSE BeforeInstr(cur, run_ok[cur] /\ ~blocked[cur])'

(* While a run_script() is outstanding the only instruction is its second  *)
(* execution.                                                              *)
Executing == pc = "exec" /\ ~done[cur] /\ pChild[cur] = None

(* execInstr() asserts that the script is not done; the exception ends it. *)
AssertDone ==
  /\ pc = "exec" /\ done[cur]
  /\ seterror(cur)
  /\ UNCHANGED <<life, lists, waits, critical, events, dbg, links>>
  /\ AfterInstr

Compute ==
  /\ Executing
  /\ UNCHANGED <<life, lists, waits, critical, events, flags, dbg, links>>
  /\ AfterInstr

set_done(e) ==
  /\ done' = [done EXCEPT ![e] = TRUE]
  /\ run_ok' = [run_ok EXCEPT ![e] = FALSE]
  /\ UNCHANGED <<error, halt>>

(* The program ends, by exit or by reaching its end.                       *)
Finish ==
  /\ Executing
  /\ set_done(cur)
  /\ UNCHANGED <<life, lists, waits, critical, events, dbg, links>>
  /\ AfterInstr

(* A runtime error.                                                        *)
Fail ==
  /\ Executing
  /\ seterror(cur)
  /\ UNCHANGED <<life, lists, waits, critical, events, dbg, links>>
  /\ AfterInstr

set_critical(b) ==
  /\ Executing
  /\ critical' = [critical EXCEPT ![cur] = b]
  /\ UNCHANGED <<life, lists, waits, events, flags, dbg, links>>
  /\ AfterInstr

(* SleepFor / SleepForMs; a few milliseconds are less than a tick.         *)
Sleep(d) ==
  /\ Executing
  /\ clock + d <= MaxClock
  /\ Block(cur, clock + d, "WAIT_SLEEP")
  /\ UNCHANGED <<life, lists, critical, events, flags, dbg, links>>
  /\ AfterInstr

(* suspend(): wait for a client's or another thread's answer.              *)
Suspend ==
  /\ Executing
  /\ Block(cur, 0, "WAIT_SLEEP")
  /\ UNCHANGED <<life, lists, critical, events, flags, dbg, links>>
  /\ AfterInstr

(* Bug: the last event of the queue is not seen.                           *)
SecondEventQueued(e) == events[e] > 1

EventQueued(e) == events[e] > 0

wait_for_event(d) ==
  /\ Executing
  /\ \/ /\ EventQueued(cur)
        /\ events' = [events EXCEPT ![cur] = @ - 1]
        /\ UNCHANGED waits
     \/ /\ ~EventQueued(cur) /\ d > 0
        /\ clock + d <= MaxClock
        /\ Block(cur, clock + d, "WAIT_EVENT")
        /\ UNCHANGED events
  /\ UNCHANGED <<life, lists, critical, flags, dbg, links>>
  /\ AfterInstr

SendEvent(t) ==
  /\ Executing
  /\ signal_event(t)
  /\ UNCHANGED <<life, critical, flags, dbg, links>>
  /\ AfterInstr

KillScript(t) ==
  /\ Executing
  /\ kill(t)
  /\ UNCHANGED <<life, critical, events, dbg, links>>
  /\ AfterInstr

start_script(c) ==
  /\ Executing
  /\ Spawn(c)
  /\ UNCHANGED <<ranlist, holdlist, notimeoutholdlist, debuggerholdlist,
                 in_hold_list, waits, critical, events, error, halt, done,
                 dbg, links>>
  /\ AfterInstr

(* run_script(), first execution: start the child, step PC back so that    *)
(* the instruction is executed again, and suspend.                         *)
RunScriptStart(c) ==
  /\ Executing
  /\ Spawn(c)
  /\ pParent' = [pParent EXCEPT ![c] = cur]
  /\ pChild' = [pChild EXCEPT ![cur] = c]
  /\ Block(cur, 0, "WAIT_SLEEP")
  /\ UNCHANGED <<ranlist, holdlist, notimeoutholdlist, debuggerholdlist,
                 in_hold_list, critical, events, error, halt, done, dbg, uaf>>
  /\ AfterInstr

Part(p) ==
  /\ pParent' = [pParent EXCEPT ![pChild[p]] = None]
  /\ pChild' = [pChild EXCEPT ![p] = None]

(* run_script(), second execution: take the child's result and part.       *)
RunScriptReturn ==
  /\ pc = "exec" /\ ~done[cur] /\ pChild[cur] # None
  /\ uaf' = Dangling(pChild[cur])
  /\ Part(cur)
  /\ UNCHANGED <<life, lists, waits, critical, events, flags, dbg>>
  /\ AfterInstr

mf_debugger ==
  /\ Executing
  /\ cur \in Debuggable
  /\ dbg' = [dbg EXCEPT ![cur] = "ATTACHING"]
  /\ UNCHANGED <<life, lists, waits, critical, events, flags, links>>
  /\ AfterInstr

Instruction ==
  \/ AssertDone \/ Compute \/ Finish \/ Fail \/ Suspend \/ RunScriptReturn \/ mf_debugger
  \/ \E b \in BOOLEAN : set_critical(b)
  \/ \E d \in Durations : Sleep(d) \/ wait_for_event(d)
  \/ \E e \in Exec : \/ SendEvent(e) \/ KillScript(e)
                     \/ start_script(e) \/ RunScriptStart(e)

-----------------------------------------------------------------------------
(* What run_ready() does with the executor after its instructions.         *)

Ended(e) == error[e] \/ done[e]

(* The while loop of run_ready() goes on; its locals are gone.             *)
NextScript ==
  /\ pc' = "pop" /\ cur' = None /\ insleft' = 0
  /\ UNCHANGED <<now_clock, clock>>

(* The child of a waiting run_script(): keep it for its result, and wake   *)
(* the parent.                                                             *)
SettleWakeParent ==
  /\ pc = "settle" /\ ~run_ok[cur] /\ Ended(cur)
  /\ pParent[cur] # None
  /\ uaf' = Dangling(pParent[cur])
  /\ run_ok[pParent[cur]]
  /\ ranlist' = Append(ranlist, cur)
  /\ revive(pParent[cur])
  /\ NextScript
  /\ UNCHANGED <<life, debuggerholdlist, critical, events, flags, dbg,
                 pParent, pChild>>

(* Bug: the child of a deleted parent still points at it.                  *)
ForgetChild(p) == UNCHANGED pParent

DisownChild(p) ==
  IF pChild[p] # None
    THEN pParent' = [pParent EXCEPT ![pChild[p]] = None]
    ELSE UNCHANGED pParent

SettleDelete ==
  /\ pc = "settle" /\ ~run_ok[cur] /\ Ended(cur)
  /\ pParent[cur] # None => ~run_ok[pParent[cur]]
  /\ uaf' = (Dangling(pParent[cur]) \/ Dangling(pChild[cur]))
  /\ DisownChild(cur)
  /\ life' = [life EXCEPT ![cur] = "deleted"]
  /\ NextScript
  /\ UNCHANGED <<lists, waits, critical, events, flags, dbg, pChild>>

HaltedOnly(e) == ~run_ok[e] /\ ~Ended(e) /\ ~blocked[e]

(* Halted, neither ended nor blocked: the debugger has it.                 *)
SettleDebugger ==
  /\ pc = "settle" /\ HaltedOnly(cur)
  /\ in_hold_list' = [in_hold_list EXCEPT ![cur] = "DEBUGGER_LIST"]
  /\ debuggerholdlist' = debuggerholdlist \union {cur}
  /\ NextScript
  /\ UNCHANGED <<life, runlist, ranlist, holdlist, notimeoutholdlist, waits,
                 critical, events, flags, dbg, links>>

HasTimeout(e) == sleep_until[e] # 0

SettleBlocked ==
  /\ pc = "settle" /\ blocked[cur] /\ (run_ok[cur] \/ ~Ended(cur))
  /\ IF HasTimeout(cur)
       THEN /\ in_hold_list' = [in_hold_list EXCEPT ![cur] = "TIMEOUT_LIST"]
            /\ holdlist' = holdlist \union {cur}
            /\ UNCHANGED notimeoutholdlist
       ELSE /\ in_hold_list' = [in_hold_list EXCEPT ![cur] = "NOTIMEOUT_LIST"]
            /\ notimeoutholdlist' = notimeoutholdlist \union {cur}
            /\ UNCHANGED holdlist
  /\ NextScript
  /\ UNCHANGED <<life, runlist, ranlist, debuggerholdlist, waits, critical,
                 events, flags, dbg, links>>

(* Its slice is used up.                                                   *)
SettleRan ==
  /\ pc = "settle" /\ run_ok[cur] /\ ~blocked[cur]
  /\ ranlist' = Append(ranlist, cur)
  /\ NextScript
  /\ UNCHANGED <<life, runlist, holdlist, notimeoutholdlist, debuggerholdlist,
                 in_hold_list, waits, critical, events, flags, dbg, links>>

Settle == \/ SettleWakeParent \/ SettleDelete \/ SettleDebugger
          \/ SettleBlocked \/ SettleRan

-----------------------------------------------------------------------------
(* check_blocked(): wake the sleepers whose time has come, earliest first. *)

Earliest(e) == e \in holdlist /\ \A f \in holdlist : sleep_until[e] <= sleep_until[f]

Due(e) == Earliest(e) /\ sleep_until[e] <= now_clock

WakeSleeper ==
  /\ pc = "check"
  /\ \E e \in Exec :
       /\ Due(e)
       /\ revive(e)
  /\ UNCHANGED <<life, ranlist, debuggerholdlist, critical, events, flags, dbg,
                 links, loop, clock>>

CheckDone ==
  /\ pc = "check"
  /\ ~\E e \in Exec : Due(e)
  /\ pc' = "idle" /\ now_clock' = 0
  /\ UNCHANGED <<life, lists, waits, critical, events, flags, dbg, links,
                 cur, insleft, clock>>

-----------------------------------------------------------------------------
(* The other threads, each holding the PolLock.                            *)

(* A handler, a task or a timer starts a script.                           *)
ExtStart(c) ==
  /\ pc = "idle"
  /\ Spawn(c)
  /\ UNCHANGED <<ranlist, holdlist, notimeoutholdlist, debuggerholdlist,
                 in_hold_list, waits, critical, events, error, halt, done,
                 dbg, links, loop, clock>>

(* A character speaks, moves, attacks: an event for a script.              *)
ExtEvent(e) ==
  /\ pc = "idle"
  /\ signal_event(e)
  /\ UNCHANGED <<life, critical, flags, dbg, links, loop, clock>>

(* An NPC is killed or restarted: its script is killed.                    *)
ExtKill(e) ==
  /\ pc = "idle"
  /\ kill(e)
  /\ UNCHANGED <<life, critical, events, dbg, links, loop, clock>>

(* The answer a suspended script waits for arrives.                        *)
ExtRevive(e) ==
  /\ pc = "idle" /\ e \in Live
  /\ blocked[e] /\ wait_type[e] = "WAIT_SLEEP" /\ sleep_until[e] = 0
  /\ pChild[e] = None
  /\ revive(e)
  /\ UNCHANGED <<life, ranlist, debuggerholdlist, critical, events, flags, dbg,
                 links, loop, clock>>

DbgAttach(e) ==
  /\ pc = "idle" /\ e \in Debuggable \cap Live
  /\ dbg' = [dbg EXCEPT ![e] = "ATTACHING"]
  /\ UNCHANGED <<life, lists, waits, critical, events, flags, links, loop, clock>>

(* detach: back to runlist if held, and clear halt.                        *)
DbgDetach(e) ==
  /\ pc = "idle" /\ e \in Live /\ dbg[e] # "NONE"
  /\ IF in_hold_list[e] = "DEBUGGER_LIST" THEN revive_debugged(e) ELSE UNCHANGED lists
  /\ dbg' = [dbg EXCEPT ![e] = "NONE"]
  /\ sethalt(e, FALSE)
  /\ UNCHANGED <<life, waits, critical, events, links, loop, clock>>

(* instrace, and run, stepinto and stepover: only on a held script.        *)
DbgResume(e, s) ==
  /\ pc = "idle" /\ e \in Live /\ dbg[e] # "NONE"
  /\ in_hold_list[e] = "DEBUGGER_LIST"
  /\ dbg' = [dbg EXCEPT ![e] = s]
  /\ sethalt(e, FALSE)
  /\ revive_debugged(e)
  /\ UNCHANGED <<life, waits, critical, events, links, loop, clock>>

DbgBreak(e) ==
  /\ pc = "idle" /\ e \in Live /\ dbg[e] # "NONE"
  /\ dbg' = [dbg EXCEPT ![e] = "BREAK_INTO"]
  /\ UNCHANGED <<life, lists, waits, critical, events, flags, links, loop, clock>>

(* The debugger's kill only marks the script.                              *)
DbgKill(e) ==
  /\ pc = "idle" /\ e \in Debuggable \cap Killable \cap Live
  /\ seterror(e)
  /\ UNCHANGED <<life, lists, waits, critical, events, dbg, links, loop, clock>>

(* deinitialize() at shutdown: delete the executors in the lists.          *)
Shutdown ==
  /\ pc = "idle"
  /\ pc' = "exit"
  /\ LET freed == Range(runlist) \union holdlist \union notimeoutholdlist
                    \union debuggerholdlist
     IN life' = [e \in Exec |-> IF e \in freed THEN "deleted" ELSE life[e]]
  /\ runlist' = <<>>
  /\ holdlist' = {} /\ notimeoutholdlist' = {} /\ debuggerholdlist' = {}
  /\ UNCHANGED <<ranlist, in_hold_list, waits, critical, events, flags, dbg,
                 links, cur, insleft, now_clock, clock>>

Tick ==
  /\ clock < MaxClock
  /\ clock' = clock + 1
  /\ UNCHANGED <<life, lists, waits, critical, events, flags, dbg, links, loop>>

-----------------------------------------------------------------------------
ScriptsThread ==
  /\ ~uaf
  /\ \/ StepScripts \/ Pop \/ EndOfPass
     \/ DebuggerStops \/ DebuggerTraces \/ DebuggerPasses
     \/ Instruction \/ Settle \/ WakeSleeper \/ CheckDone

OtherThreads ==
  /\ ~uaf
  /\ \/ \E e \in Exec : \/ ExtStart(e) \/ ExtEvent(e) \/ ExtKill(e) \/ ExtRevive(e)
                        \/ DbgAttach(e) \/ DbgDetach(e) \/ DbgBreak(e) \/ DbgKill(e)
                        \/ \E s \in {"INS_TRACE", "RUN"} : DbgResume(e, s)
     \/ Shutdown

Next == ScriptsThread \/ OtherThreads \/ (~uaf /\ Tick)

Spec == Init /\ [][Next]_vars

(* scripts_thread loops until shutdown and time passes; nothing is assumed *)
(* of clients, NPCs and debuggers.                                         *)
FairSpec == Spec /\ WF_vars(ScriptsThread) /\ WF_vars(~uaf /\ Tick)

-----------------------------------------------------------------------------
(* Properties.                                                             *)

ListTypes ==
  /\ runlist \in Seq(Exec) /\ ranlist \in Seq(Exec)
  /\ holdlist \subseteq Exec /\ notimeoutholdlist \subseteq Exec
  /\ debuggerholdlist \subseteq Exec
  /\ in_hold_list \in [Exec -> HoldLists]

WaitTypes ==
  /\ blocked \in [Exec -> BOOLEAN]
  /\ sleep_until \in [Exec -> 0..MaxClock]
  /\ wait_type \in [Exec -> {"WAIT_UNKNOWN", "WAIT_EVENT", "WAIT_SLEEP"}]
  /\ critical \in [Exec -> BOOLEAN]
  /\ events \in [Exec -> 0..MaxEvents]

FlagTypes ==
  /\ life \in [Exec -> {"unborn", "live", "deleted"}]
  /\ error \in [Exec -> BOOLEAN] /\ halt \in [Exec -> BOOLEAN]
  /\ done \in [Exec -> BOOLEAN] /\ run_ok \in [Exec -> BOOLEAN]
  /\ dbg \in [Exec -> DbgStates]

LinkTypes ==
  /\ pParent \in [Exec -> Exec \union {None}]
  /\ pChild \in [Exec -> Exec \union {None}]
  /\ uaf \in BOOLEAN

LoopTypes ==
  /\ pc \in Stages
  /\ cur \in Exec \union {None}
  /\ insleft \in 0..MaxSlice
  /\ clock \in 0..MaxClock /\ now_clock \in 0..MaxClock

(* run_ready() has an executor in hand exactly in its three inner stages,  *)
(* and some of its slice left whenever it is about to run an instruction.  *)
InHand ==
  /\ pc \in {"fetch", "exec", "settle"} <=> cur # None
  /\ pc \in {"fetch", "exec"} => insleft >= 1

TypeOK == ListTypes /\ WaitTypes /\ FlagTypes /\ LinkTypes /\ LoopTypes /\ InHand

(* The places an executor can be in: the processor and the five lists.     *)
Places == <<{cur} \ {None}, Range(runlist), Range(ranlist),
            holdlist, notimeoutholdlist, debuggerholdlist>>

(* A live executor is in exactly one place, once, and a dead one in none:  *)
(* run_ready() takes it out of runlist before it runs, and whatever        *)
(* happens meanwhile puts it back once.                                    *)
InOnePlace ==
  /\ IsInjective(runlist) /\ IsInjective(ranlist)
  /\ \A i, j \in 1..6 : i # j => Places[i] \intersect Places[j] = {}
  /\ Live = UNION {Places[i] : i \in 1..6}

(* The executor's record of its hold list is right: revive() believes it.  *)
HoldListsAgree ==
  /\ holdlist = {e \in Live : in_hold_list[e] = "TIMEOUT_LIST"}
  /\ notimeoutholdlist = {e \in Live : in_hold_list[e] = "NOTIMEOUT_LIST"}
  /\ debuggerholdlist = {e \in Live : in_hold_list[e] = "DEBUGGER_LIST"}

(* What check_blocked() asserts of the scripts it finds in holdlist, and   *)
(* that nothing blocked or asleep waits in a run list.                     *)
BlockedAreHeld ==
  /\ \A e \in holdlist : blocked[e] /\ sleep_until[e] # 0
  /\ \A e \in notimeoutholdlist : blocked[e] /\ sleep_until[e] = 0
  /\ \A e \in debuggerholdlist : ~blocked[e] /\ ~run_ok[e]
  /\ \A e \in Range(runlist) \union Range(ranlist) : ~blocked[e]

(* A script never waits for an event while one is queued for it.           *)
NoLostEvent ==
  \A e \in Live : blocked[e] /\ wait_type[e] = "WAIT_EVENT" => events[e] = 0

(* The child of a run_script() finds its parent alive, and waiting for it. *)
ParentAlive ==
  \A c \in Live : pParent[c] # None => pParent[c] \in Live /\ pChild[pParent[c]] = c

(* No executor is touched after it was deleted.                            *)
NoUseAfterFree == ~uaf

(* execInstr() asserts that it never runs a script that is done.           *)
NeverRunsDone == pc \in {"fetch", "exec"} => ~done[cur]

(* Every executor is deleted at shutdown although deinitialize() does not  *)
(* look into ranlist.                                                      *)
NoneLeftAtExit == pc = "exit" => Live = {}

(* Whoever starts, wakes, kills or debugs it and when: an executor is in   *)
(* one place, its record names that place, its blocking state is what      *)
(* check_blocked() expects there, no event of its own waits beside it, and *)
(* deinitialize() finds it there.                                          *)
ListsConsistent ==
  InOnePlace /\ HoldListsAgree /\ BlockedAreHeld /\ NoLostEvent /\ NoneLeftAtExit

(* A run_script() ends only after the script it started has.               *)
RunScriptReturnsAfterChild ==
  [][\A p \in Live : pChild[p] # None /\ pChild'[p] = None => Ended(pChild[p])]_vars

(* Nothing ends a sleep but what it waits for, or a kill: a timed sleep its *)
(* time, a run_script() the end of the script it started, and any other    *)
(* endless sleep the answer; no event, no other script's end and no pass   *)
(* of check_blocked() does.                                                *)
NotWokenEarly ==
  [][/\ \A e \in holdlist : wait_type[e] = "WAIT_SLEEP" /\ ~blocked'[e]
           => sleep_until[e] <= clock \/ error'[e]
     /\ \A e \in notimeoutholdlist : wait_type[e] = "WAIT_SLEEP" /\ ~blocked'[e]
           => \/ error'[e]
              \/ pChild[e] # None /\ Ended(pChild[e])
              \/ ExtRevive(e)]_vars

(* A critical script keeps the processor until it blocks, halts or ends.   *)
CriticalNotSliced ==
  [][cur # None /\ cur' = None /\ critical[cur] => blocked[cur] \/ ~run_ok[cur]]_vars

-----------------------------------------------------------------------------
Stopped == uaf \/ pc = "exit"

(* A script that used up its slice runs again, as long as passes end.      *)
SlicedScriptsRun ==
  \A e \in Exec : []<>(pc = "idle") => (e \in Range(ranlist) ~> (cur = e \/ Stopped))

(* A sleeper leaves the hold list, as long as passes end.                  *)
SleepersWake ==
  \A e \in Exec : []<>(pc = "idle") => (e \in holdlist ~> (e \notin holdlist \/ Stopped))

(* A killed script is deleted, as long as passes end.                      *)
KilledScriptsGo ==
  \A e \in Exec : []<>(pc = "idle") =>
      (e \in Live /\ error[e] ~> (e \notin Live \/ Stopped))
=============================================================================
