--------------------------- MODULE MCScriptScheduler ---------------------------
(* Small instances of ScriptScheduler.  The executors without a debugger   *)
(* are interchangeable, so safety is checked up to their permutations.     *)
EXTENDS ScriptScheduler, TLC

Symmetry == Permutations(Exec \ Debuggable)

(* What a deleted executor still holds in memory and what an executor that *)
(* is not blocked last waited for decide nothing: two states that differ   *)
(* only there are one.                                                     *)
OfLive(f, x) == [e \in Exec |-> IF life[e] = "live" THEN f[e] ELSE x]
OfBlocked(f, x) == [e \in Exec |-> IF life[e] = "live" /\ blocked[e] THEN f[e] ELSE x]

View ==
  <<life, runlist, ranlist, holdlist, notimeoutholdlist, debuggerholdlist,
    OfLive(in_hold_list, "NO_LIST"), OfLive(blocked, FALSE), OfBlocked(sleep_until, 0),
    OfBlocked(wait_type, "WAIT_UNKNOWN"), OfLive(critical, FALSE), OfLive(events, 0),
    error, done, OfLive(halt, FALSE), OfLive(run_ok, FALSE), OfLive(dbg, "NONE"),
    OfLive(pParent, None), OfLive(pChild, None), uaf, pc, cur, insleft, now_clock, clock>>
=============================================================================
