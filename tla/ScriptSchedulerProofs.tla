------------------------ MODULE ScriptSchedulerProofs ------------------------
(* Proofs about ScriptScheduler, for any number of executors and any       *)
(* bounds: type correctness here, the safety invariants after it.          *)
EXTENDS ScriptScheduler, SequenceTheorems, TLAPS

(* Type correctness.                                                       *)

LEMMA AppendTypes == \A s \in Seq(Exec), e \in Exec : Append(s, e) \in Seq(Exec)
BY AppendProperties

LEMMA InitTypeOK == Init => TypeOK
<1> SUFFICES ASSUME Init PROVE TypeOK
  OBVIOUS
<1>1. ListTypes
  BY DEF Init, ListTypes, HoldLists
<1>2. WaitTypes
  BY BoundsAssumption DEF Init, WaitTypes
<1>3. FlagTypes
  BY DEF Init, FlagTypes, DbgStates
<1>4. LinkTypes
  BY DEF Init, LinkTypes
<1>5. LoopTypes /\ InHand
  BY BoundsAssumption DEF Init, LoopTypes, InHand, Stages
<1>6. QED
  BY <1>1, <1>2, <1>3, <1>4, <1>5 DEF TypeOK

LEMMA SameTypes ==
  /\ ListTypes /\ UNCHANGED lists => ListTypes'
  /\ WaitTypes /\ UNCHANGED <<waits, critical, events>> => WaitTypes'
  /\ FlagTypes /\ UNCHANGED <<life, flags, dbg>> => FlagTypes'
  /\ LinkTypes /\ UNCHANGED links => LinkTypes'
  /\ LoopTypes /\ InHand /\ UNCHANGED <<loop, clock>> => LoopTypes' /\ InHand'
<1>1. ListTypes /\ UNCHANGED lists => ListTypes'
  BY DEF ListTypes, lists
<1>2. WaitTypes /\ UNCHANGED <<waits, critical, events>> => WaitTypes'
  BY DEF WaitTypes, waits
<1>3. FlagTypes /\ UNCHANGED <<life, flags, dbg>> => FlagTypes'
  BY DEF FlagTypes, flags
<1>4. LinkTypes /\ UNCHANGED links => LinkTypes'
  BY DEF LinkTypes, links
<1>5. LoopTypes /\ InHand /\ UNCHANGED <<loop, clock>> => LoopTypes' /\ InHand'
  BY DEF LoopTypes, InHand, loop
<1>6. QED
  BY <1>1, <1>2, <1>3, <1>4, <1>5

(* What the shared operations do to the types.                             *)
LEMMA ReviveTypes ==
  ASSUME ListTypes, WaitTypes, NEW e \in Exec, revive(e),
         UNCHANGED <<ranlist, debuggerholdlist, critical>>,
         events' \in [Exec -> 0..MaxEvents]
  PROVE  ListTypes' /\ WaitTypes'
<1>1. WaitTypes'
  BY DEF WaitTypes, revive
<1>2. ListTypes'
  BY AppendTypes DEF ListTypes, revive, HoldLists
<1>3. QED
  BY <1>1, <1>2

LEMMA ReviveDebuggedTypes ==
  ASSUME ListTypes, NEW e \in Exec, revive_debugged(e)
  PROVE  ListTypes'
BY AppendTypes DEF ListTypes, revive_debugged, HoldLists

LEMMA FlagOpTypes ==
  ASSUME FlagTypes, NEW e \in Exec, UNCHANGED <<life, dbg>>,
         \/ seterror(e) \/ set_done(e) \/ \E h \in BOOLEAN : sethalt(e, h)
  PROVE  FlagTypes'
BY DEF FlagTypes, seterror, set_done, sethalt

LEMMA KillTypes ==
  ASSUME TypeOK, NEW e \in Exec, kill(e), UNCHANGED <<life, dbg, critical, events>>
  PROVE  ListTypes' /\ WaitTypes' /\ FlagTypes'
<1>1. FlagTypes'
  BY FlagOpTypes DEF TypeOK, kill
<1>2. CASE in_hold_list[e] = "DEBUGGER_LIST"
  <2>1. WaitTypes'
    BY <1>2 DEF TypeOK, WaitTypes, kill
  <2>2. ListTypes'
    BY <1>2, ReviveDebuggedTypes DEF TypeOK, kill
  <2>3. QED
    BY <1>1, <2>1, <2>2
<1>3. CASE in_hold_list[e] # "DEBUGGER_LIST"
  <2>1. events' \in [Exec -> 0..MaxEvents]
    BY DEF TypeOK, WaitTypes
  <2>2. QED
    BY <1>1, <1>3, <2>1, ReviveTypes DEF TypeOK, kill
<1>4. QED
  BY <1>2, <1>3

LEMMA SignalTypes ==
  ASSUME TypeOK, NEW e \in Exec, signal_event(e), UNCHANGED critical
  PROVE  ListTypes' /\ WaitTypes'
<1>1. CASE WaitsForEvent(e)
  <2>1. events' \in [Exec -> 0..MaxEvents]
    BY <1>1 DEF signal_event, TypeOK, WaitTypes
  <2>2. QED
    BY <1>1, <2>1, ReviveTypes DEF signal_event, TypeOK
<1>2. CASE ~WaitsForEvent(e)
  <2>1. events' \in [Exec -> 0..MaxEvents]
    BY <1>2, BoundsAssumption DEF signal_event, TypeOK, WaitTypes
  <2>2. WaitTypes'
    BY <1>2, <2>1 DEF signal_event, TypeOK, WaitTypes, waits
  <2>3. QED
    BY <1>2, <2>2, SameTypes DEF signal_event, TypeOK
<1>3. QED
  BY <1>1, <1>2

LEMMA BlockTypes ==
  ASSUME WaitTypes, NEW e \in Exec, NEW t \in 0..MaxClock,
         NEW w \in {"WAIT_EVENT", "WAIT_SLEEP"}, Block(e, t, w),
         UNCHANGED <<critical, events>>
  PROVE  WaitTypes'
BY DEF WaitTypes, Block

LEMMA SpawnTypes ==
  ASSUME TypeOK, NEW c \in Exec, Spawn(c),
         UNCHANGED <<ranlist, holdlist, notimeoutholdlist, debuggerholdlist,
                     in_hold_list, error, halt, done, dbg>>
  PROVE  ListTypes' /\ FlagTypes'
BY AppendTypes DEF TypeOK, ListTypes, FlagTypes, Spawn

LEMMA AfterInstrTypes ==
  ASSUME LoopTypes, InHand, pc = "exec", AfterInstr
  PROVE  LoopTypes' /\ InHand'
<1>1. insleft \in 1..MaxSlice
  BY BoundsAssumption DEF LoopTypes, InHand
<1>2. insleft' \in 0..MaxSlice
  BY <1>1, BoundsAssumption DEF AfterInstr
<1>3. LoopTypes'
  BY <1>2 DEF AfterInstr, BeforeInstr, LoopTypes, Stages
<1>4. cur' # None /\ pc' \in {"fetch", "exec", "settle"}
  BY DEF AfterInstr, BeforeInstr, InHand
<1>5. ASSUME pc' \in {"fetch", "exec"} PROVE insleft' >= 1
  BY <1>1, <1>5, BoundsAssumption DEF AfterInstr, BeforeInstr, SliceEnds
<1>6. QED
  BY <1>3, <1>4, <1>5 DEF InHand

LEMMA NextScriptTypes ==
  ASSUME LoopTypes, NextScript
  PROVE  LoopTypes' /\ InHand'
BY BoundsAssumption DEF LoopTypes, InHand, NextScript, Stages

LEMMA NextTypeOK == TypeOK /\ [Next]_vars => TypeOK'
<1> SUFFICES ASSUME TypeOK, [Next]_vars PROVE TypeOK'
  OBVIOUS
<1> USE DEF TypeOK
<1>1. CASE StepScripts
  <2>1. ListTypes' /\ WaitTypes' /\ FlagTypes' /\ LinkTypes'
    BY <1>1, SameTypes DEF StepScripts
  <2>2. LoopTypes' /\ InHand'
    BY <1>1, BoundsAssumption DEF StepScripts, LoopTypes, InHand, Stages, loop
  <2>3. QED
    BY <2>1, <2>2
<1>2. CASE Tick
  <2>1. ListTypes' /\ WaitTypes' /\ FlagTypes' /\ LinkTypes'
    BY <1>2, SameTypes DEF Tick
  <2>2. LoopTypes' /\ InHand'
    BY <1>2, BoundsAssumption DEF Tick, LoopTypes, InHand, Stages, loop
  <2>3. QED
    BY <2>1, <2>2
<1>3. CASE Pop
  <2>1. Head(runlist) \in Exec /\ Tail(runlist) \in Seq(Exec)
    BY <1>3, HeadTailProperties DEF Pop, ListTypes
  <2>2. ListTypes'
    BY <1>3, <2>1 DEF Pop, ListTypes
  <2>3. WaitTypes' /\ FlagTypes' /\ LinkTypes'
    BY <1>3, SameTypes DEF Pop
  <2>4. LoopTypes' /\ InHand'
    BY <1>3, <2>1, NoneAssumption, BoundsAssumption DEF Pop, BeforeInstr,
       LoopTypes, InHand, Stages
  <2>5. QED
    BY <2>1, <2>2, <2>3, <2>4
<1>4. CASE EndOfPass
  <2>1. ListTypes'
    BY <1>4 DEF EndOfPass, SwapLists, ListTypes
  <2>2. WaitTypes' /\ FlagTypes' /\ LinkTypes'
    BY <1>4, SameTypes DEF EndOfPass
  <2>3. LoopTypes' /\ InHand'
    BY <1>4 DEF EndOfPass, LoopTypes, InHand, Stages
  <2>4. QED
    BY <2>1, <2>2, <2>3
<1>5. CASE DebuggerStops
  <2>1. cur \in Exec
    BY <1>5, NoneAssumption DEF DebuggerStops, InHand, LoopTypes
  <2>2. FlagTypes'
    BY <1>5, <2>1 DEF DebuggerStops, FlagTypes, DbgStates, sethalt
  <2>3. ListTypes' /\ WaitTypes' /\ LinkTypes'
    BY <1>5, SameTypes DEF DebuggerStops
  <2>4. LoopTypes' /\ InHand'
    BY <1>5 DEF DebuggerStops, LoopTypes, InHand, Stages
  <2>5. QED
    BY <2>1, <2>2, <2>3, <2>4
<1>6. CASE DebuggerTraces
  <2>1. cur \in Exec
    BY <1>6, NoneAssumption DEF DebuggerTraces, InHand, LoopTypes
  <2>2. FlagTypes'
    BY <1>6, <2>1 DEF DebuggerTraces, FlagTypes, DbgStates, sethalt
  <2>3. ListTypes' /\ WaitTypes' /\ LinkTypes'
    BY <1>6, SameTypes DEF DebuggerTraces
  <2>4. LoopTypes' /\ InHand'
    BY <1>6 DEF DebuggerTraces, LoopTypes, InHand, Stages
  <2>5. QED
    BY <2>1, <2>2, <2>3, <2>4
<1>7. CASE DebuggerPasses
  <2>1. ListTypes' /\ WaitTypes' /\ FlagTypes' /\ LinkTypes'
    BY <1>7, SameTypes DEF DebuggerPasses
  <2>2. LoopTypes' /\ InHand'
    BY <1>7 DEF DebuggerPasses, LoopTypes, InHand, Stages
  <2>3. QED
    BY <2>1, <2>2
<1>8. CASE AssertDone
  <2>1. cur \in Exec /\ LoopTypes' /\ InHand'
    BY <1>8, AfterInstrTypes DEF AssertDone, InHand, LoopTypes
  <2>2. FlagTypes'
    BY <1>8, <2>1, FlagOpTypes DEF AssertDone
  <2>3. ListTypes' /\ WaitTypes' /\ LinkTypes'
    BY <1>8, SameTypes DEF AssertDone
  <2>4. QED
    BY <2>1, <2>2, <2>3
<1>9. CASE Compute
  <2>1. cur \in Exec /\ LoopTypes' /\ InHand'
    BY <1>9, AfterInstrTypes DEF Compute, Executing, InHand, LoopTypes
  <2>2. ListTypes' /\ WaitTypes' /\ FlagTypes' /\ LinkTypes'
    BY <1>9, SameTypes DEF Compute
  <2>3. QED
    BY <2>1, <2>2
<1>10. CASE Finish
  <2>1. cur \in Exec /\ LoopTypes' /\ InHand'
    BY <1>10, AfterInstrTypes DEF Finish, Executing, InHand, LoopTypes
  <2>2. FlagTypes'
    BY <1>10, <2>1, FlagOpTypes DEF Finish
  <2>3. ListTypes' /\ WaitTypes' /\ LinkTypes'
    BY <1>10, SameTypes DEF Finish
  <2>4. QED
    BY <2>1, <2>2, <2>3
<1>11. CASE Fail
  <2>1. cur \in Exec /\ LoopTypes' /\ InHand'
    BY <1>11, AfterInstrTypes DEF Fail, Executing, InHand, LoopTypes
  <2>2. FlagTypes'
    BY <1>11, <2>1, FlagOpTypes DEF Fail
  <2>3. ListTypes' /\ WaitTypes' /\ LinkTypes'
    BY <1>11, SameTypes DEF Fail
  <2>4. QED
    BY <2>1, <2>2, <2>3
<1>12. CASE Suspend
  <2>1. cur \in Exec /\ LoopTypes' /\ InHand'
    BY <1>12, AfterInstrTypes DEF Suspend, Executing, InHand, LoopTypes
  <2>2. WaitTypes'
    BY <1>12, <2>1, BlockTypes, BoundsAssumption DEF Suspend
  <2>3. ListTypes' /\ FlagTypes' /\ LinkTypes'
    BY <1>12, SameTypes DEF Suspend
  <2>4. QED
    BY <2>1, <2>2, <2>3
<1>13. CASE RunScriptReturn
  <2>1. cur \in Exec /\ LoopTypes' /\ InHand'
    BY <1>13, AfterInstrTypes DEF RunScriptReturn, InHand, LoopTypes
  <2>2. LinkTypes'
    BY <1>13, <2>1 DEF RunScriptReturn, Part, Dangling, LinkTypes
  <2>3. ListTypes' /\ WaitTypes' /\ FlagTypes'
    BY <1>13, SameTypes DEF RunScriptReturn
  <2>4. QED
    BY <2>1, <2>2, <2>3
<1>14. CASE mf_debugger
  <2>1. cur \in Exec /\ LoopTypes' /\ InHand'
    BY <1>14, AfterInstrTypes DEF mf_debugger, Executing, InHand, LoopTypes
  <2>2. FlagTypes'
    BY <1>14, <2>1 DEF mf_debugger, FlagTypes, flags, DbgStates
  <2>3. ListTypes' /\ WaitTypes' /\ LinkTypes'
    BY <1>14, SameTypes DEF mf_debugger
  <2>4. QED
    BY <2>1, <2>2, <2>3
<1>15. ASSUME NEW b \in BOOLEAN, set_critical(b) PROVE TypeOK'
  <2>1. cur \in Exec /\ LoopTypes' /\ InHand'
    BY <1>15, AfterInstrTypes DEF set_critical, Executing, InHand, LoopTypes
  <2>2. WaitTypes'
    BY <1>15, <2>1 DEF set_critical, WaitTypes, waits
  <2>3. ListTypes' /\ FlagTypes' /\ LinkTypes'
    BY <1>15, SameTypes DEF set_critical
  <2>4. QED
    BY <2>1, <2>2, <2>3
<1>16. ASSUME NEW d \in Durations, Sleep(d) PROVE TypeOK'
  <2>1. cur \in Exec /\ LoopTypes' /\ InHand'
    BY <1>16, AfterInstrTypes DEF Sleep, Executing, InHand, LoopTypes
  <2>2. clock + d \in 0..MaxClock
    BY <1>16, BoundsAssumption DEF Sleep, LoopTypes
  <2>3. WaitTypes'
    BY <1>16, <2>1, <2>2, BlockTypes DEF Sleep
  <2>4. ListTypes' /\ FlagTypes' /\ LinkTypes'
    BY <1>16, SameTypes DEF Sleep
  <2>5. QED
    BY <2>1, <2>2, <2>3, <2>4
<1>17. ASSUME NEW d \in Durations, wait_for_event(d) PROVE TypeOK'
  <2>1. cur \in Exec /\ LoopTypes' /\ InHand'
    BY <1>17, AfterInstrTypes DEF wait_for_event, Executing, InHand, LoopTypes
  <2>2. ASSUME EventQueued(cur) PROVE WaitTypes'
    BY <1>17, <2>1, <2>2, BoundsAssumption DEF wait_for_event,
       EventQueued, WaitTypes, waits
  <2>3. ASSUME ~EventQueued(cur) PROVE WaitTypes'
    BY <1>17, <2>1, <2>3, BoundsAssumption, BlockTypes DEF wait_for_event,
       LoopTypes
  <2>4. ListTypes' /\ FlagTypes' /\ LinkTypes'
    BY <1>17, SameTypes DEF wait_for_event
  <2>5. QED
    BY <2>1, <2>2, <2>3, <2>4
<1>18. ASSUME NEW e \in Exec, SendEvent(e) PROVE TypeOK'
  <2>1. cur \in Exec /\ LoopTypes' /\ InHand'
    BY <1>18, AfterInstrTypes DEF SendEvent, Executing, InHand, LoopTypes
  <2>2. ListTypes' /\ WaitTypes'
    BY <1>18, SignalTypes DEF SendEvent
  <2>3. FlagTypes' /\ LinkTypes'
    BY <1>18, SameTypes DEF SendEvent
  <2>4. QED
    BY <2>1, <2>2, <2>3
<1>19. ASSUME NEW e \in Exec, KillScript(e) PROVE TypeOK'
  <2>1. cur \in Exec /\ LoopTypes' /\ InHand'
    BY <1>19, AfterInstrTypes DEF KillScript, Executing, InHand, LoopTypes
  <2>2. ListTypes' /\ WaitTypes' /\ FlagTypes'
    BY <1>19, KillTypes DEF KillScript
  <2>3. LinkTypes'
    BY <1>19, SameTypes DEF KillScript
  <2>4. QED
    BY <2>1, <2>2, <2>3
<1>20. ASSUME NEW e \in Exec, start_script(e) PROVE TypeOK'
  <2>1. cur \in Exec /\ LoopTypes' /\ InHand'
    BY <1>20, AfterInstrTypes DEF start_script, Executing, InHand, LoopTypes
  <2>2. ListTypes' /\ FlagTypes'
    BY <1>20, SpawnTypes DEF start_script
  <2>3. WaitTypes' /\ LinkTypes'
    BY <1>20, SameTypes DEF start_script
  <2>4. QED
    BY <2>1, <2>2, <2>3
<1>21. ASSUME NEW e \in Exec, RunScriptStart(e) PROVE TypeOK'
  <2>1. cur \in Exec /\ LoopTypes' /\ InHand'
    BY <1>21, AfterInstrTypes DEF RunScriptStart, Executing, InHand, LoopTypes
  <2>2. ListTypes' /\ FlagTypes'
    BY <1>21, SpawnTypes DEF RunScriptStart
  <2>3. WaitTypes'
    BY <1>21, <2>1, BlockTypes, BoundsAssumption DEF RunScriptStart
  <2>4. LinkTypes'
    BY <1>21, <2>1 DEF RunScriptStart, LinkTypes
  <2>5. QED
    BY <2>1, <2>2, <2>3, <2>4
<1>22. CASE SettleWakeParent
  <2>1. cur \in Exec /\ LoopTypes' /\ InHand'
    BY <1>22, NoneAssumption, NextScriptTypes DEF SettleWakeParent,
       InHand, LoopTypes
  <2>2. pParent[cur] \in Exec
    BY <1>22, <2>1 DEF SettleWakeParent, LinkTypes
  <2>3. events' \in [Exec -> 0..MaxEvents]
    BY <1>22 DEF SettleWakeParent, WaitTypes
  <2>4. WaitTypes'
    BY <1>22, <2>2 DEF SettleWakeParent, revive, WaitTypes
  <2>5. ListTypes'
    <3>1. /\ ranlist' = Append(ranlist, cur) /\ UNCHANGED debuggerholdlist
          /\ \/ UNCHANGED <<runlist, holdlist, notimeoutholdlist, in_hold_list>>
             \/ /\ runlist' = Append(runlist, pParent[cur])
                /\ holdlist' \subseteq holdlist
                /\ notimeoutholdlist' \subseteq notimeoutholdlist
                /\ in_hold_list' = [in_hold_list EXCEPT ![pParent[cur]] = "NO_LIST"]
      BY <1>22 DEF SettleWakeParent, revive
    <3>2. QED
      BY <2>1, <2>2, <3>1, AppendTypes DEF ListTypes, HoldLists
  <2>6. FlagTypes' /\ LinkTypes'
    BY <1>22, SameTypes DEF SettleWakeParent, Dangling, LinkTypes
  <2>7. QED
    BY <2>1, <2>2, <2>3, <2>4, <2>5, <2>6
<1>23. CASE SettleDelete
  <2>1. cur \in Exec /\ LoopTypes' /\ InHand'
    BY <1>23, NoneAssumption, NextScriptTypes DEF SettleDelete, InHand,
       LoopTypes
  <2>2. FlagTypes'
    BY <1>23, <2>1 DEF SettleDelete, FlagTypes, flags
  <2>3. LinkTypes'
    BY <1>23, <2>1 DEF SettleDelete, DisownChild, Dangling, LinkTypes
  <2>4. ListTypes' /\ WaitTypes'
    BY <1>23, SameTypes DEF SettleDelete
  <2>5. QED
    BY <2>1, <2>2, <2>3, <2>4
<1>24. CASE SettleDebugger
  <2>1. cur \in Exec /\ LoopTypes' /\ InHand'
    BY <1>24, NoneAssumption, NextScriptTypes DEF SettleDebugger, InHand,
       LoopTypes
  <2>2. ListTypes'
    BY <1>24, <2>1 DEF SettleDebugger, ListTypes, HoldLists
  <2>3. WaitTypes' /\ FlagTypes' /\ LinkTypes'
    BY <1>24, SameTypes DEF SettleDebugger
  <2>4. QED
    BY <2>1, <2>2, <2>3
<1>25. CASE SettleBlocked
  <2>1. cur \in Exec /\ LoopTypes' /\ InHand'
    BY <1>25, NoneAssumption, NextScriptTypes DEF SettleBlocked, InHand,
       LoopTypes
  <2>2. ListTypes'
    BY <1>25, <2>1 DEF SettleBlocked, ListTypes, HoldLists
  <2>3. WaitTypes' /\ FlagTypes' /\ LinkTypes'
    BY <1>25, SameTypes DEF SettleBlocked
  <2>4. QED
    BY <2>1, <2>2, <2>3
<1>26. CASE SettleRan
  <2>1. cur \in Exec /\ LoopTypes' /\ InHand'
    BY <1>26, NoneAssumption, NextScriptTypes DEF SettleRan, InHand, LoopTypes
  <2>2. ListTypes'
    BY <1>26, <2>1, AppendTypes DEF SettleRan, ListTypes
  <2>3. WaitTypes' /\ FlagTypes' /\ LinkTypes'
    BY <1>26, SameTypes DEF SettleRan
  <2>4. QED
    BY <2>1, <2>2, <2>3
<1>27. CASE WakeSleeper
  <2>1. ListTypes' /\ WaitTypes'
    BY <1>27, ReviveTypes DEF WakeSleeper, WaitTypes
  <2>2. FlagTypes' /\ LinkTypes' /\ LoopTypes' /\ InHand'
    BY <1>27, SameTypes DEF WakeSleeper
  <2>3. QED
    BY <2>1, <2>2
<1>28. CASE CheckDone
  <2>1. ListTypes' /\ WaitTypes' /\ FlagTypes' /\ LinkTypes'
    BY <1>28, SameTypes DEF CheckDone
  <2>2. LoopTypes' /\ InHand'
    BY <1>28, BoundsAssumption DEF CheckDone, LoopTypes, InHand, Stages
  <2>3. QED
    BY <2>1, <2>2
<1>29. ASSUME NEW e \in Exec, ExtStart(e) PROVE TypeOK'
  <2>1. ListTypes' /\ FlagTypes'
    BY <1>29, SpawnTypes DEF ExtStart
  <2>2. WaitTypes' /\ LinkTypes' /\ LoopTypes' /\ InHand'
    BY <1>29, SameTypes DEF ExtStart
  <2>3. QED
    BY <2>1, <2>2
<1>30. ASSUME NEW e \in Exec, ExtEvent(e) PROVE TypeOK'
  <2>1. ListTypes' /\ WaitTypes'
    BY <1>30, SignalTypes DEF ExtEvent
  <2>2. FlagTypes' /\ LinkTypes' /\ LoopTypes' /\ InHand'
    BY <1>30, SameTypes DEF ExtEvent
  <2>3. QED
    BY <2>1, <2>2
<1>31. ASSUME NEW e \in Exec, ExtKill(e) PROVE TypeOK'
  <2>1. ListTypes' /\ WaitTypes' /\ FlagTypes'
    BY <1>31, KillTypes DEF ExtKill
  <2>2. LinkTypes' /\ LoopTypes' /\ InHand'
    BY <1>31, SameTypes DEF ExtKill
  <2>3. QED
    BY <2>1, <2>2
<1>32. ASSUME NEW e \in Exec, ExtRevive(e) PROVE TypeOK'
  <2>1. ListTypes' /\ WaitTypes'
    BY <1>32, ReviveTypes DEF ExtRevive, WaitTypes
  <2>2. FlagTypes' /\ LinkTypes' /\ LoopTypes' /\ InHand'
    BY <1>32, SameTypes DEF ExtRevive
  <2>3. QED
    BY <2>1, <2>2
<1>33. ASSUME NEW e \in Exec, DbgAttach(e) PROVE TypeOK'
  <2>1. FlagTypes'
    BY <1>33 DEF DbgAttach, FlagTypes, flags, DbgStates
  <2>2. ListTypes' /\ WaitTypes' /\ LinkTypes' /\ LoopTypes' /\ InHand'
    BY <1>33, SameTypes DEF DbgAttach
  <2>3. QED
    BY <2>1, <2>2
<1>34. ASSUME NEW e \in Exec, DbgBreak(e) PROVE TypeOK'
  <2>1. FlagTypes'
    BY <1>34 DEF DbgBreak, FlagTypes, flags, DbgStates
  <2>2. ListTypes' /\ WaitTypes' /\ LinkTypes' /\ LoopTypes' /\ InHand'
    BY <1>34, SameTypes DEF DbgBreak
  <2>3. QED
    BY <2>1, <2>2
<1>35. ASSUME NEW e \in Exec, DbgDetach(e) PROVE TypeOK'
  <2>1. FlagTypes'
    BY <1>35 DEF DbgDetach, FlagTypes, sethalt, DbgStates
  <2>2. ListTypes'
    BY <1>35, SameTypes, ReviveDebuggedTypes DEF DbgDetach
  <2>3. WaitTypes' /\ LinkTypes' /\ LoopTypes' /\ InHand'
    BY <1>35, SameTypes DEF DbgDetach
  <2>4. QED
    BY <2>1, <2>2, <2>3
<1>36. ASSUME NEW e \in Exec, NEW s \in {"INS_TRACE", "RUN"}, DbgResume(e, s) PROVE TypeOK'
  <2>1. FlagTypes'
    BY <1>36 DEF DbgResume, FlagTypes, sethalt, DbgStates
  <2>2. ListTypes'
    BY <1>36, ReviveDebuggedTypes DEF DbgResume
  <2>3. WaitTypes' /\ LinkTypes' /\ LoopTypes' /\ InHand'
    BY <1>36, SameTypes DEF DbgResume
  <2>4. QED
    BY <2>1, <2>2, <2>3
<1>37. ASSUME NEW e \in Exec, DbgKill(e) PROVE TypeOK'
  <2>1. FlagTypes'
    BY <1>37, FlagOpTypes DEF DbgKill
  <2>2. ListTypes' /\ WaitTypes' /\ LinkTypes' /\ LoopTypes' /\ InHand'
    BY <1>37, SameTypes DEF DbgKill
  <2>3. QED
    BY <2>1, <2>2
<1>38. CASE Shutdown
  <2>1. ListTypes'
    BY <1>38 DEF Shutdown, ListTypes
  <2>2. FlagTypes'
    BY <1>38 DEF Shutdown, FlagTypes, flags
  <2>3. WaitTypes' /\ LinkTypes'
    BY <1>38, SameTypes DEF Shutdown
  <2>4. LoopTypes' /\ InHand'
    BY <1>38 DEF Shutdown, LoopTypes, InHand, Stages
  <2>5. QED
    BY <2>1, <2>2, <2>3, <2>4
<1>39. CASE UNCHANGED vars
  BY <1>39, SameTypes DEF vars
<1> QED
  BY <1>1, <1>2, <1>3, <1>4, <1>5, <1>6, <1>7, <1>8, <1>9, <1>10, <1>11,
     <1>12, <1>13, <1>14, <1>15, <1>16, <1>17, <1>18, <1>19, <1>20, <1>21,
     <1>22, <1>23, <1>24, <1>25, <1>26, <1>27, <1>28, <1>29, <1>30, <1>31,
     <1>32, <1>33, <1>34, <1>35, <1>36, <1>37, <1>38, <1>39
     DEF Next, ScriptsThread, OtherThreads, Instruction, Settle

(* Every variable keeps its type: ScriptScheduler's TypeOK, for any number *)
(* of scripts.                                                             *)
THEOREM TypeCorrect == Spec => []TypeOK
BY InitTypeOK, NextTypeOK, PTL DEF Spec

-----------------------------------------------------------------------------
(* The inductive invariant.  Each executor has one place: its own record   *)
(* in_hold_list says which hold list it is in, and an executor whose       *)
(* record says none is queued or running.                                  *)
PlacedAt(e) ==
  /\ e \in Range(runlist) => e \notin Range(ranlist)
  /\ e \in Range(runlist) \union Range(ranlist) \union {cur}
       <=> e \in Live /\ in_hold_list[e] = "NO_LIST"
  /\ e \in holdlist <=> e \in Live /\ in_hold_list[e] = "TIMEOUT_LIST"
  /\ e \in notimeoutholdlist <=> e \in Live /\ in_hold_list[e] = "NOTIMEOUT_LIST"
  /\ e \in debuggerholdlist <=> e \in Live /\ in_hold_list[e] = "DEBUGGER_LIST"
  /\ life[e] = "unborn" => in_hold_list[e] = "NO_LIST"

Placed ==
  /\ IsInjective(runlist) /\ IsInjective(ranlist)
  /\ cur \notin Range(runlist) \union Range(ranlist)
  /\ \A e \in Exec : PlacedAt(e)

(* ranlist is only used during a pass.                                     *)
Passing ==
  /\ pc \in {"idle", "check", "exit"} => ranlist = <<>>
  /\ pc = "check" => now_clock <= clock
  /\ pc = "exit" => Live = {}

(* What is blocked waits in the right list, for something that has not yet *)
(* come, and can still run.                                                *)
WaitingAt(e) ==
  /\ e \in Live /\ in_hold_list[e] = "TIMEOUT_LIST" => blocked[e] /\ sleep_until[e] # 0
  /\ e \in Live /\ in_hold_list[e] = "NOTIMEOUT_LIST" => blocked[e] /\ sleep_until[e] = 0
  /\ e \in Live /\ in_hold_list[e] = "DEBUGGER_LIST" => ~blocked[e] /\ ~run_ok[e]
  /\ e \in Live /\ in_hold_list[e] = "NO_LIST" /\ e # cur => ~blocked[e]
  /\ life[e] = "unborn" => ~blocked[e] /\ ~error[e]
  /\ run_ok[e] => ~error[e]
  /\ blocked[e] /\ wait_type[e] = "WAIT_EVENT" => events[e] = 0

(* The executor in hand is not blocked before its instruction and cannot   *)
(* both block and end in it; a critical one has not used up its slice.     *)
HandWaits ==
  /\ pc \in {"fetch", "exec"} => ~blocked[cur] /\ ~error[cur]
  /\ pc = "settle" /\ blocked[cur] => ~Ended(cur)
  /\ pc = "settle" /\ run_ok[cur] /\ ~blocked[cur] => ~critical[cur]

Waiting == HandWaits /\ \A e \in Exec : WaitingAt(e)

(* A live child's parent is live and points back at it, and a parent waits *)
(* for its child for ever unless the child has ended or it was killed.     *)
LinkedAt(e) ==
  /\ life[e] = "unborn" => pParent[e] = None /\ pChild[e] = None
  /\ e \in Live /\ pParent[e] # None
       => pParent[e] \in Live /\ pChild[pParent[e]] = e
  /\ e \in Live /\ pChild[e] # None
       => /\ life[pChild[e]] # "unborn"
          /\ blocked[e] => wait_type[e] = "WAIT_SLEEP" /\ sleep_until[e] = 0
          /\ ~blocked[e] => error[e] \/ Ended(pChild[e])

Linked == \A e \in Exec : LinkedAt(e)

Inv == TypeOK /\ Placed /\ Passing /\ Waiting /\ Linked

-----------------------------------------------------------------------------
(* Sequences without duplicates.                                           *)

LEMMA EmptyRange == Range(<<>>) = {} /\ IsInjective(<<>>)
BY DEF Range, IsInjective

LEMMA AppendRange ==
  ASSUME NEW s \in Seq(Exec), NEW e \in Exec
  PROVE  /\ Range(Append(s, e)) = Range(s) \union {e}
         /\ IsInjective(s) /\ e \notin Range(s) => IsInjective(Append(s, e))
<1> DEFINE t == Append(s, e)
<1>1. /\ Len(s) \in Nat /\ DOMAIN s = 1..Len(s) /\ DOMAIN t = 1..(Len(s) + 1)
      /\ \A i \in 1..Len(s) : t[i] = s[i]
      /\ t[Len(s) + 1] = e
  BY AppendProperties, LenProperties
<1>2. 1..(Len(s) + 1) = 1..Len(s) \union {Len(s) + 1}
  BY <1>1
<1>3. Range(t) = Range(s) \union {e}
  <2>1. Range(t) \subseteq Range(s) \union {e}
    BY <1>1, <1>2 DEF Range
  <2>2. Range(s) \union {e} \subseteq Range(t)
    BY <1>1, <1>2 DEF Range
  <2>3. QED
    BY <2>1, <2>2
<1>4. ASSUME IsInjective(s), e \notin Range(s) PROVE IsInjective(t)
  <2>1. \A i \in 1..Len(s) : s[i] # e
    BY <1>1, <1>4 DEF Range
  <2>2. QED
    BY <1>1, <1>2, <1>4, <2>1 DEF IsInjective
<1>5. QED
  BY <1>3, <1>4

LEMMA RangeTypes ==
  \A s \in Seq(Exec) : None \notin Range(s)
BY NoneAssumption, ElementOfSeq, LenProperties DEF Range

LEMMA TailRange ==
  ASSUME NEW s \in Seq(Exec), s # <<>>, IsInjective(s)
  PROVE  /\ Head(s) \in Range(s)
         /\ Range(Tail(s)) = Range(s) \ {Head(s)}
         /\ IsInjective(Tail(s))
<1> DEFINE t == Tail(s)
<1>1. /\ Len(s) \in Nat \ {0} /\ DOMAIN s = 1..Len(s) /\ DOMAIN t = 1..(Len(s) - 1)
      /\ \A i \in 1..(Len(s) - 1) : t[i] = s[i + 1]
      /\ Head(s) = s[1]
  BY HeadTailProperties, LenProperties, EmptySeq
<1>2. IsInjective(t)
  BY <1>1 DEF IsInjective
<1>3. Head(s) \in Range(s)
  BY <1>1 DEF Range
<1>4. Range(t) \subseteq Range(s) \ {Head(s)}
  BY <1>1 DEF Range, IsInjective
<1>5. Range(s) \ {Head(s)} \subseteq Range(t)
  <2> SUFFICES ASSUME NEW x \in Range(s), x # Head(s) PROVE x \in Range(t)
    OBVIOUS
  <2>1. PICK i \in 1..Len(s) : x = s[i]
    BY <1>1 DEF Range
  <2>2. i - 1 \in 1..(Len(s) - 1) /\ t[i - 1] = x
    BY <1>1, <2>1
  <2>3. QED
    BY <1>1, <2>2 DEF Range
<1>6. QED
  BY <1>2, <1>3, <1>4, <1>5

-----------------------------------------------------------------------------
(* What the shared operations do to the places.                            *)

LEMMA SamePlaced ==
  ASSUME Placed, UNCHANGED <<life, lists, cur>>
  PROVE  Placed'
BY DEF Placed, PlacedAt, lists, Live

LEMMA RevivePlaced ==
  ASSUME TypeOK, Placed, NEW e \in Live, revive(e),
         UNCHANGED <<life, ranlist, debuggerholdlist, cur>>
  PROVE  Placed'
<1> USE DEF TypeOK, ListTypes, Live
<1>1. CASE in_hold_list[e] \in {"TIMEOUT_LIST", "NOTIMEOUT_LIST"}
  <2>1. e \notin Range(runlist) /\ e \notin Range(ranlist) /\ e # cur
    BY <1>1 DEF Placed, PlacedAt
  <2>2. Range(runlist') = Range(runlist) \union {e} /\ IsInjective(runlist')
    <3>1. runlist' = Append(runlist, e) /\ runlist \in Seq(Exec) /\ e \in Exec
      BY <1>1 DEF revive
    <3>2. IsInjective(runlist)
      BY DEF Placed
    <3>3. QED
      BY <2>1, <3>1, <3>2, AppendRange
  <2>3. QED
    BY <1>1, <2>1, <2>2 DEF revive, Placed, PlacedAt
<1>2. CASE in_hold_list[e] \notin {"TIMEOUT_LIST", "NOTIMEOUT_LIST"}
  <2>1. UNCHANGED lists
    BY <1>2 DEF revive, lists
  <2>2. QED
    BY <2>1, SamePlaced
<1>3. QED
  BY <1>1, <1>2

LEMMA ReviveDebuggedPlaced ==
  ASSUME TypeOK, Placed, NEW e \in Live, in_hold_list[e] = "DEBUGGER_LIST",
         revive_debugged(e), UNCHANGED <<life, cur>>
  PROVE  Placed'
<1> USE DEF TypeOK, ListTypes, Live
<1>1. e \notin Range(runlist) /\ e \notin Range(ranlist) /\ e # cur
  BY DEF Placed, PlacedAt
<1>2. Range(runlist') = Range(runlist) \union {e} /\ IsInjective(runlist')
  BY <1>1, AppendRange DEF revive_debugged, Placed, PlacedAt
<1>3. QED
  BY <1>1, <1>2 DEF revive_debugged, Placed, PlacedAt

LEMMA KillPlaced ==
  ASSUME TypeOK, Placed, NEW e \in Exec, kill(e), UNCHANGED <<life, cur>>
  PROVE  Placed'
BY RevivePlaced, ReviveDebuggedPlaced DEF kill

LEMMA SignalPlaced ==
  ASSUME TypeOK, Placed, NEW e \in Exec, signal_event(e), UNCHANGED <<life, cur>>
  PROVE  Placed'
BY RevivePlaced, SamePlaced DEF signal_event

LEMMA SpawnPlaced ==
  ASSUME TypeOK, Placed, NEW c \in Exec, Spawn(c), None \notin Exec,
         UNCHANGED <<ranlist, holdlist, notimeoutholdlist, debuggerholdlist,
                     in_hold_list, cur>>
  PROVE  Placed'
<1> USE DEF TypeOK, ListTypes, FlagTypes, Live
<1>1. c \notin Range(runlist) /\ c \notin Range(ranlist) /\ c # cur
  BY DEF Spawn, Placed, PlacedAt
<1>2. Range(runlist') = Range(runlist) \union {c} /\ IsInjective(runlist')
  BY <1>1, AppendRange DEF Spawn, Placed, PlacedAt
<1>3. QED
  BY <1>1, <1>2 DEF Spawn, Placed, PlacedAt

LEMMA InitPlaced == Init => Placed /\ Passing
BY EmptyRange, NoneAssumption DEF Init, Placed, PlacedAt, Passing, Live

LEMMA NextPlaced == Inv /\ [Next]_vars => Placed'
<1> SUFFICES ASSUME Inv, [Next]_vars PROVE Placed'
  OBVIOUS
<1> USE NoneAssumption DEF Inv
<1>1. CASE StepScripts
  BY <1>1, SamePlaced DEF StepScripts
<1>2. CASE DebuggerStops
  BY <1>2, SamePlaced DEF DebuggerStops
<1>3. CASE DebuggerTraces
  BY <1>3, SamePlaced DEF DebuggerTraces
<1>4. CASE DebuggerPasses
  BY <1>4, SamePlaced DEF DebuggerPasses
<1>5. CASE CheckDone
  BY <1>5, SamePlaced DEF CheckDone
<1>6. CASE Tick
  BY <1>6, SamePlaced DEF Tick, loop
<1>7. CASE Pop
  <2>1. /\ Head(runlist) \in Range(runlist)
      /\ Range(runlist') = Range(runlist) \ {Head(runlist)}
      /\ IsInjective(runlist')
    BY <1>7, TailRange DEF Pop, TypeOK, ListTypes, Placed, PlacedAt
  <2>2. Head(runlist) \in Exec
    BY <1>7, HeadTailProperties DEF Pop, TypeOK, ListTypes
  <2>3. cur = None
    BY <1>7 DEF Pop, TypeOK, InHand
  <2>4. QED
    BY <1>7, <2>1, <2>2, <2>3 DEF Pop, Placed, PlacedAt, Live
<1>8. CASE EndOfPass
  BY <1>8, EmptyRange DEF EndOfPass, SwapLists, Placed, PlacedAt, Live
<1>9. CASE AssertDone
  BY <1>9, SamePlaced DEF AssertDone, AfterInstr
<1>10. CASE Compute
  BY <1>10, SamePlaced DEF Compute, AfterInstr
<1>11. CASE Finish
  BY <1>11, SamePlaced DEF Finish, AfterInstr
<1>12. CASE Fail
  BY <1>12, SamePlaced DEF Fail, AfterInstr
<1>13. CASE Suspend
  BY <1>13, SamePlaced DEF Suspend, AfterInstr
<1>14. CASE RunScriptReturn
  BY <1>14, SamePlaced DEF RunScriptReturn, AfterInstr
<1>15. CASE mf_debugger
  BY <1>15, SamePlaced DEF mf_debugger, AfterInstr
<1>16. ASSUME NEW b \in BOOLEAN, set_critical(b) PROVE Placed'
  BY <1>16, SamePlaced DEF set_critical, AfterInstr
<1>17. ASSUME NEW d \in Durations, Sleep(d) PROVE Placed'
  BY <1>17, SamePlaced DEF Sleep, AfterInstr
<1>18. ASSUME NEW d \in Durations, wait_for_event(d) PROVE Placed'
  BY <1>18, SamePlaced DEF wait_for_event, AfterInstr
<1>19. ASSUME NEW e \in Exec, SendEvent(e) PROVE Placed'
  BY <1>19, SignalPlaced DEF SendEvent, AfterInstr
<1>20. ASSUME NEW e \in Exec, KillScript(e) PROVE Placed'
  BY <1>20, KillPlaced DEF KillScript, AfterInstr
<1>21. ASSUME NEW e \in Exec, start_script(e) PROVE Placed'
  BY <1>21, SpawnPlaced DEF start_script, AfterInstr
<1>22. ASSUME NEW e \in Exec, RunScriptStart(e) PROVE Placed'
  BY <1>22, SpawnPlaced DEF RunScriptStart, AfterInstr
<1>23. CASE SettleWakeParent
  <2> DEFINE p == pParent[cur]
  <2>1. cur \in Exec /\ cur' = None /\ cur \in Live
    BY <1>23 DEF SettleWakeParent, TypeOK, InHand, LoopTypes, NextScript, Placed, PlacedAt
  <2>2. p \in Live /\ p # cur /\ p \in Exec
    <3>1. p \in Live /\ pChild[p] = cur
      BY <1>23, <2>1 DEF SettleWakeParent, Linked, LinkedAt
    <3>2. QED
      BY <1>23, <2>1, <3>1 DEF SettleWakeParent, Linked, LinkedAt, Live
  <2>3. /\ Range(ranlist') = Range(ranlist) \union {cur} /\ IsInjective(ranlist')
        /\ cur \notin Range(runlist) \union Range(ranlist)
    <3>1. ranlist' = Append(ranlist, cur) /\ ranlist \in Seq(Exec)
      BY <1>23 DEF SettleWakeParent, TypeOK, ListTypes
    <3>2. IsInjective(ranlist) /\ cur \notin Range(runlist) \union Range(ranlist)
      BY DEF Placed
    <3>3. QED
      BY <2>1, <3>1, <3>2, AppendRange
  <2>4. None \notin Range(runlist') \union Range(ranlist')
    <3>1. ListTypes'
      BY <1>23, NextTypeOK DEF TypeOK, Next, ScriptsThread, Settle
    <3>2. QED
      BY <3>1, RangeTypes DEF ListTypes
  <2>5. CASE in_hold_list[p] \in {"TIMEOUT_LIST", "NOTIMEOUT_LIST"}
    <3>1. p \notin Range(runlist) /\ p \notin Range(ranlist)
      BY <2>2, <2>5 DEF Placed, PlacedAt
    <3>2. Range(runlist') = Range(runlist) \union {p} /\ IsInjective(runlist')
      <4>1. runlist' = Append(runlist, p) /\ runlist \in Seq(Exec) /\ IsInjective(runlist)
        BY <1>23, <2>5 DEF SettleWakeParent, revive, TypeOK, ListTypes, Placed
      <4>2. QED
        BY <2>2, <3>1, <4>1, AppendRange
    <3>3. /\ in_hold_list' = [in_hold_list EXCEPT ![p] = "NO_LIST"]
          /\ holdlist' = holdlist \ {p} /\ notimeoutholdlist' = notimeoutholdlist \ {p}
          /\ UNCHANGED <<life, debuggerholdlist>>
      BY <1>23, <2>5 DEF SettleWakeParent, revive
    <3>4. ASSUME NEW x \in Exec PROVE PlacedAt(x)'
      BY <2>1, <2>2, <2>3, <2>5, <3>1, <3>2, <3>3, NoneAssumption
         DEF Placed, PlacedAt, Live, TypeOK, ListTypes
    <3>5. QED
      BY <2>1, <2>3, <2>4, <3>2, <3>4 DEF Placed
  <2>6. CASE in_hold_list[p] \notin {"TIMEOUT_LIST", "NOTIMEOUT_LIST"}
    <3>1. UNCHANGED <<life, runlist, holdlist, notimeoutholdlist, debuggerholdlist,
                      in_hold_list>>
      BY <1>23, <2>6 DEF SettleWakeParent, revive
    <3>2. ASSUME NEW x \in Exec PROVE PlacedAt(x)'
      BY <2>1, <2>3, <3>1, NoneAssumption DEF Placed, PlacedAt, Live
    <3>3. QED
      BY <2>1, <2>3, <2>4, <3>1, <3>2 DEF Placed
  <2>7. QED
    BY <2>5, <2>6
<1>24. CASE SettleDelete
  <2>1. cur \in Exec /\ cur' = None /\ None \notin Range(runlist) \union Range(ranlist)
    BY <1>24, RangeTypes
       DEF SettleDelete, TypeOK, ListTypes, InHand, LoopTypes, NextScript
  <2>2. UNCHANGED lists /\ life' = [life EXCEPT ![cur] = "deleted"]
    BY <1>24 DEF SettleDelete
  <2>3. in_hold_list[cur] = "NO_LIST" /\ cur \in Live
    BY <2>1 DEF Placed, PlacedAt
  <2>4. ASSUME NEW x \in Exec PROVE PlacedAt(x)'
    BY <2>1, <2>2, <2>3, NoneAssumption
       DEF Placed, PlacedAt, Live, lists, TypeOK, FlagTypes
  <2>5. QED
    BY <2>1, <2>2, <2>4 DEF Placed, lists
<1>25. CASE SettleDebugger
  <2>1. cur \in Exec /\ cur' = None /\ None \notin Range(runlist) \union Range(ranlist)
    BY <1>25, RangeTypes
       DEF SettleDebugger, TypeOK, ListTypes, InHand, LoopTypes, NextScript
  <2>2. ASSUME NEW x \in Exec PROVE PlacedAt(x)'
    BY <1>25, <2>1, NoneAssumption
       DEF SettleDebugger, Placed, PlacedAt, Live, TypeOK, ListTypes
  <2>3. QED
    BY <1>25, <2>1, <2>2 DEF SettleDebugger, Placed
<1>26. CASE SettleBlocked
  <2>1. cur \in Exec /\ cur' = None /\ None \notin Range(runlist) \union Range(ranlist)
    BY <1>26, RangeTypes
       DEF SettleBlocked, TypeOK, ListTypes, InHand, LoopTypes, NextScript
  <2>2. ASSUME NEW x \in Exec PROVE PlacedAt(x)'
    BY <1>26, <2>1, NoneAssumption
       DEF SettleBlocked, Placed, PlacedAt, Live, TypeOK, ListTypes
  <2>3. QED
    BY <1>26, <2>1, <2>2 DEF SettleBlocked, Placed
<1>27. CASE SettleRan
  <2>1. cur \in Exec /\ cur' = None /\ None \notin Range(runlist) \union Range(ranlist)
    BY <1>27, RangeTypes
       DEF SettleRan, TypeOK, ListTypes, InHand, LoopTypes, NextScript
  <2>2. Range(ranlist') = Range(ranlist) \union {cur} /\ IsInjective(ranlist')
    BY <1>27, <2>1, AppendRange DEF SettleRan, Placed, TypeOK, ListTypes
  <2>3. ASSUME NEW x \in Exec PROVE PlacedAt(x)'
    BY <1>27, <2>1, <2>2, NoneAssumption DEF SettleRan, Placed, PlacedAt, Live
  <2>4. QED
    BY <1>27, <2>1, <2>2, <2>3, NoneAssumption DEF SettleRan, Placed
<1>28. CASE WakeSleeper
  <2>1. PICK e \in Exec : Due(e) /\ revive(e)
    BY <1>28 DEF WakeSleeper
  <2>2. e \in Live
    BY <2>1 DEF Due, Earliest, Placed, PlacedAt
  <2>3. QED
    BY <1>28, <2>1, <2>2, RevivePlaced DEF WakeSleeper, loop
<1>29. ASSUME NEW e \in Exec, ExtStart(e) PROVE Placed'
  BY <1>29, SpawnPlaced DEF ExtStart, loop
<1>30. ASSUME NEW e \in Exec, ExtEvent(e) PROVE Placed'
  BY <1>30, SignalPlaced DEF ExtEvent, loop
<1>31. ASSUME NEW e \in Exec, ExtKill(e) PROVE Placed'
  BY <1>31, KillPlaced DEF ExtKill, loop
<1>32. ASSUME NEW e \in Exec, ExtRevive(e) PROVE Placed'
  BY <1>32, RevivePlaced DEF ExtRevive, loop
<1>33. ASSUME NEW e \in Exec, DbgAttach(e) PROVE Placed'
  BY <1>33, SamePlaced DEF DbgAttach, loop
<1>34. ASSUME NEW e \in Exec, DbgBreak(e) PROVE Placed'
  BY <1>34, SamePlaced DEF DbgBreak, loop
<1>35. ASSUME NEW e \in Exec, DbgKill(e) PROVE Placed'
  BY <1>35, SamePlaced DEF DbgKill, loop
<1>36. ASSUME NEW e \in Exec, DbgDetach(e) PROVE Placed'
  BY <1>36, SamePlaced, ReviveDebuggedPlaced DEF DbgDetach, loop
<1>37. ASSUME NEW e \in Exec, NEW s \in {"INS_TRACE", "RUN"}, DbgResume(e, s)
      PROVE  Placed'
  BY <1>37, ReviveDebuggedPlaced DEF DbgResume, loop
<1>38. CASE Shutdown
  <2>1. ranlist = <<>> /\ cur = None
    BY <1>38 DEF Shutdown, Passing, TypeOK, InHand
  <2>2. QED
    BY <1>38, <2>1, EmptyRange DEF Shutdown, Placed, PlacedAt, Live, TypeOK,
       FlagTypes, ListTypes, HoldLists
<1>39. CASE UNCHANGED vars
  BY <1>39, SamePlaced DEF vars, loop
<1> QED
  BY <1>1, <1>2, <1>3, <1>4, <1>5, <1>6, <1>7, <1>8, <1>9, <1>10, <1>11,
     <1>12, <1>13, <1>14, <1>15, <1>16, <1>17, <1>18, <1>19, <1>20, <1>21,
     <1>22, <1>23, <1>24, <1>25, <1>26, <1>27, <1>28, <1>29, <1>30, <1>31,
     <1>32, <1>33, <1>34, <1>35, <1>36, <1>37, <1>38, <1>39
     DEF Next, ScriptsThread, OtherThreads, Instruction, Settle

-----------------------------------------------------------------------------
(* ranlist is empty between passes, and everything is deleted at exit.     *)

LEMMA NextPassing == Inv /\ [Next]_vars => Passing'
<1> SUFFICES ASSUME Inv, [Next]_vars PROVE Passing'
  OBVIOUS
<1> USE DEF Inv, Passing
<1>1. pc' \in {"pop", "fetch", "exec", "settle"} => Passing'
  OBVIOUS
<1>2. UNCHANGED <<pc, ranlist, now_clock, clock>> /\ pc # "exit" => Passing'
  OBVIOUS
<1>3. ASSUME UNCHANGED <<pc, ranlist, now_clock, life>>, clock' \in {clock, clock + 1}
      PROVE  Passing'
  BY <1>3, BoundsAssumption DEF Live, TypeOK, LoopTypes
<1>4. CASE EndOfPass
  BY <1>4 DEF EndOfPass, SwapLists, TypeOK, LoopTypes
<1>5. CASE CheckDone
  BY <1>5 DEF CheckDone, lists
<1>6. CASE WakeSleeper
  BY <1>2, <1>6 DEF WakeSleeper, loop
<1>7. CASE Tick
  BY <1>3, <1>7 DEF Tick, TypeOK, LoopTypes, lists, loop
<1>8. CASE Shutdown
  <2>1. Placed' /\ cur' = None /\ ranlist' = <<>>
    BY <1>8, NextPlaced DEF Shutdown, Passing, TypeOK, InHand
  <2>2. Live' = {}
    <3>1. Range(runlist') = {} /\ Range(ranlist') = {}
      BY <1>8, <2>1, EmptyRange DEF Shutdown
    <3>2. \A x \in Exec : PlacedAt(x)' /\ in_hold_list'[x] \in HoldLists
      BY <1>8, <2>1 DEF Placed, TypeOK, ListTypes, Shutdown
    <3>3. QED
      BY <1>8, <2>1, <3>1, <3>2, NoneAssumption DEF PlacedAt, Shutdown, Live, HoldLists
  <2>3. QED
    BY <1>8, <2>1, <2>2 DEF Shutdown
<1>9. CASE StepScripts \/ Pop \/ DebuggerStops \/ DebuggerTraces \/ DebuggerPasses \/ Settle
  BY <1>1, <1>9 DEF StepScripts, Pop, BeforeInstr, DebuggerStops, DebuggerTraces,
     DebuggerPasses, Settle, SettleWakeParent, SettleDelete, SettleDebugger,
     SettleBlocked, SettleRan, NextScript
<1>10. CASE Instruction
  <2>1. AfterInstr
    BY <1>10 DEF Instruction, AssertDone, Compute, Finish, Fail, Suspend,
       RunScriptReturn, mf_debugger, set_critical, Sleep, wait_for_event,
       SendEvent, KillScript, start_script, RunScriptStart
  <2>2. QED
    BY <1>1, <2>1 DEF AfterInstr, BeforeInstr
<1>11. ASSUME NEW e \in Exec,
              \/ ExtStart(e) \/ ExtEvent(e) \/ ExtKill(e) \/ ExtRevive(e)
              \/ DbgAttach(e) \/ DbgDetach(e) \/ DbgBreak(e) \/ DbgKill(e)
              \/ \E s \in {"INS_TRACE", "RUN"} : DbgResume(e, s)
       PROVE  Passing'
  <2>1. pc = "idle" /\ UNCHANGED <<pc, ranlist, now_clock, clock>>
    BY <1>11 DEF ExtStart, ExtEvent, ExtKill, ExtRevive, DbgAttach, DbgDetach,
       DbgBreak, DbgKill, DbgResume, signal_event, kill, revive_debugged, lists, loop
  <2>2. QED
    BY <1>2, <2>1
<1>12. CASE UNCHANGED vars
  BY <1>3, <1>12 DEF vars, lists, loop, TypeOK, LoopTypes
<1> QED
  BY <1>4, <1>5, <1>6, <1>7, <1>8, <1>9, <1>10, <1>11, <1>12
     DEF Next, ScriptsThread, OtherThreads

-----------------------------------------------------------------------------
(* What every executor waits for.                                          *)

(* The executor in hand is live and in no hold list.                       *)
LEMMA InHandPlaced ==
  ASSUME TypeOK, Placed, pc \in {"fetch", "exec", "settle"}
  PROVE  cur \in Exec /\ cur \in Live /\ in_hold_list[cur] = "NO_LIST"
BY DEF TypeOK, InHand, LoopTypes, Placed, PlacedAt

LEMMA InitWaiting == Init => Waiting /\ Linked
BY DEF Init, Waiting, WaitingAt, HandWaits, Linked, LinkedAt, Live

LEMMA NextWaitingAt == Inv /\ [Next]_vars => \A x \in Exec : WaitingAt(x)'
<1> SUFFICES ASSUME Inv, [Next]_vars, NEW x \in Exec PROVE WaitingAt(x)'
  OBVIOUS
<1> USE DEF WaitingAt, Live
<1>a. /\ WaitingAt(x) /\ WaitTypes /\ FlagTypes /\ in_hold_list \in [Exec -> HoldLists]
      /\ life[x] = "unborn" => in_hold_list[x] = "NO_LIST"
  BY DEF Inv, Waiting, TypeOK, ListTypes, Placed, PlacedAt
<1>c. pc \in {"fetch", "exec", "settle"} =>
        /\ cur \in Exec /\ life[cur] = "live" /\ in_hold_list[cur] = "NO_LIST"
        /\ pc # "settle" => ~blocked[cur] /\ ~error[cur]
        /\ blocked[cur] => ~Ended(cur)
  BY InHandPlaced DEF Inv, Waiting, HandWaits
<1>d. pc \notin {"fetch", "exec", "settle"} => cur = None
  BY DEF Inv, TypeOK, InHand
<1>1. CASE StepScripts
  BY <1>1, <1>a, <1>c, <1>d DEF StepScripts, lists, waits, flags, WaitTypes,
     FlagTypes
<1>2. CASE Pop
  <2>1. Head(runlist) \in Range(runlist)
    BY <1>2, TailRange DEF Pop, Inv, TypeOK, ListTypes, Placed
  <2>2. Head(runlist) \in Exec /\ cur = None
    BY <1>2, HeadTailProperties DEF Pop, Inv, TypeOK, ListTypes, InHand
  <2>3. QED
    BY <1>2, <1>a, <2>1, <2>2, NoneAssumption DEF Pop, waits, flags
<1>3. CASE EndOfPass
  BY <1>3, <1>a, <1>c, <1>d DEF EndOfPass, waits, flags, WaitTypes, FlagTypes
<1>4. CASE DebuggerStops
  BY <1>4, <1>a, <1>c, <1>d DEF DebuggerStops, lists, waits, sethalt,
     WaitTypes, FlagTypes
<1>5. CASE DebuggerTraces
  BY <1>5, <1>a, <1>c, <1>d DEF DebuggerTraces, lists, waits, sethalt,
     WaitTypes, FlagTypes
<1>6. CASE DebuggerPasses
  BY <1>6, <1>a, <1>c, <1>d DEF DebuggerPasses, lists, waits, flags, WaitTypes,
     FlagTypes
<1>7. CASE CheckDone
  BY <1>7, <1>a, <1>c, <1>d DEF CheckDone, lists, waits, flags, WaitTypes,
     FlagTypes
<1>8. CASE Tick
  BY <1>8, <1>a, <1>c, <1>d DEF Tick, lists, waits, flags, loop, WaitTypes,
     FlagTypes
<1>9. CASE AssertDone
  BY <1>9, <1>a, <1>c DEF AssertDone, lists, waits, seterror, Executing,
     WaitTypes, FlagTypes
<1>10. CASE Compute
  BY <1>10, <1>a, <1>c DEF Compute, lists, waits, flags, Executing, WaitTypes,
     FlagTypes
<1>11. CASE Finish
  BY <1>11, <1>a, <1>c DEF Finish, lists, waits, set_done, Executing,
     WaitTypes, FlagTypes
<1>12. CASE Fail
  BY <1>12, <1>a, <1>c DEF Fail, lists, waits, seterror, Executing, WaitTypes,
     FlagTypes
<1>13. CASE Suspend
  BY <1>13, <1>a, <1>c DEF Suspend, lists, flags, Block, AfterInstr, Executing,
     WaitTypes, FlagTypes
<1>14. CASE RunScriptReturn
  BY <1>14, <1>a, <1>c DEF RunScriptReturn, lists, waits, flags, Executing,
     WaitTypes, FlagTypes
<1>15. CASE mf_debugger
  BY <1>15, <1>a, <1>c DEF mf_debugger, lists, waits, flags, Executing,
     WaitTypes, FlagTypes
<1>16. ASSUME NEW b \in BOOLEAN, set_critical(b) PROVE WaitingAt(x)'
  BY <1>16, <1>a, <1>c DEF set_critical, lists, waits, flags, Executing,
     WaitTypes, FlagTypes
<1>17. ASSUME NEW d \in Durations, Sleep(d) PROVE WaitingAt(x)'
  BY <1>17, <1>a, <1>c DEF Sleep, Block, lists, flags, AfterInstr, Executing,
     WaitTypes, FlagTypes
<1>18. ASSUME NEW d \in Durations, wait_for_event(d) PROVE WaitingAt(x)'
  BY <1>18, <1>a, <1>c DEF wait_for_event, EventQueued, Block, lists, waits,
     flags, AfterInstr, Executing, WaitTypes, FlagTypes
<1>19. ASSUME NEW e \in Exec, SendEvent(e) PROVE WaitingAt(x)'
  <2>1. CASE WaitsForEvent(e)
    BY <1>19, <1>a, <1>c, <2>1 DEF SendEvent, signal_event, revive, flags,
       Executing, WaitTypes
  <2>2. CASE ~WaitsForEvent(e)
    <3>1. /\ ~blocked[cur] /\ UNCHANGED <<life, lists, waits, flags>>
          /\ events' = [events EXCEPT ![e] = IF @ < MaxEvents THEN @ + 1 ELSE @]
      BY <1>19, <1>a, <1>c, <2>2 DEF SendEvent, signal_event, Executing
    <3>2. x # e => events'[x] = events[x]
      BY <3>1, <1>a DEF WaitTypes
    <3>3. x = e => ~(blocked[x] /\ wait_type[x] = "WAIT_EVENT")
      BY <2>2 DEF WaitsForEvent
    <3>4. QED
      BY <1>a, <3>1, <3>2, <3>3 DEF lists, waits, flags
  <2>3. QED
    BY <2>1, <2>2
<1>20. ASSUME NEW e \in Exec, KillScript(e) PROVE WaitingAt(x)'
  BY <1>20, <1>a, <1>c DEF KillScript, kill, seterror, revive, revive_debugged,
     Executing, WaitTypes, FlagTypes
<1>21. ASSUME NEW e \in Exec, start_script(e) PROVE WaitingAt(x)'
  BY <1>21, <1>a, <1>c DEF start_script, Spawn, waits, AfterInstr, Executing,
     WaitTypes, FlagTypes
<1>22. ASSUME NEW e \in Exec, RunScriptStart(e) PROVE WaitingAt(x)'
  BY <1>22, <1>a, <1>c DEF RunScriptStart, Executing, Spawn, Block, AfterInstr,
     WaitTypes, FlagTypes
<1>23. CASE SettleWakeParent
  <2>1. ~blocked[cur] /\ pParent[cur] \in Exec /\ run_ok[pParent[cur]]
    BY <1>23, <1>c DEF SettleWakeParent, Inv, TypeOK, LinkTypes, Ended
  <2>2. /\ UNCHANGED <<life, sleep_until, wait_type, error, run_ok, events>>
        /\ blocked' = [blocked EXCEPT ![pParent[cur]] = FALSE]
        /\ \/ UNCHANGED in_hold_list
           \/ in_hold_list' = [in_hold_list EXCEPT ![pParent[cur]] = "NO_LIST"]
        /\ in_hold_list'[pParent[cur]] \notin {"TIMEOUT_LIST", "NOTIMEOUT_LIST"}
    BY <1>23, <1>a, <2>1 DEF SettleWakeParent, revive, flags
  <2>3. QED
    BY <1>a, <1>c, <2>1, <2>2 DEF WaitTypes, FlagTypes
<1>24. CASE SettleDelete
  BY <1>24, <1>a, <1>c DEF SettleDelete, NextScript, lists, waits, flags,
     Ended, WaitTypes, FlagTypes
<1>25. CASE SettleDebugger
  BY <1>25, <1>a, <1>c DEF SettleDebugger, HaltedOnly, NextScript, waits,
     flags, WaitTypes, FlagTypes
<1>26. CASE SettleBlocked
  BY <1>26, <1>a, <1>c DEF SettleBlocked, HasTimeout, NextScript, waits, flags,
     WaitTypes, FlagTypes
<1>27. CASE SettleRan
  BY <1>27, <1>a, <1>c DEF SettleRan, NextScript, waits, flags, WaitTypes,
     FlagTypes
<1>28. CASE WakeSleeper
  <2>1. PICK e \in Exec : revive(e)
    BY <1>28 DEF WakeSleeper
  <2>2. QED
    BY <1>28, <1>a, <1>d, <2>1 DEF WakeSleeper, revive, loop, flags, WaitTypes
<1>29. ASSUME NEW e \in Exec, ExtStart(e) PROVE WaitingAt(x)'
  BY <1>29, <1>a, <1>d DEF ExtStart, Spawn, waits, loop, WaitTypes, FlagTypes
<1>30. ASSUME NEW e \in Exec, ExtEvent(e) PROVE WaitingAt(x)'
  <2>1. CASE WaitsForEvent(e)
    BY <1>30, <1>a, <1>d, <2>1 DEF ExtEvent, signal_event, revive, flags, loop,
       WaitTypes
  <2>2. CASE ~WaitsForEvent(e)
    <3>1. /\ UNCHANGED <<life, lists, waits, flags, cur>>
          /\ events' = [events EXCEPT ![e] = IF @ < MaxEvents THEN @ + 1 ELSE @]
      BY <1>30, <1>a, <1>d, <2>2 DEF ExtEvent, signal_event, loop
    <3>2. x # e => events'[x] = events[x]
      BY <3>1, <1>a DEF WaitTypes
    <3>3. x = e => ~(blocked[x] /\ wait_type[x] = "WAIT_EVENT")
      BY <2>2 DEF WaitsForEvent
    <3>4. QED
      BY <1>a, <3>1, <3>2, <3>3 DEF lists, waits, flags
  <2>3. QED
    BY <2>1, <2>2
<1>31. ASSUME NEW e \in Exec, ExtKill(e) PROVE WaitingAt(x)'
  BY <1>31, <1>a, <1>d DEF ExtKill, kill, seterror, revive, revive_debugged,
     loop, WaitTypes, FlagTypes
<1>32. ASSUME NEW e \in Exec, ExtRevive(e) PROVE WaitingAt(x)'
  BY <1>32, <1>a, <1>d DEF ExtRevive, revive, flags, loop, WaitTypes, FlagTypes
<1>33. ASSUME NEW e \in Exec, DbgAttach(e) PROVE WaitingAt(x)'
  BY <1>33, <1>a, <1>d DEF DbgAttach, lists, waits, flags, loop, WaitTypes,
     FlagTypes
<1>34. ASSUME NEW e \in Exec, DbgBreak(e) PROVE WaitingAt(x)'
  BY <1>34, <1>a, <1>d DEF DbgBreak, lists, waits, flags, loop, WaitTypes,
     FlagTypes
<1>35. ASSUME NEW e \in Exec, DbgKill(e) PROVE WaitingAt(x)'
  BY <1>35, <1>a, <1>d DEF DbgKill, seterror, lists, waits, loop, WaitTypes,
     FlagTypes
<1>36. ASSUME NEW e \in Exec, DbgDetach(e) PROVE WaitingAt(x)'
  BY <1>36, <1>a, <1>d DEF DbgDetach, sethalt, revive_debugged, lists, waits,
     loop, WaitTypes, FlagTypes
<1>37. ASSUME NEW e \in Exec, NEW s \in {"INS_TRACE", "RUN"}, DbgResume(e, s) PROVE WaitingAt(x)'
  BY <1>37, <1>a, <1>d DEF DbgResume, sethalt, revive_debugged, waits, loop,
     WaitTypes, FlagTypes
<1>38. CASE Shutdown
  <2>1. x \notin Live'
    BY <1>38, NextPassing DEF Shutdown, Passing
  <2>2. life[x] = "unborn" \/ life'[x] # "unborn"
    BY <1>38 DEF Shutdown
  <2>3. QED
    BY <1>38, <1>a, <2>1, <2>2 DEF Shutdown, waits, flags
<1>39. CASE UNCHANGED vars
  BY <1>39, <1>a, <1>c, <1>d DEF vars, lists, waits, flags, loop, WaitTypes,
     FlagTypes
<1> QED
  BY <1>1, <1>2, <1>3, <1>4, <1>5, <1>6, <1>7, <1>8, <1>9, <1>10, <1>11, <1>12,
     <1>13, <1>14, <1>15, <1>16, <1>17, <1>18, <1>19, <1>20, <1>21, <1>22,
     <1>23, <1>24, <1>25, <1>26, <1>27, <1>28, <1>29, <1>30, <1>31, <1>32,
     <1>33, <1>34, <1>35, <1>36, <1>37, <1>38, <1>39 DEF Next, ScriptsThread,
     OtherThreads, Instruction, Settle

(* An instruction that blocks its script does not end it.                  *)
LEMMA InstructionWaits ==
  ASSUME Inv, Instruction
  PROVE  AfterInstr /\ cur' = cur /\ (blocked'[cur] => ~Ended(cur)')
<1> SUFFICES blocked'[cur] => ~error'[cur] /\ ~done'[cur]
  BY DEF Instruction, AssertDone, Compute, Finish, Fail, Suspend, RunScriptReturn,
     mf_debugger, set_critical, Sleep, wait_for_event, SendEvent, KillScript,
     start_script, RunScriptStart, AfterInstr, Ended
<1>c. pc = "exec" =>
        /\ cur \in Exec /\ cur \in Live /\ in_hold_list[cur] = "NO_LIST"
        /\ ~blocked[cur] /\ ~error[cur]
  BY InHandPlaced DEF Inv, Waiting, HandWaits
<1>a. WaitTypes /\ FlagTypes /\ in_hold_list \in [Exec -> HoldLists]
  BY DEF Inv, TypeOK, ListTypes
<1>1. CASE AssertDone
  BY <1>1, <1>a, <1>c DEF AssertDone, waits, seterror, Executing, WaitTypes,
     FlagTypes
<1>2. CASE Compute
  BY <1>2, <1>a, <1>c DEF Compute, waits, flags, Executing, WaitTypes,
     FlagTypes
<1>3. CASE Finish
  BY <1>3, <1>a, <1>c DEF Finish, waits, set_done, Executing, WaitTypes,
     FlagTypes
<1>4. CASE Fail
  BY <1>4, <1>a, <1>c DEF Fail, waits, seterror, Executing, WaitTypes,
     FlagTypes
<1>5. CASE Suspend
  BY <1>5, <1>a, <1>c DEF Suspend, flags, Block, Executing, WaitTypes,
     FlagTypes
<1>6. CASE RunScriptReturn
  BY <1>6, <1>a, <1>c DEF RunScriptReturn, waits, flags, Executing, WaitTypes,
     FlagTypes
<1>7. CASE mf_debugger
  BY <1>7, <1>a, <1>c DEF mf_debugger, waits, flags, Executing, WaitTypes,
     FlagTypes
<1>8. ASSUME NEW b \in BOOLEAN, set_critical(b)
      PROVE  blocked'[cur] => ~error'[cur] /\ ~done'[cur]
  BY <1>8, <1>a, <1>c DEF set_critical, waits, flags, Executing, WaitTypes,
     FlagTypes
<1>9. ASSUME NEW d \in Durations, Sleep(d)
      PROVE  blocked'[cur] => ~error'[cur] /\ ~done'[cur]
  BY <1>9, <1>a, <1>c DEF Sleep, Block, flags, Executing, WaitTypes, FlagTypes
<1>10. ASSUME NEW d \in Durations, wait_for_event(d)
      PROVE  blocked'[cur] => ~error'[cur] /\ ~done'[cur]
  BY <1>10, <1>a, <1>c DEF wait_for_event, EventQueued, Block, waits, flags,
     Executing, WaitTypes, FlagTypes
<1>11. ASSUME NEW e \in Exec, SendEvent(e)
      PROVE  blocked'[cur] => ~error'[cur] /\ ~done'[cur]
  BY <1>11, <1>a, <1>c DEF SendEvent, signal_event, WaitsForEvent, revive,
     waits, flags, Executing, WaitTypes, FlagTypes
<1>12. ASSUME NEW e \in Exec, KillScript(e)
      PROVE  blocked'[cur] => ~error'[cur] /\ ~done'[cur]
  BY <1>12, <1>a, <1>c DEF KillScript, kill, seterror, revive, revive_debugged,
     Executing, WaitTypes, FlagTypes
<1>13. ASSUME NEW e \in Exec, start_script(e)
      PROVE  blocked'[cur] => ~error'[cur] /\ ~done'[cur]
  BY <1>13, <1>a, <1>c DEF start_script, Spawn, waits, Executing, WaitTypes,
     FlagTypes
<1>14. ASSUME NEW e \in Exec, RunScriptStart(e)
      PROVE  blocked'[cur] => ~error'[cur] /\ ~done'[cur]
  BY <1>14, <1>a, <1>c DEF RunScriptStart, Executing, Spawn, Block, WaitTypes,
     FlagTypes
<1> QED
  BY <1>1, <1>2, <1>3, <1>4, <1>5, <1>6, <1>7, <1>8, <1>9, <1>10, <1>11, <1>12,
     <1>13, <1>14 DEF Instruction

LEMMA NextHandWaits == Inv /\ [Next]_vars => HandWaits'
<1> SUFFICES ASSUME Inv, [Next]_vars PROVE HandWaits'
  OBVIOUS
<1> USE DEF HandWaits
<1>1. pc' \in {"idle", "pop", "check", "exit"} => HandWaits'
  OBVIOUS
<1>2. \A x \in Exec : WaitingAt(x)'
  BY NextWaitingAt
<1>3. pc \in {"fetch", "exec", "settle"} =>
        /\ cur \in Exec /\ cur \in Live
        /\ pc # "settle" => ~blocked[cur] /\ ~error[cur]
  BY InHandPlaced DEF Inv, Waiting
<1>4. CASE Instruction
  <2>1. pc = "exec" /\ AfterInstr /\ cur' = cur /\ (blocked'[cur] => ~Ended(cur)')
    BY <1>4, InstructionWaits DEF Instruction, AssertDone, Compute, Finish, Fail,
       Suspend, RunScriptReturn, mf_debugger, set_critical, Sleep, wait_for_event,
       SendEvent, KillScript, start_script, RunScriptStart, Executing
  <2>2. run_ok'[cur] => ~error'[cur]
    BY <1>2, <1>3, <2>1 DEF WaitingAt
  <2>3. QED
    BY <1>3, <2>1, <2>2 DEF AfterInstr, BeforeInstr, Sliced, Ended
<1>5. CASE Pop
  <2>1. Head(runlist) \in Range(runlist)
    BY <1>5, TailRange DEF Pop, Inv, TypeOK, ListTypes, Placed
  <2>2. Head(runlist) \in Exec /\ cur = None
    BY <1>5, HeadTailProperties DEF Pop, Inv, TypeOK, ListTypes, InHand
  <2>3. Head(runlist) \in Live /\ in_hold_list[Head(runlist)] = "NO_LIST"
    BY <2>1, <2>2 DEF Inv, Placed, PlacedAt
  <2>4. ~blocked[Head(runlist)] /\ (run_ok[Head(runlist)] => ~error[Head(runlist)])
    BY <2>2, <2>3, NoneAssumption DEF Inv, Waiting, WaitingAt
  <2>5. QED
    BY <1>5, <2>4 DEF Pop, BeforeInstr, waits, flags
<1>6. CASE DebuggerStops
  BY <1>3, <1>6 DEF DebuggerStops, sethalt, waits, Inv, TypeOK, FlagTypes
<1>7. CASE DebuggerTraces
  BY <1>3, <1>7 DEF DebuggerTraces, sethalt, waits
<1>8. CASE DebuggerPasses
  BY <1>3, <1>8 DEF DebuggerPasses, waits, flags
<1>9. CASE StepScripts \/ EndOfPass \/ CheckDone \/ Shutdown \/ WakeSleeper
  BY <1>1, <1>9 DEF StepScripts, EndOfPass, CheckDone, Shutdown, WakeSleeper, loop
<1>10. CASE Settle
  BY <1>1, <1>10 DEF Settle, SettleWakeParent, SettleDelete, SettleDebugger,
     SettleBlocked, SettleRan, NextScript
<1>11. CASE Tick \/ UNCHANGED vars
  BY <1>11 DEF Tick, vars, waits, flags, loop, Inv, Waiting, Ended
<1>12. ASSUME NEW e \in Exec,
              \/ ExtStart(e) \/ ExtEvent(e) \/ ExtKill(e) \/ ExtRevive(e)
              \/ DbgAttach(e) \/ DbgDetach(e) \/ DbgBreak(e) \/ DbgKill(e)
              \/ \E s \in {"INS_TRACE", "RUN"} : DbgResume(e, s)
       PROVE  HandWaits'
  BY <1>1, <1>12 DEF ExtStart, ExtEvent, ExtKill, ExtRevive, DbgAttach, DbgDetach,
     DbgBreak, DbgKill, DbgResume, loop
<1> QED
  BY <1>4, <1>5, <1>6, <1>7, <1>8, <1>9, <1>10, <1>11, <1>12
     DEF Next, ScriptsThread, OtherThreads

LEMMA NextWaiting == Inv /\ [Next]_vars => Waiting'
BY NextWaitingAt, NextHandWaits DEF Waiting

-----------------------------------------------------------------------------
(* The links of run_script().                                              *)

LEMMA NextLinked == Inv /\ [Next]_vars => Linked'
<1> SUFFICES ASSUME Inv, [Next]_vars, NEW x \in Exec PROVE LinkedAt(x)'
  BY DEF Linked
<1> USE DEF LinkedAt, Live, Ended
<1>a. /\ \A y \in Exec : LinkedAt(y)
      /\ WaitTypes /\ FlagTypes /\ LinkTypes
      /\ None \notin Exec
      /\ \A y \in Exec : life[y] = "unborn" => ~blocked[y] /\ ~error[y]
  BY NoneAssumption DEF Inv, Linked, TypeOK, Waiting, WaitingAt
<1>c. pc \in {"fetch", "exec", "settle"} =>
        /\ cur \in Exec /\ life[cur] = "live"
        /\ pc # "settle" => ~blocked[cur] /\ ~error[cur]
  BY InHandPlaced DEF Inv, Waiting, HandWaits
<1>1. CASE StepScripts
  BY <1>1, <1>a DEF StepScripts, waits, flags, links, WaitTypes, FlagTypes,
     LinkTypes
<1>2. CASE Pop
  BY <1>2, <1>a DEF Pop, waits, flags, links, WaitTypes, FlagTypes, LinkTypes
<1>3. CASE EndOfPass
  BY <1>3, <1>a DEF EndOfPass, waits, flags, links, WaitTypes, FlagTypes,
     LinkTypes
<1>4. CASE DebuggerStops
  BY <1>4, <1>a DEF DebuggerStops, waits, sethalt, links, WaitTypes, FlagTypes,
     LinkTypes
<1>5. CASE DebuggerTraces
  BY <1>5, <1>a DEF DebuggerTraces, waits, sethalt, links, WaitTypes,
     FlagTypes, LinkTypes
<1>6. CASE DebuggerPasses
  BY <1>6, <1>a DEF DebuggerPasses, waits, flags, links, WaitTypes, FlagTypes,
     LinkTypes
<1>7. CASE CheckDone
  BY <1>7, <1>a DEF CheckDone, waits, flags, links, WaitTypes, FlagTypes,
     LinkTypes
<1>8. CASE Tick
  BY <1>8, <1>a DEF Tick, waits, flags, links, WaitTypes, FlagTypes, LinkTypes
<1>9. CASE AssertDone
  BY <1>9, <1>a, <1>c DEF AssertDone, waits, seterror, links, Executing,
     WaitTypes, FlagTypes, LinkTypes
<1>10. CASE Compute
  BY <1>10, <1>a, <1>c DEF Compute, waits, flags, links, Executing, WaitTypes,
     FlagTypes, LinkTypes
<1>11. CASE Finish
  BY <1>11, <1>a, <1>c DEF Finish, waits, set_done, links, Executing,
     WaitTypes, FlagTypes, LinkTypes
<1>12. CASE Fail
  BY <1>12, <1>a, <1>c DEF Fail, waits, seterror, links, Executing, WaitTypes,
     FlagTypes, LinkTypes
<1>13. CASE Suspend
  BY <1>13, <1>a, <1>c DEF Suspend, flags, Block, links, Executing, WaitTypes,
     FlagTypes, LinkTypes
<1>14. CASE RunScriptReturn
  BY <1>14, <1>a, <1>c DEF RunScriptReturn, waits, flags, Part, Executing,
     WaitTypes, FlagTypes, LinkTypes
<1>15. CASE mf_debugger
  BY <1>15, <1>a, <1>c DEF mf_debugger, waits, flags, links, Executing,
     WaitTypes, FlagTypes, LinkTypes
<1>16. ASSUME NEW b \in BOOLEAN, set_critical(b) PROVE LinkedAt(x)'
  BY <1>16, <1>a, <1>c DEF set_critical, waits, flags, links, Executing,
     WaitTypes, FlagTypes, LinkTypes
<1>17. ASSUME NEW d \in Durations, Sleep(d) PROVE LinkedAt(x)'
  BY <1>17, <1>a, <1>c DEF Sleep, Block, flags, links, Executing, WaitTypes,
     FlagTypes, LinkTypes
<1>18. ASSUME NEW d \in Durations, wait_for_event(d) PROVE LinkedAt(x)'
  BY <1>18, <1>a, <1>c DEF wait_for_event, Block, waits, flags, links,
     Executing, WaitTypes, FlagTypes, LinkTypes
<1>19. ASSUME NEW e \in Exec, SendEvent(e) PROVE LinkedAt(x)'
  BY <1>19, <1>a, <1>c DEF SendEvent, signal_event, WaitsForEvent, revive,
     waits, flags, links, Executing, WaitTypes, FlagTypes, LinkTypes
<1>20. ASSUME NEW e \in Exec, KillScript(e) PROVE LinkedAt(x)'
  BY <1>20, <1>a, <1>c DEF KillScript, kill, seterror, revive, links,
     Executing, WaitTypes, FlagTypes, LinkTypes
<1>21. ASSUME NEW e \in Exec, start_script(e) PROVE LinkedAt(x)'
  BY <1>21, <1>a, <1>c DEF start_script, Spawn, waits, links, Executing,
     WaitTypes, FlagTypes, LinkTypes
<1>22. ASSUME NEW e \in Exec, RunScriptStart(e) PROVE LinkedAt(x)'
  BY <1>22, <1>a, <1>c DEF RunScriptStart, Executing, Spawn, Block, WaitTypes,
     FlagTypes, LinkTypes
<1>23. CASE SettleWakeParent
  BY <1>23, <1>a, <1>c DEF SettleWakeParent, revive, flags, WaitTypes,
     FlagTypes, LinkTypes
<1>24. CASE SettleDelete
  BY <1>24, <1>a, <1>c DEF SettleDelete, waits, flags, DisownChild, WaitTypes,
     FlagTypes, LinkTypes
<1>25. CASE SettleDebugger
  BY <1>25, <1>a, <1>c DEF SettleDebugger, waits, flags, links, WaitTypes,
     FlagTypes, LinkTypes
<1>26. CASE SettleBlocked
  BY <1>26, <1>a, <1>c DEF SettleBlocked, waits, flags, links, WaitTypes,
     FlagTypes, LinkTypes
<1>27. CASE SettleRan
  BY <1>27, <1>a, <1>c DEF SettleRan, waits, flags, links, WaitTypes,
     FlagTypes, LinkTypes
<1>28. CASE WakeSleeper
  <2>1. PICK e \in Exec : Due(e) /\ revive(e)
    BY <1>28 DEF WakeSleeper
  <2>2. sleep_until[e] # 0
    BY <2>1 DEF Due, Earliest, Inv, Placed, PlacedAt, Waiting, WaitingAt
  <2>3. QED
    BY <1>28, <1>a, <2>1, <2>2 DEF WakeSleeper, revive, flags, links, WaitTypes
<1>29. ASSUME NEW e \in Exec, ExtStart(e) PROVE LinkedAt(x)'
  BY <1>29, <1>a DEF ExtStart, Spawn, waits, links, WaitTypes, FlagTypes,
     LinkTypes
<1>30. ASSUME NEW e \in Exec, ExtEvent(e) PROVE LinkedAt(x)'
  <2>1. UNCHANGED <<life, links, error, done>>
    BY <1>30 DEF ExtEvent, flags
  <2>2. CASE WaitsForEvent(e) /\ revive(e)
    BY <1>30, <1>a, <2>1, <2>2 DEF WaitsForEvent, revive, links, WaitTypes
  <2>3. CASE UNCHANGED waits
    BY <1>a, <2>1, <2>3 DEF waits, links
  <2>4. QED
    BY <1>30, <2>2, <2>3 DEF ExtEvent, signal_event
<1>31. ASSUME NEW e \in Exec, ExtKill(e) PROVE LinkedAt(x)'
  BY <1>31, <1>a DEF ExtKill, kill, seterror, revive, links, WaitTypes,
     FlagTypes, LinkTypes
<1>32. ASSUME NEW e \in Exec, ExtRevive(e) PROVE LinkedAt(x)'
  BY <1>32, <1>a DEF ExtRevive, revive, flags, links, WaitTypes, FlagTypes,
     LinkTypes
<1>33. ASSUME NEW e \in Exec, DbgAttach(e) PROVE LinkedAt(x)'
  BY <1>33, <1>a DEF DbgAttach, waits, flags, links, WaitTypes, FlagTypes,
     LinkTypes
<1>34. ASSUME NEW e \in Exec, DbgBreak(e) PROVE LinkedAt(x)'
  BY <1>34, <1>a DEF DbgBreak, waits, flags, links, WaitTypes, FlagTypes,
     LinkTypes
<1>35. ASSUME NEW e \in Exec, DbgKill(e) PROVE LinkedAt(x)'
  BY <1>35, <1>a DEF DbgKill, seterror, waits, links, WaitTypes, FlagTypes,
     LinkTypes
<1>36. ASSUME NEW e \in Exec, DbgDetach(e) PROVE LinkedAt(x)'
  BY <1>36, <1>a DEF DbgDetach, sethalt, waits, links, WaitTypes, FlagTypes,
     LinkTypes
<1>37. ASSUME NEW e \in Exec, NEW s \in {"INS_TRACE", "RUN"}, DbgResume(e, s) PROVE LinkedAt(x)'
  BY <1>37, <1>a DEF DbgResume, sethalt, waits, links, WaitTypes, FlagTypes,
     LinkTypes
<1>38. CASE Shutdown
  <2>1. x \notin Live'
    BY <1>38, NextPassing DEF Shutdown, Passing
  <2>2. life[x] = "unborn" \/ life'[x] # "unborn"
    BY <1>38 DEF Shutdown
  <2>3. QED
    BY <1>38, <1>a, <2>1, <2>2 DEF Shutdown, links
<1>39. CASE UNCHANGED vars
  BY <1>39, <1>a DEF vars, waits, flags, links, WaitTypes, FlagTypes, LinkTypes
<1> QED
  BY <1>1, <1>2, <1>3, <1>4, <1>5, <1>6, <1>7, <1>8, <1>9, <1>10, <1>11, <1>12,
     <1>13, <1>14, <1>15, <1>16, <1>17, <1>18, <1>19, <1>20, <1>21, <1>22,
     <1>23, <1>24, <1>25, <1>26, <1>27, <1>28, <1>29, <1>30, <1>31, <1>32,
     <1>33, <1>34, <1>35, <1>36, <1>37, <1>38, <1>39 DEF Next, ScriptsThread,
     OtherThreads, Instruction, Settle

-----------------------------------------------------------------------------
(* The invariants of ScriptScheduler.                                      *)

(* The inductive invariant holds in every reachable state.                 *)
THEOREM Invariant == Spec => []Inv
<1>1. Init => Inv
  BY InitTypeOK, InitPlaced, InitWaiting DEF Inv
<1>2. Inv /\ [Next]_vars => Inv'
  BY NextTypeOK, NextPlaced, NextPassing, NextWaiting, NextLinked DEF Inv
<1>3. QED
  BY <1>1, <1>2, PTL DEF Spec

(* An executor in hand or in a list is in no other, and all live ones are. *)
THEOREM OnePlace == Spec => []InOnePlace
<1>1. ASSUME Inv PROVE InOnePlace
  <2> USE NoneAssumption DEF Inv, TypeOK, ListTypes, LoopTypes
  <2>1. Range(runlist) \subseteq Exec /\ Range(ranlist) \subseteq Exec
    BY <1>1, ElementOfSeq, LenProperties DEF Range
  <2>2. /\ Places[1] = {cur} \ {None} /\ Places[2] = Range(runlist)
        /\ Places[3] = Range(ranlist) /\ Places[4] = holdlist
        /\ Places[5] = notimeoutholdlist /\ Places[6] = debuggerholdlist
    BY DEF Places
  <2>3. \A i \in 1..6 : i \in {1, 2, 3, 4, 5, 6} /\ Places[i] \subseteq Exec
    BY <1>1, <2>1, <2>2
  <2>4. ASSUME NEW x \in Exec, NEW i \in 1..6, NEW j \in 1..6, x \in Places[i], x \in Places[j]
        PROVE  i = j
    BY <1>1, <2>2, <2>3, <2>4 DEF Placed, PlacedAt
  <2>5. Live = UNION {Places[i] : i \in 1..6}
    <3>1. ASSUME NEW x \in Live PROVE \E i \in 1..6 : x \in Places[i]
      BY <1>1, <2>2, <3>1 DEF Placed, PlacedAt, Live, HoldLists
    <3>2. ASSUME NEW i \in 1..6, NEW x \in Places[i] PROVE x \in Live
      BY <1>1, <2>2, <2>3, <3>2 DEF Placed, PlacedAt
    <3>3. QED
      BY <3>1, <3>2
  <2>6. QED
    BY <1>1, <2>3, <2>4, <2>5 DEF InOnePlace, Placed
<1>2. QED
  BY <1>1, Invariant, PTL

(* in_hold_list is right about every live executor.                        *)
THEOREM RecordsAgree == Spec => []HoldListsAgree
<1>1. ASSUME Inv PROVE HoldListsAgree
  BY <1>1 DEF Inv, Placed, PlacedAt, HoldListsAgree, TypeOK, ListTypes, Live
<1>2. QED
  BY <1>1, Invariant, PTL

(* Whoever is in a hold list has the reason for it, and nobody blocked is  *)
(* in a run list.                                                          *)
THEOREM BlockedHeld == Spec => []BlockedAreHeld
<1>1. ASSUME Inv PROVE BlockedAreHeld
  <2>1. Range(runlist) \subseteq Exec /\ Range(ranlist) \subseteq Exec
    BY <1>1, ElementOfSeq, LenProperties DEF Range, Inv, TypeOK, ListTypes
  <2>2. \A e \in Exec : PlacedAt(e) /\ WaitingAt(e)
    BY <1>1 DEF Inv, Placed, Waiting
  <2>3. cur \notin Range(runlist) \union Range(ranlist)
    BY <1>1 DEF Inv, Placed
  <2>4. QED
    BY <1>1, <2>1, <2>2, <2>3
       DEF Inv, PlacedAt, WaitingAt, BlockedAreHeld, TypeOK, ListTypes
<1>2. QED
  BY <1>1, Invariant, PTL

(* No script waits for an event that is already in its queue.              *)
THEOREM EventsArrive == Spec => []NoLostEvent
<1>1. ASSUME Inv PROVE NoLostEvent
  BY <1>1 DEF Inv, Waiting, WaitingAt, NoLostEvent, Live
<1>2. QED
  BY <1>1, Invariant, PTL

(* The parent pointer of a live script leads to a live script that waits   *)
(* for it.                                                                 *)
THEOREM ParentsLive == Spec => []ParentAlive
<1>1. ASSUME Inv PROVE ParentAlive
  BY <1>1 DEF Inv, Linked, LinkedAt, ParentAlive, Live
<1>2. QED
  BY <1>1, Invariant, PTL

(* No executor outlives deinitialize().                                    *)
THEOREM NoneLeft == Spec => []NoneLeftAtExit
<1>1. ASSUME Inv PROVE NoneLeftAtExit
  BY <1>1 DEF Inv, Passing, NoneLeftAtExit
<1>2. QED
  BY <1>1, Invariant, PTL

-----------------------------------------------------------------------------
(* All of these: an executor's place, its records, its state and its       *)
(* events agree in every state, for any number of scripts.                 *)
THEOREM PlacesAgree == Spec => []ListsConsistent
<1>1. InOnePlace /\ HoldListsAgree /\ BlockedAreHeld /\ NoLostEvent /\ NoneLeftAtExit
         => ListsConsistent
  BY DEF ListsConsistent
<1>2. QED
  BY <1>1, OnePlace, RecordsAgree, BlockedHeld, EventsArrive, NoneLeft, PTL

-----------------------------------------------------------------------------
(* The action properties.                                                  *)

(* run_script() takes the result of a child that has ended.                *)
THEOREM ReturnsAfterChild == Spec => RunScriptReturnsAfterChild
<1>1. ASSUME Inv, [Next]_vars
      PROVE  [\A p \in Live : pChild[p] # None /\ pChild'[p] = None => Ended(pChild[p])]_vars
  <2> SUFFICES ASSUME Inv, [Next]_vars, NEW p \in Live,
                      pChild[p] # None, pChild'[p] = None
               PROVE  Ended(pChild[p])
    BY <1>1
  <2>1. RunScriptReturn /\ p = cur
    BY NoneAssumption
       DEF Inv, TypeOK, LinkTypes, Live, Next, ScriptsThread, OtherThreads,
           Instruction, Settle, StepScripts, Pop, EndOfPass, DebuggerStops,
           DebuggerTraces, DebuggerPasses, CheckDone, Tick, AssertDone, Compute,
           Finish, Fail, Suspend, RunScriptReturn, Part, mf_debugger, set_critical,
           Sleep, wait_for_event, SendEvent, KillScript, start_script, RunScriptStart,
           SettleWakeParent, SettleDelete, SettleDebugger, SettleBlocked, SettleRan,
           WakeSleeper, ExtStart, ExtEvent, ExtKill, ExtRevive, DbgAttach, DbgDetach,
           DbgBreak, DbgKill, DbgResume, Shutdown, links, vars
  <2>2. ~blocked[cur] /\ ~error[cur]
    BY <2>1 DEF RunScriptReturn, Inv, Waiting, HandWaits
  <2>3. QED
    BY <2>1, <2>2 DEF Inv, Linked, LinkedAt, Live
<1>2. QED
  BY <1>1, Invariant, PTL DEF Spec, RunScriptReturnsAfterChild

(* The steps that end the wait of a script other than the one in hand.     *)
LEMMA Wakers ==
  ASSUME Inv, [Next]_vars, NEW e \in Exec, e # cur, blocked[e], ~blocked'[e]
  PROVE  \/ \E k \in Exec : kill(k)
         \/ \E k \in Exec : signal_event(k)
         \/ SettleWakeParent \/ WakeSleeper
         \/ \E k \in Exec : ExtRevive(k)
<1>1. \/ UNCHANGED blocked
      \/ blocked' = [blocked EXCEPT ![cur] = TRUE]
      \/ \E k \in Exec : kill(k)
      \/ \E k \in Exec : signal_event(k)
      \/ SettleWakeParent \/ WakeSleeper
      \/ \E k \in Exec : ExtRevive(k)
  BY DEF Next, ScriptsThread, OtherThreads, Instruction, Settle, StepScripts, Pop,
         EndOfPass, DebuggerStops, DebuggerTraces, DebuggerPasses, CheckDone, Tick,
         AssertDone, Compute, Finish, Fail, Suspend, RunScriptReturn, mf_debugger,
         set_critical, Sleep, wait_for_event, SendEvent, KillScript, start_script,
         RunScriptStart, Block, SettleDelete, SettleDebugger, SettleBlocked,
         SettleRan, ExtStart, ExtEvent, ExtKill, DbgAttach, DbgDetach, DbgBreak,
         DbgKill, DbgResume, Shutdown, waits, vars
<1>2. QED
  BY <1>1 DEF Inv, TypeOK, WaitTypes

(* A timed sleep ends when its time has come, a run_script() when its      *)
(* child has ended, any other endless sleep with the answer; and every     *)
(* sleep with a kill.                                                      *)
THEOREM WokenInTime == Spec => NotWokenEarly
<1> DEFINE Timed == \A e \in holdlist : wait_type[e] = "WAIT_SLEEP" /\ ~blocked'[e]
                      => sleep_until[e] <= clock \/ error'[e]
           Endless == \A e \in notimeoutholdlist : wait_type[e] = "WAIT_SLEEP" /\ ~blocked'[e]
                        => \/ error'[e]
                           \/ pChild[e] # None /\ Ended(pChild[e])
                           \/ ExtRevive(e)
<1>1. ASSUME Inv, [Next]_vars PROVE Timed
  <2> SUFFICES ASSUME NEW e \in holdlist, wait_type[e] = "WAIT_SLEEP", ~blocked'[e]
               PROVE  sleep_until[e] <= clock \/ error'[e]
    OBVIOUS
  <2>1. /\ e \in Exec /\ e \in Live /\ blocked[e] /\ sleep_until[e] # 0
        /\ e # cur /\ pChild[e] = None
    BY <1>1, NoneAssumption DEF Inv, TypeOK, ListTypes, Placed, PlacedAt, Waiting,
       WaitingAt, Linked, LinkedAt
  <2>2. \/ \E k \in Exec : kill(k)
        \/ \E k \in Exec : signal_event(k)
        \/ SettleWakeParent \/ WakeSleeper
        \/ \E k \in Exec : ExtRevive(k)
    BY <1>1, <2>1, Wakers
  <2>3. ASSUME NEW k \in Exec, kill(k) PROVE error'[e]
    BY <1>1, <2>1, <2>3 DEF kill, seterror, revive, Inv, TypeOK, WaitTypes, FlagTypes
  <2>4. ASSUME NEW k \in Exec, signal_event(k) PROVE FALSE
    BY <1>1, <2>1, <2>4
       DEF signal_event, WaitsForEvent, revive, waits, Inv, TypeOK, WaitTypes
  <2>5. CASE SettleWakeParent
    <3>1. pParent[cur] \in Exec /\ pChild[pParent[cur]] = cur /\ cur \in Exec
      BY <1>1, <2>5, InHandPlaced
         DEF SettleWakeParent, Inv, Linked, LinkedAt, TypeOK, Live
    <3>2. QED
      BY <1>1, <2>1, <2>5, <3>1, NoneAssumption
         DEF SettleWakeParent, revive, Inv, TypeOK, WaitTypes
  <2>6. CASE WakeSleeper
    <3>1. PICK k \in Exec : Due(k) /\ revive(k)
      BY <2>6 DEF WakeSleeper
    <3>2. now_clock <= clock /\ now_clock \in Int /\ clock \in Int
      BY <1>1, <2>6 DEF WakeSleeper, Inv, Passing, TypeOK, LoopTypes
    <3>3. k = e /\ sleep_until[e] \in Int
      BY <1>1, <2>1, <3>1 DEF revive, Inv, TypeOK, WaitTypes
    <3>4. QED
      BY <3>1, <3>2, <3>3 DEF Due
  <2>7. ASSUME NEW k \in Exec, ExtRevive(k) PROVE FALSE
    BY <1>1, <2>1, <2>7 DEF ExtRevive, revive, Inv, TypeOK, WaitTypes
  <2>8. QED
    BY <2>2, <2>3, <2>4, <2>5, <2>6, <2>7
<1>2. ASSUME Inv, [Next]_vars PROVE Endless
  <2> SUFFICES ASSUME NEW e \in notimeoutholdlist, wait_type[e] = "WAIT_SLEEP", ~blocked'[e]
               PROVE  \/ error'[e]
                      \/ pChild[e] # None /\ Ended(pChild[e])
                      \/ ExtRevive(e)
    OBVIOUS
  <2>1. e \in Exec /\ e \in Live /\ blocked[e] /\ sleep_until[e] = 0 /\ e # cur
    BY <1>2, NoneAssumption DEF Inv, TypeOK, ListTypes, Placed, PlacedAt, Waiting,
       WaitingAt
  <2>2. e \notin holdlist
    BY <1>2, <2>1 DEF Inv, Placed, PlacedAt, Waiting, WaitingAt
  <2>3. \/ \E k \in Exec : kill(k)
        \/ \E k \in Exec : signal_event(k)
        \/ SettleWakeParent \/ WakeSleeper
        \/ \E k \in Exec : ExtRevive(k)
    BY <1>2, <2>1, Wakers
  <2>4. ASSUME NEW k \in Exec, kill(k) PROVE error'[e]
    BY <1>2, <2>1, <2>4 DEF kill, seterror, revive, Inv, TypeOK, WaitTypes, FlagTypes
  <2>5. ASSUME NEW k \in Exec, signal_event(k) PROVE FALSE
    BY <1>2, <2>1, <2>5
       DEF signal_event, WaitsForEvent, revive, waits, Inv, TypeOK, WaitTypes
  <2>6. CASE SettleWakeParent
    <3>1. pParent[cur] \in Exec /\ pChild[pParent[cur]] = cur /\ cur \in Exec
      BY <1>2, <2>6, InHandPlaced
         DEF SettleWakeParent, Inv, Linked, LinkedAt, TypeOK, Live
    <3>2. e = pParent[cur]
      BY <1>2, <2>1, <2>6, <3>1 DEF SettleWakeParent, revive, Inv, TypeOK, WaitTypes
    <3>3. QED
      BY <2>6, <3>1, <3>2, NoneAssumption DEF SettleWakeParent
  <2>7. CASE WakeSleeper
    <3>1. PICK k \in Exec : Due(k) /\ revive(k)
      BY <2>7 DEF WakeSleeper
    <3>2. k = e
      BY <1>2, <2>1, <3>1 DEF revive, Inv, TypeOK, WaitTypes
    <3>3. QED
      BY <2>2, <3>1, <3>2 DEF Due, Earliest
  <2>8. ASSUME NEW k \in Exec, ExtRevive(k) PROVE ExtRevive(e)
    <3>1. k = e
      BY <1>2, <2>1, <2>8 DEF ExtRevive, revive, Inv, TypeOK, WaitTypes
    <3>2. QED
      BY <2>8, <3>1
  <2>9. QED
    BY <2>3, <2>4, <2>5, <2>6, <2>7, <2>8
<1>3. ASSUME Inv, [Next]_vars PROVE [Timed /\ Endless]_vars
  BY <1>1, <1>2, <1>3
<1>4. QED
  BY <1>3, Invariant, PTL DEF Spec, NotWokenEarly

(* A critical script gives the processor up only when it blocks, is halted *)
(* or ends.                                                                *)
THEOREM CriticalKeepsRunning == Spec => CriticalNotSliced
<1>1. ASSUME Inv, [Next]_vars
      PROVE  [cur # None /\ cur' = None /\ critical[cur] => blocked[cur] \/ ~run_ok[cur]]_vars
  <2>1. cur # None /\ cur' = None => pc = "settle"
    BY <1>1
       DEF Inv, TypeOK, InHand, Next, ScriptsThread, OtherThreads, Instruction, Settle,
           StepScripts, Pop, EndOfPass, DebuggerStops, DebuggerTraces, DebuggerPasses,
           CheckDone, Tick, AssertDone, Compute, Finish, Fail, Suspend, RunScriptReturn,
           mf_debugger, set_critical, Sleep, wait_for_event, SendEvent, KillScript,
           start_script, RunScriptStart, AfterInstr, SettleWakeParent, SettleDelete,
           SettleDebugger, SettleBlocked, SettleRan, WakeSleeper, ExtStart, ExtEvent,
           ExtKill, ExtRevive, DbgAttach, DbgDetach, DbgBreak, DbgKill, DbgResume,
           Shutdown, loop, vars
  <2>2. QED
    BY <1>1, <2>1 DEF Inv, Waiting, HandWaits
<1>2. QED
  BY <1>1, Invariant, PTL DEF Spec, CriticalNotSliced

-----------------------------------------------------------------------------
(* Without debuggers no script runs after its end.                         *)

RunsOnly ==
  /\ \A e \in Exec : dbg[e] = "NONE" /\ (run_ok[e] => ~done[e])
  /\ \A e \in Exec : life[e] = "unborn" => ~done[e]
  /\ pc # "fetch"
  /\ pc = "exec" => run_ok[cur]

LEMMA NextRunsOnly ==
  ASSUME Debuggable = {}, Inv, RunsOnly, [Next]_vars
  PROVE  RunsOnly'
<1> USE DEF RunsOnly
<1>a. /\ FlagTypes /\ None \notin Exec
      /\ pc \in {"fetch", "exec", "settle"} => cur \in Exec /\ life[cur] = "live"
      /\ pc \notin {"fetch", "exec", "settle"} => cur = None
  BY NoneAssumption, InHandPlaced DEF Inv, TypeOK, InHand, Live
<1>b. runlist # <<>> => Head(runlist) \in Exec
  BY HeadTailProperties DEF Inv, TypeOK, ListTypes
<1>1. CASE StepScripts
  BY <1>1, <1>a, <1>b DEF StepScripts, flags, FlagTypes, Live
<1>2. CASE Pop
  BY <1>2, <1>a, <1>b DEF Pop, flags, BeforeInstr, FlagTypes, Live
<1>3. CASE EndOfPass
  BY <1>3, <1>a, <1>b DEF EndOfPass, flags, FlagTypes, Live
<1>4. CASE DebuggerStops
  BY <1>4, <1>a, <1>b DEF DebuggerStops, sethalt, flags, FlagTypes, Live
<1>5. CASE DebuggerTraces
  BY <1>5, <1>a, <1>b DEF DebuggerTraces, sethalt, flags, FlagTypes, Live
<1>6. CASE DebuggerPasses
  BY <1>6, <1>a, <1>b DEF DebuggerPasses, flags, FlagTypes, Live
<1>7. CASE CheckDone
  BY <1>7, <1>a, <1>b DEF CheckDone, flags, FlagTypes, Live
<1>8. CASE Tick
  BY <1>8, <1>a, <1>b DEF Tick, flags, loop, FlagTypes, Live
<1>9. CASE AssertDone
  BY <1>9, <1>a DEF AssertDone, seterror, AfterInstr, BeforeInstr, flags,
     Executing, FlagTypes, Live
<1>10. CASE Compute
  BY <1>10, <1>a DEF Compute, flags, AfterInstr, BeforeInstr, Executing,
     FlagTypes, Live
<1>11. CASE Finish
  BY <1>11, <1>a DEF Finish, set_done, AfterInstr, BeforeInstr, flags,
     Executing, FlagTypes, Live
<1>12. CASE Fail
  BY <1>12, <1>a DEF Fail, seterror, AfterInstr, BeforeInstr, flags, Executing,
     FlagTypes, Live
<1>13. CASE Suspend
  BY <1>13, <1>a DEF Suspend, flags, AfterInstr, BeforeInstr, Executing,
     FlagTypes, Live
<1>14. CASE RunScriptReturn
  BY <1>14, <1>a DEF RunScriptReturn, flags, AfterInstr, BeforeInstr,
     Executing, FlagTypes, Live
<1>15. CASE mf_debugger
  BY <1>15, <1>a DEF mf_debugger, flags, AfterInstr, BeforeInstr, Executing,
     FlagTypes, Live
<1>16. ASSUME NEW b \in BOOLEAN, set_critical(b) PROVE RunsOnly'
  BY <1>16, <1>a DEF set_critical, flags, AfterInstr, BeforeInstr, Executing,
     FlagTypes, Live
<1>17. ASSUME NEW d \in Durations, Sleep(d) PROVE RunsOnly'
  BY <1>17, <1>a DEF Sleep, flags, AfterInstr, BeforeInstr, Executing,
     FlagTypes, Live
<1>18. ASSUME NEW d \in Durations, wait_for_event(d) PROVE RunsOnly'
  BY <1>18, <1>a DEF wait_for_event, flags, AfterInstr, BeforeInstr, Executing,
     FlagTypes, Live
<1>19. ASSUME NEW e \in Exec, SendEvent(e) PROVE RunsOnly'
  BY <1>19, <1>a DEF SendEvent, signal_event, WaitsForEvent, flags, AfterInstr,
     BeforeInstr, Executing, FlagTypes, Live
<1>20. ASSUME NEW e \in Exec, KillScript(e) PROVE RunsOnly'
  BY <1>20, <1>a DEF KillScript, kill, seterror, AfterInstr, BeforeInstr,
     flags, Executing, FlagTypes, Live
<1>21. ASSUME NEW e \in Exec, start_script(e) PROVE RunsOnly'
  BY <1>21, <1>a DEF start_script, Spawn, AfterInstr, BeforeInstr, flags,
     Executing, FlagTypes, Live
<1>22. ASSUME NEW e \in Exec, RunScriptStart(e) PROVE RunsOnly'
  BY <1>22, <1>a DEF RunScriptStart, Executing, Spawn, AfterInstr, BeforeInstr,
     flags, FlagTypes, Live
<1>23. CASE SettleWakeParent
  BY <1>23, <1>a DEF SettleWakeParent, NextScript, flags, Ended, FlagTypes,
     Live
<1>24. CASE SettleDelete
  BY <1>24, <1>a DEF SettleDelete, NextScript, flags, Ended, FlagTypes, Live
<1>25. CASE SettleDebugger
  BY <1>25, <1>a DEF SettleDebugger, HaltedOnly, NextScript, flags, FlagTypes,
     Live
<1>26. CASE SettleBlocked
  BY <1>26, <1>a DEF SettleBlocked, NextScript, flags, FlagTypes, Live
<1>27. CASE SettleRan
  BY <1>27, <1>a DEF SettleRan, NextScript, flags, FlagTypes, Live
<1>28. CASE WakeSleeper
  BY <1>28, <1>a, <1>b DEF WakeSleeper, flags, loop, FlagTypes, Live
<1>29. ASSUME NEW e \in Exec, ExtStart(e) PROVE RunsOnly'
  BY <1>29, <1>a DEF ExtStart, Spawn, flags, loop, FlagTypes, Live
<1>30. ASSUME NEW e \in Exec, ExtEvent(e) PROVE RunsOnly'
  BY <1>30, <1>a DEF ExtEvent, signal_event, WaitsForEvent, flags, loop,
     FlagTypes, Live
<1>31. ASSUME NEW e \in Exec, ExtKill(e) PROVE RunsOnly'
  BY <1>31, <1>a DEF ExtKill, kill, seterror, flags, loop, FlagTypes, Live
<1>32. ASSUME NEW e \in Exec, ExtRevive(e) PROVE RunsOnly'
  BY <1>32, <1>a DEF ExtRevive, flags, loop, FlagTypes, Live
<1>33. ASSUME NEW e \in Exec, DbgAttach(e) PROVE RunsOnly'
  BY <1>33, <1>a DEF DbgAttach, flags, loop, FlagTypes, Live
<1>34. ASSUME NEW e \in Exec, DbgBreak(e) PROVE RunsOnly'
  BY <1>34, <1>a DEF DbgBreak, flags, loop, FlagTypes, Live
<1>35. ASSUME NEW e \in Exec, DbgKill(e) PROVE RunsOnly'
  BY <1>35, <1>a DEF DbgKill, seterror, flags, loop, FlagTypes, Live
<1>36. ASSUME NEW e \in Exec, DbgDetach(e) PROVE RunsOnly'
  BY <1>36, <1>a DEF DbgDetach, sethalt, flags, loop, FlagTypes, Live
<1>37. ASSUME NEW e \in Exec, NEW s \in {"INS_TRACE", "RUN"}, DbgResume(e, s) PROVE RunsOnly'
  BY <1>37, <1>a DEF DbgResume, sethalt, flags, loop, FlagTypes, Live
<1>38. CASE Shutdown
  BY <1>38, <1>a, <1>b DEF Shutdown, flags, FlagTypes, Live
<1>39. CASE UNCHANGED vars
  BY <1>39, <1>a, <1>b DEF vars, flags, loop, FlagTypes, Live
<1> QED
  BY <1>1, <1>2, <1>3, <1>4, <1>5, <1>6, <1>7, <1>8, <1>9, <1>10, <1>11, <1>12,
     <1>13, <1>14, <1>15, <1>16, <1>17, <1>18, <1>19, <1>20, <1>21, <1>22,
     <1>23, <1>24, <1>25, <1>26, <1>27, <1>28, <1>29, <1>30, <1>31, <1>32,
     <1>33, <1>34, <1>35, <1>36, <1>37, <1>38, <1>39 DEF Next, ScriptsThread,
     OtherThreads, Instruction, Settle

(* The assertion of execInstr() that its script is not done holds as long  *)
(* as no debugger clears halt.                                             *)
THEOREM NeverRunsDoneUndebugged ==
  ASSUME Debuggable = {}
  PROVE  Spec => []NeverRunsDone
<1>1. Init => RunsOnly
  BY DEF Init, RunsOnly
<1>2. Inv /\ RunsOnly /\ [Next]_vars => RunsOnly'
  BY NextRunsOnly
<1>3. Inv /\ RunsOnly => NeverRunsDone
  BY InHandPlaced DEF Inv, RunsOnly, NeverRunsDone
<1>4. QED
  BY <1>1, <1>2, <1>3, Invariant, PTL DEF Spec

-----------------------------------------------------------------------------
(* Without kills and debuggers no deleted executor is touched: a waiting   *)
(* parent stays runnable, so that run_ready() keeps its child for it.      *)

KeptAt(e) ==
  e \in Live /\ pChild[e] # None
    => pChild[e] \in Live /\ pParent[pChild[e]] = e /\ run_ok[e]

Kept == ~uaf /\ \A e \in Exec : KeptAt(e)

LEMMA NextKept ==
  ASSUME Killable = {}, Debuggable = {}, Inv, RunsOnly, Kept, [Next]_vars
  PROVE  Kept'
<1> USE DEF KeptAt, Live
<1>a. /\ \A y \in Exec : KeptAt(y) /\ LinkedAt(y)
      /\ \A y \in Exec : dbg[y] = "NONE" /\ (run_ok[y] => ~done[y])
      /\ pc = "exec" => run_ok[cur]
      /\ pc # "fetch"
      /\ ~uaf /\ FlagTypes /\ LinkTypes /\ None \notin Exec
  BY NoneAssumption DEF Inv, Linked, RunsOnly, Kept, TypeOK
<1>c. pc \in {"fetch", "exec", "settle"} => cur \in Exec /\ life[cur] = "live"
  BY InHandPlaced DEF Inv
<1>1. CASE StepScripts
  BY <1>1, <1>a DEF StepScripts, flags, links, FlagTypes, LinkTypes, Kept
<1>2. CASE Pop
  BY <1>2, <1>a DEF Pop, flags, links, FlagTypes, LinkTypes, Kept
<1>3. CASE EndOfPass
  BY <1>3, <1>a DEF EndOfPass, flags, links, FlagTypes, LinkTypes, Kept
<1>4. CASE DebuggerStops
  BY <1>4, <1>a DEF DebuggerStops, sethalt, links, FlagTypes, LinkTypes, Kept
<1>5. CASE DebuggerTraces
  BY <1>5, <1>a DEF DebuggerTraces, sethalt, links, FlagTypes, LinkTypes, Kept
<1>6. CASE DebuggerPasses
  BY <1>6, <1>a DEF DebuggerPasses, flags, links, FlagTypes, LinkTypes, Kept
<1>7. CASE CheckDone
  BY <1>7, <1>a DEF CheckDone, flags, links, FlagTypes, LinkTypes, Kept
<1>8. CASE Tick
  BY <1>8, <1>a DEF Tick, flags, links, FlagTypes, LinkTypes, Kept
<1>9. CASE AssertDone
  BY <1>9, <1>a, <1>c DEF AssertDone, seterror, links, Executing, FlagTypes,
     LinkTypes, Kept
<1>10. CASE Compute
  BY <1>10, <1>a, <1>c DEF Compute, flags, links, Executing, FlagTypes,
     LinkTypes, Kept
<1>11. CASE Finish
  BY <1>11, <1>a, <1>c DEF Finish, set_done, links, Executing, FlagTypes,
     LinkTypes, Kept
<1>12. CASE Fail
  BY <1>12, <1>a, <1>c DEF Fail, seterror, links, Executing, FlagTypes,
     LinkTypes, Kept
<1>13. CASE Suspend
  BY <1>13, <1>a, <1>c DEF Suspend, flags, links, Executing, FlagTypes,
     LinkTypes, Kept
<1>14. CASE RunScriptReturn
  BY <1>14, <1>a, <1>c DEF RunScriptReturn, flags, Part, Dangling, LinkedAt,
     Executing, FlagTypes, LinkTypes, Kept
<1>15. CASE mf_debugger
  BY <1>15, <1>a, <1>c DEF mf_debugger, flags, links, Executing, FlagTypes,
     LinkTypes, Kept
<1>16. ASSUME NEW b \in BOOLEAN, set_critical(b) PROVE Kept'
  BY <1>16, <1>a, <1>c DEF set_critical, flags, links, Executing, FlagTypes,
     LinkTypes, Kept
<1>17. ASSUME NEW d \in Durations, Sleep(d) PROVE Kept'
  BY <1>17, <1>a, <1>c DEF Sleep, flags, links, Executing, FlagTypes,
     LinkTypes, Kept
<1>18. ASSUME NEW d \in Durations, wait_for_event(d) PROVE Kept'
  BY <1>18, <1>a, <1>c DEF wait_for_event, flags, links, Executing, FlagTypes,
     LinkTypes, Kept
<1>19. ASSUME NEW e \in Exec, SendEvent(e) PROVE Kept'
  BY <1>19, <1>a, <1>c DEF SendEvent, signal_event, flags, links, Executing,
     FlagTypes, LinkTypes, Kept
<1>20. ASSUME NEW e \in Exec, KillScript(e) PROVE Kept'
  BY <1>20, <1>a, <1>c DEF KillScript, kill, seterror, links, Executing,
     FlagTypes, LinkTypes, Kept
<1>21. ASSUME NEW e \in Exec, start_script(e) PROVE Kept'
  BY <1>21, <1>a, <1>c DEF start_script, Spawn, links, LinkedAt, Executing,
     FlagTypes, LinkTypes, Kept
<1>22. ASSUME NEW e \in Exec, RunScriptStart(e) PROVE Kept'
  BY <1>22, <1>a, <1>c DEF RunScriptStart, Executing, Spawn, LinkedAt,
     FlagTypes, LinkTypes, Kept
<1>23. CASE SettleWakeParent
  BY <1>23, <1>a, <1>c DEF SettleWakeParent, flags, Ended, Dangling, LinkedAt,
     FlagTypes, LinkTypes, Kept
<1>24. CASE SettleDelete
  BY <1>24, <1>a, <1>c DEF SettleDelete, flags, Ended, DisownChild, Dangling,
     LinkedAt, FlagTypes, LinkTypes, Kept
<1>25. CASE SettleDebugger
  BY <1>25, <1>a, <1>c DEF SettleDebugger, HaltedOnly, flags, links, FlagTypes,
     LinkTypes, Kept
<1>26. CASE SettleBlocked
  BY <1>26, <1>a, <1>c DEF SettleBlocked, flags, links, FlagTypes, LinkTypes,
     Kept
<1>27. CASE SettleRan
  BY <1>27, <1>a, <1>c DEF SettleRan, flags, links, FlagTypes, LinkTypes, Kept
<1>28. CASE WakeSleeper
  BY <1>28, <1>a DEF WakeSleeper, flags, links, FlagTypes, LinkTypes, Kept
<1>29. ASSUME NEW e \in Exec, ExtStart(e) PROVE Kept'
  BY <1>29, <1>a DEF ExtStart, Spawn, links, LinkedAt, FlagTypes, LinkTypes,
     Kept
<1>30. ASSUME NEW e \in Exec, ExtEvent(e) PROVE Kept'
  BY <1>30, <1>a DEF ExtEvent, signal_event, flags, links, FlagTypes,
     LinkTypes, Kept
<1>31. ASSUME NEW e \in Exec, ExtKill(e) PROVE Kept'
  BY <1>31, <1>a DEF ExtKill, kill, seterror, links, FlagTypes, LinkTypes, Kept
<1>32. ASSUME NEW e \in Exec, ExtRevive(e) PROVE Kept'
  BY <1>32, <1>a DEF ExtRevive, flags, links, FlagTypes, LinkTypes, Kept
<1>33. ASSUME NEW e \in Exec, DbgAttach(e) PROVE Kept'
  BY <1>33, <1>a DEF DbgAttach, flags, links, FlagTypes, LinkTypes, Kept
<1>34. ASSUME NEW e \in Exec, DbgBreak(e) PROVE Kept'
  BY <1>34, <1>a DEF DbgBreak, flags, links, FlagTypes, LinkTypes, Kept
<1>35. ASSUME NEW e \in Exec, DbgKill(e) PROVE Kept'
  BY <1>35, <1>a DEF DbgKill, seterror, links, FlagTypes, LinkTypes, Kept
<1>36. ASSUME NEW e \in Exec, DbgDetach(e) PROVE Kept'
  BY <1>36, <1>a DEF DbgDetach, sethalt, links, FlagTypes, LinkTypes, Kept
<1>37. ASSUME NEW e \in Exec, NEW s \in {"INS_TRACE", "RUN"}, DbgResume(e, s) PROVE Kept'
  BY <1>37, <1>a DEF DbgResume, sethalt, links, FlagTypes, LinkTypes, Kept
<1>38. CASE Shutdown
  <2>1. Live' = {}
    BY <1>38, NextPassing DEF Shutdown, Passing
  <2>2. ~uaf'
    BY <1>38, <1>a DEF Shutdown, links
  <2>3. QED
    BY <2>1, <2>2 DEF Kept
<1>39. CASE UNCHANGED vars
  BY <1>39, <1>a DEF vars, flags, links, FlagTypes, LinkTypes, Kept
<1> QED
  BY <1>1, <1>2, <1>3, <1>4, <1>5, <1>6, <1>7, <1>8, <1>9, <1>10, <1>11, <1>12,
     <1>13, <1>14, <1>15, <1>16, <1>17, <1>18, <1>19, <1>20, <1>21, <1>22,
     <1>23, <1>24, <1>25, <1>26, <1>27, <1>28, <1>29, <1>30, <1>31, <1>32,
     <1>33, <1>34, <1>35, <1>36, <1>37, <1>38, <1>39 DEF Next, ScriptsThread,
     OtherThreads, Instruction, Settle

(* As long as nobody kills or debugs a script, every pointer that          *)
(* run_script() and run_ready() follow leads to a live executor.           *)
THEOREM NoUseAfterFreeUnkilled ==
  ASSUME Killable = {}, Debuggable = {}
  PROVE  Spec => []NoUseAfterFree
<1>1. Init => RunsOnly /\ Kept
  BY DEF Init, RunsOnly, Kept, KeptAt, Live
<1>2. Inv /\ RunsOnly /\ Kept /\ [Next]_vars => RunsOnly' /\ Kept'
  BY NextRunsOnly, NextKept
<1>3. Kept => NoUseAfterFree
  BY DEF Kept, NoUseAfterFree
<1>4. QED
  BY <1>1, <1>2, <1>3, Invariant, PTL DEF Spec
=============================================================================
