-------------------------- MODULE FlightPlanProofs --------------------------
(***************************************************************************)
(* Proofs about the flight-plan machine, for every flight plan: the block    *)
(* and the stage are always ones that exist, whatever the ground asks for,   *)
(* and the clocks are those of the block in force.                          *)
(***************************************************************************)
EXTENDS FlightPlan, TLAPS

LEMMA NoBlockIsLess == 0 \in Blocks /\ NB_BLOCK - 1 \in Blocks
BY FlightPlanAssumption DEF Blocks

(* Whatever number it gets, nav_init_block leaves a block of the plan.       *)
LEMMA InitBlockType ==
  ASSUME NEW b \in Nat, nav_init_block(b)
  PROVE  /\ nav_block' \in Blocks /\ nav_stage' = 0
         /\ block_time' = 0 /\ stage_time' = 0
BY FlightPlanAssumption DEF nav_init_block, InitStage, Blocks

LEMMA NextStageType ==
  ASSUME FpTypeOK, NextStageAndBreak
  PROVE  /\ nav_stage' \in 0 .. STAGE_WRAP - 1
         /\ stage_time' = 0 /\ at' = "idle"
BY FlightPlanAssumption DEF FpTypeOK, NextStageAndBreak, InitStage

LEMMA AdvanceType ==
  ASSUME NEW c \in 0 .. TIME_WRAP - 1, NEW secs \in {0, 1}
  PROVE  Advance(c, secs) \in 0 .. TIME_WRAP - 1
BY FlightPlanAssumption DEF Advance

LEMMA ZeroTimes == 0 \in 0 .. TIME_WRAP - 1 /\ 0 \in 0 .. STAGE_WRAP - 1
BY FlightPlanAssumption

(* Exceptions lead to blocks of the plan.                                   *)
LEMMA DerouteType ==
  ASSUME nav_block \in Blocks, NEW i \in DOMAIN Tested
  PROVE  Tested[i].deroute \in Blocks
<1>1. GlobalExceptions \in Seq(Exceptions)
      /\ Plan[nav_block].exceptions \in Seq(Exceptions)
  BY FlightPlanAssumption
<1>2. Tested \in Seq(Exceptions)
  BY <1>1 DEF Tested
<1>3. Tested[i] \in Exceptions
  BY <1>2
<1> QED
  BY <1>3 DEF Exceptions

(* So do stages, and jumps stay within a byte.                              *)
LEMMA StageType ==
  ASSUME FpTypeOK
  PROVE  InBounds(This)
<1>1. CASE nav_stage < Len(Plan[nav_block].stages)
  <2>1. Plan[nav_block].stages \in Seq(Stages)
    BY FlightPlanAssumption DEF FpTypeOK
  <2>2. nav_stage + 1 \in 1 .. Len(Plan[nav_block].stages)
    BY <1>1, <2>1 DEF FpTypeOK
  <2> QED
    BY <1>1, <2>2, FlightPlanAssumption DEF This, FpTypeOK
<1>2. CASE ~(nav_stage < Len(Plan[nav_block].stages))
  BY <1>2 DEF This, InBounds
<1> QED
  BY <1>1, <1>2

-----------------------------------------------------------------------------
(* What a change of block in auto_nav or by the ground leaves.              *)
LEMMA JumpType ==
  ASSUME FpTypeOK, NEW b \in Nat, nav_init_block(b)
  PROVE  /\ nav_block' \in Blocks /\ nav_stage' \in 0 .. STAGE_WRAP - 1
         /\ {stage_time', block_time'} \subseteq 0 .. TIME_WRAP - 1
BY InitBlockType, ZeroTimes

LEMMA TypeStep ==
  ASSUME FpTypeOK, [FpNext]_fp_vars
  PROVE  FpTypeOK'
<1>1. ASSUME NEW b \in 0 .. NB_BLOCK, nav_goto_block(b)
      PROVE  FpTypeOK'
  <2>1. b \in Nat /\ nav_init_block(b)
    BY <1>1, FlightPlanAssumption DEF nav_goto_block, GotoBlock
  <2>2. last_block' \in Blocks /\ last_stage' \in 0 .. STAGE_WRAP - 1
    BY <1>1 DEF nav_goto_block, SavePlace, saved, FpTypeOK
  <2> QED
    BY <1>1, <2>1, <2>2, JumpType, ZeroTimes DEF nav_goto_block, FpTypeOK
<1>2. CASE dl_parse_msg
  BY <1>2, ZeroTimes DEF dl_parse_msg, FpTypeOK, saved, clocks
<1>3. ASSUME NEW flown \in BOOLEAN, Navigate(flown)
      PROVE  FpTypeOK'
  <2>1. nav_tick' \in 0 .. NAV_PER_SEC - 1
    BY <1>3, FlightPlanAssumption DEF Navigate, FpTypeOK
  <2>2. {stage_time', block_time', datalink_time'} \subseteq 0 .. TIME_WRAP - 1
    <3>1. PICK secs \in {0, 1} :
            /\ stage_time' = Advance(stage_time, secs)
            /\ block_time' = Advance(block_time, secs)
            /\ datalink_time' = Advance(datalink_time, secs)
      BY <1>3 DEF Navigate
    <3> QED
      BY <3>1, AdvanceType DEF FpTypeOK
  <2> QED
    BY <1>3, <2>1, <2>2 DEF Navigate, FpTypeOK, saved
<1>4. CASE TestExceptions
  <2>1. KeepsPlace
    BY <1>4 DEF TestExceptions, KeepsPlace
  <2>2. CASE \E i \in DOMAIN Tested :
               GotoBlock(Tested[i].deroute) /\ at' = "idle"
    <3>1. PICK i \in DOMAIN Tested :
            nav_init_block(Tested[i].deroute) /\ at' = "idle"
      BY <2>2 DEF GotoBlock
    <3>2. Tested[i].deroute \in Nat
      BY DerouteType DEF FpTypeOK, Blocks
    <3> QED
      BY <2>1, <3>1, <3>2, JumpType DEF FpTypeOK, KeepsPlace, saved
  <2>3. CASE at' = "stages" /\ UNCHANGED <<nav_block, nav_stage, clocks>>
    BY <2>1, <2>3 DEF FpTypeOK, KeepsPlace, saved, clocks
  <2> QED
    BY <1>4, <2>2, <2>3 DEF TestExceptions
<1>5. CASE Until
  <2>1. \/ NextStageAndBreak
        \/ at' = "idle" /\ UNCHANGED <<nav_stage, stage_time>>
    BY <1>5 DEF Until
  <2> QED
    BY <1>5, <2>1, NextStageType, ZeroTimes
    DEF Until, FpTypeOK, KeepsPlace, InBlock, saved
<1>6. CASE While
  <2>1. NextStageAndBreak \/ Goto(This.to)
    BY <1>6 DEF While
  <2>2. This.to \in 0 .. STAGE_WRAP - 1
    BY <1>6, StageType DEF While, AtStage, InBounds
  <2> QED
    BY <1>6, <2>1, <2>2, NextStageType, ZeroTimes
    DEF While, Goto, FpTypeOK, KeepsPlace, InBlock, saved
<1>7. CASE GotoLabel
  <2>1. This.to \in 0 .. STAGE_WRAP - 1
    BY <1>7, StageType DEF GotoLabel, AtStage, InBounds
  <2> QED
    BY <1>7, <2>1 DEF GotoLabel, Goto, FpTypeOK, KeepsPlace, InBlock, saved
<1>8. CASE Deroute
  <2>1. This.to \in Nat
    BY <1>8, StageType DEF Deroute, AtStage, InBounds, Blocks
  <2> QED
    BY <1>8, <2>1, JumpType DEF Deroute, GotoBlock, FpTypeOK, KeepsPlace, saved
<1>9. CASE ExitBlock
  <2>1. nav_block + 1 \in Nat
    BY DEF FpTypeOK, Blocks
  <2> QED
    BY <1>9, <2>1, JumpType
    DEF ExitBlock, NextBlock, FpTypeOK, KeepsPlace, saved
<1>10. CASE Return
  <2>1. (last_stage + 1) % STAGE_WRAP \in 0 .. STAGE_WRAP - 1
    BY FlightPlanAssumption DEF FpTypeOK
  <2> QED
    BY <1>10, <2>1, ZeroTimes
    DEF Return, InitStage, FpTypeOK, KeepsPlace, saved
<1>11. CASE UNCHANGED fp_vars
  BY <1>11 DEF fp_vars, FpTypeOK, saved, clocks
<1> QED
  BY <1>1, <1>2, <1>3, <1>4, <1>5, <1>6, <1>7, <1>8, <1>9, <1>10, <1>11
  DEF FpNext, Message, auto_nav

(* For every flight plan, the block in force and the saved one are blocks of  *)
(* the plan, though the ground may ask for any number (nav_init_block).      *)
THEOREM FpTypes == FpSpec => []FpTypeOK
<1>1. nav_init => FpTypeOK
  BY NoBlockIsLess, ZeroTimes, FlightPlanAssumption DEF nav_init, FpTypeOK
<1>2. FpTypeOK /\ [FpNext]_fp_vars => FpTypeOK'
  BY TypeStep
<1> QED
  BY <1>1, <1>2, PTL DEF FpSpec

(* For every flight plan, a new block starts with fresh clocks, whoever       *)
(* changes it (nav_init_block and Return).                                  *)
THEOREM ClocksRestart == FpSpec => ClocksOfTheBlock
<1>1. ASSUME FpTypeOK, [FpNext]_fp_vars
      PROVE  [nav_block' # nav_block
                => block_time' = 0 /\ stage_time' = 0]_fp_vars
  <2>1. ASSUME NEW b \in 0 .. NB_BLOCK, nav_goto_block(b)
        PROVE  block_time' = 0 /\ stage_time' = 0
    BY <2>1, FlightPlanAssumption
    DEF nav_goto_block, GotoBlock, nav_init_block, InitStage
  <2>2. CASE TestExceptions
    BY <2>2
    DEF TestExceptions, GotoBlock, nav_init_block, InitStage
  <2>3. CASE Deroute \/ ExitBlock \/ Return
    BY <2>3 DEF Deroute, ExitBlock, Return, GotoBlock, NextBlock,
                nav_init_block, InitStage
  <2>4. CASE \/ dl_parse_msg \/ Until \/ While \/ GotoLabel
             \/ UNCHANGED fp_vars
             \/ \E flown \in BOOLEAN : Navigate(flown)
    BY <2>4 DEF dl_parse_msg, Until, While, GotoLabel, InBlock, Navigate,
                fp_vars
  <2> QED
    BY <1>1, <2>1, <2>2, <2>3, <2>4 DEF FpNext, Message, auto_nav
<1> QED
  BY <1>1, FpTypes, PTL DEF FpSpec, ClocksOfTheBlock
-----------------------------------------------------------------------------
(* A plan with one block that returns, which is neither the first nor the     *)
(* last and to which no exception and no stage leads.                        *)
OneReturns ==
  /\ \A b, c \in ReturnBlocks : b = c
  /\ 0 \notin ReturnBlocks /\ NB_BLOCK - 1 \notin ReturnBlocks
  /\ \A i \in 1 .. Len(GlobalExceptions) :
       GlobalExceptions[i].deroute \notin ReturnBlocks
  /\ \A b \in Blocks :
       /\ \A i \in 1 .. Len(Plan[b].exceptions) :
            Plan[b].exceptions[i].deroute \notin ReturnBlocks
       /\ \A i \in 1 .. Len(Plan[b].stages) :
            Plan[b].stages[i].op = "deroute"
              => Plan[b].stages[i].to \notin ReturnBlocks

(* No exception tested in such a plan leads to it.                          *)
LEMMA TestedAvoids ==
  ASSUME OneReturns, nav_block \in Blocks, NEW i \in DOMAIN Tested
  PROVE  Tested[i].deroute \notin ReturnBlocks
<1> DEFINE g == GlobalExceptions
           p == Plan[nav_block].exceptions
<1>1. g \in Seq(Exceptions) /\ p \in Seq(Exceptions)
  BY FlightPlanAssumption
<1>2. i \in 1 .. Len(g) + Len(p)
  BY <1>1 DEF Tested
<1>3. CASE i <= Len(g)
  <2>1. Tested[i] = g[i] /\ i \in 1 .. Len(g)
    BY <1>1, <1>2, <1>3 DEF Tested
  <2> QED
    BY <2>1 DEF OneReturns
<1>4. CASE i > Len(g)
  <2>1. Tested[i] = p[i - Len(g)] /\ i - Len(g) \in 1 .. Len(p)
    BY <1>1, <1>2, <1>4 DEF Tested
  <2> QED
    BY <2>1 DEF OneReturns
<1> QED
  BY <1>1, <1>2, <1>3, <1>4

LEMMA ReturnLoopStep ==
  ASSUME OneReturns, FpTypeOK, NoReturnLoop, [FpNext]_fp_vars,
         ExitBlock => nav_block' \notin ReturnBlocks
  PROVE  NoReturnLoop'
<1>1. ASSUME NEW b \in 0 .. NB_BLOCK, nav_goto_block(b)
      PROVE  NoReturnLoop'
  <2>1. nav_block' = IF b >= NB_BLOCK THEN NB_BLOCK - 1 ELSE b
    BY <1>1 DEF nav_goto_block, GotoBlock, nav_init_block
  <2>2. CASE nav_block' \in ReturnBlocks
    <3>1. nav_block' = b
      BY <2>1, <2>2 DEF OneReturns
    <3>2. CASE b = nav_block
      BY <1>1, <3>1, <3>2 DEF nav_goto_block, SavePlace, saved, NoReturnLoop
    <3>3. CASE b # nav_block
      BY <1>1, <3>1, <3>3 DEF nav_goto_block, SavePlace, NoReturnLoop
    <3> QED
      BY <3>2, <3>3
  <2> QED
    BY <2>2 DEF NoReturnLoop
<1>2. CASE UNCHANGED <<nav_block, last_block>>
  BY <1>2 DEF NoReturnLoop
<1>3. CASE TestExceptions
  <2>1. CASE \E i \in DOMAIN Tested : GotoBlock(Tested[i].deroute)
    <3>1. PICK i \in DOMAIN Tested : nav_init_block(Tested[i].deroute)
      BY <2>1 DEF GotoBlock
    <3>2. nav_block' \in {Tested[i].deroute, NB_BLOCK - 1}
      BY <3>1 DEF nav_init_block
    <3> QED
      BY <3>2, TestedAvoids DEF OneReturns, NoReturnLoop, FpTypeOK
  <2>2. CASE UNCHANGED nav_block
    BY <1>2, <1>3, <2>2 DEF TestExceptions, saved
  <2> QED
    BY <1>3, <2>1, <2>2 DEF TestExceptions
<1>4. CASE Deroute
  <2>1. nav_stage < Len(Plan[nav_block].stages)
    BY <1>4 DEF Deroute, AtStage, This
  <2>2. /\ This = Plan[nav_block].stages[nav_stage + 1]
        /\ nav_stage + 1 \in 1 .. Len(Plan[nav_block].stages)
    <3>1. Plan[nav_block].stages \in Seq(Stages)
      BY FlightPlanAssumption DEF FpTypeOK
    <3> QED
      BY <2>1, <3>1 DEF This, FpTypeOK
  <2>3. This.to \notin ReturnBlocks
    BY <1>4, <2>2 DEF Deroute, AtStage, OneReturns, FpTypeOK
  <2>4. nav_block' \in {This.to, NB_BLOCK - 1}
    BY <1>4 DEF Deroute, GotoBlock, nav_init_block
  <2> QED
    BY <2>3, <2>4 DEF OneReturns, NoReturnLoop
<1>5. CASE ExitBlock
  BY <1>5 DEF NoReturnLoop
<1>6. CASE Return
  <2>1. nav_block \in ReturnBlocks
    <3>1. nav_stage < Len(Plan[nav_block].stages)
      BY <1>6 DEF Return, AtStage, This
    <3>2. Plan[nav_block].stages \in Seq(Stages)
      BY FlightPlanAssumption DEF FpTypeOK
    <3>3. nav_stage + 1 \in 1 .. Len(Plan[nav_block].stages)
      BY <3>1, <3>2 DEF FpTypeOK
    <3> QED
      BY <1>6, <3>1, <3>3 DEF Return, AtStage, This, ReturnBlocks, FpTypeOK
  <2>2. last_block \notin ReturnBlocks
    BY <2>1 DEF NoReturnLoop, OneReturns
  <2> QED
    BY <1>6, <2>2 DEF Return, NoReturnLoop
<1> QED
  BY <1>1, <1>2, <1>3, <1>4, <1>5, <1>6
  DEF FpNext, Message, auto_nav, dl_parse_msg, Navigate, Until, While, GotoLabel,
      KeepsPlace, InBlock, saved, fp_vars

(* In a plan with one block that returns, which is entered by no exception,   *)
(* no deroute and no fall from the block before it, that block is never its   *)
(* own way back, whatever blocks the ground asks for (nav_goto_block, whose   *)
(* test compares the number before nav_init_block corrects it).              *)
THEOREM NeverReturnsToItself ==
  ASSUME OneReturns
  PROVE  FpSpec /\ [][ExitBlock => nav_block' \notin ReturnBlocks]_fp_vars
           => []NoReturnLoop
<1>1. nav_init => NoReturnLoop
  BY DEF nav_init, NoReturnLoop, OneReturns
<1>2. ASSUME FpTypeOK, NoReturnLoop, [FpNext]_fp_vars,
             [ExitBlock => nav_block' \notin ReturnBlocks]_fp_vars
      PROVE  NoReturnLoop'
  <2>1. CASE UNCHANGED fp_vars
    BY <1>2, <2>1 DEF fp_vars, saved, NoReturnLoop
  <2>2. CASE ExitBlock => nav_block' \notin ReturnBlocks
    BY <1>2, <2>2, ReturnLoopStep
  <2> QED
    BY <1>2, <2>1, <2>2
<1>3. FpSpec => []FpTypeOK
  BY FpTypes
<1> QED
  BY <1>1, <1>2, <1>3, PTL DEF FpSpec
=============================================================================
