----------------------------- MODULE FlightPlan -----------------------------
(***************************************************************************)
(* The flight-plan machine of the fixed-wing AP: blocks and stages, as       *)
(* gen_flight_plan.ml writes them into auto_nav, the operations of          *)
(* common_nav (GotoBlock, NextStageAndBreak, Return, ...), the clocks the   *)
(* conditions read, and the messages that jump to a block.                  *)
(*                                                                         *)
(* navigation_task runs at 4 Hz.  auto_nav is cut at each stage it visits:   *)
(* a stage either breaks (the call ends) or falls into another one, and no   *)
(* message comes in between.  What a stage flies is left out; a condition is  *)
(* a comparison with one of the clocks, or something sensed, of which the    *)
(* model knows nothing, or both.  A count of a "for" is sensed, too.          *)
(***************************************************************************)
EXTENDS Naturals, Sequences, FiniteSets

CONSTANTS
  NB_BLOCK,          \* blocks of the plan, the generated HOME block included
  Plan,              \* exceptions and stages of each block
  GlobalExceptions,  \* the exceptions of the whole plan
  Sensed,            \* names of the conditions that are sensed
  NAV_PER_SEC,       \* navigation tasks in a second                   (4)
  TIME_WRAP,         \* the clocks are 16 bits wide                (65536)
  STAGE_WRAP         \* the stage is a byte                          (256)

Blocks == 0 .. NB_BLOCK - 1
Clocks == {"none", "stage_time", "block_time", "datalink_time"}
Conds  == [sensed : Sensed \cup {"TRUE"}, clock : Clocks, limit : Nat,
           over : BOOLEAN]

Exceptions == [cond : Conds, deroute : Blocks]

(* The C each element of a block becomes: one that flies until a condition   *)
(* ("until"), one that tests and enters or leaves a loop ("while", "for"),   *)
(* a jump ("goto", and the fall from the initialisation of a "for"), a       *)
(* change of block ("deroute"), and the call of Return ("return").          *)
Stages ==
  [op : {"until"}, cond : Conds]
    \cup [op : {"while"}, cond : Conds, to : Nat]
    \cup [op : {"goto"}, to : Nat]
    \cup [op : {"deroute"}, to : Blocks]
    \cup [op : {"return"}]

InBounds(stage) ==
  /\ stage.op \in {"while", "goto"} => stage.to \in 0 .. STAGE_WRAP - 1
  /\ stage.op = "deroute" => stage.to \in Blocks

ASSUME FlightPlanAssumption ==
  /\ NB_BLOCK \in 1 .. 256
  /\ \A b \in Blocks : /\ Plan[b].exceptions \in Seq(Exceptions)
                       /\ Plan[b].stages \in Seq(Stages)
                       /\ \A s \in 1 .. Len(Plan[b].stages) :
                            InBounds(Plan[b].stages[s])
  /\ GlobalExceptions \in Seq(Exceptions)
  /\ NAV_PER_SEC \in Nat \ {0}
  /\ TIME_WRAP \in Nat \ {0, 1} /\ STAGE_WRAP \in Nat \ {0, 1}

VARIABLES
  nav_block, nav_stage, last_block, last_stage,
  stage_time, block_time,  \* seconds
  datalink_time,           \* seconds since the last message
  nav_tick,                \* the prescaler of common_nav_periodic_task_4Hz
  at                       \* where auto_nav is: nowhere, or about to look at
                           \* the exceptions, or at stage nav_stage

fp_vars == <<nav_block, nav_stage, last_block, last_stage, stage_time,
             block_time, datalink_time, nav_tick, at>>

saved  == <<last_block, last_stage>>
clocks == <<stage_time, block_time>>

FpTypeOK ==
  /\ nav_block \in Blocks /\ last_block \in Blocks
  /\ nav_stage \in 0 .. STAGE_WRAP - 1 /\ last_stage \in 0 .. STAGE_WRAP - 1
  /\ {stage_time, block_time, datalink_time} \subseteq 0 .. TIME_WRAP - 1
  /\ nav_tick \in 0 .. NAV_PER_SEC - 1
  /\ at \in {"idle", "exceptions", "stages"}

-----------------------------------------------------------------------------
InitStage == stage_time' = 0

(* Plausible bugs, used to show that the properties can fail.              *)
(* The place is saved for every jump, to the current block, too.            *)
MutSaveAlways(b) ==
  last_block' = nav_block /\ last_stage' = nav_stage

(* nav_init_block, for the block that its callers have stored.              *)
nav_init_block(b) ==
  /\ nav_block' = IF b >= NB_BLOCK THEN NB_BLOCK - 1 ELSE b
  /\ nav_stage' = 0 /\ block_time' = 0
  /\ InitStage

-----------------------------------------------------------------------------
GotoBlock(b) == nav_init_block(b)
NextBlock    == nav_init_block(nav_block + 1)

NextStageAndBreak ==
  /\ nav_stage' = (nav_stage + 1) % STAGE_WRAP
  /\ InitStage
  /\ at' = "idle"

(* The first half of nav_goto_block.                                        *)
SavePlace(b) ==
  IF b # nav_block THEN last_block' = nav_block /\ last_stage' = nav_stage
                   ELSE UNCHANGED saved

(* datalink.c: a BLOCK message, with any number in it.                      *)
nav_goto_block(b) ==
  /\ at = "idle"
  /\ datalink_time' = 0
  /\ SavePlace(b)
  /\ GotoBlock(b)
  /\ UNCHANGED <<nav_tick, at>>

(* Any other message.                                                       *)
dl_parse_msg ==
  /\ at = "idle"
  /\ datalink_time' = 0
  /\ UNCHANGED <<nav_block, nav_stage, saved, clocks, nav_tick, at>>

Message == dl_parse_msg \/ \E b \in 0 .. NB_BLOCK : nav_goto_block(b)

(* navigation_task: the clocks advance once per second, and the plan is      *)
(* "flown" unless the mode is HOME or GPS_OUT_OF_ORDER.                      *)
Advance(clock, secs) == (clock + secs) % TIME_WRAP

Navigate(flown) ==
  /\ at = "idle"
  /\ nav_tick' = (nav_tick + 1) % NAV_PER_SEC
  /\ LET secs == IF nav_tick' = 0 THEN 1 ELSE 0
     IN  /\ stage_time' = Advance(stage_time, secs)
         /\ block_time' = Advance(block_time, secs)
         /\ datalink_time' = Advance(datalink_time, secs)
  /\ at' = IF flown THEN "exceptions" ELSE "idle"
  /\ UNCHANGED <<nav_block, nav_stage, saved>>

-----------------------------------------------------------------------------
(* auto_nav.  "now" is what is sensed as true.                               *)
Clock(c) == CASE c = "stage_time" -> stage_time
              [] c = "block_time" -> block_time
              [] OTHER -> datalink_time

Holds(cond, now) ==
  /\ cond.sensed \in now \cup {"TRUE"}
  /\ cond.clock # "none" => (Clock(cond.clock) > cond.limit) = cond.over

(* The exceptions of a block stand in for those of the plan.                *)
MutTested == IF Plan[nav_block].exceptions # <<>>
               THEN Plan[nav_block].exceptions ELSE GlobalExceptions

(* print_exception: the first exception that holds and leads elsewhere.      *)
Tested == GlobalExceptions \o Plan[nav_block].exceptions

(* An exception that holds leads to its block from that block, too.         *)
MutFires(i, now) == Holds(Tested[i].cond, now)

Fires(i, now) == /\ nav_block # Tested[i].deroute
                 /\ Holds(Tested[i].cond, now)

TestExceptions ==
  /\ at = "exceptions"
  /\ \E now \in SUBSET Sensed :
       \/ \E i \in DOMAIN Tested :
            /\ Fires(i, now) /\ \A j \in 1 .. i - 1 : ~Fires(j, now)
            /\ GotoBlock(Tested[i].deroute)
            /\ at' = "idle"
       \/ /\ \A i \in DOMAIN Tested : ~Fires(i, now)
          /\ at' = "stages"
          /\ UNCHANGED <<nav_block, nav_stage, clocks>>
  /\ UNCHANGED <<saved, datalink_time, nav_tick>>

(* print_stage and, past the last stage, exit_block.                        *)
This == IF nav_stage < Len(Plan[nav_block].stages)
          THEN Plan[nav_block].stages[nav_stage + 1]
          ELSE [op |-> "exit"]

AtStage(op) == at = "stages" /\ This.op = op

KeepsPlace == UNCHANGED <<saved, datalink_time, nav_tick>>
InBlock    == UNCHANGED <<nav_block, block_time>>

Goto(s) == nav_stage' = s /\ UNCHANGED <<at, stage_time>>

Until ==
  /\ AtStage("until") /\ KeepsPlace /\ InBlock
  /\ \E now \in SUBSET Sensed :
       IF Holds(This.cond, now)
         THEN NextStageAndBreak
         ELSE at' = "idle" /\ UNCHANGED <<nav_stage, stage_time>>

While ==
  /\ AtStage("while") /\ KeepsPlace /\ InBlock
  /\ \E now \in SUBSET Sensed :
       IF Holds(This.cond, now) THEN NextStageAndBreak ELSE Goto(This.to)

(* The way back to the test of a loop initialises the stage.                *)
MutGotoInits ==
  /\ AtStage("goto") /\ KeepsPlace /\ InBlock
  /\ nav_stage' = This.to /\ InitStage /\ UNCHANGED at

GotoLabel == AtStage("goto") /\ KeepsPlace /\ InBlock /\ Goto(This.to)

Deroute ==
  AtStage("deroute") /\ KeepsPlace /\ GotoBlock(This.to) /\ at' = "idle"

ExitBlock == AtStage("exit") /\ KeepsPlace /\ NextBlock /\ at' = "idle"

(* A "call" of Return, which yields FALSE: the stage after the saved one.    *)
Return ==
  /\ AtStage("return") /\ KeepsPlace
  /\ nav_block' = last_block /\ block_time' = 0
  /\ nav_stage' = (last_stage + 1) % STAGE_WRAP
  /\ InitStage /\ at' = "idle"

auto_nav == TestExceptions \/ Until \/ While \/ GotoLabel \/ Deroute
              \/ ExitBlock \/ Return

nav_init ==
  /\ nav_block = 0 /\ nav_stage = 0 /\ last_block = 0 /\ last_stage = 0
  /\ stage_time = 0 /\ block_time = 0 /\ datalink_time = 0
  /\ nav_tick = 0 /\ at = "idle"

FpNext == Message \/ (\E flown \in BOOLEAN : Navigate(flown)) \/ auto_nav

(* navigation_task is called for ever, and what it calls goes on.            *)
FpSpec ==
  /\ nav_init /\ [][FpNext]_fp_vars
  /\ WF_fp_vars(\E flown \in BOOLEAN : Navigate(flown))
  /\ WF_fp_vars(auto_nav)

-----------------------------------------------------------------------------
(* Safety.                                                                  *)

(* common_nav.h:94, "Time in s since the entrance in the current block":     *)
(* whoever changes the block, the plan, an exception, the ground or Return,  *)
(* restarts the clocks, so no condition ever reads the time of another one.  *)
ClocksOfTheBlock ==
  [][nav_block' # nav_block => block_time' = 0 /\ stage_time' = 0]_fp_vars

(* common_nav.c:106, "To avoid a loop in a the current block": a block that  *)
(* returns, and that only the ground enters, never returns to itself, however *)
(* often the ground asks for it.  (Of two such blocks the second could be     *)
(* left for the first, which would then be its own way back.)                *)
ReturnBlocks ==
  {b \in Blocks : \E s \in 1 .. Len(Plan[b].stages) :
                     Plan[b].stages[s].op = "return"}

NoReturnLoop == nav_block \in ReturnBlocks => last_block # nav_block

(* Liveness.  Premises on the mode, and on the ground.                      *)
FliesPlan == <>[][~Navigate(FALSE)]_fp_vars
Silent    == <>[][~Message]_fp_vars
NoJump    == <>[][~\E b \in 0 .. NB_BLOCK : nav_goto_block(b)]_fp_vars

(* Exceptions never pass the aircraft from one to the other for ever, with   *)
(* no stage flown in between, whatever is sensed, if the ground asks for no  *)
(* block: those that can hold together wait for block_time, which starts     *)
(* again at each deroute (conf/flight_plans/failsafe_modes.xml).            *)
StagesAreFlown == NoJump /\ FliesPlan => []<>(at = "stages")

(* A wait written as an empty loop on stage_time ends, if the ground asks    *)
(* for no block, though each pass of the loop restarts that clock.           *)
Waits(b) ==
  /\ Len(Plan[b].stages) > 1
  /\ LET first == Plan[b].stages[1]
     IN  first.op = "while" /\ first.cond.clock = "stage_time"

WaitsEnd ==
  NoJump /\ FliesPlan => \A b \in Blocks : Waits(b) => ~<>[](nav_block = b)

(* An exception on a lost datalink is obeyed, again and again if another    *)
(* one leads elsewhere meanwhile.                                           *)
LostLink(cond) == cond.sensed = "TRUE" /\ cond.clock = "datalink_time"

LostLinkObeyed ==
  Silent /\ FliesPlan =>
    \A i \in DOMAIN GlobalExceptions :
      LostLink(GlobalExceptions[i].cond)
        => []<>(nav_block = GlobalExceptions[i].deroute)
=============================================================================
