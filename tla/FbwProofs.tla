----------------------------- MODULE FbwProofs -----------------------------
(***************************************************************************)
(* Proofs about the fly-by-wire process and what its observer sees, for     *)
(* every value of the timeouts and every set of switch positions.           *)
(***************************************************************************)
EXTENDS FbwMonitor, TLAPS

(* The inductive invariant: the types, and the two facts about the mode.    *)
FbwInv == FbwTypeOK /\ FailsafeMeansNobody /\ ManualMeansPilot

(* The state a poll that finds nothing leaves alone, as one name.           *)
Idle == UNCHANGED <<rc_vars, inter_mcu_vars, fbw_own>>

-----------------------------------------------------------------------------
(* The types of the two watchdogs.                                          *)

(* The AP watchdog keeps its two variables in range.                        *)
LEMMA ApPeriodicType ==
  ASSUME InterMcuTypeOK, inter_mcu_periodic_task
  PROVE  ap_ok' \in BOOLEAN /\ time_since_last_ap' \in 0 .. AP_STALLED_TIME
<1>1. ap_ok' \in BOOLEAN
  BY Zenon DEF InterMcuTypeOK, inter_mcu_periodic_task
<1>2. time_since_last_ap' \in 0 .. AP_STALLED_TIME
  BY ApStalledAssumption, SMT DEF InterMcuTypeOK, inter_mcu_periodic_task
<1>3. QED
  BY <1>1, <1>2

(* The mode a frame asks for is a mode, and never FAILSAFE.                 *)
LEMMA ModeOfPprz ==
  ASSUME NEW v
  PROVE  FBW_MODE_OF_PPRZ(v) \in {FBW_MODE_MANUAL, FBW_MODE_AUTO}
  BY DEF FBW_MODE_OF_PPRZ

-----------------------------------------------------------------------------
(* FbwInv is preserved by the two handlers and by everything around them.   *)

LEMMA PeriodicInv ==
  ASSUME FbwInv, periodic_task_fbw, tick_due' \in BOOLEAN,
         loop_at' \in {"periodic", "radio", "link"}
  PROVE  FbwInv'
<1>1. RcTypeOK'
  BY RcTimesAssumption, SMT
     DEF FbwInv, FbwTypeOK, periodic_task_fbw, RcTypeOK,
         radio_control_periodic_task, RC_OK, RC_LOST, RC_REALLY_LOST
<1>2. InterMcuTypeOK'
  BY ApPeriodicType DEF FbwInv, FbwTypeOK, InterMcuTypeOK, periodic_task_fbw
<1>3. /\ fbw_mode' \in FbwModes
      /\ commands' \in Origins
      /\ actuators' \in Origins \cup {"none"}
      /\ rc_mode' \in RadioModeValues \cup {0}
  BY DEF FbwInv, FbwTypeOK, periodic_task_fbw, FbwModes, Origins
<1>4. FailsafeMeansNobody'
  <2>1. ap_ok' => ap_ok
    BY DEF periodic_task_fbw, inter_mcu_periodic_task, FbwInv, FbwTypeOK,
           InterMcuTypeOK
  <2>2. QED
    BY <2>1 DEF FbwInv, FailsafeMeansNobody, periodic_task_fbw,
                FBW_MODE_MANUAL, FBW_MODE_AUTO, FBW_MODE_FAILSAFE
<1>5. ManualMeansPilot'
  BY DEF FbwInv, ManualMeansPilot, periodic_task_fbw,
         FBW_MODE_MANUAL, FBW_MODE_AUTO, FBW_MODE_FAILSAFE
<1>6. QED
  BY <1>1, <1>2, <1>3, <1>4, <1>5 DEF FbwInv, FbwTypeOK

LEMMA RadioInv ==
  ASSUME FbwInv, RadioFrame, UNCHANGED tick_due,
         loop_at' \in {"periodic", "radio", "link"}
  PROVE  FbwInv'
<1>1. RcTypeOK'
  BY RcTimesAssumption, SMT
     DEF FbwInv, FbwTypeOK, RadioFrame, RcTypeOK, RcFrameCounted,
         RcFrameAccepted, RC_OK, RC_LOST, RC_REALLY_LOST
<1>2. CASE RcFrameCounted /\ UNCHANGED <<fbw_own, inter_mcu_vars>>
  BY <1>1, <1>2 DEF FbwInv, FbwTypeOK, FailsafeMeansNobody, ManualMeansPilot,
     RcFrameCounted, InterMcuTypeOK, fbw_own, inter_mcu_vars
<1>3. CASE /\ RcFrameAccepted
           /\ \E v \in RadioModeValues : handle_rc_frame(v)
           /\ UNCHANGED <<actuators, inter_mcu_vars>>
  <2>1. PICK v \in RadioModeValues : handle_rc_frame(v)
    BY <1>3
  <2>2. fbw_mode' \in {FBW_MODE_MANUAL, FBW_MODE_AUTO}
    BY <2>1, ModeOfPprz DEF handle_rc_frame
  <2>3. FbwTypeOK'
    BY <1>1, <1>3, <2>1, <2>2
       DEF FbwInv, FbwTypeOK, handle_rc_frame, InterMcuTypeOK, inter_mcu_vars,
           FbwModes, Origins
  <2>4. FailsafeMeansNobody'
    BY <2>2 DEF FailsafeMeansNobody, FBW_MODE_MANUAL, FBW_MODE_AUTO,
                FBW_MODE_FAILSAFE
  <2>5. ManualMeansPilot'
    BY <1>3, <2>1 DEF ManualMeansPilot, handle_rc_frame, RcFrameAccepted,
                      RC_OK, RC_REALLY_LOST
  <2>6. QED
    BY <2>3, <2>4, <2>5 DEF FbwInv
<1>4. QED
  BY <1>2, <1>3 DEF RadioFrame

LEMMA LinkInv ==
  ASSUME FbwInv, ApMessage, UNCHANGED tick_due,
         loop_at' \in {"periodic", "radio", "link"}
  PROVE  FbwInv'
<1>1. fbw_mode' \in {FBW_MODE_MANUAL, FBW_MODE_AUTO}
  BY DEF FbwInv, FbwTypeOK, FbwModes, ApMessage
<1>2. RcTypeOK'
  BY DEF FbwInv, FbwTypeOK, RcTypeOK, ApMessage, rc_vars
<1>3. InterMcuTypeOK'
  <2>1. fbw_state' \in FbwState
    BY DEF ApMessage, inter_mcu_fill_fbw_state, FbwState, FbwInv, FbwTypeOK
  <2>2. time_since_last_ap' \in 0 .. AP_STALLED_TIME
    BY ApStalledAssumption DEF ApMessage, inter_mcu_event_task
  <2>3. QED
    BY <2>1, <2>2 DEF ApMessage, inter_mcu_event_task, InterMcuTypeOK
<1>4. FbwTypeOK'
  BY <1>1, <1>2, <1>3 DEF FbwInv, FbwTypeOK, ApMessage, FbwModes, Origins
<1>5. FailsafeMeansNobody'
  BY <1>1 DEF FailsafeMeansNobody, FBW_MODE_MANUAL, FBW_MODE_AUTO,
              FBW_MODE_FAILSAFE
<1>6. ManualMeansPilot'
  BY DEF FbwInv, ManualMeansPilot, ApMessage, rc_vars, FBW_MODE_MANUAL,
         FBW_MODE_AUTO, FBW_MODE_FAILSAFE
<1>7. QED
  BY <1>4, <1>5, <1>6 DEF FbwInv

LEMMA IdleInv ==
  ASSUME FbwInv, Idle, tick_due' \in BOOLEAN,
         loop_at' \in {"periodic", "radio", "link"}
  PROVE  FbwInv'
<1>1. RcTypeOK'
  BY Zenon DEF FbwInv, FbwTypeOK, RcTypeOK, Idle, rc_vars
<1>2. InterMcuTypeOK'
  BY Zenon DEF FbwInv, FbwTypeOK, InterMcuTypeOK, Idle, inter_mcu_vars
<1>3. FbwTypeOK'
  BY <1>1, <1>2, Zenon DEF FbwInv, FbwTypeOK, Idle, fbw_own
<1>4. FailsafeMeansNobody' /\ ManualMeansPilot'
  BY Zenon DEF FbwInv, FailsafeMeansNobody, ManualMeansPilot, Idle, rc_vars,
               inter_mcu_vars, fbw_own
<1>5. QED
  BY <1>3, <1>4 DEF FbwInv

LEMMA EnvironmentInv ==
  ASSUME FbwInv, ApSends \/ ApReads
  PROVE  FbwInv'
<1>1. /\ UNCHANGED <<rc_vars, fbw_own, tick_due, loop_at, fbw_state>>
      /\ UNCHANGED <<ap_ok, time_since_last_ap>>
  BY DEF ApSends, ApReads
<1>2. inter_mcu_received_ap' \in BOOLEAN /\ inter_mcu_received_fbw' \in BOOLEAN
  BY Zenon DEF ApSends, ApReads, FbwInv, FbwTypeOK, InterMcuTypeOK
<1>3. RcTypeOK'
  BY <1>1, Zenon DEF FbwInv, FbwTypeOK, RcTypeOK, rc_vars
<1>4. InterMcuTypeOK'
  BY <1>1, <1>2, Zenon DEF FbwInv, FbwTypeOK, InterMcuTypeOK
<1>5. FbwTypeOK'
  BY <1>1, <1>3, <1>4, Zenon DEF FbwInv, FbwTypeOK, fbw_own
<1>6. FailsafeMeansNobody' /\ ManualMeansPilot'
  BY <1>1, Zenon DEF FbwInv, FailsafeMeansNobody, ManualMeansPilot, rc_vars,
                     fbw_own
<1>7. QED
  BY <1>5, <1>6 DEF FbwInv

LEMMA FbwInvInit == FbwInit => FbwInv
<1> SUFFICES ASSUME FbwInit PROVE FbwInv
  OBVIOUS
<1>1. RcTypeOK
  BY RcTimesAssumption DEF FbwInit, radio_control_init, RcTypeOK
<1>2. InterMcuTypeOK
  <2>1. fbw_state \in FbwState
    BY DEF FbwInit, inter_mcu_init, FbwState
  <2>2. time_since_last_ap \in 0 .. AP_STALLED_TIME
    BY ApStalledAssumption DEF FbwInit, inter_mcu_init
  <2>3. QED
    BY <2>1, <2>2 DEF FbwInit, inter_mcu_init, InterMcuTypeOK
<1>3. FbwTypeOK
  BY <1>1, <1>2 DEF FbwInit, FbwTypeOK, FbwModes, Origins
<1>4. FailsafeMeansNobody /\ ManualMeansPilot
  BY DEF FbwInit, inter_mcu_init, FailsafeMeansNobody, ManualMeansPilot,
         FBW_MODE_MANUAL, FBW_MODE_FAILSAFE
<1>5. QED
  BY <1>3, <1>4 DEF FbwInv

LEMMA FbwInvStep == FbwInv /\ [FbwNext]_fbw_vars => FbwInv'
<1> SUFFICES ASSUME FbwInv, [FbwNext]_fbw_vars
             PROVE  FbwInv'
  OBVIOUS
<1>1. CASE PollTick
  <2>1. tick_due' \in BOOLEAN /\ loop_at' \in {"periodic", "radio", "link"}
    BY <1>1 DEF PollTick, FbwInv, FbwTypeOK
  <2>2. CASE tick_due
    BY <1>1, <2>1, <2>2, PeriodicInv DEF PollTick
  <2>3. CASE ~tick_due
    BY <1>1, <2>1, <2>3, IdleInv DEF PollTick, Idle
  <2>4. QED
    BY <2>2, <2>3
<1>2. CASE PollRadio
  <2>1. /\ tick_due' \in BOOLEAN /\ loop_at' \in {"periodic", "radio", "link"}
        /\ UNCHANGED tick_due
    BY <1>2 DEF PollRadio, FbwInv, FbwTypeOK
  <2>2. CASE RadioFrame
    BY <2>1, <2>2, RadioInv
  <2>3. CASE ~RadioFrame
    BY <1>2, <2>1, <2>3, IdleInv DEF PollRadio, Idle
  <2>4. QED
    BY <2>2, <2>3
<1>3. CASE PollLink
  <2>1. /\ tick_due' \in BOOLEAN /\ loop_at' \in {"periodic", "radio", "link"}
        /\ UNCHANGED tick_due
    BY <1>3 DEF PollLink, FbwInv, FbwTypeOK
  <2>2. CASE inter_mcu_received_ap
    BY <1>3, <2>1, <2>2, LinkInv DEF PollLink
  <2>3. CASE ~inter_mcu_received_ap
    BY <1>3, <2>1, <2>3, IdleInv DEF PollLink, Idle
  <2>4. QED
    BY <2>2, <2>3
<1>4. CASE ClockTick
  <2>1. tick_due' \in BOOLEAN /\ loop_at' \in {"periodic", "radio", "link"}
    BY <1>4 DEF ClockTick, FbwInv, FbwTypeOK
  <2>2. QED
    BY <1>4, <2>1, IdleInv DEF ClockTick, Idle
<1>5. CASE ApSends \/ ApReads
  BY <1>5, EnvironmentInv
<1>6. CASE UNCHANGED fbw_vars
  <2>1. tick_due' \in BOOLEAN /\ loop_at' \in {"periodic", "radio", "link"}
    BY <1>6 DEF fbw_vars, FbwInv, FbwTypeOK
  <2>2. QED
    BY <1>6, <2>1, IdleInv DEF fbw_vars, Idle
<1>7. QED
  BY <1>1, <1>2, <1>3, <1>4, <1>5, <1>6 DEF FbwNext, MainLoop

LEMMA FbwInvariant == FbwSafety => []FbwInv
<1>1. FbwInit => FbwInv
  BY FbwInvInit
<1>2. FbwInv /\ [FbwNext]_fbw_vars => FbwInv'
  BY FbwInvStep
<1>3. QED
  BY <1>1, <1>2, PTL DEF FbwSafety

-----------------------------------------------------------------------------
(* The results.                                                             *)

(* Every variable of the FBW keeps its type: no counter leaves its range    *)
(* (FbwTypeOK).                                                             *)
THEOREM FbwTypes == FbwSafety => []FbwTypeOK
BY FbwInvariant, PTL DEF FbwInv

(* In FAILSAFE the AP is known to be silent and the failsafe commands are    *)
(* loaded (FailsafeMeansNobody).                                            *)
THEOREM FailsafeSafe == FbwSafety => []FailsafeMeansNobody
BY FbwInvariant, PTL DEF FbwInv

(* In MANUAL the commands are the sticks' and the radio is not REALLY_LOST   *)
(* (ManualMeansPilot).                                                      *)
THEOREM ManualSafe == FbwSafety => []ManualMeansPilot
BY FbwInvariant, PTL DEF FbwInv

(* A tick that finds the AP silent refreshes the servos with the failsafe   *)
(* commands unless the pilot has them (SilentApNeverFlies).                 *)
THEOREM SilentApSafe == FbwSafety => SilentApNeverFlies
<1>1. FbwInv /\ [FbwNext]_fbw_vars
        => [PollTick /\ tick_due => \/ actuators' = "failsafe"
                                   \/ ap_ok'
                                   \/ fbw_mode' = FBW_MODE_MANUAL]_fbw_vars
  <2> SUFFICES ASSUME FbwInv, PollTick, tick_due
               PROVE  \/ actuators' = "failsafe"
                      \/ ap_ok'
                      \/ fbw_mode' = FBW_MODE_MANUAL
    OBVIOUS
  <2>1. periodic_task_fbw
    BY DEF PollTick
  <2>2. CASE fbw_mode = FBW_MODE_FAILSAFE
    BY <2>1, <2>2 DEF periodic_task_fbw, FbwInv, FailsafeMeansNobody,
       FBW_MODE_MANUAL, FBW_MODE_AUTO, FBW_MODE_FAILSAFE
  <2>3. CASE fbw_mode \in {FBW_MODE_MANUAL, FBW_MODE_AUTO}
    BY <2>1, <2>3 DEF periodic_task_fbw, FBW_MODE_MANUAL, FBW_MODE_AUTO,
       FBW_MODE_FAILSAFE
  <2>4. QED
    BY <2>2, <2>3 DEF FbwInv, FbwTypeOK, FbwModes
<1>2. QED
  BY <1>1, FbwInvariant, PTL DEF FbwSafety, SilentApNeverFlies

(* The FBW implements the abstract authority of module Authority: no order   *)
(* of frames, messages and ticks moves the actuators in any other way.      *)
THEOREM FbwImplementsAuthority == FbwSafety => AuthoritySpec
<1>1. FbwInit => Auth!Init
  BY DEF FbwInit, inter_mcu_init, Auth!Init, Auth!FAILSAFE, FBW_MODE_FAILSAFE
<1>2. FbwInv /\ [FbwNext]_fbw_vars => [Auth!Next]_Auth!vars
  <2> SUFFICES ASSUME FbwInv, [FbwNext]_fbw_vars
               PROVE  Auth!Next \/ UNCHANGED <<fbw_mode, commands, ap_ok>>
    BY DEF Auth!vars
  <2> USE DEF Auth!MANUAL, Auth!AUTO, Auth!FAILSAFE,
              FBW_MODE_MANUAL, FBW_MODE_AUTO, FBW_MODE_FAILSAFE
  <2>1. CASE Idle \/ ApSends \/ ApReads
    BY <2>1 DEF Idle, ApSends, ApReads, fbw_own, inter_mcu_vars
  <2>2. CASE periodic_task_fbw
    <3>1. ap_ok' \in {ap_ok, FALSE}
      BY <2>2, Zenon DEF periodic_task_fbw, inter_mcu_periodic_task
    <3>2. \/ fbw_mode = FBW_MODE_MANUAL /\ fbw_mode' = FBW_MODE_MANUAL
          \/ fbw_mode' = IF ap_ok' THEN FBW_MODE_AUTO ELSE FBW_MODE_FAILSAFE
      <4>1. fbw_mode = FBW_MODE_FAILSAFE => ~ap_ok'
        BY <3>1 DEF FbwInv, FailsafeMeansNobody
      <4>2. CASE ap_ok'
        BY <2>2, <4>1, <4>2 DEF periodic_task_fbw, FbwInv, FbwTypeOK, FbwModes
      <4>3. CASE ~ap_ok'
        BY <2>2, <4>3 DEF periodic_task_fbw, FbwInv, FbwTypeOK, FbwModes
      <4>4. QED
        BY <4>2, <4>3
    <3>3. commands' = IF fbw_mode' = FBW_MODE_FAILSAFE
                        THEN "failsafe" ELSE commands
      BY <2>2 DEF periodic_task_fbw, FbwInv, FailsafeMeansNobody
    <3>4. QED
      BY <3>1, <3>2, <3>3 DEF Auth!Next, Auth!Silence
  <2>3. CASE RadioFrame
    <3>1. CASE UNCHANGED <<fbw_own, inter_mcu_vars>>
      BY <3>1 DEF fbw_own, inter_mcu_vars
    <3>2. CASE /\ \E v \in RadioModeValues : handle_rc_frame(v)
               /\ UNCHANGED <<actuators, inter_mcu_vars>>
      BY <3>2, ModeOfPprz DEF handle_rc_frame, inter_mcu_vars, Auth!Next,
                              Auth!Pilot
    <3>3. QED
      BY <2>3, <3>1, <3>2 DEF RadioFrame
  <2>4. CASE ApMessage
    BY <2>4 DEF ApMessage, inter_mcu_event_task, FbwInv, FbwTypeOK, FbwModes,
                Auth!Next, Auth!Autopilot
  <2>5. CASE UNCHANGED fbw_vars
    BY <2>5 DEF fbw_vars, fbw_own, inter_mcu_vars
  <2>6. QED
    BY <2>1, <2>2, <2>3, <2>4, <2>5
       DEF FbwNext, MainLoop, PollTick, PollRadio, PollLink, ClockTick, Idle
<1>3. QED
  BY <1>1, <1>2, FbwInvariant, PTL DEF FbwSafety, AuthoritySpec, Auth!Spec

-----------------------------------------------------------------------------
(* What the observer sees.  The age of the commands in AUTO runs behind the   *)
(* AP watchdog, and MANUAL starts it anew.                                  *)
AgeInv ==
  /\ auto_age \in Nat /\ auto_age <= time_since_last_ap
  /\ fbw_mode = FBW_MODE_MANUAL => auto_age = 0

(* The books on the link: the observer's gap is the monitor's, short of the    *)
(* limit; a link silent for longer has its count armed, and every frame that  *)
(* is counted down is one in a row.                                         *)
FrameInv ==
  /\ good \in Nat
  /\ gap = AtMost(time_since_last_frame, RC_LOST_TIME)
  /\ time_since_last_frame > RC_LOST_TIME =>
       good = 0 /\ (once_lost => radio_ok_cpt = RC_OK_CPT)
  /\ once_lost /\ rc_status # RC_OK => good + radio_ok_cpt >= RC_OK_CPT

LEMMA MonStepIsFbwStep == [MonNext]_mon_vars => [FbwNext]_fbw_vars
BY DEF MonNext, FbwNext, MainLoop, mon_vars

(* Each step is a tick, a frame, an AP message, or leaves both watchdogs.     *)
LEMMA MonSteps ==
  ASSUME FbwInv, MonNext
  PROVE  /\ Observe
         /\ \/ TickCame /\ periodic_task_fbw /\ ~FrameCame /\ loop_at # "link"
            \/ ~TickCame /\ RadioFrame /\ FrameCame
            \/ ~TickCame /\ ~FrameCame /\ ApMessage /\ loop_at = "link"
            \/ /\ ~TickCame /\ (FrameCame => RadioFrame)
               /\ UNCHANGED <<rc_vars, fbw_own, ap_ok, time_since_last_ap>>
<1>1. tick_due \in BOOLEAN
  BY DEF FbwInv, FbwTypeOK
<1>2. Observe
  BY DEF MonNext
<1>3. CASE PollTick
  BY <1>1, <1>2, <1>3 DEF PollTick, TickCame, FrameCame, inter_mcu_vars
<1>4. CASE PollRadio
  BY <1>1, <1>2, <1>4 DEF PollRadio, TickCame, FrameCame, inter_mcu_vars
<1>5. CASE PollLink
  BY <1>1, <1>2, <1>5 DEF PollLink, TickCame, FrameCame, inter_mcu_vars
<1>6. CASE ClockTick
  BY <1>1, <1>2, <1>6 DEF ClockTick, TickCame, FrameCame, inter_mcu_vars
<1>7. CASE ApSends \/ ApReads
  BY <1>1, <1>2, <1>7 DEF ApSends, ApReads, TickCame, FrameCame
<1>8. QED
  BY <1>3, <1>4, <1>5, <1>6, <1>7 DEF MonNext

LEMMA AgeStep ==
  ASSUME FbwInv, FbwInv', AgeInv, MonNext
  PROVE  AgeInv'
<1> USE DEF FBW_MODE_MANUAL, FBW_MODE_AUTO, FBW_MODE_FAILSAFE
<1>1. /\ auto_age' = IF Written THEN 0
                     ELSE IF TickCame /\ fbw_mode' = FBW_MODE_AUTO
                            THEN AtMost(auto_age + 1, AP_STALLED_TIME + 1)
                            ELSE auto_age
  BY MonSteps DEF Observe
<1>2. /\ time_since_last_ap \in 0 .. AP_STALLED_TIME /\ AP_STALLED_TIME \in Nat
      /\ time_since_last_ap' \in 0 .. AP_STALLED_TIME
      /\ fbw_mode \in FbwModes /\ fbw_mode' \in FbwModes
  BY ApStalledAssumption DEF FbwInv, FbwTypeOK, InterMcuTypeOK
<1>3. CASE Written
  BY <1>1, <1>2, <1>3 DEF AgeInv
<1>4. CASE ~Written /\ TickCame /\ periodic_task_fbw
  <2>1. fbw_mode' # FBW_MODE_FAILSAFE
    BY <1>4 DEF Written
  <2>2. CASE fbw_mode' = FBW_MODE_MANUAL
    <3>1. fbw_mode = FBW_MODE_MANUAL
      BY <1>2, <1>4, <2>2 DEF periodic_task_fbw, FbwModes
    <3>2. auto_age' = 0
      BY <1>1, <1>4, <2>2, <3>1 DEF AgeInv
    <3>3. QED
      BY <1>2, <3>2 DEF AgeInv
  <2>3. CASE fbw_mode' = FBW_MODE_AUTO
    <3>1. ap_ok'
      <4>1. fbw_mode = FBW_MODE_FAILSAFE => fbw_mode' = FBW_MODE_FAILSAFE
        BY <1>4 DEF periodic_task_fbw
      <4>2. QED
        BY <1>2, <1>4, <2>3, <4>1 DEF periodic_task_fbw, FbwModes
    <3>2. time_since_last_ap' = time_since_last_ap + 1
      BY <1>2, <1>4, <3>1 DEF periodic_task_fbw, inter_mcu_periodic_task
    <3>3. auto_age' = AtMost(auto_age + 1, AP_STALLED_TIME + 1)
      BY <1>1, <1>4, <2>3
    <3>4. QED
      BY <1>2, <2>3, <3>2, <3>3 DEF AgeInv, AtMost
  <2>4. QED
    BY <1>2, <2>1, <2>2, <2>3 DEF FbwModes
<1>5. CASE ~Written /\ ~TickCame /\ RadioFrame /\ FrameCame
  <2>1. fbw_mode' = FBW_MODE_MANUAL => fbw_mode = FBW_MODE_MANUAL
    BY <1>5 DEF Written, RadioFrame, fbw_own
  <2>2. time_since_last_ap' = time_since_last_ap /\ auto_age' = auto_age
    BY <1>1, <1>5 DEF RadioFrame, inter_mcu_vars
  <2>3. QED
    BY <1>2, <2>1, <2>2 DEF AgeInv
<1>6. CASE ~Written /\ ~TickCame /\ ApMessage /\ loop_at = "link"
  <2>1. fbw_mode = FBW_MODE_MANUAL /\ auto_age' = auto_age
    BY <1>1, <1>2, <1>6 DEF Written, ApMessage, FbwModes
  <2>2. QED
    BY <1>2, <2>1 DEF AgeInv
<1>7. CASE ~Written /\ ~TickCame /\ UNCHANGED <<fbw_own, time_since_last_ap>>
  BY <1>1, <1>7 DEF AgeInv, fbw_own
<1>8. QED
  BY <1>3, <1>4, <1>5, <1>6, <1>7, MonSteps

LEMMA FrameStep ==
  ASSUME FbwInv, FrameInv, MonNext
  PROVE  /\ FrameInv'
         /\ once_lost /\ rc_status # RC_OK /\ rc_status' = RC_OK => good' > RC_OK_CPT
<1> USE DEF RC_OK, RC_LOST, RC_REALLY_LOST
<1>1. /\ time_since_last_frame \in 0 .. RC_REALLY_LOST_TIME
      /\ radio_ok_cpt \in 0 .. RC_OK_CPT
      /\ RC_LOST_TIME \in Nat /\ RC_REALLY_LOST_TIME \in Nat /\ RC_OK_CPT \in Nat
      /\ RC_LOST_TIME > 0 /\ RC_LOST_TIME < RC_REALLY_LOST_TIME
  BY RcTimesAssumption DEF FbwInv, FbwTypeOK, RcTypeOK
<1>2. /\ gap' = IF FrameCame THEN 0
                ELSE IF TickCame THEN AtMost(gap + 1, RC_LOST_TIME) ELSE gap
      /\ good' = IF FrameCame THEN AtMost(good + 1, RC_OK_CPT + 1)
                 ELSE IF TickCame /\ GapIsLoss THEN 0 ELSE good
      /\ once_lost' = (once_lost \/ (TickCame /\ GapIsLoss /\ good > 0))
  BY MonSteps, Zenon DEF Observe
<1>3. CASE TickCame /\ periodic_task_fbw /\ ~FrameCame
  <2>1. radio_control_periodic_task
    BY <1>3 DEF periodic_task_fbw
  <2>2. GapIsLoss <=> time_since_last_frame >= RC_LOST_TIME
    BY <1>1 DEF GapIsLoss, FrameInv, AtMost
  <2>3. gap' = AtMost(time_since_last_frame', RC_LOST_TIME)
    BY <1>1, <1>2, <1>3, <2>1 DEF FrameInv, AtMost, radio_control_periodic_task
  <2>4. CASE time_since_last_frame < RC_LOST_TIME
    <3>1. /\ UNCHANGED <<rc_status, radio_ok_cpt>>
          /\ time_since_last_frame' = time_since_last_frame + 1
      BY <1>1, <2>1, <2>4 DEF radio_control_periodic_task
    <3>2. ~GapIsLoss
      BY <1>1, <2>2, <2>4
    <3>3. good' = good /\ (once_lost' <=> once_lost)
      BY <1>2, <1>3, <3>2, Zenon
    <3>4. QED
      BY <1>1, <2>3, <2>4, <3>1, <3>3 DEF FrameInv
  <2>5. CASE /\ time_since_last_frame >= RC_LOST_TIME
             /\ time_since_last_frame < RC_REALLY_LOST_TIME
    <3>1. rc_status' = RC_LOST /\ radio_ok_cpt' = RC_OK_CPT /\ good' = 0
      BY <1>1, <1>2, <1>3, <2>1, <2>2, <2>5 DEF radio_control_periodic_task
    <3>2. QED
      BY <1>1, <2>3, <3>1 DEF FrameInv
  <2>6. CASE time_since_last_frame >= RC_REALLY_LOST_TIME
    <3>1. /\ rc_status' = RC_REALLY_LOST /\ good' = 0
          /\ UNCHANGED <<time_since_last_frame, radio_ok_cpt>>
      BY <1>1, <1>2, <1>3, <2>1, <2>2, <2>6 DEF radio_control_periodic_task
    <3>2. good = 0 /\ (once_lost => radio_ok_cpt = RC_OK_CPT)
      BY <1>1, <2>6 DEF FrameInv
    <3>3. once_lost' <=> once_lost
      <4>1. ~(good > 0)
        BY <3>2
      <4>2. QED
        BY <1>2, <4>1, Zenon
    <3>4. QED
      BY <1>1, <2>3, <3>1, <3>2, <3>3 DEF FrameInv
  <2>7. QED
    BY <1>1, <2>4, <2>5, <2>6
<1>4. CASE ~TickCame /\ FrameCame /\ RadioFrame
  <2>1. /\ gap' = 0 /\ good' = AtMost(good + 1, RC_OK_CPT + 1)
        /\ once_lost' <=> once_lost
    BY <1>2, <1>4
  <2>2. time_since_last_frame' = 0
    BY <1>4 DEF RadioFrame, RcFrameCounted, RcFrameAccepted
  <2>3. gap' = AtMost(time_since_last_frame', RC_LOST_TIME) /\ good' \in Nat
    BY <1>1, <2>1, <2>2 DEF AtMost, FrameInv
  <2>4. CASE RcFrameCounted
    <3>1. radio_ok_cpt' = radio_ok_cpt - 1 /\ radio_ok_cpt > 0 /\ rc_status' = rc_status
      BY <2>4 DEF RcFrameCounted
    <3>2. QED
      BY <1>1, <2>1, <2>2, <2>3, <3>1 DEF FrameInv, AtMost
  <2>5. CASE RcFrameAccepted
    <3>1. radio_ok_cpt = 0 /\ rc_status' = RC_OK
      BY <2>5 DEF RcFrameAccepted
    <3>2. once_lost /\ rc_status # RC_OK => good' > RC_OK_CPT
      BY <1>1, <2>1, <3>1 DEF FrameInv, AtMost
    <3>3. QED
      BY <1>1, <2>2, <2>3, <3>1, <3>2 DEF FrameInv
  <2>6. QED
    BY <1>4, <2>4, <2>5 DEF RadioFrame
<1>5. CASE ~TickCame /\ ~FrameCame /\ UNCHANGED rc_vars
  <2>1. UNCHANGED <<gap, good, rc_status, time_since_last_frame, radio_ok_cpt>>
        /\ (once_lost' <=> once_lost)
    BY <1>2, <1>5 DEF rc_vars
  <2>2. QED
    BY <2>1 DEF FrameInv
<1>6. QED
  BY <1>3, <1>4, <1>5, MonSteps DEF ApMessage

LEMMA MonInvInit ==
  ASSUME MonInit
  PROVE  FbwInv /\ AgeInv /\ FrameInv
<1>1. FbwInv
  BY FbwInvInit DEF MonInit
<1>2. AgeInv
  BY DEF MonInit, FbwInit, inter_mcu_init, AgeInv, FBW_MODE_FAILSAFE, FBW_MODE_MANUAL
<1>3. FrameInv
  BY RcTimesAssumption DEF MonInit, FbwInit, radio_control_init, FrameInv, AtMost
<1>4. QED
  BY <1>1, <1>2, <1>3

LEMMA MonInvStep ==
  ASSUME FbwInv, AgeInv, FrameInv, [MonNext]_mon_vars
  PROVE  /\ FbwInv' /\ AgeInv' /\ FrameInv'
         /\ [once_lost /\ rc_status # RC_OK /\ rc_status' = RC_OK
               => good' > RC_OK_CPT]_mon_vars
<1>1. FbwInv'
  BY MonStepIsFbwStep, FbwInvStep
<1>2. CASE MonNext
  BY <1>1, <1>2, AgeStep, FrameStep
<1>3. CASE UNCHANGED mon_vars
  <2>1. AgeInv' /\ FrameInv'
    BY <1>3 DEF mon_vars, fbw_vars, rc_vars, inter_mcu_vars, fbw_own, AgeInv,
                FrameInv
  <2>2. QED
    BY <1>1, <1>3, <2>1
<1>4. QED
  BY <1>2, <1>3

(* In AUTO the servos are never refreshed more than AP_STALLED_TIME times     *)
(* from commands nobody renewed, the sticks' left behind included.           *)
THEOREM StaleCommandsBounded == MonSpec => []StaleAutoBounded
<1>1. MonInit => FbwInv /\ AgeInv /\ FrameInv
  BY MonInvInit
<1>2. FbwInv /\ AgeInv /\ FrameInv /\ [MonNext]_mon_vars
        => FbwInv' /\ AgeInv' /\ FrameInv'
  BY MonInvStep
<1>3. FbwInv /\ AgeInv => StaleAutoBounded
  BY ApStalledAssumption
     DEF FbwInv, FbwTypeOK, InterMcuTypeOK, AgeInv, StaleAutoBounded
<1>4. QED
  BY <1>1, <1>2, <1>3, PTL DEF MonSpec

(* A link that was lost is trusted again only after its full count of frames  *)
(* in a row.                                                                *)
THEOREM RegainCounts == MonSpec => RegainNeedsFrames
<1>1. MonInit => FbwInv /\ AgeInv /\ FrameInv
  BY MonInvInit
<1>2. FbwInv /\ AgeInv /\ FrameInv /\ [MonNext]_mon_vars
        => /\ FbwInv' /\ AgeInv' /\ FrameInv'
           /\ [once_lost /\ rc_status # RC_OK /\ rc_status' = RC_OK
                 => good' > RC_OK_CPT]_mon_vars
  BY MonInvStep
<1>3. QED
  BY <1>1, <1>2, PTL DEF MonSpec, RegainNeedsFrames
=============================================================================
