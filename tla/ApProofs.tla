------------------------------ MODULE ApProofs ------------------------------
(***************************************************************************)
(* Proofs about the autopilot process, for every period, every build and     *)
(* every set of ground settings and flight-plan calls: its types, the GPS     *)
(* failsafe that can always be left, a locked HOME that is for ever, and a    *)
(* motor that is off in time, be it killed by hand or by the distance.  Then   *)
(* about the firmware that runs it beside the FBW: it is a behaviour of both   *)
(* processes, its AP never counts as stalled, and a lost pilot is flown home.  *)
(*                                                                         *)
(* Liveness is proved from the recurrence of one step, []<><<A>>_v, which      *)
(* the fairness of the specification gives.                                 *)
(***************************************************************************)
EXTENDS ApMonitor, FixedWing, TLAPS

(* What is saved is never the failsafe itself.                              *)
SavedIsFlown == last_pprz_mode # PPRZ_MODE_GPS_OUT_OF_ORDER

ApInv == ApTypeOK /\ OutOfOrderIsSaved /\ SavedIsFlown

LEMMA ModesAreModes ==
  /\ SwitchModes \subseteq PprzModes /\ Failsafes \subseteq PprzModes
  /\ Autonomous \subseteq PprzModes
  /\ PPRZ_MODE_HOME \in PprzModes /\ PPRZ_MODE_AUTO2 \in PprzModes
  /\ PPRZ_MODE_GPS_OUT_OF_ORDER \notin SwitchModes \cup {PPRZ_MODE_HOME}
BY DEF SwitchModes, Failsafes, Autonomous, PprzModes, PPRZ_MODE_MANUAL,
       PPRZ_MODE_AUTO1, PPRZ_MODE_AUTO2, PPRZ_MODE_HOME,
       PPRZ_MODE_GPS_OUT_OF_ORDER

LEMMA ModMax ==
  ASSUME NEW n \in Nat, NEW d \in Nat \ {0}
  PROVE  n % d \in 0 .. d - 1
OBVIOUS

LEMMA InitInv == ApInit => ApInv
<1>1. /\ PPRZ_MODE_MANUAL \in PprzModes
      /\ PPRZ_MODE_MANUAL # PPRZ_MODE_GPS_OUT_OF_ORDER
      /\ PPRZ_MODE_AUTO2 # PPRZ_MODE_GPS_OUT_OF_ORDER
  BY DEF PPRZ_MODE_MANUAL, PPRZ_MODE_AUTO2, PPRZ_MODE_GPS_OUT_OF_ORDER,
         PprzModes, SwitchModes
<1>2. 0 \in 0 .. BATTERY_WRAP - 1 /\ 0 \in 0 .. SEC_PERIOD - 1
  BY ApAssumption
<1> QED
  BY <1>1, <1>2, ModesAreModes
  DEF ApInit, ApInv, ApTypeOK, OutOfOrderIsSaved, SavedIsFlown, Positions,
      Throttles

(* The modes telecommand_task can leave.                                    *)
LEMMA CommandedMode ==
  ASSUME pprz_mode \in PprzModes, NEW s \in Telecommands
  PROVE  pprz_mode_update(ModeAfterChecks(s), s)
           \in {pprz_mode, PPRZ_MODE_HOME} \cup SwitchModes
<1>1. PPRZ_MODE_OF_PULSE(s.mode_channel) \in SwitchModes
  BY DEF PPRZ_MODE_OF_PULSE, SwitchModes
<1>2. ModeAfterChecks(s) \in {pprz_mode, PPRZ_MODE_HOME} \cup SwitchModes
  BY ApAssumption DEF ModeAfterChecks, SwitchModes
<1> QED
  BY <1>1, <1>2 DEF pprz_mode_update

LEMMA TelecommandInv ==
  ASSUME ApInv, Telecommand
  PROVE  ApInv'
<1>1. PICK s \in Telecommands : telecommand_task(s)
  BY DEF Telecommand
<1>2. pprz_mode' \in {pprz_mode, PPRZ_MODE_HOME} \cup SwitchModes
  BY <1>1, CommandedMode DEF telecommand_task, ApInv, ApTypeOK
<1>3. v_ctl_throttle_setpoint' \in Throttles
  BY <1>1 DEF telecommand_task, Throttles, ApInv, ApTypeOK
<1>4. launch' \in BOOLEAN
  BY <1>1 DEF telecommand_task, ApInv, ApTypeOK, Telecommands
<1>5. ApTypeOK'
  BY <1>1, <1>2, <1>3, <1>4, ModesAreModes
  DEF telecommand_task, ApInv, ApTypeOK, ap_world
<1>6. OutOfOrderIsSaved' /\ SavedIsFlown'
  BY <1>1, <1>2, ModesAreModes
  DEF telecommand_task, ApInv, OutOfOrderIsSaved, SavedIsFlown
<1> QED
  BY <1>5, <1>6 DEF ApInv

(* The failsafe saves what it takes, and gives back what it saved.           *)
LEMMA FailsafeInv ==
  ASSUME ApInv, GpsFailsafe
  PROVE  /\ pprz_mode' \in PprzModes /\ last_pprz_mode' \in PprzModes
         /\ gps_lost' \in BOOLEAN
         /\ OutOfOrderIsSaved' /\ SavedIsFlown'
<1>1. CASE /\ pprz_mode \in {PPRZ_MODE_AUTO2, PPRZ_MODE_HOME}
           /\ last_pprz_mode' = pprz_mode
           /\ pprz_mode' = PPRZ_MODE_GPS_OUT_OF_ORDER
           /\ gps_lost' = TRUE
  BY <1>1, ModesAreModes
  DEF OutOfOrderIsSaved, SavedIsFlown, PprzModes, Failsafes,
      PPRZ_MODE_AUTO2, PPRZ_MODE_HOME, PPRZ_MODE_GPS_OUT_OF_ORDER
<1>2. CASE /\ gps_lost
           /\ pprz_mode' = last_pprz_mode
           /\ gps_lost' = FALSE
           /\ UNCHANGED last_pprz_mode
  BY <1>2, ModesAreModes DEF ApInv, ApTypeOK, OutOfOrderIsSaved, SavedIsFlown
<1>3. CASE UNCHANGED <<pprz_mode, last_pprz_mode, gps_lost>>
  BY <1>3 DEF ApInv, ApTypeOK, OutOfOrderIsSaved, SavedIsFlown
<1> QED
  BY <1>1, <1>2, <1>3 DEF GpsFailsafe

LEMMA NavigationInv ==
  ASSUME ApInv, NEW killed \in BOOLEAN, navigation_task(killed)
  PROVE  /\ pprz_mode' \in PprzModes /\ last_pprz_mode' \in PprzModes
         /\ gps_lost' \in BOOLEAN /\ kill_throttle' \in BOOLEAN
         /\ estimator_flight_time' \in BOOLEAN /\ launch' \in BOOLEAN
         /\ home_dist' \in Positions
         /\ v_ctl_throttle_setpoint' \in Throttles
         /\ OutOfOrderIsSaved' /\ SavedIsFlown'
<1>1. GpsFailsafe
  BY DEF navigation_task
<1>2. kill_throttle' \in BOOLEAN
  BY DEF navigation_task
<1>3. estimator_flight_time' \in BOOLEAN
  BY DEF navigation_task, ApInv, ApTypeOK
<1>4. home_dist' \in Positions /\ launch' \in BOOLEAN
  BY DEF navigation_task, ApInv, ApTypeOK
<1>5. v_ctl_throttle_setpoint' \in Throttles
  BY DEF navigation_task, NavThrottle, Throttles, ApInv, ApTypeOK
<1> QED
  BY <1>1, <1>2, <1>3, <1>4, <1>5, FailsafeInv

LEMMA KilledType ==
  ASSUME kill_throttle \in BOOLEAN, NEW checked \in BOOLEAN
  PROVE  Killed(checked) \in BOOLEAN
BY DEF Killed

LEMMA PeriodicInv ==
  ASSUME ApInv, periodic_task_ap
  PROVE  ApInv'
<1> DEFINE killed == Killed(ap_tick' = 0)
<1>1. killed \in BOOLEAN
  BY KilledType DEF ApInv, ApTypeOK
<1>2. ap_tick' \in 0 .. SEC_PERIOD - 1
  BY ApAssumption, ModMax DEF periodic_task_ap, NextTick, ApInv, ApTypeOK
<1>3. low_battery' \in 0 .. BATTERY_WRAP - 1
  <2>1. (low_battery + 1) % BATTERY_WRAP \in 0 .. BATTERY_WRAP - 1
        /\ 0 \in 0 .. BATTERY_WRAP - 1
    BY ApAssumption, ModMax DEF ApInv, ApTypeOK
  <2> QED
    BY <2>1 DEF periodic_task_ap, ApInv, ApTypeOK
<1>4. /\ pprz_mode' \in PprzModes /\ last_pprz_mode' \in PprzModes
      /\ gps_lost' \in BOOLEAN /\ kill_throttle' \in BOOLEAN
      /\ estimator_flight_time' \in BOOLEAN /\ launch' \in BOOLEAN
      /\ home_dist' \in Positions
      /\ v_ctl_throttle_setpoint' \in Throttles
      /\ OutOfOrderIsSaved' /\ SavedIsFlown'
  <2>1. CASE navigation_task(killed)
    BY <1>1, <2>1, NavigationInv
  <2>2. CASE /\ kill_throttle' = killed
             /\ \/ TakeoffDetection
                \/ UNCHANGED <<estimator_flight_time, launch>>
             /\ UNCHANGED <<pprz_mode, last_pprz_mode, gps_lost, home_dist,
                            v_ctl_throttle_setpoint>>
    <3>1. estimator_flight_time' \in BOOLEAN /\ launch' \in BOOLEAN
      BY <2>2 DEF TakeoffDetection, ApInv, ApTypeOK
    <3> HIDE DEF killed
    <3> QED
      BY <1>1, <2>2, <3>1
      DEF ApInv, ApTypeOK, OutOfOrderIsSaved, SavedIsFlown
  <2> QED
    BY <2>1, <2>2 DEF periodic_task_ap
<1>5. throttle' \in Throttles
  BY <1>4 DEF periodic_task_ap, ApInv, ApTypeOK
<1>6. gps_timeout' \in BOOLEAN /\ position' \in Positions
  BY DEF periodic_task_ap, ap_world, ApInv, ApTypeOK
<1> QED
  BY <1>2, <1>3, <1>4, <1>5, <1>6 DEF ApInv, ApTypeOK

LEMMA SettingInv ==
  ASSUME ApInv, GroundSetting
  PROVE  ApInv'
<1>1. pprz_mode' \in {pprz_mode} \cup SwitchModes
  BY DEF GroundSetting
<1>2. launch' \in BOOLEAN
  BY DEF GroundSetting, ApInv, ApTypeOK
<1>3. kill_throttle' \in BOOLEAN
  BY DEF GroundSetting, ApInv, ApTypeOK
<1>4. estimator_flight_time' \in BOOLEAN
  BY DEF GroundSetting, ApInv, ApTypeOK
<1>5. UNCHANGED <<gps_lost, last_pprz_mode, home_dist, low_battery,
                  v_ctl_throttle_setpoint, throttle, ap_tick, ap_world>>
  BY DEF GroundSetting
<1> QED
  BY <1>1, <1>2, <1>3, <1>4, <1>5, ModesAreModes
  DEF ApInv, ApTypeOK, OutOfOrderIsSaved, SavedIsFlown, ap_world

LEMMA WorldInv ==
  ASSUME ApInv, ApWorld
  PROVE  ApInv'
<1>1. gps_timeout' \in BOOLEAN
  BY DEF ApWorld, ApInv, ApTypeOK
<1>2. position' \in Positions
  BY DEF ApWorld, Neighbours, Positions, ApInv, ApTypeOK
<1> QED
  BY <1>1, <1>2
  DEF ApWorld, ap_modes, ApInv, ApTypeOK, OutOfOrderIsSaved, SavedIsFlown

LEMMA StutterInv ==
  ASSUME ApInv, UNCHANGED ap_vars
  PROVE  ApInv'
BY DEF ap_vars, ap_modes, ap_world, ApInv, ApTypeOK, OutOfOrderIsSaved,
       SavedIsFlown

THEOREM ApInvariant == ApSafety => []ApInv
<1>1. ApInv /\ [ApNext]_ap_vars => ApInv'
  BY TelecommandInv, PeriodicInv, SettingInv, WorldInv, StutterInv DEF ApNext
<1> QED
  BY InitInv, <1>1, PTL DEF ApSafety

-----------------------------------------------------------------------------
(* Type correctness of the autopilot process: in particular the prescaler     *)
(* and the low-battery byte never leave their ranges.                        *)
THEOREM ApTypes == ApSafety => []ApTypeOK
BY ApInvariant, PTL DEF ApInv

(* An aircraft in GPS_OUT_OF_ORDER always has the loss on record and an       *)
(* autonomous mode to return to, whatever pilot and ground do meanwhile.     *)
THEOREM GpsLossIsSaved == ApSafety => []OutOfOrderIsSaved
BY ApInvariant, PTL DEF ApInv

-----------------------------------------------------------------------------
(* A build that locks HOME: the loss of the GPS is on record only while the   *)
(* failsafe has the mode, so its return has nothing old to give back.        *)
LossIsOutOfOrder == gps_lost => pprz_mode = PPRZ_MODE_GPS_OUT_OF_ORDER

(* Where an aircraft that was in HOME can be.                               *)
HomeBound ==
  \/ pprz_mode = PPRZ_MODE_HOME
  \/ /\ pprz_mode = PPRZ_MODE_GPS_OUT_OF_ORDER
     /\ last_pprz_mode = PPRZ_MODE_HOME

Locked == ~UNLOCKED_HOME_MODE /\ "mode" \notin GroundSettings

LEMMA FailsafeModesDiffer ==
  /\ PPRZ_MODE_HOME # PPRZ_MODE_GPS_OUT_OF_ORDER
  /\ PPRZ_MODE_AUTO2 # PPRZ_MODE_HOME
  /\ PPRZ_MODE_AUTO2 # PPRZ_MODE_GPS_OUT_OF_ORDER
  /\ SwitchModes \cap Failsafes = {}
BY DEF PPRZ_MODE_MANUAL, PPRZ_MODE_AUTO1, PPRZ_MODE_AUTO2, PPRZ_MODE_HOME,
       PPRZ_MODE_GPS_OUT_OF_ORDER, SwitchModes, Failsafes

(* Each step leaves the three modes alone, or it is the GPS failsafe, or a    *)
(* telecommand that found no failsafe mode.                                 *)
LEMMA LockedStep ==
  ASSUME Locked, [ApNext]_ap_vars
  PROVE  \/ UNCHANGED <<pprz_mode, last_pprz_mode, gps_lost>>
         \/ GpsFailsafe
         \/ /\ pprz_mode \notin Failsafes
            /\ UNCHANGED <<last_pprz_mode, gps_lost>>
<1>1. CASE periodic_task_ap
  BY <1>1 DEF periodic_task_ap, navigation_task
<1>2. CASE Telecommand
  <2>1. PICK s \in Telecommands : telecommand_task(s)
    BY <1>2 DEF Telecommand
  <2>2. CASE pprz_mode \in Failsafes
    BY <2>1, <2>2
    DEF telecommand_task, pprz_mode_update, ModeAfterChecks, Locked
  <2> QED
    BY <2>1, <2>2 DEF telecommand_task
<1>3. CASE GroundSetting
  BY <1>3 DEF GroundSetting, Locked
<1>4. CASE ApWorld \/ UNCHANGED ap_vars
  BY <1>4 DEF ApWorld, ap_vars, ap_modes
<1> QED
  BY <1>1, <1>2, <1>3, <1>4 DEF ApNext

LEMMA LockedHome ==
  ASSUME Locked, LossIsOutOfOrder, [ApNext]_ap_vars
  PROVE  LossIsOutOfOrder' /\ (HomeBound => HomeBound')
<1>1. CASE UNCHANGED <<pprz_mode, last_pprz_mode, gps_lost>>
  BY <1>1 DEF LossIsOutOfOrder, HomeBound
<1>2. CASE GpsFailsafe
  BY <1>2, FailsafeModesDiffer DEF GpsFailsafe, LossIsOutOfOrder, HomeBound
<1>3. CASE /\ pprz_mode \notin Failsafes
           /\ UNCHANGED <<last_pprz_mode, gps_lost>>
  BY <1>3 DEF LossIsOutOfOrder, HomeBound, Failsafes
<1> QED
  BY <1>1, <1>2, <1>3, LockedStep

(* In a build that locks HOME, with no mode setting from the ground, HOME is  *)
(* for ever: the mode is one of the two failsafes from then on.              *)
THEOREM HomeForever ==
  ASSUME Locked
  PROVE  ApSafety => HomeIsForever
<1>1. ApInit => LossIsOutOfOrder
  BY DEF ApInit, LossIsOutOfOrder
<1>2. LossIsOutOfOrder /\ [ApNext]_ap_vars => LossIsOutOfOrder'
  BY LockedHome
<1>3. LossIsOutOfOrder /\ HomeBound /\ [ApNext]_ap_vars => HomeBound'
  BY LockedHome
<1>4. pprz_mode = PPRZ_MODE_HOME => HomeBound
  BY DEF HomeBound
<1>5. HomeBound => pprz_mode \in Failsafes
  BY DEF HomeBound, Failsafes
<1> QED
  BY <1>1, <1>2, <1>3, <1>4, <1>5, PTL DEF ApSafety, HomeIsForever

-----------------------------------------------------------------------------
(* What comes about.  That navigation_task runs again and again is a premise,  *)
(* []<><<NavigationRuns>>, for what the prescaler counts is not proved.       *)
NavigationRuns == periodic_task_ap /\ ap_tick' % NAV_PERIOD = 0

(* With a GPS that works, navigation_task leaves GPS_OUT_OF_ORDER ...           *)
LEMMA NavigationReturns ==
  ASSUME ApInv, launch, ~gps_timeout, NavigationRuns
  PROVE  /\ pprz_mode' # PPRZ_MODE_GPS_OUT_OF_ORDER
         /\ home_dist' = position'
<1>1. /\ GpsFailsafe
      /\ home_dist' = IF pprz_mode' = PPRZ_MODE_GPS_OUT_OF_ORDER
                        THEN home_dist ELSE position
      /\ position' = position
  BY DEF NavigationRuns, periodic_task_ap, navigation_task, ap_world
<1>2. CASE gps_lost
  BY <1>1, <1>2 DEF GpsFailsafe, ApInv, SavedIsFlown
<1>3. CASE ~gps_lost
  BY <1>1, <1>3 DEF GpsFailsafe, ApInv, OutOfOrderIsSaved
<1>4. QED
  BY <1>2, <1>3, <1>1

(* ... and no step goes back to it.                                          *)
LEMMA StaysReturned ==
  ASSUME ApInv, launch, ~gps_timeout, [ApNext]_ap_vars,
         pprz_mode # PPRZ_MODE_GPS_OUT_OF_ORDER
  PROVE  pprz_mode' # PPRZ_MODE_GPS_OUT_OF_ORDER
<1>1. CASE periodic_task_ap
  <2>1. CASE ap_tick' % NAV_PERIOD = 0
    BY <1>1, <2>1, NavigationReturns DEF NavigationRuns
  <2>2. CASE ap_tick' % NAV_PERIOD # 0
    BY <1>1, <2>2 DEF periodic_task_ap
  <2>3. QED
    BY <2>1, <2>2
<1>2. CASE Telecommand
  <2>1. PICK s \in Telecommands : telecommand_task(s)
    BY <1>2 DEF Telecommand
  <2>2. ModeAfterChecks(s) # PPRZ_MODE_GPS_OUT_OF_ORDER
    BY ApAssumption, FailsafeModesDiffer DEF ModeAfterChecks
  <2>3. QED
    BY <2>1, <2>2 DEF telecommand_task, pprz_mode_update, PPRZ_MODE_OF_PULSE,
       PPRZ_MODE_MANUAL, PPRZ_MODE_AUTO1, PPRZ_MODE_AUTO2,
       PPRZ_MODE_GPS_OUT_OF_ORDER
<1>3. CASE GroundSetting
  BY <1>3, FailsafeModesDiffer DEF GroundSetting, Failsafes
<1>4. CASE ApWorld \/ UNCHANGED ap_vars
  BY <1>4 DEF ApWorld, ap_vars, ap_modes
<1>5. QED
  BY <1>1, <1>2, <1>3, <1>4 DEF ApNext

(* A launched aircraft whose GPS is back for good leaves GPS_OUT_OF_ORDER for   *)
(* good, in every build and whatever pilot and ground set (navigation_task).  *)
THEOREM GpsBringsBack ==
  ApSafety /\ []<><<NavigationRuns>>_ap_vars => GpsReturns
<1> DEFINE Seen == launch /\ ~gps_timeout
           Back == pprz_mode # PPRZ_MODE_GPS_OUT_OF_ORDER
<1>1. ApInv /\ Seen /\ <<NavigationRuns>>_ap_vars => Back'
  BY NavigationReturns
<1>2. ApInv /\ Seen /\ Back /\ [ApNext]_ap_vars => Back'
  BY StaysReturned
<1> HIDE DEF Seen, Back
<1>3. ApSafety /\ []<><<NavigationRuns>>_ap_vars => (<>[]Seen => <>[]Back)
  BY <1>1, <1>2, ApInvariant, PTL DEF ApSafety
<1>4. QED
  BY <1>3 DEF GpsReturns, Seen, Back

(* Too far away with a GPS that works and HOME locked, the first report from    *)
(* the FBW ends the pilot's modes and the next AUTO2.                         *)
LEMMA ReportGoesHome ==
  ASSUME Locked, launch, too_far_from_home, Telecommand,
         pprz_mode # PPRZ_MODE_GPS_OUT_OF_ORDER, pprz_mode \in PprzModes
  PROVE  /\ pprz_mode' \in {PPRZ_MODE_AUTO2, PPRZ_MODE_HOME}
         /\ pprz_mode \in {PPRZ_MODE_AUTO2, PPRZ_MODE_HOME}
              => pprz_mode' = PPRZ_MODE_HOME
<1>1. PICK s \in Telecommands : telecommand_task(s)
  BY DEF Telecommand
<1>2. ~(s.radio_ok /\ s.really_lost)
  BY DEF Telecommands
<1>3. pprz_mode' = pprz_mode_update(ModeAfterChecks(s), s)
  BY <1>1 DEF telecommand_task
<1>4. CASE /\ s.really_lost
           /\ pprz_mode \in {PPRZ_MODE_AUTO1, PPRZ_MODE_MANUAL}
  <2>1. ModeAfterChecks(s) = RC_LOST_MODE
    BY <1>4 DEF ModeAfterChecks, Failsafes, PPRZ_MODE_MANUAL, PPRZ_MODE_AUTO1,
       PPRZ_MODE_HOME, PPRZ_MODE_GPS_OUT_OF_ORDER
  <2>2. pprz_mode' = RC_LOST_MODE
    BY <1>2, <1>3, <1>4, <2>1 DEF pprz_mode_update
  <2>3. QED
    BY <1>4, <2>2, ApAssumption DEF PPRZ_MODE_MANUAL, PPRZ_MODE_AUTO1,
       PPRZ_MODE_AUTO2, PPRZ_MODE_HOME
<1>5. CASE ~(/\ s.really_lost
             /\ pprz_mode \in {PPRZ_MODE_AUTO1, PPRZ_MODE_MANUAL})
  <2>1. ModeAfterChecks(s) = PPRZ_MODE_HOME
    BY <1>5 DEF ModeAfterChecks, Failsafes
  <2>2. pprz_mode' = PPRZ_MODE_HOME
    BY <1>3, <2>1 DEF pprz_mode_update, Failsafes, Locked
  <2>3. QED
    BY <2>2
<1>6. QED
  BY <1>4, <1>5

(* No step of the others changes the mode then, or measures it near.            *)
LEMMA OthersLeaveFar ==
  ASSUME Locked, LossIsOutOfOrder, launch, ~gps_timeout, [ApNext]_ap_vars,
         position' # "near", too_far_from_home,
         pprz_mode # PPRZ_MODE_GPS_OUT_OF_ORDER
  PROVE  /\ too_far_from_home'
         /\ ~Telecommand => pprz_mode' = pprz_mode
<1>1. ~gps_lost
  BY DEF LossIsOutOfOrder
<1>2. CASE periodic_task_ap
  <2>1. pprz_mode' = pprz_mode
    BY <1>1, <1>2 DEF periodic_task_ap, navigation_task, GpsFailsafe
  <2>2. home_dist' \in {home_dist, position} /\ position' = position
    BY <1>2 DEF periodic_task_ap, navigation_task, ap_world
  <2>3. QED
    BY <2>1, <2>2 DEF too_far_from_home
<1>3. CASE Telecommand
  BY <1>3 DEF Telecommand, telecommand_task, too_far_from_home
<1>4. CASE GroundSetting
  BY <1>4 DEF GroundSetting, Locked, too_far_from_home
<1>5. CASE ApWorld \/ UNCHANGED ap_vars
  BY <1>5 DEF ApWorld, ap_vars, ap_modes, too_far_from_home
<1>6. QED
  BY <1>2, <1>3, <1>4, <1>5 DEF ApNext

(* In a build that locks HOME, a launched aircraft that stays too far away with *)
(* a GPS that works ends up in HOME (telecommand_task after navigation_task).  *)
(* ApSpec says that reports keep coming; the second premise is that one that   *)
(* changes something can come to an aircraft too far away, which is so: every *)
(* report changes its mode.                                                 *)
THEOREM TooFarIsHome ==
  ASSUME Locked
  PROVE  /\ ApSpec
         /\ []<><<NavigationRuns>>_ap_vars
         /\ [](launch /\ too_far_from_home /\ pprz_mode \notin Failsafes
                 => ENABLED <<Telecommand>>_ap_vars)
         => TooFarGoesHome
<1> DEFINE Away == launch /\ ~gps_timeout /\ position # "near"
           Far  == too_far_from_home /\ pprz_mode # PPRZ_MODE_GPS_OUT_OF_ORDER
           Done == pprz_mode \in {PPRZ_MODE_AUTO2, PPRZ_MODE_HOME}
           Home == pprz_mode = PPRZ_MODE_HOME
           Inv  == ApInv /\ LossIsOutOfOrder
<1>1. ApSafety => []Inv
  <2>1. ApInit => LossIsOutOfOrder
    BY DEF ApInit, LossIsOutOfOrder
  <2>2. LossIsOutOfOrder /\ [ApNext]_ap_vars => LossIsOutOfOrder'
    BY LockedHome
  <2>3. QED
    BY <2>1, <2>2, ApInvariant, PTL DEF ApSafety
<1>2. Inv /\ Away /\ Away' /\ <<NavigationRuns>>_ap_vars => Far'
  BY NavigationReturns DEF too_far_from_home
<1>3. Inv /\ Away /\ Away' /\ Far /\ [ApNext]_ap_vars => Far'
  BY OthersLeaveFar, StaysReturned
<1>4. Inv /\ Away /\ Far /\ <<Telecommand>>_ap_vars => Done'
  BY ReportGoesHome DEF ApInv, ApTypeOK
<1>5. Inv /\ Away /\ Far /\ Done /\ <<Telecommand>>_ap_vars => Home'
  BY ReportGoesHome DEF ApInv, ApTypeOK
<1>6. Inv /\ Away /\ Away' /\ Far /\ Done /\ [ApNext]_ap_vars => Done'
  BY ReportGoesHome, OthersLeaveFar DEF ApInv, ApTypeOK
<1>7. Inv /\ Away /\ Away' /\ Far /\ Home /\ [ApNext]_ap_vars => Home'
  BY ReportGoesHome, OthersLeaveFar DEF ApInv, ApTypeOK
<1>8. /\ Away /\ Far /\ ~Home
      /\ (launch /\ too_far_from_home /\ pprz_mode \notin Failsafes
            => ENABLED <<Telecommand>>_ap_vars)
      => ENABLED <<Telecommand>>_ap_vars
  BY DEF Failsafes
<1> HIDE DEF Away, Far, Done, Home, Inv
<1>9. /\ ApSpec /\ []<><<NavigationRuns>>_ap_vars
      /\ [](launch /\ too_far_from_home /\ pprz_mode \notin Failsafes
              => ENABLED <<Telecommand>>_ap_vars)
      => (<>[]Away => <>[]Home)
  BY <1>1, <1>2, <1>3, <1>4, <1>5, <1>6, <1>7, <1>8, PTL
     DEF ApSpec, ApSafety, ApFairness
<1>10. QED
  BY <1>9 DEF TooFarGoesHome, Away, Home
-----------------------------------------------------------------------------
(* Remainders, for prescalers whose periods divide one another.              *)
LEMMA DivMod ==
  ASSUME NEW n \in Nat, NEW d \in Nat \ {0}
  PROVE  n = d * (n \div d) + (n % d) /\ n \div d \in Nat /\ n % d \in 0 .. d - 1
OBVIOUS

LEMMA ModUnique ==
  ASSUME NEW d \in Nat \ {0}, NEW q \in Nat, NEW r \in 0 .. d - 1,
         NEW n \in Nat, n = d * q + r
  PROVE  n % d = r
<1> DEFINE k == n \div d
<1> DEFINE s == n % d
<1>1. k \in Nat /\ s \in 0 .. d - 1 /\ d * k + s = d * q + r
  BY DivMod
<1> HIDE DEF k, s
<1>2. CASE k < q
  <2>1. d * (k + 1) <= d * q
    BY <1>1, <1>2
  <2> QED
    BY <1>1, <1>2, <2>1
<1>3. CASE k > q
  <2>1. d * (q + 1) <= d * k
    BY <1>1, <1>3
  <2> QED
    BY <1>1, <1>3, <2>1
<1>4. CASE k = q
  <2>1. d * k = d * q /\ d * k \in Int /\ d * q \in Int
    BY <1>1, <1>4
  <2> QED
    BY <1>1, <2>1 DEF s
<1> QED
  BY <1>1, <1>2, <1>3, <1>4

(* The remainder of the next number is the next remainder, or zero.          *)
LEMMA ModNext ==
  ASSUME NEW t \in Nat, NEW d \in Nat \ {0}
  PROVE  (t + 1) % d = 0 \/ (t + 1) % d = (t % d) + 1
<1> DEFINE q == t \div d
<1> DEFINE r == t % d
<1> DEFINE m == t + 1
<1> DEFINE p == q + 1
<1>1. q \in Nat /\ r \in 0 .. d - 1 /\ t = d * q + r
  BY DivMod
<1>2. r + 1 < d => m = d * q + (r + 1) /\ r + 1 \in 0 .. d - 1
  <2> HIDE DEF q, r
  <2>1. d * q \in Int
    BY <1>1
  <2> QED
    BY <1>1, <2>1
<1>3. r + 1 = d => m = d * p + 0 /\ p \in Nat /\ 0 \in 0 .. d - 1
  <2> HIDE DEF q, r
  <2>1. d * q \in Int /\ d * (q + 1) = d * q + d
    BY <1>1
  <2> QED
    BY <1>1, <2>1
<1>4. m \in Nat
  OBVIOUS
<1>5. m % d = 0 \/ m % d = r + 1
  <2> HIDE DEF q, r, m, p
  <2>1. r + 1 < d => m % d = r + 1
    BY <1>1, <1>2, <1>4, ModUnique
  <2>2. r + 1 = d => m % d = 0
    BY <1>3, <1>4, ModUnique
  <2> QED
    BY <1>1, <2>1, <2>2
<1> QED
  BY <1>5

LEMMA ModTransitive ==
  ASSUME NEW n \in Nat, NEW a \in Nat \ {0}, NEW b \in Nat \ {0},
         n % a = 0, a % b = 0
  PROVE  n % b = 0
<1> DEFINE k == n \div a
<1> DEFINE j == a \div b
<1> DEFINE p == j * k
<1>1. k \in Nat /\ n = a * k
  <2>1. n = a * k + (n % a) /\ k \in Nat
    BY DivMod
  <2> HIDE DEF k
  <2> QED
    BY <2>1
<1>2. j \in Nat /\ a = b * j
  <2>1. a = b * j + (a % b) /\ j \in Nat
    BY DivMod
  <2> HIDE DEF j
  <2> QED
    BY <2>1
<1> HIDE DEF k, j
<1>3. p \in Nat /\ 0 \in 0 .. b - 1 /\ n = b * p + 0
  BY <1>1, <1>2
<1> HIDE DEF p
<1> QED
  BY <1>3, ModUnique

(* A navigation tick is a control tick; any other comes one tick later in its  *)
(* navigation period.                                                       *)
LEMMA TickRemainder ==
  ASSUME ap_tick \in 0 .. SEC_PERIOD - 1, NextTick
  PROVE  /\ ap_tick' % NAV_PERIOD = 0 => ap_tick' % CTL_PERIOD = 0
         /\ \/ ap_tick' % NAV_PERIOD = 0
            \/ ap_tick' % NAV_PERIOD = (ap_tick % NAV_PERIOD) + 1
         /\ ap_tick' = 0 \/ ap_tick' = ap_tick + 1
<1>1. ap_tick \in Nat /\ SEC_PERIOD \in Nat \ {0} /\ NAV_PERIOD \in Nat \ {0}
      /\ CTL_PERIOD \in Nat \ {0} /\ NAV_PERIOD % CTL_PERIOD = 0
  BY ApAssumption
<1>2. ap_tick' \in Nat
  BY <1>1, ModMax DEF NextTick
<1>3. ap_tick % SEC_PERIOD = ap_tick
  <2>1. ap_tick = SEC_PERIOD * 0 + ap_tick
    BY <1>1
  <2> QED
    BY <1>1, <2>1, ModUnique
<1>4. ap_tick' = 0 \/ ap_tick' = ap_tick + 1
  BY <1>1, <1>3, ModNext DEF NextTick
<1>5. 0 % NAV_PERIOD = 0
  <2>1. 0 = NAV_PERIOD * 0 + 0 /\ 0 \in 0 .. NAV_PERIOD - 1
    BY <1>1
  <2> QED
    BY <2>1, <1>1, ModUnique
<1>6. ap_tick' % NAV_PERIOD = 0 => ap_tick' % CTL_PERIOD = 0
  <2>1. ASSUME NEW n \in Nat, n % NAV_PERIOD = 0
        PROVE  n % CTL_PERIOD = 0
    BY <2>1, <1>1, ModTransitive
  <2> QED
    BY <1>2, <2>1
<1>7. CASE ap_tick' = 0
  BY <1>5, <1>6, <1>7
<1>8. CASE ap_tick' = ap_tick + 1
  <2>1. \/ (ap_tick + 1) % NAV_PERIOD = 0
        \/ (ap_tick + 1) % NAV_PERIOD = (ap_tick % NAV_PERIOD) + 1
    BY <1>1, ModNext
  <2> QED
    BY <1>6, <1>8, <2>1
<1> QED
  BY <1>4, <1>7, <1>8

(* A motor that has had to be off for longer than the last navigation task is  *)
(* ago is off: that task saw it, and it is a control step, too.              *)
KillInv ==
  /\ off_for \in 0 .. NAV_PERIOD
  /\ off_for > ap_tick % NAV_PERIOD =>
       v_ctl_throttle_setpoint = "zero" /\ throttle = "zero"

LEMMA OffForStep ==
  ASSUME off_for \in 0 .. NAV_PERIOD,
         off_for' = Lasted(off_for, MotorOff', NAV_PERIOD)
  PROVE  /\ off_for' \in 0 .. NAV_PERIOD
         /\ off_for' > 0 => MotorOff'
         /\ off_for' <= off_for + 1
         /\ ap_tick' = ap_tick => off_for' <= off_for
BY ApAssumption DEF Lasted

LEMMA TickKills ==
  ASSUME ApTypeOK, KillInv, periodic_task_ap,
         off_for' = Lasted(off_for, MotorOff', NAV_PERIOD)
  PROVE  KillInv'
<1>1. /\ off_for' \in 0 .. NAV_PERIOD /\ off_for' <= off_for + 1
      /\ off_for' > 0 => MotorOff'
  BY OffForStep DEF KillInv
<1>2. /\ ap_tick' % NAV_PERIOD = 0 => ap_tick' % CTL_PERIOD = 0
      /\ \/ ap_tick' % NAV_PERIOD = 0
         \/ ap_tick' % NAV_PERIOD = (ap_tick % NAV_PERIOD) + 1
  BY TickRemainder DEF ApTypeOK, periodic_task_ap
<1>3. ap_tick % NAV_PERIOD \in Nat
  BY ApAssumption, ModMax DEF ApTypeOK
<1>4. CASE ap_tick' % NAV_PERIOD = 0
  <2>1. MotorOff' => v_ctl_throttle_setpoint' = "zero"
    BY <1>4 DEF periodic_task_ap, navigation_task, NavThrottle, MotorOff
  <2>2. throttle' = v_ctl_throttle_setpoint'
    BY <1>2, <1>4 DEF periodic_task_ap
  <2> QED
    BY <1>1, <1>4, <2>1, <2>2 DEF KillInv
<1>5. CASE /\ ap_tick' % NAV_PERIOD # 0
           /\ ap_tick' % NAV_PERIOD = (ap_tick % NAV_PERIOD) + 1
  <2>1. /\ v_ctl_throttle_setpoint' = v_ctl_throttle_setpoint
        /\ throttle' \in {v_ctl_throttle_setpoint', throttle}
    BY <1>5 DEF periodic_task_ap
  <2>2. off_for' > ap_tick' % NAV_PERIOD => off_for > ap_tick % NAV_PERIOD
    BY <1>1, <1>3, <1>5 DEF KillInv
  <2> QED
    BY <1>1, <2>1, <2>2 DEF KillInv
<1> QED
  BY <1>2, <1>4, <1>5

LEMMA OtherStepKills ==
  ASSUME ApTypeOK, KillInv, Telecommand \/ GroundSetting \/ ApWorld,
         off_for' = Lasted(off_for, MotorOff', NAV_PERIOD)
  PROVE  KillInv'
<1>1. ap_tick' = ap_tick /\ throttle' = throttle
  BY DEF Telecommand, telecommand_task, GroundSetting, ApWorld
<1>2. MotorOff' => v_ctl_throttle_setpoint' = v_ctl_throttle_setpoint
  BY DEF Telecommand, telecommand_task, GroundSetting, ApWorld, MotorOff,
         Autonomous, Failsafes, PPRZ_MODE_MANUAL, PPRZ_MODE_AUTO1,
         PPRZ_MODE_AUTO2, PPRZ_MODE_HOME, PPRZ_MODE_GPS_OUT_OF_ORDER
<1>3. /\ off_for' \in 0 .. NAV_PERIOD /\ off_for' <= off_for
      /\ off_for' > 0 => MotorOff'
  BY <1>1, OffForStep DEF KillInv
<1>4. ap_tick % NAV_PERIOD \in Nat
  BY ApAssumption, ModMax DEF ApTypeOK
<1> QED
  BY <1>1, <1>2, <1>3, <1>4 DEF KillInv

LEMMA MonStep ==
  ASSUME [ApMonNext]_apmon_vars
  PROVE  [ApNext]_ap_vars
BY DEF ApMonNext, apmon_vars

(* In every build and whatever the ground and the flight plan do, the         *)
(* throttle is zero one navigation period after the motor has to be off.     *)
THEOREM KilledInTime == ApMonSpec => []KillHolds
<1>1. ApMonInit => ApInv /\ KillInv
  <2>1. ASSUME ApInit, off_for = 0
        PROVE  KillInv
    <3>1. ap_tick % NAV_PERIOD \in Nat /\ 0 \in 0 .. NAV_PERIOD
      BY <2>1, ApAssumption, ModMax DEF ApInit
    <3> QED
      BY <2>1, <3>1 DEF KillInv
  <2> QED
    BY <2>1, InitInv DEF ApMonInit
<1>2. ApInv /\ [ApMonNext]_apmon_vars => ApInv'
  BY MonStep, TelecommandInv, PeriodicInv, SettingInv, WorldInv, StutterInv
  DEF ApNext
<1>3. ApInv /\ KillInv /\ [ApMonNext]_apmon_vars => KillInv'
  <2>1. ASSUME ApInv, KillInv, ApMonNext
        PROVE  KillInv'
    BY <2>1, TickKills, OtherStepKills DEF ApMonNext, ApNext, ApInv
  <2>2. ASSUME KillInv, UNCHANGED apmon_vars
        PROVE  KillInv'
    BY <2>2 DEF KillInv, apmon_vars, ap_vars
  <2> QED
    BY <2>1, <2>2
<1>4. ApInv /\ KillInv => KillHolds
  <2>1. ApInv => NAV_PERIOD > ap_tick % NAV_PERIOD
    BY ApAssumption, ModMax DEF ApInv, ApTypeOK
  <2> QED
    BY <2>1 DEF KillInv, KillHolds
<1> QED
  BY <1>1, <1>2, <1>3, <1>4, PTL DEF ApMonSpec

-----------------------------------------------------------------------------
(* The distance the check of the second uses is one navigation old at most,   *)
(* and a second that begins with an aircraft known to be gone kills it.      *)
GoneInv ==
  /\ gone_for \in 0 .. KillDelay
  /\ gone_for > 0 => Gone
  /\ gone_for > ap_tick % NAV_PERIOD => home_dist = "gone"
  /\ gone_for > NAV_PERIOD + ap_tick => kill_throttle

LEMMA GoneForStep ==
  ASSUME gone_for \in 0 .. KillDelay,
         gone_for' = Lasted(gone_for, Gone' /\ ~Pardoned, KillDelay)
  PROVE  /\ gone_for' \in 0 .. KillDelay
         /\ gone_for' > 0 => Gone' /\ ~Pardoned
         /\ gone_for' <= gone_for + 1
         /\ ap_tick' = ap_tick => gone_for' <= gone_for
BY ApAssumption DEF Lasted, KillDelay

LEMMA TickGone ==
  ASSUME ApTypeOK, GoneInv, periodic_task_ap,
         gone_for' = Lasted(gone_for, Gone' /\ ~Pardoned, KillDelay)
  PROVE  GoneInv'
<1>1. /\ gone_for' \in 0 .. KillDelay /\ gone_for' <= gone_for + 1
      /\ gone_for' > 0 => Gone' /\ ~Pardoned
  BY GoneForStep DEF GoneInv
<1>2. /\ \/ ap_tick' % NAV_PERIOD = 0
         \/ ap_tick' % NAV_PERIOD = (ap_tick % NAV_PERIOD) + 1
      /\ ap_tick' = 0 \/ ap_tick' = ap_tick + 1
  BY TickRemainder DEF ApTypeOK, periodic_task_ap
<1>3. /\ ap_tick % NAV_PERIOD \in 0 .. NAV_PERIOD - 1
      /\ ap_tick \in Nat /\ NAV_PERIOD \in Nat /\ NAV_PERIOD > 0 /\ gone_for \in Nat
  BY ApAssumption, ModMax DEF ApTypeOK, GoneInv
<1>4. gone_for' > ap_tick' % NAV_PERIOD => home_dist' = "gone"
  <2>1. CASE ap_tick' % NAV_PERIOD = 0
    <3>1. navigation_task(Killed(ap_tick' = 0)) /\ UNCHANGED ap_world
      BY <2>1 DEF periodic_task_ap
    <3>2. Gone' => home_dist' = "gone"
      BY <3>1 DEF navigation_task, Gone, ap_world
    <3>3. QED
      BY <1>1, <2>1, <3>2
  <2>2. CASE /\ ap_tick' % NAV_PERIOD # 0
             /\ ap_tick' % NAV_PERIOD = (ap_tick % NAV_PERIOD) + 1
    <3>1. home_dist' = home_dist
      BY <2>2 DEF periodic_task_ap
    <3>2. QED
      BY <1>1, <1>3, <2>2, <3>1 DEF GoneInv
  <2>3. QED
    BY <1>2, <2>1, <2>2
<1>5. gone_for' > NAV_PERIOD + ap_tick' => kill_throttle'
  <2> SUFFICES ASSUME gone_for' > NAV_PERIOD + ap_tick'
               PROVE  kill_throttle'
    OBVIOUS
  <2>1. ~Pardoned /\ NextTick
    BY <1>1, <1>2, <1>3 DEF periodic_task_ap
  <2>2. CASE ap_tick' = 0
    <3>1. gone_for >= NAV_PERIOD
      BY <1>1, <1>3, <2>2
    <3>2. launch /\ home_dist = "gone"
      BY <1>3, <3>1 DEF GoneInv, Gone
    <3>3. Killed(TRUE)
      BY <3>2 DEF Killed
    <3>4. QED
      BY <2>1, <2>2, <3>3 DEF Pardoned
  <2>3. CASE ap_tick' = ap_tick + 1
    <3>1. kill_throttle
      BY <1>1, <1>3, <2>3 DEF GoneInv
    <3>2. QED
      BY <2>1, <3>1 DEF Pardoned
  <2>4. QED
    BY <1>2, <2>2, <2>3
<1> QED
  BY <1>1, <1>4, <1>5 DEF GoneInv

LEMMA OtherStepGone ==
  ASSUME ApTypeOK, GoneInv, Telecommand \/ GroundSetting \/ ApWorld,
         gone_for' = Lasted(gone_for, Gone' /\ ~Pardoned, KillDelay)
  PROVE  GoneInv'
<1>1. ap_tick' = ap_tick /\ home_dist' = home_dist
  BY DEF Telecommand, telecommand_task, GroundSetting, ApWorld
<1>2. /\ gone_for' \in 0 .. KillDelay /\ gone_for' <= gone_for
      /\ gone_for' > 0 => Gone' /\ ~Pardoned
  BY <1>1, GoneForStep DEF GoneInv
<1>3. /\ ap_tick % NAV_PERIOD \in Nat /\ ap_tick \in Nat /\ NAV_PERIOD \in Nat
      /\ gone_for \in Nat
  BY ApAssumption, ModMax DEF ApTypeOK, GoneInv
<1>4. gone_for' > NAV_PERIOD + ap_tick' => kill_throttle'
  <2> SUFFICES ASSUME gone_for' > NAV_PERIOD + ap_tick'
               PROVE  kill_throttle'
    OBVIOUS
  <2>1. gone_for' > 0 /\ gone_for > NAV_PERIOD + ap_tick
    BY <1>1, <1>2, <1>3
  <2>2. kill_throttle
    BY <2>1 DEF GoneInv
  <2> QED
    BY <1>2, <2>1, <2>2, Zenon DEF Pardoned
<1> QED
  BY <1>1, <1>2, <1>3, <1>4 DEF GoneInv

(* Past the kill distance the motor is killed within a second and one         *)
(* navigation period, in every build and for every set of settings.          *)
THEOREM GoneIsKilled == ApMonSpec => []GoneKills
<1>1. ApMonInit => ApInv /\ GoneInv
  <2>1. ASSUME ApInit, gone_for = 0
        PROVE  GoneInv
    <3>1. ap_tick % NAV_PERIOD \in Nat /\ 0 \in 0 .. KillDelay /\ ap_tick = 0
      BY <2>1, ApAssumption, ModMax DEF ApInit, KillDelay
    <3> QED
      BY <2>1, <3>1, ApAssumption DEF GoneInv
  <2> QED
    BY <2>1, InitInv DEF ApMonInit
<1>2. ApInv /\ [ApMonNext]_apmon_vars => ApInv'
  BY MonStep, TelecommandInv, PeriodicInv, SettingInv, WorldInv, StutterInv
  DEF ApNext
<1>3. ApInv /\ GoneInv /\ [ApMonNext]_apmon_vars => GoneInv'
  <2>1. ASSUME ApInv, GoneInv, ApMonNext
        PROVE  GoneInv'
    BY <2>1, TickGone, OtherStepGone DEF ApMonNext, ApNext, ApInv
  <2>2. ASSUME GoneInv, UNCHANGED apmon_vars
        PROVE  GoneInv'
    BY <2>2 DEF GoneInv, Gone, apmon_vars, ap_vars, ap_modes, ap_world
  <2> QED
    BY <2>1, <2>2
<1>4. ApInv /\ GoneInv => GoneKills
  BY ApAssumption DEF ApInv, ApTypeOK, GoneInv, GoneKills, KillDelay
<1> QED
  BY <1>1, <1>2, <1>3, <1>4, PTL DEF ApMonSpec

-----------------------------------------------------------------------------
(* The firmware.  The operations of its FBW are Fbw's own.                  *)
LEMMA SameTick == periodic_task_fbw <=> F!periodic_task_fbw
BY DEF periodic_task_fbw, radio_control_periodic_task, inter_mcu_periodic_task,
       F!periodic_task_fbw, F!radio_control_periodic_task,
       F!inter_mcu_periodic_task, FBW_MODE_MANUAL, FBW_MODE_AUTO,
       FBW_MODE_FAILSAFE, F!FBW_MODE_MANUAL, F!FBW_MODE_AUTO,
       F!FBW_MODE_FAILSAFE, RC_LOST, RC_REALLY_LOST, F!RC_LOST, F!RC_REALLY_LOST

LEMMA SameFrame == RadioFrame <=> F!RadioFrame
BY DEF RadioFrame, RcFrameCounted, RcFrameAccepted, handle_rc_frame,
       FBW_MODE_OF_PPRZ, fbw_own, inter_mcu_vars, RC_OK, TRESHOLD1,
       F!RadioFrame, F!RcFrameCounted, F!RcFrameAccepted, F!handle_rc_frame,
       F!FBW_MODE_OF_PPRZ, F!fbw_own, F!inter_mcu_vars, F!RC_OK, F!TRESHOLD1,
       FBW_MODE_MANUAL, FBW_MODE_AUTO, F!FBW_MODE_MANUAL, F!FBW_MODE_AUTO

LEMMA SameMessage == ApMessage <=> F!ApMessage
BY DEF ApMessage, inter_mcu_event_task, inter_mcu_fill_fbw_state, rc_vars,
       F!ApMessage, F!inter_mcu_event_task, F!inter_mcu_fill_fbw_state,
       F!rc_vars, RC_OK, RC_REALLY_LOST, F!RC_OK, F!RC_REALLY_LOST,
       FBW_MODE_AUTO, FBW_MODE_FAILSAFE, F!FBW_MODE_AUTO, F!FBW_MODE_FAILSAFE

(* A step that leaves what the FBW keeps, as seen by Fbw.                    *)
LEMMA SameVars ==
  ASSUME UNCHANGED <<rc_vars, inter_mcu_vars, fbw_own, tick_due>>,
         FbwLoopAt' = FbwLoopAt
  PROVE  UNCHANGED F!fbw_vars
BY DEF rc_vars, inter_mcu_vars, fbw_own, F!rc_vars, F!inter_mcu_vars, F!fbw_own,
       F!fbw_vars

Mailboxes == inter_mcu_received_fbw \in BOOLEAN /\ inter_mcu_received_ap \in BOOLEAN

LEMMA MailboxStep ==
  ASSUME Mailboxes, [FwNext]_fw_vars
  PROVE  Mailboxes'
BY DEF Mailboxes, FwNext, FwMainLoop, FbwTick, periodic_task_fbw, ApTick,
       SendToFbw, FbwRadio, PollRadio, RadioFrame, FbwLink, ApMessage,
       inter_mcu_event_task, ApEvent, ApDatalink, World, ClockTick,
       inter_mcu_vars, fbw_vars, fw_vars

LEMMA LoopStep ==
  ASSUME Mailboxes, [FwNext]_fw_vars
  PROVE  [F!FbwNext]_F!fbw_vars
<1>1. CASE FbwTick
  <2>1. FbwLoopAt = "periodic" /\ FbwLoopAt' = "radio"
    BY <1>1 DEF FbwTick, FbwLoopAt
  <2>2. F!PollTick
    BY <1>1, <2>1, SameTick
       DEF FbwTick, F!PollTick, rc_vars, inter_mcu_vars, fbw_own, F!rc_vars,
           F!inter_mcu_vars, F!fbw_own
  <2>3. QED
    BY <2>2 DEF F!FbwNext, F!MainLoop
<1>2. CASE ApTick
  <2>1. FbwLoopAt' = FbwLoopAt
    BY <1>2 DEF ApTick, FbwLoopAt
  <2>2. /\ UNCHANGED <<rc_vars, fbw_own, tick_due, inter_mcu_received_fbw,
                       fbw_state, ap_ok, time_since_last_ap>>
        /\ inter_mcu_received_ap' = TRUE \/ UNCHANGED inter_mcu_received_ap
    BY <1>2 DEF ApTick, SendToFbw, Mailboxes
  <2>3. CASE inter_mcu_received_ap' = TRUE
    <3>1. F!ApSends
      BY <2>1, <2>2, <2>3 DEF F!ApSends, rc_vars, fbw_own, F!rc_vars, F!fbw_own
    <3>2. QED
      BY <3>1 DEF F!FbwNext
  <2>4. CASE UNCHANGED inter_mcu_received_ap
    BY <2>1, <2>2, <2>4, SameVars DEF inter_mcu_vars
  <2>5. QED
    BY <2>2, <2>3, <2>4
<1>3. CASE FbwRadio
  <2>1. FbwLoopAt = "radio" /\ FbwLoopAt' = "link"
    BY <1>3 DEF FbwRadio, PollRadio, FbwLoopAt
  <2>2. F!PollRadio
    BY <1>3, <2>1, SameFrame
       DEF FbwRadio, PollRadio, F!PollRadio, rc_vars, inter_mcu_vars, fbw_own,
           F!rc_vars, F!inter_mcu_vars, F!fbw_own
  <2>3. QED
    BY <2>2 DEF F!FbwNext, F!MainLoop
<1>4. CASE FbwLink
  <2>1. FbwLoopAt = "link" /\ FbwLoopAt' = "periodic"
    BY <1>4 DEF FbwLink, FbwLoopAt
  <2>2. F!PollLink
    BY <1>4, <2>1, SameMessage
       DEF FbwLink, F!PollLink, rc_vars, inter_mcu_vars, fbw_own,
           F!rc_vars, F!inter_mcu_vars, F!fbw_own
  <2>3. QED
    BY <2>2 DEF F!FbwNext, F!MainLoop
<1>5. CASE ApEvent
  <2>1. FbwLoopAt' = FbwLoopAt
    BY <1>5 DEF ApEvent, FbwLoopAt
  <2>2. /\ UNCHANGED <<rc_vars, fbw_own, tick_due, inter_mcu_received_ap,
                       fbw_state, ap_ok, time_since_last_ap>>
        /\ inter_mcu_received_fbw' = FALSE
    BY <1>5 DEF ApEvent
  <2>3. CASE inter_mcu_received_fbw
    <3>1. F!ApReads
      BY <2>1, <2>2, <2>3 DEF F!ApReads, rc_vars, fbw_own, F!rc_vars, F!fbw_own
    <3>2. QED
      BY <3>1 DEF F!FbwNext
  <2>4. CASE inter_mcu_received_fbw = FALSE
    BY <2>1, <2>2, <2>4, SameVars DEF inter_mcu_vars
  <2>5. QED
    BY <2>3, <2>4 DEF Mailboxes
<1>6. CASE World
  <2>1. CASE ClockTick
    BY <2>1 DEF ClockTick, F!FbwNext, F!ClockTick, FbwLoopAt, rc_vars,
                inter_mcu_vars, fbw_own, F!rc_vars, F!inter_mcu_vars, F!fbw_own
  <2>2. CASE UNCHANGED fbw_vars
    <3>1. FbwLoopAt' = FbwLoopAt
      BY <2>2 DEF fbw_vars, FbwLoopAt
    <3>2. QED
      BY <2>2, <3>1, SameVars DEF fbw_vars
  <2>3. QED
    BY <1>6, <2>1, <2>2 DEF World
<1>7. CASE ApDatalink \/ UNCHANGED fw_vars
  <2>1. FbwLoopAt' = FbwLoopAt
    BY <1>7 DEF ApDatalink, fw_vars, fbw_vars, FbwLoopAt
  <2>2. QED
    BY <1>7, <2>1, SameVars DEF ApDatalink, fw_vars, fbw_vars
<1>8. QED
  BY <1>1, <1>2, <1>3, <1>4, <1>5, <1>6, <1>7 DEF FwNext, FwMainLoop

(* Whatever is true of Fbw with an arbitrary AP is true of the firmware: the   *)
(* main loop with both processes is a behaviour of Fbw (the safety part of   *)
(* FbwImplemented).                                                         *)
THEOREM FirmwareImplementsFbw == FwSpec => F!FbwSafety
<1>1. FwInit => F!FbwInit /\ Mailboxes
  BY DEF FwInit, FbwInit, F!FbwInit, radio_control_init, F!radio_control_init,
         inter_mcu_init, F!inter_mcu_init, FbwLoopAt, Mailboxes, RC_REALLY_LOST,
         F!RC_REALLY_LOST, FBW_MODE_FAILSAFE, F!FBW_MODE_FAILSAFE
<1>2. Mailboxes /\ [FwNext]_fw_vars => Mailboxes' /\ [F!FbwNext]_F!fbw_vars
  BY MailboxStep, LoopStep
<1> QED
  BY <1>1, <1>2, PTL DEF FwSpec, F!FbwSafety

-----------------------------------------------------------------------------
(* How long the FBW may not have heard the AP, as a bound on its counter at    *)
(* each place of the loop.                                                  *)
SinceControl == ap_tick % CTL_PERIOD

HeardInv ==
  /\ ap_tick \in 0 .. SEC_PERIOD - 1
  /\ time_since_last_ap \in Nat
  /\ loop_at \in {"periodic", "periodic_ap", "radio", "link", "event_ap"}
  /\ ap_ok =>
       /\ time_since_last_ap <= CTL_PERIOD
       /\ loop_at \in {"periodic", "event_ap"} =>
            time_since_last_ap <= SinceControl
       /\ loop_at = "periodic_ap" => time_since_last_ap <= SinceControl + 1
       /\ loop_at \in {"radio", "link"} =>
            inter_mcu_received_ap \/ time_since_last_ap <= SinceControl

LEMMA ControlRemainder ==
  ASSUME ap_tick \in 0 .. SEC_PERIOD - 1, NextTick
  PROVE  /\ ap_tick' \in 0 .. SEC_PERIOD - 1
         /\ SinceControl' = 0 \/ SinceControl' = SinceControl + 1
<1>1. ap_tick \in Nat /\ CTL_PERIOD \in Nat \ {0} /\ SEC_PERIOD \in Nat \ {0}
  BY ApAssumption
<1>2. ap_tick' \in 0 .. SEC_PERIOD - 1
  BY <1>1, ModMax DEF NextTick
<1>3. CASE ap_tick' = 0
  <2>1. 0 = CTL_PERIOD * 0 + 0 /\ 0 \in 0 .. CTL_PERIOD - 1
    BY <1>1
  <2>2. 0 % CTL_PERIOD = 0
    BY <2>1, <1>1, ModUnique
  <2>3. QED
    BY <1>2, <1>3, <2>2 DEF SinceControl
<1>4. CASE ap_tick' = ap_tick + 1
  <2>1. \/ (ap_tick + 1) % CTL_PERIOD = 0
        \/ (ap_tick + 1) % CTL_PERIOD = (ap_tick % CTL_PERIOD) + 1
    BY <1>1, ModNext
  <2>2. QED
    BY <1>2, <1>4, <2>1 DEF SinceControl
<1>5. QED
  BY <1>3, <1>4, TickRemainder

LEMMA ControlBound ==
  ASSUME ap_tick \in 0 .. SEC_PERIOD - 1
  PROVE  /\ SinceControl \in Nat /\ SinceControl < CTL_PERIOD
         /\ SinceControl < AP_STALLED_TIME
         /\ CTL_PERIOD \in Nat /\ AP_STALLED_TIME \in Nat
BY ApAssumption, ApStalledAssumption, FixedWingAssumption, ModMax DEF SinceControl

(* The AP's own steps that are no ticks leave the prescalers alone.          *)
LEMMA TickKept ==
  ASSUME Telecommand \/ GroundSetting \/ ApWorld \/ UNCHANGED ap_vars
  PROVE  ap_tick' = ap_tick
BY DEF Telecommand, telecommand_task, GroundSetting, ApWorld, ap_vars

(* The FBW's tick: the AP has been heard too recently for the watchdog.       *)
LEMMA FbwTickHeard ==
  ASSUME HeardInv, FbwTick
  PROVE  HeardInv' /\ (ap_ok => ap_ok')
<1>1. ap_tick' = ap_tick /\ SinceControl' = SinceControl
  BY DEF FbwTick, ap_vars, SinceControl
<1>2. CASE tick_due
  <2>1. /\ loop_at = "periodic" /\ loop_at' = "periodic_ap"
        /\ inter_mcu_periodic_task
    BY <1>2 DEF FbwTick, periodic_task_fbw
  <2>2. ap_ok => time_since_last_ap <= SinceControl
    BY <2>1 DEF HeardInv
  <2>3. ap_ok => ap_ok' /\ time_since_last_ap' = time_since_last_ap + 1
    <3>1. ap_ok => ~(time_since_last_ap >= AP_STALLED_TIME)
      BY <2>2, ControlBound DEF HeardInv
    <3>2. QED
      BY <2>1, <3>1, Zenon DEF inter_mcu_periodic_task
  <2>4. ap_ok' => ap_ok
    BY <2>1 DEF inter_mcu_periodic_task
  <2>5. time_since_last_ap' \in Nat
    BY <2>1 DEF inter_mcu_periodic_task, HeardInv
  <2>6. QED
    BY <1>1, <2>1, <2>2, <2>3, <2>4, <2>5, ControlBound DEF HeardInv
<1>3. CASE ~tick_due
  BY <1>1, <1>3 DEF FbwTick, inter_mcu_vars, HeardInv
<1>4. QED
  BY <1>2, <1>3

(* The AP's tick: at the end of a control period the mailbox is filled.       *)
LEMMA ApTickHeard ==
  ASSUME HeardInv, ApTick
  PROVE  HeardInv' /\ (ap_ok => ap_ok')
<1>1. /\ loop_at = "periodic_ap" /\ loop_at' = "radio"
      /\ time_since_last_ap' = time_since_last_ap /\ ap_ok' = ap_ok
      /\ inter_mcu_received_ap' = (inter_mcu_received_ap \/ SinceControl' = 0)
  BY DEF ApTick, SendToFbw, SinceControl
<1>2. /\ ap_tick' \in 0 .. SEC_PERIOD - 1
      /\ SinceControl' = 0 \/ SinceControl' = SinceControl + 1
  BY ControlRemainder DEF ApTick, periodic_task_ap, HeardInv
<1>3. ap_ok => time_since_last_ap <= SinceControl + 1 /\ time_since_last_ap <= CTL_PERIOD
  BY <1>1 DEF HeardInv
<1>4. QED
  BY <1>1, <1>2, <1>3 DEF HeardInv

(* The radio, the mailbox and the AP's events.                              *)
LEMMA PollsHeard ==
  ASSUME HeardInv, FbwRadio \/ FbwLink \/ ApEvent
  PROVE  HeardInv' /\ (ap_ok => ap_ok')
<1>1. ap_tick' = ap_tick /\ SinceControl' = SinceControl
  <2>1. ap_tick' = ap_tick
    BY TickKept DEF FbwRadio, FbwLink, ApEvent, ap_vars, telecommand_task
  <2>2. QED
    BY <2>1 DEF SinceControl
<1>2. CASE FbwRadio
  <2>1. /\ loop_at = "radio" /\ loop_at' = "link" /\ UNCHANGED inter_mcu_vars
    BY <1>2 DEF FbwRadio, PollRadio, RadioFrame
  <2>2. QED
    BY <1>1, <2>1 DEF inter_mcu_vars, HeardInv
<1>3. CASE FbwLink /\ inter_mcu_received_ap
  <2>1. /\ loop_at' = "event_ap" /\ time_since_last_ap' = 0 /\ ap_ok' = TRUE
    BY <1>3 DEF FbwLink, ApMessage, inter_mcu_event_task
  <2>2. QED
    BY <1>1, <2>1, ControlBound DEF HeardInv
<1>4. CASE FbwLink /\ ~inter_mcu_received_ap
  <2>1. /\ loop_at = "link" /\ loop_at' = "event_ap" /\ UNCHANGED inter_mcu_vars
    BY <1>4 DEF FbwLink
  <2>2. QED
    BY <1>1, <1>4, <2>1 DEF inter_mcu_vars, HeardInv
<1>5. CASE ApEvent
  BY <1>1, <1>5 DEF ApEvent, HeardInv
<1>6. QED
  BY <1>2, <1>3, <1>4, <1>5

LEMMA HeardStep ==
  ASSUME HeardInv, [FwNext]_fw_vars
  PROVE  HeardInv' /\ (ap_ok => ap_ok')
<1>1. CASE ApDatalink \/ World \/ UNCHANGED fw_vars
  <2>1. ap_tick' = ap_tick /\ SinceControl' = SinceControl
    <3>1. ap_tick' = ap_tick
      BY <1>1, TickKept DEF ApDatalink, World, fw_vars
    <3>2. QED
      BY <3>1 DEF SinceControl
  <2>2. UNCHANGED <<loop_at, inter_mcu_vars>>
    BY <1>1 DEF ApDatalink, World, ClockTick, fw_vars, fbw_vars
  <2>3. QED
    BY <2>1, <2>2 DEF inter_mcu_vars, HeardInv
<1>2. QED
  BY <1>1, FbwTickHeard, ApTickHeard, PollsHeard DEF FwNext, FwMainLoop

(* On one processor the AP never falls silent on its own, whatever the        *)
(* periods, as long as the watchdog outlasts a control period.               *)
THEOREM ApIsNeverStalled == FwSpec => ApNeverStalls
<1>1. FwInit => HeardInv
  BY ApAssumption DEF FwInit, FbwInit, inter_mcu_init, ApInit, HeardInv
<1>2. HeardInv /\ [FwNext]_fw_vars => HeardInv'
  BY HeardStep
<1>3. HeardInv /\ [FwNext]_fw_vars
        => [ap_ok => ap_ok' /\ time_since_last_ap' <= CTL_PERIOD]_fw_vars
  BY HeardStep DEF HeardInv
<1> QED
  BY <1>1, <1>2, <1>3, PTL DEF FwSpec, ApNeverStalls
-----------------------------------------------------------------------------
(* The AP's side of the composition.  All a report may say is what Ap expects.  *)
FbwTells ==
  /\ fbw_mode \in FbwModes /\ rc_mode \in RadioModeValues \cup {0}
  /\ fbw_mode = FBW_MODE_MANUAL => rc_status # RC_REALLY_LOST
  /\ fbw_state \in FbwState /\ ~(fbw_state.radio_ok /\ fbw_state.really_lost)

LEMMA FbwConstants ==
  /\ FBW_MODE_MANUAL # FBW_MODE_AUTO /\ FBW_MODE_MANUAL # FBW_MODE_FAILSAFE
  /\ FBW_MODE_AUTO # FBW_MODE_FAILSAFE
  /\ FbwModes = {FBW_MODE_MANUAL, FBW_MODE_AUTO, FBW_MODE_FAILSAFE}
  /\ RC_OK # RC_REALLY_LOST
BY DEF FBW_MODE_MANUAL, FBW_MODE_AUTO, FBW_MODE_FAILSAFE, FbwModes, RC_OK,
       RC_REALLY_LOST

LEMMA TickTells ==
  ASSUME FbwTells, periodic_task_fbw
  PROVE  FbwTells'
BY FbwConstants DEF FbwTells, periodic_task_fbw

LEMMA FrameTells ==
  ASSUME FbwTells, RadioFrame
  PROVE  FbwTells'
<1>1. UNCHANGED fbw_state
  BY DEF RadioFrame, inter_mcu_vars
<1>2. CASE RcFrameCounted /\ UNCHANGED fbw_own
  BY <1>1, <1>2 DEF RcFrameCounted, fbw_own, FbwTells
<1>3. CASE RcFrameAccepted /\ \E v \in RadioModeValues : handle_rc_frame(v)
  BY <1>1, <1>3, FbwConstants
     DEF RcFrameAccepted, handle_rc_frame, FBW_MODE_OF_PPRZ, FbwTells
<1>4. QED
  BY <1>2, <1>3 DEF RadioFrame

LEMMA MessageTells ==
  ASSUME FbwTells, ApMessage
  PROVE  FbwTells'
<1>1. /\ fbw_mode' \in FbwModes /\ rc_mode' = rc_mode
      /\ fbw_mode' = FBW_MODE_MANUAL => rc_status' # RC_REALLY_LOST
  BY FbwConstants DEF ApMessage, rc_vars, FbwTells
<1>2. fbw_state' = [mode_channel  |-> rc_mode',
                    radio_ok      |-> rc_status' = RC_OK,
                    really_lost   |-> rc_status' = RC_REALLY_LOST,
                    mode_auto     |-> fbw_mode' = FBW_MODE_AUTO,
                    mode_failsafe |-> fbw_mode' = FBW_MODE_FAILSAFE]
  BY DEF ApMessage, inter_mcu_fill_fbw_state
<1>3. fbw_state' \in FbwState
  BY <1>1, <1>2 DEF FbwState, FbwTells
<1>4. ~(fbw_state'.radio_ok /\ fbw_state'.really_lost)
  BY <1>2, FbwConstants
<1>5. QED
  BY <1>1, <1>3, <1>4 DEF FbwTells

LEMMA TellsStep ==
  ASSUME FbwTells, [FwNext]_fw_vars
  PROVE  FbwTells'
<1>1. CASE UNCHANGED <<rc_vars, fbw_own, fbw_state>>
  BY <1>1 DEF rc_vars, fbw_own, FbwTells
<1>2. CASE periodic_task_fbw \/ RadioFrame \/ ApMessage
  BY <1>2, TickTells, FrameTells, MessageTells
<1>3. CASE ~(periodic_task_fbw \/ RadioFrame \/ ApMessage)
  BY <1>1, <1>3
     DEF FwNext, FwMainLoop, FbwTick, ApTick, FbwRadio, PollRadio, FbwLink,
         ApEvent, ApDatalink, World, ClockTick, fw_vars, fbw_vars,
         inter_mcu_vars
<1>4. QED
  BY <1>2, <1>3

(* The report in the mailbox is one of those Ap expects.                     *)
Report(high) == [mode_channel  |-> fbw_state.mode_channel,
                 radio_ok      |-> fbw_state.radio_ok,
                 really_lost   |-> fbw_state.really_lost,
                 throttle_high |-> high]

LEMMA ReportIsExpected ==
  ASSUME FbwTells, NEW high \in BOOLEAN
  PROVE  Report(high) \in Telecommands
BY DEF FbwTells, FbwState, Report, Telecommands

LEMMA EventIsTelecommand ==
  ASSUME FbwTells, ApEvent
  PROVE  IF inter_mcu_received_fbw
           THEN \E high \in BOOLEAN : telecommand_task(Report(high))
           ELSE UNCHANGED ap_vars
BY Zenon DEF ApEvent, Report

LEMMA ApStep ==
  ASSUME FbwTells, [FwNext]_fw_vars
  PROVE  [ApNext]_ap_vars
<1>1. CASE ApEvent
  <2>1. CASE inter_mcu_received_fbw
    <3>1. PICK high \in BOOLEAN : telecommand_task(Report(high))
      BY <1>1, <2>1, EventIsTelecommand
    <3>2. Telecommand
      BY <3>1, ReportIsExpected DEF Telecommand
    <3>3. QED
      BY <3>2 DEF ApNext
  <2>2. CASE ~inter_mcu_received_fbw
    BY <1>1, <2>2, EventIsTelecommand
  <2>3. QED
    BY <2>1, <2>2
<1>2. CASE ApTick
  BY <1>2 DEF ApTick, ApNext
<1>3. CASE FbwTick \/ FbwRadio \/ FbwLink
  BY <1>3 DEF FbwTick, FbwRadio, FbwLink
<1>4. CASE ApDatalink \/ World \/ UNCHANGED fw_vars
  BY <1>4 DEF ApDatalink, World, fw_vars, ApNext
<1>5. QED
  BY <1>1, <1>2, <1>3, <1>4 DEF FwNext, FwMainLoop

LEMMA TellsInvariant == FwSpec => []FbwTells
<1>1. FwInit => FbwTells
  BY FbwConstants DEF FwInit, FbwInit, radio_control_init, inter_mcu_init,
     FbwTells, FbwState
<1>2. FbwTells /\ [FwNext]_fw_vars => FbwTells'
  BY TellsStep
<1>3. QED
  BY <1>1, <1>2, PTL DEF FwSpec

(* Every behaviour of the firmware is also one of the AP with arbitrary reports  *)
(* of the FBW (event_task_ap reads what inter_mcu_fill_fbw_state wrote): what   *)
(* is proved of Ap holds of the whole.                                       *)
THEOREM FirmwareImplementsAp == FwSpec => ApSafety
<1>1. FwInit => ApInit
  BY DEF FwInit
<1>2. FbwTells /\ [FwNext]_fw_vars => [ApNext]_ap_vars
  BY ApStep
<1>3. QED
  BY <1>1, <1>2, TellsInvariant, PTL DEF FwSpec, ApSafety

(* On the firmware, too, a locked HOME is for ever.                           *)
THEOREM FirmwareHomeForever ==
  ASSUME Locked
  PROVE  FwSpec => HomeIsForever
BY FirmwareImplementsAp, HomeForever
-----------------------------------------------------------------------------
(* FAILSAFE means that the AP has not been heard.                             *)
FailsafeUnheard == fbw_mode = FBW_MODE_FAILSAFE => ap_ok = FALSE

LEMMA UnheardStep ==
  ASSUME FailsafeUnheard, ap_ok \in BOOLEAN, [FwNext]_fw_vars
  PROVE  FailsafeUnheard' /\ ap_ok' \in BOOLEAN
<1>1. CASE UNCHANGED <<fbw_mode, ap_ok>>
  BY <1>1 DEF FailsafeUnheard
<1>2. CASE periodic_task_fbw
  <2>1. ap_ok' = ap_ok \/ ap_ok' = FALSE
    BY <1>2 DEF periodic_task_fbw, inter_mcu_periodic_task
  <2>2. CASE fbw_mode = FBW_MODE_FAILSAFE
    BY <2>1, <2>2 DEF FailsafeUnheard
  <2>3. CASE fbw_mode # FBW_MODE_FAILSAFE
    BY <1>2, <2>1, <2>3, FbwConstants DEF periodic_task_fbw, FailsafeUnheard
  <2>4. QED
    BY <2>1, <2>2, <2>3
<1>3. CASE ApMessage
  BY <1>3, FbwConstants
     DEF ApMessage, inter_mcu_event_task, FailsafeUnheard
<1>4. CASE RadioFrame
  <2>1. ap_ok' = ap_ok
    BY <1>4 DEF RadioFrame, inter_mcu_vars
  <2>2. fbw_mode' = fbw_mode \/ fbw_mode' # FBW_MODE_FAILSAFE
    BY <1>4, FbwConstants
       DEF RadioFrame, handle_rc_frame, FBW_MODE_OF_PPRZ, fbw_own
  <2>3. QED
    BY <2>1, <2>2 DEF FailsafeUnheard
<1>5. CASE ~(periodic_task_fbw \/ RadioFrame \/ ApMessage)
  BY <1>1, <1>5
     DEF FwNext, FwMainLoop, FbwTick, ApTick, FbwRadio, PollRadio, FbwLink,
         ApEvent, ApDatalink, World, ClockTick, fw_vars, fbw_vars, fbw_own,
         inter_mcu_vars
<1>6. QED
  BY <1>2, <1>3, <1>4, <1>5

(* On one processor FAILSAFE is the time before the AP's first message and does  *)
(* not come back: what would bring it back, a stalled AP, cannot happen         *)
(* (periodic_task_fbw, inter_mcu_periodic_task and the prescaler of the         *)
(* control loop).                                                           *)
THEOREM FailsafeIsOver ==
  FwSpec => [](ap_ok => [](fbw_mode # FBW_MODE_FAILSAFE))
<1> DEFINE Inv == HeardInv /\ FailsafeUnheard /\ ap_ok \in BOOLEAN
<1>1. FwInit => Inv
  <2>1. FwInit => HeardInv
    BY ApAssumption DEF FwInit, FbwInit, inter_mcu_init, ApInit, HeardInv
  <2>2. FwInit => FailsafeUnheard /\ ap_ok \in BOOLEAN
    BY DEF FwInit, FbwInit, inter_mcu_init, FailsafeUnheard
  <2>3. QED
    BY <2>1, <2>2
<1>2. Inv /\ [FwNext]_fw_vars => Inv'
  BY HeardStep, UnheardStep
<1>3. Inv /\ ap_ok /\ [FwNext]_fw_vars => ap_ok'
  BY HeardStep
<1>4. Inv /\ ap_ok => fbw_mode # FBW_MODE_FAILSAFE
  BY DEF FailsafeUnheard
<1>5. QED
  BY <1>1, <1>2, <1>3, <1>4, PTL DEF FwSpec
-----------------------------------------------------------------------------
(* A pilot who is gone, through both processes.  The premise is that the       *)
(* control loop runs again and again, []<><<ControlRuns>>: what its prescaler  *)
(* counts is not proved.                                                    *)
ControlRuns == ApTick /\ ap_tick' % CTL_PERIOD = 0

PilotGone == launch /\ rc_status = RC_REALLY_LOST

(* What a GPS that returns gives back is a mode that flies by itself.          *)
SavedFlies == gps_lost => last_pprz_mode \in Autonomous

(* The way of the news: the AP's message waits for the poll of the radio and    *)
(* then for its own, the answer waits for the AP.                            *)
MessageWaits  == loop_at = "radio" /\ inter_mcu_received_ap
MessageIsNext == loop_at = "link" /\ inter_mcu_received_ap
AnswerWaits   == loop_at = "event_ap" /\ inter_mcu_received_fbw

(* The FBW obeys the AP, and tells it that the radio is lost.                 *)
Obeys ==
  /\ fbw_mode = FBW_MODE_AUTO /\ ap_ok
  /\ fbw_state.really_lost /\ ~fbw_state.radio_ok

Alone == pprz_mode \in Autonomous

LEMMA AloneModes ==
  /\ Autonomous = {PPRZ_MODE_AUTO2, PPRZ_MODE_HOME, PPRZ_MODE_GPS_OUT_OF_ORDER}
  /\ PprzModes = Autonomous \cup {PPRZ_MODE_MANUAL, PPRZ_MODE_AUTO1}
  /\ Failsafes \subseteq Autonomous
BY DEF Autonomous, PprzModes, SwitchModes, Failsafes

(* Only the switch and the ground take an aircraft out of the modes that fly    *)
(* by themselves.                                                           *)
LEMMA StaysAlone ==
  ASSUME SavedFlies, [ApNext]_ap_vars, "mode" \notin GroundSettings
  PROVE  SavedFlies' /\ (Alone /\ ~Telecommand => Alone')
<1>1. CASE GpsFailsafe
  BY <1>1, AloneModes DEF GpsFailsafe, SavedFlies, Alone
<1>2. CASE UNCHANGED <<pprz_mode, last_pprz_mode, gps_lost>>
  BY <1>2 DEF SavedFlies, Alone
<1>3. CASE Telecommand
  BY <1>3 DEF Telecommand, telecommand_task, SavedFlies
<1>4. CASE periodic_task_ap
  BY <1>1, <1>2, <1>4 DEF periodic_task_ap, navigation_task
<1>5. CASE GroundSetting \/ ApWorld \/ UNCHANGED ap_vars
  BY <1>2, <1>5 DEF GroundSetting, ApWorld, ap_vars, ap_modes
<1>6. QED
  BY <1>3, <1>4, <1>5 DEF ApNext

(* A report that the radio is lost ends the pilot's modes.                    *)
LEMMA LostReport ==
  ASSUME pprz_mode \in PprzModes, launch, NEW s \in Telecommands,
         telecommand_task(s), s.really_lost
  PROVE  Alone'
<1>1. ~s.radio_ok
  BY DEF Telecommands
<1>2. pprz_mode' = ModeAfterChecks(s)
  BY <1>1 DEF telecommand_task, pprz_mode_update
<1>3. ModeAfterChecks(s) \in Autonomous
  BY AloneModes, ApAssumption DEF ModeAfterChecks
<1>4. QED
  BY <1>2, <1>3 DEF Alone

LEMMA EventAlone ==
  ASSUME FbwTells, ApTypeOK, launch, Obeys, ApEvent,
         Alone \/ inter_mcu_received_fbw
  PROVE  Alone'
<1>1. CASE inter_mcu_received_fbw
  <2>1. PICK high \in BOOLEAN : telecommand_task(Report(high))
    BY <1>1, EventIsTelecommand
  <2>2. Report(high) \in Telecommands /\ Report(high).really_lost
    BY ReportIsExpected DEF Report, Obeys
  <2>3. QED
    BY <2>1, <2>2, LostReport DEF ApTypeOK
<1>2. CASE ~inter_mcu_received_fbw
  BY <1>2, EventIsTelecommand DEF ap_vars, ap_modes, Alone
<1>3. QED
  BY <1>1, <1>2

(* The message, when its turn comes, makes the FBW obey.                       *)
LEMMA MessageIsObeyed ==
  ASSUME FbwTells, PilotGone, PilotGone', ApMessage
  PROVE  Obeys' /\ inter_mcu_received_fbw'
<1>1. fbw_mode' = FBW_MODE_AUTO
  BY FbwConstants DEF FbwTells, PilotGone, ApMessage
<1>2. ap_ok' /\ inter_mcu_received_fbw'
  BY DEF ApMessage, inter_mcu_event_task
<1>3. fbw_state'.really_lost /\ ~fbw_state'.radio_ok
  BY FbwConstants DEF ApMessage, inter_mcu_fill_fbw_state, PilotGone
<1>4. QED
  BY <1>1, <1>2, <1>3 DEF Obeys

(* Without a radio frame nothing makes the FBW do anything else, for the AP is   *)
(* never stalled.                                                           *)
LEMMA ObeysStep ==
  ASSUME FbwTells, HeardInv, PilotGone, PilotGone', Obeys, [FwNext]_fw_vars
  PROVE  Obeys'
<1>1. ap_ok'
  BY HeardStep DEF Obeys
<1>2. CASE UNCHANGED <<fbw_mode, fbw_state>>
  BY <1>1, <1>2 DEF Obeys
<1>3. CASE periodic_task_fbw
  BY <1>1, <1>3, FbwConstants DEF periodic_task_fbw, Obeys
<1>4. CASE ApMessage
  BY <1>4, MessageIsObeyed
<1>5. CASE RadioFrame
  BY <1>2, <1>5, FbwConstants
     DEF RadioFrame, RcFrameAccepted, PilotGone, fbw_own, inter_mcu_vars
<1>6. CASE ~(periodic_task_fbw \/ RadioFrame \/ ApMessage)
  BY <1>2, <1>6
     DEF FwNext, FwMainLoop, FbwTick, ApTick, FbwRadio, PollRadio, FbwLink,
         ApEvent, ApDatalink, World, ClockTick, fw_vars, fbw_vars, fbw_own,
         inter_mcu_vars
<1>7. QED
  BY <1>3, <1>4, <1>5, <1>6

(* The news goes on with every turn of the loop, and only so.                  *)
LEMMA NewsMoves ==
  ASSUME FbwTells, ApTypeOK, PilotGone, PilotGone', [FwNext]_fw_vars
  PROVE  /\ ControlRuns => MessageWaits'
         /\ MessageWaits => IF FwMainLoop THEN MessageIsNext' ELSE MessageWaits'
         /\ MessageIsNext => IF FwMainLoop THEN Obeys' /\ AnswerWaits'
                             ELSE MessageIsNext'
         /\ AnswerWaits /\ Obeys => IF FwMainLoop THEN Alone' ELSE AnswerWaits'
<1>1. CASE ~FwMainLoop
  <2>1. UNCHANGED <<loop_at, inter_mcu_vars>>
    BY <1>1 DEF FwNext, ApDatalink, World, ClockTick, fw_vars, fbw_vars
  <2>2. ~ControlRuns
    BY <1>1 DEF ControlRuns, FwMainLoop
  <2>3. QED
    BY <1>1, <2>1, <2>2
       DEF MessageWaits, MessageIsNext, AnswerWaits, inter_mcu_vars
<1>2. CASE FbwTick
  BY <1>2 DEF FbwTick, ControlRuns, ApTick, MessageWaits, MessageIsNext,
     AnswerWaits
<1>3. CASE ApTick
  BY <1>3 DEF ApTick, SendToFbw, ControlRuns, MessageWaits, MessageIsNext,
     AnswerWaits
<1>4. CASE FbwRadio
  <2>1. loop_at = "radio" /\ loop_at' = "link" /\ UNCHANGED inter_mcu_vars
    BY <1>4 DEF FbwRadio, PollRadio, RadioFrame
  <2>2. FwMainLoop /\ ~ControlRuns
    BY <1>4, <2>1 DEF FwMainLoop, ControlRuns, ApTick
  <2>3. QED
    BY <2>1, <2>2
       DEF MessageWaits, MessageIsNext, AnswerWaits, inter_mcu_vars
<1>5. CASE FbwLink
  <2>1. loop_at = "link" /\ loop_at' = "event_ap"
    BY <1>5 DEF FbwLink
  <2>2. FwMainLoop /\ ~ControlRuns
    BY <1>5, <2>1 DEF FwMainLoop, ControlRuns, ApTick
  <2>3. inter_mcu_received_ap => Obeys' /\ inter_mcu_received_fbw'
    BY <1>5, MessageIsObeyed DEF FbwLink
  <2>4. QED
    BY <2>1, <2>2, <2>3 DEF MessageWaits, MessageIsNext, AnswerWaits
<1>6. CASE ApEvent
  <2>1. loop_at = "event_ap"
    BY <1>6 DEF ApEvent
  <2>2. FwMainLoop /\ ~ControlRuns
    BY <1>6, <2>1 DEF FwMainLoop, ControlRuns, ApTick
  <2>3. AnswerWaits /\ Obeys => Alone'
    BY <1>6, EventAlone DEF AnswerWaits, PilotGone
  <2>4. QED
    BY <2>1, <2>2, <2>3 DEF MessageWaits, MessageIsNext
<1>7. QED
  BY <1>1, <1>2, <1>3, <1>4, <1>5, <1>6 DEF FwMainLoop

(* Once the FBW obeys, the AP stays in the modes that fly by themselves.        *)
LEMMA AloneStep ==
  ASSUME FbwTells, ApTypeOK, SavedFlies, PilotGone, Obeys, Alone,
         [FwNext]_fw_vars, "mode" \notin GroundSettings
  PROVE  Alone'
<1>1. CASE ApEvent
  BY <1>1, EventAlone DEF PilotGone
<1>2. CASE ApTick
  BY <1>2, AloneModes
     DEF ApTick, periodic_task_ap, navigation_task, GpsFailsafe, SavedFlies,
         Alone
<1>3. CASE ~ApEvent /\ ~ApTick
  <2>1. UNCHANGED pprz_mode
    BY <1>3 DEF FwNext, FwMainLoop, FbwTick, FbwRadio, FbwLink, ApDatalink,
       GroundSetting, World, ApWorld, fw_vars, ap_vars, ap_modes
  <2>2. QED
    BY <2>1 DEF Alone
<1>4. QED
  BY <1>1, <1>2, <1>3

(* A launched aircraft whose radio is lost for good ends up under its autopilot  *)
(* on both sides: the message of the next control step makes the FBW obey and   *)
(* answer that the radio is lost, and the answer ends the pilot's modes        *)
(* (event_task_fbw, event_task_ap, in the order of main.c).                   *)
THEOREM LostPilotIsFlown ==
  ASSUME "mode" \notin GroundSettings
  PROVE  FwSpec /\ []<><<ControlRuns>>_fw_vars => LostPilotFliesHome
<1> DEFINE Inv  == FbwTells /\ HeardInv /\ ApTypeOK /\ SavedFlies
           Lost == launch /\ rc_status = RC_REALLY_LOST
           Home == fbw_mode = FBW_MODE_AUTO /\ pprz_mode \in Autonomous
           Told == AnswerWaits /\ Obeys
           Goal == Obeys /\ Alone
<1>1. FwSpec => []Inv
  <2>1. FwInit => HeardInv /\ SavedFlies
    BY ApAssumption
       DEF FwInit, FbwInit, inter_mcu_init, ApInit, HeardInv, SavedFlies
  <2>2. HeardInv /\ [FwNext]_fw_vars => HeardInv'
    BY HeardStep
  <2>3. FbwTells /\ SavedFlies /\ [FwNext]_fw_vars => SavedFlies'
    BY ApStep, StaysAlone
  <2>4. FwSpec => []ApTypeOK
    BY FirmwareImplementsAp, ApTypes
  <2>5. QED
    BY <2>1, <2>2, <2>3, <2>4, TellsInvariant, PTL DEF FwSpec
<1>2. Inv /\ Lost /\ Lost' /\ <<ControlRuns>>_fw_vars /\ [FwNext]_fw_vars
        => MessageWaits'
  BY NewsMoves DEF PilotGone
<1>3. <<ControlRuns>>_fw_vars => <<FwMainLoop>>_fw_vars
  BY DEF ControlRuns, FwMainLoop
<1>4. /\ Inv /\ Lost /\ Lost' /\ MessageWaits /\ [FwNext]_fw_vars
         => MessageWaits' \/ MessageIsNext'
      /\ Inv /\ Lost /\ Lost' /\ MessageWaits /\ <<FwMainLoop>>_fw_vars
           /\ [FwNext]_fw_vars => MessageIsNext'
  BY NewsMoves DEF PilotGone
<1>5. /\ Inv /\ Lost /\ Lost' /\ MessageIsNext /\ [FwNext]_fw_vars
         => MessageIsNext' \/ Told'
      /\ Inv /\ Lost /\ Lost' /\ MessageIsNext /\ <<FwMainLoop>>_fw_vars
           /\ [FwNext]_fw_vars => Told'
  BY NewsMoves DEF PilotGone
<1>6. /\ Inv /\ Lost /\ Lost' /\ Told /\ [FwNext]_fw_vars => Told' \/ Goal'
      /\ Inv /\ Lost /\ Lost' /\ Told /\ <<FwMainLoop>>_fw_vars
           /\ [FwNext]_fw_vars => Goal'
  BY NewsMoves, ObeysStep DEF PilotGone
<1>7. Inv /\ Lost /\ Lost' /\ Goal /\ [FwNext]_fw_vars => Goal'
  BY ObeysStep, AloneStep DEF PilotGone
<1>8. Goal => Home
  BY DEF Obeys, Alone
<1> HIDE DEF Inv, Lost, Home, Told, Goal
<1>9. FwSpec /\ []<><<ControlRuns>>_fw_vars => (<>[]Lost => <>[]Home)
  BY <1>1, <1>2, <1>3, <1>4, <1>5, <1>6, <1>7, <1>8, PTL DEF FwSpec
<1>10. QED
  BY <1>9 DEF LostPilotFliesHome, Lost, Home
=============================================================================
