------------------------------ MODULE GpsFix ------------------------------
(***************************************************************************)
(* When the u-blox receiver is switched on and tried (gps_ublox/gps.c),    *)
(* as the communication thread does it in each round, commands ask for it, *)
(* and the handler of the accelerometer does.  A first fix is cold and     *)
(* long; while its data are kept alive the next ones are hot and short.    *)
(* Fixes that fail are tried again, for a limited number of times.         *)
(*                                                                         *)
(* Time passes in units of which only comparisons matter.                  *)
(***************************************************************************)
EXTENDS Intervals, Sequences

CONSTANTS
    ColdMax,     \* the setting cold_fix_retry
    HotMax,      \* the setting hot_fix_retry
    Periods,     \* values of ublox_send_interval and ublox_send_interval_2
    MaxPeriod,   \* the greatest one
    MinPeriod,   \* FIX_MINIMUM_INTERVAL
    Starts,      \* values of ublox_interval1_start and ublox_interval2_start
    Factor,      \* gps_backoff_factor, divided by 10
    Skips,       \* the setting gps_skipped_triggered_interval
    Triggers,    \* gps_motion_triggered_min_num_of_triggers_per_interval
    Window,      \* the setting gps_triggered_interval
    MaxEvents,   \* GPS_MOTION_DETECTION_MAX_NUMBER_OF_EVENTS
    Modes,       \* what motion is good for, see AllModes
    Inputs,      \* what may happen, see Causes
    Bound        \* bound: how many commands and new settings

AllModes == {"off",     \* enable_motion_trig_gps is off, or sys_err.acc
             "skip",    \* no fix without motion
             "count"}   \* a fix after Triggers motions within Window
Causes == {"period", "active", "mode", "fix", "reset", "stop", "interval"}

ASSUME CountsAssumption ==
    /\ ColdMax \in Nat /\ HotMax \in Nat /\ Factor \in Nat \ {0}
    /\ Skips \in Nat /\ Bound \in Nat
    /\ Window \in Nat /\ MaxEvents \in Nat /\ Triggers \in 1 .. MaxEvents

ASSUME PeriodsAssumption ==
    /\ MaxPeriod \in Nat /\ MinPeriod \in 1 .. MaxPeriod
    /\ Periods \subseteq 0 .. MaxPeriod /\ Periods # {}

ASSUME InputsAssumption ==
    /\ Modes \subseteq AllModes /\ Modes # {} /\ Inputs \subseteq Causes
    /\ Starts \subseteq Day \X Day /\ Starts # {}

VARIABLES
    set,      \* settings of the user
    day,      \* the hour, and the settings of the two intervals
    ctx,      \* prv_ctx
    pin,      \* power of the receiver, and of the memory that backs it up
    clock,    \* time since the last try, and whether there was one
    motion,   \* times of motions, and prv_gps_motion_get_fix
    what,     \* history: the last step tried a fix, because motions were counted or not
    left      \* bound

vars == <<set, day, ctx, pin, clock, motion, what, left>>

Uses(input) == input \in Inputs /\ left > 0 /\ left' = left - 1

Least(a, b) == IF a < b THEN a ELSE b
Later(t, cap) == Least(t + 1, cap)

Off == [power |-> FALSE, backup |-> FALSE]

-----------------------------------------------------------------------------
(* gps_reset_fix_state()                                                   *)
Fresh(c) ==
    [c EXCEPT !.cold = FALSE, !.hotTries = 0, !.coldTries = 0, !.exhausted = FALSE,
              !.skipped = 0, !.period = c.default, !.failed = 0]

AfterCold(c, ok) ==
    IF ok
    THEN [c EXCEPT !.cold = TRUE, !.coldTries = 0, !.hotTries = 0]
    ELSE [c EXCEPT !.cold = FALSE, !.coldTries = @ + 1,
                   !.period = Least(Factor * @, MaxPeriod),
                   !.exhausted = @ \/ c.coldTries + 1 > ColdMax]

(* Faulty variant: hot fixes are tried for ever.                           *)
AfterHotForever(c, ok) ==
    IF ok
    THEN [c EXCEPT !.hotTries = 0]
    ELSE [c EXCEPT !.hotTries = Least(@ + 1, HotMax + 1)]

AfterHot(c, ok) ==
    IF ok
    THEN [c EXCEPT !.hotTries = 0]
    ELSE [c EXCEPT !.hotTries = @ + 1, !.cold = c.hotTries < HotMax]

AfterFix(c, ok) ==
    IF ok
    THEN [c EXCEPT !.period = c.default, !.exhausted = FALSE, !.failed = 0]
    ELSE [c EXCEPT !.failed = IF c.active THEN @ ELSE @ + 1]

(* gps_get_fix(), from the state c of prv_ctx and p of the pins.  A cold   *)
(* fix may be due because the last one is too old.                         *)
GetFix(c, p) ==
    \E ok \in BOOLEAN, old \in BOOLEAN :
        /\ c.active /\ ~p.power => ~ok
        /\ LET d == IF c.active THEN c
                    ELSE IF c.cold /\ ~old THEN AfterHot(c, ok) ELSE AfterCold(c, ok)
           IN  /\ ctx' = AfterFix(d, ok)
               /\ pin' = IF c.active THEN p ELSE [power |-> FALSE, backup |-> d.cold]
        /\ clock' = [clock EXCEPT !.since = 0, !.tried = TRUE]

-----------------------------------------------------------------------------
(* Commands and settings.                                                  *)

(* Faulty variant: the state of the fix survives the receiver's data.      *)
GpsResetKeeps ==
    /\ Uses("reset")
    /\ \E ok \in BOOLEAN : ctx' = [ctx EXCEPT !.enabled = ok]
    /\ pin' = Off /\ what' = "none"
    /\ UNCHANGED <<set, day, clock, motion>>

(* CMD_RESET_GPS                                                           *)
GpsReset ==
    /\ Uses("reset")
    /\ \E ok \in BOOLEAN :
        LET c == [ctx EXCEPT !.enabled = ok]
        IN  ctx' = IF ok THEN Fresh(c) ELSE c
    /\ pin' = Off /\ what' = "none"
    /\ UNCHANGED <<set, day, clock, motion>>

(* CMD_GET_UBLOX_FIX, CMD_GET_UBLOX_SATELLITE_DATA                         *)
CommandFix ==
    /\ Uses("fix")
    /\ what' = "none"
    /\ \/ ctx.enabled /\ GetFix(Fresh(ctx), pin)
       \/ ~ctx.enabled /\ GetFix(Fresh([ctx EXCEPT !.enabled = TRUE]), Off)
       \/ ~ctx.enabled /\ pin' = Off /\ UNCHANGED <<ctx, clock>>
    /\ UNCHANGED <<set, day, motion>>

(* CMD_SET_OPERATION_MODE_COM_TH: low power or disabled.                   *)
GpsStop ==
    /\ Uses("stop")
    /\ ctx' = [ctx EXCEPT !.enabled = FALSE]
    /\ pin' = Off /\ what' = "none"
    /\ UNCHANGED <<set, day, clock, motion>>

Started(c) ==
    Fresh([c EXCEPT !.enabled = TRUE, !.active = FALSE, !.default = set.period1,
                    !.type = 1])

(* The same command: normal operation.                                     *)
InitGpsModule ==
    /\ ~ctx.enabled
    /\ \/ ctx' = Started(ctx)
       \/ UNCHANGED ctx
    /\ pin' = Off /\ what' = "none"
    /\ UNCHANGED <<set, day, clock, motion, left>>

Settings ==
    /\ \/ /\ \/ Uses("period") /\ \E t \in Periods : set' = [set EXCEPT !.period1 = t]
             \/ Uses("period") /\ \E t \in Periods : set' = [set EXCEPT !.period2 = t]
             \/ Uses("active") /\ set' = [set EXCEPT !.active = ~@]
             \/ Uses("mode") /\ \E m \in Modes : set' = [set EXCEPT !.mode = m]
          /\ UNCHANGED day
       \/ Uses("interval") /\ day' = [day EXCEPT !.multiple = ~@] /\ UNCHANGED set
    /\ what' = "none"
    /\ UNCHANGED <<ctx, pin, clock, motion>>

-----------------------------------------------------------------------------
(* handle_ublox_gps(): gps_send_interval() and, if it says so, a fix.      *)

Switches == ctx.active # set.active

(* gps_check_active_tracking()                                             *)
Tracking    == IF Switches THEN Fresh([ctx EXCEPT !.active = set.active]) ELSE ctx
TrackingPin == IF Switches THEN [power |-> set.active, backup |-> TRUE] ELSE pin

(* prv_gps_check_motion_detection_counter() after the minimum interval.    *)
Asked == clock.since > MinPeriod /\ set.mode = "count" /\ motion.asked

GivesUp ==
    /\ Tracking.exhausted
    /\ ctx' = Tracking /\ pin' = TrackingPin /\ what' = "none"
    /\ UNCHANGED <<set, clock, motion>>

(* Faulty variant: the request is taken before the minimum interval.       *)
MotionFixForgets ==
    /\ ~Tracking.exhausted
    /\ set.mode = "count" /\ motion.asked
    /\ motion' = [motion EXCEPT !.asked = FALSE]
    /\ IF clock.since > MinPeriod
       THEN GetFix(Tracking, TrackingPin) /\ what' = "counted"
       ELSE ctx' = Tracking /\ pin' = TrackingPin /\ what' = "none" /\ UNCHANGED clock
    /\ UNCHANGED set

MotionFix ==
    /\ ~Tracking.exhausted
    /\ Asked
    /\ motion' = [motion EXCEPT !.asked = FALSE]
    /\ GetFix(Tracking, TrackingPin) /\ what' = "counted"
    /\ UNCHANGED set

(* The setting that is in force; one that is too short is corrected.       *)
slot == GpsInterval(day.multiple, day.hour, day.start1, day.start2)
Wished    == IF slot = 1 THEN set.period1 ELSE set.period2
Corrected == IF Wished \in 1 .. MinPeriod - 1 THEN MinPeriod ELSE Wished

(* The interval has changed with the hour, gps_update_send_interval().     *)
Updated ==
    LET c == IF Tracking.type # slot THEN Fresh([Tracking EXCEPT !.type = slot])
                                     ELSE Tracking
    IN  [c EXCEPT !.default = Corrected, !.period = Corrected]

First   == ~clock.tried /\ clock.since > MinPeriod
Elapsed == clock.since > Updated.period

(* Faulty variant: fixes are skipped and not counted.                      *)
SkipUncounted ==
    /\ ctx' = Updated
    /\ clock' = [clock EXCEPT !.since = 0, !.tried = TRUE]
    /\ pin' = TrackingPin /\ what' = "none"

Skip ==
    /\ ctx' = [Updated EXCEPT !.skipped = @ + 1]
    /\ clock' = [clock EXCEPT !.since = 0, !.tried = TRUE]
    /\ pin' = TrackingPin /\ what' = "none"

(* Whether the last motion looks recent is left open: the time of it, in   *)
(* seconds, is subtracted from the time since the boot, in milliseconds.   *)
Periodic ==
    /\ ~Tracking.exhausted /\ ~Asked
    /\ set' = IF slot = 1 THEN [set EXCEPT !.period1 = Corrected]
                          ELSE [set EXCEPT !.period2 = Corrected]
    /\ LET due    == Updated.period > 0 /\ ~First /\ Elapsed
           enough == Updated.skipped + 1 >= Skips
           unskipped == [Updated EXCEPT !.skipped = 0]
       IN  \/ /\ Updated.period > 0 /\ First
              /\ GetFix(Updated, TrackingPin) /\ what' = "fix"
           \/ /\ due /\ set.mode = "off"
              /\ GetFix(Updated, TrackingPin) /\ what' = "fix"
           \/ /\ due /\ set.mode = "skip"
              /\ GetFix(unskipped, TrackingPin) /\ what' = "fix"
           \/ due /\ set.mode = "skip" /\ ~enough /\ Skip
           \/ /\ Updated.period = 0 \/ (~First /\ ~Elapsed) \/ (due /\ set.mode = "count")
              /\ ctx' = Updated /\ pin' = TrackingPin /\ what' = "none"
              /\ UNCHANGED clock
    /\ UNCHANGED motion

handle_ublox_gps ==
    /\ ctx.enabled
    /\ GivesUp \/ MotionFix \/ Periodic
    /\ UNCHANGED <<day, left>>

-----------------------------------------------------------------------------
(* Time, and the handler of the accelerometer in a thread of its own.      *)

Tick ==
    /\ clock' = [clock EXCEPT !.since = Later(@, MaxPeriod + 1)]
    /\ motion' = [motion EXCEPT !.ages = [i \in DOMAIN @ |-> Later(@[i], Window + 1)]]
    /\ what' = "none"
    /\ UNCHANGED <<set, day, ctx, pin, left>>

HourPasses ==
    /\ day.multiple
    /\ day' = [day EXCEPT !.hour = (@ + 1) % Hours] /\ what' = "none"
    /\ UNCHANGED <<set, ctx, pin, clock, motion, left>>

(* The last motions of which all are within Window, the one of now         *)
(* included, oldest first.                                                 *)
Recent ==
    LET all   == Append(motion.ages, 0)
        runs  == {k \in DOMAIN all : \A i \in k .. Len(all) : all[i] <= Window}
        first == CHOOSE k \in runs : \A j \in runs : k <= j
    IN  SubSeq(all, first, Len(all))

(* gps_motion_triggered_event_handler()                                    *)
Counted ==
    IF Len(Recent) >= Triggers
    THEN [ages |-> <<>>, asked |-> TRUE]
    ELSE [motion EXCEPT !.ages = Recent]

Motion ==
    /\ set.mode = "count"
    /\ motion' = Counted
    /\ what' = "none"
    /\ UNCHANGED <<set, day, ctx, pin, clock, left>>

-----------------------------------------------------------------------------
Init ==
    /\ \E t \in Periods, m \in Modes :
        set = [period1 |-> t, period2 |-> t, active |-> FALSE, mode |-> m]
    /\ \E s \in Starts :
        day = [hour |-> 0, multiple |-> FALSE, start1 |-> s[1], start2 |-> s[2]]
    /\ ctx = [enabled |-> FALSE, active |-> FALSE, cold |-> FALSE,
              hotTries |-> 0, coldTries |-> 0, exhausted |-> FALSE,
              default |-> 0, period |-> 0, type |-> 1, skipped |-> 0,
              failed |-> 0]  \* history: tries since a success or a reset
    /\ pin = Off
    /\ clock = [since |-> 0, tried |-> FALSE]
    /\ motion = [ages |-> <<>>, asked |-> FALSE]
    /\ what = "none"
    /\ left = Bound

Commands == GpsReset \/ CommandFix \/ GpsStop \/ InitGpsModule

Next ==
    Commands \/ Settings \/ handle_ublox_gps \/ Tick \/ HourPasses \/ Motion

Spec == Init /\ [][Next]_vars

(* The communication thread goes round, and time passes.                   *)
FairSpec == Spec /\ WF_vars(handle_ublox_gps) /\ WF_vars(Tick)

-----------------------------------------------------------------------------
TypeOK ==
    /\ set \in [period1 : 0 .. MaxPeriod, period2 : 0 .. MaxPeriod,
                active : BOOLEAN, mode : Modes]
    /\ day \in [hour : Day, multiple : BOOLEAN, start1 : Day, start2 : Day]
    /\ ctx \in [enabled : BOOLEAN, active : BOOLEAN, cold : BOOLEAN,
                hotTries : 0 .. HotMax + 1, coldTries : 0 .. ColdMax + 1,
                exhausted : BOOLEAN, default : 0 .. MaxPeriod, period : 0 .. MaxPeriod,
                type : {1, 2}, skipped : Nat, failed : Nat]
    /\ pin \in [power : BOOLEAN, backup : BOOLEAN]
    /\ clock \in [since : 0 .. MaxPeriod + 1, tried : BOOLEAN]
    /\ motion \in [ages : Seq(0 .. Window + 1), asked : BOOLEAN]
    /\ what \in {"none", "fix", "counted"}
    /\ left \in 0 .. Bound

(* A receiver without success is tried a limited number of times, however  *)
(* hot and cold fixes follow each other, until somebody asks for more.     *)
TriesEnd == ctx.failed <= HotMax + ColdMax + 2

(* A hot fix relies on data in the receiver: whenever one is to be tried   *)
(* next they have been kept alive since the last fix.                      *)
HotHasData == ctx.enabled /\ ctx.cold => pin.backup

(* The receiver does not drain the battery: it is off between two fixes    *)
(* unless it tracks actively.                                              *)
OffBetweenFixes == pin.power => ctx.active

(* The interval in force is the one that started last, across midnight,    *)
(* whichever starts first in the day, and also if they start together.     *)
GpsAsDescribed ==
    slot = Selected(day.multiple, day.hour, day.start1, day.start2)

(* The array of the times of motions has room for the next one.            *)
AgesFit == Len(motion.ages) < MaxEvents

(* "If at least 5 motion trigger events events are detected in a 60s       *)
(* period, a GPS fix will be performed": also if they were during the      *)
(* minimum interval after a fix.                                           *)
MotionServed ==
    LET ready == ctx.enabled /\ ~ctx.exhausted /\ set.mode = "count"
    IN  ready /\ motion.asked ~> (~ready \/ what = "counted")

(* A device that is enabled and has not given up tries again, motionless   *)
(* as it may be - unless two intervals reset the number of skipped fixes.  *)
FixesGoOn ==
    LET wants == /\ ctx.enabled /\ ~ctx.exhausted /\ set.mode # "count"
                 /\ set.period1 > 0 /\ set.period2 > 0
                 /\ set.mode = "off" \/ ~day.multiple
    IN  wants ~> (~wants \/ what = "fix")
=============================================================================
