-------------------------- MODULE Position_proofs --------------------------
(***************************************************************************)
(* Proofs about the two ways a position is found: by a GPS fix (GpsFix),   *)
(* for any numbers of retries, periods and motions, and by the scans that  *)
(* the communication thread asks of the LoRaWAN thread (LrScan), for any   *)
(* size of event_que.                                                      *)
(*                                                                         *)
(* The inductive invariant of GpsFix, IInv, adds to the properties what    *)
(* they rest on: a receiver that may be tried has retries left, failures   *)
(* are counted by one of the two counters of retries, and the times of     *)
(* motions are fewer than it takes for a fix.                              *)
(*                                                                         *)
(* That of LrScan, LInv, says of the queue what ModemBack and OwnAnswer    *)
(* say of the two ends: every suspension of the modem in it is undone by a *)
(* later event in it, and a scan that is asked for is in it or under way   *)
(* once.                                                                   *)
(***************************************************************************)
EXTENDS GpsFix, LrScan, WellFoundedInduction, SequenceTheorems, TLAPS

-----------------------------------------------------------------------------
(* Which interval is selected, for a day of any length                     *)

(* The chain of comparisons of gps_check_time_interval_type() selects the  *)
(* interval that started last, whatever the hours.                         *)
LEMMA GpsSelects ==
    ASSUME NEW m \in BOOLEAN, NEW h \in Day, NEW s1 \in Day, NEW s2 \in Day
    PROVE  GpsInterval(m, h, s1, s2) = Selected(m, h, s1, s2)
BY HoursAssumption DEF Day, GpsInterval, Selected, Since, Outside

(* Those of vhf_get_current_time_interval() and of satellite_get_current_  *)
(* time_interval() do if the two intervals start at different hours.       *)
THEOREM VhfSelects ==
    ASSUME NEW m \in BOOLEAN, NEW h \in Day, NEW s1 \in Day, NEW s2 \in Day,
           s1 # s2
    PROVE  VhfInterval(m, h, s1, s2) = Selected(m, h, s1, s2)
BY HoursAssumption DEF Day, VhfInterval, Selected, Since, Outside

-----------------------------------------------------------------------------
(* The inductive invariant                                                 *)

Contexts ==
    [enabled : BOOLEAN, active : BOOLEAN, cold : BOOLEAN,
     hotTries : 0 .. HotMax + 1, coldTries : 0 .. ColdMax + 1,
     exhausted : BOOLEAN, default : 0 .. MaxPeriod, period : 0 .. MaxPeriod,
     type : {1, 2}, skipped : Nat, failed : Nat]

Clocks == [since : 0 .. MaxPeriod + 1, tried : BOOLEAN]

Pins == [power : BOOLEAN, backup : BOOLEAN]

Sets == [period1 : 0 .. MaxPeriod, period2 : 0 .. MaxPeriod,
         active : BOOLEAN, mode : Modes]

Days == [hour : Day, multiple : BOOLEAN, start1 : Day, start2 : Day]

Motions == [ages : Seq(0 .. Window + 1), asked : BOOLEAN]

Histories == {"none", "fix", "counted"}

(* What holds of prv_ctx whenever a fix may be tried with it.              *)
Sound(c) ==
    /\ c \in Contexts
    /\ c.cold => c.hotTries <= HotMax
    /\ ~c.exhausted => c.coldTries <= ColdMax
    /\ c.failed <= c.hotTries + c.coldTries

(* What holds of the pins with it.                                         *)
Powered(c, p) ==
    /\ p \in Pins
    /\ c.enabled /\ c.cold => p.backup
    /\ p.power => c.active

(* Fewer motions are recorded than it takes for a fix.                     *)
Few(m) == m \in Motions /\ Len(m.ages) < Triggers

IInv ==
    /\ set \in Sets /\ day \in Days /\ clock \in Clocks
    /\ Sound(ctx) /\ Powered(ctx, pin) /\ Few(motion)
    /\ what \in Histories /\ left \in 0 .. Bound

-----------------------------------------------------------------------------
(* gps_reset_fix_state() leaves a sound state without a cold fix.          *)
LEMMA FreshSound ==
    ASSUME NEW c \in Contexts
    PROVE  /\ Sound(Fresh(c)) /\ ~Fresh(c).cold /\ ~Fresh(c).exhausted
           /\ Fresh(c).enabled = c.enabled /\ Fresh(c).active = c.active
<1>1. 0 \in 0 .. HotMax + 1 /\ 0 \in 0 .. ColdMax + 1 /\ 0 \in Nat
  BY CountsAssumption
<1>2. Fresh(c) \in Contexts
  BY <1>1, Zenon DEF Contexts, Fresh
<1>3. /\ ~Fresh(c).cold /\ ~Fresh(c).exhausted
      /\ Fresh(c).enabled = c.enabled /\ Fresh(c).active = c.active
  BY DEF Contexts, Fresh
<1>4. Fresh(c).hotTries = 0 /\ Fresh(c).coldTries = 0 /\ Fresh(c).failed = 0
  BY DEF Contexts, Fresh
<1> QED BY <1>2, <1>3, <1>4, CountsAssumption DEF Sound

(* So does a cold fix, whether it succeeds or fails.                       *)
LEMMA ColdSound ==
    ASSUME NEW c, Sound(c), ~c.exhausted, NEW ok \in BOOLEAN
    PROVE  /\ AfterCold(c, ok) \in Contexts
           /\ AfterCold(c, ok).cold => AfterCold(c, ok).hotTries <= HotMax
           /\ ~AfterCold(c, ok).exhausted => AfterCold(c, ok).coldTries <= ColdMax
           /\ ok => ~AfterCold(c, ok).exhausted
           /\ ~ok => AfterCold(c, ok).failed + 1 <=
                         AfterCold(c, ok).hotTries + AfterCold(c, ok).coldTries
           /\ AfterCold(c, ok).active = c.active
<1> DEFINE d == AfterCold(c, ok)
<1>1. /\ c \in Contexts /\ c.coldTries <= ColdMax
      /\ c.failed <= c.hotTries + c.coldTries
  BY DEF Sound
<1>2. /\ c.coldTries \in 0 .. ColdMax + 1 /\ c.hotTries \in 0 .. HotMax + 1
      /\ c.failed \in Nat /\ c.period \in 0 .. MaxPeriod /\ c.exhausted = FALSE
  BY <1>1, Zenon DEF Contexts
<1>3. CASE ok
  <2>1. d = [c EXCEPT !.cold = TRUE, !.coldTries = 0, !.hotTries = 0]
    BY <1>3 DEF AfterCold
  <2>2. 0 \in 0 .. HotMax + 1 /\ 0 \in 0 .. ColdMax + 1
    BY CountsAssumption
  <2> HIDE DEF d
  <2>3. d \in Contexts
    BY <1>1, <2>1, <2>2, Zenon DEF Contexts
  <2>4. /\ d.hotTries = 0 /\ d.coldTries = 0
        /\ ~d.exhausted /\ d.active = c.active
    BY <1>1, <2>1, Zenon DEF Contexts
  <2>5. d.hotTries <= HotMax /\ d.coldTries <= ColdMax
    BY <2>4, CountsAssumption
  <2> QED BY <1>3, <2>3, <2>4, <2>5 DEF d
<1>4. CASE ~ok
  <2> DEFINE p == Least(Factor * c.period, MaxPeriod)
             gone == c.exhausted \/ c.coldTries + 1 > ColdMax
  <2>1. p \in 0 .. MaxPeriod
    <3>1. Factor * c.period \in Nat
      BY <1>2, CountsAssumption, PeriodsAssumption
    <3> QED BY <3>1, PeriodsAssumption DEF Least
  <2>2. d = [c EXCEPT !.cold = FALSE, !.coldTries = c.coldTries + 1,
                      !.period = p, !.exhausted = gone]
    BY <1>4, Zenon DEF AfterCold
  <2>3. c.coldTries + 1 \in 0 .. ColdMax + 1 /\ gone \in BOOLEAN
    BY <1>1, <1>2, CountsAssumption
  <2>4. ~gone => c.coldTries + 1 <= ColdMax
    BY <1>2, CountsAssumption
  <2> HIDE DEF d, p, gone
  <2>5. d \in Contexts
    BY <1>1, <2>1, <2>2, <2>3, Zenon DEF Contexts
  <2>6. ~d.cold /\ (d.exhausted <=> gone) /\ d.active = c.active
    BY <1>1, <2>2, <2>3, Zenon DEF Contexts
  <2>7. /\ d.failed = c.failed /\ d.hotTries = c.hotTries
        /\ d.coldTries = c.coldTries + 1
    BY <1>1, <2>2, Zenon DEF Contexts
  <2>8. d.failed + 1 <= d.hotTries + d.coldTries
    BY <1>1, <1>2, <2>7
  <2>9. ~d.exhausted => d.coldTries <= ColdMax
    BY <2>4, <2>6, <2>7
  <2> QED BY <1>4, <2>5, <2>6, <2>8, <2>9 DEF d
<1> QED BY <1>3, <1>4

(* And a hot fix, which is tried only while it has data.                   *)
LEMMA HotSound ==
    ASSUME NEW c, Sound(c), c.cold, ~c.exhausted, NEW ok \in BOOLEAN
    PROVE  /\ AfterHot(c, ok) \in Contexts
           /\ AfterHot(c, ok).cold => AfterHot(c, ok).hotTries <= HotMax
           /\ ~AfterHot(c, ok).exhausted
           /\ AfterHot(c, ok).coldTries <= ColdMax
           /\ ~ok => AfterHot(c, ok).failed + 1 <=
                         AfterHot(c, ok).hotTries + AfterHot(c, ok).coldTries
           /\ AfterHot(c, ok).active = c.active
<1> DEFINE d == AfterHot(c, ok)
<1>1. /\ c \in Contexts /\ c.coldTries <= ColdMax /\ c.hotTries <= HotMax
      /\ c.failed <= c.hotTries + c.coldTries
  BY DEF Sound
<1>2. /\ c.coldTries \in 0 .. ColdMax + 1 /\ c.hotTries \in 0 .. HotMax + 1
      /\ c.failed \in Nat
  BY <1>1, Zenon DEF Contexts
<1>3. CASE ok
  <2>1. d = [c EXCEPT !.hotTries = 0]
    BY <1>3 DEF AfterHot
  <2>2. 0 \in 0 .. HotMax + 1 /\ 0 <= HotMax
    BY CountsAssumption
  <2> HIDE DEF d
  <2>3. d \in Contexts
    BY <1>1, <2>1, <2>2, Zenon DEF Contexts
  <2>4. /\ d.hotTries = 0 /\ d.coldTries = c.coldTries
        /\ ~d.exhausted /\ d.active = c.active
    BY <1>1, <2>1, Zenon DEF Contexts
  <2> QED BY <1>1, <1>3, <2>2, <2>3, <2>4, Zenon DEF d
<1>4. CASE ~ok
  <2> DEFINE again == c.hotTries < HotMax
  <2>1. d = [c EXCEPT !.hotTries = c.hotTries + 1, !.cold = again]
    BY <1>4, Zenon DEF AfterHot
  <2>2. c.hotTries + 1 \in 0 .. HotMax + 1 /\ again \in BOOLEAN
    BY <1>1, <1>2, CountsAssumption
  <2>3. again => c.hotTries + 1 <= HotMax
    BY <1>2, CountsAssumption
  <2> HIDE DEF d, again
  <2>4. d \in Contexts
    BY <1>1, <2>1, <2>2, Zenon DEF Contexts
  <2>5. (d.cold <=> again) /\ ~d.exhausted /\ d.active = c.active
    BY <1>1, <2>1, <2>2, Zenon DEF Contexts
  <2>6. /\ d.hotTries = c.hotTries + 1 /\ d.coldTries = c.coldTries
        /\ d.failed = c.failed
    BY <1>1, <2>1, Zenon DEF Contexts
  <2>7. d.failed + 1 <= d.hotTries + d.coldTries
    BY <1>1, <1>2, <2>6
  <2> QED BY <1>1, <1>4, <2>3, <2>4, <2>5, <2>6, <2>7, Zenon DEF d
<1> QED BY <1>3, <1>4

(* What is recorded after a fix.                                           *)
LEMMA RecordSound ==
    ASSUME NEW d \in Contexts, d.cold => d.hotTries <= HotMax,
           ~d.exhausted => d.coldTries <= ColdMax, NEW ok \in BOOLEAN,
           ok => ~d.exhausted,
           ~ok => (IF d.active THEN d.failed ELSE d.failed + 1) <= d.hotTries + d.coldTries
    PROVE  /\ Sound(AfterFix(d, ok))
           /\ AfterFix(d, ok).cold = d.cold /\ AfterFix(d, ok).active = d.active
           /\ AfterFix(d, ok).enabled = d.enabled
<1> DEFINE e == AfterFix(d, ok)
<1>1. /\ d.coldTries \in 0 .. ColdMax + 1 /\ d.hotTries \in 0 .. HotMax + 1
      /\ d.failed \in Nat /\ d.default \in 0 .. MaxPeriod
  BY Zenon DEF Contexts
<1>2. CASE ok
  <2>1. e = [d EXCEPT !.period = d.default, !.exhausted = FALSE, !.failed = 0]
    BY <1>2 DEF AfterFix
  <2>2. 0 \in Nat /\ 0 <= d.hotTries + d.coldTries
    BY <1>1, CountsAssumption
  <2> HIDE DEF e
  <2>3. e \in Contexts
    BY <1>1, <2>1, <2>2, Zenon DEF Contexts
  <2>4. /\ e.cold = d.cold /\ e.active = d.active /\ e.enabled = d.enabled
        /\ e.hotTries = d.hotTries /\ e.coldTries = d.coldTries /\ e.failed = 0
    BY <2>1, Zenon DEF Contexts
  <2> QED BY <1>2, <2>2, <2>3, <2>4, Zenon DEF Sound, e
<1>3. CASE ~ok
  <2> DEFINE n == IF d.active THEN d.failed ELSE d.failed + 1
  <2>1. e = [d EXCEPT !.failed = n]
    BY <1>3, Zenon DEF AfterFix
  <2>2. n \in Nat
    BY <1>1
  <2>3. n <= d.hotTries + d.coldTries
    BY <1>3
  <2> HIDE DEF e, n
  <2>4. e \in Contexts
    BY <2>1, <2>2, Zenon DEF Contexts
  <2>5. /\ e.cold = d.cold /\ e.active = d.active /\ e.enabled = d.enabled
        /\ e.hotTries = d.hotTries /\ e.coldTries = d.coldTries /\ e.failed = n
        /\ e.exhausted = d.exhausted
    BY <2>1, Zenon DEF Contexts
  <2> QED BY <2>3, <2>4, <2>5, Zenon DEF Sound, e
<1> QED BY <1>2, <1>3

(* Any fix keeps prv_ctx and the pins sound.                               *)
LEMMA FixSound ==
    ASSUME clock \in Clocks, NEW c, NEW p, Sound(c), ~c.exhausted, Powered(c, p), GetFix(c, p)
    PROVE  Sound(ctx') /\ Powered(ctx', pin') /\ clock' \in Clocks
<1>1. PICK ok \in BOOLEAN, old \in BOOLEAN :
        /\ ctx' = AfterFix(IF c.active THEN c
                           ELSE IF c.cold /\ ~old THEN AfterHot(c, ok)
                                                  ELSE AfterCold(c, ok), ok)
        /\ pin' = IF c.active THEN p
                  ELSE [power |-> FALSE,
                        backup |-> (IF c.cold /\ ~old THEN AfterHot(c, ok)
                                                      ELSE AfterCold(c, ok)).cold]
  BY Zenon DEF GetFix
<1>2. clock' \in Clocks
  <2>1. clock' = [clock EXCEPT !.since = 0, !.tried = TRUE] 
    BY Zenon DEF GetFix
  <2>2. 0 \in 0 .. MaxPeriod + 1
    BY PeriodsAssumption
  <2> QED BY <2>1, <2>2, Zenon DEF Clocks
<1>3. CASE c.active
  <2>1. ctx' = AfterFix(c, ok) /\ pin' = p
    BY <1>1, <1>3, Zenon
  <2>2. /\ c \in Contexts /\ c.failed <= c.hotTries + c.coldTries
        /\ c.cold => c.hotTries <= HotMax
        /\ ~c.exhausted => c.coldTries <= ColdMax
    BY DEF Sound
  <2>3. Sound(ctx') /\ ctx'.cold = c.cold /\ ctx'.active = c.active /\ ctx'.enabled = c.enabled
    BY <1>3, <2>1, <2>2, RecordSound, Zenon
  <2> QED BY <1>2, <2>1, <2>3, Zenon DEF Powered
<1>4. CASE ~c.active /\ c.cold /\ ~old
  <2> DEFINE d == AfterHot(c, ok)
  <2>1. ctx' = AfterFix(d, ok) /\ pin' = [power |-> FALSE, backup |-> d.cold]
    BY <1>1, <1>4, Zenon
  <2>2. /\ d \in Contexts
        /\ d.cold => d.hotTries <= HotMax
        /\ ~d.exhausted
        /\ d.coldTries <= ColdMax
        /\ d.active = c.active
        /\ ~ok => d.failed + 1 <= d.hotTries + d.coldTries
    BY <1>4, HotSound, Zenon
  <2> HIDE DEF d
  <2>3. Sound(ctx') /\ ctx'.cold = d.cold
    <3>1. /\ ~d.exhausted => d.coldTries <= ColdMax
          /\ ok => ~d.exhausted
          /\ ~ok => (IF d.active THEN d.failed ELSE d.failed + 1)
                         <= d.hotTries + d.coldTries
      BY <1>4, <2>2, Zenon
    <3> QED BY <2>1, <2>2, <3>1, RecordSound, Zenon
  <2>4. d.cold \in BOOLEAN
    BY <2>2, Zenon DEF Contexts
  <2>5. pin' \in Pins /\ ~pin'.power /\ pin'.backup = d.cold
    BY <2>1, <2>4, Zenon DEF Pins
  <2> QED BY <1>2, <2>3, <2>5, Zenon DEF Powered
<1>5. CASE ~c.active /\ ~(c.cold /\ ~old)
  <2> DEFINE d == AfterCold(c, ok)
  <2>1. ctx' = AfterFix(d, ok) /\ pin' = [power |-> FALSE, backup |-> d.cold]
    BY <1>1, <1>5, Zenon
  <2>2. /\ d \in Contexts
        /\ d.cold => d.hotTries <= HotMax
        /\ ~d.exhausted => d.coldTries <= ColdMax
        /\ ok => ~d.exhausted
        /\ d.active = c.active
        /\ ~ok => d.failed + 1 <= d.hotTries + d.coldTries
    BY <1>5, ColdSound, Zenon
  <2> HIDE DEF d
  <2>3. Sound(ctx') /\ ctx'.cold = d.cold
    <3>1. ~ok => (IF d.active THEN d.failed ELSE d.failed + 1)
                    <= d.hotTries + d.coldTries
      BY <1>5, <2>2, Zenon
    <3> QED BY <2>1, <2>2, <3>1, RecordSound, Zenon
  <2>4. d.cold \in BOOLEAN
    BY <2>2, Zenon DEF Contexts
  <2>5. pin' \in Pins /\ ~pin'.power /\ pin'.backup = d.cold
    BY <2>1, <2>4, Zenon DEF Pins
  <2> QED BY <1>2, <2>3, <2>5, Zenon DEF Powered
<1> QED BY <1>3, <1>4, <1>5

(* Soundness depends on five fields only.                                  *)
LEMMA SoundAgain ==
    ASSUME NEW c, Sound(c), NEW d \in Contexts,
           d.cold = c.cold, d.hotTries = c.hotTries, d.coldTries = c.coldTries,
           d.exhausted = c.exhausted, d.failed = c.failed
    PROVE  Sound(d)
BY Zenon DEF Sound

(* gps_init() and gps_stop() change only whether the receiver is enabled.  *)
LEMMA EnabledSound ==
    ASSUME NEW c, Sound(c), NEW e \in BOOLEAN
    PROVE  /\ Sound([c EXCEPT !.enabled = e])
           /\ [c EXCEPT !.enabled = e].enabled = e
           /\ [c EXCEPT !.enabled = e].cold = c.cold
           /\ [c EXCEPT !.enabled = e].exhausted = c.exhausted
           /\ [c EXCEPT !.enabled = e].active = c.active
<1> DEFINE d == [c EXCEPT !.enabled = e]
<1>1. c \in Contexts
  BY DEF Sound
<1>2. d \in Contexts
  BY <1>1, Zenon DEF Contexts
<1>3. /\ d.cold = c.cold /\ d.hotTries = c.hotTries /\ d.coldTries = c.coldTries
      /\ d.exhausted = c.exhausted /\ d.failed = c.failed /\ d.active = c.active
      /\ d.enabled = e
  BY <1>1, Zenon DEF Contexts
<1> HIDE DEF d
<1>4. Sound(d)
  BY <1>2, <1>3, SoundAgain, Zenon
<1> QED BY <1>3, <1>4, Zenon DEF d

(* Without power and without a cold fix the pins fit prv_ctx.              *)
LEMMA OffPowered ==
    ASSUME NEW c, ~(c.enabled /\ c.cold)
    PROVE  Powered(c, Off)
<1>1. Off \in Pins /\ ~Off.power
  BY Zenon DEF Pins, Off
<1> QED BY <1>1, Zenon DEF Powered

(* The bound of the inputs.                                                *)
LEMMA UsesBound ==
    ASSUME left \in 0 .. Bound, NEW input, Uses(input)
    PROVE  left' \in 0 .. Bound
BY CountsAssumption DEF Uses

LEMMA ResetStep == ASSUME IInv, GpsReset PROVE IInv'
<1>1. PICK ok \in BOOLEAN :
        ctx' = IF ok THEN Fresh([ctx EXCEPT !.enabled = ok]) ELSE [ctx EXCEPT !.enabled = ok]
  BY Zenon DEF GpsReset
<1>2. /\ pin' = Off /\ what' = "none" /\ left' \in 0 .. Bound
      /\ UNCHANGED <<set, day, clock, motion>>
  BY UsesBound, Zenon DEF GpsReset, IInv
<1>3. Sound([ctx EXCEPT !.enabled = ok])
  BY EnabledSound, Zenon DEF IInv
<1>4. CASE ok
  <2>1. [ctx EXCEPT !.enabled = ok] \in Contexts
    BY <1>3, Zenon DEF Sound
  <2>2. Sound(ctx') /\ ~ctx'.cold
    BY <1>1, <1>4, <2>1, FreshSound, Zenon
  <2>3. Powered(ctx', pin')
    BY <1>2, <2>2, OffPowered, Zenon
  <2> QED BY <1>2, <2>2, <2>3, Zenon DEF IInv, Histories, Few
<1>5. CASE ~ok
  <2>1. Sound(ctx') /\ ctx'.enabled = ok
    BY <1>1, <1>3, <1>5, EnabledSound, Zenon DEF IInv
  <2>2. Powered(ctx', pin')
    BY <1>2, <1>5, <2>1, OffPowered, Zenon
  <2> QED BY <1>2, <2>1, <2>2, Zenon DEF IInv, Histories, Few
<1> QED BY <1>4, <1>5

LEMMA CommandStep == ASSUME IInv, CommandFix PROVE IInv'
<1>1. /\ what' = "none" /\ left' \in 0 .. Bound /\ UNCHANGED <<set, day, motion>>
  BY UsesBound, Zenon DEF CommandFix, IInv
<1>2. ctx \in Contexts /\ Sound(ctx) /\ clock \in Clocks /\ Powered(ctx, pin)
  BY Zenon DEF IInv, Sound
<1>3. Sound(ctx') /\ Powered(ctx', pin') /\ clock' \in Clocks
  <2>1. CASE GetFix(Fresh(ctx), pin)
    <3>1. /\ Sound(Fresh(ctx)) /\ ~Fresh(ctx).cold /\ ~Fresh(ctx).exhausted
          /\ Fresh(ctx).active = ctx.active
      BY <1>2, FreshSound, Zenon
    <3>2. Powered(Fresh(ctx), pin)
      BY <1>2, <3>1, Zenon DEF Powered
    <3> QED BY <1>2, <2>1, <3>1, <3>2, FixSound, Zenon
  <2>2. CASE GetFix(Fresh([ctx EXCEPT !.enabled = TRUE]), Off)
    <3> DEFINE c == [ctx EXCEPT !.enabled = TRUE]
    <3>1. c \in Contexts
      BY <1>2, EnabledSound, Zenon DEF Sound
    <3> HIDE DEF c
    <3>2. Sound(Fresh(c)) /\ ~Fresh(c).cold /\ ~Fresh(c).exhausted
      BY <3>1, FreshSound, Zenon
    <3>3. Powered(Fresh(c), Off)
      BY <3>2, OffPowered, Zenon
    <3>4. GetFix(Fresh(c), Off)
      BY <2>2 DEF c
    <3> QED BY <1>2, <3>2, <3>3, <3>4, FixSound, Zenon
  <2>3. CASE ~ctx.enabled /\ pin' = Off /\ UNCHANGED <<ctx, clock>>
    <3>1. Powered(ctx, Off)
      BY <2>3, OffPowered, Zenon
    <3> QED BY <1>2, <2>3, <3>1, Zenon
  <2> QED BY <2>1, <2>2, <2>3, Zenon DEF CommandFix
<1> QED BY <1>1, <1>3, Zenon DEF IInv, Histories, Few

LEMMA StopStep == ASSUME IInv, GpsStop PROVE IInv'
<1>1. /\ what' = "none" /\ left' \in 0 .. Bound /\ pin' = Off
      /\ UNCHANGED <<set, day, clock, motion>>
  BY UsesBound, Zenon DEF GpsStop, IInv
<1>2. Sound(ctx') /\ ctx'.enabled = FALSE
  BY EnabledSound, Zenon DEF GpsStop, IInv
<1>3. Powered(ctx', pin')
  BY <1>1, <1>2, OffPowered, Zenon
<1> QED BY <1>1, <1>2, <1>3, Zenon DEF IInv, Histories, Few

LEMMA InitModuleStep == ASSUME IInv, InitGpsModule PROVE IInv'
<1>1. /\ what' = "none" /\ pin' = Off /\ ~ctx.enabled
      /\ UNCHANGED <<set, day, clock, motion, left>>
  BY Zenon DEF InitGpsModule
<1>2. CASE ctx' = Started(ctx)
  <2> DEFINE c == [ctx EXCEPT !.enabled = TRUE, !.active = FALSE,
                              !.default = set.period1, !.type = 1]
  <2>1. ctx \in Contexts /\ set.period1 \in 0 .. MaxPeriod
    BY Zenon DEF IInv, Sound, Sets
  <2>2. c \in Contexts
    <3>1. 1 \in {1, 2}
      OBVIOUS
    <3> QED BY <2>1, <3>1, Zenon DEF Contexts
  <2>3. ctx' = Fresh(c)
    BY <1>2 DEF Started
  <2> HIDE DEF c
  <2>4. Sound(ctx') /\ ~ctx'.cold
    BY <2>2, <2>3, FreshSound, Zenon
  <2>5. Powered(ctx', pin')
    BY <1>1, <2>4, OffPowered, Zenon
  <2> QED BY <1>1, <2>4, <2>5, Zenon DEF IInv, Histories, Few
<1>3. CASE UNCHANGED ctx
  <2>1. Powered(ctx', pin')
    BY <1>1, <1>3, OffPowered, Zenon
  <2> QED BY <1>1, <1>3, <2>1, Zenon DEF IInv, Histories, Few
<1> QED BY <1>2, <1>3, Zenon DEF InitGpsModule

LEMMA SettingsStep == ASSUME IInv, Settings PROVE IInv'
<1>1. what' = "none" /\ UNCHANGED <<ctx, pin, clock, motion>>
  BY DEF Settings
<1>2. left' \in 0 .. Bound
  BY UsesBound, Zenon DEF Settings, IInv
<1>3. set' \in Sets /\ day' \in Days
  <2>1. \A t \in Periods : t \in 0 .. MaxPeriod
    BY PeriodsAssumption
  <2>2. set \in Sets /\ day \in Days
    BY DEF IInv
  <2>3. ASSUME NEW t \in Periods, set' = [set EXCEPT !.period1 = t], UNCHANGED day
        PROVE  set' \in Sets /\ day' \in Days
    BY <2>1, <2>2, <2>3, Zenon DEF Sets
  <2>4. ASSUME NEW t \in Periods, set' = [set EXCEPT !.period2 = t], UNCHANGED day
        PROVE  set' \in Sets /\ day' \in Days
    BY <2>1, <2>2, <2>4, Zenon DEF Sets
  <2>5. ASSUME set' = [set EXCEPT !.active = ~@], UNCHANGED day
        PROVE  set' \in Sets /\ day' \in Days
    BY <2>2, <2>5, Zenon DEF Sets
  <2>6. ASSUME NEW m \in Modes, set' = [set EXCEPT !.mode = m], UNCHANGED day
        PROVE  set' \in Sets /\ day' \in Days
    BY <2>2, <2>6, Zenon DEF Sets
  <2>7. ASSUME day' = [day EXCEPT !.multiple = ~@], UNCHANGED set
        PROVE  set' \in Sets /\ day' \in Days
    BY <2>2, <2>7, Zenon DEF Days
  <2> QED BY <2>3, <2>4, <2>5, <2>6, <2>7, Zenon DEF Settings
<1> QED BY <1>1, <1>2, <1>3, Zenon DEF IInv, Histories, Few

(* The switch to active tracking and back resets the state of the fix.     *)
LEMMA TrackingSound ==
    ASSUME IInv
    PROVE  Sound(Tracking) /\ Powered(Tracking, TrackingPin)
<1>1. ctx \in Contexts /\ Sound(ctx) /\ Powered(ctx, pin) /\ set.active \in BOOLEAN
  BY Zenon DEF IInv, Sound, Sets
<1>2. CASE Switches
  <2> DEFINE c == [ctx EXCEPT !.active = set.active]
  <2>1. c \in Contexts /\ c.active = set.active
    BY <1>1, Zenon DEF Contexts
  <2>2. Tracking = Fresh(c) /\ TrackingPin = [power |-> set.active, backup |-> TRUE]
    BY <1>2 DEF Tracking, TrackingPin
  <2> HIDE DEF c
  <2>3. Sound(Tracking) /\ Tracking.active = set.active
    BY <2>1, <2>2, FreshSound, Zenon
  <2>4. TrackingPin \in Pins /\ TrackingPin.power = set.active /\ TrackingPin.backup
    BY <1>1, <2>2, Zenon DEF Pins
  <2> QED BY <2>3, <2>4, Zenon DEF Powered
<1>3. CASE ~Switches
  BY <1>1, <1>3, Zenon DEF Tracking, TrackingPin
<1> QED BY <1>2, <1>3

LEMMA SlotType == ASSUME IInv PROVE slot \in {1, 2}
BY DEF slot, GpsInterval

(* The setting in force, corrected if it is too short.                     *)
LEMMA CorrectedType == ASSUME IInv PROVE Corrected \in 0 .. MaxPeriod
<1>1. set.period1 \in 0 .. MaxPeriod /\ set.period2 \in 0 .. MaxPeriod
  BY Zenon DEF IInv, Sets
<1>2. Wished \in 0 .. MaxPeriod
  BY <1>1, Zenon DEF Wished
<1> QED BY <1>2, PeriodsAssumption DEF Corrected

(* The new interval at most resets the state of the fix.                   *)
LEMMA UpdatedSound ==
    ASSUME IInv, ~Tracking.exhausted
    PROVE  Sound(Updated) /\ Powered(Updated, TrackingPin) /\ ~Updated.exhausted
<1>1. /\ Tracking \in Contexts /\ Sound(Tracking) /\ Powered(Tracking, TrackingPin)
      /\ slot \in {1, 2} /\ Corrected \in 0 .. MaxPeriod
  BY TrackingSound, SlotType, CorrectedType, Zenon DEF Sound
<1> DEFINE c == IF Tracking.type # slot THEN Fresh([Tracking EXCEPT !.type = slot])
                                        ELSE Tracking
<1>2. /\ Sound(c) /\ ~c.exhausted /\ c.active = Tracking.active
      /\ c.cold => Tracking.cold /\ c.enabled = Tracking.enabled
  <2>1. CASE Tracking.type # slot
    <3> DEFINE e == [Tracking EXCEPT !.type = slot]
    <3>1. e \in Contexts /\ e.active = Tracking.active
      BY <1>1, Zenon DEF Contexts
    <3>2. c = Fresh(e)
      BY <2>1
    <3> HIDE DEF e, c
    <3> QED BY <3>1, <3>2, FreshSound, Zenon
  <2>2. CASE Tracking.type = slot
    <3>1. c = Tracking
      BY <2>2
    <3> QED BY <1>1, <3>1, Zenon
  <2> QED BY <2>1, <2>2, Zenon
<1>3. Updated = [c EXCEPT !.default = Corrected, !.period = Corrected]
  BY DEF Updated
<1> HIDE DEF c
<1>4. c \in Contexts
  BY <1>2, Zenon DEF Sound
<1>5. Updated \in Contexts
  BY <1>1, <1>3, <1>4, Zenon DEF Contexts
<1>6. /\ Updated.cold = c.cold /\ Updated.hotTries = c.hotTries
      /\ Updated.coldTries = c.coldTries /\ Updated.exhausted = c.exhausted
      /\ Updated.failed = c.failed /\ Updated.active = c.active
      /\ Updated.enabled = c.enabled
  BY <1>3, <1>4, Zenon DEF Contexts
<1>7. Sound(Updated)
  BY <1>2, <1>5, <1>6, SoundAgain, Zenon
<1>8. Powered(Updated, TrackingPin)
  BY <1>1, <1>2, <1>6, Zenon DEF Powered
<1> QED BY <1>2, <1>6, <1>7, <1>8, Zenon

(* The number of skipped fixes is of no concern.                           *)
LEMMA SkippedSound ==
    ASSUME NEW c, NEW p, Sound(c), Powered(c, p), ~c.exhausted, NEW n \in Nat
    PROVE  /\ Sound([c EXCEPT !.skipped = n]) /\ Powered([c EXCEPT !.skipped = n], p)
           /\ ~[c EXCEPT !.skipped = n].exhausted
<1> DEFINE d == [c EXCEPT !.skipped = n]
<1>1. c \in Contexts
  BY DEF Sound
<1>2. d \in Contexts
  BY <1>1, Zenon DEF Contexts
<1>3. /\ d.cold = c.cold /\ d.hotTries = c.hotTries /\ d.coldTries = c.coldTries
      /\ d.exhausted = c.exhausted /\ d.failed = c.failed /\ d.active = c.active
      /\ d.enabled = c.enabled
  BY <1>1, Zenon DEF Contexts
<1> HIDE DEF d
<1>4. Sound(d) /\ Powered(d, p) /\ ~d.exhausted
  BY <1>2, <1>3, SoundAgain, Zenon DEF Powered
<1> QED BY <1>4, Zenon DEF d

LEMMA GivesUpStep ==
    ASSUME IInv, GivesUp, UNCHANGED <<day, left>>
    PROVE  IInv'
BY TrackingSound, Zenon DEF GivesUp, IInv, Histories, Few

LEMMA MotionFixStep ==
    ASSUME IInv, MotionFix, UNCHANGED <<day, left>>
    PROVE  IInv'
<1>1. clock \in Clocks /\ Sound(Tracking) /\ Powered(Tracking, TrackingPin) /\ ~Tracking.exhausted
  BY TrackingSound, Zenon DEF IInv, MotionFix
<1>2. Sound(ctx') /\ Powered(ctx', pin') /\ clock' \in Clocks
  BY <1>1, FixSound, Zenon DEF MotionFix
<1>3. Few(motion')
  <2>1. motion' = [motion EXCEPT !.asked = FALSE] /\ Few(motion)
    BY Zenon DEF MotionFix, IInv
  <2>2. motion' \in Motions /\ motion'.ages = motion.ages
    BY <2>1, Zenon DEF Few, Motions
  <2> QED BY <2>1, <2>2, Zenon DEF Few
<1> QED BY <1>2, <1>3, Zenon DEF MotionFix, IInv, Histories, Few

LEMMA PeriodicStep ==
    ASSUME IInv, Periodic, UNCHANGED <<day, left>>
    PROVE  IInv'
<1>1. /\ ~Tracking.exhausted /\ clock \in Clocks
      /\ Sound(Updated) /\ Powered(Updated, TrackingPin) /\ ~Updated.exhausted
  BY UpdatedSound, Zenon DEF Periodic, IInv
<1>2. set' \in Sets /\ UNCHANGED motion
  BY CorrectedType, Zenon DEF Periodic, IInv, Sets
<1>3. Sound(ctx') /\ Powered(ctx', pin') /\ clock' \in Clocks /\ what' \in Histories
  <2>1. CASE GetFix(Updated, TrackingPin) /\ what' = "fix"
    BY <1>1, <2>1, FixSound, Zenon DEF Histories
  <2>2. CASE GetFix([Updated EXCEPT !.skipped = 0], TrackingPin) /\ what' = "fix"
    <3> DEFINE c == [Updated EXCEPT !.skipped = 0]
    <3>1. Sound(c) /\ Powered(c, TrackingPin) /\ ~c.exhausted
      <4>1. 0 \in Nat
        OBVIOUS
      <4> QED BY <1>1, <4>1, SkippedSound, Zenon
    <3>2. GetFix(c, TrackingPin)
      BY <2>2
    <3> HIDE DEF c
    <3> QED BY <1>1, <2>2, <3>1, <3>2, FixSound, Zenon DEF Histories
  <2>3. CASE Skip
    <3>1. Updated.skipped \in Nat
      BY <1>1, Zenon DEF Sound, Contexts
    <3>2. Updated.skipped + 1 \in Nat
      BY <3>1
    <3>3. Sound(ctx') /\ Powered(ctx', TrackingPin)
      BY <1>1, <2>3, <3>2, SkippedSound, Zenon DEF Skip
    <3>4. 0 \in 0 .. MaxPeriod + 1
      BY PeriodsAssumption
    <3>5. clock' \in Clocks
      BY <1>1, <2>3, <3>4, Zenon DEF Skip, Clocks
    <3> QED BY <2>3, <3>3, <3>5, Zenon DEF Skip, Histories
  <2>4. CASE ctx' = Updated /\ pin' = TrackingPin /\ what' = "none" /\ UNCHANGED clock
    BY <1>1, <2>4, Zenon DEF Histories
  <2> QED BY <2>1, <2>2, <2>3, <2>4, Zenon DEF Periodic
<1> QED BY <1>2, <1>3, Zenon DEF IInv, Few

LEMMA LaterType ==
    ASSUME NEW cap \in Nat, NEW t \in 0 .. cap
    PROVE  Later(t, cap) \in 0 .. cap
BY DEF Later, Least

LEMMA TickStep == ASSUME IInv, Tick PROVE IInv'
<1>1. /\ clock \in Clocks /\ motion \in Motions /\ Len(motion.ages) < Triggers
      /\ MaxPeriod + 1 \in Nat /\ Window + 1 \in Nat
  BY CountsAssumption, PeriodsAssumption DEF IInv, Few
<1>2. clock' \in Clocks
  BY <1>1, LaterType, Zenon DEF Tick, Clocks
<1>3. Few(motion')
  <2> DEFINE ages == [i \in DOMAIN motion.ages |-> Later(motion.ages[i], Window + 1)]
  <2>1. motion.ages \in Seq(0 .. Window + 1)
    BY <1>1, Zenon DEF Motions
  <2>2. ages \in Seq(0 .. Window + 1) /\ Len(ages) = Len(motion.ages)
    <3>1. DOMAIN motion.ages = 1 .. Len(motion.ages) /\ Len(motion.ages) \in Nat
      BY <2>1
    <3>2. \A i \in DOMAIN motion.ages : motion.ages[i] \in 0 .. Window + 1
      BY <2>1, <3>1, ElementOfSeq, Zenon
    <3>3. \A i \in DOMAIN motion.ages : Later(motion.ages[i], Window + 1) \in 0 .. Window + 1
      BY <1>1, <3>2, LaterType, Zenon
    <3> QED BY <3>1, <3>3
  <2>3. motion' = [motion EXCEPT !.ages = ages]
    BY DEF Tick
  <2> HIDE DEF ages
  <2>4. motion' \in Motions /\ motion'.ages = ages
    BY <1>1, <2>2, <2>3, Zenon DEF Motions
  <2> QED BY <1>1, <2>2, <2>4, Zenon DEF Few
<1> QED BY <1>2, <1>3, Zenon DEF Tick, IInv, Histories

LEMMA HourStep == ASSUME IInv, HourPasses PROVE IInv'
<1>1. day \in Days /\ day.hour \in Day
  BY Zenon DEF IInv, Days
<1>2. (day.hour + 1) % Hours \in Day
  BY <1>1, HoursAssumption DEF Day
<1>3. day' \in Days
  BY <1>1, <1>2, Zenon DEF HourPasses, Days
<1> QED BY <1>3, Zenon DEF HourPasses, IInv, Histories, Few

(* The motions that are kept are those that were, and the new one.         *)
LEMMA RecentType ==
    ASSUME motion.ages \in Seq(0 .. Window + 1)
    PROVE  Recent \in Seq(0 .. Window + 1)
<1> DEFINE all == Append(motion.ages, 0)
           runs == {k \in DOMAIN all : \A i \in k .. Len(all) : all[i] <= Window}
           first == CHOOSE k \in runs : \A j \in runs : k <= j
<1>1. /\ all \in Seq(0 .. Window + 1) /\ Len(all) \in Nat \ {0}
      /\ DOMAIN all = 1 .. Len(all) /\ all[Len(all)] = 0
  BY CountsAssumption
<1>2. Len(all) \in runs
  BY <1>1, CountsAssumption
<1>3. runs \subseteq Nat /\ runs # {}
  BY <1>1, <1>2
<1>4. \E k \in runs : \A j \in runs : ~(<<j, k>> \in OpToRel(<, Nat))
  BY <1>3, NatLessThanWellFounded, WFMin, Zenon
<1>5. \E k \in runs : \A j \in runs : k <= j
  <2>1. PICK k \in runs : \A j \in runs : ~(<<j, k>> \in OpToRel(<, Nat))
    BY <1>4
  <2>2. \A j \in runs : ~(j < k)
    <3> SUFFICES ASSUME NEW j \in runs, j < k PROVE FALSE
      OBVIOUS
    <3>1. <<j, k>> \in Nat \X Nat
      BY <1>3
    <3>2. <<j, k>> \in OpToRel(<, Nat)
      BY <3>1 DEF OpToRel
    <3> QED BY <2>1, <3>2, Zenon
  <2>3. \A j \in runs : k <= j
    <3>1. k \in Nat /\ \A j \in runs : j \in Nat
      BY <1>3, Zenon
    <3> HIDE DEF runs
    <3> QED BY <2>2, <3>1
  <2> QED BY <2>3, Zenon
<1>6. first \in runs
  BY <1>5, Zenon
<1>7. Recent = SubSeq(all, first, Len(all))
  BY Zenon DEF Recent
<1>8. first \in 1 .. Len(all)
  BY <1>1, <1>6
<1> HIDE DEF all, runs, first
<1>9. \A i \in first .. Len(all) : all[i] \in 0 .. Window + 1
  <2>1. first \in Nat /\ \A i \in first .. Len(all) : i \in 1 .. Len(all)
    BY <1>1, <1>8
  <2> QED BY <1>1, <2>1, ElementOfSeq, Zenon
<1>10. first \in Int /\ Len(all) \in Int
  BY <1>1, <1>8
<1>11. SubSeq(all, first, Len(all)) \in Seq(0 .. Window + 1)
  BY <1>9, <1>10, SubSeqProperties, Zenon
<1> QED BY <1>7, <1>11

LEMMA MotionStep == ASSUME IInv, Motion PROVE IInv'
<1>1. motion \in Motions
  BY Zenon DEF IInv, Few
<1>2. motion.ages \in Seq(0 .. Window + 1)
  BY <1>1, Zenon DEF Motions
<1>3. Recent \in Seq(0 .. Window + 1)
  BY <1>2, RecentType, Zenon
<1>4. Few(motion')
  <2>1. CASE Len(Recent) >= Triggers
    <3>1. motion' = [ages |-> <<>>, asked |-> TRUE]
      BY <2>1 DEF Motion, Counted
    <3>2. <<>> \in Seq(0 .. Window + 1) /\ Len(<<>>) < Triggers
      BY CountsAssumption
    <3> QED BY <3>1, <3>2, Zenon DEF Few, Motions
  <2>2. CASE ~(Len(Recent) >= Triggers)
    <3>1. motion' = [motion EXCEPT !.ages = Recent]
      BY <2>2 DEF Motion, Counted
    <3>2. motion' \in Motions /\ motion'.ages = Recent
      BY <1>1, <1>3, <3>1, Zenon DEF Motions
    <3>3. Len(Recent) < Triggers
      BY <1>3, <2>2, CountsAssumption
    <3> QED BY <3>2, <3>3, Zenon DEF Few
  <2> QED BY <2>1, <2>2
<1> QED BY <1>4, Zenon DEF Motion, IInv, Histories

LEMMA InitInv == Init => IInv
<1> SUFFICES ASSUME Init PROVE IInv
  OBVIOUS
<1>1. /\ 0 \in Day /\ 0 \in Nat /\ 0 \in 0 .. MaxPeriod /\ 0 \in 0 .. MaxPeriod + 1
      /\ 0 \in 0 .. HotMax + 1 /\ 0 \in 0 .. ColdMax + 1 /\ Bound \in 0 .. Bound
      /\ 0 <= HotMax /\ 0 <= ColdMax /\ 0 <= 0 + 0 /\ 1 \in {1, 2}
  BY HoursAssumption, CountsAssumption, PeriodsAssumption DEF Day
<1>2. set \in Sets
  <2>1. \A t \in Periods : t \in 0 .. MaxPeriod
    BY PeriodsAssumption
  <2>2. PICK t \in Periods, m \in Modes :
          set = [period1 |-> t, period2 |-> t, active |-> FALSE, mode |-> m]
    BY Zenon DEF Init
  <2> QED BY <2>1, <2>2, Zenon DEF Sets
<1>3. day \in Days
  <2>1. \A s \in Starts : s[1] \in Day /\ s[2] \in Day
    BY InputsAssumption
  <2>2. PICK s \in Starts :
          day = [hour |-> 0, multiple |-> FALSE, start1 |-> s[1], start2 |-> s[2]]
    BY Zenon DEF Init
  <2> QED BY <1>1, <2>1, <2>2, Zenon DEF Days
<1>4. ctx \in Contexts
  BY <1>1, Zenon DEF Init, Contexts
<1>5. /\ ~ctx.cold /\ ~ctx.exhausted
      /\ ctx.coldTries = 0 /\ ctx.hotTries = 0 /\ ctx.failed = 0
  BY DEF Init
<1>6. Sound(ctx)
  BY <1>1, <1>4, <1>5, Zenon DEF Sound
<1>7. Powered(ctx, pin)
  BY <1>5, OffPowered, Zenon DEF Init
<1>8. clock \in Clocks
  BY <1>1, Zenon DEF Init, Clocks
<1>9. Few(motion)
  <2>1. <<>> \in Seq(0 .. Window + 1) /\ Len(<<>>) < Triggers
    BY CountsAssumption
  <2>2. motion \in Motions /\ motion.ages = <<>>
    BY <2>1, Zenon DEF Init, Motions
  <2> QED BY <2>1, <2>2, Zenon DEF Few
<1> QED BY <1>1, <1>2, <1>3, <1>6, <1>7, <1>8, <1>9, Zenon DEF Init, IInv, Histories

LEMMA NextInv == IInv /\ [Next]_vars => IInv'
<1> SUFFICES ASSUME IInv, [Next]_vars PROVE IInv'
  OBVIOUS
<1>1. CASE Commands
  BY <1>1, ResetStep, CommandStep, StopStep, InitModuleStep DEF Commands
<1>2. CASE Settings
  BY <1>2, SettingsStep
<1>3. CASE handle_ublox_gps
  BY <1>3, GivesUpStep, MotionFixStep, PeriodicStep, Zenon DEF handle_ublox_gps
<1>4. CASE Tick
  BY <1>4, TickStep
<1>5. CASE HourPasses
  BY <1>5, HourStep
<1>6. CASE Motion
  BY <1>6, MotionStep
<1>7. CASE UNCHANGED vars
  BY <1>7, Zenon DEF vars, IInv, Few
<1> QED BY <1>1, <1>2, <1>3, <1>4, <1>5, <1>6, <1>7, Zenon DEF Next

LEMMA Invariant == Spec => []IInv
BY InitInv, NextInv, PTL DEF Spec

-----------------------------------------------------------------------------
(* Every variable keeps its type, whatever is commanded, set and fails.    *)
THEOREM TypeCorrect == Spec => []TypeOK
<1>1. IInv => TypeOK
  <2> SUFFICES ASSUME IInv PROVE TypeOK
    OBVIOUS
  <2>1. ctx \in Contexts /\ pin \in Pins /\ motion \in Motions
    BY Zenon DEF IInv, Sound, Powered, Few
  <2> QED BY <2>1, Zenon DEF IInv, TypeOK, Contexts, Pins, Motions, Sets, Days, Clocks,
                             Histories
<1> QED BY <1>1, Invariant, PTL

(* Every failure is counted by hot or cold tries, of which there are       *)
(* HotMax + 1 and ColdMax + 1 before the receiver gives up.                *)
THEOREM TriesAreLimited == Spec => []TriesEnd
<1>1. IInv => TriesEnd
  <2> SUFFICES ASSUME IInv PROVE TriesEnd
    OBVIOUS
  <2>1. ctx \in Contexts /\ ctx.failed <= ctx.hotTries + ctx.coldTries
    BY Zenon DEF IInv, Sound
  <2>2. /\ ctx.hotTries \in 0 .. HotMax + 1 /\ ctx.coldTries \in 0 .. ColdMax + 1
        /\ ctx.failed \in Nat
    BY <2>1, Zenon DEF Contexts
  <2> QED BY <2>1, <2>2, CountsAssumption DEF TriesEnd
<1> QED BY <1>1, Invariant, PTL

(* The data that a hot fix starts from were kept alive since they came.    *)
THEOREM HotFixHasData == Spec => []HotHasData
<1>1. IInv => HotHasData
  BY Zenon DEF IInv, Powered, HotHasData
<1> QED BY <1>1, Invariant, PTL

(* The receiver is off between fixes unless it tracks.                     *)
THEOREM OffUnlessTracking == Spec => []OffBetweenFixes
<1>1. IInv => OffBetweenFixes
  BY Zenon DEF IInv, Powered, OffBetweenFixes
<1> QED BY <1>1, Invariant, PTL

(* The times of motions fit their array if Triggers does.                  *)
THEOREM MotionsFit == Spec => []AgesFit
<1>1. IInv => AgesFit
  <2> SUFFICES ASSUME IInv PROVE AgesFit
    OBVIOUS
  <2>1. motion \in Motions /\ Len(motion.ages) < Triggers
    BY Zenon DEF IInv, Few
  <2>2. motion.ages \in Seq(0 .. Window + 1)
    BY <2>1, Zenon DEF Motions
  <2>3. Len(motion.ages) \in Nat
    BY <2>2
  <2> QED BY <2>1, <2>3, CountsAssumption DEF AgesFit
<1> QED BY <1>1, Invariant, PTL

(* Fixes take the interval that is described, whatever the hours.          *)
THEOREM IntervalFollowed == Spec => []GpsAsDescribed
<1>1. IInv => GpsAsDescribed
  <2> SUFFICES ASSUME IInv PROVE GpsAsDescribed
    OBVIOUS
  <2>1. /\ day.hour \in Day /\ day.multiple \in BOOLEAN
        /\ day.start1 \in Day /\ day.start2 \in Day
    BY Zenon DEF IInv, Days
  <2> QED BY <2>1, GpsSelects DEF GpsAsDescribed, slot
<1> QED BY <1>1, Invariant, PTL

-----------------------------------------------------------------------------
(* LrScan: the inductive invariant                                         *)

Users  == {"gnss", "wifi"}
Jobs   == Scans \cup {"vhf"}
Steers == {"suspend", "resume", "reset", "start"}
Cmds   == Jobs \cup Steers \cup {"uplink", "leave"}
Events == [cmd : Cmds, no : Nat]
Runs   == [job : Jobs \cup {"none", "retake", "uplink"}, no : Nat, parts : 0 .. 2]

(* Every variable keeps its shape; only S-band messages have two parts.    *)
LTypeOK ==
    /\ state \in {"SETUP", "INIT", "ENGINE", "SUSPENDED"}
    /\ enabled \in BOOLEAN /\ burst \in BOOLEAN /\ lp0 \in BOOLEAN
    /\ que \in Seq(Events) /\ Len(que) <= QueMax
    /\ run \in Runs /\ (run.job # "sband" => run.parts <= 1)
    /\ comm \in [at : Places, no : Nat]
    /\ done \in [Scans -> BOOLEAN] /\ answer \in [Scans -> Nat]
    /\ lost \subseteq Cmds \cup {"crossed"} /\ budget \in Nat

(* No event is k; all that are have one place and one number.              *)
Without(q, k)    == \A i \in DOMAIN q : q[i].cmd # k
Single(q, k, no) ==
    \A i \in DOMAIN q : q[i].cmd = k =>
        q[i].no = no /\ \A j \in DOMAIN q : q[j].cmd = k => j = i

(* Before LORAWAN_CMD_START has been taken, the LP0 thread alone is heard. *)
Starting ==
    /\ state = "SETUP" =>
          /\ comm.at = "start" /\ run = Idle /\ ~enabled
          /\ \A i \in DOMAIN que : que[i].cmd \in {"start", "suspend", "resume"}
    /\ \A i \in DOMAIN que : que[i].cmd = "start" => i = 1 /\ state = "SETUP"

(* The communication thread either waits for a restart or has put another  *)
(* event behind it.                                                        *)
Restarting ==
    /\ que # <<>> /\ que[Len(que)].cmd = "reset" => comm.at = "reset"
    /\ state = "INIT" =>
          run = Idle /\ (enabled \/ comm.at \in {"start", "reset"} \/ que # <<>>)

(* With the queue as it is the modem ends up switched on: every suspension *)
(* in it is undone in it, or there is nothing in it and the modem is on,   *)
(* or will be after the job or the restart that is under way.              *)
Undone(q) ==
    \A i \in DOMAIN q : q[i].cmd = "suspend" =>
        \E j \in DOMAIN q : i < j /\ q[j].cmd \in {"resume", "reset"}
Silent(q) == \A i \in DOMAIN q : q[i].cmd \notin Steers
Up ==
    \/ state \in {"SETUP", "INIT"}
    \/ enabled /\ (state = "ENGINE" \/ run.job \in Jobs)
Ready(q) == Undone(q) /\ (Silent(q) => Up)

Quiet  == comm.at \notin {"fix", "gps"} /\ ~lp0
Obeyed == "resume" \notin lost /\ "reset" \notin lost
Returns == Obeyed /\ Quiet => Ready(que)

(* A scan that is asked for is in the queue or under way, once, for as     *)
(* long as the communication thread waits for it.                          *)
Awaited ==
    \A k \in Users :
        /\ \/ Without(que, k)
           \/ At(k) /\ ~done[k] /\ run.job # k /\ Single(que, k, comm.no)
        /\ run.job = k => At(k) /\ ~done[k] /\ run.no = comm.no
        /\ At(k) /\ done[k] => answer[k] = comm.no

LInv == LTypeOK /\ Starting /\ Restarting /\ Returns /\ Awaited

-----------------------------------------------------------------------------
(* The queue                                                               *)

(* A queue without its oldest event.                                       *)
LEMMA TailQue ==
    ASSUME NEW q \in Seq(Events), q # <<>>
    PROVE  /\ Tail(q) \in Seq(Events) /\ Len(Tail(q)) = Len(q) - 1
           /\ Len(q) \in Nat \ {0}
           /\ Head(q) = q[1] /\ Head(q) \in Events
           /\ \A i \in 1 .. Len(q) - 1 : Tail(q)[i] = q[i + 1]
<1>1. /\ Tail(q) \in Seq(Events) /\ Len(Tail(q)) = Len(q) - 1 /\ Head(q) = q[1]
      /\ \A i \in 1 .. Len(Tail(q)) : Tail(q)[i] = q[i + 1]
      /\ Head(q) \in Events
  BY HeadTailProperties
<1>2. Len(q) \in Nat /\ Len(q) >= 1
  BY <1>1
<1> QED BY <1>1, <1>2

(* r is q with es behind it and without its n oldest events.               *)
Joined(q, es, n, r) ==
    /\ n \in Nat /\ r \in Seq(Events) /\ Len(r) = Len(q) + Len(es) - n
    /\ Len(r) >= 1 /\ Len(r) <= QueMax
    /\ \A i \in 1 .. Len(r) :
          r[i] = IF i + n <= Len(q) THEN q[i + n] ELSE es[i + n - Len(q)]

(* A put joins the events to the queue and counts what it costs.           *)
LEMMA SendJoins ==
    ASSUME que \in Seq(Events), NEW es \in Seq(Events), Len(es) >= 1,
           NEW hopes, Sends(es, hopes)
    PROVE  \E n \in Nat :
              /\ Joined(que, es, n, que')
              /\ \A i \in 1 .. Len(que) : i <= n => que[i].cmd \in lost'
              /\ \A i \in 1 .. Len(es) : i + Len(que) <= n => es[i].cmd \in lost'
<1> DEFINE a == All(es)
           n == Excess(es)
<1>1. /\ a \in Seq(Events) /\ Len(a) = Len(que) + Len(es)
      /\ \A i \in 1 .. Len(que) + Len(es) :
            a[i] = IF i <= Len(que) THEN que[i] ELSE es[i - Len(que)]
  BY ConcatProperties DEF All
<1>2. Len(que) \in Nat /\ Len(es) \in Nat /\ QueMax \in Nat \ {0}
  BY LenProperties, ScanAssumption
<1>3. /\ n \in Nat /\ n < Len(a) /\ Len(a) - n <= QueMax
  BY <1>1, <1>2 DEF Excess
<1>4. que' = SubSeq(a, n + 1, Len(a)) /\ Dropped(es) \subseteq lost'
  BY DEF Sends, Put
<1>5. \A i \in 1 .. n : a[i].cmd \in lost'
  BY <1>4 DEF Dropped
<1>6. /\ que' \in Seq(Events) /\ Len(que') = Len(a) - n
      /\ \A i \in 1 .. Len(que') : que'[i] = a[i + n]
  <2> HIDE DEF a, n
  <2>1. \A i \in n + 1 .. Len(a) : a[i] \in Events
    BY <1>1, <1>3, ElementOfSeq
  <2>2. SubSeq(a, n + 1, Len(a)) \in Seq(Events)
    BY <2>1, <1>1, <1>3, SubSeqProperties
  <2>3. Len(SubSeq(a, n + 1, Len(a))) = Len(a) - n
    BY <2>1, <1>1, <1>3, SubSeqProperties
  <2>4. \A i \in 1 .. Len(a) - n : SubSeq(a, n + 1, Len(a))[i] = a[i + n]
    BY <1>1, <1>3
  <2> QED BY <2>2, <2>3, <2>4, <1>4
<1>7. Joined(que, es, n, que')
  <2> HIDE DEF a, n
  <2>1. \A i \in 1 .. Len(que') : i + n \in 1 .. Len(que) + Len(es)
    BY <1>1, <1>2, <1>3, <1>6
  <2>2. \A i \in 1 .. Len(que') :
           que'[i] = IF i + n <= Len(que) THEN que[i + n] ELSE es[i + n - Len(que)]
    BY <1>1, <1>2, <1>3, <1>6, <2>1
  <2> QED BY <1>1, <1>2, <1>3, <1>6, <2>2 DEF Joined
<1>8. \A i \in 1 .. Len(que) : i <= n => que[i].cmd \in lost'
  <2> HIDE DEF a, n
  <2> QED BY <1>1, <1>2, <1>3, <1>5
<1>9. \A i \in 1 .. Len(es) : i + Len(que) <= n => es[i].cmd \in lost'
  <2> HIDE DEF a, n
  <2>1. SUFFICES ASSUME NEW i \in 1 .. Len(es), i + Len(que) <= n
                 PROVE  es[i].cmd \in lost'
    OBVIOUS
  <2>2. a[i + Len(que)] = es[i]
    BY <1>1, <1>2, <2>1
  <2> QED BY <1>2, <1>3, <1>5, <2>1, <2>2
<1> QED BY <1>3, <1>7, <1>8, <1>9

(* What the new queue holds, for one event or two that are no start.       *)
LEMMA JoinedKeeps ==
    ASSUME NEW q \in Seq(Events), NEW es \in Seq(Events), Len(es) >= 1,
           NEW n, NEW r, Joined(q, es, n, r)
    PROVE  /\ r # <<>> /\ r[Len(r)] = es[Len(es)] /\ r \in Seq(Events)
           /\ \A i \in DOMAIN r :
                 \/ i + n \in DOMAIN q /\ r[i] = q[i + n]
                 \/ i + n - Len(q) \in DOMAIN es /\ r[i] = es[i + n - Len(q)]
           /\ \A i \in DOMAIN q : i > n => i - n \in DOMAIN r /\ r[i - n] = q[i]
<1>1. /\ n \in Nat /\ Len(q) \in Nat /\ Len(es) \in Nat /\ Len(r) \in Nat
      /\ Len(r) = Len(q) + Len(es) - n /\ Len(r) >= 1
      /\ DOMAIN q = 1 .. Len(q) /\ DOMAIN es = 1 .. Len(es) /\ DOMAIN r = 1 .. Len(r)
      /\ r \in Seq(Events)
  BY LenProperties DEF Joined
<1>2. \A i \in 1 .. Len(r) :
          r[i] = IF i + n <= Len(q) THEN q[i + n] ELSE es[i + n - Len(q)]
  BY DEF Joined
<1>3. r # <<>>
  BY <1>1
<1>4. r[Len(r)] = es[Len(es)]
  <2>1. /\ Len(r) \in 1 .. Len(r) /\ ~(Len(r) + n <= Len(q))
        /\ Len(r) + n - Len(q) = Len(es)
    BY <1>1
  <2> QED BY <1>2, <2>1
<1>5. ASSUME NEW i \in DOMAIN r
      PROVE  \/ i + n \in DOMAIN q /\ r[i] = q[i + n]
             \/ i + n - Len(q) \in DOMAIN es /\ r[i] = es[i + n - Len(q)]
  <2>1. CASE i + n <= Len(q)
    <3>1. i + n \in DOMAIN q
      BY <1>1, <2>1
    <3> QED BY <1>1, <1>2, <2>1, <3>1
  <2>2. CASE ~(i + n <= Len(q))
    <3>1. i + n - Len(q) \in DOMAIN es
      BY <1>1, <2>2
    <3> QED BY <1>1, <1>2, <2>2, <3>1
  <2> QED BY <2>1, <2>2
<1>6. ASSUME NEW i \in DOMAIN q, i > n PROVE i - n \in DOMAIN r /\ r[i - n] = q[i]
  <2>1. i - n \in 1 .. Len(r) /\ (i - n) + n = i /\ i <= Len(q)
    BY <1>1, <1>6
  <2> QED BY <1>1, <1>2, <2>1
<1> QED BY <1>1, <1>3, <1>4, <1>5, <1>6

(* What a put does to the steering of the modem ...                        *)
LEMMA SendSteers ==
    ASSUME que \in Seq(Events), NEW es \in Seq(Events), Len(es) >= 1,
           Starting, NEW hopes, Sends(es, hopes),
           \A i \in DOMAIN es : es[i].cmd # "start"
    PROVE  /\ que' \in Seq(Events) /\ que' # <<>> /\ Len(que') <= QueMax
           /\ que'[Len(que')] = es[Len(es)]
           /\ \A i \in DOMAIN que' : que'[i].cmd = "start" => i = 1 /\ state = "SETUP"
           /\ \A S : (\A i \in DOMAIN que : que[i].cmd \in S)
                       /\ (\A i \in DOMAIN es : es[i].cmd \in S)
                    => \A i \in DOMAIN que' : que'[i].cmd \in S
           /\ (\A i \in DOMAIN es : es[i].cmd \notin Steers) /\ Ready(que) /\ Obeyed'
                 => Ready(que')
           /\ es[Len(es)].cmd \in {"resume", "reset"} => Ready(que')
<1>1. PICK n \in Nat :
         /\ Joined(que, es, n, que')
         /\ \A i \in 1 .. Len(que) : i <= n => que[i].cmd \in lost'
  BY SendJoins
<1> DEFINE r == que'
<1>2. /\ r # <<>> /\ r[Len(r)] = es[Len(es)] /\ r \in Seq(Events)
      /\ \A i \in DOMAIN r :
            \/ i + n \in DOMAIN que /\ r[i] = que[i + n]
            \/ i + n - Len(que) \in DOMAIN es /\ r[i] = es[i + n - Len(que)]
      /\ \A i \in DOMAIN que : i > n => i - n \in DOMAIN r /\ r[i - n] = que[i]
  BY <1>1, JoinedKeeps
<1>3. /\ Len(r) <= QueMax /\ Len(r) \in Nat /\ Len(r) >= 1 /\ DOMAIN r = 1 .. Len(r)
      /\ DOMAIN que = 1 .. Len(que) /\ Len(que) \in Nat
  BY <1>1, LenProperties DEF Joined
<1> HIDE DEF r
<1>4. ASSUME NEW i \in DOMAIN r, r[i].cmd = "start" PROVE i = 1 /\ state = "SETUP"
  <2>1. i + n \in DOMAIN que /\ r[i] = que[i + n]
    BY <1>2, <1>4
  <2>2. i + n = 1 /\ state = "SETUP"
    BY <1>4, <2>1 DEF Starting
  <2> QED BY <1>3, <2>2
<1>5. ASSUME \A i \in DOMAIN es : es[i].cmd \notin Steers, Ready(que), Obeyed'
      PROVE  Ready(r)
  <2>1. ASSUME NEW i \in DOMAIN r, r[i].cmd = "suspend"
        PROVE  \E j \in DOMAIN r : i < j /\ r[j].cmd \in {"resume", "reset"}
    <3>1. i + n \in DOMAIN que /\ r[i] = que[i + n]
      BY <1>2, <1>5, <2>1 DEF Steers
    <3>2. PICK j \in DOMAIN que : i + n < j /\ que[j].cmd \in {"resume", "reset"}
      BY <1>5, <2>1, <3>1 DEF Ready, Undone
    <3>3. j > n /\ i < j - n
      BY <1>3, <3>2
    <3>4. j - n \in DOMAIN r /\ r[j - n] = que[j]
      BY <1>2, <3>3
    <3> QED BY <3>2, <3>3, <3>4
  <2>2. ASSUME Silent(r) PROVE Up
    <3>1. CASE Silent(que)
      BY <1>5, <3>1 DEF Ready
    <3>2. CASE ~Silent(que)
      <4>1. PICK i \in DOMAIN que : que[i].cmd \in Steers
        BY <3>2 DEF Silent
      <4>2. \A j \in DOMAIN que : que[j].cmd \in Steers => j <= n
        <5> SUFFICES ASSUME NEW j \in DOMAIN que, que[j].cmd \in Steers, ~(j <= n)
                     PROVE  FALSE
          OBVIOUS
        <5>1. j - n \in DOMAIN r /\ r[j - n] = que[j]
          BY <1>2, <1>3
        <5> QED BY <2>2, <5>1 DEF Silent
      <4>3. \A j \in DOMAIN que : que[j].cmd \in Steers => que[j].cmd \in lost'
        BY <1>1, <1>3, <4>2
      <4>4. \A j \in DOMAIN que : que[j].cmd \notin {"resume", "reset"}
        BY <1>5, <4>3 DEF Obeyed, Steers
      <4>5. que[i].cmd # "suspend"
        BY <1>5, <4>4 DEF Ready, Undone
      <4>6. que[i].cmd = "start"
        BY <4>1, <4>4, <4>5 DEF Steers
      <4> QED BY <4>6 DEF Starting, Up
    <3> QED BY <3>1, <3>2
  <2> QED BY <2>1, <2>2 DEF Ready, Undone
<1>6. ASSUME es[Len(es)].cmd \in {"resume", "reset"} PROVE Ready(r)
  <2>1. Len(r) \in DOMAIN r /\ r[Len(r)].cmd \in {"resume", "reset"}
    BY <1>2, <1>3, <1>6
  <2>2. ~Silent(r)
    BY <2>1 DEF Silent, Steers
  <2>3. Undone(r)
    <3> SUFFICES ASSUME NEW i \in DOMAIN r, r[i].cmd = "suspend"
                 PROVE  \E j \in DOMAIN r : i < j /\ r[j].cmd \in {"resume", "reset"}
      BY DEF Undone
    <3>1. i # Len(r)
      BY <2>1
    <3>2. i < Len(r)
      BY <1>3, <3>1
    <3> QED BY <2>1, <3>2
  <2> QED BY <2>2, <2>3 DEF Ready
<1>7. ASSUME NEW S, \A i \in DOMAIN que : que[i].cmd \in S,
             \A i \in DOMAIN es : es[i].cmd \in S
      PROVE  \A i \in DOMAIN r : r[i].cmd \in S
  BY <1>2, <1>7
<1> QED BY <1>2, <1>3, <1>4, <1>5, <1>6, <1>7 DEF r

(* ... and to the scans asked for.                                         *)
LEMMA SendAsks ==
    ASSUME que \in Seq(Events), NEW es \in Seq(Events), Len(es) >= 1,
           NEW hopes, Sends(es, hopes), NEW k
    PROVE  /\ Without(es, k) => /\ Without(que, k) => Without(que', k)
                                /\ \A no : Single(que, k, no) => Single(que', k, no)
           /\ Without(que, k) /\ Len(es) = 1 => Single(que', k, es[1].no)
<1>1. PICK n \in Nat : Joined(que, es, n, que')
  BY SendJoins
<1> DEFINE r == que'
<1>2. /\ r \in Seq(Events)
      /\ \A i \in DOMAIN r :
            \/ i + n \in DOMAIN que /\ r[i] = que[i + n]
            \/ i + n - Len(que) \in DOMAIN es /\ r[i] = es[i + n - Len(que)]
  BY <1>1, JoinedKeeps
<1>3. /\ DOMAIN r = 1 .. Len(r) /\ Len(r) \in Nat /\ DOMAIN es = 1 .. Len(es)
      /\ Len(que) \in Nat
  BY <1>2, LenProperties
<1> HIDE DEF r
<1>4. ASSUME Without(es, k), Without(que, k) PROVE Without(r, k)
  BY <1>2, <1>4 DEF Without
<1>5. ASSUME Without(es, k), NEW no, Single(que, k, no) PROVE Single(r, k, no)
  <2>1. ASSUME NEW i \in DOMAIN r, r[i].cmd = k
        PROVE  i + n \in DOMAIN que /\ r[i] = que[i + n]
    BY <1>2, <1>5, <2>1 DEF Without
  <2> SUFFICES ASSUME NEW i \in DOMAIN r, r[i].cmd = k
               PROVE  r[i].no = no /\ \A j \in DOMAIN r : r[j].cmd = k => j = i
    BY DEF Single
  <2>2. r[i].no = no
    BY <1>5, <2>1 DEF Single
  <2>3. ASSUME NEW j \in DOMAIN r, r[j].cmd = k PROVE j = i
    <3>1. j + n = i + n
      BY <1>5, <2>1, <2>3 DEF Single
    <3> QED BY <1>3, <3>1
  <2> QED BY <2>2, <2>3
<1>6. ASSUME Without(que, k), Len(es) = 1 PROVE Single(r, k, es[1].no)
  <2>1. ASSUME NEW i \in DOMAIN r, r[i].cmd = k
        PROVE  i + n - Len(que) = 1 /\ r[i] = es[1]
    BY <1>2, <1>3, <1>6, <2>1 DEF Without
  <2> SUFFICES ASSUME NEW i \in DOMAIN r, r[i].cmd = k
               PROVE  r[i].no = es[1].no /\ \A j \in DOMAIN r : r[j].cmd = k => j = i
    BY DEF Single
  <2>2. \A j \in DOMAIN r : r[j].cmd = k => j = i
    <3> SUFFICES ASSUME NEW j \in DOMAIN r, r[j].cmd = k PROVE j = i
      OBVIOUS
    <3>1. i + n - Len(que) = 1 /\ j + n - Len(que) = 1
      BY <2>1
    <3> QED BY <1>3, <3>1
  <2> QED BY <2>1, <2>2
<1> QED BY <1>4, <1>5, <1>6 DEF r

(* What taking an event leaves.                                            *)
LEMMA TakeLeaves ==
    ASSUME que \in Seq(Events), Len(que) <= QueMax, Starting, NEW c, Takes(c)
    PROVE  /\ que' \in Seq(Events) /\ Len(que') <= QueMax /\ que # <<>>
           /\ Head(que) \in Events /\ Head(que).cmd = c /\ c = que[1].cmd
           /\ que' # <<>> => que'[Len(que')] = que[Len(que)]
           /\ que' = <<>> => que[Len(que)].cmd = c
           /\ 1 \in DOMAIN que
           /\ Without(que', "start")
           /\ Ready(que) => Undone(que')
           /\ Ready(que) /\ c \notin Steers => Ready(que')
           /\ Undone(que) /\ c = "suspend" => ~Silent(que')
           /\ \A k : Without(que, k) => Without(que', k)
           /\ \A k, no : Single(que, k, no) =>
                 Single(que', k, no) /\ (k = c => que[1].no = no /\ Without(que', k))
<1> DEFINE r == que'
<1>0. que # <<>> /\ Head(que).cmd = c /\ r = Tail(que)
  BY DEF Takes
<1>1. /\ r \in Seq(Events) /\ Len(r) = Len(que) - 1 /\ Len(que) \in Nat \ {0}
      /\ Head(que) = que[1] /\ Head(que) \in Events
      /\ \A i \in 1 .. Len(que) - 1 : r[i] = que[i + 1]
  BY <1>0, TailQue
<1>2. /\ DOMAIN r = 1 .. Len(r) /\ Len(r) \in Nat /\ DOMAIN que = 1 .. Len(que)
      /\ Len(r) <= QueMax
  BY <1>1, LenProperties, ScanAssumption
<1> HIDE DEF r
<1>3. \A i \in DOMAIN r : i + 1 \in DOMAIN que /\ r[i] = que[i + 1]
  BY <1>1, <1>2
<1>4. \A i \in DOMAIN que : i # 1 => i - 1 \in DOMAIN r /\ r[i - 1] = que[i]
  <2> SUFFICES ASSUME NEW i \in DOMAIN que, i # 1
               PROVE  i - 1 \in DOMAIN r /\ r[i - 1] = que[i]
    OBVIOUS
  <2>1. i - 1 \in 1 .. Len(que) - 1 /\ (i - 1) + 1 = i
    BY <1>1, <1>2
  <2> QED BY <1>1, <1>2, <2>1
<1>5. r # <<>> => r[Len(r)] = que[Len(que)]
  <2> SUFFICES ASSUME r # <<>> PROVE r[Len(r)] = que[Len(que)]
    OBVIOUS
  <2>1. Len(r) # 0
    BY <1>1, EmptySeq
  <2>2. Len(r) \in DOMAIN r /\ Len(r) + 1 = Len(que)
    BY <1>1, <1>2, <2>1
  <2> QED BY <1>3, <2>2
<1>6. r = <<>> => que[Len(que)].cmd = c
  <2> SUFFICES ASSUME r = <<>> PROVE que[Len(que)].cmd = c
    OBVIOUS
  <2>1. Len(r) = 0
    BY EmptySeq
  <2>2. Len(que) = 1
    BY <1>1, <2>1
  <2> QED BY <1>0, <1>1, <2>2
<1>7. Without(r, "start")
  <2> SUFFICES ASSUME NEW i \in DOMAIN r, r[i].cmd = "start" PROVE FALSE
    BY DEF Without
  <2>1. i + 1 = 1
    BY <1>3 DEF Starting
  <2> QED BY <1>2, <2>1
<1>8. ASSUME Undone(que) PROVE Undone(r)
  <2> SUFFICES ASSUME NEW i \in DOMAIN r, r[i].cmd = "suspend"
               PROVE  \E j \in DOMAIN r : i < j /\ r[j].cmd \in {"resume", "reset"}
    BY DEF Undone
  <2>1. PICK j \in DOMAIN que : i + 1 < j /\ que[j].cmd \in {"resume", "reset"}
    BY <1>3, <1>8 DEF Undone
  <2>2. j # 1 /\ i < j - 1
    BY <1>2, <2>1
  <2> QED BY <1>4, <2>1, <2>2
<1>9. ASSUME Ready(que), c \notin Steers PROVE Ready(r)
  <2>1. Silent(r) => Silent(que)
    <3> SUFFICES ASSUME Silent(r), NEW i \in DOMAIN que PROVE que[i].cmd \notin Steers
      BY DEF Silent
    <3>1. CASE i = 1
      BY <1>0, <1>1, <1>9, <3>1
    <3>2. CASE i # 1
      BY <1>4, <3>2 DEF Silent
    <3> QED BY <3>1, <3>2
  <2> QED BY <1>8, <1>9, <2>1 DEF Ready
<1>10. ASSUME Undone(que), c = "suspend" PROVE ~Silent(r)
  <2>1. 1 \in DOMAIN que
    BY <1>1, <1>2
  <2>2. PICK j \in DOMAIN que : 1 < j /\ que[j].cmd \in {"resume", "reset"}
    BY <1>0, <1>1, <1>10, <2>1 DEF Undone
  <2>3. j - 1 \in DOMAIN r /\ r[j - 1].cmd \in Steers
    BY <1>4, <2>2 DEF Steers
  <2> QED BY <2>3 DEF Silent
<1>11. \A k : Without(que, k) => Without(r, k)
  BY <1>3 DEF Without
<1>12. ASSUME NEW k, NEW no, Single(que, k, no)
       PROVE  Single(r, k, no) /\ (k = c => que[1].no = no /\ Without(r, k))
  <2>1. Single(r, k, no)
    <3> SUFFICES ASSUME NEW i \in DOMAIN r, r[i].cmd = k
                 PROVE  r[i].no = no /\ \A j \in DOMAIN r : r[j].cmd = k => j = i
      BY DEF Single
    <3>1. r[i].no = no
      BY <1>3, <1>12 DEF Single
    <3>2. ASSUME NEW j \in DOMAIN r, r[j].cmd = k PROVE j = i
      <4>1. j + 1 = i + 1
        BY <1>3, <1>12, <3>2 DEF Single
      <4> QED BY <1>2, <4>1
    <3> QED BY <3>1, <3>2
  <2>2. ASSUME k = c PROVE que[1].no = no /\ Without(r, k)
    <3>1. 1 \in DOMAIN que /\ que[1].cmd = k
      BY <1>0, <1>1, <1>2, <2>2
    <3>2. que[1].no = no
      BY <1>12, <3>1 DEF Single
    <3>3. Without(r, k)
      <4> SUFFICES ASSUME NEW i \in DOMAIN r, r[i].cmd = k PROVE FALSE
        BY DEF Without
      <4>1. i + 1 = 1
        BY <1>3, <1>12, <3>1 DEF Single
      <4> QED BY <1>2, <4>1
    <3> QED BY <3>2, <3>3
  <2> QED BY <2>1, <2>2
<1> QED BY <1>0, <1>1, <1>2, <1>5, <1>6, <1>7, <1>8, <1>9, <1>10, <1>11, <1>12
        DEF r, Ready

-----------------------------------------------------------------------------
(* Steps that put events                                                   *)

(* What all of them keep.                                                  *)
LEMMA SendKeeps ==
    ASSUME LInv, NEW es \in Seq(Events), Len(es) >= 1, NEW hopes,
           Sends(es, hopes), "resume" \notin hopes,
           UNCHANGED <<state, enabled, run>>, comm' \in [at : Places, no : Nat],
           \A i \in DOMAIN es : es[i].cmd # "start",
           state = "SETUP" =>
               comm'.at = "start" /\ \A i \in DOMAIN es : es[i].cmd \in {"suspend", "resume"},
           es[Len(es)].cmd = "reset" => comm'.at = "reset",
           \/ ~Quiet'
           \/ es[Len(es)].cmd \in {"resume", "reset"}
           \/ Quiet /\ "reset" \notin hopes /\ \A i \in DOMAIN es : es[i].cmd \notin Steers
    PROVE  /\ que' \in Seq(Events) /\ Len(que') <= QueMax
           /\ lost' \subseteq Cmds \cup {"crossed"}
           /\ Starting' /\ Restarting' /\ Returns'
<1>1. LTypeOK /\ Starting /\ Restarting /\ Returns /\ que \in Seq(Events)
  BY DEF LInv, LTypeOK
<1>2. /\ que' \in Seq(Events) /\ que' # <<>> /\ Len(que') <= QueMax
      /\ que'[Len(que')] = es[Len(es)]
      /\ \A i \in DOMAIN que' : que'[i].cmd = "start" => i = 1 /\ state = "SETUP"
      /\ \A S : (\A i \in DOMAIN que : que[i].cmd \in S)
                  /\ (\A i \in DOMAIN es : es[i].cmd \in S)
               => \A i \in DOMAIN que' : que'[i].cmd \in S
      /\ (\A i \in DOMAIN es : es[i].cmd \notin Steers) /\ Ready(que) /\ Obeyed'
            => Ready(que')
      /\ es[Len(es)].cmd \in {"resume", "reset"} => Ready(que')
  BY <1>1, SendSteers
<1>3. lost' \subseteq Cmds \cup {"crossed"}
  <2>1. Dropped(es) \subseteq Cmds
    <3>1. All(es) \in Seq(Events) /\ Len(All(es)) \in Nat
      BY <1>1, ConcatProperties DEF All
    <3>2. \A i \in 1 .. Excess(es) : i \in 1 .. Len(All(es))
      BY <3>1, ScanAssumption DEF Excess
    <3>3. \A i \in 1 .. Len(All(es)) : All(es)[i] \in Events
      BY <3>1, ElementOfSeq
    <3> QED BY <3>2, <3>3 DEF Dropped, Events
  <2> QED BY <1>1, <2>1 DEF Sends, LTypeOK
<1>4. Starting'
  <2>1. state = "SETUP" =>
           \A i \in DOMAIN que' : que'[i].cmd \in {"start", "suspend", "resume"}
    <3> SUFFICES ASSUME state = "SETUP"
                 PROVE  \A i \in DOMAIN que' : que'[i].cmd \in {"start", "suspend", "resume"}
      OBVIOUS
    <3>1. \A i \in DOMAIN que : que[i].cmd \in {"start", "suspend", "resume"}
      BY <1>1 DEF Starting
    <3>2. \A i \in DOMAIN es : es[i].cmd \in {"start", "suspend", "resume"}
      OBVIOUS
    <3> QED BY <1>2, <3>1, <3>2
  <2> QED BY <1>1, <1>2, <2>1 DEF Starting
<1>5. Restarting'
  BY <1>1, <1>2 DEF Restarting
<1>6. Returns'
  <2> SUFFICES ASSUME Obeyed', Quiet' PROVE Ready(que)'
    BY DEF Returns
  <2>1. Ready(que')
    <3>1. CASE es[Len(es)].cmd \in {"resume", "reset"}
      BY <1>2, <3>1
    <3>2. CASE Quiet /\ "reset" \notin hopes /\ \A i \in DOMAIN es : es[i].cmd \notin Steers
      <4>1. lost \ hopes \subseteq lost'
        BY DEF Sends
      <4>2. Obeyed
        BY <3>2, <4>1 DEF Obeyed
      <4> QED BY <1>1, <1>2, <3>2, <4>2 DEF Returns
    <3> QED BY <3>1, <3>2
  <2> QED BY <2>1 DEF Ready, Undone, Silent, Up
<1> QED BY <1>2, <1>3, <1>4, <1>5, <1>6

(* One event, of a kind and with a number.                                 *)
LEMMA OneEvent ==
    ASSUME NEW c \in Cmds, NEW no \in Nat
    PROVE  /\ <<Event(c, no)>> \in Seq(Events) /\ Len(<<Event(c, no)>>) = 1
           /\ DOMAIN <<Event(c, no)>> = {1}
           /\ <<Event(c, no)>>[1].cmd = c /\ <<Event(c, no)>>[1].no = no
<1>1. Event(c, no) \in Events
  BY DEF Event, Events
<1> QED BY <1>1 DEF Event

(* The put of a single event, which is no start.                           *)
LEMMA SendsOne ==
    ASSUME LInv, NEW c \in Cmds \ {"start"}, NEW no \in Nat, NEW hopes,
           Sends(<<Event(c, no)>>, hopes), "resume" \notin hopes,
           UNCHANGED <<state, enabled, run>>, comm' \in [at : Places, no : Nat],
           state = "SETUP" => comm'.at = "start" /\ c \in {"suspend", "resume"},
           c = "reset" => comm'.at = "reset",
           ~Quiet' \/ c = "resume" \/ (Quiet /\ "reset" \notin hopes /\ c \notin Steers)
    PROVE  /\ que' \in Seq(Events) /\ Len(que') <= QueMax
           /\ lost' \subseteq Cmds \cup {"crossed"}
           /\ Starting' /\ Restarting' /\ Returns'
           /\ \A k : k # c => /\ Without(que, k) => Without(que', k)
                              /\ \A m : Single(que, k, m) => Single(que', k, m)
           /\ Without(que, c) => Single(que', c, no)
<1> DEFINE es == <<Event(c, no)>>
<1>1. /\ es \in Seq(Events) /\ Len(es) = 1 /\ DOMAIN es = {1}
      /\ es[1].cmd = c /\ es[1].no = no
  BY OneEvent
<1>2. Sends(es, hopes) /\ que \in Seq(Events)
  BY DEF LInv, LTypeOK
<1> HIDE DEF es
<1>3. Len(es) >= 1 /\ es[Len(es)].cmd = c /\ \A i \in DOMAIN es : es[i].cmd = c
  BY <1>1
<1>4. /\ que' \in Seq(Events) /\ Len(que') <= QueMax
      /\ lost' \subseteq Cmds \cup {"crossed"}
      /\ Starting' /\ Restarting' /\ Returns'
  BY <1>1, <1>2, <1>3, SendKeeps
<1>5. ASSUME NEW k, k # c
      PROVE  /\ Without(que, k) => Without(que', k)
             /\ \A m : Single(que, k, m) => Single(que', k, m)
  BY <1>1, <1>2, <1>3, <1>5, SendAsks DEF Without
<1>6. Without(que, c) => Single(que', c, no)
  BY <1>1, <1>2, <1>3, SendAsks
<1> QED BY <1>4, <1>5, <1>6

(* Somebody who is not waiting for a scan has none under way.              *)
LEMMA NotAsked ==
    ASSUME Awaited, NEW k \in Users, ~At(k)
    PROVE  Without(que, k) /\ run.job # k
BY DEF Awaited

(* A scan is asked for: its event is the last in the queue.                *)
LEMMA AskScanStep ==
    ASSUME LInv, NEW k \in {"gnss", "wifi", "sband"}, AskScan(k) PROVE LInv'
<1> USE DEF AskScan
<1>1. /\ comm.at = "idle" /\ comm' = [at |-> k, no |-> comm.no + 1]
      /\ comm.no \in Nat /\ comm' \in [at : Places, no : Nat]
      /\ UNCHANGED <<state, enabled, run, burst, answer, lp0>>
      /\ done' = [done EXCEPT ![k] = FALSE] /\ budget' \in Nat
  BY DEF At, Asks, Lowers, lorawan, LInv, LTypeOK, Places, Scans, Spends
<1>2. k \in Cmds \ {"start"} /\ k \notin Steers /\ "resume" \notin {k} /\ "reset" \notin {k}
  BY DEF Cmds, Jobs, Steers, Scans
<1>3. state # "SETUP" /\ (Quiet \/ ~Quiet')
  BY <1>1 DEF LInv, Starting, Quiet
<1>4. /\ que' \in Seq(Events) /\ Len(que') <= QueMax
      /\ lost' \subseteq Cmds \cup {"crossed"}
      /\ Starting' /\ Restarting' /\ Returns'
      /\ \A j : j # k => /\ Without(que, j) => Without(que', j)
                         /\ \A m : Single(que, j, m) => Single(que', j, m)
      /\ Without(que, k) => Single(que', k, comm.no + 1)
  BY <1>1, <1>2, <1>3, SendsOne
<1>5. LTypeOK'
  BY <1>1, <1>4 DEF LInv, LTypeOK
<1>6. Awaited'
  <2> SUFFICES ASSUME NEW j \in Users
               PROVE  /\ \/ Without(que', j)
                         \/ At(j)' /\ ~done'[j] /\ run'.job # j /\ Single(que', j, comm'.no)
                      /\ run'.job = j => At(j)' /\ ~done'[j] /\ run'.no = comm'.no
                      /\ At(j)' /\ done'[j] => answer'[j] = comm'.no
    BY DEF Awaited
  <2>1. Without(que, j) /\ run.job # j
    <3>1. ~At(j) /\ Awaited
      BY <1>1 DEF At, Users, LInv
    <3> QED BY <3>1, NotAsked
  <2>2. CASE j = k
    <3>1. done'[k] = FALSE
      BY <1>1, <2>2 DEF LInv, LTypeOK, Scans
    <3> QED BY <1>1, <1>4, <2>1, <2>2, <3>1 DEF At
  <2>3. CASE j # k
    BY <1>1, <1>4, <2>1, <2>3 DEF At
  <2> QED BY <2>2, <2>3
<1> QED BY <1>4, <1>5, <1>6 DEF LInv

(* Nobody waits for a scan before or after.                                *)
LEMMA NoneAsked ==
    ASSUME Awaited, comm.at \notin Users, comm'.at \notin Users, run' = run,
           \A k \in Users : Without(que, k) => Without(que', k)
    PROVE  Awaited'
BY NotAsked DEF Awaited, At

(* Whoever waits for a scan goes on waiting.                               *)
LEMMA StillAsked ==
    ASSUME Awaited, UNCHANGED <<comm, done, answer>>, run' = run \/ run'.job \notin Users,
           \A k \in Users : /\ Without(que, k) => Without(que', k)
                           /\ \A m : Single(que, k, m) => Single(que', k, m)
    PROVE  Awaited'
BY DEF Awaited, At

(* The second S-band message.                                              *)
LEMMA SecondMessageStep == ASSUME LInv, SecondMessage PROVE LInv'
<1>1. /\ comm.at = "sband" /\ UNCHANGED lp0 /\ UNCHANGED burst
      /\ comm' = [at |-> "sband2", no |-> comm.no + 1]
      /\ comm.no \in Nat /\ comm' \in [at : Places, no : Nat] /\ budget' \in Nat
      /\ UNCHANGED <<state, enabled, run>> /\ lp0' \in BOOLEAN /\ burst' \in BOOLEAN
      /\ done' \in [Scans -> BOOLEAN] /\ UNCHANGED answer
  BY DEF SecondMessage, At, GoTo, Asks, Lowers, lorawan, flags, LInv, LTypeOK, Places, Scans, Spends
<1>2. "sband" \in Cmds \ {"start"} /\ "resume" \notin {"sband"}
  BY DEF Cmds, Jobs, Steers, Scans
<1>3. Sends(<<Event("sband", comm.no + 1)>>, {"sband"}) /\ comm.no + 1 \in Nat
  BY <1>1 DEF SecondMessage
<1>4. state = "SETUP" => comm'.at = "start" /\ "sband" \in {"suspend", "resume"}
  BY <1>1 DEF LInv, Starting
<1>5. \/ ~Quiet' \/ "sband" = "resume"
      \/ Quiet /\ "reset" \notin {"sband"} /\ "sband" \notin Steers
  BY <1>1 DEF Quiet, Steers, Scans
<1>6. /\ que' \in Seq(Events) /\ Len(que') <= QueMax
      /\ lost' \subseteq Cmds \cup {"crossed"}
      /\ Starting' /\ Restarting' /\ Returns'
      /\ \A k : k # "sband" => /\ Without(que, k) => Without(que', k)
                           /\ \A m : Single(que, k, m) => Single(que', k, m)
  BY <1>1, <1>2, <1>3, <1>4, <1>5, SendsOne
<1>7. LTypeOK'
  BY <1>1, <1>6 DEF LInv, LTypeOK
<1>8. "sband" \notin Users
  BY DEF Users
<1>9. Awaited'
  BY <1>1, <1>6, <1>8, NoneAsked DEF LInv, Users
<1> QED BY <1>6, <1>7, <1>9 DEF LInv

(* An almanac update is asked for.                                         *)
LEMMA AskAlmanacStep == ASSUME LInv, AskAlmanac PROVE LInv'
<1>1. /\ comm.at = "idle" /\ UNCHANGED lp0 /\ UNCHANGED burst
      /\ comm' = [at |-> "almanac", no |-> comm.no + 1]
      /\ comm.no \in Nat /\ comm' \in [at : Places, no : Nat] /\ budget' \in Nat
      /\ UNCHANGED <<state, enabled, run>> /\ lp0' \in BOOLEAN /\ burst' \in BOOLEAN
      /\ UNCHANGED <<done, answer>>
  BY DEF AskAlmanac, At, GoTo, Asks, Lowers, lorawan, flags, LInv, LTypeOK, Places, Scans, Spends
<1>2. "almanac" \in Cmds \ {"start"} /\ "resume" \notin {"almanac"}
  BY DEF Cmds, Jobs, Steers, Scans
<1>3. Sends(<<Event("almanac", comm.no + 1)>>, {"almanac"}) /\ comm.no + 1 \in Nat
  BY <1>1 DEF AskAlmanac
<1>4. state = "SETUP" => comm'.at = "start" /\ "almanac" \in {"suspend", "resume"}
  BY <1>1 DEF LInv, Starting
<1>5. \/ ~Quiet' \/ "almanac" = "resume"
      \/ Quiet /\ "reset" \notin {"almanac"} /\ "almanac" \notin Steers
  BY <1>1 DEF Quiet, Steers, Scans
<1>6. /\ que' \in Seq(Events) /\ Len(que') <= QueMax
      /\ lost' \subseteq Cmds \cup {"crossed"}
      /\ Starting' /\ Restarting' /\ Returns'
      /\ \A k : k # "almanac" => /\ Without(que, k) => Without(que', k)
                           /\ \A m : Single(que, k, m) => Single(que', k, m)
  BY <1>1, <1>2, <1>3, <1>4, <1>5, SendsOne
<1>7. LTypeOK'
  BY <1>1, <1>6 DEF LInv, LTypeOK
<1>8. "almanac" \notin Users
  BY DEF Users
<1>9. Awaited'
  BY <1>1, <1>6, <1>8, NoneAsked DEF LInv, Users
<1> QED BY <1>6, <1>7, <1>9 DEF LInv

(* The radio is taken for a fix, which is then not quiet.                  *)
LEMMA AskFixStep == ASSUME LInv, AskFix PROVE LInv'
<1>1. /\ comm.at = "idle" /\ UNCHANGED lp0 /\ UNCHANGED burst
      /\ comm' = [comm EXCEPT !.at = "fix"] /\ comm'.at = "fix"
      /\ comm.no \in Nat /\ comm' \in [at : Places, no : Nat] /\ budget' \in Nat
      /\ UNCHANGED <<state, enabled, run>> /\ lp0' \in BOOLEAN /\ burst' \in BOOLEAN
      /\ UNCHANGED <<done, answer>>
  BY DEF AskFix, At, GoTo, Asks, Lowers, lorawan, flags, LInv, LTypeOK, Places, Scans, Spends
<1>2. "suspend" \in Cmds \ {"start"} /\ "resume" \notin {"suspend", "crossed"}
  BY DEF Cmds, Jobs, Steers, Scans
<1>3. Sends(<<Event("suspend", 0)>>, {"suspend", "crossed"}) /\ 0 \in Nat
  BY <1>1 DEF AskFix
<1>4. state = "SETUP" => comm'.at = "start" /\ "suspend" \in {"suspend", "resume"}
  BY <1>1 DEF LInv, Starting
<1>5. \/ ~Quiet' \/ "suspend" = "resume"
      \/ Quiet /\ "reset" \notin {"suspend", "crossed"} /\ "suspend" \notin Steers
  BY <1>1 DEF Quiet, Steers, Scans
<1>6. /\ que' \in Seq(Events) /\ Len(que') <= QueMax
      /\ lost' \subseteq Cmds \cup {"crossed"}
      /\ Starting' /\ Restarting' /\ Returns'
      /\ \A k : k # "suspend" => /\ Without(que, k) => Without(que', k)
                           /\ \A m : Single(que, k, m) => Single(que', k, m)
  BY <1>1, <1>2, <1>3, <1>4, <1>5, SendsOne
<1>7. LTypeOK'
  BY <1>1, <1>6 DEF LInv, LTypeOK
<1>8. "suspend" \notin Users
  BY DEF Users
<1>9. Awaited'
  BY <1>1, <1>6, <1>8, NoneAsked DEF LInv, Users
<1> QED BY <1>6, <1>7, <1>9 DEF LInv

(* The end of a fix: its resume undoes what is in the queue.               *)
LEMMA FixEndsStep == ASSUME LInv, FixEnds PROVE LInv'
<1>1. /\ comm.at = "gps" /\ UNCHANGED lp0 /\ UNCHANGED burst
      /\ comm' = [comm EXCEPT !.at = "idle"] /\ comm'.at = "idle"
      /\ comm.no \in Nat /\ comm' \in [at : Places, no : Nat] /\ budget' \in Nat
      /\ UNCHANGED <<state, enabled, run>> /\ lp0' \in BOOLEAN /\ burst' \in BOOLEAN
      /\ UNCHANGED <<done, answer>>
  BY DEF FixEnds, At, GoTo, Asks, Lowers, lorawan, flags, LInv, LTypeOK, Places, Scans, Spends
<1>2. "resume" \in Cmds \ {"start"} /\ "resume" \notin {}
  BY DEF Cmds, Jobs, Steers, Scans
<1>3. Sends(<<Event("resume", 0)>>, {}) /\ 0 \in Nat
  BY <1>1 DEF FixEnds
<1>4. state = "SETUP" => comm'.at = "start" /\ "resume" \in {"suspend", "resume"}
  BY <1>1 DEF LInv, Starting
<1>5. \/ ~Quiet' \/ "resume" = "resume"
      \/ Quiet /\ "reset" \notin {} /\ "resume" \notin Steers
  BY <1>1 DEF Quiet, Steers, Scans
<1>6. /\ que' \in Seq(Events) /\ Len(que') <= QueMax
      /\ lost' \subseteq Cmds \cup {"crossed"}
      /\ Starting' /\ Restarting' /\ Returns'
      /\ \A k : k # "resume" => /\ Without(que, k) => Without(que', k)
                           /\ \A m : Single(que, k, m) => Single(que', k, m)
  BY <1>1, <1>2, <1>3, <1>4, <1>5, SendsOne
<1>7. LTypeOK'
  BY <1>1, <1>6 DEF LInv, LTypeOK
<1>8. "resume" \notin Users
  BY DEF Users
<1>9. Awaited'
  BY <1>1, <1>6, <1>8, NoneAsked DEF LInv, Users
<1> QED BY <1>6, <1>7, <1>9 DEF LInv

(* The end of a start or a restart.                                        *)
LEMMA LorawanUpStep == ASSUME LInv, LorawanUp PROVE LInv'
<1>1. /\ comm.at \in {"start", "reset"} /\ enabled /\ UNCHANGED lp0 /\ UNCHANGED burst
      /\ comm' = [at |-> "almanac", no |-> comm.no + 1]
      /\ comm.no \in Nat /\ comm' \in [at : Places, no : Nat] /\ budget' \in Nat
      /\ UNCHANGED <<state, enabled, run>> /\ lp0' \in BOOLEAN /\ burst' \in BOOLEAN
      /\ UNCHANGED <<done, answer>>
  BY DEF LorawanUp, At, GoTo, Asks, Lowers, lorawan, flags, LInv, LTypeOK, Places, Scans, Spends
<1>2. "almanac" \in Cmds \ {"start"} /\ "resume" \notin {"almanac"}
  BY DEF Cmds, Jobs, Steers, Scans
<1>3. Sends(<<Event("almanac", comm.no + 1)>>, {"almanac"}) /\ comm.no + 1 \in Nat
  BY <1>1 DEF LorawanUp
<1>4. state = "SETUP" => comm'.at = "start" /\ "almanac" \in {"suspend", "resume"}
  BY <1>1 DEF LInv, Starting
<1>5. \/ ~Quiet' \/ "almanac" = "resume"
      \/ Quiet /\ "reset" \notin {"almanac"} /\ "almanac" \notin Steers
  BY <1>1 DEF Quiet, Steers, Scans
<1>6. /\ que' \in Seq(Events) /\ Len(que') <= QueMax
      /\ lost' \subseteq Cmds \cup {"crossed"}
      /\ Starting' /\ Restarting' /\ Returns'
      /\ \A k : k # "almanac" => /\ Without(que, k) => Without(que', k)
                           /\ \A m : Single(que, k, m) => Single(que', k, m)
  BY <1>1, <1>2, <1>3, <1>4, <1>5, SendsOne
<1>7. LTypeOK'
  BY <1>1, <1>6 DEF LInv, LTypeOK
<1>8. "almanac" \notin Users
  BY DEF Users
<1>9. Awaited'
  BY <1>1, <1>6, <1>8, NoneAsked DEF LInv, Users
<1> QED BY <1>6, <1>7, <1>9 DEF LInv

(* An uplink or a network left steers nothing.                             *)
LEMMA PostStep == ASSUME LInv, NEW cmd \in {"uplink", "leave"}, Post(cmd) PROVE LInv'
<1>1. /\ comm.at = "idle" /\ UNCHANGED lp0 /\ UNCHANGED burst
      /\ UNCHANGED comm
      /\ comm.no \in Nat /\ comm' \in [at : Places, no : Nat] /\ budget' \in Nat
      /\ UNCHANGED <<state, enabled, run>> /\ lp0' \in BOOLEAN /\ burst' \in BOOLEAN
      /\ UNCHANGED <<done, answer>>
  BY DEF Post, At, GoTo, Asks, Lowers, lorawan, flags, LInv, LTypeOK, Places, Scans, Spends
<1>2. cmd \in Cmds \ {"start"} /\ "resume" \notin {}
  BY DEF Cmds, Jobs, Steers, Scans
<1>3. Sends(<<Event(cmd, 0)>>, {}) /\ 0 \in Nat
  BY <1>1 DEF Post
<1>4. state = "SETUP" => comm'.at = "start" /\ cmd \in {"suspend", "resume"}
  BY <1>1 DEF LInv, Starting
<1>5. \/ ~Quiet' \/ cmd = "resume"
      \/ Quiet /\ "reset" \notin {} /\ cmd \notin Steers
  BY <1>1 DEF Quiet, Steers, Scans
<1>6. /\ que' \in Seq(Events) /\ Len(que') <= QueMax
      /\ lost' \subseteq Cmds \cup {"crossed"}
      /\ Starting' /\ Restarting' /\ Returns'
      /\ \A k : k # cmd => /\ Without(que, k) => Without(que', k)
                           /\ \A m : Single(que, k, m) => Single(que', k, m)
  BY <1>1, <1>2, <1>3, <1>4, <1>5, SendsOne
<1>7. LTypeOK'
  BY <1>1, <1>6 DEF LInv, LTypeOK
<1>8. cmd \notin Users
  BY DEF Users
<1>9. Awaited'
  BY <1>1, <1>6, <1>8, NoneAsked DEF LInv, Users
<1> QED BY <1>6, <1>7, <1>9 DEF LInv

(* A VHF burst.                                                            *)
LEMMA AskBurstStep == ASSUME LInv, AskBurst PROVE LInv'
<1>1. /\ comm.at = "idle" /\ UNCHANGED lp0
      /\ UNCHANGED comm
      /\ comm.no \in Nat /\ comm' \in [at : Places, no : Nat] /\ budget' \in Nat
      /\ UNCHANGED <<state, enabled, run>> /\ lp0' \in BOOLEAN /\ burst' \in BOOLEAN
      /\ UNCHANGED <<done, answer>>
  BY DEF AskBurst, At, GoTo, Asks, Lowers, lorawan, flags, LInv, LTypeOK, Places, Scans, Spends
<1>2. "vhf" \in Cmds \ {"start"} /\ "resume" \notin {"vhf"}
  BY DEF Cmds, Jobs, Steers, Scans
<1>3. Sends(<<Event("vhf", 0)>>, {"vhf"}) /\ 0 \in Nat
  BY <1>1 DEF AskBurst
<1>4. state = "SETUP" => comm'.at = "start" /\ "vhf" \in {"suspend", "resume"}
  BY <1>1 DEF LInv, Starting
<1>5. \/ ~Quiet' \/ "vhf" = "resume"
      \/ Quiet /\ "reset" \notin {"vhf"} /\ "vhf" \notin Steers
  BY <1>1 DEF Quiet, Steers, Scans
<1>6. /\ que' \in Seq(Events) /\ Len(que') <= QueMax
      /\ lost' \subseteq Cmds \cup {"crossed"}
      /\ Starting' /\ Restarting' /\ Returns'
      /\ \A k : k # "vhf" => /\ Without(que, k) => Without(que', k)
                           /\ \A m : Single(que, k, m) => Single(que', k, m)
  BY <1>1, <1>2, <1>3, <1>4, <1>5, SendsOne
<1>7. LTypeOK'
  BY <1>1, <1>6 DEF LInv, LTypeOK
<1>8. "vhf" \notin Users
  BY DEF Users
<1>9. Awaited'
  BY <1>1, <1>6, <1>8, NoneAsked DEF LInv, Users
<1> QED BY <1>6, <1>7, <1>9 DEF LInv

(* LP0 suspends the modem and is not quiet.                                *)
LEMMA Lp0AsksStep == ASSUME LInv, Lp0Asks PROVE LInv'
<1>1. /\ lp0' = TRUE /\ UNCHANGED burst
      /\ UNCHANGED comm
      /\ comm.no \in Nat /\ comm' \in [at : Places, no : Nat] /\ budget' \in Nat
      /\ UNCHANGED <<state, enabled, run>> /\ lp0' \in BOOLEAN /\ burst' \in BOOLEAN
      /\ UNCHANGED <<done, answer>>
  BY DEF Lp0Asks, At, GoTo, Asks, Lowers, lorawan, flags, LInv, LTypeOK, Places, Scans, Spends
<1>2. "suspend" \in Cmds \ {"start"} /\ "resume" \notin {}
  BY DEF Cmds, Jobs, Steers, Scans
<1>3. Sends(<<Event("suspend", 0)>>, {}) /\ 0 \in Nat
  BY <1>1 DEF Lp0Asks
<1>4. state = "SETUP" => comm'.at = "start" /\ "suspend" \in {"suspend", "resume"}
  BY <1>1 DEF LInv, Starting
<1>5. \/ ~Quiet' \/ "suspend" = "resume"
      \/ Quiet /\ "reset" \notin {} /\ "suspend" \notin Steers
  BY <1>1 DEF Quiet, Steers, Scans
<1>6. /\ que' \in Seq(Events) /\ Len(que') <= QueMax
      /\ lost' \subseteq Cmds \cup {"crossed"}
      /\ Starting' /\ Restarting' /\ Returns'
      /\ \A k : k # "suspend" => /\ Without(que, k) => Without(que', k)
                           /\ \A m : Single(que, k, m) => Single(que', k, m)
  BY <1>1, <1>2, <1>3, <1>4, <1>5, SendsOne
<1>7. LTypeOK'
  BY <1>1, <1>6 DEF LInv, LTypeOK
<1>8. "suspend" \notin Users
  BY DEF Users
<1>9. Awaited'
  BY <1>1, <1>6, <1>8, StillAsked DEF LInv, Users
<1> QED BY <1>6, <1>7, <1>9 DEF LInv

(* LP0 resumes the modem: this undoes what is in the queue.                *)
LEMMA Lp0GivesBackStep == ASSUME LInv, Lp0GivesBack PROVE LInv'
<1>1. /\ lp0 /\ UNCHANGED burst
      /\ UNCHANGED comm
      /\ comm.no \in Nat /\ comm' \in [at : Places, no : Nat] /\ budget' \in Nat
      /\ UNCHANGED <<state, enabled, run>> /\ lp0' \in BOOLEAN /\ burst' \in BOOLEAN
      /\ UNCHANGED <<done, answer>>
  BY DEF Lp0GivesBack, At, GoTo, Asks, Lowers, lorawan, flags, LInv, LTypeOK, Places, Scans, Spends
<1>2. "resume" \in Cmds \ {"start"} /\ "resume" \notin {}
  BY DEF Cmds, Jobs, Steers, Scans
<1>3. Sends(<<Event("resume", 0)>>, {}) /\ 0 \in Nat
  BY <1>1 DEF Lp0GivesBack
<1>4. state = "SETUP" => comm'.at = "start" /\ "resume" \in {"suspend", "resume"}
  BY <1>1 DEF LInv, Starting
<1>5. \/ ~Quiet' \/ "resume" = "resume"
      \/ Quiet /\ "reset" \notin {} /\ "resume" \notin Steers
  BY <1>1 DEF Quiet, Steers, Scans
<1>6. /\ que' \in Seq(Events) /\ Len(que') <= QueMax
      /\ lost' \subseteq Cmds \cup {"crossed"}
      /\ Starting' /\ Restarting' /\ Returns'
      /\ \A k : k # "resume" => /\ Without(que, k) => Without(que', k)
                           /\ \A m : Single(que, k, m) => Single(que', k, m)
  BY <1>1, <1>2, <1>3, <1>4, <1>5, SendsOne
<1>7. LTypeOK'
  BY <1>1, <1>6 DEF LInv, LTypeOK
<1>8. "resume" \notin Users
  BY DEF Users
<1>9. Awaited'
  BY <1>1, <1>6, <1>8, StillAsked DEF LInv, Users
<1> QED BY <1>6, <1>7, <1>9 DEF LInv

(* A restart undoes the suspension that is put before it.                  *)
LEMMA AskResetStep == ASSUME LInv, AskReset PROVE LInv'
<1> DEFINE es == <<Event("suspend", 0), Event("reset", 0)>>
<1>1. /\ comm.at = "idle" /\ comm' = [comm EXCEPT !.at = "reset"] /\ comm'.at = "reset"
      /\ comm.no \in Nat /\ comm' \in [at : Places, no : Nat] /\ budget' \in Nat
      /\ UNCHANGED <<state, enabled, run, burst, lp0, done, answer>>
  BY DEF AskReset, At, GoTo, lorawan, flags, LInv, LTypeOK, Places, Scans, Spends
<1>2. /\ es \in Seq(Events) /\ Len(es) = 2 /\ DOMAIN es = 1 .. 2
      /\ es[1].cmd = "suspend" /\ es[2].cmd = "reset"
  <2>1. Event("suspend", 0) \in Events /\ Event("reset", 0) \in Events
    BY DEF Event, Events, Cmds, Steers
  <2> QED BY <2>1 DEF Event
<1>3. Sends(es, {"reset"}) /\ que \in Seq(Events)
  BY DEF AskReset, LInv, LTypeOK
<1> HIDE DEF es
<1>4. /\ Len(es) >= 1 /\ es[Len(es)].cmd = "reset" /\ state # "SETUP"
      /\ \A i \in DOMAIN es : es[i].cmd \in {"suspend", "reset"}
  BY <1>1, <1>2 DEF LInv, Starting
<1>5. /\ que' \in Seq(Events) /\ Len(que') <= QueMax
      /\ lost' \subseteq Cmds \cup {"crossed"}
      /\ Starting' /\ Restarting' /\ Returns'
  BY <1>1, <1>2, <1>3, <1>4, SendKeeps
<1>6. LTypeOK'
  BY <1>1, <1>5 DEF LInv, LTypeOK
<1>7. \A k \in Users : Without(es, k)
  BY <1>4 DEF Without, Users
<1>8. \A k \in Users : Without(que, k) => Without(que', k)
  BY <1>2, <1>3, <1>4, <1>7, SendAsks
<1>9. Awaited'
  BY <1>1, <1>8, NoneAsked DEF LInv, Users
<1> QED BY <1>5, <1>6, <1>9 DEF LInv

-----------------------------------------------------------------------------
(* Steps that take an event                                                *)

(* What all of them keep.                                                  *)
LEMMA TakeKeeps ==
    ASSUME LInv, NEW c, Takes(c)
    PROVE  /\ run = Idle /\ run.job = "none" /\ state # "INIT"
           /\ que' \in Seq(Events) /\ Len(que') <= QueMax
           /\ Head(que) \in Events /\ Head(que).cmd = c /\ Head(que) = que[1]
           /\ \A i \in DOMAIN que' : que'[i].cmd # "start"
           /\ c = "start" => state = "SETUP"
           /\ state = "SETUP" =>
                 /\ c \in {"start", "suspend", "resume"}
                 /\ \A i \in DOMAIN que' : que'[i].cmd \in {"start", "suspend", "resume"}
           /\ que' # <<>> /\ que'[Len(que')].cmd = "reset" => comm.at = "reset"
           /\ que' = <<>> /\ c \in {"reset", "start"} => comm.at \in {"reset", "start"}
           /\ Obeyed /\ Quiet =>
                 /\ Undone(que')
                 /\ c \notin Steers => (Silent(que') => Up)
                 /\ c = "suspend" => ~Silent(que')
           /\ \A k : /\ Without(que, k) => Without(que', k)
                     /\ \A m : Single(que, k, m) =>
                           Single(que', k, m) /\ (k = c => que[1].no = m /\ Without(que', k))
<1>1. /\ run = Idle /\ state # "INIT" /\ que' = Tail(que)
      /\ LTypeOK /\ Starting /\ Restarting /\ Returns
      /\ que \in Seq(Events) /\ Len(que) <= QueMax
  BY DEF Takes, LInv, LTypeOK
<1>2. /\ que' \in Seq(Events) /\ Len(que') <= QueMax /\ que # <<>>
      /\ Head(que) \in Events /\ Head(que).cmd = c /\ c = que[1].cmd
      /\ que' # <<>> => que'[Len(que')] = que[Len(que)]
      /\ que' = <<>> => que[Len(que)].cmd = c
      /\ 1 \in DOMAIN que
      /\ Without(que', "start")
      /\ Ready(que) => Undone(que')
      /\ Ready(que) /\ c \notin Steers => Ready(que')
      /\ Undone(que) /\ c = "suspend" => ~Silent(que')
      /\ \A k : Without(que, k) => Without(que', k)
      /\ \A k, m : Single(que, k, m) =>
            Single(que', k, m) /\ (k = c => que[1].no = m /\ Without(que', k))
  BY <1>1, TakeLeaves
<1>3. Head(que) = que[1] /\ \A i \in DOMAIN que' : i + 1 \in DOMAIN que /\ que'[i] = que[i + 1]
  <2>1. /\ Head(que) = que[1] /\ Len(Tail(que)) = Len(que) - 1 /\ Len(que) \in Nat
        /\ \A i \in 1 .. Len(que) - 1 : Tail(que)[i] = que[i + 1]
    BY <1>1, <1>2, TailQue
  <2>2. DOMAIN que' = 1 .. Len(que') /\ DOMAIN que = 1 .. Len(que)
    BY <1>1, <1>2
  <2> QED BY <1>1, <2>1, <2>2
<1>4. state = "SETUP" =>
         /\ c \in {"start", "suspend", "resume"}
         /\ \A i \in DOMAIN que' : que'[i].cmd \in {"start", "suspend", "resume"}
  BY <1>1, <1>2, <1>3 DEF Starting
<1>5. c = "start" => state = "SETUP"
  BY <1>1, <1>2 DEF Starting
<1>6. que' # <<>> /\ que'[Len(que')].cmd = "reset" => comm.at = "reset"
  BY <1>1, <1>2 DEF Restarting
<1>7. que' = <<>> /\ c \in {"reset", "start"} => comm.at \in {"reset", "start"}
  BY <1>1, <1>2, <1>5 DEF Restarting, Starting
<1>8. Obeyed /\ Quiet => Ready(que)
  BY <1>1 DEF Returns
<1>9. \A i \in DOMAIN que' : que'[i].cmd # "start"
  BY <1>2 DEF Without
<1> QED BY <1>1, <1>2, <1>3, <1>4, <1>5, <1>6, <1>7, <1>8, <1>9 DEF Ready, Idle

(* Nothing that was asked for is taken, or it is given up.                 *)
LEMMA TakeAsked ==
    ASSUME LInv, NEW c, Takes(c), UNCHANGED <<comm, done, answer>>,
           run' = run \/ run'.job \notin Users
    PROVE  Awaited'
BY TakeKeeps, StillAsked DEF LInv

(* A start or a restart is taken.                                          *)
LEMMA EngineStartStep == ASSUME LInv, EngineStart PROVE LInv'
<1>1. PICK c \in {"start", "reset"} : Takes(c)
  BY DEF EngineStart
<1>2. state' = "INIT" /\ UNCHANGED <<enabled, run, burst, comm, done, answer, lp0, lost, budget>>
  BY DEF EngineStart, flags
<1>3. LTypeOK' /\ Starting'
  BY <1>1, <1>2, TakeKeeps DEF LInv, LTypeOK, Starting
<1>4. Restarting'
  BY <1>1, <1>2, TakeKeeps DEF Restarting
<1>5. Returns'
  BY <1>1, <1>2, TakeKeeps DEF Returns, Ready, Up, Obeyed, Quiet, Undone, Silent
<1> QED BY <1>1, <1>2, <1>3, <1>4, <1>5, TakeAsked DEF LInv

(* A suspension is taken: the one that undoes it is still behind it.       *)
LEMMA SuspendStep == ASSUME LInv, Suspend PROVE LInv'
<1>1. Takes("suspend")
  BY DEF Suspend
<1>2. /\ state' = state \/ (state = "ENGINE" /\ state' = "SUSPENDED")
      /\ enabled' = enabled \/ enabled' = FALSE
      /\ lost \subseteq lost' /\ lost' \subseteq lost \cup {"suspend"} /\ budget' \in Nat
      /\ UNCHANGED <<run, burst, comm, done, answer, lp0>>
  BY DEF Suspend, flags, Works, Fails, Loses, Spends, LInv, LTypeOK
<1>3. LTypeOK'
  <2>1. lost' \subseteq Cmds \cup {"crossed"}
    BY <1>2 DEF LInv, LTypeOK, Cmds, Steers
  <2> QED BY <1>1, <1>2, <2>1, TakeKeeps DEF LInv, LTypeOK
<1>6. Starting'
  BY <1>1, <1>2, TakeKeeps DEF LInv, Starting
<1>4. Restarting'
  BY <1>1, <1>2, TakeKeeps DEF Restarting
<1>5. Returns'
  BY <1>1, <1>2, TakeKeeps DEF Returns, Ready, Obeyed, Quiet, Undone, Silent
<1> QED BY <1>1, <1>2, <1>3, <1>4, <1>5, <1>6, TakeAsked DEF LInv

(* A resume is taken: with nothing behind it the modem is up.              *)
LEMMA ResumeStep == ASSUME LInv, Resume PROVE LInv'
<1>1. Takes("resume")
  BY DEF Resume
<1>2. /\ run = Idle /\ state \in {"SETUP", "ENGINE", "SUSPENDED"}
  BY <1>1, TakeKeeps DEF LInv, LTypeOK
<1>3. /\ \/ state' = "ENGINE" /\ enabled' = TRUE
            /\ (run' = Idle \/ run' = [Idle EXCEPT !.job = "retake"])
         \/ UNCHANGED <<state, enabled, run>> /\ "resume" \in lost'
         \/ UNCHANGED <<state, enabled, run>> /\ state = "SETUP"
      /\ lost \subseteq lost' /\ lost' \subseteq lost \cup {"resume", "crossed"}
      /\ budget' \in Nat
      /\ UNCHANGED <<burst, comm, done, answer, lp0>>
  BY <1>2 DEF Resume, flags, Works, Fails, Loses, Crossed, Spends, LInv, LTypeOK
<1>4. run' \in Runs /\ run'.parts = 0 /\ run'.job \notin Users
  BY <1>2, <1>3 DEF Idle, Runs, Users
<1>5. LTypeOK'
  <2>1. lost' \subseteq Cmds \cup {"crossed"}
    BY <1>3 DEF LInv, LTypeOK, Cmds, Steers
  <2>2. state' \in {"SETUP", "INIT", "ENGINE", "SUSPENDED"} /\ enabled' \in BOOLEAN
    BY <1>2, <1>3 DEF LInv, LTypeOK
  <2>3. que' \in Seq(Events) /\ Len(que') <= QueMax
    BY <1>1, TakeKeeps
  <2>4. UNCHANGED <<burst, comm, done, answer, lp0>> /\ budget' \in Nat
    BY <1>3
  <2> QED BY <1>4, <2>1, <2>2, <2>3, <2>4 DEF LInv, LTypeOK
<1>6. Starting'
  BY <1>1, <1>2, <1>3, TakeKeeps DEF LInv, Starting
<1>7. Restarting'
  BY <1>1, <1>2, <1>3, TakeKeeps DEF Restarting
<1>8. Returns'
  BY <1>1, <1>2, <1>3, TakeKeeps DEF Returns, Ready, Up, Obeyed, Quiet, Undone, Silent
<1> QED BY <1>1, <1>3, <1>4, <1>5, <1>6, <1>7, <1>8, TakeAsked DEF LInv

(* An uplink, the end of a network session, a scan that is skipped.        *)
LEMMA TakeOtherStep ==
    ASSUME LInv, NEW c, Takes(c), c \notin Steers,
           UNCHANGED <<state, enabled, burst, comm, done, answer, lp0>>, budget' \in Nat,
           run' = run \/ (state # "SETUP" /\ run' = [Idle EXCEPT !.job = "uplink"]),
           lost \subseteq lost', lost' \subseteq Cmds \cup {"crossed"}
    PROVE  LInv'
<1>1. run = Idle /\ state \notin {"INIT", "SETUP"}
  BY TakeKeeps DEF Steers
<1>2. run' \in Runs /\ run'.parts = 0 /\ run'.job \notin Users
  BY <1>1 DEF Idle, Runs, Users
<1>3. LTypeOK' /\ Starting'
  BY <1>1, <1>2, TakeKeeps DEF LInv, LTypeOK, Starting
<1>4. Restarting'
  BY <1>1, TakeKeeps DEF Restarting
<1>5. Up => Up'
  BY <1>1 DEF Up, Idle, Jobs, Scans
<1>6. Returns'
  BY <1>5, TakeKeeps DEF Returns, Ready, Obeyed, Quiet, Undone, Silent
<1> QED BY <1>2, <1>3, <1>4, <1>6, TakeAsked DEF LInv

(* An uplink is taken.                                                     *)
LEMMA UplinkStep == ASSUME LInv, Uplink PROVE LInv'
<1>1. /\ Takes("uplink") /\ "uplink" \notin Steers /\ budget' \in Nat
      /\ UNCHANGED <<state, enabled, burst, comm, done, answer, lp0, lost>>
      /\ run' = run \/ (state = "ENGINE" /\ run' = [Idle EXCEPT !.job = "uplink"])
      /\ lost \subseteq Cmds \cup {"crossed"}
  BY DEF Uplink, Steers, flags, LInv, LTypeOK
<1> QED BY <1>1, TakeOtherStep

(* A network is left.                                                      *)
LEMMA LeaveStep == ASSUME LInv, Leave PROVE LInv'
<1>1. /\ Takes("leave") /\ "leave" \notin Steers /\ budget' \in Nat
      /\ UNCHANGED <<state, enabled, run, burst, comm, done, answer, lp0, lost>>
      /\ lost \subseteq Cmds \cup {"crossed"}
  BY DEF Leave, Steers, flags, LInv, LTypeOK
<1> QED BY <1>1, TakeOtherStep

(* A scan is skipped: nobody has suspended the modem for it.               *)
LEMMA SkipJobStep == ASSUME LInv, NEW k \in Jobs, SkipJob(k) PROVE LInv'
<1>1. /\ Takes(k) /\ k \notin Steers /\ budget' \in Nat
      /\ UNCHANGED <<state, enabled, run, burst, comm, done, answer, lp0>>
      /\ lost' = lost \cup {k} /\ lost' \subseteq Cmds \cup {"crossed"}
  BY DEF SkipJob, Steers, Loses, Jobs, Scans, Cmds, lorawan, flags, LInv, LTypeOK
<1> QED BY <1>1, TakeOtherStep

(* A radio job takes the place of its event.                               *)
LEMMA JobStartsStep == ASSUME LInv, NEW k \in Jobs, JobStarts(k) PROVE LInv'
<1>1. /\ Takes(k) /\ k \notin Steers /\ budget' \in Nat
      /\ run' = [job |-> k, no |-> Head(que).no,
                 parts |-> IF k = "sband" THEN SBandParts ELSE 1]
      /\ state' \in {state, "SUSPENDED"}
      /\ UNCHANGED <<enabled, burst, comm, done, answer, lp0, lost>>
  BY DEF JobStarts, Steers, Jobs, Scans, Works, Spends, flags, LInv, LTypeOK
<1>2. run = Idle /\ state \notin {"INIT", "SETUP"} /\ Head(que).no \in Nat /\ Head(que) = que[1]
  BY <1>1, TakeKeeps DEF Steers, Events
<1>3. run' \in Runs /\ run'.job = k /\ run'.no = que[1].no
      /\ (run'.job # "sband" => run'.parts <= 1)
  BY <1>1, <1>2, ScanAssumption DEF Runs
<1>4. LTypeOK' /\ Starting'
  BY <1>1, <1>2, <1>3, TakeKeeps DEF LInv, LTypeOK, Starting
<1>5. Restarting'
  BY <1>1, <1>2, TakeKeeps DEF Restarting
<1>6. Up => Up'
  BY <1>1, <1>2, <1>3 DEF Up, Idle, Jobs, Scans
<1>7. Returns'
  BY <1>1, <1>6, TakeKeeps DEF Returns, Ready, Obeyed, Quiet, Undone, Silent
<1>8. Awaited'
  <2>1. CASE k \notin Users
    BY <1>1, <1>3, <2>1, TakeAsked
  <2>2. CASE k \in Users
    <3>1. ~Without(que, k)
      <4>1. 1 \in DOMAIN que /\ que[1].cmd = k
        BY <1>1, TakeLeaves DEF LInv, LTypeOK
      <4> QED BY <4>1 DEF Without
    <3>2. At(k) /\ ~done[k] /\ Single(que, k, comm.no)
      BY <2>2, <3>1 DEF LInv, Awaited
    <3>3. que[1].no = comm.no /\ Without(que', k)
      BY <1>1, <3>2, TakeKeeps
    <3>4. \A j \in Users : j # k => Without(que', j) /\ ~At(j)
      <4> SUFFICES ASSUME NEW j \in Users, j # k PROVE Without(que', j) /\ ~At(j)
        OBVIOUS
      <4>1. ~At(j)
        BY <3>2 DEF At
      <4>2. Without(que, j)
        BY <4>1, NotAsked DEF LInv
      <4> QED BY <1>1, <4>1, <4>2, TakeKeeps
    <3> QED BY <1>1, <1>3, <3>2, <3>3, <3>4 DEF Awaited, At
  <2> QED BY <2>1, <2>2
<1> QED BY <1>4, <1>5, <1>7, <1>8 DEF LInv

-----------------------------------------------------------------------------
(* Steps without the queue                                                 *)

(* The communication thread goes on: to a place in which it is as quiet.   *)
LEMMA GoOn ==
    ASSUME LInv, NEW to \in {"idle", "gps"}, GoTo(to),
           comm.at \notin {"start", "reset"}, to = "gps" \/ comm.at \notin {"fix", "gps"},
           UNCHANGED <<lorawan, que, flags, lp0, lost, budget>>,
           \A k \in Users : At(k) => done[k]
    PROVE  LInv'
<1>1. /\ comm' = [comm EXCEPT !.at = to] /\ comm'.at = to
      /\ comm' \in [at : Places, no : Nat]
      /\ UNCHANGED <<state, enabled, run, burst, que, done, answer, lp0, lost, budget>>
  BY DEF GoTo, lorawan, flags, LInv, LTypeOK, Places
<1>2. LTypeOK' /\ Starting' /\ Restarting'
  BY <1>1 DEF LInv, LTypeOK, Starting, Restarting
<1>3. Returns'
  <2>1. Obeyed' /\ Quiet' => Obeyed /\ Quiet
    BY <1>1 DEF Obeyed, Quiet
  <2>2. Ready(que) => Ready(que)'
    BY <1>1 DEF Ready, Up, Undone, Silent
  <2> QED BY <2>1, <2>2 DEF LInv, Returns
<1>4. \A k \in Users : Without(que, k) /\ run.job # k
  BY DEF LInv, Awaited
<1>5. Awaited'
  BY <1>1, <1>4 DEF Awaited, At, Users, Without
<1> QED BY <1>2, <1>3, <1>5 DEF LInv

(* The communication thread goes on, each wait in its turn.                *)
LEMMA CommGoesOnStep == ASSUME LInv, CommGoesOn PROVE LInv'
<1>1. ASSUME NEW k \in {"gnss", "wifi", "almanac"}, ScanAnswered(k) PROVE LInv'
  <2>1. GoTo("idle") /\ At(k) /\ done[k] /\ UNCHANGED <<lorawan, que, flags, lp0, lost, budget>>
    BY <1>1 DEF ScanAnswered
  <2> QED BY <2>1, GoOn DEF At
<1>2. CASE SecondAnswered
  <2>1. GoTo("idle") /\ At("sband2") /\ UNCHANGED <<lorawan, que, flags, lp0, lost, budget>>
    BY <1>2 DEF SecondAnswered
  <2> QED BY <2>1, GoOn DEF At, Users
<1>3. CASE AlmanacTimeout
  <2>1. GoTo("idle") /\ At("almanac") /\ UNCHANGED <<lorawan, que, flags, lp0, lost, budget>>
    BY <1>3 DEF AlmanacTimeout
  <2> QED BY <2>1, GoOn DEF At, Users
<1>4. CASE FixStarts
  <2>1. GoTo("gps") /\ At("fix") /\ UNCHANGED <<lorawan, que, flags, lp0, lost, budget>>
    BY <1>4 DEF FixStarts
  <2> QED BY <2>1, GoOn DEF At, Users
<1> QED BY <1>1, <1>2, <1>3, <1>4, SecondMessageStep, FixEndsStep, LorawanUpStep DEF CommGoesOn

(* The engine starts: LoRaWAN is enabled.                                  *)
LEMMA EngineInitStep == ASSUME LInv, EngineInit PROVE LInv'
<1>1. /\ state = "INIT" /\ run = Idle /\ state' = "ENGINE" /\ enabled' = TRUE
      /\ UNCHANGED <<run, burst, que, comm, done, answer, lp0, lost, budget>>
  BY DEF EngineInit, flags
<1>2. LTypeOK' /\ Starting' /\ Restarting'
  BY <1>1 DEF LInv, LTypeOK, Starting, Restarting
<1>3. Returns'
  BY <1>1 DEF LInv, Returns, Obeyed, Quiet, Ready, Up, Undone, Silent
<1> QED BY <1>1, <1>2, <1>3, StillAsked DEF LInv

(* The LoRaWAN thread is free again.                                       *)
LEMMA FreeStep == ASSUME LInv, Retaken \/ UplinkSent PROVE LInv'
<1>1. /\ run.job \in {"retake", "uplink"} /\ run' = Idle
      /\ UNCHANGED <<state, enabled, burst, que, comm, done, answer, lp0, lost, budget>>
  BY DEF Retaken, UplinkSent, flags
<1>2. run' \in Runs /\ run'.parts = 0 /\ run'.job \notin Users /\ run # Idle
  BY <1>1 DEF Runs, Idle, Users
<1>3. LTypeOK' /\ Starting' /\ Restarting'
  BY <1>1, <1>2 DEF LInv, LTypeOK, Starting, Restarting
<1>4. Up => Up'
  BY <1>1 DEF Up, Jobs, Scans
<1>5. Returns'
  BY <1>1, <1>4 DEF LInv, Returns, Obeyed, Quiet, Ready, Undone, Silent
<1> QED BY <1>1, <1>2, <1>3, <1>5, StillAsked DEF LInv

(* A radio job reports its end, and the modem is back.                     *)
LEMMA JobEndsStep == ASSUME LInv, NEW k \in Jobs, JobEnds(k) PROVE LInv'
<1>1. /\ run.job = k /\ run # Idle /\ run \in Runs /\ state \notin {"SETUP", "INIT"}
      /\ state \in {"ENGINE", "SUSPENDED"}
  BY DEF JobEnds, Idle, Jobs, Scans, LInv, LTypeOK, Starting, Restarting
<1>2. /\ \/ state' = "ENGINE" /\ lost' = lost
         \/ state' = state /\ "resume" \in lost'
      /\ lost \subseteq lost' /\ lost' \subseteq lost \cup {"resume"}
      /\ budget' \in Nat
      /\ burst' \in BOOLEAN /\ UNCHANGED <<enabled, que, comm, lp0>>
  BY DEF JobEnds, Works, Fails, Loses, Spends, LInv, LTypeOK
<1>3. run' = IF run.parts > 1 THEN [run EXCEPT !.parts = 1] ELSE Idle
  BY DEF JobEnds
<1>4. /\ run' \in Runs /\ run'.parts <= 1 /\ run'.job \notin Users
  <2>1. CASE run.parts > 1
    BY <1>1, <1>3, <2>1 DEF Runs, LInv, LTypeOK, Users
  <2>2. CASE ~(run.parts > 1)
    BY <1>3, <2>2 DEF Runs, Idle, Users
  <2> QED BY <2>1, <2>2
<1>5. /\ done' \in [Scans -> BOOLEAN] /\ answer' \in [Scans -> Nat]
      /\ \A j \in Scans : j # k => done'[j] = done[j] /\ answer'[j] = answer[j]
      /\ k \in Scans => done'[k] = TRUE /\ answer'[k] = run.no
  <2>1. CASE k = "vhf"
    BY <2>1 DEF JobEnds, Answers, flags, LInv, LTypeOK, Scans
  <2>2. CASE k # "vhf"
    <3>1. k \in Scans /\ run.no \in Nat
      BY <1>1, <2>2 DEF Jobs, Runs
    <3>2. done' = [done EXCEPT ![k] = TRUE] /\ answer' = [answer EXCEPT ![k] = run.no]
      BY <2>2 DEF JobEnds, Answers
    <3> QED BY <3>1, <3>2 DEF LInv, LTypeOK
  <2> QED BY <2>1, <2>2
<1>6. LTypeOK'
  <2>1. lost' \subseteq Cmds \cup {"crossed"}
    BY <1>2 DEF LInv, LTypeOK, Cmds, Steers
  <2> QED BY <1>1, <1>2, <1>4, <1>5, <2>1 DEF LInv, LTypeOK
<1>7. Starting' /\ Restarting'
  BY <1>1, <1>2 DEF LInv, Starting, Restarting
<1>8. Returns'
  <2> SUFFICES ASSUME Obeyed', Quiet' PROVE Ready(que)'
    BY DEF Returns
  <2>1. Obeyed /\ Quiet /\ state' = "ENGINE"
    BY <1>2 DEF Obeyed, Quiet
  <2>2. Up => Up'
    BY <1>1, <1>2, <2>1 DEF Up
  <2> QED BY <1>2, <2>1, <2>2 DEF LInv, Returns, Ready, Undone, Silent
<1>9. Awaited'
  <2> SUFFICES ASSUME NEW j \in Users
               PROVE  /\ \/ Without(que', j)
                         \/ At(j)' /\ ~done'[j] /\ run'.job # j /\ Single(que', j, comm'.no)
                      /\ run'.job = j => At(j)' /\ ~done'[j] /\ run'.no = comm'.no
                      /\ At(j)' /\ done'[j] => answer'[j] = comm'.no
    BY DEF Awaited
  <2>1. j \in Scans /\ run'.job # j
    BY <1>4 DEF Users, Scans
  <2>2. CASE j = k
    <3>1. Without(que, j) /\ run.no = comm.no
      BY <1>1, <2>2 DEF LInv, Awaited
    <3> QED BY <1>2, <1>5, <2>1, <2>2, <3>1 DEF At
  <2>3. CASE j # k
    BY <1>1, <1>2, <1>5, <2>1, <2>3 DEF LInv, Awaited, At
  <2> QED BY <2>2, <2>3
<1> QED BY <1>6, <1>7, <1>8, <1>9 DEF LInv

-----------------------------------------------------------------------------
(* Starts                                                                  *)

(* A device that starts.                                                   *)
Beginning ==
    /\ state = "SETUP" /\ enabled = FALSE /\ que = <<Event("start", 0)>> /\ run = Idle
    /\ burst = FALSE /\ comm = [at |-> "start", no |-> 0]
    /\ done = [k \in Scans |-> FALSE] /\ answer = [k \in Scans |-> 0]
    /\ lp0 = FALSE /\ lost = {} /\ budget \in Nat

(* A device that starts is in the invariant,                               *)
LEMMA BeginsWell == Beginning => LInv
<1> SUFFICES ASSUME Beginning PROVE LInv
  OBVIOUS
<1> USE DEF Beginning
<1>1. /\ que \in Seq(Events) /\ Len(que) = 1 /\ DOMAIN que = {1} /\ que # <<>>
      /\ que[1].cmd = "start"
  BY OneEvent, EmptySeq DEF Cmds, Steers
<1>2. run \in Runs /\ run.parts = 0 /\ run.job \notin Users
  BY DEF Runs, Idle, Users
<1>3. LTypeOK
  <2>1. comm \in [at : Places, no : Nat]
    BY DEF Places
  <2>2. Len(que) <= QueMax
    BY <1>1, ScanAssumption
  <2>3. done \in [Scans -> BOOLEAN] /\ answer \in [Scans -> Nat]
    OBVIOUS
  <2>4. run.job # "sband" => run.parts <= 1
    BY <1>2
  <2> QED BY <1>1, <1>2, <2>1, <2>2, <2>3, <2>4 DEF LTypeOK
<1>4. Starting /\ Restarting
  BY <1>1 DEF Starting, Restarting
<1>5. Returns
  BY <1>1 DEF Returns, Ready, Undone, Silent, Up, Steers
<1>6. Awaited
  BY <1>1, <1>2 DEF Awaited, Without, Users, At
<1> QED BY <1>3, <1>4, <1>5, <1>6 DEF LInv

(* the first time                                                          *)
LEMMA StartedInit == LInit => LInv
BY BeginsWell, ScanAssumption DEF LInit, Beginning

(* and after every reboot.                                                 *)
LEMMA StartedAgain == ASSUME LInv, Reboot PROVE LInv'
<1>1. Beginning'
  BY DEF Reboot, Start, LInv, LTypeOK, Beginning
<1> QED BY <1>1, BeginsWell, PTL

-----------------------------------------------------------------------------
(* The invariant and what follows from it                                  *)

(* No step changes anything that the invariant is about.                   *)
LEMMA LStutter == ASSUME LInv, UNCHANGED lvars PROVE LInv'
<1>1. UNCHANGED <<state, enabled, run, burst, que, comm, done, answer, lp0, lost, budget>>
  BY DEF lvars, lorawan, flags
<1>2. LTypeOK' /\ Starting' /\ Restarting'
  BY <1>1 DEF LInv, LTypeOK, Starting, Restarting
<1>3. Returns'
  BY <1>1 DEF LInv, Returns, Obeyed, Quiet, Ready, Undone, Silent, Up
<1>4. Awaited'
  BY <1>1 DEF LInv, Awaited, Without, Single, At
<1> QED BY <1>2, <1>3, <1>4 DEF LInv

(* Every step of the three threads keeps the invariant.                    *)
LEMMA LNextInv == LInv /\ [LNext]_lvars => LInv'
<1> SUFFICES ASSUME LInv, [LNext]_lvars PROVE LInv'
  OBVIOUS
<1>1. CASE LorawanThread
  <2>1. CASE \E k \in Jobs : SkipJob(k) \/ JobStarts(k) \/ JobEnds(k)
    BY <2>1, SkipJobStep, JobStartsStep, JobEndsStep
  <2>2. CASE EngineStart \/ EngineInit \/ Suspend \/ Resume
    BY <2>2, EngineStartStep, EngineInitStep, SuspendStep, ResumeStep
  <2>3. CASE Retaken \/ Uplink \/ UplinkSent \/ Leave
    BY <2>3, FreeStep, UplinkStep, LeaveStep
  <2> QED BY <1>1, <2>1, <2>2, <2>3 DEF LorawanThread, Jobs
<1>2. CASE CommGoesOn
  BY <1>2, CommGoesOnStep
<1>3. CASE CommAsks
  <2>1. CASE \E k \in {"gnss", "wifi", "sband"} : AskScan(k)
    BY <2>1, AskScanStep
  <2>2. CASE AskAlmanac \/ AskFix \/ AskReset \/ AskBurst
    BY <2>2, AskAlmanacStep, AskFixStep, AskResetStep, AskBurstStep
  <2>3. CASE \E cmd \in {"uplink", "leave"} : Post(cmd)
    BY <2>3, PostStep
  <2> QED BY <1>3, <2>1, <2>2, <2>3 DEF CommAsks
<1>4. CASE Reboot \/ Lp0Asks \/ Lp0GivesBack
  BY <1>4, StartedAgain, Lp0AsksStep, Lp0GivesBackStep
<1>5. CASE UNCHANGED lvars
  BY <1>5, LStutter
<1> QED BY <1>1, <1>2, <1>3, <1>4, <1>5 DEF LNext

(* The threads never leave the invariant.                                  *)
LEMMA LInvariant == LSpec => []LInv
BY StartedInit, LNextInv, PTL DEF LSpec

(* The modem comes back: when neither the LP0 thread nor a fix uses the    *)
(* radio, nothing is left in the queue and no radio job is under way,      *)
(* LoRaWAN is enabled and the engine is in use or about to be, whatever    *)
(* the order in which the two threads suspended and resumed it, and        *)
(* however many of their events a full queue has lost, as long as none was *)
(* a resume or a restart and the chip never refused a resume               *)
(* (lorawan.c:804-842).                                                    *)
THEOREM ModemComesBack == LSpec => []ModemBack
<1>1. LInv => ModemBack
  <2> SUFFICES ASSUME LInv, At("idle"), ~lp0, que = <<>>, run = Idle,
                      {"resume", "reset"} \cap lost = {}
               PROVE  enabled /\ state \in {"ENGINE", "INIT"}
    BY DEF ModemBack
  <2>1. comm.at = "idle" /\ run.job = "none" /\ DOMAIN que = {}
    BY DEF At, Idle
  <2>2. state # "SETUP" /\ (state = "INIT" => enabled)
    BY <2>1 DEF LInv, Starting, Restarting
  <2>3. Obeyed /\ Quiet
    BY <2>1 DEF Obeyed, Quiet
  <2>4. Up
    BY <2>1, <2>3 DEF LInv, Returns, Ready, Silent
  <2> QED BY <2>1, <2>2, <2>4 DEF Up, Jobs, Scans
<1> QED BY <1>1, LInvariant, PTL

(* Where the communication thread can leave the wait for a scan: at the    *)
(* flag.                                                                   *)
LEMMA LeavesAtFlag ==
    ASSUME LInv, LNext, NEW k \in Users, At(k), comm'.at = "idle"
    PROVE  done[k]
<1>1. comm.at = k /\ k \in {"gnss", "wifi"} /\ comm.at # comm'.at
  BY DEF At, Users
<1> HIDE DEF At
<1>2. CASE LorawanThread
  <2>1. comm' = comm
    BY <1>2 DEF LorawanThread, EngineStart, EngineInit, Suspend, Resume, Retaken,
                Uplink, UplinkSent, Leave, SkipJob, JobStarts, JobEnds
  <2> QED BY <1>1, <2>1
<1>3. CASE CommGoesOn
  <2>1. CASE \E j \in {"gnss", "wifi", "almanac"} : ScanAnswered(j)
    BY <1>1, <2>1 DEF ScanAnswered, At
  <2>2. CASE SecondMessage \/ SecondAnswered \/ AlmanacTimeout
    BY <1>1, <2>2 DEF SecondMessage, SecondAnswered, AlmanacTimeout, At
  <2>3. CASE FixStarts \/ FixEnds \/ LorawanUp
    BY <1>1, <2>3 DEF FixStarts, FixEnds, LorawanUp, At
  <2> QED BY <1>3, <2>1, <2>2, <2>3 DEF CommGoesOn
<1>4. CASE CommAsks
  BY <1>1, <1>4 DEF CommAsks, AskScan, AskAlmanac, AskFix, AskReset, AskBurst, Post, At
<1>5. CASE Reboot \/ Lp0Asks \/ Lp0GivesBack
  BY <1>1, <1>5 DEF Reboot, Lp0Asks, Lp0GivesBack, At
<1> QED BY <1>2, <1>3, <1>4, <1>5 DEF LNext

(* A scan that was refused, lost or skipped before leaves nothing behind:  *)
(* the result that ends the wait for a GNSS or Wi-Fi scan is the one of    *)
(* the request that the communication thread waits for.                    *)
THEOREM OwnAnswers == LSpec => OwnAnswer
<1>1. LInv /\ [LNext]_lvars =>
         [\A k \in {"gnss", "wifi"} : At(k) /\ comm'.at = "idle" => answer[k] = comm.no]_lvars
  <2> SUFFICES ASSUME LInv, LNext, NEW k \in Users, At(k), comm'.at = "idle"
               PROVE  answer[k] = comm.no
    BY DEF Users
  <2>1. done[k]
    BY LeavesAtFlag
  <2> QED BY <2>1 DEF LInv, Awaited
<1> QED BY <1>1, LInvariant, PTL DEF LSpec, OwnAnswer
=============================================================================
