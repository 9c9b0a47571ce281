----------------------------- MODULE Intervals -----------------------------
(***************************************************************************)
(* GPS fixes, VHF bursts and satellite messages may each have two          *)
(* intervals, of which the hour of the day selects one.  Three functions   *)
(* do it, written after the same description:                              *)
(*   gps_check_time_interval_type         gps_ublox/gps.c                  *)
(*   vhf_get_current_time_interval        lorawan/vhf/vhf.c                *)
(*   satellite_get_current_time_interval  satellite/satellite.c            *)
(* Their arguments are the setting that there are two intervals (m), the   *)
(* hour (h) and the hours at which the two start (s1, s2).                 *)
(***************************************************************************)
EXTENDS Integers

CONSTANT Hours  \* hours of a day, 24

ASSUME HoursAssumption == Hours \in Nat \ {0}

Day == 0 .. Hours - 1

Outside(h, s1, s2) == (h < s1 /\ h < s2) \/ (h > s1 /\ h > s2)

(* Faulty variant: the interval that starts earlier is taken outside.      *)
GpsIntervalEarlier(m, h, s1, s2) ==
    IF \/ ~m
       \/ h = s1
       \/ Outside(h, s1, s2) /\ s1 <= s2
       \/ s1 < h /\ h < s2
    THEN 1 ELSE 2

GpsInterval(m, h, s1, s2) ==
    IF \/ ~m
       \/ h = s1
       \/ Outside(h, s1, s2) /\ s1 >= s2
       \/ s1 < h /\ h < s2
    THEN 1 ELSE 2

(* satellite_get_current_time_interval() is the same.                      *)
VhfInterval(m, h, s1, s2) ==
    IF \/ ~m
       \/ h = s1
       \/ Outside(h, s1, s2) /\ s1 > s2
       \/ s1 < h /\ h < s2
    THEN 1 ELSE 2

-----------------------------------------------------------------------------
(* Hours from s to h, across midnight if need be.                          *)
Since(s, h) == IF h >= s THEN h - s ELSE h + Hours - s

(* "interval1: [start1, start2)", "interval2: [start2, start1)", and       *)
(* interval 1 if they start together: the one that started last.           *)
Selected(m, h, s1, s2) == IF ~m \/ Since(s1, h) <= Since(s2, h) THEN 1 ELSE 2
=============================================================================
