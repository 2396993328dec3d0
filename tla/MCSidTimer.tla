----------------------------- MODULE MCSidTimer -----------------------------
(***************************************************************************)
(* Instances of SidTimer for TLC: a periodic low power timer armed by the   *)
(* client and by a callback, and single-shot timers of both classes armed   *)
(* by callbacks.                                                            *)
(***************************************************************************)
EXTENDS SidTimer

CONSTANTS t1, t2, t3

ThreeTimers == {t1, t2, t3}
TwoTimers == {t1, t2}

PeriodicTimer == {[timer |-> t1, period |-> 1, class |-> "LOWPOWER"]}

LowPowerTimer == {[timer |-> t2, period |-> Infinity, class |-> "LOWPOWER"]}

SingleShotTimers ==
    LowPowerTimer \cup {[timer |-> t3, period |-> Infinity, class |-> "PRECISE"]}

\* A callback arms the client's timer too.
SharedTimers == SingleShotTimers \cup PeriodicTimer
=============================================================================
