---------------------------- MODULE TimerService ----------------------------
(***************************************************************************)
(* What the timer interface promises its users, sid_pal_timer_ifc.h: a      *)
(* clock and a set of pending events.  Arming a timer makes one event       *)
(* pending, at the requested time or, for the low power class, up to the    *)
(* tolerance later; events happen in the order of their times and not       *)
(* before; a periodic timer's event is followed by the next one a period    *)
(* later; cancelling removes the event.                                     *)
(***************************************************************************)
EXTENDS Integers

CONSTANTS
    Timers,
    Periods,            \* the periods timers are armed with, Infinity for none
    LowPowerTolerance,
    MaxTime             \* bound on the clock and on the requested times

Infinity == -1

VARIABLES
    now,
    events      \* a function from the armed timers to [at, period]

vars == <<now, events>>

Armed == DOMAIN events

With(t, at, p) ==
    [u \in Armed \cup {t} |-> IF u = t THEN [at |-> at, period |-> p] ELSE events[u]]
Without(t) == [u \in Armed \ {t} |-> events[u]]

Init ==
    /\ now = 0
    /\ events = [t \in {} |-> 0]

Tick ==
    /\ now < MaxTime
    /\ now' = now + 1
    /\ UNCHANGED events

Arm(t) ==
    /\ t \notin Armed /\ Armed' = Armed \cup {t}
    /\ \E w \in 0..MaxTime, p \in Periods, tol \in {0, LowPowerTolerance} :
         \E at \in w..(w + tol) : events' = With(t, at, p)
    /\ UNCHANGED now

Cancel(t) ==
    /\ t \in Armed
    /\ events' = Without(t)
    /\ UNCHANGED now

\* The event of t happens: it is due and no other event is due before it.
Happen(t) ==
    /\ t \in Armed
    /\ events[t].at <= now
    /\ \A u \in Armed : events[t].at <= events[u].at
    /\ LET e == events[t] IN
       IF e.period = Infinity
       THEN events' = Without(t)
       ELSE \E at \in (e.at + e.period)..(e.at + e.period + LowPowerTolerance) :
              events' = With(t, at, e.period)
    /\ UNCHANGED now

Next == Tick \/ \E t \in Timers : Arm(t) \/ Cancel(t) \/ Happen(t)

Spec == Init /\ [][Next]_vars
=============================================================================
