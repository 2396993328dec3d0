------------------------------ MODULE SidTimer ------------------------------
(***************************************************************************)
(* The Sidewalk PAL timer, subsys/sal/sid_pal/src/sid_timer.c: any number   *)
(* of software timers multiplexed on one kernel timer.  Armed timers are    *)
(* kept in a list sorted by alarm; the kernel timer is programmed for the   *)
(* head of the list; its expiry runs sid_pal_timer_event_callback, which    *)
(* fetches the due timers one by one, re-inserts the periodic ones, calls   *)
(* back, and programs the kernel timer again.                               *)
(*                                                                          *)
(* Two contexts use the list: a client (a thread, or an interrupt when      *)
(* Preemption is TRUE) and the expiry handler, from whose callbacks timers  *)
(* are armed and cancelled too.  Each critical region of the code is one    *)
(* atomic step; what lies between two critical regions is not protected.    *)
(*                                                                          *)
(* Times are natural numbers of one unit, Infinity (the all-ones timespec)  *)
(* is -1 as in the code's representation.                                   *)
(***************************************************************************)
EXTENDS Integers, Sequences, SequencesExt

CONSTANTS
    Timers,             \* the timer objects
    NoTimer,            \* the NULL timer pointer
    ClientRequests,     \* what the client arms: [timer, period, class] records
    CallbackRequests,   \* what timer callbacks arm
    LowPowerTolerance,  \* tolerance_lowpower, one second
    MaxTime,            \* bound on the clock and on the requested times
    Preemption          \* may the client interrupt the expiry handler?

Infinity == -1

\* Mutant: the tolerance in milliseconds.
MutTolerance == [PRECISE |-> 0, LOWPOWER |-> 1000 * LowPowerTolerance]

\* The two tolerances a priority class stands for.
sid_pal_timer_get_tolerance == [PRECISE |-> 0, LOWPOWER |-> LowPowerTolerance]

Classes == DOMAIN sid_pal_timer_get_tolerance

Requests == ClientRequests \cup CallbackRequests
Periods == {r.period : r \in Requests} \cup {Infinity}

ASSUME TimerAssumption ==
    /\ NoTimer \notin Timers
    /\ \A r \in Requests :
         /\ r \in [timer : Timers, period : {r.period}, class : Classes]
         /\ r.period \in Nat \ {0} \/ r.period = Infinity
    /\ LowPowerTolerance \in Nat
    /\ MaxTime \in Nat
    /\ Preemption \in BOOLEAN

VARIABLES
    list,       \* sid_pal_timer_ctx.list, head first
    alarm, period, tolerance, callback,   \* the fields of sid_pal_timer_t
    hw,         \* the absolute time the kernel timer sid_timer is set for
    trigger,    \* the kernel timer expired, its handler has not started yet
    now,        \* the uptime
    client,     \* the client's progress through sid_pal_timer_arm
    handler,    \* the progress of sid_pal_timer_event_callback
    nominal,    \* history: the requested time of the timer's next event, Infinity
                \* when the timer was not armed, or was cancelled or consumed since
    crossed     \* history: a callback armed a timer that the client was arming, between
                \* the client's is_armed check and its insertion

fields == <<alarm, period, tolerance, callback>>
history == <<nominal, crossed>>
vars == <<list, fields, hw, trigger, now, client, handler, history>>

ClientIdle == [pc |-> "idle", timer |-> NoTimer, when |-> 0,
               period |-> Infinity, class |-> "PRECISE"]
HandlerIdle == [pc |-> "idle", timer |-> NoTimer, time |-> 0, next |-> Infinity]

Init ==
    /\ list = <<>>
    /\ alarm = [t \in Timers |-> Infinity]
    /\ period = [t \in Timers |-> Infinity]
    /\ tolerance = [t \in Timers |-> 0]
    /\ callback = [t \in Timers |-> FALSE]
    /\ hw = Infinity
    /\ trigger = FALSE
    /\ now = 0
    /\ client = ClientIdle
    /\ handler = HandlerIdle
    /\ nominal = [t \in Timers |-> Infinity]
    /\ crossed = FALSE

-----------------------------------------------------------------------------
(* The list.  Armed(t): the node of t is linked.                            *)

Armed(t) == \E i \in DOMAIN list : list[i] = t

\* The positions of the elements that expire after time a.
Later(a) == {i \in DOMAIN list : alarm[list[i]] > a}

InsertPos(a) == IF Later(a) = {} THEN Len(list) + 1 ELSE Min(Later(a))

\* Mutant: the tolerance is not looked at.
MutCoalesced(a, tol) == IF Later(a) # {} THEN alarm[list[InsertPos(a)]] ELSE a

\* The alarm a timer gets that asks for time a with tolerance tol: the alarm of
\* the next later element when that is no further away than the tolerance.
Coalesced(a, tol) ==
    IF /\ Later(a) # {}
       /\ alarm[list[InsertPos(a)]] - a <= tol
    THEN alarm[list[InsertPos(a)]]
    ELSE a

\* Mutant: only the first timer of an empty list is scheduled.
MutReschedule(a, tol) == list = <<>>

\* The kernel timer is reprogrammed when the new timer becomes the head and was
\* not coalesced with the old head.
Reschedule(a, tol) == InsertPos(a) = 1 /\ Coalesced(a, tol) = a

\* Mutant: the timer is appended even when a later one was found.
MutListInsert(t, a, tol) ==
    /\ ~Armed(t)
    /\ list' = Append(list, t)
    /\ alarm' = [alarm EXCEPT ![t] = Coalesced(a, tol)]
    /\ hw' = IF Reschedule(a, tol) THEN a ELSE hw

\* Insert t asking for time a; one critical region.  The code does not look whether t
\* has been linked meanwhile; sys_dlist_append of a linked node corrupts the list, and
\* behaviours are followed up to there, to the state that NoDoubleLink is about.
ListInsert(t, a, tol) ==
    /\ ~Armed(t)
    /\ list' = InsertAt(list, InsertPos(a), t)
    /\ alarm' = [alarm EXCEPT ![t] = Coalesced(a, tol)]
    /\ hw' = IF Reschedule(a, tol) THEN a ELSE hw

\* Mutant: the head of the list is taken for an unlinked node.
MutListDelete(t) ==
    list' = IF Armed(t) /\ Head(list) # t
            THEN RemoveAt(list, CHOOSE i \in DOMAIN list : list[i] = t)
            ELSE list

\* Unlink t if it is linked; one critical region.
ListDelete(t) ==
    list' = IF Armed(t)
            THEN RemoveAt(list, CHOOSE i \in DOMAIN list : list[i] = t)
            ELSE list

\* The head's alarm, or infinity.
NextSchedule == IF list = <<>> THEN Infinity ELSE alarm[Head(list)]

-----------------------------------------------------------------------------
(* The operations.  Each can be called by the client and from a callback.   *)

\* sid_pal_timer_init of a timer that is not in use.
InitTimer(t) ==
    /\ ~Armed(t) /\ ~callback[t] /\ handler.timer # t
    /\ callback' = [callback EXCEPT ![t] = TRUE]
    /\ alarm' = [alarm EXCEPT ![t] = Infinity]
    /\ period' = [period EXCEPT ![t] = Infinity]
    /\ UNCHANGED <<list, tolerance, hw, history>>

Cancel(t) ==
    /\ ListDelete(t)
    /\ nominal' = [nominal EXCEPT ![t] = Infinity]
    /\ UNCHANGED <<fields, hw, crossed>>

Deinit(t) ==
    /\ ListDelete(t)
    /\ callback' = [callback EXCEPT ![t] = FALSE]
    /\ nominal' = [nominal EXCEPT ![t] = Infinity]
    /\ UNCHANGED <<alarm, period, tolerance, hw, crossed>>

-----------------------------------------------------------------------------
(* The client context.                                                      *)

\* A thread never runs while the handler is in progress (the handler is an
\* interrupt, or a cooperative thread); an interrupt may.
ClientRuns == Preemption \/ handler.pc = "idle"

ClientInit(t) ==
    /\ ClientRuns /\ client.pc = "idle"
    /\ InitTimer(t)
    /\ UNCHANGED <<trigger, now, client, handler>>

ClientCancel(t) ==
    /\ ClientRuns /\ client.pc = "idle"
    /\ Cancel(t)
    /\ UNCHANGED <<trigger, now, client, handler>>

ClientDeinit(t) ==
    /\ ClientRuns /\ client.pc = "idle"
    /\ Deinit(t)
    /\ UNCHANGED <<trigger, now, client, handler>>

\* Mutant: the timer's state is not checked.
MutClientArm(r, w) ==
    /\ ClientRuns /\ client.pc = "idle"
    /\ client' = [pc |-> "store", timer |-> r.timer, when |-> w,
                  period |-> r.period, class |-> r.class]
    /\ UNCHANGED <<list, fields, hw, trigger, now, handler, history>>

\* sid_pal_timer_arm up to and including the sid_pal_timer_is_armed check; an
\* armed timer is refused.
ClientArm(r, w) ==
    /\ ClientRuns /\ client.pc = "idle"
    /\ ~Armed(r.timer)
    /\ client' = [pc |-> "store", timer |-> r.timer, when |-> w,
                  period |-> r.period, class |-> r.class]
    /\ UNCHANGED <<list, fields, hw, trigger, now, handler, history>>

\* The stores to the timer's fields, outside of any critical region.
ClientStore ==
    /\ ClientRuns /\ client.pc = "store"
    /\ alarm' = [alarm EXCEPT ![client.timer] = client.when]
    /\ period' = [period EXCEPT ![client.timer] = client.period]
    /\ tolerance' = [tolerance EXCEPT
                       ![client.timer] = sid_pal_timer_get_tolerance[client.class]]
    /\ client' = [client EXCEPT !.pc = "insert"]
    /\ UNCHANGED <<list, callback, hw, trigger, now, handler, history>>

ClientInsert ==
    LET t == client.timer IN
    /\ ClientRuns /\ client.pc = "insert"
    /\ ListInsert(t, alarm[t], tolerance[t])
    /\ nominal' = [nominal EXCEPT ![t] = alarm[t]]
    /\ client' = ClientIdle
    /\ UNCHANGED <<period, tolerance, callback, trigger, now, handler, crossed>>

-----------------------------------------------------------------------------
(* The kernel timer and the expiry handler.                                 *)

Tick ==
    /\ now < MaxTime
    /\ now' = now + 1
    /\ UNCHANGED <<list, fields, hw, trigger, client, handler, history>>

\* sid_timer_handler: the semaphore of the threaded build has a limit of 1.
Expire ==
    /\ hw # Infinity /\ hw <= now
    /\ hw' = Infinity
    /\ trigger' = TRUE
    /\ UNCHANGED <<list, fields, now, client, handler, history>>

\* Mutant: the time is read once, before the loop that waits for the trigger.
MutHandlerBegin ==
    /\ handler.pc = "idle" /\ trigger
    /\ trigger' = FALSE
    /\ handler' = [handler EXCEPT !.pc = "fetch"]
    /\ UNCHANGED <<list, fields, hw, now, client, history>>

HandlerBegin ==
    /\ handler.pc = "idle" /\ trigger
    /\ trigger' = FALSE
    /\ handler' = [handler EXCEPT !.pc = "fetch", !.time = now]
    /\ UNCHANGED <<list, fields, hw, now, client, history>>

\* Where the handler continues with the fetched timer t once its re-insertion
\* is done or was not called for.
AfterInsert(t) ==
    IF callback[t] THEN [handler EXCEPT !.pc = "callback", !.timer = t]
    ELSE [handler EXCEPT !.pc = "fetch", !.timer = NoTimer]

\* Mutant: timers are served up to the tolerance early.
MutHeadDue ==
    IF list = <<>> THEN FALSE ELSE alarm[Head(list)] <= handler.time + LowPowerTolerance

HeadDue == IF list = <<>> THEN FALSE ELSE alarm[Head(list)] <= handler.time

\* sid_pal_timer_list_fetch takes the head off the list when it is due; the next
\* statement looks at the period.
HandlerFetch ==
    /\ handler.pc = "fetch"
    /\ HeadDue
    /\ LET t == Head(list) IN
       /\ list' = Tail(list)
       /\ handler' = IF period[t] = Infinity THEN AfterInsert(t)
                     ELSE [handler EXCEPT !.pc = "reinsert", !.timer = t]
       /\ nominal' = [nominal EXCEPT ![t] = IF period[t] = Infinity THEN Infinity ELSE @]
    /\ UNCHANGED <<fields, hw, trigger, now, client, crossed>>

HandlerReinsert ==
    LET t == handler.timer IN
    /\ handler.pc = "reinsert"
    /\ ListInsert(t, alarm[t] + period[t], tolerance[t])
    /\ handler' = AfterInsert(t)
    /\ nominal' = [nominal EXCEPT ![t] = IF @ = Infinity THEN @ ELSE @ + period[t]]
    /\ UNCHANGED <<period, tolerance, callback, trigger, now, client, crossed>>

\* The operations a timer callback performs; the client is not running.
CallbackArm(r, w) ==
    LET t == r.timer
        tol == sid_pal_timer_get_tolerance[r.class]
    IN
    /\ handler.pc = "callback"
    /\ ~Armed(t)
    /\ ListInsert(t, w, tol)
    /\ period' = [period EXCEPT ![t] = r.period]
    /\ tolerance' = [tolerance EXCEPT ![t] = tol]
    /\ nominal' = [nominal EXCEPT ![t] = w]
    /\ crossed' = (crossed \/ (client.pc # "idle" /\ client.timer = t))
    /\ UNCHANGED <<callback, trigger, now, client, handler>>

CallbackCancel(t) ==
    /\ handler.pc = "callback"
    /\ Cancel(t)
    /\ UNCHANGED <<trigger, now, client, handler>>

CallbackReturn ==
    /\ handler.pc = "callback"
    /\ handler' = [handler EXCEPT !.pc = "fetch", !.timer = NoTimer]
    /\ UNCHANGED <<list, fields, hw, trigger, now, client, history>>

\* No timer is due: the loop ends and the next schedule is read, in a critical
\* region of its own.
HandlerGetNextSchedule ==
    /\ handler.pc = "fetch"
    /\ ~HeadDue
    /\ handler' = [handler EXCEPT !.pc = "start", !.next = NextSchedule]
    /\ UNCHANGED <<list, fields, hw, trigger, now, client, history>>

\* sid_timer_start outside of any critical region.
HandlerStart ==
    /\ handler.pc = "start"
    /\ hw' = handler.next
    /\ handler' = HandlerIdle
    /\ UNCHANGED <<list, fields, trigger, now, client, history>>

-----------------------------------------------------------------------------
\* Requested times are not past when the operation is called (they may be when
\* it inserts the timer); a callback arms its timers in the future.
Next ==
    \/ \E t \in Timers :
         ClientInit(t) \/ ClientCancel(t) \/ ClientDeinit(t) \/ CallbackCancel(t)
    \/ \E r \in ClientRequests, w \in now..MaxTime : ClientArm(r, w)
    \/ \E r \in CallbackRequests, w \in (now + 1)..MaxTime : CallbackArm(r, w)
    \/ ClientStore \/ ClientInsert
    \/ Tick \/ Expire
    \/ HandlerBegin \/ HandlerFetch \/ HandlerReinsert \/ CallbackReturn
    \/ HandlerGetNextSchedule \/ HandlerStart

Spec == Init /\ [][Next]_vars

HandlerStep ==
    \/ HandlerBegin \/ HandlerFetch \/ HandlerReinsert \/ CallbackReturn
    \/ HandlerGetNextSchedule \/ HandlerStart

\* The clock runs, the kernel timer expires, its handler is scheduled and makes
\* progress, callbacks return and an operation once begun ends.
Fairness ==
    /\ WF_vars(Tick) /\ WF_vars(Expire)
    /\ WF_vars(HandlerStep) /\ WF_vars(ClientStore \/ ClientInsert)

FairSpec == Spec /\ Fairness

-----------------------------------------------------------------------------
(* Properties.                                                              *)

\* The types, and that the timer pointers are not NULL where they are used.
TypeOK ==
    /\ list \in Seq(Timers)
    /\ alarm \in [Timers -> Int] /\ period \in [Timers -> Periods]
    /\ tolerance \in [Timers -> {0, LowPowerTolerance}]
    /\ callback \in [Timers -> BOOLEAN]
    /\ hw \in Int /\ trigger \in BOOLEAN /\ now \in 0..MaxTime
    /\ client \in [pc : {"idle", "store", "insert"}, timer : Timers \cup {NoTimer},
                   when : Int, period : Periods, class : Classes]
    /\ handler \in [pc : {"idle", "fetch", "reinsert", "callback", "start"},
                    timer : Timers \cup {NoTimer}, time : Int, next : Int]
    /\ client.pc # "idle" => client.timer \in Timers
    /\ handler.pc \in {"reinsert", "callback"} => handler.timer \in Timers
    /\ nominal \in [Timers -> Int] /\ crossed \in BOOLEAN

\* The properties of the list except the one order in which sid_pal_timer_arm loses it,
\* a callback that arms the client's timer after its check (crossed): from there on the
\* client's stores change a timer that is linked.

\* Every element occurs once and the alarms do not decrease.
Once == \A i, j \in DOMAIN list : i < j => list[i] # list[j]
Sorted == \A i, j \in DOMAIN list :
            i < j => list[i] # list[j] /\ alarm[list[i]] <= alarm[list[j]]

\* The two ways to get the list wrong: a node linked a second time
\* (sys_dlist_append of a linked node) and an alarm that changes under the list's
\* feet.  Every element occurs once and the alarms do not decrease.
ListSorted == Once /\ (crossed \/ Sorted)

\* The client's timer is not linked.
ClientsTimerFree == client.pc \in {"store", "insert"} => ~Armed(client.timer)

\* A step that links a node never finds it linked: the expiry handler re-inserting a
\* periodic timer never, the client after its is_armed check only if a callback armed
\* the same timer in between.
NoDoubleLink ==
    /\ handler.pc = "reinsert" => ~Armed(handler.timer)
    /\ crossed \/ ClientsTimerFree

\* What is armed is served: the kernel timer is set for a time no later than the first
\* alarm, or the handler is due to run or running and will program it.
Covered ==
    list # <<>> =>
        \/ trigger
        \/ handler.pc \in {"fetch", "reinsert", "callback"}
        \/ handler.pc = "start" /\ handler.next # Infinity /\ handler.next <= alarm[Head(list)]
        \/ handler.pc # "start" /\ hw # Infinity /\ hw <= alarm[Head(list)]

\* No armed timer is forgotten between sid_pal_timer_list_insert, which programs the
\* kernel timer for a new head only, and the handler, which does so at its end.
HeadCovered == crossed \/ Covered

\* sid_pal_timer_cancel "will disarm the timer object": a timer is linked only if it
\* has been armed and not been cancelled, deinitialised or consumed since, even
\* when the cancel comes from the periodic timer's own callback.
DisarmedStaysDisarmed == \A t \in Timers : Armed(t) => nominal[t] # Infinity

\* "Events can be delayed for up to 1 second" and are never early: an armed timer's
\* alarm is at or after the requested time, and for single-shot and for precise
\* timers no more than the tolerance after it.
Timely(t) ==
    /\ nominal[t] <= alarm[t]
    /\ period[t] = Infinity \/ tolerance[t] = 0 => alarm[t] <= nominal[t] + tolerance[t]

AllTimely == \A t \in Timers : Armed(t) => Timely(t)

\* Coalescing in sid_pal_timer_list_insert keeps every armed timer timely.
WithinTolerance == crossed \/ AllTimely

\* The handler serves every timer that is due: it takes it off the list or, for a
\* periodic timer that lags behind, moves it past the present.
Due(t) == Armed(t) /\ alarm[t] <= now

DueTimersFire == \A t \in Timers : Due(t) ~> ~Due(t) \/ crossed

-----------------------------------------------------------------------------
(* The assumption the safety properties rest on and what makes them         *)
(* inductive.                                                               *)

\* The client is a thread: it never interrupts the handler.
Serialised == ~Preemption

\* What holds of the contexts even after a crossing: no element twice, times that were
\* asked for, and a handler that holds an unlinked timer.
Held ==
    /\ Once
    /\ \A t \in Timers : Armed(t) => nominal[t] \in Nat /\ alarm[t] \in Nat
    /\ client.pc # "idle" => client.when \in Nat
    /\ client.pc = "insert" => alarm[client.timer] \in Nat
    /\ handler.pc = "reinsert" =>
         /\ ~Armed(handler.timer)
         /\ period[handler.timer] # Infinity
         /\ nominal[handler.timer] \in Nat /\ alarm[handler.timer] \in Nat

\* What each context knows of the timer it is about to link, before a crossing.
HandOff ==
    /\ ClientsTimerFree
    /\ handler.pc = "reinsert" =>
         /\ Timely(handler.timer)
         /\ client.pc = "idle" \/ client.timer # handler.timer

IInv ==
    /\ TypeOK /\ Held
    /\ crossed \/ (Sorted /\ Covered /\ AllTimely /\ HandOff)

-----------------------------------------------------------------------------
(* The abstract timer service.  A periodic timer between its fetch and its   *)
(* re-insertion counts as armed.                                             *)

Pending == {t \in Timers : Armed(t) \/ (handler.pc = "reinsert" /\ handler.timer = t)}

Events == [t \in Pending |-> [at |-> alarm[t], period |-> period[t]]]

Service == INSTANCE TimerService WITH events <- Events

\* The sorted list and the handler loop implement the service: timers expire in
\* the order of their alarms, never early, and are delayed by coalescing for no
\* longer than the tolerance, up to a crossing.
ImplementsService == Service!Init /\ [][Service!Next \/ crossed']_(Service!vars)

\* What the steps need beside IInv to be the service's: no time is requested beyond
\* the bound, the handler's time is past, and the timer it is about to re-insert
\* was due, before all others.
InOrder ==
    /\ client.pc # "idle" => client.when <= MaxTime
    /\ client.pc = "insert" => alarm[client.timer] <= MaxTime
    /\ handler.pc # "idle" => handler.time <= now
    /\ handler.pc = "reinsert" =>
         /\ alarm[handler.timer] <= now
         /\ \A t \in Timers : Armed(t) => alarm[handler.timer] <= alarm[t]
=============================================================================
