-------------------------- MODULE Sx126xRadioProofs --------------------------
(***************************************************************************)
(* Proofs of Sx126xRadio, for every set of failing commands, any number of *)
(* failures and every protocol. A driver function is a set of outcomes; a  *)
(* lemma says what holds of each of them.                                  *)
(***************************************************************************)
EXTENDS Sx126xRadio, TLAPS

-----------------------------------------------------------------------------
(***************************************************************************)
(* The bus and the commands.                                               *)
(***************************************************************************)

\* A driver whose pin interrupt is off knows that its chip sleeps.
Wakes(s) == s.int_en \/ s.state = "SLEEP"

\* The RF switch was not moved, but for the wake-up of a chip in duty cycle.
RfKept(s, t) == t.rf = s.rf \/ (t.rf = "tx" /\ s.state \in {"SLEEP", "RX_DC"})

\* t is s after commands that start nothing: the operation under way goes on, or a
\* wake-up ended it, and its causes are still latched or were cleared.
Undisturbed(s, t) ==
    /\ t \in Drivers
    /\ t.modem = s.modem /\ t.state = s.state /\ t.exit = s.exit /\ t.cad = s.cad
    /\ t.mode \in {s.mode, "standby"}
    /\ t.irq \in {s.irq, {}}
    /\ RfKept(s, t)
    /\ Served(s) => Served(t)

\* So it is, and the mask, the timer's stop and a scheduled bottom half are as they
\* were.
Keeps(s, t) ==
    /\ Undisturbed(s, t)
    /\ t.mask = s.mask /\ (t.stop <=> s.stop) /\ (t.pending <=> s.pending)

\* The wake-up of a chip brings it to standby with its pin interrupt on.
LEMMA WakeupFields ==
    ASSUME NEW s \in Drivers, NEW t, t = sx126x_hal_wakeup(s)
    PROVE  /\ t \in Drivers
           /\ t.modem = s.modem /\ t.state = s.state /\ t.exit = s.exit /\ t.cad = s.cad
           /\ t.mode = "standby" /\ t.irq = s.irq /\ t.rf = s.rf
           /\ t.mask = s.mask /\ t.stop = s.stop /\ t.pending = s.pending /\ t.int_en = TRUE
<1> QED
  BY DEF sx126x_hal_wakeup, Drivers, Modes

\* It leaves what is latched and what is scheduled.
LEMMA WakeupKeeps ==
    ASSUME NEW s \in Drivers
    PROVE  Keeps(s, sx126x_hal_wakeup(s)) /\ sx126x_hal_wakeup(s).mode = "standby"
<1> DEFINE t == sx126x_hal_wakeup(s)
<1>1. /\ t \in Drivers
      /\ t.modem = s.modem /\ t.state = s.state /\ t.exit = s.exit /\ t.cad = s.cad
      /\ t.mode = "standby" /\ t.irq = s.irq /\ t.rf = s.rf
      /\ t.mask = s.mask /\ t.stop = s.stop /\ t.pending = s.pending /\ t.int_en = TRUE
  BY WakeupFields
<1> HIDE DEF t
<1>2. Served(s) => Served(t)
  BY <1>1 DEF Served, Line
<1> QED
  BY <1>1, <1>2 DEF Keeps, Undisturbed, RfKept, t

\* Moving the RF switch changes nothing else.
LEMMA RfFields ==
    ASSUME NEW s \in Drivers, NEW p \in {"off", "rx", "tx"}, NEW t, t = [s EXCEPT !.rf = p]
    PROVE  /\ t \in Drivers
           /\ t.modem = s.modem /\ t.state = s.state /\ t.exit = s.exit /\ t.cad = s.cad
           /\ t.mode = s.mode /\ t.irq = s.irq /\ t.rf = p
           /\ t.mask = s.mask /\ t.stop = s.stop /\ t.pending = s.pending /\ t.int_en = s.int_en
<1> QED
  BY DEF Drivers

\* Nor does turning the pin interrupt on.
LEMMA IntEnFields ==
    ASSUME NEW s \in Drivers, NEW t, t = [s EXCEPT !.int_en = TRUE]
    PROVE  /\ t \in Drivers
           /\ t.modem = s.modem /\ t.state = s.state /\ t.exit = s.exit /\ t.cad = s.cad
           /\ t.mode = s.mode /\ t.irq = s.irq /\ t.rf = s.rf
           /\ t.mask = s.mask /\ t.stop = s.stop /\ t.pending = s.pending /\ t.int_en = TRUE
<1> QED
  BY DEF Drivers

\* Waiting for the chip leaves it ready, its pin interrupt on if the driver knew
\* that it slept.
LEMMA ReadyKeeps ==
    ASSUME NEW s \in Drivers, NEW t \in sx126x_wait_for_device_ready(s)
    PROVE  Keeps(s, t) /\ (Wakes(s) => t.int_en) /\ t.irq = s.irq
<1>1. CASE s.state \notin {"SLEEP", "RX_DC"}
  <2>1. t = s
    BY <1>1 DEF sx126x_wait_for_device_ready
  <2>2. s.int_en \in BOOLEAN /\ (s.stop \in BOOLEAN /\ s.pending \in BOOLEAN)
    BY DEF Drivers
  <2> QED
    BY <1>1, <2>1, <2>2 DEF Keeps, Undisturbed, RfKept, Wakes
<1>2. CASE s.state \in {"SLEEP", "RX_DC"}
  <2>1. PICK a : /\ a = sx126x_hal_wakeup(s) \/ a = [s EXCEPT !.int_en = TRUE]
                 /\ t = [a EXCEPT !.rf = "tx"]
    BY <1>2 DEF sx126x_wait_for_device_ready
  <2>2. /\ a \in Drivers
        /\ a.modem = s.modem /\ a.state = s.state /\ a.exit = s.exit /\ a.cad = s.cad
        /\ a.mode \in {s.mode, "standby"} /\ a.irq = s.irq
        /\ a.mask = s.mask /\ a.stop = s.stop /\ a.pending = s.pending /\ a.int_en = TRUE
    <3>1. CASE a = sx126x_hal_wakeup(s)
      BY <3>1, WakeupFields
    <3>2. CASE a = [s EXCEPT !.int_en = TRUE]
      BY <3>2, IntEnFields
    <3> QED
      BY <2>1, <3>1, <3>2
  <2>3. /\ t \in Drivers
        /\ t.modem = a.modem /\ t.state = a.state /\ t.exit = a.exit /\ t.cad = a.cad
        /\ t.mode = a.mode /\ t.irq = a.irq /\ t.rf = "tx"
        /\ t.mask = a.mask /\ t.stop = a.stop /\ t.pending = a.pending /\ t.int_en = a.int_en
    BY <2>1, <2>2, RfFields
  <2>4. Served(s) => Served(t)
    BY <2>2, <2>3 DEF Served, Line
  <2> QED
    BY <1>2, <2>2, <2>3, <2>4 DEF Keeps, Undisturbed, RfKept
<1> QED
  BY <1>1, <1>2

\* Counting a failed command changes nothing else.
LEMMA FailedFields ==
    ASSUME NEW s \in Drivers, NEW t, t = [s EXCEPT !.failed = @ + 1]
    PROVE  /\ t \in Drivers
           /\ t.modem = s.modem /\ t.state = s.state /\ t.exit = s.exit /\ t.cad = s.cad
           /\ t.mode = s.mode /\ t.irq = s.irq /\ t.rf = s.rf
           /\ t.mask = s.mask /\ t.stop = s.stop /\ t.pending = s.pending /\ t.int_en = s.int_en
<1> QED
  BY DEF Drivers

\* A command arrives at a woken chip, or fails if it is one of Faults.
LEMMA BusKeeps ==
    ASSUME NEW s \in Drivers, NEW c, NEW o \in Bus(s, c)
    PROVE  /\ o.ok \in BOOLEAN
           /\ Keeps(s, o.s)
           /\ Wakes(s) => o.s.int_en
           /\ o.s.irq = s.irq
           /\ c \notin Faults => o.ok
<1>1. PICK t \in sx126x_wait_for_device_ready(s) :
        \/ o = [s |-> t, ok |-> TRUE]
        \/ c \in Faults /\ o = [s |-> [t EXCEPT !.failed = @ + 1], ok |-> FALSE]
  BY DEF Bus, Ok, Failed
<1>2. Keeps(s, t) /\ (Wakes(s) => t.int_en) /\ t.irq = s.irq
  BY ReadyKeeps
<1>3. CASE o = [s |-> t, ok |-> TRUE]
  BY <1>2, <1>3
<1>4. CASE c \in Faults /\ o = [s |-> [t EXCEPT !.failed = @ + 1], ok |-> FALSE]
  <2> DEFINE u == o.s
  <2>0. t \in Drivers
    BY <1>2 DEF Keeps, Undisturbed, RfKept
  <2>1. u = [t EXCEPT !.failed = @ + 1] /\ o.ok = FALSE
    BY <1>4
  <2>2. /\ u \in Drivers
        /\ u.modem = t.modem /\ u.state = t.state /\ u.exit = t.exit /\ u.cad = t.cad
        /\ u.mode = t.mode /\ u.irq = t.irq /\ u.rf = t.rf
        /\ u.mask = t.mask /\ u.stop = t.stop /\ u.pending = t.pending /\ u.int_en = t.int_en
    BY <2>0, <2>1, FailedFields
  <2> HIDE DEF u
  <2>3. Served(t) => Served(u)
    BY <2>2 DEF Served, Line
  <2>4. Keeps(s, u)
    BY <1>2, <2>2, <2>3 DEF Keeps, Undisturbed, RfKept
  <2> QED
    BY <1>2, <1>4, <2>1, <2>2, <2>4 DEF u
<1> QED
  BY <1>1, <1>3, <1>4

\* A command that clears the latched causes, if it arrives.
LEMMA CommandClears ==
    ASSUME NEW s \in Drivers, NEW c, NEW o, NEW a \in Bus(s, c),
           IF a.ok THEN o \in Ok([a.s EXCEPT !.irq = {}]) ELSE o = a
    PROVE  /\ o.ok \in BOOLEAN
           /\ Keeps(s, o.s)
           /\ Wakes(s) => o.s.int_en
           /\ o.ok => o.s.irq = {}
           /\ c \notin Faults => o.ok
<1>2. /\ a.ok \in BOOLEAN /\ Keeps(s, a.s) /\ (Wakes(s) => a.s.int_en)
      /\ c \notin Faults => a.ok
  BY BusKeeps
<1>3. CASE a.ok
  <2> DEFINE t == a.s  u == o.s
  <2>1. u = [t EXCEPT !.irq = {}] /\ o.ok = TRUE
    BY <1>3 DEF Ok
  <2>2. t \in Drivers
    BY <1>2 DEF Keeps, Undisturbed, RfKept
  <2> HIDE DEF t, u
  <2>3. /\ u \in Drivers
        /\ u.modem = t.modem /\ u.state = t.state /\ u.exit = t.exit /\ u.cad = t.cad
        /\ u.mode = t.mode /\ u.irq = {} /\ u.rf = t.rf
        /\ u.mask = t.mask /\ u.stop = t.stop /\ u.pending = t.pending /\ u.int_en = t.int_en
    BY <2>1, <2>2 DEF Drivers
  <2>4. Served(t) => Served(u)
    BY <2>3 DEF Served, Line
  <2>5. Keeps(s, u)
    BY <1>2, <2>3, <2>4 DEF Keeps, Undisturbed, RfKept, t
  <2> QED
    BY <1>2, <2>1, <2>3, <2>5 DEF t, u
<1> QED
  BY <1>2, <1>3

\* radio_clear_irq_status_all is one.
LEMMA ClearIrq ==
    ASSUME NEW s \in Drivers, NEW o \in radio_clear_irq_status_all(s)
    PROVE  /\ o.ok \in BOOLEAN
           /\ Keeps(s, o.s)
           /\ Wakes(s) => o.s.int_en
           /\ o.ok => o.s.irq = {}
           /\ "clear_irq" \notin Faults => o.ok
<1>1. PICK a \in Bus(s, "clear_irq") :
        IF a.ok THEN o \in Ok([a.s EXCEPT !.irq = {}]) ELSE o = a
  BY DEF radio_clear_irq_status_all, Send, Then
<1> QED
  BY <1>1, CommandClears

\* A chip that enters a mode forgets what it has heard and keeps what it has
\* latched.
LEMMA EnterFields ==
    ASSUME NEW s \in Drivers, NEW m \in Modes, NEW b \in BOOLEAN, NEW t, t = Enter(s, m, b)
    PROVE  /\ t \in Drivers
           /\ t.modem = s.modem /\ t.state = s.state /\ t.exit = s.exit /\ t.cad = s.cad
           /\ t.mode = m /\ t.irq = s.irq /\ t.rf = s.rf /\ t.seen = "none"
           /\ t.mask = s.mask /\ t.stop = s.stop /\ t.pending = s.pending /\ t.int_en = s.int_en
<1>1. t \in Drivers
  BY DEF Drivers, Modes, Enter
<1>2. /\ t.modem = s.modem /\ t.state = s.state /\ t.exit = s.exit /\ t.cad = s.cad
      /\ t.mode = m /\ t.irq = s.irq /\ t.rf = s.rf /\ t.seen = "none"
      /\ t.mask = s.mask /\ t.stop = s.stop /\ t.pending = s.pending /\ t.int_en = s.int_en
  BY DEF Drivers, Enter
<1> QED
  BY <1>1, <1>2

\* sx126x_set_standby ends in standby or has failed.
LEMMA SetStandby ==
    ASSUME NEW s \in Drivers, NEW o \in sx126x_set_standby(s)
    PROVE  /\ o.ok \in BOOLEAN
           /\ Keeps(s, o.s)
           /\ Wakes(s) => o.s.int_en
           /\ o.ok => o.s.mode = "standby"
           /\ "set_standby" \notin Faults => o.ok
<1>1. PICK a \in Bus(s, "set_standby") :
        IF a.ok THEN o \in Ok(Enter(a.s, "standby", FALSE)) ELSE o = a
  BY DEF sx126x_set_standby, Send, Then
<1>2. /\ a.ok \in BOOLEAN /\ Keeps(s, a.s) /\ (Wakes(s) => a.s.int_en)
      /\ "set_standby" \notin Faults => a.ok
  BY <1>1, BusKeeps
<1>3. CASE a.ok
  <2> DEFINE t == a.s  u == o.s
  <2>1. u = Enter(t, "standby", FALSE) /\ o.ok = TRUE
    BY <1>1, <1>3 DEF Ok, Enter
  <2>b. PICK b \in BOOLEAN : u = Enter(t, "standby", b)
    BY <2>1
  <2>2. t \in Drivers
    BY <1>2 DEF Keeps, Undisturbed, RfKept
  <2> HIDE DEF t, u
  <2>3. /\ u \in Drivers
        /\ u.modem = t.modem /\ u.state = t.state /\ u.exit = t.exit /\ u.cad = t.cad
        /\ u.mode = "standby" /\ u.irq = t.irq /\ u.rf = t.rf
        /\ u.mask = t.mask /\ u.stop = t.stop /\ u.pending = t.pending /\ u.int_en = t.int_en
    <3>1. "standby" \in Modes
      BY DEF Modes
    <3> QED
      BY <2>b, <2>2, <3>1, EnterFields
  <2>4. Served(s) => Served(u)
    <3>1. Served(s) => u.int_en
      BY <1>2, <2>3 DEF Served, Wakes, t
    <3> QED
      BY <1>2, <2>3, <3>1 DEF Served, Line, Keeps, Undisturbed, t
  <2>5. Keeps(s, u)
    BY <1>2, <2>3, <2>4 DEF Keeps, Undisturbed, RfKept, t
  <2> QED
    BY <1>2, <2>1, <2>3, <2>5 DEF t, u
<1> QED
  BY <1>1, <1>2, <1>3

\* The trim capacitors: without a TCXO the chip is in standby after them.
LEMMA Trim ==
    ASSUME NEW s \in Drivers, NEW o \in set_trim_cap_val_to_radio(s)
    PROVE  /\ o.ok \in BOOLEAN
           /\ Keeps(s, o.s)
           /\ o.ok /\ ~Tcxo => o.s.mode = "standby"
           /\ "set_standby" \notin Faults \/ Tcxo => o.ok
<1>1. CASE Tcxo
  <2>1. o.s = s /\ o.ok = TRUE
    BY <1>1 DEF set_trim_cap_val_to_radio, Ok
  <2>2. s.stop \in BOOLEAN /\ s.pending \in BOOLEAN
    BY DEF Drivers
  <2> QED
    BY <1>1, <2>1, <2>2 DEF Keeps, Undisturbed, RfKept
<1>2. CASE ~Tcxo
  <2> DEFINE t == IF s.state \in {"SLEEP", "UNKNOWN"} THEN sx126x_hal_wakeup(s) ELSE s
  <2>1. o \in sx126x_set_standby(t)
    BY <1>2 DEF set_trim_cap_val_to_radio
  <2>2. s.stop \in BOOLEAN /\ s.pending \in BOOLEAN
    BY DEF Drivers
  <2>3. Keeps(s, t)
    BY <2>2, WakeupKeeps DEF Keeps, Undisturbed, RfKept
  <2> HIDE DEF t
  <2>4. t \in Drivers
    BY <2>3 DEF Keeps, Undisturbed, RfKept
  <2>5. /\ o.ok \in BOOLEAN /\ Keeps(t, o.s)
        /\ o.ok => o.s.mode = "standby"
        /\ "set_standby" \notin Faults => o.ok
    BY <2>1, <2>4, SetStandby
  <2>6. Keeps(s, o.s)
    BY <2>3, <2>5 DEF Keeps, Undisturbed, RfKept
  <2> QED
    BY <1>2, <2>5, <2>6
<1> QED
  BY <1>1, <1>2

\* The stop of the chip's timer on a preamble is set as asked, or the command has
\* failed.
LEMMA StopTimer ==
    ASSUME NEW s \in Drivers, NEW on \in BOOLEAN, NEW o \in StopTimerOnPreamble(s, on)
    PROVE  /\ o.ok \in BOOLEAN
           /\ Undisturbed(s, o.s)
           /\ o.s.mask = s.mask /\ (o.s.pending <=> s.pending)
           /\ o.ok => (o.s.stop <=> on)
<1>1. PICK a \in Bus(s, "stop_timer") :
        IF a.ok THEN o \in Ok([a.s EXCEPT !.stop = on]) ELSE o = a
  BY DEF StopTimerOnPreamble, Send, Then
<1>2. /\ a.ok \in BOOLEAN /\ Keeps(s, a.s)
  BY <1>1, BusKeeps
<1>3. CASE a.ok
  <2> DEFINE t == a.s  u == o.s
  <2>1. u = [t EXCEPT !.stop = on] /\ o.ok = TRUE
    BY <1>1, <1>3 DEF Ok
  <2>2. t \in Drivers
    BY <1>2 DEF Keeps, Undisturbed, RfKept
  <2> HIDE DEF t, u
  <2>3. /\ u \in Drivers
        /\ u.modem = t.modem /\ u.state = t.state /\ u.exit = t.exit /\ u.cad = t.cad
        /\ u.mode = t.mode /\ u.irq = t.irq /\ u.rf = t.rf
        /\ u.mask = t.mask /\ u.stop = on /\ u.pending = t.pending /\ u.int_en = t.int_en
    BY <2>1, <2>2 DEF Drivers
  <2>4. Served(t) => Served(u)
    BY <2>3 DEF Served, Line
  <2>5. Undisturbed(s, u) /\ u.mask = s.mask /\ (u.pending <=> s.pending)
    BY <1>2, <2>3, <2>4 DEF Keeps, Undisturbed, RfKept, t
  <2> QED
    BY <1>2, <2>1, <2>3, <2>5 DEF t, u
<1> QED
  BY <1>1, <1>2, <1>3 DEF Keeps

\* Setting the mask may raise the line, and then schedules a bottom half.
LEMMA SetIrqParams ==
    ASSUME NEW s \in Drivers, NEW m \in Masks, NEW o \in set_dio_irq_params(s, m)
    PROVE  /\ o.ok \in BOOLEAN
           /\ Undisturbed(s, o.s)
           /\ Wakes(s) => o.s.int_en
           /\ o.s.irq = s.irq /\ (o.s.stop <=> s.stop)
           /\ o.ok => o.s.mask = m
           /\ s.irq = {} \/ m = {} => (o.s.pending <=> s.pending)
           /\ "irq_params" \notin Faults => o.ok
<1>1. PICK a \in Bus(s, "irq_params") :
        IF a.ok THEN o \in Ok(radio_irq(a.s, [a.s EXCEPT !.mask = m])) ELSE o = a
  BY DEF set_dio_irq_params, Send, Then
<1>2. /\ a.ok \in BOOLEAN /\ Keeps(s, a.s) /\ (Wakes(s) => a.s.int_en)
      /\ "irq_params" \notin Faults => a.ok
      /\ a.s.irq = s.irq
  BY <1>1, BusKeeps
<1>3. CASE a.ok
  <2> DEFINE t == a.s  v == [t EXCEPT !.mask = m]  u == o.s
  <2>1. u = radio_irq(t, v) /\ o.ok = TRUE
    BY <1>1, <1>3 DEF Ok
  <2>2. t \in Drivers
    BY <1>2 DEF Keeps, Undisturbed, RfKept
  <2>3. /\ v \in Drivers
        /\ v.modem = t.modem /\ v.state = t.state /\ v.exit = t.exit /\ v.cad = t.cad
        /\ v.mode = t.mode /\ v.irq = t.irq /\ v.rf = t.rf
        /\ v.mask = m /\ v.stop = t.stop /\ v.pending = t.pending /\ v.int_en = t.int_en
    BY <2>2 DEF Drivers, Masks
  <2> HIDE DEF t, u, v
  <2>4. u = [v EXCEPT !.pending = v.pending \/ (v.int_en /\ Line(v) /\ ~Line(t))]
    BY <2>1, <2>3 DEF radio_irq
  <2>5. (v.pending \/ (v.int_en /\ Line(v) /\ ~Line(t))) \in BOOLEAN
    OBVIOUS
  <2>6. /\ u \in Drivers
        /\ u.modem = t.modem /\ u.state = t.state /\ u.exit = t.exit /\ u.cad = t.cad
        /\ u.mode = t.mode /\ u.irq = t.irq /\ u.rf = t.rf
        /\ u.mask = m /\ u.stop = t.stop /\ u.int_en = t.int_en
        /\ u.pending = (v.pending \/ (v.int_en /\ Line(v) /\ ~Line(t)))
    BY <2>3, <2>4, <2>5 DEF Drivers
  <2>7. u.pending <=> t.pending \/ (t.int_en /\ Line(u) /\ ~Line(t))
    BY <2>3, <2>6 DEF Line
  <2>8. Served(t) => Served(u)
    BY <2>6, <2>7 DEF Served, Line
  <2>9. s.irq = {} \/ m = {} => ~Line(u)
    BY <1>2, <2>6 DEF Line, t
  <2>10. Undisturbed(s, u) /\ (u.stop <=> s.stop)
    BY <1>2, <2>6, <2>8 DEF Keeps, Undisturbed, RfKept, t
  <2>11. s.irq = {} \/ m = {} => (u.pending <=> s.pending)
    BY <1>2, <2>7, <2>9 DEF Keeps, t
  <2> QED
    BY <1>2, <2>1, <2>6, <2>10, <2>11 DEF t, u
<1> QED
  BY <1>1, <1>2, <1>3 DEF Keeps

\* The last step of a start: the command, and the driver's own state.
LEMMA CommandStarts ==
    ASSUME NEW s \in Drivers, s.irq = {}, NEW c, NEW m \in Modes, NEW b \in BOOLEAN,
           NEW st \in States \ {"SLEEP"},
           NEW o, NEW a \in Bus(s, c),
           IF a.ok THEN o \in Ok([Enter(a.s, m, b) EXCEPT !.state = st]) ELSE o = a
    PROVE  /\ o.ok \in BOOLEAN
           /\ ~o.ok => Keeps(s, o.s)
           /\ o.ok => /\ o.s \in Drivers
                      /\ o.s.modem = s.modem /\ o.s.state = st /\ o.s.exit = s.exit
                      /\ o.s.cad = s.cad
                      /\ o.s.mode = m /\ o.s.irq = {} /\ o.s.seen = "none"
                      /\ RfKept(s, o.s)
                      /\ o.s.mask = s.mask /\ (o.s.stop <=> s.stop)
                      /\ (o.s.pending <=> s.pending)
                      /\ Served(s) => Served(o.s)
           /\ c \notin Faults => o.ok
<1>2. /\ a.ok \in BOOLEAN /\ Keeps(s, a.s) /\ (Wakes(s) => a.s.int_en)
      /\ a.s.irq = s.irq
      /\ c \notin Faults => a.ok
  BY BusKeeps
<1>3. CASE a.ok
  <2> DEFINE t == a.s  u == o.s  v == Enter(t, m, b)
  <2>1. u = [v EXCEPT !.state = st] /\ o.ok = TRUE
    BY <1>3 DEF Ok
  <2>2. t \in Drivers
    BY <1>2 DEF Keeps, Undisturbed
  <2>3. /\ v \in Drivers
        /\ v.modem = t.modem /\ v.state = t.state /\ v.exit = t.exit /\ v.cad = t.cad
        /\ v.mode = m /\ v.irq = t.irq /\ v.rf = t.rf /\ v.seen = "none"
        /\ v.mask = t.mask /\ v.stop = t.stop /\ v.pending = t.pending /\ v.int_en = t.int_en
    BY <2>2, EnterFields
  <2> HIDE DEF t, u, v
  <2>4. /\ u \in Drivers
        /\ u.modem = v.modem /\ u.state = st /\ u.exit = v.exit /\ u.cad = v.cad
        /\ u.mode = v.mode /\ u.irq = v.irq /\ u.rf = v.rf /\ u.seen = v.seen
        /\ u.mask = v.mask /\ u.stop = v.stop /\ u.pending = v.pending /\ u.int_en = v.int_en
    BY <2>1, <2>3 DEF Drivers, States
  <2>5. Served(s) => Served(u)
    <3>1. Served(s) => u.int_en
      BY <1>2, <2>3, <2>4 DEF Served, Wakes, t
    <3> QED
      BY <1>2, <2>3, <2>4, <3>1 DEF Served, Line, t
  <2>6. /\ u.modem = s.modem /\ u.exit = s.exit /\ u.cad = s.cad /\ u.mask = s.mask
        /\ RfKept(s, u)
        /\ (u.stop <=> s.stop) /\ (u.pending <=> s.pending)
    BY <1>2, <2>3, <2>4 DEF Keeps, Undisturbed, RfKept, t
  <2>7. u.irq = {}
    BY <1>2, <2>3, <2>4 DEF t
  <2> QED
    BY <1>2, <2>1, <2>3, <2>4, <2>5, <2>6, <2>7 DEF t, u
<1> QED
  BY <1>2, <1>3

\* The relation that all four steps of a start, or those before a failure, are in.
StartsOrFails(s, o, path, command, mode, state) ==
    /\ o.ok \in BOOLEAN
    /\ o.s \in Drivers
    /\ o.s.modem = s.modem /\ o.s.exit = s.exit /\ o.s.cad = s.cad
    /\ o.s.mask = s.mask /\ (o.s.pending <=> s.pending)
    /\ Served(s) => Served(o.s)
    /\ o.ok => /\ o.s.state = state /\ o.s.mode = mode /\ o.s.irq = {} /\ o.s.seen = "none"
               /\ o.s.rf = path \/ (o.s.rf = "tx" /\ s.state \in {"SLEEP", "RX_DC"})
    /\ ~o.ok => /\ o.s.state = s.state /\ o.s.irq \in {s.irq, {}}
                /\ o.s.mode \in {s.mode, "standby"}
                /\ \/ RfKept(s, o.s)
                   \/ o.s.mode = "standby"
                   \/ Tcxo /\ ("clear_irq" \in Faults \/ command \in Faults)

\* Started is in that relation: the RF switch, the trim, the causes and the
\* command, in turn.
LEMMA StartedStarts ==
    ASSUME NEW s \in Drivers, NEW path \in {"rx", "tx"}, NEW c, NEW m \in Modes,
           NEW b \in BOOLEAN, NEW st \in States \ {"SLEEP"},
           NEW o \in Started(s, path, c, m, b, st)
    PROVE  StartsOrFails(s, o, path, c, m, st)
<1> DEFINE A == set_trim_cap_val_to_radio(s)
           B == Then(A, LAMBDA t : radio_sx126x_set_radio_mode(t, path))
           C == Then(B, LAMBDA t : radio_clear_irq_status_all(t))
           Command(t) == Send(t, c, LAMBDA u : [Enter(u, m, b) EXCEPT !.state = st])
<1>1. o \in Then(C, Command)
  BY DEF Started
<1>2. PICK x \in C : IF x.ok THEN o \in Command(x.s) ELSE o = x
  BY <1>1 DEF Then
<1>3. PICK y \in B : IF y.ok THEN x \in radio_clear_irq_status_all(y.s) ELSE x = y
  BY <1>2 DEF Then
<1>4. PICK z \in A : IF z.ok THEN y \in Ok([z.s EXCEPT !.rf = path]) ELSE y = z
  BY <1>3 DEF Then, radio_sx126x_set_radio_mode
<1> HIDE DEF A, B, C
<1>5. /\ z.ok \in BOOLEAN
      /\ Keeps(s, z.s)
      /\ z.ok /\ ~Tcxo => z.s.mode = "standby"
      /\ "set_standby" \notin Faults \/ Tcxo => z.ok
  BY <1>4, Trim DEF A
<1>6. CASE ~z.ok
  <2>1. o = z
    BY <1>2, <1>3, <1>4, <1>6
  <2> QED
    BY <1>5, <1>6, <2>1 DEF StartsOrFails, Keeps, Undisturbed, RfKept
<1>7. CASE z.ok
  <2> DEFINE t == z.s  v == y.s
  <2>1. v = [t EXCEPT !.rf = path] /\ y.ok = TRUE
    BY <1>4, <1>7 DEF Ok
  <2>2. t \in Drivers
    BY <1>5 DEF Keeps, Undisturbed
  <2>3. x \in radio_clear_irq_status_all(v)
    BY <1>3, <2>1
  <2> HIDE DEF t, v
  <2>4. /\ v \in Drivers
        /\ v.modem = t.modem /\ v.state = t.state /\ v.exit = t.exit /\ v.cad = t.cad
        /\ v.mode = t.mode /\ v.irq = t.irq /\ v.rf = path
        /\ v.mask = t.mask /\ v.stop = t.stop /\ v.pending = t.pending /\ v.int_en = t.int_en
    BY <2>1, <2>2, RfFields
  <2>5. Served(t) => Served(v)
    BY <2>4 DEF Served, Line
  <2>6. /\ x.ok \in BOOLEAN
        /\ Keeps(v, x.s)
        /\ x.ok => x.s.irq = {}
        /\ "clear_irq" \notin Faults => x.ok
    BY <2>3, <2>4, ClearIrq
  <2>7. CASE ~x.ok
    <3>1. o = x
      BY <1>2, <2>7
    <3> QED
      BY <1>5, <1>7, <2>4, <2>5, <2>6, <2>7, <3>1 DEF StartsOrFails, Keeps, Undisturbed,
         RfKept, t
  <2>8. CASE x.ok
    <3> DEFINE w == x.s
    <3>1. PICK a \in Bus(w, c) :
            IF a.ok THEN o \in Ok([Enter(a.s, m, b) EXCEPT !.state = st]) ELSE o = a
      BY <1>2, <2>8 DEF Send, Then
    <3>2. w \in Drivers /\ w.irq = {}
      BY <2>6, <2>8 DEF Keeps, Undisturbed
    <3> HIDE DEF w
    <3>3. /\ o.ok \in BOOLEAN
          /\ ~o.ok => Keeps(w, o.s)
          /\ o.ok => /\ o.s \in Drivers
                     /\ o.s.modem = w.modem /\ o.s.state = st /\ o.s.exit = w.exit
                     /\ o.s.cad = w.cad
                     /\ o.s.mode = m /\ o.s.irq = {} /\ o.s.seen = "none"
                     /\ RfKept(w, o.s)
                     /\ o.s.mask = w.mask /\ (o.s.stop <=> w.stop)
                     /\ (o.s.pending <=> w.pending)
                     /\ Served(w) => Served(o.s)
          /\ c \notin Faults => o.ok
      BY <3>1, <3>2, CommandStarts
    <3>4. CASE o.ok
      BY <1>5, <1>7, <2>4, <2>5, <2>6, <2>8, <3>3, <3>4
      DEF StartsOrFails, Keeps, Undisturbed, RfKept, t, w
    <3>5. CASE ~o.ok
      BY <1>5, <1>7, <2>4, <2>5, <2>6, <2>8, <3>2, <3>3, <3>5
      DEF StartsOrFails, Keeps, Undisturbed, RfKept, t, w
    <3> QED
      BY <3>3, <3>4, <3>5
  <2> QED
    BY <2>6, <2>7, <2>8
<1> QED
  BY <1>5, <1>6, <1>7

\* The operations that start something, and what they leave behind if they fail.
LEMMA StartTxStarts ==
    ASSUME NEW s \in Drivers, NEW timed \in BOOLEAN, NEW o \in sid_pal_radio_start_tx(s, timed)
    PROVE  StartsOrFails(s, o, "tx", "set_tx", "tx", "TX")
<1>1. o \in Started(s, "tx", "set_tx", "tx", timed, "TX")
  BY DEF sid_pal_radio_start_tx
<1>2. "tx" \in Modes /\ "TX" \in States \ {"SLEEP"}
  BY DEF Modes, States
<1> QED
  BY <1>1, <1>2, StartedStarts

\* So is the transmission that the bottom half starts after a listen-before-talk.
LEMMA TalkStarts ==
    ASSUME NEW s \in Drivers, NEW o \in sid_pal_radio_start_tx(s, FALSE)
    PROVE  StartsOrFails(s, o, "tx", "set_tx", "tx", "TX")
<1>1. PICK b \in BOOLEAN : o \in sid_pal_radio_start_tx(s, b)
  OBVIOUS
<1> QED
  BY <1>1, StartTxStarts

\* A continuous wave starts from standby only.
LEMMA ContinuousTxStarts ==
    ASSUME NEW s \in Drivers, NEW o \in sid_pal_radio_set_tx_continuous(s), s.state = "STANDBY"
    PROVE  StartsOrFails(s, o, "tx", "set_tx_continuous", "cw", "TX")
<1>1. PICK b \in BOOLEAN : o \in Started(s, "tx", "set_tx_continuous", "cw", b, "TX")
  BY DEF sid_pal_radio_set_tx_continuous
<1>2. "cw" \in Modes /\ "TX" \in States \ {"SLEEP"}
  BY DEF Modes, States
<1> QED
  BY <1>1, <1>2, StartedStarts

\* A reception in duty cycle.
LEMMA DutyCycleStarts ==
    ASSUME NEW s \in Drivers, NEW o \in sid_pal_radio_set_rx_duty_cycle(s)
    PROVE  StartsOrFails(s, o, "rx", "set_duty_cycle", "dc", "RX_DC")
<1>1. PICK b \in BOOLEAN : o \in Started(s, "rx", "set_duty_cycle", "dc", b, "RX_DC")
  BY DEF sid_pal_radio_set_rx_duty_cycle
<1>2. "dc" \in Modes /\ "RX_DC" \in States \ {"SLEEP"}
  BY DEF Modes, States
<1> QED
  BY <1>1, <1>2, StartedStarts

\* A channel activity detection.
LEMMA CadStarts ==
    ASSUME NEW s \in Drivers, NEW o \in sid_pal_radio_lora_start_cad(s)
    PROVE  StartsOrFails(s, o, "rx", "set_cad", "cad", "CAD")
<1>1. PICK b \in BOOLEAN : o \in Started(s, "rx", "set_cad", "cad", b, "CAD")
  BY DEF sid_pal_radio_lora_start_cad
<1>2. "cad" \in Modes /\ "CAD" \in States \ {"SLEEP"}
  BY DEF Modes, States
<1> QED
  BY <1>1, <1>2, StartedStarts

\* Both receptions set the stop of the timer and then start.
LEMMA ReceiveStarts ==
    ASSUME NEW s \in Drivers, NEW m \in {"rx", "rxc"}, NEW timed \in BOOLEAN,
           NEW o \in Receive(s, m, timed)
    PROVE  StartsOrFails(s, o, "rx", "set_rx", m, "RX")
<1> DEFINE on == s.modem = "FSK"
<1>0. on \in BOOLEAN
  OBVIOUS
<1>1. PICK a \in StopTimerOnPreamble(s, on) :
         IF a.ok THEN o \in Started(a.s, "rx", "set_rx", m, timed, "RX") ELSE o = a
  BY DEF Receive, Then
<1> HIDE DEF on
<1>2. /\ a.ok \in BOOLEAN
      /\ Undisturbed(s, a.s)
      /\ a.s.mask = s.mask /\ (a.s.pending <=> s.pending)
  BY <1>0, StopTimer
<1>3. CASE ~a.ok
  BY <1>1, <1>2, <1>3 DEF Undisturbed, StartsOrFails
<1>4. CASE a.ok
  <2> DEFINE t == a.s
  <2>1. o \in Started(t, "rx", "set_rx", m, timed, "RX")
    BY <1>1, <1>4
  <2>2. m \in Modes /\ "RX" \in States \ {"SLEEP"}
    BY DEF Modes, States
  <2>3. t \in Drivers
    BY <1>2 DEF Undisturbed
  <2> HIDE DEF t
  <2>4. StartsOrFails(t, o, "rx", "set_rx", m, "RX")
    BY <2>1, <2>2, <2>3, StartedStarts
  <2> QED
    BY <1>2, <2>4 DEF Undisturbed, StartsOrFails, RfKept, t
<1> QED
  BY <1>2, <1>3, <1>4

\* A reception with a time limit.
LEMMA StartRxStarts ==
    ASSUME NEW s \in Drivers, NEW o \in sid_pal_radio_start_rx(s)
    PROVE  StartsOrFails(s, o, "rx", "set_rx", "rx", "RX")
<1>1. PICK b \in BOOLEAN : o \in Receive(s, "rx", b)
  BY DEF sid_pal_radio_start_rx
<1> QED
  BY <1>1, ReceiveStarts

\* A reception without one.
LEMMA ContinuousRxStarts ==
    ASSUME NEW s \in Drivers, NEW o \in sid_pal_radio_start_continuous_rx(s)
    PROVE  StartsOrFails(s, o, "rx", "set_rx", "rxc", "RX")
<1>1. PICK b \in BOOLEAN : o \in Receive(s, "rxc", b)
  BY DEF sid_pal_radio_start_continuous_rx
<1> QED
  BY <1>1, ReceiveStarts

\* The driver is right about its chip and does not hold it asleep.
Up(s) == Tracked(s) /\ s.state # "SLEEP"

\* A command that starts nothing leaves the driver right about an awake chip.
LEMMA UndisturbedTracks ==
    ASSUME NEW s, NEW t, Undisturbed(s, t), Up(s)
    PROVE  Up(t)
<1> QED
  BY DEF Undisturbed, RfKept, Tracked, Up

\* So does a start on the right path, if no step can fail between the switch and the command.
LEMMA StartTracks ==
    ASSUME NEW s, NEW o, NEW path, NEW c, NEW m, NEW st,
           StartsOrFails(s, o, path, c, m, st),
           <<path, m, st>> \in {<<"tx", "tx", "TX">>, <<"tx", "cw", "TX">>, <<"rx", "rx", "RX">>,
                <<"rx", "rxc", "RX">>, <<"rx", "cad", "CAD">>, <<"rx", "dc", "RX_DC">>},
           Up(s), path = "tx" \/ s.state # "RX_DC",
           s.mode = "standby" \/ (Tcxo => "clear_irq" \notin Faults /\ c \notin Faults)
    PROVE  Up(o.s)
<1>1. CASE o.ok
  BY <1>1 DEF StartsOrFails, Tracked, Up
<1>2. CASE ~o.ok
  BY <1>2 DEF StartsOrFails, RfKept, Tracked, Up
<1> QED
  BY <1>1, <1>2

\* Setting radio_state changes nothing else.
LEMMA StateFields ==
    ASSUME NEW s \in Drivers, NEW st \in States, NEW t, t = [s EXCEPT !.state = st]
    PROVE  /\ t \in Drivers
           /\ t.modem = s.modem /\ t.state = st /\ t.exit = s.exit /\ t.cad = s.cad
           /\ t.mode = s.mode /\ t.irq = s.irq /\ t.rf = s.rf /\ t.seen = s.seen
           /\ t.mask = s.mask /\ t.stop = s.stop /\ t.pending = s.pending /\ t.int_en = s.int_en
<1> QED
  BY DEF Drivers, States

\* What standby leaves, as outcome o of a call in state s.
StandbyOrFails(s, o) ==
    /\ o.ok \in BOOLEAN
    /\ o.s \in Drivers
    /\ o.s.modem = s.modem /\ o.s.exit = s.exit /\ o.s.cad = s.cad
    /\ o.s.mask = s.mask /\ (o.s.pending <=> s.pending)
    /\ Served(s) => Served(o.s)
    /\ s.state = "STANDBY" => o.s = s
    /\ o.ok /\ s.state # "STANDBY" =>
           o.s.state = "STANDBY" /\ o.s.mode = "standby" /\ o.s.irq = {}
    /\ ~o.ok =>
           /\ o.s.irq \in {s.irq, {}}
           /\ \/ /\ o.s.state = s.state /\ s.state # "SLEEP"
                 /\ o.s.mode \in {s.mode, "standby"}
                 /\ RfKept(s, o.s) \/ "set_standby" \in Faults
              \/ s.state = "SLEEP" /\ o.s.state = "STANDBY" /\ o.s.mode = "standby"

\* sid_pal_radio_standby leaves that, also when it first wakes the chip and when a
\* command fails.
LEMMA StandbyStands ==
    ASSUME NEW s \in Drivers, NEW o \in sid_pal_radio_standby(s)
    PROVE  StandbyOrFails(s, o)
<1>1. CASE s.state = "STANDBY"
  <2>1. o = [s |-> s, ok |-> TRUE]
    BY <1>1 DEF sid_pal_radio_standby, Ok
  <2>2. s.stop \in BOOLEAN /\ s.pending \in BOOLEAN
    BY DEF Drivers
  <2> QED
    BY <1>1, <2>1, <2>2 DEF StandbyOrFails
<1>2. CASE s.state # "STANDBY"
  <2> DEFINE awake == CASE s.state = "SLEEP" -> [sx126x_hal_wakeup(s) EXCEPT !.state = "STANDBY"]
                        [] s.state = "UNKNOWN" -> sx126x_hal_wakeup(s)
                        [] OTHER -> s
             B == Then(radio_clear_irq_status_all(awake),
                       LAMBDA t : radio_sx126x_set_radio_mode(t, "off"))
             C == Then(B, LAMBDA t : IF t.state = "STANDBY" THEN Ok(t) ELSE sx126x_set_standby(t))
  <2>1. o \in Then(C, LAMBDA t : Ok([t EXCEPT !.state = "STANDBY"]))
    BY <1>2 DEF sid_pal_radio_standby
  <2>2. PICK z \in C : IF z.ok THEN o \in Ok([z.s EXCEPT !.state = "STANDBY"]) ELSE o = z
    BY <2>1 DEF Then
  <2>3. PICK y \in B : IF y.ok THEN z \in IF y.s.state = "STANDBY" THEN Ok(y.s)
                                          ELSE sx126x_set_standby(y.s)
                               ELSE z = y
    BY <2>2 DEF Then
  <2>4. PICK x \in radio_clear_irq_status_all(awake) :
           IF x.ok THEN y \in Ok([x.s EXCEPT !.rf = "off"]) ELSE y = x
    BY <2>3 DEF Then, radio_sx126x_set_radio_mode
  <2>5. /\ awake \in Drivers
        /\ awake.modem = s.modem /\ awake.exit = s.exit /\ awake.cad = s.cad
        /\ awake.irq = s.irq /\ awake.rf = s.rf /\ awake.mask = s.mask
        /\ (awake.pending <=> s.pending)
        /\ Served(s) => Served(awake)
        /\ IF s.state = "SLEEP" THEN awake.state = "STANDBY" /\ awake.mode = "standby"
           ELSE awake.state = s.state /\ awake.mode \in {s.mode, "standby"}
    <3> DEFINE w == sx126x_hal_wakeup(s)
    <3>1. /\ w \in Drivers
          /\ w.modem = s.modem /\ w.state = s.state /\ w.exit = s.exit /\ w.cad = s.cad
          /\ w.mode = "standby" /\ w.irq = s.irq /\ w.rf = s.rf
          /\ w.mask = s.mask /\ w.stop = s.stop /\ w.pending = s.pending /\ w.int_en = TRUE
      BY WakeupFields
    <3> HIDE DEF w
    <3>2. CASE s.state = "SLEEP"
      <4>1. awake = [w EXCEPT !.state = "STANDBY"]
        BY <3>2 DEF w
      <4> HIDE DEF awake
      <4>2. /\ awake \in Drivers
            /\ awake.modem = w.modem /\ awake.state = "STANDBY" /\ awake.exit = w.exit
            /\ awake.cad = w.cad /\ awake.mode = w.mode /\ awake.irq = w.irq /\ awake.rf = w.rf
            /\ awake.mask = w.mask /\ awake.pending = w.pending /\ awake.int_en = w.int_en
        BY <3>1, <4>1, StateFields DEF States
      <4>3. Served(s) => Served(awake)
        BY <3>1, <4>2 DEF Served, Line
      <4> QED
        BY <3>1, <3>2, <4>2, <4>3
    <3>3. CASE s.state = "UNKNOWN"
      <4>1. awake = w
        BY <3>3 DEF w
      <4>2. Served(s) => Served(w)
        BY <3>1 DEF Served, Line
      <4> QED
        BY <3>1, <3>3, <4>1, <4>2
    <3>4. CASE s.state \notin {"SLEEP", "UNKNOWN"}
      <4>1. awake = s
        BY <3>4
      <4>2. s.pending \in BOOLEAN
        BY DEF Drivers
      <4> QED
        BY <3>4, <4>1, <4>2
    <3> QED
      BY <3>2, <3>3, <3>4
  <2> HIDE DEF awake, B, C
  <2>6. /\ x.ok \in BOOLEAN
        /\ Keeps(awake, x.s)
        /\ Wakes(awake) => x.s.int_en
        /\ x.ok => x.s.irq = {}
    BY <2>4, <2>5, ClearIrq
  <2>7. CASE ~x.ok
    <3>1. o = x
      BY <2>2, <2>3, <2>4, <2>7
    <3> QED
      BY <1>2, <2>5, <2>6, <2>7, <3>1 DEF Keeps, Undisturbed, RfKept, StandbyOrFails
  <2>8. CASE x.ok
    <3> DEFINE t == x.s  v == y.s
    <3>1. v = [t EXCEPT !.rf = "off"] /\ y.ok = TRUE
      BY <2>4, <2>8 DEF Ok
    <3>2. t \in Drivers
      BY <2>6 DEF Keeps, Undisturbed
    <3> HIDE DEF t, v
    <3>3. /\ v \in Drivers
          /\ v.modem = t.modem /\ v.state = t.state /\ v.exit = t.exit /\ v.cad = t.cad
          /\ v.mode = t.mode /\ v.irq = t.irq /\ v.rf = "off"
          /\ v.mask = t.mask /\ v.stop = t.stop /\ v.pending = t.pending /\ v.int_en = t.int_en
      BY <3>1, <3>2, RfFields
    <3>4. /\ v.modem = s.modem /\ v.exit = s.exit /\ v.cad = s.cad /\ v.mask = s.mask
          /\ v.state = awake.state /\ v.irq = {} /\ (v.pending <=> s.pending)
          /\ v.mode \in {awake.mode, "standby"}
      BY <2>5, <2>6, <2>8, <3>3 DEF Keeps, Undisturbed, t
    <3>5. Served(s) => v.int_en
      BY <2>5, <2>6, <3>3 DEF Served, Wakes, t
    <3>6. /\ z.ok \in BOOLEAN
          /\ z.s \in Drivers
          /\ z.s.modem = s.modem /\ z.s.exit = s.exit /\ z.s.cad = s.cad
          /\ z.s.mask = s.mask /\ (z.s.pending <=> s.pending) /\ z.s.irq = {}
          /\ z.s.state = awake.state /\ z.s.mode \in {awake.mode, "standby"}
          /\ z.ok => z.s.mode = "standby"
          /\ Served(s) => z.s.int_en
          /\ ~z.ok => "set_standby" \in Faults /\ awake.state # "STANDBY"
      <4>1. CASE v.state = "STANDBY"
        <5>1. z.s = v /\ z.ok = TRUE
          BY <2>3, <3>1, <4>1 DEF v, Ok
        <5>2. v.mode = "standby"
          BY <1>2, <2>5, <3>4, <4>1
        <5> QED
          BY <3>3, <3>4, <3>5, <5>1, <5>2
      <4>2. CASE v.state # "STANDBY"
        <5>1. z \in sx126x_set_standby(v)
          BY <2>3, <3>1, <4>2 DEF v
        <5>2. /\ z.ok \in BOOLEAN
              /\ Keeps(v, z.s)
              /\ Wakes(v) => z.s.int_en
              /\ z.ok => z.s.mode = "standby"
              /\ "set_standby" \notin Faults => z.ok
          BY <3>3, <5>1, SetStandby
        <5>3. Served(s) => z.s.int_en
          BY <3>5, <5>2 DEF Wakes
        <5> QED
          BY <3>3, <3>4, <4>2, <5>2, <5>3 DEF Keeps, Undisturbed
      <4> QED
        BY <4>1, <4>2
    <3>7. CASE ~z.ok
      <4>1. o = z
        BY <2>2, <3>7
      <4>2. Served(s) => Served(z.s)
        BY <3>6 DEF Served, Line
      <4> QED
        BY <1>2, <2>5, <3>6, <3>7, <4>1, <4>2 DEF StandbyOrFails
    <3>8. CASE z.ok
      <4> DEFINE r == z.s  u == o.s
      <4>1. u = [r EXCEPT !.state = "STANDBY"] /\ o.ok = TRUE
        BY <2>2, <3>8 DEF Ok
      <4>2. r \in Drivers
        BY <3>6
      <4> HIDE DEF r, u
      <4>3. /\ u \in Drivers
            /\ u.modem = r.modem /\ u.state = "STANDBY" /\ u.exit = r.exit /\ u.cad = r.cad
            /\ u.mode = r.mode /\ u.irq = r.irq /\ u.rf = r.rf
            /\ u.mask = r.mask /\ u.pending = r.pending /\ u.int_en = r.int_en
        BY <4>1, <4>2, StateFields DEF States
      <4>4. Served(s) => Served(u)
        BY <3>6, <4>3 DEF Served, Line, r
      <4> QED
        BY <1>2, <3>6, <3>8, <4>1, <4>3, <4>4 DEF StandbyOrFails, r, u
    <3> QED
      BY <3>6, <3>7, <3>8
  <2> QED
    BY <2>6, <2>7, <2>8
<1> QED
  BY <1>1, <1>2

\* After a standby that cannot fail on the bus the driver is right about the chip.
LEMMA StandbyTracks ==
    ASSUME NEW s, NEW o, StandbyOrFails(s, o), Tracked(s), "set_standby" \notin Faults
    PROVE  Up(o.s)
<1> QED
  BY DEF StandbyOrFails, RfKept, Tracked, Up

\* What sleep leaves, as outcome o of a call in state s.
SleepsOrFails(s, o) ==
    /\ o.ok \in BOOLEAN
    /\ o.s \in Drivers
    /\ o.s.modem = s.modem /\ o.s.exit = s.exit /\ o.s.cad = s.cad
    /\ o.s.mask = s.mask /\ (o.s.pending <=> s.pending)
    /\ Served(s) => Served(o.s)
    /\ s.state = "SLEEP" => o.s = s
    /\ o.ok /\ s.state # "SLEEP" =>
           o.s.state = "SLEEP" /\ o.s.mode = "sleep" /\ o.s.irq = {}
    /\ ~o.ok => /\ o.s.irq \in {s.irq, {}} /\ o.s.state = s.state
                /\ o.s.mode \in {s.mode, "standby"}
                /\ RfKept(s, o.s) \/ "set_sleep" \in Faults

\* sid_pal_radio_sleep leaves that.
LEMMA SleepSleeps ==
    ASSUME NEW s \in Drivers, NEW o \in sid_pal_radio_sleep(s)
    PROVE  SleepsOrFails(s, o)
<1>1. CASE s.state = "SLEEP"
  <2>1. o = [s |-> s, ok |-> TRUE]
    BY <1>1 DEF sid_pal_radio_sleep, Ok
  <2>2. s.pending \in BOOLEAN
    BY DEF Drivers
  <2> QED
    BY <1>1, <2>1, <2>2 DEF SleepsOrFails
<1>2. CASE s.state # "SLEEP"
  <2> DEFINE B == Then(radio_clear_irq_status_all(s),
                       LAMBDA t : radio_sx126x_set_radio_mode(t, "off"))
  <2>1. PICK y \in B : IF y.ok THEN o \in Send(y.s, "set_sleep", LAMBDA u :
                   [Enter(u, "sleep", FALSE) EXCEPT !.int_en = FALSE, !.state = "SLEEP"])
                       ELSE o = y
    BY <1>2 DEF sid_pal_radio_sleep, Then
  <2>2. PICK x \in radio_clear_irq_status_all(s) :
           IF x.ok THEN y \in Ok([x.s EXCEPT !.rf = "off"]) ELSE y = x
    BY <2>1 DEF Then, radio_sx126x_set_radio_mode
  <2> HIDE DEF B
  <2>3. /\ x.ok \in BOOLEAN
        /\ Keeps(s, x.s)
        /\ Wakes(s) => x.s.int_en
        /\ x.ok => x.s.irq = {}
    BY <2>2, ClearIrq
  <2>4. CASE ~x.ok
    <3>1. o = x
      BY <2>1, <2>2, <2>4
    <3> QED
      BY <1>2, <2>3, <2>4, <3>1 DEF Keeps, Undisturbed, SleepsOrFails
  <2>5. CASE x.ok
    <3> DEFINE t == x.s  v == y.s
    <3>1. v = [t EXCEPT !.rf = "off"] /\ y.ok = TRUE
      BY <2>2, <2>5 DEF Ok
    <3>2. t \in Drivers
      BY <2>3 DEF Keeps, Undisturbed
    <3>3. PICK a \in Bus(v, "set_sleep") :
             IF a.ok THEN o \in Ok([Enter(a.s, "sleep", FALSE) EXCEPT
                                       !.int_en = FALSE, !.state = "SLEEP"])
                     ELSE o = a
      BY <2>1, <3>1 DEF Send, Then
    <3> HIDE DEF t, v
    <3>4. /\ v \in Drivers
          /\ v.modem = t.modem /\ v.state = t.state /\ v.exit = t.exit /\ v.cad = t.cad
          /\ v.mode = t.mode /\ v.irq = t.irq /\ v.rf = "off"
          /\ v.mask = t.mask /\ v.stop = t.stop /\ v.pending = t.pending /\ v.int_en = t.int_en
      BY <3>1, <3>2, RfFields
    <3>5. Served(s) => Served(v)
      <4>1. Served(s) => v.int_en
        BY <2>3, <3>4 DEF Served, Wakes, t
      <4> QED
        BY <2>3, <2>5, <3>4, <4>1 DEF Served, Line, t
    <3>6. /\ a.ok \in BOOLEAN
          /\ Keeps(v, a.s)
          /\ a.s.irq = v.irq
          /\ "set_sleep" \notin Faults => a.ok
      BY <3>3, <3>4, BusKeeps
    <3>7. CASE ~a.ok
      <4>1. o = a
        BY <3>3, <3>7
      <4> QED
        BY <1>2, <2>3, <2>5, <3>4, <3>5, <3>6, <3>7, <4>1
        DEF SleepsOrFails, Keeps, Undisturbed, t
    <3>8. CASE a.ok
      <4> DEFINE w == a.s  e == Enter(w, "sleep", FALSE)  u == o.s
      <4>1. u = [e EXCEPT !.int_en = FALSE, !.state = "SLEEP"] /\ o.ok = TRUE
        BY <3>3, <3>8 DEF Ok
      <4>2. w \in Drivers
        BY <3>6 DEF Keeps, Undisturbed
      <4>3. PICK b \in BOOLEAN : e = Enter(w, "sleep", b)
        OBVIOUS
      <4> HIDE DEF w, e, u
      <4>4. /\ e \in Drivers
            /\ e.modem = w.modem /\ e.exit = w.exit /\ e.cad = w.cad
            /\ e.mode = "sleep" /\ e.irq = w.irq /\ e.rf = w.rf
            /\ e.mask = w.mask /\ e.stop = w.stop /\ e.pending = w.pending
        <5>1. "sleep" \in Modes
          BY DEF Modes
        <5> QED
          BY <4>2, <4>3, <5>1, EnterFields
      <4>5. u \in Drivers
        BY <4>1, <4>4 DEF Drivers, States
      <4>6. /\ u.modem = e.modem /\ u.state = "SLEEP" /\ u.exit = e.exit /\ u.cad = e.cad
            /\ u.mode = e.mode /\ u.irq = e.irq /\ u.rf = e.rf
            /\ u.mask = e.mask /\ u.pending = e.pending
        BY <4>1, <4>4 DEF Drivers
      <4>7. u.irq = {}
        BY <2>3, <2>5, <3>4, <3>6, <4>4, <4>6 DEF t, w
      <4>8. Served(u)
        BY <4>4, <4>6, <4>7 DEF Served, Line
      <4>9. /\ u.modem = s.modem /\ u.exit = s.exit /\ u.cad = s.cad
            /\ u.mask = s.mask /\ (u.pending <=> s.pending)
        BY <2>3, <3>4, <3>6, <4>4, <4>6 DEF t, w, Keeps, Undisturbed
      <4> QED
        BY <1>2, <4>1, <4>4, <4>5, <4>6, <4>7, <4>8, <4>9 DEF SleepsOrFails, u
    <3> QED
      BY <3>6, <3>7, <3>8
  <2> QED
    BY <2>3, <2>4, <2>5
<1> QED
  BY <1>1, <1>2

\* The mask of either modem is one of the masks.
LEMMA MaskOfModem ==
    ASSUME NEW s \in Drivers
    PROVE  irq_mask(s.modem) \in Masks /\ {} \in Masks /\ sense_mask \in Masks
<1> QED
  BY DEF Drivers, Modems, Masks

\* radio_enable_irq sets the mask of the modem.
LEMMA EnableIrq ==
    ASSUME NEW s \in Drivers, NEW o \in radio_enable_irq(s)
    PROVE  /\ o.ok \in BOOLEAN
           /\ Undisturbed(s, o.s)
           /\ o.s.irq = s.irq
           /\ "irq_params" \notin Faults => o.ok
<1> QED
  BY SetIrqParams, MaskOfModem DEF radio_enable_irq

\* Everything but the modem is undisturbed by the choice of one.
LEMMA SetModemKeeps ==
    ASSUME NEW s \in Drivers, NEW m \in Modems, NEW o \in sid_pal_radio_set_modem_mode(s, m)
    PROVE  /\ o.ok \in BOOLEAN
           /\ o.s \in Drivers
           /\ o.s.state = s.state /\ o.s.exit = s.exit /\ o.s.cad = s.cad
           /\ o.s.mode \in {s.mode, "standby"} /\ o.s.irq = s.irq
           /\ RfKept(s, o.s)
           /\ Served(s) => Served(o.s)
<1> DEFINE A == Send(s, "pkt_type", LAMBDA t : [t EXCEPT !.modem = m])
<1>1. PICK x \in A : IF x.ok THEN o \in radio_enable_irq(x.s) ELSE o = x
  BY DEF sid_pal_radio_set_modem_mode, Then
<1>2. PICK a \in Bus(s, "pkt_type") : IF a.ok THEN x \in Ok([a.s EXCEPT !.modem = m]) ELSE x = a
  BY <1>1 DEF Send, Then
<1> HIDE DEF A
<1>3. a.ok \in BOOLEAN /\ Keeps(s, a.s) /\ a.s.irq = s.irq
  BY <1>2, BusKeeps
<1>4. CASE ~a.ok
  BY <1>1, <1>2, <1>3, <1>4 DEF Keeps, Undisturbed
<1>5. CASE a.ok
  <2> DEFINE t == a.s  u == x.s
  <2>1. u = [t EXCEPT !.modem = m] /\ x.ok = TRUE
    BY <1>2, <1>5 DEF Ok
  <2>2. o \in radio_enable_irq(u)
    BY <1>1, <2>1
  <2>3. t \in Drivers
    BY <1>3 DEF Keeps, Undisturbed
  <2> HIDE DEF t, u
  <2>4. /\ u \in Drivers
        /\ u.state = t.state /\ u.exit = t.exit /\ u.cad = t.cad
        /\ u.mode = t.mode /\ u.irq = t.irq /\ u.rf = t.rf
        /\ u.mask = t.mask /\ u.pending = t.pending /\ u.int_en = t.int_en
    BY <2>1, <2>3 DEF Drivers
  <2>5. Served(t) => Served(u)
    BY <2>4 DEF Served, Line
  <2>6. o.ok \in BOOLEAN /\ Undisturbed(u, o.s) /\ o.s.irq = u.irq
    BY <2>2, <2>4, EnableIrq
  <2> QED
    BY <1>3, <2>4, <2>5, <2>6 DEF Keeps, Undisturbed, RfKept, t
<1> QED
  BY <1>3, <1>4, <1>5

\* Nor by the parameters of a detection, but for the exit modes.
LEMMA CadParamsKeeps ==
    ASSUME NEW s \in Drivers, NEW e \in ExitModes,
           NEW o \in sid_pal_radio_set_lora_cad_params(s, e)
    PROVE  /\ o.ok \in BOOLEAN
           /\ o.s \in Drivers
           /\ o.s.modem = s.modem /\ o.s.state = s.state /\ o.s.exit = e
           /\ o.s.mode \in {s.mode, "standby"} /\ o.s.irq = s.irq
           /\ o.ok => o.s.cad = e
           /\ RfKept(s, o.s)
           /\ Served(s) => Served(o.s)
           /\ "cad_params" \notin Faults => o.ok
<1> DEFINE v == [s EXCEPT !.exit = e]
<1>1. PICK a \in Bus(v, "cad_params") : IF a.ok THEN o \in Ok([a.s EXCEPT !.cad = e]) ELSE o = a
  BY DEF sid_pal_radio_set_lora_cad_params, Send, Then
<1>2. /\ v \in Drivers
      /\ v.modem = s.modem /\ v.state = s.state /\ v.exit = e
      /\ v.mode = s.mode /\ v.irq = s.irq /\ v.rf = s.rf
      /\ v.mask = s.mask /\ v.pending = s.pending /\ v.int_en = s.int_en
  BY DEF Drivers
<1> HIDE DEF v
<1>3. Served(s) => Served(v)
  BY <1>2 DEF Served, Line
<1>4. /\ a.ok \in BOOLEAN /\ Keeps(v, a.s) /\ a.s.irq = v.irq
      /\ "cad_params" \notin Faults => a.ok
  BY <1>1, <1>2, BusKeeps
<1>5. CASE ~a.ok
  BY <1>1, <1>2, <1>3, <1>4, <1>5 DEF Keeps, Undisturbed, RfKept
<1>6. CASE a.ok
  <2> DEFINE t == a.s  u == o.s
  <2>1. u = [t EXCEPT !.cad = e] /\ o.ok = TRUE
    BY <1>1, <1>6 DEF Ok
  <2>2. t \in Drivers
    BY <1>4 DEF Keeps, Undisturbed
  <2> HIDE DEF t, u
  <2>3. /\ u \in Drivers
        /\ u.modem = t.modem /\ u.state = t.state /\ u.exit = t.exit /\ u.cad = e
        /\ u.mode = t.mode /\ u.irq = t.irq /\ u.rf = t.rf
        /\ u.mask = t.mask /\ u.pending = t.pending /\ u.int_en = t.int_en
    BY <2>1, <2>2 DEF Drivers
  <2>4. Served(t) => Served(u)
    BY <2>3 DEF Served, Line
  <2>5. /\ t.modem = v.modem /\ t.state = v.state /\ t.exit = v.exit
        /\ t.mode \in {v.mode, "standby"} /\ t.irq = v.irq
        /\ RfKept(v, t)
        /\ Served(v) => Served(t)
    BY <1>4 DEF Keeps, Undisturbed, t
  <2>6. RfKept(s, u)
    BY <1>2, <2>3, <2>5 DEF RfKept
  <2>7. /\ u.modem = s.modem /\ u.state = s.state /\ u.exit = e
        /\ u.mode \in {s.mode, "standby"} /\ u.irq = s.irq /\ u.cad = e
    BY <1>2, <2>3, <2>5
  <2>8. Served(s) => Served(u)
    BY <1>3, <2>4, <2>5
  <2> QED
    BY <2>1, <2>3, <2>6, <2>7, <2>8 DEF u
<1> QED
  BY <1>4, <1>5, <1>6

\* What the start of a carrier sense leaves, as outcome o of a call in state s.
SensesOrFails(s, o, exit) ==
    /\ o.ok \in BOOLEAN
    /\ o.s \in Drivers
    /\ o.s.modem = s.modem /\ o.s.cad = s.cad
    /\ Served(s) => Served(o.s)
    /\ o.ok => /\ s.modem = "FSK"
               /\ o.s.state = "RX" /\ o.s.mode = "rx" /\ o.s.irq = {} /\ o.s.seen = "none"
               /\ o.s.mask = sense_mask /\ o.s.stop /\ (o.s.pending <=> s.pending)
               /\ o.s.exit = exit
               /\ o.s.rf = "rx" \/ (o.s.rf = "tx" /\ s.state \in {"SLEEP", "RX_DC"})
    /\ ~o.ok => /\ o.s.state = s.state /\ o.s.exit = s.exit /\ o.s.irq \in {s.irq, {}}
                /\ o.s.mode \in {s.mode, "standby"}
                /\ \/ RfKept(s, o.s)
                   \/ o.s.mode = "standby"
                   \/ Tcxo /\ {"clear_irq", "irq_params", "sense_rx"} \cap Faults # {}

\* Its last command, as those of the other starts.
LEMMA CommandSenses ==
    ASSUME NEW s \in Drivers, s.irq = {}, NEW e \in ExitModes,
           NEW o, NEW a \in Bus(s, "sense_rx"),
           IF a.ok THEN o \in Ok([Enter(a.s, "rx", TRUE) EXCEPT !.state = "RX", !.exit = e])
                   ELSE o = a
    PROVE  /\ o.ok \in BOOLEAN
           /\ ~o.ok => Keeps(s, o.s)
           /\ o.ok => /\ o.s \in Drivers
                      /\ o.s.modem = s.modem /\ o.s.state = "RX" /\ o.s.exit = e
                      /\ o.s.cad = s.cad
                      /\ o.s.mode = "rx" /\ o.s.irq = {} /\ o.s.seen = "none"
                      /\ RfKept(s, o.s)
                      /\ o.s.mask = s.mask /\ (o.s.stop <=> s.stop)
                      /\ (o.s.pending <=> s.pending)
                      /\ Served(s) => Served(o.s)
           /\ "sense_rx" \notin Faults => o.ok
<1>2. /\ a.ok \in BOOLEAN /\ Keeps(s, a.s) /\ (Wakes(s) => a.s.int_en)
      /\ a.s.irq = s.irq
      /\ "sense_rx" \notin Faults => a.ok
  BY BusKeeps
<1>3. CASE a.ok
  <2> DEFINE t == a.s  u == o.s  v == Enter(t, "rx", TRUE)
  <2>1. u = [v EXCEPT !.state = "RX", !.exit = e] /\ o.ok = TRUE
    BY <1>3 DEF Ok
  <2>2. t \in Drivers
    BY <1>2 DEF Keeps, Undisturbed
  <2>3. PICK b \in BOOLEAN : v = Enter(t, "rx", b)
    OBVIOUS
  <2> HIDE DEF t, u, v
  <2>4. /\ v \in Drivers
        /\ v.modem = t.modem /\ v.state = t.state /\ v.exit = t.exit /\ v.cad = t.cad
        /\ v.mode = "rx" /\ v.irq = t.irq /\ v.rf = t.rf /\ v.seen = "none"
        /\ v.mask = t.mask /\ v.stop = t.stop /\ v.pending = t.pending /\ v.int_en = t.int_en
    <3>1. "rx" \in Modes
      BY DEF Modes
    <3> QED
      BY <2>2, <2>3, <3>1, EnterFields
  <2>5. /\ u \in Drivers
        /\ u.modem = v.modem /\ u.state = "RX" /\ u.exit = e /\ u.cad = v.cad
        /\ u.mode = v.mode /\ u.irq = v.irq /\ u.rf = v.rf /\ u.seen = v.seen
        /\ u.mask = v.mask /\ u.stop = v.stop /\ u.pending = v.pending /\ u.int_en = v.int_en
    BY <2>1, <2>4 DEF Drivers, States
  <2>6. Served(s) => Served(u)
    <3>1. Served(s) => u.int_en
      BY <1>2, <2>4, <2>5 DEF Served, Wakes, t
    <3> QED
      BY <1>2, <2>4, <2>5, <3>1 DEF Served, Line, t
  <2>7. /\ u.modem = s.modem /\ u.cad = s.cad /\ u.mask = s.mask
        /\ RfKept(s, u)
        /\ (u.stop <=> s.stop) /\ (u.pending <=> s.pending)
    BY <1>2, <2>4, <2>5 DEF Keeps, Undisturbed, RfKept, t
  <2>8. u.irq = {}
    BY <1>2, <2>4, <2>5 DEF t
  <2> QED
    BY <1>2, <2>1, <2>4, <2>5, <2>6, <2>7, <2>8 DEF u
<1> QED
  BY <1>2, <1>3

\* sid_pal_radio_start_carrier_sense leaves that, through its six commands.
LEMMA CarrierSenseSenses ==
    ASSUME NEW s \in Drivers, NEW e \in ExitModes,
           NEW o \in sid_pal_radio_start_carrier_sense(s, e)
    PROVE  SensesOrFails(s, o, e)
<1>1. CASE s.modem # "FSK"
  <2>1. o = [s |-> s, ok |-> FALSE]
    BY <1>1 DEF sid_pal_radio_start_carrier_sense, Failed
  <2> QED
    BY <2>1 DEF SensesOrFails, RfKept
<1>2. CASE s.modem = "FSK"
  <2> DEFINE A == StopTimerOnPreamble(s, TRUE)
             B == Then(A, LAMBDA t : set_trim_cap_val_to_radio(t))
             C == Then(B, LAMBDA t : radio_sx126x_set_radio_mode(t, "rx"))
             D == Then(C, LAMBDA t : radio_clear_irq_status_all(t))
             E == Then(D, LAMBDA t : set_dio_irq_params(t, sense_mask))
  <2>1. PICK e5 \in E : IF e5.ok
                        THEN o \in Send(e5.s, "sense_rx", LAMBDA u :
                                [Enter(u, "rx", TRUE) EXCEPT !.state = "RX", !.exit = e])
                        ELSE o = e5
    BY <1>2 DEF sid_pal_radio_start_carrier_sense, Then
  <2>2. PICK e4 \in D : IF e4.ok THEN e5 \in set_dio_irq_params(e4.s, sense_mask) ELSE e5 = e4
    BY <2>1 DEF Then
  <2>3. PICK e3 \in C : IF e3.ok THEN e4 \in radio_clear_irq_status_all(e3.s) ELSE e4 = e3
    BY <2>2 DEF Then
  <2>4. PICK e2 \in B : IF e2.ok THEN e3 \in Ok([e2.s EXCEPT !.rf = "rx"]) ELSE e3 = e2
    BY <2>3 DEF Then, radio_sx126x_set_radio_mode
  <2>5. PICK e1 \in A : IF e1.ok THEN e2 \in set_trim_cap_val_to_radio(e1.s) ELSE e2 = e1
    BY <2>4 DEF Then
  <2>6. PICK on \in BOOLEAN : on /\ e1 \in StopTimerOnPreamble(s, on)
    BY <2>5
  <2> HIDE DEF A, B, C, D, E
  <2>7. /\ e1.ok \in BOOLEAN
        /\ Undisturbed(s, e1.s)
        /\ e1.s.mask = s.mask /\ (e1.s.pending <=> s.pending)
        /\ e1.ok => e1.s.stop
    BY <2>6, StopTimer
  <2>8. CASE ~e1.ok
    <3>1. o = e1
      BY <2>1, <2>2, <2>3, <2>4, <2>5, <2>8
    <3> QED
      BY <2>7, <2>8, <3>1 DEF Undisturbed, SensesOrFails
  <2>9. CASE e1.ok
    <3>1. e2 \in set_trim_cap_val_to_radio(e1.s) /\ e1.s \in Drivers
      BY <2>5, <2>7, <2>9 DEF Undisturbed
    <3>2. /\ e2.ok \in BOOLEAN
          /\ Keeps(e1.s, e2.s)
          /\ e2.ok /\ ~Tcxo => e2.s.mode = "standby"
      BY <3>1, Trim
    <3>3. /\ Undisturbed(s, e2.s)
          /\ e2.s.mask = s.mask /\ (e2.s.pending <=> s.pending) /\ e2.s.stop
      BY <2>7, <2>9, <3>2 DEF Keeps, Undisturbed, RfKept
    <3>4. CASE ~e2.ok
      <4>1. o = e2
        BY <2>1, <2>2, <2>3, <2>4, <3>4
      <4> QED
        BY <3>2, <3>3, <3>4, <4>1 DEF Undisturbed, SensesOrFails
    <3>5. CASE e2.ok
      <4> DEFINE t == e2.s  v == e3.s
      <4>1. v = [t EXCEPT !.rf = "rx"] /\ e3.ok = TRUE
        BY <2>4, <3>5 DEF Ok
      <4>2. t \in Drivers
        BY <3>3 DEF Undisturbed
      <4>3. e4 \in radio_clear_irq_status_all(v)
        BY <2>3, <4>1
      <4> HIDE DEF t, v
      <4>4. /\ v \in Drivers
            /\ v.modem = t.modem /\ v.state = t.state /\ v.exit = t.exit /\ v.cad = t.cad
            /\ v.mode = t.mode /\ v.irq = t.irq /\ v.rf = "rx"
            /\ v.mask = t.mask /\ v.stop = t.stop /\ v.pending = t.pending
            /\ v.int_en = t.int_en
        BY <4>1, <4>2, RfFields
      <4>5. Served(t) => Served(v)
        BY <4>4 DEF Served, Line
      <4>6. /\ e4.ok \in BOOLEAN
            /\ Keeps(v, e4.s)
            /\ e4.ok => e4.s.irq = {}
            /\ "clear_irq" \notin Faults => e4.ok
        BY <4>3, <4>4, ClearIrq
      <4>7. /\ e4.s \in Drivers
            /\ e4.s.modem = s.modem /\ e4.s.state = s.state /\ e4.s.exit = s.exit
            /\ e4.s.cad = s.cad /\ e4.s.mode \in {s.mode, "standby"} /\ e4.s.irq \in {s.irq, {}}
            /\ e4.s.stop /\ (e4.s.pending <=> s.pending)
            /\ Served(s) => Served(e4.s)
            /\ ~Tcxo => e4.s.mode = "standby"
            /\ e4.s.rf = "rx" \/ (e4.s.rf = "tx" /\ s.state \in {"SLEEP", "RX_DC"})
        BY <3>2, <3>3, <3>5, <4>4, <4>5, <4>6 DEF Keeps, Undisturbed, RfKept, t
      <4>8. CASE ~e4.ok
        <5>1. o = e4
          BY <2>1, <2>2, <4>8
        <5> QED
          BY <4>6, <4>7, <4>8, <5>1 DEF SensesOrFails
      <4>9. CASE e4.ok
        <5>1. e5 \in set_dio_irq_params(e4.s, sense_mask)
          BY <2>2, <4>9
        <5>2. /\ e5.ok \in BOOLEAN
              /\ Undisturbed(e4.s, e5.s)
              /\ e5.s.irq = e4.s.irq /\ (e5.s.stop <=> e4.s.stop)
              /\ e5.ok => e5.s.mask = sense_mask
              /\ e4.s.irq = {} => (e5.s.pending <=> e4.s.pending)
              /\ "irq_params" \notin Faults => e5.ok
          BY <4>7, <5>1, SetIrqParams, MaskOfModem
        <5>3. /\ e5.s \in Drivers
              /\ e5.s.modem = s.modem /\ e5.s.state = s.state /\ e5.s.exit = s.exit
              /\ e5.s.cad = s.cad /\ e5.s.mode \in {s.mode, "standby"} /\ e5.s.irq = {}
              /\ e5.s.stop /\ (e5.s.pending <=> s.pending)
              /\ Served(s) => Served(e5.s)
              /\ ~Tcxo => e5.s.mode = "standby"
              /\ e5.s.rf = "rx" \/ (e5.s.rf = "tx" /\ s.state \in {"SLEEP", "RX_DC"})
          BY <4>6, <4>7, <4>9, <5>2 DEF Undisturbed, RfKept
        <5>4. CASE ~e5.ok
          <6>1. o = e5
            BY <2>1, <5>4
          <6> QED
            BY <5>2, <5>3, <5>4, <6>1 DEF SensesOrFails
        <5>5. CASE e5.ok
          <6> DEFINE w == e5.s
          <6>1. PICK a \in Bus(w, "sense_rx") :
                   IF a.ok THEN o \in Ok([Enter(a.s, "rx", TRUE) EXCEPT !.state = "RX", !.exit = e])
                           ELSE o = a
            BY <2>1, <5>5 DEF Send, Then
          <6>2. w \in Drivers /\ w.irq = {}
            BY <5>3
          <6> HIDE DEF w
          <6>3. /\ o.ok \in BOOLEAN
                /\ ~o.ok => Keeps(w, o.s)
                /\ o.ok => /\ o.s \in Drivers
                           /\ o.s.modem = w.modem /\ o.s.state = "RX" /\ o.s.exit = e
                           /\ o.s.cad = w.cad
                           /\ o.s.mode = "rx" /\ o.s.irq = {} /\ o.s.seen = "none"
                           /\ RfKept(w, o.s)
                           /\ o.s.mask = w.mask /\ (o.s.stop <=> w.stop)
                           /\ (o.s.pending <=> w.pending)
                           /\ Served(w) => Served(o.s)
                /\ "sense_rx" \notin Faults => o.ok
            BY <6>1, <6>2, CommandSenses
          <6>4. CASE o.ok
            BY <1>2, <5>2, <5>3, <5>5, <6>3, <6>4 DEF SensesOrFails, RfKept, w
          <6>5. CASE ~o.ok
            BY <5>3, <6>3, <6>5 DEF SensesOrFails, RfKept, Keeps, Undisturbed, w
          <6> QED
            BY <6>3, <6>4, <6>5
        <5> QED
          BY <5>2, <5>4, <5>5
      <4> QED
        BY <4>6, <4>8, <4>9
    <3> QED
      BY <3>2, <3>4, <3>5
  <2> QED
    BY <2>7, <2>8, <2>9
<1> QED
  BY <1>1, <1>2

\* A carrier sense leaves the driver right about the chip, if no step can fail
\* after the RF switch was moved.
LEMMA SenseTracks ==
    ASSUME NEW s, NEW o, NEW e, SensesOrFails(s, o, e), Up(s), s.state # "RX_DC",
           Tcxo => {"clear_irq", "irq_params", "sense_rx"} \cap Faults = {}
    PROVE  Up(o.s)
<1> QED
  BY DEF SensesOrFails, RfKept, Tracked, Up

\* What a measurement leaves, as outcome o of a call in state s.
MeasuresOrFails(s, o) ==
    /\ o.ok \in BOOLEAN
    /\ o.s \in Drivers
    /\ o.s.modem = s.modem /\ o.s.exit = s.exit /\ o.s.cad = s.cad
    /\ Served(s) => Served(o.s)
    /\ s.state # "STANDBY" => ~o.ok /\ o.s = s
    /\ s.state = "STANDBY" /\ s.mode = "standby" =>
           /\ o.s.mode \in {"standby", "rxc"} /\ o.s.state \in {"STANDBY", "RX"}
           /\ o.s.state = "STANDBY" => o.s.mode = "standby" /\ o.s.irq \in {s.irq, {}}
           /\ \/ Up(s) => Up(o.s)
              \/ "set_standby" \in Faults
              \/ Tcxo /\ {"clear_irq", "set_rx"} \cap Faults # {}

\* sid_pal_radio_is_channel_free leaves that: a reception, a delay and a standby.
LEMMA MeasureMeasures ==
    ASSUME NEW s \in Drivers, NEW o \in sid_pal_radio_is_channel_free(s)
    PROVE  MeasuresOrFails(s, o)
<1>1. CASE s.state # "STANDBY"
  <2>1. o = [s |-> s, ok |-> FALSE]
    BY <1>1 DEF sid_pal_radio_is_channel_free, Failed
  <2> QED
    BY <1>1, <2>1 DEF MeasuresOrFails
<1>2. CASE s.state = "STANDBY"
  <2>1. PICK x \in radio_disable_irq(s) :
          IF x.ok THEN \E p \in sid_pal_radio_start_continuous_rx(x.s) :
                          o \in Then(radio_enable_irq(p.s), LAMBDA u : sid_pal_radio_standby(u))
                  ELSE o = x
    BY <1>2 DEF sid_pal_radio_is_channel_free, Then
  <2>2. /\ x.ok \in BOOLEAN
        /\ Undisturbed(s, x.s)
    BY <2>1, MaskOfModem, SetIrqParams DEF radio_disable_irq
  <2>3. Up(s) => Up(x.s)
    BY <2>2, UndisturbedTracks
  <2>4. CASE ~x.ok
    BY <1>2, <2>1, <2>2, <2>3, <2>4 DEF MeasuresOrFails, Undisturbed
  <2>5. CASE x.ok
    <3>1. PICK p \in sid_pal_radio_start_continuous_rx(x.s) :
             o \in Then(radio_enable_irq(p.s), LAMBDA u : sid_pal_radio_standby(u))
      BY <2>1, <2>5
    <3>2. PICK q \in radio_enable_irq(p.s) : IF q.ok THEN o \in sid_pal_radio_standby(q.s)
                                                     ELSE o = q
      BY <3>1 DEF Then
    <3>3. x.s \in Drivers /\ x.s.state = "STANDBY"
      BY <1>2, <2>2 DEF Undisturbed
    <3>4. StartsOrFails(x.s, p, "rx", "set_rx", "rxc", "RX")
      BY <3>1, <3>3, ContinuousRxStarts
    <3>5. /\ q.ok \in BOOLEAN
          /\ Undisturbed(p.s, q.s)
          /\ q.s.irq = p.s.irq
      BY <3>2, <3>4, EnableIrq DEF StartsOrFails
    <3>6. /\ q.s \in Drivers
          /\ q.s.modem = s.modem /\ q.s.exit = s.exit /\ q.s.cad = s.cad
          /\ Served(s) => Served(q.s)
      BY <2>2, <3>4, <3>5 DEF StartsOrFails, Undisturbed
    <3>7. s.mode = "standby" =>
             /\ q.s.mode \in {"standby", "rxc"} /\ q.s.state \in {"STANDBY", "RX"}
             /\ q.s.state = "STANDBY" => q.s.mode = "standby" /\ q.s.irq \in {s.irq, {}}
      <4>1. CASE p.ok
        BY <3>4, <3>5, <4>1 DEF StartsOrFails, Undisturbed
      <4>2. CASE ~p.ok
        BY <2>2, <3>3, <3>4, <3>5, <4>2 DEF StartsOrFails, Undisturbed
      <4> QED
        BY <4>1, <4>2
    <3>8. (Tcxo => {"clear_irq", "set_rx"} \cap Faults = {}) /\ Up(s) => Up(q.s)
      <4> HAVE (Tcxo => {"clear_irq", "set_rx"} \cap Faults = {}) /\ Up(s)
      <4>1. Tcxo => "clear_irq" \notin Faults /\ "set_rx" \notin Faults
        OBVIOUS
      <4>2. Up(p.s)
        BY <2>3, <3>3, <3>4, <4>1, StartTracks
      <4> QED
        BY <3>5, <4>2, UndisturbedTracks
    <3>9. CASE ~q.ok
      BY <1>2, <3>2, <3>5, <3>6, <3>7, <3>8, <3>9 DEF MeasuresOrFails
    <3>10. CASE q.ok
      <4>1. StandbyOrFails(q.s, o)
        BY <3>2, <3>6, <3>10, StandbyStands
      <4>2. "set_standby" \notin Faults /\ Up(q.s) => Up(o.s)
        BY <4>1, StandbyTracks DEF Up
      <4>3. /\ o.ok \in BOOLEAN /\ o.s \in Drivers
            /\ o.s.modem = s.modem /\ o.s.exit = s.exit /\ o.s.cad = s.cad
            /\ Served(s) => Served(o.s)
        BY <3>6, <4>1 DEF StandbyOrFails
      <4>4. s.mode = "standby" =>
             /\ o.s.mode \in {"standby", "rxc"} /\ o.s.state \in {"STANDBY", "RX"}
             /\ o.s.state = "STANDBY" => o.s.mode = "standby" /\ o.s.irq \in {s.irq, {}}
        <5>1. CASE q.s.state = "STANDBY"
          BY <3>7, <4>1, <5>1 DEF StandbyOrFails
        <5>2. CASE q.s.state # "STANDBY"
          BY <3>7, <4>1, <5>2 DEF StandbyOrFails
        <5> QED
          BY <5>1, <5>2
      <4> QED
        BY <1>2, <3>8, <4>2, <4>3, <4>4 DEF MeasuresOrFails
    <3> QED
      BY <3>5, <3>9, <3>10
  <2> QED
    BY <2>2, <2>4, <2>5
<1> QED
  BY <1>1, <1>2

\* Drawing random numbers.
LEMMA RandomKeeps ==
    ASSUME NEW s \in Drivers, NEW o \in sid_pal_radio_random(s)
    PROVE  /\ o.ok \in BOOLEAN
           /\ o.s \in Drivers
           /\ o.s.exit = s.exit
           /\ Served(s) => Served(o.s)
           /\ "set_standby" \notin Faults => Undisturbed(s, o.s)
<1> DEFINE Rx(t) == Send(t, "set_rx", LAMBDA u : Enter(u, "rxc", FALSE))
           drawn(t) == Then(Rx(t), LAMBDA u : sx126x_set_standby(u))
<1>0. o \in Then(radio_disable_irq(s),
                  LAMBDA t : UNION {radio_enable_irq(p.s) : p \in drawn(t)})
  BY DEF sid_pal_radio_random
<1> HIDE DEF Rx, drawn
<1>1. PICK x \in radio_disable_irq(s) :
        IF x.ok THEN \E p \in drawn(x.s) : o \in radio_enable_irq(p.s) ELSE o = x
  BY <1>0 DEF Then
<1>2. x.ok \in BOOLEAN /\ Undisturbed(s, x.s)
  BY <1>1, MaskOfModem, SetIrqParams DEF radio_disable_irq
<1>3. CASE ~x.ok
  BY <1>1, <1>2, <1>3 DEF Undisturbed
<1>4. CASE x.ok
  <2>1. PICK p \in drawn(x.s) : o \in radio_enable_irq(p.s)
    BY <1>1, <1>4
  <2>2. PICK y \in Rx(x.s) : IF y.ok THEN p \in sx126x_set_standby(y.s) ELSE p = y
    BY <2>1 DEF Then, drawn
  <2>3. PICK a \in Bus(x.s, "set_rx") : IF a.ok THEN y \in Ok(Enter(a.s, "rxc", FALSE)) ELSE y = a
    BY <2>2 DEF Send, Then, Rx
  <2>4. /\ a.ok \in BOOLEAN /\ Keeps(x.s, a.s)
        /\ Wakes(x.s) => a.s.int_en
    BY <1>2, <2>3, BusKeeps DEF Undisturbed
  <2>5. /\ p.s \in Drivers
        /\ p.s.exit = s.exit
        /\ Served(s) => Served(p.s)
        /\ "set_standby" \notin Faults => Undisturbed(s, p.s)
    <3>1. CASE ~a.ok
      BY <1>2, <2>2, <2>3, <2>4, <3>1 DEF Keeps, Undisturbed, RfKept
    <3>2. CASE a.ok
      <4> DEFINE t == a.s  u == y.s
      <4>0. u = Enter(t, "rxc", FALSE) /\ y.ok = TRUE
        BY <2>3, <3>2 DEF Ok, Enter
      <4>1. PICK b \in BOOLEAN : u = Enter(t, "rxc", b) /\ y.ok = TRUE
        BY <4>0
      <4>2. p \in sx126x_set_standby(u)
        BY <2>2, <4>1
      <4>3. t \in Drivers
        BY <2>4 DEF Keeps, Undisturbed
      <4> HIDE DEF t, u
      <4>4. /\ u \in Drivers
            /\ u.modem = t.modem /\ u.state = t.state /\ u.exit = t.exit /\ u.cad = t.cad
            /\ u.irq = t.irq /\ u.rf = t.rf
            /\ u.mask = t.mask /\ u.pending = t.pending /\ u.int_en = t.int_en
        <5>1. "rxc" \in Modes
          BY DEF Modes
        <5> QED
          BY <4>1, <4>3, <5>1, EnterFields
      <4>5. Served(s) => Served(u)
        <5>1. Served(s) => u.int_en /\ Served(t)
          BY <1>2, <2>4, <4>4 DEF Served, Wakes, Keeps, Undisturbed, t
        <5> QED
          BY <4>4, <5>1 DEF Served, Line
      <4>6. /\ p.ok \in BOOLEAN
            /\ Keeps(u, p.s)
            /\ p.ok => p.s.mode = "standby"
            /\ "set_standby" \notin Faults => p.ok
        BY <4>2, <4>4, SetStandby
      <4>7. "set_standby" \notin Faults => p.s.mode = "standby"
        BY <4>6
      <4> QED
        BY <1>2, <2>4, <4>4, <4>5, <4>6, <4>7 DEF Keeps, Undisturbed, RfKept, t
    <3> QED
      BY <2>4, <3>1, <3>2
  <2>6. o.ok \in BOOLEAN /\ Undisturbed(p.s, o.s)
    BY <2>1, <2>5, EnableIrq
  <2> QED
    BY <2>5, <2>6 DEF Undisturbed, RfKept
<1> QED
  BY <1>2, <1>3, <1>4

\* An initialisation, from whatever state: the chip is in standby, with nothing latched.
LEMMA InitStands ==
    ASSUME NEW s \in Drivers, NEW o \in sid_pal_radio_init(s)
    PROVE  /\ o.ok \in BOOLEAN
           /\ o.s \in Drivers
           /\ o.s.exit = s.exit
           /\ o.s.state \in {"UNKNOWN", "STANDBY"} /\ o.s.mode = "standby" /\ o.s.irq = {}
           /\ Served(o.s)
<1> DEFINE e == Enter(s, "standby", FALSE)
           reset == [e EXCEPT
                     !.modem = "LORA", !.state = "UNKNOWN", !.stop = FALSE, !.cad = "CS_ONLY",
                     !.irq = {}, !.mask = {}, !.rf = "off", !.int_en = TRUE]
           B == Then(sid_pal_radio_standby(reset), LAMBDA t : Send(t, "configure", LAMBDA u : u))
<1>1. PICK y \in B : IF y.ok THEN o \in radio_enable_irq(y.s) ELSE o = y
  BY DEF sid_pal_radio_init, Then
<1>2. PICK x \in sid_pal_radio_standby(reset) :
         IF x.ok THEN y \in Send(x.s, "configure", LAMBDA u : u) ELSE y = x
  BY <1>1 DEF Then
<1>3. PICK b \in BOOLEAN : e = Enter(s, "standby", b)
  OBVIOUS
<1> HIDE DEF e, B
<1>4. e \in Drivers /\ e.exit = s.exit /\ e.mode = "standby"
  <2>1. "standby" \in Modes
    BY DEF Modes
  <2> QED
    BY <1>3, <2>1, EnterFields
<1>5. /\ reset.exit = e.exit /\ reset.state = "UNKNOWN" /\ reset.mode = e.mode
      /\ reset.irq = {} /\ reset.int_en = TRUE
  BY <1>4 DEF Drivers
<1>6. reset \in Drivers
  <2> DEFINE e0 == [e EXCEPT !.modem = "LORA"]
             e1 == [e0 EXCEPT !.state = "UNKNOWN", !.stop = FALSE]
             e2 == [e1 EXCEPT !.cad = "CS_ONLY", !.irq = {}, !.mask = {}]
  <2>0. e0 \in Drivers
    BY <1>4 DEF Drivers, Modems
  <2> HIDE DEF e0
  <2>1. e1 \in Drivers
    BY <2>0 DEF Drivers, States
  <2> HIDE DEF e1
  <2>2. e2 \in Drivers
    <3>1. "CS_ONLY" \in ExitModes /\ {} \in Masks
      BY DEF ExitModes, Masks
    <3> QED
      BY <2>1, <3>1 DEF Drivers
  <2> HIDE DEF e2
  <2>3. [e2 EXCEPT !.rf = "off", !.int_en = TRUE] \in Drivers
    BY <2>2 DEF Drivers
  <2>4. reset = [e2 EXCEPT !.rf = "off", !.int_en = TRUE]
    BY DEF e0, e1, e2
  <2> QED
    BY <2>3, <2>4
<1> HIDE DEF reset
<1>7. Served(reset)
  BY <1>5 DEF Served, Line
<1>8. StandbyOrFails(reset, x)
  BY <1>2, <1>6, StandbyStands
<1>9. /\ x.ok \in BOOLEAN /\ x.s \in Drivers /\ x.s.exit = s.exit
      /\ x.s.state \in {"UNKNOWN", "STANDBY"} /\ x.s.mode = "standby" /\ x.s.irq = {}
      /\ Served(x.s)
  BY <1>4, <1>5, <1>7, <1>8 DEF StandbyOrFails
<1>10. CASE ~x.ok
  BY <1>1, <1>2, <1>9, <1>10
<1>11. CASE x.ok
  <2>1. PICK a \in Bus(x.s, "configure") : IF a.ok THEN y \in Ok(a.s) ELSE y = a
    BY <1>2, <1>11 DEF Send, Then
  <2>2. a.ok \in BOOLEAN /\ Keeps(x.s, a.s)
    BY <1>9, <2>1, BusKeeps
  <2>3. y.s = a.s /\ y.ok \in BOOLEAN
    <3>1. CASE a.ok
      <4>1. y = [s |-> a.s, ok |-> TRUE]
        BY <2>1, <3>1 DEF Ok
      <4> QED
        BY <4>1
    <3>2. CASE ~a.ok
      BY <2>1, <2>2, <3>2
    <3> QED
      BY <3>1, <3>2
  <2>4. Undisturbed(x.s, y.s)
    BY <2>2, <2>3 DEF Keeps
  <2>5. y.s \in Drivers
    BY <2>4 DEF Undisturbed
  <2>6. CASE ~y.ok
    BY <1>1, <1>9, <2>3, <2>4, <2>6 DEF Undisturbed
  <2>7. CASE y.ok
    <3>1. o.ok \in BOOLEAN /\ Undisturbed(y.s, o.s)
      BY <1>1, <2>5, <2>7, EnableIrq
    <3> QED
      BY <1>9, <2>4, <3>1 DEF Undisturbed
  <2> QED
    BY <2>3, <2>6, <2>7
<1> QED
  BY <1>9, <1>10, <1>11

-----------------------------------------------------------------------------
(***************************************************************************)
(* The bottom half.                                                        *)
(***************************************************************************)

\* Setting the exit mode changes nothing else.
LEMMA ExitFields ==
    ASSUME NEW s \in Drivers, NEW e \in ExitModes \cup {"NONE"}, NEW t, t = [s EXCEPT !.exit = e]
    PROVE  /\ t \in Drivers
           /\ t.modem = s.modem /\ t.state = s.state /\ t.exit = e /\ t.cad = s.cad
           /\ t.mode = s.mode /\ t.irq = s.irq /\ t.rf = s.rf
           /\ t.mask = s.mask /\ t.stop = s.stop /\ t.pending = s.pending /\ t.int_en = s.int_en
<1> QED
  BY DEF Drivers

\* Nor does taking the scheduled bottom half.
LEMMA PendingFields ==
    ASSUME NEW s \in Drivers, NEW t, t = [s EXCEPT !.pending = FALSE]
    PROVE  /\ t \in Drivers
           /\ t.modem = s.modem /\ t.state = s.state /\ t.exit = s.exit /\ t.cad = s.cad
           /\ t.mode = s.mode /\ t.irq = s.irq /\ t.rf = s.rf
           /\ t.mask = s.mask /\ t.stop = s.stop /\ t.pending = FALSE /\ t.int_en = s.int_en
<1> QED
  BY DEF Drivers

\* The first cause of a status that holds one thing the driver looks at.
LEMMA OneCause ==
    /\ \A m : Cause(m, {}) = "none"
    /\ Cause("FSK", {"TIMEOUT"}) = "TIMEOUT"
    /\ Cause("FSK", {"PREAMBLE"}) = "PREAMBLE"
    /\ \A m \in Modems : Cause(m, {"CAD_DET"}) = "none"
    /\ \A m \in Modems : Cause(m, {"CAD_DONE"}) \in {"none", "CAD_DONE"}
    /\ \A m \in Modems : Cause(m, {"CAD_DONE", "CAD_DET"}) \in {"none", "CAD_DONE"}
<1>1. \A m : Cause(m, {}) = "none"
  BY DEF Cause
<1>2. ASSUME NEW m, NEW status, NEW k \in 1..7,
             \A i \in 1..7 : Order(m)[i] \in status <=> i = k
      PROVE  Cause(m, status) = Order(m)[k]
  <2>1. {i \in 1..7 : Order(m)[i] \in status} = {k}
    BY <1>2
  <2>2. (CHOOSE i \in {k} : \A j \in {k} : i <= j) = k
    OBVIOUS
  <2> QED
    BY <2>1, <2>2 DEF Cause
<1>3. ASSUME NEW m, NEW status, \A i \in 1..7 : Order(m)[i] \notin status
      PROVE  Cause(m, status) = "none"
  BY <1>3 DEF Cause
<1>4. Cause("FSK", {"TIMEOUT"}) = "TIMEOUT"
  <2>1. \A i \in 1..7 : Order("FSK")[i] \in {"TIMEOUT"} <=> i = 3
    BY DEF Order
  <2>2. Order("FSK")[3] = "TIMEOUT"
    BY DEF Order
  <2> QED
    BY <1>2, <2>1, <2>2
<1>5. Cause("FSK", {"PREAMBLE"}) = "PREAMBLE"
  <2>1. \A i \in 1..7 : Order("FSK")[i] \in {"PREAMBLE"} <=> i = 6
    BY DEF Order
  <2>2. Order("FSK")[6] = "PREAMBLE"
    BY DEF Order
  <2> QED
    BY <1>2, <2>1, <2>2
<1>6. ASSUME NEW m \in Modems
      PROVE  /\ Cause(m, {"CAD_DET"}) = "none"
             /\ Cause(m, {"CAD_DONE"}) \in {"none", "CAD_DONE"}
             /\ Cause(m, {"CAD_DONE", "CAD_DET"}) \in {"none", "CAD_DONE"}
  <2>1. Cause(m, {"CAD_DET"}) = "none"
    BY <1>3, <1>6 DEF Order, Modems
  <2>2. CASE m = "FSK"
    BY <1>3, <2>2, <2>1 DEF Order
  <2>3. CASE m = "LORA"
    <3>1. /\ \A i \in 1..7 : Order(m)[i] \in {"CAD_DONE"} <=> i = 6
          /\ \A i \in 1..7 : Order(m)[i] \in {"CAD_DONE", "CAD_DET"} <=> i = 6
      BY <2>3 DEF Order
    <3>2. Order(m)[6] = "CAD_DONE"
      BY <2>3 DEF Order
    <3> QED
      BY <1>2, <2>1, <3>1, <3>2
  <2> QED
    BY <2>1, <2>2, <2>3, <1>6 DEF Modems
<1> QED
  BY <1>1, <1>4, <1>5, <1>6

\* The five things the handling of a cause may do to the driver.
HandledBy(s, status, h) ==
    LET cause == Cause(s.modem, status)
        off == [s EXCEPT !.exit = "NONE"]
    IN  \/ /\ h.s = s
           /\ s.exit = "CS_LBT" =>
                 cause \notin {"CAD_DONE", "PREAMBLE"} /\ (cause = "TIMEOUT" => s.state = "TX")
           /\ cause = "none" => h.event = "none"
        \/ /\ cause = "CAD_DONE" /\ h.s = off
           /\ s.exit = "CS_LBT" => "CAD_DET" \in status
        \/ /\ s.exit = "CS_LBT"
           /\ cause = "TIMEOUT" \/ (cause = "CAD_DONE" /\ "CAD_DET" \notin status)
           /\ \E o \in sid_pal_radio_start_tx(s, FALSE) : h.s = [o.s EXCEPT !.exit = "NONE"]
        \/ /\ s.exit = "CS_LBT" /\ cause = "PREAMBLE"
           /\ \E o \in sid_pal_radio_standby(off) : h.s = o.s
        \/ cause = "RX_DONE" /\ Keeps(s, h.s)

\* The handling of the first cause of a status does one of those.
LEMMA HandledCases ==
    ASSUME NEW s \in Drivers, NEW status, NEW h \in Handled(s, status)
    PROVE  HandledBy(s, status, h)
<1> DEFINE cause == Cause(s.modem, status)
<1>0. ASSUME NEW g \in TalkAfterListen(s)
      PROVE  \E o \in sid_pal_radio_start_tx(s, FALSE) : g.s = [o.s EXCEPT !.exit = "NONE"]
  <2> DEFINE T == sid_pal_radio_start_tx(s, FALSE)
  <2>1. g \in {[s |-> [o.s EXCEPT !.exit = "NONE"], event |-> "none"] : o \in T}
    BY <1>0 DEF TalkAfterListen
  <2> HIDE DEF T
  <2>2. PICK o \in T : g = [s |-> [o.s EXCEPT !.exit = "NONE"], event |-> "none"]
    BY <2>1
  <2>3. g.s = [o.s EXCEPT !.exit = "NONE"]
    BY <2>2
  <2> QED
    BY <2>3 DEF T
<1>1. CASE cause = "TIMEOUT"
  <2>1. CASE s.state = "TX" \/ s.exit # "CS_LBT"
    <3>1. h.s = s
      BY <1>1, <2>1 DEF Handled
    <3> QED
      BY <1>1, <2>1, <3>1 DEF HandledBy
  <2>2. CASE s.state # "TX" /\ s.exit = "CS_LBT"
    <3>1. h \in TalkAfterListen(s)
      BY <1>1, <2>2 DEF Handled
    <3> QED
      BY <1>0, <1>1, <2>2, <3>1 DEF HandledBy
  <2> QED
    BY <2>1, <2>2
<1>2. CASE cause = "CAD_DONE"
  <2>1. CASE "CAD_DET" \in status \/ s.exit # "CS_LBT"
    <3>1. h.s = [s EXCEPT !.exit = "NONE"]
      BY <1>2, <2>1 DEF Handled
    <3> QED
      BY <1>2, <2>1, <3>1 DEF HandledBy
  <2>2. CASE "CAD_DET" \notin status /\ s.exit = "CS_LBT"
    <3>1. h \in TalkAfterListen(s)
      BY <1>2, <2>2 DEF Handled
    <3> QED
      BY <1>0, <1>2, <2>2, <3>1 DEF HandledBy
  <2> QED
    BY <2>1, <2>2
<1>3. CASE cause = "PREAMBLE"
  BY <1>3 DEF Handled, HandledBy
<1>4. CASE cause \notin {"TIMEOUT", "CAD_DONE", "PREAMBLE", "RX_DONE"}
  <2>1. h.s = s
    BY <1>4 DEF Handled
  <2>2. cause = "none" => h.event = "none"
    BY <1>4 DEF Handled
  <2> QED
    BY <1>4, <2>1, <2>2 DEF HandledBy
<1>5. CASE cause = "RX_DONE"
  <2>1. h \in radio_lora_process_rx_done(s) \/ h \in radio_fsk_process_rx_done(s)
    BY <1>5 DEF Handled
  <2>2. \E o \in Bus(s, "read_packet") : h.s = o.s
    BY <2>1 DEF radio_lora_process_rx_done, radio_fsk_process_rx_done
  <2>3. Keeps(s, h.s)
    BY <2>2, BusKeeps
  <2> QED
    BY <1>5, <2>3 DEF HandledBy
<1> QED
  BY <1>1, <1>2, <1>3, <1>4, <1>5

\* Whatever the cause, what holds of the driver between two calls is kept.
LEMMA HandledKeeps ==
    ASSUME NEW s \in Drivers, s.irq = {}, NEW status, NEW h \in Handled(s, status)
    PROVE  /\ h.s \in Drivers
           /\ Served(s) => Served(h.s)
           /\ Still(s) => Still(h.s)
           /\ s.exit # "CS_LBT" => h.s.exit # "CS_LBT" /\ h.s.mode \in {s.mode, "standby"}
           /\ \/ Up(s) => Up(h.s)
              \/ "set_standby" \in Faults
              \/ Tcxo /\ {"clear_irq", "set_tx"} \cap Faults # {}
<1> DEFINE cause == Cause(s.modem, status)
           off == [s EXCEPT !.exit = "NONE"]
<1>1. /\ off \in Drivers
      /\ off.modem = s.modem /\ off.state = s.state /\ off.exit = "NONE" /\ off.cad = s.cad
      /\ off.mode = s.mode /\ off.irq = s.irq /\ off.rf = s.rf
      /\ off.mask = s.mask /\ off.pending = s.pending /\ off.int_en = s.int_en
  BY ExitFields
<1>2. (Served(s) => Served(off)) /\ (Still(s) => Still(off)) /\ (Up(s) => Up(off))
  <2> HIDE DEF off
  <2> QED
    BY <1>1 DEF Served, Line, Still, Up, Tracked
<1>3. HandledBy(s, status, h)
  BY HandledCases
<1>4. CASE h.s = s
  BY <1>4
<1>5. CASE h.s = off /\ cause = "CAD_DONE"
  BY <1>1, <1>2, <1>5
<1>6. ASSUME NEW o \in sid_pal_radio_start_tx(s, FALSE), h.s = [o.s EXCEPT !.exit = "NONE"],
             s.exit = "CS_LBT"
      PROVE  /\ h.s \in Drivers
             /\ Served(s) => Served(h.s)
             /\ Still(s) => Still(h.s)
             /\ (Tcxo => {"clear_irq", "set_tx"} \cap Faults = {}) /\ Up(s) => Up(h.s)
  <2> DEFINE t == o.s  u == h.s
  <2>1. StartsOrFails(s, o, "tx", "set_tx", "tx", "TX")
    BY <1>6, TalkStarts
  <2>2. u = [t EXCEPT !.exit = "NONE"] /\ t \in Drivers
    BY <1>6, <2>1 DEF StartsOrFails
  <2>3. (Tcxo => {"clear_irq", "set_tx"} \cap Faults = {}) /\ Up(s) => Up(t)
    <3> HAVE (Tcxo => {"clear_irq", "set_tx"} \cap Faults = {}) /\ Up(s)
    <3>1. Tcxo => "clear_irq" \notin Faults /\ "set_tx" \notin Faults
      OBVIOUS
    <3> QED
      BY <2>1, <3>1, StartTracks
  <2>4. (Served(s) => Served(t)) /\ (Still(s) => Still(t))
    BY <2>1 DEF StartsOrFails, Still
  <2> HIDE DEF t, u
  <2>5. /\ u \in Drivers
        /\ u.modem = t.modem /\ u.state = t.state /\ u.exit = "NONE" /\ u.cad = t.cad
        /\ u.mode = t.mode /\ u.irq = t.irq /\ u.rf = t.rf
        /\ u.mask = t.mask /\ u.pending = t.pending /\ u.int_en = t.int_en
    BY <2>2, ExitFields
  <2>6. (Served(t) => Served(u)) /\ (Still(t) => Still(u)) /\ (Up(t) => Up(u))
    BY <2>5 DEF Served, Line, Still, Up, Tracked
  <2> QED
    BY <2>3, <2>4, <2>5, <2>6 DEF u
<1>7. ASSUME NEW o \in sid_pal_radio_standby(off), h.s = o.s, s.exit = "CS_LBT"
      PROVE  /\ h.s \in Drivers
             /\ Served(s) => Served(h.s)
             /\ Still(s) => Still(h.s)
             /\ "set_standby" \notin Faults /\ Up(s) => Up(h.s)
  <2> HIDE DEF off
  <2>1. StandbyOrFails(off, o)
    BY <1>1, <1>7, StandbyStands
  <2>2. "set_standby" \notin Faults /\ Up(off) => Up(o.s)
    BY <2>1, StandbyTracks DEF Up
  <2>3. Still(off) => Still(o.s)
    <3>1. CASE off.state = "STANDBY"
      BY <2>1, <3>1 DEF StandbyOrFails
    <3>2. CASE off.state # "STANDBY"
      BY <2>1, <3>2 DEF StandbyOrFails, Still
    <3> QED
      BY <3>1, <3>2
  <2> QED
    BY <1>2, <1>7, <2>1, <2>2, <2>3 DEF StandbyOrFails
<1>8. CASE Keeps(s, h.s)
  <2>1. /\ h.s \in Drivers /\ h.s.exit = s.exit /\ h.s.mode \in {s.mode, "standby"}
        /\ Served(s) => Served(h.s)
    BY <1>8 DEF Keeps, Undisturbed
  <2>2. Still(s) => Still(h.s)
    BY <1>8 DEF Keeps, Undisturbed, Still
  <2>3. Up(s) => Up(h.s)
    BY <1>8, UndisturbedTracks DEF Keeps
  <2> QED
    BY <2>1, <2>2, <2>3
<1> QED
  BY <1>3, <1>4, <1>5, <1>6, <1>7, <1>8 DEF HandledBy

\* Reading the causes: masked, they raise no line; and what the first decides is handled.
LEMMA ReadCases ==
    ASSUME NEW s \in Drivers, NEW h \in ReadAndHandle(s)
    PROVE  \E v \in Drivers :
             /\ v.modem = s.modem /\ v.state = s.state /\ v.exit = s.exit /\ v.cad = s.cad
             /\ v.mode \in {s.mode, "standby"} /\ RfKept(s, v)
             /\ v.irq \in {s.irq, {}}
             /\ Wakes(s) /\ "irq_params" \notin Faults => Served(v)
             /\ \/ h.s = v /\ h.event = "none"
                   /\ {"irq_params", "get_irq"} \cap Faults # {}
                \/ v.irq = {} /\ h \in Handled(v, s.irq)
<1> DEFINE a == [s EXCEPT !.pending = FALSE]
           Read(t) == Send(t, "get_irq", LAMBDA u : [u EXCEPT !.irq = {}])
<1>1. PICK o \in radio_disable_irq(a) :
         h \in IF ~o.ok THEN {[s |-> o.s, event |-> "none"]}
               ELSE UNION {IF ~r.ok THEN {[s |-> r.s, event |-> "none"]}
                           ELSE Handled(r.s, o.s.irq) : r \in Read(o.s)}
  BY DEF ReadAndHandle
<1>2. /\ a \in Drivers
      /\ a.modem = s.modem /\ a.state = s.state /\ a.exit = s.exit /\ a.cad = s.cad
      /\ a.mode = s.mode /\ a.irq = s.irq /\ a.rf = s.rf
      /\ a.mask = s.mask /\ a.pending = FALSE /\ a.int_en = s.int_en
  BY PendingFields
<1> HIDE DEF a, Read
<1>3. /\ o.ok \in BOOLEAN
      /\ Undisturbed(a, o.s)
      /\ Wakes(a) => o.s.int_en
      /\ o.s.irq = a.irq
      /\ o.ok => o.s.mask = {}
      /\ "irq_params" \notin Faults => o.ok
  BY <1>1, <1>2, MaskOfModem, SetIrqParams DEF radio_disable_irq
<1>4. Wakes(s) /\ "irq_params" \notin Faults => Served(o.s) /\ o.s.int_en
  BY <1>2, <1>3 DEF Wakes, Served, Line
<1>5. CASE ~o.ok
  <2>1. h.s = o.s /\ h.event = "none"
    BY <1>1, <1>5
  <2> QED
    BY <1>2, <1>3, <1>4, <1>5, <2>1 DEF Undisturbed, RfKept
<1>6. CASE o.ok
  <2>1. PICK r \in Read(o.s) : h \in IF ~r.ok THEN {[s |-> r.s, event |-> "none"]}
                                     ELSE Handled(r.s, o.s.irq)
    BY <1>1, <1>6
  <2>2. PICK b \in Bus(o.s, "get_irq") :
           IF b.ok THEN r \in Ok([b.s EXCEPT !.irq = {}]) ELSE r = b
    BY <2>1 DEF Read, Send, Then
  <2>3. /\ r.ok \in BOOLEAN
        /\ Keeps(o.s, r.s)
        /\ r.ok => r.s.irq = {}
        /\ "get_irq" \notin Faults => r.ok
    BY <1>3, <2>2, CommandClears DEF Undisturbed
  <2>4. /\ r.s \in Drivers
        /\ r.s.modem = s.modem /\ r.s.state = s.state /\ r.s.exit = s.exit /\ r.s.cad = s.cad
        /\ r.s.mode \in {s.mode, "standby"} /\ RfKept(s, r.s)
        /\ r.s.irq \in {s.irq, {}}
        /\ Wakes(s) /\ "irq_params" \notin Faults => Served(r.s)
    BY <1>2, <1>3, <1>4, <2>3 DEF Keeps, Undisturbed, RfKept
  <2>5. CASE ~r.ok
    <3>1. h.s = r.s /\ h.event = "none"
      BY <2>1, <2>5
    <3> QED
      BY <2>3, <2>4, <2>5, <3>1
  <2>6. CASE r.ok
    <3>1. h \in Handled(r.s, s.irq)
      BY <1>2, <1>3, <2>1, <2>6
    <3> QED
      BY <2>3, <2>4, <2>6, <3>1
  <2> QED
    BY <2>3, <2>5, <2>6
<1> QED
  BY <1>3, <1>5, <1>6

\* The interrupts are unmasked again, unless the radio sleeps.
LEMMA UnmaskKeeps ==
    ASSUME NEW s \in Drivers, NEW o \in UnmaskUnlessAsleep(s)
    PROVE  o.ok \in BOOLEAN /\ Undisturbed(s, o.s) /\ o.s.irq = s.irq
<1>1. CASE s.state = "SLEEP"
  <2>1. o = [s |-> s, ok |-> TRUE]
    BY <1>1 DEF UnmaskUnlessAsleep, Ok
  <2> QED
    BY <2>1 DEF Undisturbed, RfKept
<1>2. CASE s.state # "SLEEP"
  <2>1. o \in radio_enable_irq(s)
    BY <1>2 DEF UnmaskUnlessAsleep
  <2> QED
    BY <2>1, EnableIrq
<1> QED
  BY <1>1, <1>2

-----------------------------------------------------------------------------
(***************************************************************************)
(* The steps.                                                              *)
(***************************************************************************)

\* What ChipTracked asks of the bus and of the protocol.
TrackingAssumptions ==
    /\ "sleep_early" \notin Caller
    /\ {"set_standby", "set_sleep"} \cap Faults = {}
    /\ Tcxo => {"clear_irq", "irq_params", "set_tx", "set_rx", "set_cad", "set_duty_cycle",
                "sense_rx"} \cap Faults = {}

\* What TxOnlyWhenAsked asks of the bus and of the protocol.
AskingAssumptions ==
    /\ {"abandon", "sense_early"} \cap Caller = {}
    /\ {"irq_params", "get_irq", "set_standby", "cad_params"} \cap Faults = {}

\* A step keeps the types and the three invariants.
KeepsInvariants ==
    /\ TypeOK'
    /\ "irq_params" \notin Faults /\ Served(d) => Served(d')
    /\ TrackingAssumptions /\ TrackedInv => TrackedInv'
    /\ AskingAssumptions /\ AskedInv => AskedInv'

\* What the protocol may await, and what it may have asked for.
Operations == {"none", "failed", "armed", "lbt", "sense", "cad", "tx", "lora_rx", "fsk_rx",
               "unread"}
Wishes == {"none", "tx", "lbt", "heard"}

\* The history variables of a call.
LEMMA CallTyped ==
    ASSUME TypeOK, d' \in Drivers, pc' = pc, wish' \in Wishes, open' \in Operations,
           turn' = 1 - turn
    PROVE  TypeOK'
<1>1. turn' \in {0, 1}
  BY DEF TypeOK
<1> QED
  BY <1>1 DEF TypeOK, Wishes, Operations

\* A driver that is right about an awake chip.
LEMMA UpTracked ==
    ASSUME TypeOK', Up(d')
    PROVE  TrackedInv'
<1> QED
  BY DEF TrackedInv, Up

\* The protocol calls an operation of an awake radio only, and never one in duty
\* cycle.
LEMMA AwakeUp ==
    ASSUME TrackedInv, Awake
    PROVE  Up(d) /\ d.state # "RX_DC"
<1> QED
  BY DEF TrackedInv, Awake, Up

\* A call made while no listen-before-talk is under way.
LEMMA FreeExit ==
    ASSUME AskingAssumptions, AskedInv, Free \/ open = "failed"
    PROVE  d.exit # "CS_LBT" /\ open # "armed"
<1> QED
  BY DEF AskingAssumptions, AskedInv, Listening, Free

\* Such a call keeps the third invariant if it leaves the radio still or
\* transmitting as asked.
LEMMA CallAsked ==
    ASSUME AskingAssumptions, AskedInv, Free \/ open = "failed",
           TypeOK', d'.exit = d.exit, open' # "armed", Still(d'), TxOnlyWhenAsked'
    PROVE  AskedInv'
<1>1. d'.exit # "CS_LBT"
  BY FreeExit
<1>2. Listening(d)'
  BY <1>1 DEF Listening
<1> QED
  BY <1>2 DEF AskedInv

\* A call that starts an operation, whatever its outcome.
LEMMA StartCall ==
    ASSUME TypeOK, NEW o, NEW path, NEW c, NEW m \in Modes, NEW st,
           StartsOrFails(d, o, path, c, m, st),
           <<path, m, st>> \in {<<"tx", "tx", "TX">>, <<"tx", "cw", "TX">>, <<"rx", "rx", "RX">>,
                <<"rx", "rxc", "RX">>, <<"rx", "cad", "CAD">>, <<"rx", "dc", "RX_DC">>},
           Free, Awake, d' = o.s, pc' = pc, turn' = 1 - turn,
           NEW awaited \in Operations \ {"armed"},
           wish' = (IF o.ok THEN (IF st = "TX" THEN "tx" ELSE "none") ELSE wish),
           open' = (IF o.ok THEN awaited ELSE "none"),
           d.state = "STANDBY" \/ c \in {"set_tx", "set_rx", "set_cad", "set_duty_cycle"}
    PROVE  KeepsInvariants
<1>1. TypeOK'
  <2>1. d' \in Drivers
    BY DEF StartsOrFails
  <2>2. wish' \in Wishes /\ open' \in Operations
    BY DEF TypeOK, Wishes, Operations
  <2> QED
    BY <2>1, <2>2, CallTyped
<1>2. Served(d) => Served(d')
  BY DEF StartsOrFails
<1>3. ASSUME TrackingAssumptions, TrackedInv
      PROVE  TrackedInv'
  <2>1. Up(d) /\ d.state # "RX_DC"
    BY <1>3, AwakeUp
  <2>2. d.mode = "standby" \/ (Tcxo => "clear_irq" \notin Faults /\ c \notin Faults)
    <3>1. CASE d.state = "STANDBY"
      BY <2>1, <3>1 DEF Up, Tracked
    <3>2. CASE c \in {"set_tx", "set_rx", "set_cad", "set_duty_cycle"}
      BY <1>3, <3>2 DEF TrackingAssumptions
    <3> QED
      BY <3>1, <3>2
  <2>3. Up(o.s)
    BY <2>1, <2>2, StartTracks
  <2> QED
    BY <1>1, <2>3, UpTracked
<1>4. ASSUME AskingAssumptions, AskedInv
      PROVE  AskedInv'
  <2>1. Still(d')
    BY <1>4 DEF StartsOrFails, Still, AskedInv
  <2>2. TxOnlyWhenAsked'
    <3>1. CASE o.ok
      BY <3>1 DEF StartsOrFails, TxOnlyWhenAsked
    <3>2. CASE ~o.ok
      BY <1>4, <3>2 DEF StartsOrFails, TxOnlyWhenAsked, AskedInv
    <3> QED
      BY <3>1, <3>2
  <2>3. d'.exit = d.exit /\ open' # "armed"
    BY DEF StartsOrFails
  <2> QED
    BY <1>1, <1>4, <2>1, <2>2, <2>3, CallAsked
<1> QED
  BY <1>1, <1>2, <1>3, <1>4 DEF KeepsInvariants

\* sid_pal_radio_start_tx keeps all the invariants.
LEMMA StartTxStep ==
    ASSUME TypeOK, StartTx
    PROVE  KeepsInvariants
<1>1. PICK timed \in BOOLEAN : Call(sid_pal_radio_start_tx(d, timed), "tx", "tx")
  BY DEF StartTx
<1>2. PICK o \in sid_pal_radio_start_tx(d, timed) :
        /\ d' = o.s /\ pc' = pc /\ turn' = 1 - turn
        /\ wish' = IF o.ok THEN "tx" ELSE wish
        /\ open' = IF o.ok THEN "tx" ELSE "none"
  BY <1>1 DEF Call
<1>3. StartsOrFails(d, o, "tx", "set_tx", "tx", "TX")
  BY <1>2, StartTxStarts DEF TypeOK
<1>4. "tx" \in Modes /\ "tx" \in Operations \ {"armed"}
  BY DEF Modes, Operations
<1> QED
  BY <1>2, <1>3, <1>4, StartCall DEF StartTx

\* So does sid_pal_radio_set_tx_continuous, which only starts from standby.
LEMMA StartContinuousTxStep ==
    ASSUME TypeOK, StartContinuousTx
    PROVE  KeepsInvariants
<1>1. PICK o \in sid_pal_radio_set_tx_continuous(d) :
        /\ d' = o.s /\ pc' = pc /\ turn' = 1 - turn
        /\ wish' = IF o.ok THEN "tx" ELSE wish
        /\ open' = IF o.ok THEN "none" ELSE "none"
  BY DEF StartContinuousTx, Call
<1>2. CASE d.state = "STANDBY"
  <2>1. StartsOrFails(d, o, "tx", "set_tx_continuous", "cw", "TX")
    BY <1>1, <1>2, ContinuousTxStarts DEF TypeOK
  <2>2. "cw" \in Modes /\ "none" \in Operations \ {"armed"}
    BY DEF Modes, Operations
  <2> QED
    BY <1>1, <1>2, <2>1, <2>2, StartCall DEF StartContinuousTx
<1>3. CASE d.state # "STANDBY"
  <2>1. o = [s |-> d, ok |-> FALSE]
    BY <1>1, <1>3 DEF sid_pal_radio_set_tx_continuous, Failed
  <2>2. d' = d /\ wish' = wish /\ open' = "none"
    BY <1>1, <2>1
  <2>3. TypeOK'
    BY <1>1, <2>2, CallTyped DEF TypeOK, Wishes, Operations
  <2>4. TrackedInv => TrackedInv'
    BY <1>1, <2>2, <2>3 DEF TrackedInv
  <2>5. AskingAssumptions /\ AskedInv => AskedInv'
    BY <2>2, <2>3, CallAsked DEF StartContinuousTx, AskedInv, TxOnlyWhenAsked
  <2> QED
    BY <2>2, <2>3, <2>4, <2>5 DEF KeepsInvariants
<1> QED
  BY <1>2, <1>3

\* So does sid_pal_radio_start_rx.
LEMMA StartRxStep ==
    ASSUME TypeOK, StartRx
    PROVE  KeepsInvariants
<1> DEFINE awaited == IF d.modem = "LORA" THEN "lora_rx" ELSE "fsk_rx"
<1>1. PICK o \in sid_pal_radio_start_rx(d) :
        /\ d' = o.s /\ pc' = pc /\ turn' = 1 - turn
        /\ wish' = IF o.ok THEN "none" ELSE wish
        /\ open' = IF o.ok THEN awaited ELSE "none"
  BY DEF StartRx, Call
<1>2. StartsOrFails(d, o, "rx", "set_rx", "rx", "RX")
  BY <1>1, StartRxStarts DEF TypeOK
<1>3. "rx" \in Modes /\ awaited \in Operations \ {"armed"}
  BY DEF Modes, Operations
<1> QED
  BY <1>1, <1>2, <1>3, StartCall DEF StartRx

\* So does sid_pal_radio_start_continuous_rx.
LEMMA StartContinuousRxStep ==
    ASSUME TypeOK, StartContinuousRx
    PROVE  KeepsInvariants
<1>1. PICK o \in sid_pal_radio_start_continuous_rx(d) :
        /\ d' = o.s /\ pc' = pc /\ turn' = 1 - turn
        /\ wish' = IF o.ok THEN "none" ELSE wish
        /\ open' = IF o.ok THEN "none" ELSE "none"
  BY DEF StartContinuousRx, Call
<1>2. StartsOrFails(d, o, "rx", "set_rx", "rxc", "RX")
  BY <1>1, ContinuousRxStarts DEF TypeOK
<1>3. "rxc" \in Modes /\ "none" \in Operations \ {"armed"}
  BY DEF Modes, Operations
<1> QED
  BY <1>1, <1>2, <1>3, StartCall DEF StartContinuousRx

\* So does sid_pal_radio_set_rx_duty_cycle.
LEMMA StartDutyCycleStep ==
    ASSUME TypeOK, StartDutyCycle
    PROVE  KeepsInvariants
<1>1. PICK o \in sid_pal_radio_set_rx_duty_cycle(d) :
        /\ d' = o.s /\ pc' = pc /\ turn' = 1 - turn
        /\ wish' = IF o.ok THEN "none" ELSE wish
        /\ open' = IF o.ok THEN "none" ELSE "none"
  BY DEF StartDutyCycle, Call
<1>2. StartsOrFails(d, o, "rx", "set_duty_cycle", "dc", "RX_DC")
  BY <1>1, DutyCycleStarts DEF TypeOK
<1>3. "dc" \in Modes /\ "none" \in Operations \ {"armed"}
  BY DEF Modes, Operations
<1> QED
  BY <1>1, <1>2, <1>3, StartCall DEF StartDutyCycle

\* So does sid_pal_radio_init, which the protocol may call again in any state.
LEMMA InitRadioStep ==
    ASSUME TypeOK, InitRadio
    PROVE  KeepsInvariants
<1>1. PICK o \in sid_pal_radio_init(d) :
        /\ d' = o.s /\ pc' = pc /\ turn' = 1 - turn /\ wish' = "none"
        /\ open' = IF o.ok THEN "none" ELSE "failed"
  BY DEF InitRadio
<1>2. /\ d' \in Drivers /\ d'.exit = d.exit
      /\ d'.state \in {"UNKNOWN", "STANDBY"} /\ d'.mode = "standby" /\ d'.irq = {}
      /\ Served(d')
  BY <1>1, InitStands DEF TypeOK
<1>3. TypeOK'
  BY <1>1, <1>2, CallTyped DEF Wishes, Operations
<1>4. TrackedInv'
  BY <1>2, <1>3, UpTracked DEF Up, Tracked
<1>5. Still(d') /\ TxOnlyWhenAsked' /\ open' # "armed"
  BY <1>1, <1>2 DEF Still, TxOnlyWhenAsked
<1>6. AskingAssumptions /\ AskedInv => AskedInv'
  BY <1>2, <1>3, <1>5, CallAsked DEF InitRadio
<1> QED
  BY <1>2, <1>3, <1>4, <1>6 DEF KeepsInvariants

\* A call that leaves the operation under way alone or ends it.
LEMMA QuietCall ==
    ASSUME TypeOK, Free, d' \in Drivers, pc' = pc, turn' = 1 - turn,
           wish' \in Wishes, open' = "none",
           Served(d) => Served(d'),
           d'.exit = d.exit, d'.state = d.state, d'.mode \in {d.mode, "standby"},
           d'.irq \in {d.irq, {}}, RfKept(d, d'), d.state # "SLEEP",
           AskedInv => TxOnlyWhenAsked'
    PROVE  KeepsInvariants
<1>1. TypeOK'
  BY CallTyped DEF Operations
<1>2. TrackedInv => TrackedInv'
  <2>1. TrackedInv => Up(d')
    BY DEF TrackedInv, RfKept, Up, Tracked
  <2> QED
    BY <1>1, <2>1, UpTracked
<1>3. AskingAssumptions /\ AskedInv => AskedInv'
  <2>1. AskedInv => Still(d')
    BY DEF AskedInv, Still
  <2> QED
    BY <1>1, <2>1, CallAsked
<1> QED
  BY <1>1, <1>2, <1>3 DEF KeepsInvariants

\* sid_pal_radio_set_modem_mode is such a call.
LEMMA SetModemStep ==
    ASSUME TypeOK, SetModem
    PROVE  KeepsInvariants
<1>1. PICK m \in Modems : Call(sid_pal_radio_set_modem_mode(d, m), wish, "none")
  BY DEF SetModem, Modems
<1>2. PICK o \in sid_pal_radio_set_modem_mode(d, m) :
        /\ d' = o.s /\ pc' = pc /\ turn' = 1 - turn
        /\ wish' = IF o.ok THEN wish ELSE wish
        /\ open' = IF o.ok THEN "none" ELSE "none"
  BY <1>1 DEF Call
<1>3. /\ d' \in Drivers
      /\ d'.state = d.state /\ d'.exit = d.exit
      /\ d'.mode \in {d.mode, "standby"} /\ d'.irq = d.irq
      /\ RfKept(d, d')
      /\ Served(d) => Served(d')
  BY <1>2, SetModemKeeps DEF TypeOK
<1>4. wish' = wish /\ open' = "none" /\ wish' \in Wishes
  BY <1>2 DEF TypeOK, Wishes
<1>5. AskedInv => TxOnlyWhenAsked'
  BY <1>3, <1>4 DEF AskedInv, TxOnlyWhenAsked
<1> QED
  BY <1>2, <1>3, <1>4, <1>5, QuietCall DEF SetModem

\* So is sid_pal_radio_random, but for the standby that it may not return to.
LEMMA RandomStep ==
    ASSUME TypeOK, Random
    PROVE  KeepsInvariants
<1>1. PICK o \in sid_pal_radio_random(d) :
        /\ d' = o.s /\ pc' = pc /\ turn' = 1 - turn
        /\ wish' = IF o.ok THEN "none" ELSE wish
        /\ open' = IF o.ok THEN "none" ELSE "none"
  BY DEF Random, Call
<1>2. /\ o.ok \in BOOLEAN
      /\ d' \in Drivers
      /\ d'.exit = d.exit
      /\ Served(d) => Served(d')
      /\ "set_standby" \notin Faults => Undisturbed(d, d')
  BY <1>1, RandomKeeps DEF TypeOK
<1>3. wish' \in Wishes /\ open' = "none"
  BY <1>1, <1>2 DEF TypeOK, Wishes
<1>4. CASE "set_standby" \notin Faults
  <2>1. AskedInv => TxOnlyWhenAsked'
    BY <1>2, <1>4 DEF AskedInv, Still, Undisturbed, TxOnlyWhenAsked, Random
  <2> QED
    BY <1>1, <1>2, <1>3, <1>4, <2>1, QuietCall DEF Undisturbed, Random
<1>5. CASE "set_standby" \in Faults
  <2>1. TypeOK'
    BY <1>1, <1>2, <1>3, CallTyped DEF Operations
  <2> QED
    BY <1>2, <1>5, <2>1 DEF KeepsInvariants, TrackingAssumptions, AskingAssumptions
<1> QED
  BY <1>4, <1>5

\* sid_pal_radio_sleep keeps all the invariants: under a bottom half the caller
\* makes no such call.
LEMMA SleepStep ==
    ASSUME TypeOK, Sleep
    PROVE  KeepsInvariants
<1>1. PICK o \in sid_pal_radio_sleep(d) :
        /\ d' = o.s /\ pc' = pc /\ turn' = 1 - turn
        /\ wish' = IF o.ok THEN "none" ELSE wish
        /\ open' = IF o.ok THEN "none" ELSE "none"
  BY DEF Sleep, Call
<1>2. SleepsOrFails(d, o)
  BY <1>1, SleepSleeps DEF TypeOK
<1>3. wish' \in Wishes /\ open' = "none" /\ d' \in Drivers
  BY <1>1, <1>2 DEF TypeOK, Wishes, SleepsOrFails
<1>4. TypeOK'
  BY <1>1, <1>3, CallTyped DEF Operations
<1>5. ASSUME TrackingAssumptions, TrackedInv
      PROVE  TrackedInv'
  <2>1. pc = "idle" /\ ~d.pending
    BY <1>5 DEF Sleep, TrackingAssumptions, Quiet
  <2>2. pc' = "idle" /\ ~d'.pending
    BY <1>1, <1>2, <2>1 DEF SleepsOrFails
  <2>3. Tracked(d')
    <3>1. CASE d.state = "SLEEP"
      BY <1>1, <1>2, <1>5, <3>1 DEF SleepsOrFails, TrackedInv
    <3>2. CASE d.state # "SLEEP" /\ o.ok
      BY <1>1, <1>2, <3>2 DEF SleepsOrFails, Tracked
    <3>3. CASE d.state # "SLEEP" /\ ~o.ok
      BY <1>1, <1>2, <1>5, <3>3 DEF SleepsOrFails, TrackedInv, Tracked, TrackingAssumptions,
         RfKept
    <3> QED
      BY <3>1, <3>2, <3>3
  <2> QED
    BY <1>4, <2>2, <2>3 DEF TrackedInv
<1>6. ASSUME AskingAssumptions, AskedInv
      PROVE  AskedInv'
  <2>1. Still(d') /\ TxOnlyWhenAsked'
    <3>1. CASE d.state = "SLEEP"
      BY <1>1, <1>2, <1>6, <3>1 DEF SleepsOrFails, AskedInv, Still, TxOnlyWhenAsked
    <3>2. CASE d.state # "SLEEP" /\ o.ok
      BY <1>1, <1>2, <3>2 DEF SleepsOrFails, Still, TxOnlyWhenAsked
    <3>3. CASE d.state # "SLEEP" /\ ~o.ok
      BY <1>1, <1>2, <1>6, <3>3 DEF SleepsOrFails, AskedInv, Still, TxOnlyWhenAsked
    <3> QED
      BY <3>1, <3>2, <3>3
  <2>2. d'.exit = d.exit
    BY <1>1, <1>2 DEF SleepsOrFails
  <2> QED
    BY <1>3, <1>4, <1>6, <2>1, <2>2, CallAsked DEF Sleep
<1>7. Served(d) => Served(d')
  BY <1>1, <1>2 DEF SleepsOrFails
<1> QED
  BY <1>4, <1>5, <1>6, <1>7 DEF KeepsInvariants

\* So does sid_pal_radio_standby, which the protocol may call at any time to stop
\* an operation.
LEMMA StandbyStep ==
    ASSUME TypeOK, Standby
    PROVE  KeepsInvariants
<1>1. PICK o \in sid_pal_radio_standby(d) :
        /\ d' = o.s /\ pc' = pc /\ turn' = 1 - turn
        /\ wish' = IF o.ok THEN "none" ELSE wish
        /\ open' = IF o.ok THEN "none" ELSE "none"
  BY DEF Standby, Call
<1>2. StandbyOrFails(d, o)
  BY <1>1, StandbyStands DEF TypeOK
<1>3. wish' \in Wishes /\ open' = "none" /\ d' \in Drivers
  BY <1>1, <1>2 DEF TypeOK, Wishes, StandbyOrFails
<1>4. TypeOK'
  BY <1>1, <1>3, CallTyped DEF Operations
<1>5. TrackingAssumptions /\ TrackedInv => TrackedInv'
  <2>1. TrackingAssumptions /\ TrackedInv => Up(d')
    BY <1>1, <1>2, StandbyTracks DEF TrackingAssumptions, TrackedInv
  <2> QED
    BY <1>4, <2>1, UpTracked
<1>6. ASSUME AskingAssumptions, AskedInv
      PROVE  AskedInv'
  <2>1. Still(d') /\ TxOnlyWhenAsked'
    <3>1. CASE d.state = "STANDBY"
      BY <1>1, <1>2, <1>6, <3>1 DEF StandbyOrFails, AskedInv, Still, TxOnlyWhenAsked
    <3>2. CASE d.state # "STANDBY" /\ o.ok
      BY <1>1, <1>2, <3>2 DEF StandbyOrFails, Still, TxOnlyWhenAsked
    <3>3. CASE d.state # "STANDBY" /\ ~o.ok
      BY <1>1, <1>2, <1>6, <3>3 DEF StandbyOrFails, AskedInv, Still, TxOnlyWhenAsked
    <3> QED
      BY <3>1, <3>2, <3>3
  <2>2. d'.exit = d.exit
    BY <1>1, <1>2 DEF StandbyOrFails
  <2> QED
    BY <1>3, <1>4, <1>6, <2>1, <2>2, CallAsked DEF Standby
<1>7. Served(d) => Served(d')
  BY <1>1, <1>2 DEF StandbyOrFails
<1> QED
  BY <1>4, <1>5, <1>6, <1>7 DEF KeepsInvariants

\* So does sid_pal_radio_is_channel_free.
LEMMA MeasureStep ==
    ASSUME TypeOK, Measure
    PROVE  KeepsInvariants
<1>1. PICK o \in sid_pal_radio_is_channel_free(d) :
        /\ d' = o.s /\ pc' = pc /\ turn' = 1 - turn
        /\ wish' = IF o.ok THEN "none" ELSE wish
        /\ open' = IF o.ok THEN "none" ELSE "none"
  BY DEF Measure, Call, sid_pal_radio_get_chan_noise
<1>2. MeasuresOrFails(d, o)
  BY <1>1, MeasureMeasures DEF TypeOK
<1>3. wish' \in Wishes /\ open' = "none" /\ d' \in Drivers
  BY <1>1, <1>2 DEF TypeOK, Wishes, MeasuresOrFails
<1>4. TypeOK'
  BY <1>1, <1>3, CallTyped DEF Operations
<1>5. ASSUME TrackingAssumptions, TrackedInv
      PROVE  TrackedInv'
  <2>1. Up(d)
    BY <1>5, AwakeUp DEF Measure
  <2>2. Up(d')
    <3>1. CASE d.state # "STANDBY"
      BY <1>1, <1>2, <2>1, <3>1 DEF MeasuresOrFails
    <3>2. CASE d.state = "STANDBY"
      <4>1. d.mode = "standby"
        BY <2>1, <3>2 DEF Up, Tracked
      <4>2. "set_standby" \notin Faults
        BY <1>5 DEF TrackingAssumptions
      <4>3. Tcxo => {"clear_irq", "set_rx"} \cap Faults = {}
        BY <1>5 DEF TrackingAssumptions
      <4> QED
        BY <1>1, <1>2, <2>1, <3>2, <4>1, <4>2, <4>3 DEF MeasuresOrFails
    <3> QED
      BY <3>1, <3>2
  <2> QED
    BY <1>4, <2>2, UpTracked
<1>6. ASSUME AskingAssumptions, AskedInv
      PROVE  AskedInv'
  <2>1. Still(d') /\ TxOnlyWhenAsked'
    <3>1. CASE d.state # "STANDBY"
      BY <1>1, <1>2, <1>6, <3>1 DEF MeasuresOrFails, AskedInv, TxOnlyWhenAsked
    <3>2. CASE d.state = "STANDBY"
      BY <1>1, <1>2, <1>6, <3>2 DEF MeasuresOrFails, AskedInv, Still, TxOnlyWhenAsked
    <3> QED
      BY <3>1, <3>2
  <2>2. d'.exit = d.exit
    BY <1>1, <1>2 DEF MeasuresOrFails
  <2> QED
    BY <1>3, <1>4, <1>6, <2>1, <2>2, CallAsked DEF Measure
<1>7. Served(d) => Served(d')
  BY <1>1, <1>2 DEF MeasuresOrFails
<1> QED
  BY <1>4, <1>5, <1>6, <1>7 DEF KeepsInvariants

\* So does sid_pal_radio_set_lora_cad_params, which arms a listen-before-talk.
LEMMA SetCadParamsStep ==
    ASSUME TypeOK, SetCadParams
    PROVE  KeepsInvariants
<1>0. PICK e \in ExitModes : \E o \in sid_pal_radio_set_lora_cad_params(d, e) :
        /\ d' = o.s /\ pc' = pc /\ turn' = 1 - turn /\ wish' = wish
        /\ open' = IF e = "CS_LBT" THEN "armed" ELSE "none"
  BY DEF SetCadParams, ExitModes
<1>1. PICK o \in sid_pal_radio_set_lora_cad_params(d, e) :
        /\ d' = o.s /\ pc' = pc /\ turn' = 1 - turn /\ wish' = wish
        /\ open' = IF e = "CS_LBT" THEN "armed" ELSE "none"
  BY <1>0
<1>2. /\ o.ok \in BOOLEAN
      /\ d' \in Drivers
      /\ d'.state = d.state /\ d'.exit = e
      /\ d'.mode \in {d.mode, "standby"} /\ d'.irq = d.irq
      /\ o.ok => d'.cad = e
      /\ RfKept(d, d')
      /\ Served(d) => Served(d')
      /\ "cad_params" \notin Faults => o.ok
  BY <1>1, CadParamsKeeps DEF TypeOK
<1>3. TypeOK'
  BY <1>1, <1>2, CallTyped DEF TypeOK, Wishes, Operations
<1>4. d.state = "STANDBY"
  BY DEF SetCadParams
<1>5. TrackedInv => TrackedInv'
  <2>1. TrackedInv => Up(d')
    BY <1>2, <1>4 DEF TrackedInv, RfKept, Up, Tracked
  <2> QED
    BY <1>3, <2>1, UpTracked
<1>6. ASSUME AskingAssumptions, AskedInv
      PROVE  AskedInv'
  <2>1. Still(d')
    BY <1>2, <1>6 DEF AskedInv, Still
  <2>2. TxOnlyWhenAsked'
    BY <1>1, <1>2, <1>6 DEF AskedInv, TxOnlyWhenAsked
  <2>3. d'.cad = e
    BY <1>2, <1>6 DEF AskingAssumptions
  <2>4. Listening(d)'
    BY <1>1, <1>2, <1>4, <2>3 DEF Listening
  <2> QED
    BY <1>3, <2>1, <2>2, <2>4 DEF AskedInv
<1> QED
  BY <1>2, <1>3, <1>5, <1>6 DEF KeepsInvariants

\* So does sid_pal_radio_lora_start_cad, which may start an armed one.
LEMMA StartCadStep ==
    ASSUME TypeOK, StartCad
    PROVE  KeepsInvariants
<1>1. PICK o \in sid_pal_radio_lora_start_cad(d) :
        /\ d' = o.s /\ pc' = pc /\ turn' = 1 - turn
        /\ IF open = "armed"
           THEN /\ wish' = IF o.ok THEN "lbt" ELSE wish
                /\ open' = IF o.ok THEN "lbt" ELSE "armed"
           ELSE /\ wish' = IF o.ok THEN "none" ELSE wish
                /\ open' = IF o.ok THEN "cad" ELSE "none"
  BY DEF StartCad
<1>2. StartsOrFails(d, o, "rx", "set_cad", "cad", "CAD")
  BY <1>1, CadStarts DEF TypeOK
<1>3. o.ok \in BOOLEAN
  BY <1>2 DEF StartsOrFails
<1>4. CASE open # "armed"
  <2>1. /\ wish' = IF o.ok THEN "none" ELSE wish
        /\ open' = IF o.ok THEN "cad" ELSE "none"
    BY <1>1, <1>4
  <2>2. "cad" \in Modes /\ "cad" \in Operations \ {"armed"}
    BY DEF Modes, Operations
  <2> QED
    BY <1>1, <1>2, <1>4, <2>1, <2>2, StartCall DEF StartCad
<1>5. CASE open = "armed"
  <2>1. /\ wish' = IF o.ok THEN "lbt" ELSE wish
        /\ open' = IF o.ok THEN "lbt" ELSE "armed"
    BY <1>1, <1>5
  <2>2. TypeOK'
    <3>1. wish' \in Wishes /\ open' \in Operations /\ d' \in Drivers
      BY <1>1, <1>2, <2>1 DEF StartsOrFails, TypeOK, Wishes, Operations
    <3> QED
      BY <1>1, <3>1, CallTyped
  <2>3. Served(d) => Served(d')
    BY <1>1, <1>2 DEF StartsOrFails
  <2>4. ASSUME TrackingAssumptions, TrackedInv
        PROVE  TrackedInv'
    <3>1. Up(d) /\ d.state # "RX_DC"
      BY <2>4, AwakeUp DEF StartCad
    <3>2. Tcxo => "clear_irq" \notin Faults /\ "set_cad" \notin Faults
      BY <2>4 DEF TrackingAssumptions
    <3>3. Up(d')
      BY <1>1, <1>2, <3>1, <3>2, StartTracks
    <3> QED
      BY <2>2, <3>3, UpTracked
  <2>5. ASSUME AskingAssumptions, AskedInv
        PROVE  AskedInv'
    <3>1. /\ d.state = "STANDBY" /\ d.exit = "CS_LBT" /\ d.cad = "CS_LBT"
          /\ d.mode = "standby" /\ d.irq = {}
      BY <1>5, <2>5 DEF AskedInv, Listening, Still
    <3>2. CASE o.ok
      <4>1. /\ d'.state = "CAD" /\ d'.mode = "cad" /\ d'.irq = {} /\ d'.cad = "CS_LBT"
            /\ wish' = "lbt" /\ open' = "lbt"
        BY <1>1, <1>2, <2>1, <3>1, <3>2 DEF StartsOrFails
      <4>2. Detecting(d)'
        BY <4>1 DEF Detecting
      <4>3. Still(d') /\ TxOnlyWhenAsked'
        BY <4>1 DEF Still, TxOnlyWhenAsked
      <4>4. Listening(d)'
        BY <4>1, <4>2 DEF Listening
      <4> QED
        BY <2>2, <4>3, <4>4 DEF AskedInv
    <3>3. CASE ~o.ok
      <4>1. /\ d'.state = "STANDBY" /\ d'.mode = "standby" /\ d'.irq = {} /\ d'.cad = "CS_LBT"
            /\ d'.exit = "CS_LBT" /\ open' = "armed"
        BY <1>1, <1>2, <2>1, <3>1, <3>3 DEF StartsOrFails
      <4>2. Still(d') /\ TxOnlyWhenAsked'
        BY <4>1 DEF Still, TxOnlyWhenAsked
      <4>3. Listening(d)'
        BY <4>1 DEF Listening
      <4> QED
        BY <2>2, <4>2, <4>3 DEF AskedInv
    <3> QED
      BY <1>3, <3>2, <3>3
  <2> QED
    BY <2>2, <2>3, <2>4, <2>5 DEF KeepsInvariants
<1> QED
  BY <1>4, <1>5

\* So does sid_pal_radio_start_carrier_sense, which may start one by itself.
LEMMA StartCarrierSenseStep ==
    ASSUME TypeOK, StartCarrierSense
    PROVE  KeepsInvariants
<1>0. PICK e \in ExitModes :
        Call(sid_pal_radio_start_carrier_sense(d, e),
             IF e = "CS_LBT" THEN "lbt" ELSE "none",
             IF e = "CS_LBT" THEN "lbt" ELSE "sense")
  BY DEF StartCarrierSense, ExitModes
<1>1. PICK o \in sid_pal_radio_start_carrier_sense(d, e) :
        /\ d' = o.s /\ pc' = pc /\ turn' = 1 - turn
        /\ wish' = IF o.ok THEN (IF e = "CS_LBT" THEN "lbt" ELSE "none") ELSE wish
        /\ open' = IF o.ok THEN (IF e = "CS_LBT" THEN "lbt" ELSE "sense") ELSE "none"
  BY <1>0 DEF Call
<1>2. SensesOrFails(d, o, e)
  BY <1>1, CarrierSenseSenses DEF TypeOK
<1>3. wish' \in Wishes /\ open' \in Operations \ {"armed"} /\ d' \in Drivers
  BY <1>1, <1>2 DEF TypeOK, Wishes, Operations, SensesOrFails
<1>4. TypeOK'
  BY <1>1, <1>3, CallTyped
<1>5. Served(d) => Served(d')
  BY <1>1, <1>2 DEF SensesOrFails
<1>6. ASSUME TrackingAssumptions, TrackedInv
      PROVE  TrackedInv'
  <2>1. Up(d) /\ d.state # "RX_DC"
    BY <1>6, AwakeUp DEF StartCarrierSense
  <2>2. Tcxo => {"clear_irq", "irq_params", "sense_rx"} \cap Faults = {}
    BY <1>6 DEF TrackingAssumptions
  <2>3. Up(d')
    BY <1>1, <1>2, <2>1, <2>2, SenseTracks
  <2> QED
    BY <1>4, <2>3, UpTracked
<1>7. ASSUME AskingAssumptions, AskedInv
      PROVE  AskedInv'
  <2>1. d.exit # "CS_LBT" /\ pc = "idle" /\ ~d.pending
    BY <1>7, FreeExit DEF StartCarrierSense, AskingAssumptions, Quiet
  <2>2. CASE ~o.ok
    <3>1. Still(d') /\ TxOnlyWhenAsked' /\ d'.exit = d.exit
      BY <1>1, <1>2, <1>7, <2>2 DEF SensesOrFails, AskedInv, Still, TxOnlyWhenAsked
    <3> QED
      BY <1>3, <1>4, <1>7, <3>1, CallAsked DEF StartCarrierSense
  <2>3. CASE o.ok
    <3>1. /\ d'.modem = "FSK" /\ d'.state = "RX" /\ d'.mode = "rx" /\ d'.irq = {}
          /\ d'.seen = "none" /\ d'.mask = sense_mask /\ d'.stop /\ ~d'.pending /\ d'.exit = e
      BY <1>1, <1>2, <2>1, <2>3 DEF SensesOrFails
    <3>2. Still(d') /\ TxOnlyWhenAsked'
      BY <3>1 DEF Still, TxOnlyWhenAsked
    <3>3. Listening(d)'
      <4>1. CASE e = "CS_LBT"
        <5>1. wish' = "lbt" /\ open' = "lbt" /\ pc' = "idle"
          BY <1>1, <2>1, <2>3, <4>1
        <5>2. Sensing(d)'
          BY <3>1, <5>1 DEF Sensing
        <5> QED
          BY <5>1, <5>2 DEF Listening
      <4>2. CASE e # "CS_LBT"
        BY <1>3, <3>1, <4>2 DEF Listening
      <4> QED
        BY <4>1, <4>2
    <3> QED
      BY <1>4, <3>2, <3>3 DEF AskedInv
  <2>4. o.ok \in BOOLEAN
    BY <1>2 DEF SensesOrFails
  <2> QED
    BY <2>2, <2>3, <2>4
<1> QED
  BY <1>4, <1>5, <1>6, <1>7 DEF KeepsInvariants

\* All the calls of the protocol.
LEMMA ProtocolStep ==
    ASSUME TypeOK, Protocol
    PROVE  KeepsInvariants
<1> QED
  BY InitRadioStep, SetModemStep, SleepStep, StandbyStep, StartTxStep, StartContinuousTxStep,
     StartRxStep, StartContinuousRxStep, StartDutyCycleStep, SetCadParamsStep, StartCadStep,
     StartCarrierSenseStep, MeasureStep, RandomStep DEF Protocol

\* An interrupt of the chip: the causes that are not masked are latched, and the
\* pin's edge schedules the bottom half.
LEMMA RaiseFields ==
    ASSUME TypeOK, NEW causes \in SUBSET RADIO_IRQ_ALL, NEW m \in Modes,
           NEW sn \in {"none", "preamble", "sync"}, Raise(causes, m, sn)
    PROVE  /\ d' \in Drivers
           /\ d'.modem = d.modem /\ d'.state = d.state /\ d'.exit = d.exit /\ d'.cad = d.cad
           /\ d'.mode = m /\ d'.seen = sn /\ d'.irq = d.irq \cup (causes \cap d.mask)
           /\ d'.rf = d.rf /\ d'.mask = d.mask /\ (d'.stop <=> d.stop)
           /\ d'.int_en = d.int_en
           /\ d'.pending <=> d.pending \/ (d.int_en /\ Line(d') /\ ~Line(d))
<1> DEFINE v == [d EXCEPT !.irq = d.irq \cup (causes \cap d.mask), !.mode = m, !.seen = sn]
<1>1. d' = radio_irq(d, v)
  BY DEF Raise
<1>2. /\ v \in Drivers
      /\ v.modem = d.modem /\ v.state = d.state /\ v.exit = d.exit /\ v.cad = d.cad
      /\ v.mode = m /\ v.seen = sn /\ v.irq = d.irq \cup (causes \cap d.mask)
      /\ v.rf = d.rf /\ v.mask = d.mask /\ v.stop = d.stop /\ v.int_en = d.int_en
      /\ v.pending = d.pending
  BY DEF TypeOK, Drivers
<1> HIDE DEF v
<1>3. d' = [v EXCEPT !.pending = v.pending \/ (v.int_en /\ Line(v) /\ ~Line(d))]
  BY <1>1, <1>2 DEF radio_irq
<1>4. (v.pending \/ (v.int_en /\ Line(v) /\ ~Line(d))) \in BOOLEAN
  OBVIOUS
<1>5. /\ d' \in Drivers
      /\ d'.modem = v.modem /\ d'.state = v.state /\ d'.exit = v.exit /\ d'.cad = v.cad
      /\ d'.mode = v.mode /\ d'.seen = v.seen /\ d'.irq = v.irq
      /\ d'.rf = v.rf /\ d'.mask = v.mask /\ d'.stop = v.stop /\ d'.int_en = v.int_en
      /\ d'.pending = (v.pending \/ (v.int_en /\ Line(v) /\ ~Line(d)))
  BY <1>2, <1>3, <1>4 DEF Drivers
<1>6. d'.pending <=> d.pending \/ (d.int_en /\ Line(d') /\ ~Line(d))
  BY <1>2, <1>5 DEF Line
<1> QED
  BY <1>2, <1>5, <1>6

\* The types and the first two invariants across an interrupt of the chip.
LEMMA RaiseStep ==
    ASSUME TypeOK, NEW causes \in SUBSET RADIO_IRQ_ALL, NEW m \in Modes,
           NEW sn \in {"none", "preamble", "sync"}, Raise(causes, m, sn),
           wish' \in Wishes, d.mode \notin {"standby", "sleep"},
           m \in {d.mode, "standby"} \/ (d.mode = "cad" /\ m = "rx")
    PROVE  /\ TypeOK'
           /\ Served(d) => Served(d')
           /\ TrackedInv => TrackedInv'
<1>1. /\ d' \in Drivers
      /\ d'.modem = d.modem /\ d'.state = d.state /\ d'.exit = d.exit /\ d'.cad = d.cad
      /\ d'.mode = m /\ d'.seen = sn /\ d'.irq = d.irq \cup (causes \cap d.mask)
      /\ d'.rf = d.rf /\ d'.mask = d.mask /\ (d'.stop <=> d.stop)
      /\ d'.int_en = d.int_en
      /\ d'.pending <=> d.pending \/ (d.int_en /\ Line(d') /\ ~Line(d))
  BY RaiseFields
<1>2. pc = "idle" /\ pc' = pc /\ open' = open /\ turn' = turn
  BY DEF Raise
<1>3. TypeOK'
  BY <1>1, <1>2 DEF TypeOK, Wishes
<1>4. Served(d) => Served(d')
  <2>1. Served(d) => d.int_en
    BY DEF Served
  <2>2. Served(d) /\ Line(d) => d.pending
    BY DEF Served
  <2>3. Served(d) /\ Line(d') => d'.pending
    BY <1>1, <2>1, <2>2
  <2> QED
    BY <1>1, <2>1, <2>3 DEF Served
<1>5. TrackedInv => TrackedInv'
  <2>1. TrackedInv => Up(d')
    BY <1>1 DEF TrackedInv, Tracked, Up
  <2> QED
    BY <1>3, <2>1, UpTracked
<1> QED
  BY <1>3, <1>4, <1>5

\* The third: nothing the chip reports changes what a listen-before-talk may do.
LEMMA RaiseAsked ==
    ASSUME AskedInv, NEW causes \in SUBSET RADIO_IRQ_ALL, NEW m \in Modes,
           NEW sn \in {"none", "preamble", "sync"}, Raise(causes, m, sn), TypeOK',
           d.mode \notin {"standby", "sleep"}, m \notin {"tx", "cw"},
           d.exit = "CS_LBT" => Detecting(d)' \/ Sensing(d)',
           d.exit = "CS_LBT" => wish' \in {"lbt", "heard"}
    PROVE  AskedInv'
<1>1. /\ d'.state = d.state /\ d'.exit = d.exit /\ d'.cad = d.cad /\ d'.mode = m
  BY RaiseFields DEF AskedInv
<1>2. open' = open
  BY DEF Raise
<1>3. d.state \notin {"STANDBY", "SLEEP"}
  BY DEF AskedInv, Still
<1>4. Still(d') /\ TxOnlyWhenAsked'
  BY <1>1, <1>3 DEF Still, TxOnlyWhenAsked
<1>5. Listening(d)'
  BY <1>1, <1>2, <1>3 DEF AskedInv, Listening
<1> QED
  BY <1>4, <1>5 DEF AskedInv

\* A listen-before-talk that the chip may still end is a running detection, or a carrier
\* sense with nothing or a preamble heard.
LEMMA LbtRuns ==
    ASSUME AskedInv, d.exit = "CS_LBT", d.mode \notin {"standby", "sleep"}
    PROVE  \/ Detecting(d) /\ d.mode = "cad" /\ d.irq = {} /\ wish = "lbt"
           \/ /\ Sensing(d) /\ d.mode = "rx" /\ wish \in {"lbt", "heard"}
              /\ \/ d.irq = {} /\ d.seen = "none" /\ wish = "lbt"
                 \/ d.irq = {"PREAMBLE"} /\ d.seen # "none"
<1> QED
  BY DEF AskedInv, Listening, Still, Detecting, Sensing

\* The end of a transmission keeps all the invariants.
LEMMA ChipSentStep ==
    ASSUME TypeOK, ChipSent
    PROVE  KeepsInvariants
<1>1. Raise({"TX_DONE"}, "standby", "none") /\ wish' = wish /\ d.mode = "tx"
  BY DEF ChipSent
<1>2. /\ {"TX_DONE"} \in SUBSET RADIO_IRQ_ALL /\ "standby" \in Modes
      /\ wish' \in Wishes
  BY <1>1 DEF RADIO_IRQ_ALL, Modes, TypeOK, Wishes
<1>3. /\ TypeOK' /\ (Served(d) => Served(d')) /\ (TrackedInv => TrackedInv')
  BY <1>1, <1>2, RaiseStep
<1>4. AskedInv => AskedInv'
  <2>1. AskedInv => d.exit # "CS_LBT"
    BY <1>1, LbtRuns
  <2> QED
    BY <1>1, <1>2, <1>3, <2>1, RaiseAsked
<1> QED
  BY <1>3, <1>4 DEF KeepsInvariants

\* So does the end of a reception's time.
LEMMA ChipTimeoutStep ==
    ASSUME TypeOK, ChipTimeout
    PROVE  KeepsInvariants
<1>1. /\ Raise({"TIMEOUT"}, "standby", "none") /\ wish' = wish /\ d.mode \in {"tx", "rx"}
      /\ ~(d.stop /\ d.seen # "none")
  BY DEF ChipTimeout
<1>2. /\ {"TIMEOUT"} \in SUBSET RADIO_IRQ_ALL /\ "standby" \in Modes
      /\ wish' \in Wishes
  BY <1>1 DEF RADIO_IRQ_ALL, Modes, TypeOK, Wishes
<1>3. /\ TypeOK' /\ (Served(d) => Served(d')) /\ (TrackedInv => TrackedInv')
  BY <1>1, <1>2, RaiseStep
<1>4. ASSUME AskedInv PROVE AskedInv'
  <2>1. ASSUME d.exit = "CS_LBT" PROVE Sensing(d)' /\ wish' = "lbt"
    <3>1. Sensing(d) /\ d.mode = "rx" /\ d.irq = {} /\ d.seen = "none" /\ wish = "lbt"
      BY <1>1, <1>4, <2>1, LbtRuns DEF Sensing
    <3>2. /\ d'.modem = d.modem /\ d'.state = d.state
          /\ d'.mode = "standby" /\ d'.irq = d.irq \cup ({"TIMEOUT"} \cap d.mask)
          /\ d'.mask = d.mask /\ (d'.stop <=> d.stop)
      BY <1>1, <1>2, RaiseFields
    <3>3. d'.irq = {"TIMEOUT"}
      BY <3>1, <3>2 DEF Sensing, sense_mask
    <3>4. pc' = pc
      BY <1>1 DEF Raise
    <3> QED
      BY <1>1, <3>1, <3>2, <3>3, <3>4 DEF Sensing
  <2> QED
    BY <1>1, <1>2, <1>3, <1>4, <2>1, RaiseAsked
<1> QED
  BY <1>3, <1>4 DEF KeepsInvariants

\* So does a preamble, after which a listen-before-talk has been heard.
LEMMA ChipPreambleStep ==
    ASSUME TypeOK, ChipPreamble
    PROVE  KeepsInvariants
<1>1. /\ Raise({"PREAMBLE"}, d.mode, "preamble") /\ d.mode \in {"rx", "rxc", "dc"}
      /\ d.seen = "none"
      /\ wish' = IF wish = "lbt" THEN "heard" ELSE wish
  BY DEF ChipPreamble, Receiving, Heard
<1>2. /\ {"PREAMBLE"} \in SUBSET RADIO_IRQ_ALL /\ d.mode \in Modes
      /\ wish' \in Wishes
  BY <1>1 DEF RADIO_IRQ_ALL, Modes, TypeOK, Wishes
<1>3. /\ TypeOK' /\ (Served(d) => Served(d')) /\ (TrackedInv => TrackedInv')
  BY <1>1, <1>2, RaiseStep
<1>4. ASSUME AskedInv PROVE AskedInv'
  <2>1. ASSUME d.exit = "CS_LBT" PROVE Sensing(d)' /\ wish' = "heard"
    <3>1. Sensing(d) /\ d.mode = "rx" /\ d.irq = {} /\ wish = "lbt"
      BY <1>1, <1>4, <2>1, LbtRuns
    <3>2. /\ d'.modem = d.modem /\ d'.state = d.state
          /\ d'.mode = d.mode /\ d'.seen = "preamble"
          /\ d'.irq = d.irq \cup ({"PREAMBLE"} \cap d.mask)
          /\ d'.mask = d.mask /\ (d'.stop <=> d.stop)
      BY <1>1, <1>2, RaiseFields
    <3>3. d'.irq = {"PREAMBLE"}
      BY <3>1, <3>2 DEF Sensing, sense_mask
    <3>4. pc' = pc
      BY <1>1 DEF Raise
    <3> QED
      BY <1>1, <3>1, <3>2, <3>3, <3>4 DEF Sensing
  <2> QED
    BY <1>1, <1>2, <1>3, <1>4, <2>1, RaiseAsked
<1> QED
  BY <1>3, <1>4 DEF KeepsInvariants

\* So does a synchronisation word or a header.
LEMMA ChipSyncStep ==
    ASSUME TypeOK, ChipSync
    PROVE  KeepsInvariants
<1> DEFINE causes == IF d.modem = "LORA" THEN {"SYNC_WORD", "HEADER"} ELSE {"SYNC_WORD"}
<1>1. /\ Raise(causes, d.mode, "sync") /\ d.mode \in {"rx", "rxc", "dc"}
      /\ d.seen = "preamble" /\ wish' = wish
  BY DEF ChipSync, Receiving
<1>2. /\ causes \in SUBSET RADIO_IRQ_ALL /\ d.mode \in Modes
      /\ wish' \in Wishes
  BY <1>1 DEF RADIO_IRQ_ALL, Modes, TypeOK, Wishes
<1>3. causes \cap sense_mask = {}
  BY DEF sense_mask
<1> HIDE DEF causes
<1>4. /\ TypeOK' /\ (Served(d) => Served(d')) /\ (TrackedInv => TrackedInv')
  BY <1>1, <1>2, RaiseStep
<1>5. ASSUME AskedInv PROVE AskedInv'
  <2>1. ASSUME d.exit = "CS_LBT" PROVE Sensing(d)' /\ wish' \in {"lbt", "heard"}
    <3>1. Sensing(d) /\ d.mode = "rx" /\ d.irq = {"PREAMBLE"} /\ wish \in {"lbt", "heard"}
      BY <1>1, <1>5, <2>1, LbtRuns
    <3>2. /\ d'.modem = d.modem /\ d'.state = d.state
          /\ d'.mode = d.mode /\ d'.seen = "sync"
          /\ d'.irq = d.irq \cup (causes \cap d.mask)
          /\ d'.mask = d.mask /\ (d'.stop <=> d.stop)
      BY <1>1, <1>2, RaiseFields
    <3>3. d'.irq = {"PREAMBLE"}
      BY <1>3, <3>1, <3>2 DEF Sensing
    <3>4. pc' = pc
      BY <1>1 DEF Raise
    <3> QED
      BY <1>1, <3>1, <3>2, <3>3, <3>4 DEF Sensing
  <2> QED
    BY <1>1, <1>2, <1>4, <1>5, <2>1, RaiseAsked
<1> QED
  BY <1>4, <1>5 DEF KeepsInvariants

\* So does a packet, right or wrong.
LEMMA ChipReceivedStep ==
    ASSUME TypeOK, ChipReceived
    PROVE  KeepsInvariants
<1> DEFINE m == IF d.mode = "rxc" THEN "rxc" ELSE "standby"
<1>1. PICK causes \in {{"RX_DONE"}, {"RX_DONE", "CRC_ERROR"}, {"HEADER_ERROR"}} :
        Raise(causes, m, "none")
  BY DEF ChipReceived
<1>2. d.mode \in {"rx", "rxc", "dc"} /\ d.seen = "sync" /\ wish' = wish
  BY DEF ChipReceived, Receiving
<1>3. /\ causes \in SUBSET RADIO_IRQ_ALL /\ m \in Modes
      /\ wish' \in Wishes
  BY <1>1, <1>2 DEF RADIO_IRQ_ALL, Modes, TypeOK, Wishes
<1>4. causes \cap sense_mask = {}
  BY <1>1 DEF sense_mask
<1>5. m \in {d.mode, "standby"} /\ m \notin {"tx", "cw"} /\ (d.mode = "rx" => m = "standby")
  OBVIOUS
<1> HIDE DEF m
<1>6. /\ TypeOK' /\ (Served(d) => Served(d')) /\ (TrackedInv => TrackedInv')
  BY <1>1, <1>2, <1>3, <1>5, RaiseStep
<1>7. ASSUME AskedInv PROVE AskedInv'
  <2>1. ASSUME d.exit = "CS_LBT" PROVE Sensing(d)' /\ wish' \in {"lbt", "heard"}
    <3>1. Sensing(d) /\ d.mode = "rx" /\ d.irq = {"PREAMBLE"} /\ wish \in {"lbt", "heard"}
      BY <1>2, <1>7, <2>1, LbtRuns
    <3>2. /\ d'.modem = d.modem /\ d'.state = d.state
          /\ d'.mode = "standby"
          /\ d'.irq = d.irq \cup (causes \cap d.mask)
          /\ d'.mask = d.mask /\ (d'.stop <=> d.stop)
      BY <1>1, <1>3, <1>5, <3>1, RaiseFields
    <3>3. d'.irq = {"PREAMBLE"}
      BY <1>4, <3>1, <3>2 DEF Sensing
    <3>4. pc' = pc
      BY <1>1 DEF Raise
    <3> QED
      BY <1>2, <3>1, <3>2, <3>3, <3>4 DEF Sensing
  <2> QED
    BY <1>1, <1>2, <1>3, <1>5, <1>6, <1>7, <2>1, RaiseAsked
<1> QED
  BY <1>6, <1>7 DEF KeepsInvariants

\* So does the end of a detection, with or without activity.
LEMMA ChipCadStep ==
    ASSUME TypeOK, ChipCad
    PROVE  KeepsInvariants
<1>1. d.mode = "cad"
  BY DEF ChipCad
<1>2. PICK causes, m :
        /\ Raise(causes, m, "none")
        /\ \/ causes = {"CAD_DONE"} /\ m = "standby" /\ wish' = wish
           \/ /\ causes = {"CAD_DONE", "CAD_DET"}
              /\ m = IF d.cad = "CS_RX" THEN "rx" ELSE "standby"
              /\ wish' = IF wish = "lbt" THEN "heard" ELSE wish
  BY DEF ChipCad, Heard
<1>3. /\ causes \in SUBSET RADIO_IRQ_ALL /\ m \in Modes
      /\ wish' \in Wishes /\ m \in {"rx", "standby"}
  BY <1>2 DEF RADIO_IRQ_ALL, Modes, TypeOK, Wishes
<1>4. /\ TypeOK' /\ (Served(d) => Served(d')) /\ (TrackedInv => TrackedInv')
  BY <1>1, <1>2, <1>3, RaiseStep
<1>5. ASSUME AskedInv PROVE AskedInv'
  <2>1. ASSUME d.exit = "CS_LBT" PROVE Detecting(d)' /\ wish' \in {"lbt", "heard"}
    <3>1. Detecting(d) /\ d.irq = {} /\ wish = "lbt"
      BY <1>1, <1>5, <2>1, LbtRuns
    <3>2. /\ d'.state = d.state /\ d'.cad = d.cad /\ d'.mode = m
          /\ d'.irq = causes \cap d.mask
      BY <1>2, <1>3, <3>1, RaiseFields
    <3>3. m = "standby" /\ causes \subseteq {"CAD_DONE", "CAD_DET"}
      BY <1>2, <3>1 DEF Detecting
    <3>4. "CAD_DONE" \in d.mask <=> "CAD_DET" \in d.mask
      BY DEF TypeOK, Drivers, Masks, sense_mask, irq_mask, RADIO_IRQ_ALL
    <3>5. wish' = "heard" => d'.irq # {"CAD_DONE"}
      BY <1>2, <3>1, <3>2, <3>4
    <3>6. wish' \in {"lbt", "heard"}
      BY <1>2, <3>1
    <3> QED
      BY <3>1, <3>2, <3>3, <3>5, <3>6 DEF Detecting
  <2> QED
    BY <1>1, <1>2, <1>3, <1>4, <1>5, <2>1, RaiseAsked
<1> QED
  BY <1>4, <1>5 DEF KeepsInvariants

\* All the steps of the chip.
LEMMA ChipStep ==
    ASSUME TypeOK, Chip
    PROVE  KeepsInvariants
<1> QED
  BY ChipSentStep, ChipTimeoutStep, ChipPreambleStep, ChipSyncStep, ChipReceivedStep,
     ChipCadStep
  DEF Chip

\* The return of the protocol's callback, after which the interrupts are unmasked.
LEMMA ReportReturnsStep ==
    ASSUME TypeOK, ReportReturns
    PROVE  KeepsInvariants
<1>1. PICK o \in UnmaskUnlessAsleep(d) : d' = o.s
  BY DEF ReportReturns
<1>2. pc = "report" /\ pc' = "idle" /\ wish' = wish /\ open' = open /\ turn' = turn
  BY DEF ReportReturns
<1>3. Undisturbed(d, d') /\ d'.irq = d.irq
  BY <1>1, UnmaskKeeps DEF TypeOK
<1>4. TypeOK'
  BY <1>2, <1>3 DEF TypeOK, Undisturbed
<1>5. Served(d) => Served(d')
  BY <1>3 DEF Undisturbed
<1>6. TrackedInv => TrackedInv'
  <2>1. TrackedInv => Up(d)
    BY <1>2 DEF TrackedInv, Up
  <2> QED
    BY <1>3, <1>4, <2>1, UndisturbedTracks, UpTracked
<1>7. ASSUME AskedInv
      PROVE  AskedInv'
  <2>1. /\ d'.state = d.state /\ d'.exit = d.exit /\ d'.cad = d.cad
        /\ d'.mode \in {d.mode, "standby"} /\ d'.irq = d.irq
    BY <1>3 DEF Undisturbed
  <2>2. Still(d') /\ TxOnlyWhenAsked'
    BY <1>2, <1>7, <2>1 DEF AskedInv, Still, TxOnlyWhenAsked
  <2>3. ~Sensing(d)
    BY <1>2 DEF Sensing
  <2>4. Detecting(d) => Detecting(d)'
    BY <1>2, <2>1 DEF Detecting
  <2>5. Listening(d)'
    BY <1>2, <1>7, <2>1, <2>3, <2>4 DEF AskedInv, Listening
  <2> QED
    BY <1>4, <2>2, <2>5 DEF AskedInv
<1> QED
  BY <1>4, <1>5, <1>6, <1>7 DEF KeepsInvariants

\* What the bottom half does in a listen-before-talk: it waits on, or it ends it, and then
\* the radio transmits only if nothing was heard.
LEMMA LbtHandled ==
    ASSUME AskedInv, d.pending, d.exit = "CS_LBT",
           NEW v \in Drivers, v.modem = d.modem, v.state = d.state, v.exit = d.exit,
           v.mode \in {d.mode, "standby"},
           v.irq = {}, NEW h \in Handled(v, d.irq)
    PROVE  \/ /\ h.s = v /\ h.event = "none"
              /\ ~Sensing(d)
           \/ /\ h.s.exit = "NONE" /\ open # "armed"
              /\ h.s.mode \in {"tx", "cw"} => wish = "lbt"
<1> DEFINE cause == Cause(d.modem, d.irq)
           off == [v EXCEPT !.exit = "NONE"]
<1>1. HandledBy(v, d.irq, h)
  BY HandledCases
<1>2. /\ off \in Drivers /\ off.state = v.state /\ off.exit = "NONE" /\ off.mode = v.mode
  BY ExitFields
<1>3. d.modem \in Modems
  BY DEF AskedInv, TypeOK, Drivers
<1>4. ASSUME NEW o \in sid_pal_radio_start_tx(v, FALSE), h.s = [o.s EXCEPT !.exit = "NONE"]
      PROVE  h.s.exit = "NONE"
  <2>1. o.s \in Drivers
    BY <1>4, TalkStarts DEF StartsOrFails
  <2> QED
    BY <1>4, <2>1 DEF Drivers
<1>5. ASSUME NEW o \in sid_pal_radio_standby(off), h.s = o.s, v.state \notin {"STANDBY", "SLEEP"}
      PROVE  h.s.exit = "NONE" /\ h.s.mode \in {v.mode, "standby"}
  <2> HIDE DEF off
  <2>1. StandbyOrFails(off, o)
    BY <1>2, <1>5, StandbyStands
  <2> QED
    BY <1>2, <1>5, <2>1 DEF StandbyOrFails
<1>6. CASE open = "armed"
  <2>1. d.irq = {}
    BY <1>6 DEF AskedInv, Listening, Still
  <2>2. Cause(v.modem, d.irq) = "none"
    BY <2>1, OneCause
  <2>3. ~Sensing(d)
    BY <1>6 DEF AskedInv, Listening, Sensing
  <2> QED
    BY <1>1, <2>2, <2>3 DEF HandledBy
<1>7. CASE open = "lbt" /\ Detecting(d)
  <2>1. ~Sensing(d)
    BY <1>7 DEF Detecting, Sensing
  <2>2. d.irq \in {{}, {"CAD_DET"}, {"CAD_DONE"}, {"CAD_DONE", "CAD_DET"}}
    BY <1>7 DEF Detecting
  <2>3. Cause(v.modem, d.irq) \in {"none", "CAD_DONE"}
    BY <1>3, <2>2, OneCause
  <2>4. CASE Cause(v.modem, d.irq) = "none"
    BY <1>1, <2>1, <2>4 DEF HandledBy
  <2>5. CASE Cause(v.modem, d.irq) = "CAD_DONE" /\ "CAD_DET" \in d.irq
    <3>1. h.s = off
      BY <1>1, <2>5 DEF HandledBy
    <3>2. h.s.mode \notin {"tx", "cw"}
      BY <1>2, <1>7, <3>1 DEF Detecting
    <3> QED
      BY <1>2, <1>7, <3>1, <3>2
  <2>6. CASE Cause(v.modem, d.irq) = "CAD_DONE" /\ "CAD_DET" \notin d.irq
    <3>1. d.irq = {"CAD_DONE"}
      <4>1. d.irq # {}
        BY <2>6, OneCause
      <4> QED
        BY <2>2, <2>6, <4>1
    <3>2. wish = "lbt"
      BY <1>7, <3>1 DEF AskedInv, Listening, Detecting
    <3>3. h.s.exit = "NONE"
      BY <1>1, <1>4, <2>6 DEF HandledBy
    <3> QED
      BY <1>7, <3>2, <3>3
  <2> QED
    BY <2>3, <2>4, <2>5, <2>6
<1>8. CASE open = "lbt" /\ Sensing(d)
  <2>1. d.modem = "FSK" /\ d.state = "RX" /\ v.modem = "FSK"
    BY <1>8 DEF Sensing
  <2>2. CASE d.irq = {"TIMEOUT"} /\ wish = "lbt"
    <3>1. Cause(v.modem, d.irq) = "TIMEOUT"
      BY <2>1, <2>2, OneCause
    <3>2. h.s.exit = "NONE"
      BY <1>1, <1>4, <2>1, <3>1 DEF HandledBy
    <3> QED
      BY <1>8, <2>2, <3>2
  <2>3. CASE d.irq = {"PREAMBLE"} /\ d.mode \in {"rx", "standby"}
    <3>1. Cause(v.modem, d.irq) = "PREAMBLE"
      BY <2>1, <2>3, OneCause
    <3>2. h.s.exit = "NONE" /\ h.s.mode \in {v.mode, "standby"}
      BY <1>1, <1>5, <2>1, <3>1 DEF HandledBy
    <3> QED
      BY <1>8, <2>3, <3>2
  <2> QED
    BY <1>8, <2>2, <2>3 DEF Sensing
<1> QED
  BY <1>6, <1>7, <1>8 DEF AskedInv, Listening

\* The bottom half up to its report keeps all the invariants.
LEMMA IrqProcessStep ==
    ASSUME TypeOK, sid_pal_radio_irq_process
    PROVE  KeepsInvariants
<1>1. pc = "idle" /\ d.pending /\ wish' = wish /\ turn' = turn
  BY DEF sid_pal_radio_irq_process
<1>2. PICK h \in ReadAndHandle(d) :
        /\ IF h.event # "none"
           THEN d' = h.s /\ pc' = "report"
           ELSE (\E o \in UnmaskUnlessAsleep(h.s) : d' = o.s) /\ pc' = pc
        /\ open' = IF h.event # "none" \/ (open = "sense" /\ d.irq # {}) THEN "none"
                   ELSE IF open = "lbt" /\ h.s.state = "TX" THEN "tx"
                   ELSE IF open = "lora_rx" /\ h.s.failed > d.failed THEN "unread" ELSE open
  BY DEF sid_pal_radio_irq_process
<1>3. PICK v \in Drivers :
        /\ v.modem = d.modem /\ v.state = d.state /\ v.exit = d.exit /\ v.cad = d.cad
        /\ v.mode \in {d.mode, "standby"} /\ RfKept(d, v)
        /\ v.irq \in {d.irq, {}}
        /\ Wakes(d) /\ "irq_params" \notin Faults => Served(v)
        /\ \/ h.s = v /\ h.event = "none"
              /\ {"irq_params", "get_irq"} \cap Faults # {}
           \/ v.irq = {} /\ h \in Handled(v, d.irq)
  BY <1>2, ReadCases DEF TypeOK
<1>4. /\ h.s \in Drivers
      /\ Served(v) => Served(h.s)
      /\ Still(v) => Still(h.s)
      /\ TrackingAssumptions /\ Up(v) => Up(h.s)
  <2>1. CASE h.s = v
    BY <2>1
  <2>2. CASE v.irq = {} /\ h \in Handled(v, d.irq)
    <3>1. /\ h.s \in Drivers
          /\ Served(v) => Served(h.s)
          /\ Still(v) => Still(h.s)
          /\ \/ Up(v) => Up(h.s)
             \/ "set_standby" \in Faults
             \/ Tcxo /\ {"clear_irq", "set_tx"} \cap Faults # {}
      BY <2>2, HandledKeeps
    <3>2. TrackingAssumptions => /\ "set_standby" \notin Faults
                                 /\ Tcxo => {"clear_irq", "set_tx"} \cap Faults = {}
      BY DEF TrackingAssumptions
    <3> QED
      BY <3>1, <3>2
  <2> QED
    BY <1>3, <2>1, <2>2
<1>5. Undisturbed(h.s, d') /\ d'.irq = h.s.irq /\ pc' \in {"idle", "report"}
  <2>1. CASE h.event # "none"
    BY <1>2, <1>4, <2>1 DEF Undisturbed, RfKept
  <2>2. CASE h.event = "none"
    BY <1>1, <1>2, <1>4, <2>2, UnmaskKeeps
  <2> QED
    BY <2>1, <2>2
<1>6. TypeOK'
  <2>1. open' \in Operations
    BY <1>2 DEF TypeOK, Operations
  <2> QED
    BY <1>1, <1>5, <2>1 DEF TypeOK, Undisturbed, Operations
<1>7. "irq_params" \notin Faults /\ Served(d) => Served(d')
  BY <1>3, <1>4, <1>5 DEF Served, Wakes, Undisturbed
<1>8. ASSUME TrackingAssumptions, TrackedInv
      PROVE  TrackedInv'
  <2>1. Up(d)
    BY <1>1, <1>8 DEF TrackedInv, Up
  <2>2. Up(v)
    BY <1>3, <2>1 DEF Up, Tracked, RfKept
  <2>3. Up(d')
    BY <1>4, <1>5, <1>8, <2>2, UndisturbedTracks
  <2> QED
    BY <1>6, <2>3, UpTracked
<1>9. ASSUME AskingAssumptions, AskedInv
      PROVE  AskedInv'
  <2>1. v.irq = {} /\ h \in Handled(v, d.irq)
    BY <1>3, <1>9 DEF AskingAssumptions
  <2>2. /\ d'.state = h.s.state /\ d'.exit = h.s.exit /\ d'.cad = h.s.cad
        /\ d'.mode \in {h.s.mode, "standby"} /\ d'.irq \in {h.s.irq, {}}
    BY <1>5 DEF Undisturbed
  <2>3. Still(d')
    <3>1. Still(v)
      BY <1>3, <1>9 DEF AskedInv, Still
    <3>2. Still(h.s)
      BY <1>4, <3>1
    <3> QED
      BY <2>2, <3>2 DEF Still
  <2>4. CASE d.exit # "CS_LBT"
    <3>1. h.s.exit # "CS_LBT" /\ h.s.mode \in {v.mode, "standby"}
      BY <1>3, <2>1, <2>4, HandledKeeps
    <3>2. open # "armed"
      BY <1>9, <2>4 DEF AskedInv, Listening
    <3>3. open' # "armed"
      BY <1>2, <3>2
    <3>4. TxOnlyWhenAsked'
      BY <1>1, <1>3, <1>9, <2>2, <3>1 DEF AskedInv, TxOnlyWhenAsked
    <3>5. Listening(d)'
      BY <2>2, <3>1, <3>3 DEF Listening
    <3> QED
      BY <1>6, <2>3, <3>4, <3>5 DEF AskedInv
  <2>5. CASE d.exit = "CS_LBT"
    <3>1. \/ h.s = v /\ h.event = "none" /\ ~Sensing(d)
          \/ /\ h.s.exit = "NONE" /\ open # "armed"
             /\ h.s.mode \in {"tx", "cw"} => wish = "lbt"
      BY <1>1, <1>3, <1>9, <2>1, <2>5, LbtHandled
    <3>2. CASE h.s.exit = "NONE" /\ open # "armed" /\ (h.s.mode \in {"tx", "cw"} => wish = "lbt")
      <4>1. TxOnlyWhenAsked'
        BY <1>1, <2>2, <3>2 DEF TxOnlyWhenAsked
      <4>2. open' # "armed"
        BY <1>2, <3>2
      <4>3. Listening(d)'
        BY <2>2, <3>2, <4>2 DEF Listening
      <4> QED
        BY <1>6, <2>3, <4>1, <4>3 DEF AskedInv
    <3>3. CASE h.s = v /\ h.event = "none" /\ ~Sensing(d)
      <4>1. /\ d'.state = d.state /\ d'.exit = d.exit /\ d'.cad = d.cad
            /\ d'.mode \in {d.mode, "standby"} /\ d'.irq = {}
        BY <1>3, <2>1, <2>2, <3>3
      <4>2. \/ open = "armed" /\ d.state = "STANDBY"
            \/ open = "lbt" /\ wish \in {"lbt", "heard"} /\ Detecting(d)
        BY <1>9, <2>5, <3>3 DEF AskedInv, Listening
      <4>3. open' = open
        <5>1. CASE open = "armed"
          BY <1>2, <3>3, <5>1
        <5>2. CASE open = "lbt" /\ Detecting(d)
          <6>1. h.s.state # "TX"
            BY <1>3, <3>3, <5>2 DEF Detecting
          <6> QED
            BY <1>2, <3>3, <5>2, <6>1
        <5> QED
          BY <4>2, <5>1, <5>2
      <4>4. TxOnlyWhenAsked'
        BY <1>1, <1>9, <4>1 DEF AskedInv, TxOnlyWhenAsked
      <4>5. Detecting(d) => Detecting(d)'
        BY <1>1, <4>1 DEF Detecting
      <4>6. Listening(d)'
        BY <1>1, <1>9, <4>1, <4>2, <4>3, <4>5 DEF AskedInv, Listening
      <4> QED
        BY <1>6, <2>3, <4>4, <4>6 DEF AskedInv
    <3> QED
      BY <3>1, <3>2, <3>3
  <2> QED
    BY <2>4, <2>5
<1> QED
  BY <1>6, <1>7, <1>8, <1>9 DEF KeepsInvariants

-----------------------------------------------------------------------------
(***************************************************************************)
(* The theorems.                                                           *)
(***************************************************************************)

\* The invariants hold in the initial state.
LEMMA InitAll == Init => TypeOK /\ Served(d) /\ TrackedInv /\ AskedInv
<1> SUFFICES ASSUME Init PROVE TypeOK /\ Served(d) /\ TrackedInv /\ AskedInv
  OBVIOUS
<1>1. /\ d.modem = "LORA" /\ d.state = "STANDBY" /\ d.exit = "CS_ONLY" /\ d.mode = "standby"
      /\ d.irq = {} /\ d.rf = "off" /\ d.int_en = TRUE /\ d.pending = FALSE
  BY DEF Init
<1>2. d \in Drivers
  BY DEF Init, Drivers, Modems, States, Modes, ExitModes, Masks
<1>3. TypeOK
  BY <1>2 DEF Init, TypeOK
<1>4. Served(d)
  BY <1>1 DEF Served, Line
<1>5. TrackedInv
  BY <1>1, <1>3 DEF TrackedInv, Tracked
<1>6. AskedInv
  BY <1>1, <1>3 DEF Init, AskedInv, Still, Listening, TxOnlyWhenAsked
<1> QED
  BY <1>3, <1>4, <1>5, <1>6

\* Every step, and every stuttering step, keeps them.
LEMMA NextAll ==
    ASSUME TypeOK, [Next]_vars
    PROVE  KeepsInvariants
<1>1. CASE Next
  BY <1>1, ProtocolStep, IrqProcessStep, ReportReturnsStep, ChipStep DEF Next
<1>2. CASE UNCHANGED vars
  BY <1>2 DEF vars, KeepsInvariants, TypeOK, TrackedInv, AskedInv, Still, Listening,
     Detecting, Sensing,
     TxOnlyWhenAsked
<1> QED
  BY <1>1, <1>2

\* The variables of the SX126x driver keep their types, whatever fails on the bus
\* and whatever the protocol does.
THEOREM SxTyped == Spec => []TypeOK
<1>1. Init => TypeOK
  BY InitAll
<1>2. TypeOK /\ [Next]_vars => TypeOK'
  BY NextAll DEF KeepsInvariants
<1> QED
  BY <1>1, <1>2, PTL DEF Spec

\* NoInterruptLost holds of every caller, and whatever other command fails, as long
\* as set_dio_irq_params gets its mask to the chip: the edge-triggered pin is never
\* high with no bottom half due or running.
THEOREM InterruptsNeverLost == "irq_params" \notin Faults => (Spec => []NoInterruptLost)
<1> SUFFICES ASSUME "irq_params" \notin Faults PROVE Spec => []NoInterruptLost
  OBVIOUS
<1>1. Init => ServedInv
  BY InitAll DEF ServedInv
<1>2. ServedInv /\ [Next]_vars => ServedInv'
  BY NextAll DEF KeepsInvariants, ServedInv
<1>3. ServedInv => NoInterruptLost
  BY DEF ServedInv, Served, NoInterruptLost
<1> QED
  BY <1>1, <1>2, <1>3, PTL DEF Spec

\* ChipTracked holds under TrackingAssumptions: radio_state agrees with the mode of
\* the chip and the RF switch is on the path that the chip uses, through wake-ups,
\* aborted starts and the transmission that the bottom half starts by itself.
THEOREM ChipAlwaysTracked == TrackingAssumptions => (Spec => []ChipTracked)
<1> SUFFICES ASSUME TrackingAssumptions PROVE Spec => []ChipTracked
  OBVIOUS
<1>1. Init => TrackedInv
  BY InitAll
<1>2. TrackedInv /\ [Next]_vars => TrackedInv'
  BY NextAll DEF KeepsInvariants, TrackedInv
<1>3. TrackedInv => ChipTracked
  BY DEF TrackedInv, Tracked, ChipTracked, DriverTracksChip, PathMatchesChip
<1> QED
  BY <1>1, <1>2, <1>3, PTL DEF Spec

\* TxOnlyWhenAsked holds under AskingAssumptions: no stale exit mode, cause or time
\* limit makes the bottom half transmit when the protocol did not ask, or after a
\* carrier was heard.
THEOREM TransmitsOnlyWhenAsked == AskingAssumptions => (Spec => []TxOnlyWhenAsked)
<1> SUFFICES ASSUME AskingAssumptions PROVE Spec => []TxOnlyWhenAsked
  OBVIOUS
<1>1. Init => AskedInv
  BY InitAll
<1>2. AskedInv /\ [Next]_vars => AskedInv'
  BY NextAll DEF KeepsInvariants, AskedInv
<1>3. AskedInv => TxOnlyWhenAsked
  BY DEF AskedInv
<1> QED
  BY <1>1, <1>2, <1>3, PTL DEF Spec
=============================================================================
