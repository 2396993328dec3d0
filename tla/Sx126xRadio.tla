----------------------------- MODULE Sx126xRadio -----------------------------
(***************************************************************************)
(* The SX126x radio driver of the sub-GHz links: subsys/semtech/sx126x,    *)
(* sx126x_radio.c, sx126x_hal.c and the parts of sx126x_radio_lora.c and   *)
(* sx126x_radio_fsk.c that change the driver's state.                      *)
(*                                                                         *)
(* Three parties share the driver's context.  The protocol (the Sidewalk   *)
(* library, not in this repository) calls the operations of                *)
(* sid_pal_radio_ifc.h.  The chip carries the operations out on its own    *)
(* and raises its interrupt line.  The interrupt handler radio_irq has the *)
(* protocol schedule sid_pal_radio_irq_process, the bottom half, which     *)
(* masks the chip's interrupts, reads and clears their cause, reports an   *)
(* event to the protocol and unmasks them.  The protocol may call the      *)
(* driver again from that report.                                          *)
(*                                                                         *)
(* Time.  A driver call is a burst of SPI transfers of some microseconds;  *)
(* a transmission or a reception takes milliseconds.  Calls are one step,  *)
(* and the chip ends no operation while a report is being made.            *)
(***************************************************************************)
EXTENDS Naturals

CONSTANTS
    Tcxo,         \* a TCXO clocks the radio (tcxo.ctrl # NONE)
    Faults,       \* the bus commands that may fail
    MaxFailures,  \* bound on the failing commands of a behaviour
    Caller        \* the liberties the protocol takes, see Liberties

Liberties == {"abandon",           \* ends a carrier sense before it is over
              "sense_early",       \* starts one while a bottom half is due or reports
              "sleep_early"}       \* sleeps while a bottom half is due or reports

ASSUME ConstantsAssumption ==
    /\ Tcxo \in BOOLEAN
    /\ MaxFailures \in Nat
    /\ Caller \subseteq Liberties

VARIABLES
    d,      \* the driver's context and the chip's registers
    pc,     \* the bottom half: "idle", or "report" while it reports an event
    wish,   \* what the protocol last asked for (history)
    open,   \* the operation whose end the protocol waits for (history)
    turn    \* tells a call of the protocol from the one before (history)

vars == <<d, pc, wish, open, turn>>

(***************************************************************************)
(* Interrupt causes, and the masks of the two modems.                      *)
(***************************************************************************)
RADIO_IRQ_ALL == {"TX_DONE", "RX_DONE", "PREAMBLE", "SYNC_WORD", "HEADER",
                  "HEADER_ERROR", "CRC_ERROR", "CAD_DONE", "CAD_DET", "TIMEOUT"}

irq_mask(modem) ==
    IF modem = "LORA" THEN RADIO_IRQ_ALL \ {"PREAMBLE", "SYNC_WORD"}
                      ELSE RADIO_IRQ_ALL \ {"PREAMBLE"}

sense_mask == {"TIMEOUT", "PREAMBLE"}

(***************************************************************************)
(* The interrupt line is high while a latched cause is unmasked.  A rising *)
(* edge runs radio_irq, which has the protocol schedule the bottom half.   *)
(***************************************************************************)
Line(s) == s.irq \cap s.mask # {}

radio_irq(s, t) ==
    [t EXCEPT !.pending = @ \/ (t.int_en /\ Line(t) /\ ~Line(s))]

Init ==
    /\ d = [modem |-> "LORA", state |-> "STANDBY", exit |-> "CS_ONLY",
            mode |-> "standby", timer |-> FALSE, stop |-> FALSE, seen |-> "none",
            cad |-> "CS_ONLY", irq |-> {}, mask |-> irq_mask("LORA"), rf |-> "off",
            int_en |-> TRUE, pending |-> FALSE, failed |-> 0]
    /\ pc = "idle"
    /\ wish = "none"
    /\ open = "none"
    /\ turn = 0

-----------------------------------------------------------------------------
(***************************************************************************)
(* Calls as sets of outcomes: the state after them and whether they        *)
(* succeeded.  A sequence of calls stops at the first failure, as the      *)
(* do { ... break; ... } while (0) blocks of the driver do.                *)
(***************************************************************************)
Ok(s) == {[s |-> s, ok |-> TRUE]}
Failed(s) == {[s |-> s, ok |-> FALSE]}
Then(outcomes, Step(_)) ==
    UNION {IF o.ok THEN Step(o.s) ELSE {o} : o \in outcomes}

\* Mutant: the pin interrupt stays disabled after a sleep.
MutWakeup(s) == [s EXCEPT !.mode = "standby", !.seen = "none"]

\* sx126x_wakeup: the chip goes to standby and the interrupt pin is enabled.
sx126x_hal_wakeup(s) ==
    [s EXCEPT !.mode = "standby", !.seen = "none", !.int_en = TRUE]

\* Before every command: a driver that believes the chip asleep or in duty
\* cycle wakes it, and the RF switch goes to transmit.  A chip in duty cycle
\* is woken only in the sleeping half of its cycle.
sx126x_wait_for_device_ready(s) ==
    IF s.state \notin {"SLEEP", "RX_DC"} THEN {s}
    ELSE {[t EXCEPT !.rf = "tx"] :
             t \in {sx126x_hal_wakeup(s)} \cup
                   (IF s.mode = "sleep" THEN {} ELSE {[s EXCEPT !.int_en = TRUE]})}

\* A command over the bus: it arrives at a chip that is ready, or fails.
Bus(s, command) ==
    UNION {Ok(t) \cup
           (IF command \in Faults /\ t.failed < MaxFailures
            THEN Failed([t EXCEPT !.failed = @ + 1]) ELSE {}) :
              t \in sx126x_wait_for_device_ready(s)}

\* A command and what it changes.
Send(s, command, After(_)) == Then(Bus(s, command), LAMBDA t : Ok(After(t)))

set_dio_irq_params(s, mask) ==
    Send(s, "irq_params", LAMBDA t : radio_irq(t, [t EXCEPT !.mask = mask]))

radio_enable_irq(s) == set_dio_irq_params(s, irq_mask(s.modem))
radio_disable_irq(s) == set_dio_irq_params(s, {})
radio_clear_irq_status_all(s) ==
    Send(s, "clear_irq", LAMBDA t : [t EXCEPT !.irq = {}])

\* The chip takes up mode m, with or without a timeout.
Enter(t, m, timed) == [t EXCEPT !.mode = m, !.timer = timed, !.seen = "none"]

sx126x_set_standby(s) ==
    Send(s, "set_standby", LAMBDA t : Enter(t, "standby", FALSE))

radio_sx126x_set_radio_mode(s, path) == Ok([s EXCEPT !.rf = path])

\* Trim capacitors are written in standby; a TCXO needs none.
set_trim_cap_val_to_radio(s) ==
    IF Tcxo THEN Ok(s)
    ELSE sx126x_set_standby(IF s.state \in {"SLEEP", "UNKNOWN"}
                            THEN sx126x_hal_wakeup(s) ELSE s)

\* The four steps all radio operations share: trim, RF switch, clearing the
\* interrupts and the command, then the driver's own state.
Started(s, path, command, mode, timed, state) ==
    Then(Then(Then(set_trim_cap_val_to_radio(s),
         LAMBDA t : radio_sx126x_set_radio_mode(t, path)),
         LAMBDA t : radio_clear_irq_status_all(t)),
         LAMBDA t : Send(t, command, LAMBDA u : [Enter(u, mode, timed) EXCEPT !.state = state]))

StopTimerOnPreamble(s, on) ==
    Send(s, "stop_timer", LAMBDA t : [t EXCEPT !.stop = on])

-----------------------------------------------------------------------------
(***************************************************************************)
(* The operations of the driver, as outcomes.                              *)
(***************************************************************************)
sid_pal_radio_set_modem_mode(s, m) ==
    Then(Send(s, "pkt_type", LAMBDA t : [t EXCEPT !.modem = m]),
         LAMBDA t : radio_enable_irq(t))

sid_pal_radio_sleep(s) ==
    IF s.state = "SLEEP" THEN Ok(s)
    ELSE Then(Then(radio_clear_irq_status_all(s),
              LAMBDA t : radio_sx126x_set_radio_mode(t, "off")),
              LAMBDA t : Send(t, "set_sleep", LAMBDA u :
                   [Enter(u, "sleep", FALSE) EXCEPT !.int_en = FALSE, !.state = "SLEEP"]))

\* Mutant: the standby command is left out from every state.
MutStandby(s) ==
    Then(Then(radio_clear_irq_status_all(IF s.state \in {"SLEEP", "UNKNOWN"}
                                         THEN sx126x_hal_wakeup(s) ELSE s),
         LAMBDA t : radio_sx126x_set_radio_mode(t, "off")),
         LAMBDA t : Ok([t EXCEPT !.state = "STANDBY"]))

\* Out of sleep the driver's state is standby at once, so that the commands
\* that follow do not wake the chip again, and no command is needed.
sid_pal_radio_standby(s) ==
    LET awake == CASE s.state = "SLEEP" -> [sx126x_hal_wakeup(s) EXCEPT !.state = "STANDBY"]
                   [] s.state = "UNKNOWN" -> sx126x_hal_wakeup(s)
                   [] OTHER -> s
    IN  IF s.state = "STANDBY" THEN Ok(s)
        ELSE Then(Then(Then(radio_clear_irq_status_all(awake),
                  LAMBDA t : radio_sx126x_set_radio_mode(t, "off")),
                  LAMBDA t : IF t.state = "STANDBY" THEN Ok(t) ELSE sx126x_set_standby(t)),
                  LAMBDA t : Ok([t EXCEPT !.state = "STANDBY"]))

\* Mutant: the RF switch is left on the receive path.
MutStartTx(s, timed) ==
    Started(s, "rx", "set_tx", "tx", timed, "TX")

sid_pal_radio_start_tx(s, timed) ==
    Started(s, "tx", "set_tx", "tx", timed, "TX")

\* set_frequency and set_tx_power refuse to work outside of standby.
sid_pal_radio_set_tx_continuous(s) ==
    IF s.state # "STANDBY" THEN Failed(s)
    ELSE Started(s, "tx", "set_tx_continuous", "cw", FALSE, "TX")

Receive(s, mode, timed) ==
    Then(StopTimerOnPreamble(s, s.modem = "FSK"),
         LAMBDA t : Started(t, "rx", "set_rx", mode, timed, "RX"))

sid_pal_radio_start_rx(s) == Receive(s, "rx", TRUE)
sid_pal_radio_start_continuous_rx(s) == Receive(s, "rxc", FALSE)

sid_pal_radio_set_rx_duty_cycle(s) ==
    Started(s, "rx", "set_duty_cycle", "dc", FALSE, "RX_DC")

sid_pal_radio_set_lora_cad_params(s, exit) ==
    Send([s EXCEPT !.exit = exit], "cad_params", LAMBDA t : [t EXCEPT !.cad = exit])

sid_pal_radio_lora_start_cad(s) ==
    Started(s, "rx", "set_cad", "cad", FALSE, "CAD")

\* FSK only.  The chip reports a preamble or the end of the time and nothing
\* else; the next bottom half restores the mask.
sid_pal_radio_start_carrier_sense(s, exit) ==
    IF s.modem # "FSK" THEN Failed(s)
    ELSE Then(Then(Then(Then(Then(StopTimerOnPreamble(s, TRUE),
              LAMBDA t : set_trim_cap_val_to_radio(t)),
              LAMBDA t : radio_sx126x_set_radio_mode(t, "rx")),
              LAMBDA t : radio_clear_irq_status_all(t)),
              LAMBDA t : set_dio_irq_params(t, sense_mask)),
              LAMBDA t : Send(t, "sense_rx", LAMBDA u :
                   [Enter(u, "rx", TRUE) EXCEPT !.state = "RX", !.exit = exit]))

\* Both measurements are an interrupt-less reception, ended by
\* the common tail whatever its outcome.
sid_pal_radio_is_channel_free(s) ==
    LET tail(t) == Then(radio_enable_irq(t), LAMBDA u : sid_pal_radio_standby(u))
    IN  IF s.state # "STANDBY" THEN Failed(s)
        ELSE Then(radio_disable_irq(s),
                  LAMBDA t : UNION {tail(o.s) : o \in sid_pal_radio_start_continuous_rx(t)})

sid_pal_radio_get_chan_noise(s) == sid_pal_radio_is_channel_free(s)

\* The chip draws numbers in reception and is left in standby, whatever the
\* driver's state.
sid_pal_radio_random(s) ==
    LET drawn(t) == Then(Send(t, "set_rx", LAMBDA u : Enter(u, "rxc", FALSE)),
                         LAMBDA u : sx126x_set_standby(u))
    IN  Then(radio_disable_irq(s),
             LAMBDA t : UNION {radio_enable_irq(o.s) : o \in drawn(t)})

\* The chip is reset; cad_exit_mode and a scheduled bottom half survive.
sid_pal_radio_init(s) ==
    LET reset == [Enter(s, "standby", FALSE) EXCEPT
                     !.modem = "LORA", !.state = "UNKNOWN", !.stop = FALSE, !.cad = "CS_ONLY",
                     !.irq = {}, !.mask = {}, !.rf = "off", !.int_en = TRUE]
    IN  Then(Then(sid_pal_radio_standby(reset),
             LAMBDA t : Send(t, "configure", LAMBDA u : u)),
             LAMBDA t : radio_enable_irq(t))

-----------------------------------------------------------------------------
(***************************************************************************)
(* The protocol's calls.  As sid_pal_radio_ifc.h asks, it wakes the radio  *)
(* with standby before it uses or configures it.  Free is the rest of its  *)
(* discipline: it lets a carrier sense run to its end and initialises the  *)
(* radio again when an initialisation failed.                              *)
(***************************************************************************)
Awake == d.state \notin {"SLEEP", "RX_DC"}
Free == /\ open # "failed"
        /\ "abandon" \in Caller \/ open \notin {"armed", "lbt", "sense"}

Quiet == pc = "idle" /\ ~d.pending

Call(outcomes, asked, awaited) ==
    \E o \in outcomes :
        /\ d' = o.s
        /\ wish' = IF o.ok THEN asked ELSE wish
        /\ open' = IF o.ok THEN awaited ELSE "none"
        /\ turn' = 1 - turn
        /\ UNCHANGED pc

InitRadio == (Free \/ open = "failed") /\ pc = "idle" /\
    \E o \in sid_pal_radio_init(d) :
        /\ d' = o.s
        /\ wish' = "none"
        /\ open' = IF o.ok THEN "none" ELSE "failed"
        /\ turn' = 1 - turn
        /\ UNCHANGED pc

SetModem == Free /\ d.state = "STANDBY" /\ \E m \in {"LORA", "FSK"} :
    Call(sid_pal_radio_set_modem_mode(d, m), wish, "none")

Sleep == /\ Free
         /\ "sleep_early" \in Caller \/ Quiet
         /\ Call(sid_pal_radio_sleep(d), "none", "none")

Standby == Free /\ Call(sid_pal_radio_standby(d), "none", "none")

StartTx == Free /\ Awake /\ \E timed \in BOOLEAN :
    Call(sid_pal_radio_start_tx(d, timed), "tx", "tx")

StartContinuousTx == Free /\ Awake /\ Call(sid_pal_radio_set_tx_continuous(d), "tx", "none")

StartRx == Free /\ Awake /\
    Call(sid_pal_radio_start_rx(d), "none", IF d.modem = "LORA" THEN "lora_rx" ELSE "fsk_rx")

StartContinuousRx == Free /\ Awake /\ Call(sid_pal_radio_start_continuous_rx(d), "none", "none")

StartDutyCycle == Free /\ Awake /\ Call(sid_pal_radio_set_rx_duty_cycle(d), "none", "none")

SetCadParams ==
    Free /\ d.state = "STANDBY" /\ d.modem = "LORA" /\ \E exit \in {"CS_ONLY", "CS_RX", "CS_LBT"} :
    \E o \in sid_pal_radio_set_lora_cad_params(d, exit) :
        /\ d' = o.s
        /\ open' = IF exit = "CS_LBT" THEN "armed" ELSE "none"
        /\ turn' = 1 - turn
        /\ UNCHANGED <<pc, wish>>

StartCad == (Free \/ open = "armed") /\ Awake /\ d.modem = "LORA" /\
    \E o \in sid_pal_radio_lora_start_cad(d) :
        /\ d' = o.s
        /\ IF open = "armed"
           THEN /\ wish' = IF o.ok THEN "lbt" ELSE wish
                /\ open' = IF o.ok THEN "lbt" ELSE "armed"
           ELSE /\ wish' = IF o.ok THEN "none" ELSE wish
                /\ open' = IF o.ok THEN "cad" ELSE "none"
        /\ turn' = 1 - turn
        /\ UNCHANGED pc

StartCarrierSense == Free /\ Awake /\ ("sense_early" \in Caller \/ Quiet) /\
    \E exit \in {"CS_ONLY", "CS_RX", "CS_LBT"} :
        Call(sid_pal_radio_start_carrier_sense(d, exit),
             IF exit = "CS_LBT" THEN "lbt" ELSE "none",
             IF exit = "CS_LBT" THEN "lbt" ELSE "sense")

Measure == Free /\ Awake /\
    Call(sid_pal_radio_is_channel_free(d) \cup sid_pal_radio_get_chan_noise(d), "none", "none")

Random == Free /\ d.state = "STANDBY" /\ Call(sid_pal_radio_random(d), "none", "none")

-----------------------------------------------------------------------------
(***************************************************************************)
(* The bottom half.  The causes are looked at in a fixed order and the     *)
(* first one decides; the others read with it are dropped.                 *)
(***************************************************************************)
Order(modem) ==
    IF modem = "LORA"
    THEN <<"TX_DONE", "CRC_ERROR", "TIMEOUT", "HEADER_ERROR", "SYNC_WORD", "CAD_DONE", "RX_DONE">>
    ELSE <<"TX_DONE", "CRC_ERROR", "TIMEOUT", "HEADER_ERROR", "SYNC_WORD", "PREAMBLE", "RX_DONE">>

Cause(modem, status) ==
    LET found == {i \in 1..7 : Order(modem)[i] \in status}
    IN  IF found = {} THEN "none"
        ELSE Order(modem)[CHOOSE i \in found : \A j \in found : i <= j]

\* Mutant: the exit mode is not reset.
MutTalkAfterListen(s) ==
    {[s |-> o.s, event |-> "none"] : o \in sid_pal_radio_start_tx(s, FALSE)}

\* After a listen-before-talk found nothing: transmit, with no event.
TalkAfterListen(s) ==
    {[s |-> [o.s EXCEPT !.exit = "NONE"], event |-> "none"] : o \in sid_pal_radio_start_tx(s, FALSE)}

\* Reading a packet.  An error of the bus is not reported.
radio_lora_process_rx_done(s) ==
    {[s |-> o.s, event |-> IF o.ok THEN "RX_DONE" ELSE "none"] : o \in Bus(s, "read_packet")}

\* A bad packet is an RX_ERROR, but one whose length does not leave room for
\* its check sum is an I/O error.
radio_fsk_process_rx_done(s) ==
    {[s |-> o.s, event |-> e] :
        o \in Bus(s, "read_packet"), e \in {"RX_DONE", "RX_ERROR", "none"}}

\* The effect of the first cause: the state after it and the event to report.
Handled(s, status) ==
    LET cause == Cause(s.modem, status)
        event(e) == {[s |-> s, event |-> e]}
    IN  CASE cause = "TIMEOUT" ->
                (IF s.state = "TX" THEN event("TX_TIMEOUT")
                 ELSE IF s.exit = "CS_LBT" THEN TalkAfterListen(s) ELSE event("RX_TIMEOUT"))
          [] cause = "CAD_DONE" ->
                (IF "CAD_DET" \in status
                 THEN {[s |-> [s EXCEPT !.exit = "NONE"], event |-> "CAD_DONE"]}
                 ELSE IF s.exit = "CS_LBT" THEN TalkAfterListen(s)
                 ELSE {[s |-> [s EXCEPT !.exit = "NONE"], event |-> "CAD_TIMEOUT"]})
          [] cause = "PREAMBLE" ->
                (IF s.exit = "CS_LBT"
                 THEN {[s |-> o.s, event |-> "CS_DONE"] :
                          o \in sid_pal_radio_standby([s EXCEPT !.exit = "NONE"])}
                 ELSE event("none"))
          [] cause = "RX_DONE" ->
                (IF s.modem = "LORA" THEN radio_lora_process_rx_done(s)
                 ELSE radio_fsk_process_rx_done(s))
          [] cause \in {"SYNC_WORD", "none"} -> event("none")
          [] cause \in {"CRC_ERROR"} -> event("RX_ERROR")
          [] OTHER -> event(cause)

\* Masking the interrupts, reading and clearing them, and handling the first
\* cause.  If they cannot be read nothing is done.
ReadAndHandle(s) ==
    UNION {IF ~o.ok THEN {[s |-> o.s, event |-> "none"]}
           ELSE UNION {IF ~r.ok THEN {[s |-> r.s, event |-> "none"]}
                       ELSE Handled(r.s, o.s.irq) :
                          r \in Send(o.s, "get_irq", LAMBDA t : [t EXCEPT !.irq = {}])} :
              o \in radio_disable_irq([s EXCEPT !.pending = FALSE])}

\* Mutant: the interrupts stay masked after a report of a transmitter.
MutUnmask(s) == IF s.state \in {"SLEEP", "TX"} THEN Ok(s) ELSE radio_enable_irq(s)

\* The interrupts are unmasked unless the radio has been put to sleep.
UnmaskUnlessAsleep(s) == IF s.state = "SLEEP" THEN Ok(s) ELSE radio_enable_irq(s)

sid_pal_radio_irq_process ==
    /\ pc = "idle" /\ d.pending
    /\ \E h \in ReadAndHandle(d) :
        /\ IF h.event # "none"
           THEN d' = h.s /\ pc' = "report"
           ELSE /\ \E o \in UnmaskUnlessAsleep(h.s) : d' = o.s
                /\ UNCHANGED pc
        /\ open' = IF h.event # "none" \/ (open = "sense" /\ d.irq # {}) THEN "none"
                   ELSE IF open = "lbt" /\ h.s.state = "TX" THEN "tx"
                   ELSE IF open = "lora_rx" /\ h.s.failed > d.failed THEN "unread" ELSE open
        /\ UNCHANGED <<wish, turn>>

ReportReturns ==
    /\ pc = "report"
    /\ \E o \in UnmaskUnlessAsleep(d) : d' = o.s
    /\ pc' = "idle"
    /\ UNCHANGED <<wish, open, turn>>

-----------------------------------------------------------------------------
(***************************************************************************)
(* The chip.  A masked cause is not latched.                               *)
(***************************************************************************)
Raise(causes, mode, seen) ==
    /\ pc = "idle"
    /\ d' = radio_irq(d, [d EXCEPT !.irq = @ \cup (causes \cap d.mask),
                                   !.mode = mode, !.seen = seen])
    /\ UNCHANGED <<pc, open, turn>>

ChipSent == d.mode = "tx" /\ Raise({"TX_DONE"}, "standby", "none") /\ UNCHANGED wish

\* The timer of a reception stops at the first preamble if it was told to.
ChipTimeout ==
    /\ d.mode \in {"tx", "rx"} /\ d.timer
    /\ ~(d.stop /\ d.seen # "none")
    /\ Raise({"TIMEOUT"}, "standby", "none")
    /\ UNCHANGED wish

Heard == wish' = IF wish = "lbt" THEN "heard" ELSE wish

Receiving == d.mode \in {"rx", "rxc", "dc"}

ChipPreamble == Receiving /\ d.seen = "none" /\ Raise({"PREAMBLE"}, d.mode, "preamble") /\ Heard

ChipSync ==
    /\ Receiving /\ d.seen = "preamble"
    /\ Raise(IF d.modem = "LORA" THEN {"SYNC_WORD", "HEADER"} ELSE {"SYNC_WORD"}, d.mode, "sync")
    /\ UNCHANGED wish

\* The end of a packet, good or bad; continuous reception goes on.
ChipReceived ==
    /\ Receiving /\ d.seen = "sync"
    /\ \E causes \in {{"RX_DONE"}} \cup
                     (IF d.modem = "LORA" THEN {{"RX_DONE", "CRC_ERROR"}, {"HEADER_ERROR"}} ELSE {}) :
          Raise(causes, IF d.mode = "rxc" THEN "rxc" ELSE "standby", "none")
    /\ UNCHANGED wish

\* The end of a channel activity detection.  A chip that found activity
\* receives or stops, as its own exit mode says.
ChipCad ==
    /\ d.mode = "cad"
    /\ \/ Raise({"CAD_DONE"}, "standby", "none") /\ UNCHANGED wish
       \/ /\ Raise({"CAD_DONE", "CAD_DET"}, IF d.cad = "CS_RX" THEN "rx" ELSE "standby", "none")
          /\ Heard

Chip == ChipSent \/ ChipTimeout \/ ChipPreamble \/ ChipSync \/ ChipReceived \/ ChipCad

Protocol ==
    \/ InitRadio \/ SetModem \/ Sleep \/ Standby \/ StartTx \/ StartContinuousTx \/ StartRx
    \/ StartContinuousRx \/ StartDutyCycle
    \/ SetCadParams \/ StartCad \/ StartCarrierSense \/ Measure \/ Random

Next == Protocol \/ sid_pal_radio_irq_process \/ ReportReturns \/ Chip

Spec == Init /\ [][Next]_vars

\* The chip ends what it started, the protocol runs a scheduled bottom half
\* and returns from a report.  Nothing is assumed of the protocol's calls.
FairSpec == Spec /\ WF_vars(Chip) /\ WF_vars(sid_pal_radio_irq_process) /\ WF_vars(ReportReturns)

-----------------------------------------------------------------------------
\* The driver's context and the chip's registers; the mask is always one the
\* driver means to set.
Modems == {"LORA", "FSK"}
ExitModes == {"CS_ONLY", "CS_RX", "CS_LBT"}
States == {"UNKNOWN", "STANDBY", "SLEEP", "RX", "TX", "CAD", "RX_DC"}
Modes == {"standby", "sleep", "rx", "rxc", "dc", "cad", "tx", "cw"}
Masks == {{}, sense_mask, irq_mask("LORA"), irq_mask("FSK")}
Drivers ==
    [modem : Modems,
     state : States,
     exit : ExitModes \cup {"NONE"}, cad : ExitModes,
     mode : Modes,
     irq : SUBSET RADIO_IRQ_ALL,
     mask : Masks,
     rf : {"off", "rx", "tx"}, seen : {"none", "preamble", "sync"},
     timer : BOOLEAN, stop : BOOLEAN, int_en : BOOLEAN, pending : BOOLEAN,
     failed : Nat]

\* The types of the variables.
TypeOK ==
    /\ d \in Drivers
    /\ pc \in {"idle", "report"}
    /\ wish \in {"none", "tx", "lbt", "heard"}
    /\ open \in {"none", "failed", "armed", "lbt", "sense", "cad", "tx", "lora_rx", "fsk_rx",
                "unread"}
    /\ turn \in {0, 1}

\* The radio transmits only when the protocol asked for it: by a transmission,
\* or by a listen-before-talk in which no carrier was heard.  The driver itself
\* starts the transmission that follows a listen-before-talk, from whatever
\* timeout or detection finds the exit mode set.
TxOnlyWhenAsked == d.mode \in {"tx", "cw"} => wish \in {"tx", "lbt"}

\* radio_state, on which the driver's early returns, its wake-ups and its
\* STANDBY checks rest, agrees with the chip: asleep exactly when it says so,
\* idle when it says standby, transmitting only when it says so.
DriverTracksChip ==
    /\ d.mode = "sleep" <=> d.state = "SLEEP"
    /\ d.state = "STANDBY" => d.mode = "standby"
    /\ d.mode \in {"tx", "cw"} => d.state = "TX"

\* The RF switch is on the path the chip uses, also in the transmission that
\* the bottom half starts and after the wake-ups that turn it to transmit.
PathMatchesChip ==
    /\ d.mode \in {"tx", "cw"} => d.rf = "tx"
    /\ d.mode \in {"rx", "rxc", "cad"} => d.rf = "rx"

\* Both: what the driver knows of the chip, and the switch it set for it, are
\* true between any two of its steps, through wake-ups and failed commands.
ChipTracked == DriverTracksChip /\ PathMatchesChip

\* The pin interrupt is by edge: a line that is high with no bottom half due
\* or running would stay high, and no later cause would be noticed.
NoInterruptLost == pc = "idle" /\ Line(d) => d.pending

Reported(operations) ==
    \A k \in operations, t \in {0, 1} :
        open = k /\ turn = t ~> open # k \/ turn # t

\* A transmission, a channel activity detection, a timed LoRa reception and a
\* listen-before-talk that the protocol leaves alone end in a report; excepted
\* is a LoRa packet whose reading fails on the bus (unread).
OperationsReported == Reported({"tx", "cad", "lora_rx", "lbt"})

\* So does a timed FSK reception, as sid_pal_radio_ifc.h has it of
\* sid_pal_radio_irq_process.
RxReported == Reported({"fsk_rx"})

-----------------------------------------------------------------------------
(***************************************************************************)
(* The inductive invariants behind the three safety properties.            *)
(***************************************************************************)
\* A latched cause that is unmasked has a bottom half scheduled, also while
\* one reports, and the pin interrupt is off only in a sleep with nothing
\* latched.
Served(s) ==
    /\ Line(s) => s.pending
    /\ ~s.int_en => s.state = "SLEEP" /\ s.mode = "sleep" /\ s.irq = {}

ServedInv == TypeOK /\ Served(d)

\* ChipTracked of a context, and that a chip in duty cycle does nothing else.
Tracked(s) ==
    /\ s.mode = "sleep" <=> s.state = "SLEEP"
    /\ s.state = "STANDBY" => s.mode = "standby"
    /\ s.mode \in {"tx", "cw"} => s.state = "TX"
    /\ s.state = "RX_DC" => s.mode \in {"dc", "standby"}
    /\ s.mode \in {"tx", "cw"} => s.rf = "tx"
    /\ s.mode \in {"rx", "rxc", "cad"} => s.rf = "rx"

\* The radio is never put to sleep under a bottom half.
TrackedInv ==
    /\ TypeOK
    /\ Tracked(d)
    /\ d.state = "SLEEP" => pc = "idle" /\ ~d.pending

\* In standby and in sleep the chip does nothing and nothing is latched.
Still(s) ==
    /\ s.state = "STANDBY" => s.mode = "standby" /\ s.irq = {}
    /\ s.state = "SLEEP" => s.mode \in {"sleep", "standby"} /\ s.irq = {}

\* A detection before a transmission: if it found activity, what is latched
\* of it says so.
Detecting(s) ==
    /\ s.state = "CAD" /\ s.cad # "CS_RX" /\ s.mode \in {"cad", "standby"}
    /\ s.irq \subseteq {"CAD_DONE", "CAD_DET"}
    /\ s.mode = "cad" => s.irq = {} /\ wish = "lbt"
    /\ wish = "heard" => s.irq # {"CAD_DONE"}

\* A carrier sense before a transmission: running, ended by its time with
\* nothing heard, or ended by a preamble, which stops its time.
Sensing(s) ==
    /\ pc = "idle" /\ s.state = "RX" /\ s.mask = sense_mask /\ s.stop /\ s.modem = "FSK"
    /\ \/ s.irq = {} /\ ~s.pending /\ s.mode = "rx" /\ s.seen = "none" /\ wish = "lbt"
       \/ s.irq = {"TIMEOUT"} /\ s.mode = "standby" /\ wish = "lbt"
       \/ /\ s.irq = {"PREAMBLE"} /\ s.mode \in {"rx", "standby"}
          /\ s.mode = "rx" => s.seen # "none"

\* The exit mode that has the driver transmit is set only before or during
\* a listen-before-talk.
Listening(s) ==
    /\ s.exit = "CS_LBT" =>
          \/ open = "armed" /\ s.state = "STANDBY"
          \/ open = "lbt" /\ wish \in {"lbt", "heard"} /\ (Detecting(s) \/ Sensing(s))
    /\ open = "armed" => s.state = "STANDBY" /\ s.exit = "CS_LBT" /\ s.cad = "CS_LBT"

AskedInv == TypeOK /\ Still(d) /\ Listening(d) /\ TxOnlyWhenAsked
=============================================================================
