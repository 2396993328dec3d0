----------------------------- MODULE Lr11xxRadio -----------------------------
(***************************************************************************)
(* The LR11xx radio driver, subsys/semtech/lr11xx/lr11xx_radio.c, as far   *)
(* as the radio is shared: the Sidewalk protocol uses the chip for packets *)
(* and the location services use it for WiFi and GNSS scans.               *)
(*                                                                         *)
(* Location takes the radio with sid_pal_radio_hold_scan and returns it    *)
(* with sid_pal_radio_release_scan.  In between (radio_state SCAN) the     *)
(* driver keeps the protocol's commands from the chip: settings report     *)
(* success and do nothing, starts of a reception or a transmission arm a   *)
(* software timer that simulates its end, other starts report BUSY.        *)
(*                                                                         *)
(* Actors.  The protocol's calls and the bottom half                       *)
(* sid_pal_radio_irq_process run in the protocol's software interrupt; the *)
(* location engine runs in a thread and is preempted by them between any   *)
(* two of its steps, never the other way round.  The chip, its interrupt   *)
(* and the software timer come at any time.  Bus errors, which             *)
(* Sx126xRadio explores for the same code, are left out here, but for the  *)
(* reading of a packet.                                                    *)
(***************************************************************************)
EXTENDS Naturals

VARIABLES
    d,     \* the driver's context drv_ctx, lr_timer and the chip
    bh,    \* the bottom half: "idle", or its radio_event while it runs
    loc,   \* the location engine: "idle", "asking", or holding the radio
    op,    \* the operation whose end the protocol waits for (history)
    lost,  \* that end will not be reported: see Lost below (history)
    deaf   \* "asleep" or "refused": since init, set_modem_mode or a release a bottom half
           \* on a sleeping radio or a refused measurement has left the chip masked (history)

lr_vars == <<d, bh, loc, op, lost, deaf>>

States == {"SLEEP", "STANDBY", "BUSY", "TX", "RX", "RX_DC", "CAD", "SCAN"}

\* "heard": a reception whose preamble has stopped its time. A detection may go on with a
\* reception or a transmission.
Modes == {"sleep", "standby", "tx", "rx", "heard", "continuous", "duty", "cad", "cad_rx",
          "cad_tx", "wave", "scan"}

Modems == {"LORA", "FSK"}

Causes == {"TX_DONE", "RX_DONE", "CRC_ERROR", "TIMEOUT", "HEADER_ERROR", "CAD_DONE",
           "CAD_DETECTED", "SYNC_WORD", "PREAMBLE", "SCAN_DONE"}

\* The chip's interrupt mask: irq_mask of the modem, all of a carrier sense, the engine's.
Masks == {"NONE", "DEFAULT", "ALL", "SCAN"}

\* A detection that goes on with a reception is an operation of its own.
Ops == {"tx", "rx", "cad", "cad_rx", "sense"}

\* What the location engine does between hold and the end of release.
Holding == {"held", "restoring", "restored"}

\* drv_ctx and lr_timer (up to deferred), the interrupt, the chip (from mode on). Of the
\* exit modes the driver only asks whether it is CS_LBT; NONE stands for all others.
Drivers ==
    [state : States, modem : Modems, exit : {"NONE", "CS_LBT"},
     sim : {"OFF", "RX", "TX"}, armed : BOOLEAN, deferred : BOOLEAN,
     due : BOOLEAN, pin : BOOLEAN,
     mode : Modes, packets : Modems \cup {"none", "scan"}, mask : Masks,
     causes : SUBSET Causes]

LrTypeOK ==
    /\ d \in Drivers
    /\ bh \in {"idle", "UNKNOWN", "RX_TIMEOUT", "TX_DONE"}
    /\ loc \in {"idle", "asking"} \cup Holding
    /\ op \in Ops \cup {"none"}
    /\ lost \in BOOLEAN
    /\ deaf \in {"no", "asleep", "refused"}

\* After sid_pal_radio_init: LoRa, standby, interrupts enabled; the chip has no packet type.
LrInit ==
    /\ d = [state |-> "STANDBY", modem |-> "LORA", exit |-> "NONE",
            sim |-> "OFF", armed |-> FALSE, deferred |-> FALSE,
            due |-> FALSE, pin |-> TRUE,
            mode |-> "standby", packets |-> "none", mask |-> "DEFAULT", causes |-> {}]
    /\ bh = "idle"
    /\ loc = "idle"
    /\ op = "none"
    /\ lost = FALSE
    /\ deaf = "no"

-----------------------------------------------------------------------------
(***************************************************************************)
(* The interrupt line int1, and radio_irq on its rising edge: in a scan it *)
(* calls the location engine, otherwise the protocol's handler, which asks *)
(* for the bottom half.                                                    *)
(***************************************************************************)
Enabled(s) ==
    CASE s.mask = "NONE" -> {}
      [] s.mask = "SCAN" -> {"SCAN_DONE"}
      [] s.mask = "ALL"  -> Causes
      [] OTHER -> Causes \ (IF s.modem = "LORA" THEN {"PREAMBLE", "SYNC_WORD"} ELSE {"PREAMBLE"})

Line(s) == s.causes \cap Enabled(s) # {}

radio_irq(before, after) ==
    IF ~Line(before) /\ Line(after) /\ after.pin /\ after.state # "SCAN"
        THEN [after EXCEPT !.due = TRUE]
        ELSE after

\* Nothing is cleared while the line is low.
radio_clear_irq_status_all(s) ==
    IF s.state # "SCAN" /\ Line(s) THEN [s EXCEPT !.causes = {}] ELSE s

\* The HAL wakes a sleeping chip before any command.
lr11xx_hal_wakeup(s) == IF s.mode = "sleep" THEN [s EXCEPT !.mode = "standby"] ELSE s

radio_disable_irq(s) == [lr11xx_hal_wakeup(s) EXCEPT !.mask = "NONE"]

radio_enable_irq(s) == radio_irq(s, [s EXCEPT !.mask = "DEFAULT"])

\* Mutant: what the timer simulates is not recorded.
Mutstart_timeout_sim(s, kind) == IF s.armed THEN s ELSE [s EXCEPT !.armed = TRUE]

\* sid_pal_timer_arm refuses a timer that is armed; the kind is then not set.
start_timeout_sim(s, kind) ==
    IF s.armed THEN s ELSE [s EXCEPT !.armed = TRUE, !.sim = kind]

\* Mutant: a transmission goes to the chip during a scan as well.
Mutstart_tx(s) == [radio_clear_irq_status_all(s) EXCEPT !.mode = "tx", !.state = "TX"]

start_tx(s) ==
    IF s.state = "SCAN"
        THEN start_timeout_sim(s, "TX")
        ELSE [radio_clear_irq_status_all(s) EXCEPT !.mode = "tx", !.state = "TX"]

start_rx(s) ==
    IF s.state = "SCAN"
        THEN IF s.armed THEN [s EXCEPT !.deferred = TRUE] ELSE start_timeout_sim(s, "RX")
        ELSE [radio_clear_irq_status_all(s) EXCEPT !.mode = "rx", !.state = "RX"]

\* A wake-up clears the causes of the low battery detector and allows the pin's interrupt.
standby(s) ==
    LET woken == IF s.state = "SLEEP"
                     THEN [lr11xx_hal_wakeup(s) EXCEPT !.causes = {}, !.pin = TRUE]
                     ELSE s
    IN  IF s.state \in {"SCAN", "STANDBY"}
            THEN s
            ELSE [radio_clear_irq_status_all(woken)
                     EXCEPT !.mode = "standby", !.state = "STANDBY"]

sleep(s) ==
    IF s.state \in {"SCAN", "SLEEP"}
        THEN s
        ELSE [radio_clear_irq_status_all(s)
                 EXCEPT !.pin = FALSE, !.mode = "sleep", !.state = "SLEEP"]

start_continuous_rx(s) ==
    [radio_clear_irq_status_all(s) EXCEPT !.mode = "continuous", !.state = "RX"]

\* Both measurements give up with the chip masked when sid_pal_radio_set_frequency refuses:
\* a frequency outside of the bands, or a driver that is not in standby.
get_chan_noise(s) ==
    LET off == radio_disable_irq(s)
    IN  {off} \cup (IF off.state = "STANDBY"
                       THEN {standby(radio_enable_irq(start_continuous_rx(off)))} ELSE {})

is_channel_free(s) ==
    LET off == standby(radio_disable_irq(s))
    IN  {off, radio_enable_irq(standby(start_continuous_rx(off)))}

-----------------------------------------------------------------------------
(***************************************************************************)
(* Calls of the protocol.  It configures and starts the radio when it does *)
(* not wait for an operation and has not put it to sleep, and starts it    *)
(* with a modem set, which it sets again after a refused measurement (on   *)
(* the chip left masked no operation would be reported); it ends a         *)
(* reception, or a carrier sense that is not to be followed by a           *)
(* transmission, early if it likes; it calls from a report, too, but does  *)
(* not sleep while a bottom half is due or reports (see Sx126xRadio).      *)
(***************************************************************************)
MayCall == bh # "UNKNOWN"

MaySet == MayCall /\ op = "none" /\ d.state # "SLEEP"

MayStart ==
    /\ MaySet
    /\ d.packets # "none"
    /\ d.mask = "NONE" /\ deaf = "refused" => d.state = "SCAN"

Begin(o, s) ==
    /\ d' = s
    /\ op' = o
    /\ lost' = ((s.mask = "NONE" \/ ~s.pin) /\ s.state # "SCAN")
    /\ UNCHANGED <<bh, loc, deaf>>

Call(s) ==
    /\ d' = s
    /\ UNCHANGED <<bh, loc, op, lost, deaf>>

\* A call that writes the chip's interrupt mask.
Sets(s, left) ==
    /\ d' = s
    /\ deaf' = left
    /\ UNCHANGED <<bh, loc, op, lost>>

\* The chip is reset; exit mode, simulated end and a bottom half that is due survive. Not in
\* a scan, which init would abort under the engine, nor with lr_timer armed, which it would
\* initialise while it is linked.
sid_pal_radio_init ==
    /\ MayCall /\ bh = "idle" /\ op = "none"
    /\ d.state # "SCAN" /\ ~d.armed
    /\ Sets([d EXCEPT !.state = "STANDBY", !.modem = "LORA", !.deferred = FALSE, !.pin = TRUE,
                      !.mode = "standby", !.packets = "none", !.mask = "DEFAULT",
                      !.causes = {}], "no")

\* In a scan the mode is not changed and the call reports success.
sid_pal_radio_set_modem_mode(m) ==
    /\ MaySet
    /\ IF d.state = "SCAN" THEN Call(d)
       ELSE Sets(radio_irq(d, [d EXCEPT !.packets = m, !.modem = m, !.mask = "DEFAULT"]), "no")

Masked(s) == IF s.mask = "NONE" THEN "refused" ELSE deaf

\* In a scan these three do nothing.
sid_pal_radio_get_chan_noise ==
    /\ MaySet
    /\ d.state # "SCAN"
    /\ \E s \in get_chan_noise(d) : Sets(s, Masked(s))

sid_pal_radio_is_channel_free ==
    /\ MaySet
    /\ d.state # "SCAN"
    /\ \E s \in is_channel_free(d) : Sets(s, Masked(s))

sid_pal_radio_random ==
    /\ MaySet
    /\ d.state # "SCAN"
    /\ Call(radio_enable_irq(radio_disable_irq(d)))

Abandon ==
    /\ MayCall
    /\ op \in {"none", "rx"} \/ (op = "sense" /\ d.exit = "NONE") \/ lost
    /\ op' = "none"
    /\ lost' = FALSE
    /\ UNCHANGED <<bh, loc, deaf>>

sid_pal_radio_standby == Abandon /\ d' = standby(d)

\* The protocol marks the radio as used by it.
sid_pal_set_radio_busy ==
    /\ MaySet
    /\ d.state = "STANDBY"
    /\ Call([d EXCEPT !.state = "BUSY"])

sid_pal_radio_sleep == Abandon /\ bh = "idle" /\ ~d.due /\ d' = sleep(d)

\* The report of BUSY, when the timer is armed in a scan, starts nothing.
sid_pal_radio_start_tx ==
    /\ MayStart
    /\ IF d.state = "SCAN" /\ d.armed THEN Call(d) ELSE Begin("tx", start_tx(d))

\* A reception refused in a scan is remembered and simulated later all the same.
sid_pal_radio_start_rx ==
    /\ MayStart
    /\ IF d.state = "SCAN" /\ d.armed THEN Call(start_rx(d)) ELSE Begin("rx", start_rx(d))

\* With every exit mode but NONE; the chip reports a preamble as well.
sid_pal_radio_start_carrier_sense(e) ==
    /\ MayStart
    /\ d.state # "SCAN"
    /\ d.modem = "FSK"
    /\ Begin("sense", radio_irq(d, [radio_clear_irq_status_all(d)
           EXCEPT !.mask = "ALL", !.mode = "rx", !.state = "RX", !.exit = e]))

\* The protocol sets the parameters before it starts: how the chip goes on, and whether the
\* driver transmits.
sid_pal_radio_set_lora_cad_params(s, mode) ==
    [s EXCEPT !.exit = IF mode = "cad_tx" THEN "CS_LBT" ELSE "NONE"]

sid_pal_radio_lora_start_cad(mode) ==
    /\ MayStart
    /\ d.state # "SCAN"
    /\ d.modem = "LORA"
    /\ Begin(IF mode = "cad_rx" THEN "cad_rx" ELSE "cad",
             [radio_clear_irq_status_all(sid_pal_radio_set_lora_cad_params(d, mode))
                  EXCEPT !.mode = mode, !.state = "CAD"])

\* Continuous and duty-cycled reception and the test carrier have no end of their own; the
\* carrier's frequency is refused outside of standby.
sid_pal_radio_start_continuous_rx ==
    MayStart /\ d.state # "SCAN" /\ Call(start_continuous_rx(d))

sid_pal_radio_set_rx_duty_cycle ==
    /\ MayStart
    /\ d.state # "SCAN"
    /\ Call([radio_clear_irq_status_all(d) EXCEPT !.mode = "duty", !.state = "RX_DC"])

sid_pal_radio_set_tx_continuous_wave ==
    /\ MayStart
    /\ d.state = "STANDBY"
    /\ Call([radio_clear_irq_status_all(d) EXCEPT !.mode = "wave", !.state = "TX"])

-----------------------------------------------------------------------------
(***************************************************************************)
(* The chip and the timer.  A masked cause is not latched.  An FSK         *)
(* preamble stops the time of a reception; whether a packet follows it is  *)
(* up to the air.  A channel activity detection makes the chip transmit    *)
(* (LBT) or receive by itself.                                             *)
(***************************************************************************)
Raise(causes, mode) ==
    /\ d' = radio_irq(d, [d EXCEPT !.causes = @ \cup (causes \cap Enabled(d)), !.mode = mode])
    /\ UNCHANGED <<bh, loc, op, lost, deaf>>

ChipEnds ==
    \/ d.mode = "tx" /\ Raise({"TX_DONE"}, "standby")
    \/ d.mode = "rx" /\ Raise({"TIMEOUT"}, "standby")
    \/ d.mode = "rx" /\ d.packets = "LORA"
       /\ \E c \in {{"RX_DONE"}, {"RX_DONE", "CRC_ERROR"}, {"HEADER_ERROR"}} : Raise(c, "standby")
    \/ d.mode \in {"cad", "cad_rx", "cad_tx"}
       /\ \/ Raise({"CAD_DONE", "CAD_DETECTED"}, IF d.mode = "cad_rx" THEN "rx" ELSE "standby")
          \/ Raise({"CAD_DONE"}, IF d.mode = "cad_tx" THEN "tx" ELSE "standby")

ChipHears ==
    \/ d.mode = "rx" /\ d.packets = "FSK" /\ Raise({"PREAMBLE"}, "heard")
    \/ d.mode = "heard" /\ Raise({"SYNC_WORD"}, "heard")
    \/ d.mode = "heard" /\ \E c \in {{"RX_DONE"}, {"RX_DONE", "CRC_ERROR"}} : Raise(c, "standby")
    \/ d.mode = "continuous" /\ \E c \in {"SYNC_WORD", "RX_DONE"} : Raise({c}, "continuous")
    \/ d.mode = "duty" /\ Raise({"RX_DONE"}, "standby")

lr_timer_cb ==
    /\ d.armed
    /\ d' = [d EXCEPT !.armed = FALSE, !.due = TRUE]
    /\ UNCHANGED <<bh, loc, op, lost, deaf>>

-----------------------------------------------------------------------------
(***************************************************************************)
(* The bottom half.  IrqSimulated is its first part, up to and with the    *)
(* report of a simulated end; outside of a scan it goes on with the chip,  *)
(* IrqChip, still holding the event it reported.                           *)
(***************************************************************************)
Ends(event) ==
    CASE event \in {"RX_TIMEOUT", "RX_DONE", "RX_ERROR"} -> {"rx", "sense", "cad_rx"}
      [] event = "TX_DONE"               -> {"tx", "cad", "sense"}
      [] event = "TX_TIMEOUT"            -> {"tx"}
      [] event \in {"CAD_DONE", "CAD_TIMEOUT"} -> {"cad", "cad_rx"}
      [] event = "CS_DONE"               -> {"sense"}
      [] OTHER                           -> {}

report_radio_event(event, unreportable) ==
    /\ op' = IF op \in Ends(event) THEN "none" ELSE op
    /\ lost' = (op' # "none" /\ (lost \/ unreportable))

\* What the first part makes of timeout_sim, and the event.
Simulated(s) ==
    LET off == [s EXCEPT !.sim = "OFF"]
        again == IF s.deferred THEN [start_timeout_sim(off, "RX") EXCEPT !.deferred = FALSE]
                               ELSE off
    IN  CASE s.sim = "OFF" -> [s |-> s, event |-> "UNKNOWN"]
          [] s.sim = "TX"  -> [s |-> off, event |-> "TX_DONE"]
          [] s.sim = "RX" /\ s.exit = "CS_LBT" ->
                 [s |-> start_tx([again EXCEPT !.exit = "NONE"]), event |-> "UNKNOWN"]
          [] OTHER -> [s |-> again, event |-> "RX_TIMEOUT"]

IrqSimulated ==
    LET r == Simulated([d EXCEPT !.due = FALSE])
    IN  /\ bh = "idle"
        /\ d.due
        /\ d' = r.s
        /\ bh' = IF r.s.state = "SCAN" THEN "idle" ELSE r.event
        /\ report_radio_event(r.event, d.sim = "RX" /\ d.exit = "CS_LBT" /\ op = "rx")
        /\ UNCHANGED <<loc, deaf>>

\* Reading a packet. One that is cut on the bus or, in FSK, too short for its check sum has
\* no event; one without its sync word, of an unknown kind or with a wrong sum is an error.
radio_lora_process_rx_done(event) == {"RX_DONE", event}

radio_fsk_process_rx_done(event) == {"RX_DONE", "RX_ERROR", event}

\* The end of a scan, found after the release.
ScanDone(s, c) ==
    IF "SCAN_DONE" \in c THEN [s EXCEPT !.state = "BUSY", !.packets = s.modem] ELSE s

Decode(s, event) == [s |-> s, event |-> event]

\* The event of the causes c, tested in this order, and the driver after it; s is
\* masked and cleared.
Decoded(s, c, event) ==
    IF "TX_DONE" \in c THEN {Decode(s, "TX_DONE")}
    ELSE IF "CRC_ERROR" \in c THEN {Decode(s, "RX_ERROR")}
    ELSE IF "TIMEOUT" \in c THEN
        IF s.exit = "CS_LBT" /\ s.state # "TX"
            THEN {Decode(start_tx([s EXCEPT !.exit = "NONE"]), "UNKNOWN")}
            ELSE {Decode(s, IF s.state = "TX" THEN "TX_TIMEOUT" ELSE "RX_TIMEOUT")}
    ELSE IF "HEADER_ERROR" \in c THEN {Decode(s, "RX_TIMEOUT")}
    ELSE IF s.modem = "LORA" /\ "CAD_DONE" \in c THEN
        IF "CAD_DETECTED" \in c THEN {Decode([s EXCEPT !.exit = "NONE"], "CAD_DONE")}
        ELSE IF s.exit = "CS_LBT" THEN {Decode([start_tx(s) EXCEPT !.exit = "NONE"], "UNKNOWN")}
        ELSE {Decode(s, "CAD_TIMEOUT")}
    ELSE IF s.modem = "LORA" /\ "RX_DONE" \in c THEN
        {Decode(s, e) : e \in radio_lora_process_rx_done(event)}
    ELSE IF s.modem = "FSK" /\ "SYNC_WORD" \in c THEN {Decode(s, event)}
    ELSE IF s.modem = "FSK" /\ "PREAMBLE" \in c THEN
        IF s.exit = "CS_LBT"
            THEN {Decode(standby([s EXCEPT !.exit = "NONE"]), "CS_DONE")}
            ELSE {Decode(s, event)}
    ELSE IF "RX_DONE" \in c THEN
        {Decode(ScanDone(s, c), e) : e \in radio_fsk_process_rx_done(event)}
    ELSE {Decode(ScanDone(s, c), event)}

\* The chip's interrupts stay masked when the driver believes it asleep.
Unmasked(s) == IF s.state = "SLEEP" THEN s ELSE [s EXCEPT !.mask = "DEFAULT"]

\* Lost (1): the end of a reception that is read and not reported; an operation taken for
\* the carrier sense or detection before it, which was lost or ended by another's simulated
\* report and has left its exit mode: a transmission or standby then takes its place.
Unreported ==
    \/ "RX_DONE" \in d.causes /\ op \in {"rx", "sense"}
    \/ d.causes \cap {"TIMEOUT", "PREAMBLE"} # {} /\ d.exit = "CS_LBT" /\ op \in {"rx", "tx"}

IrqChip ==
    /\ bh # "idle"
    /\ \E r \in Decoded([radio_disable_irq(d) EXCEPT !.causes = {}], d.causes, bh) :
          /\ d' = Unmasked(r.s)
          /\ report_radio_event(r.event, Unreported)
    /\ bh' = "idle"
    /\ deaf' = IF d.state = "SLEEP" THEN "asleep" ELSE deaf
    /\ UNCHANGED loc

-----------------------------------------------------------------------------
(***************************************************************************)
(* The location engine.                                                    *)
(***************************************************************************)
Located(s, to) == bh = "idle" /\ d' = s /\ loc' = to /\ UNCHANGED <<bh, op>>

\* The protocol's operation is carried out, not simulated.
OnChip == op # "none" /\ <<d.sim, op>> \notin {<<"RX", "rx">>, <<"TX", "tx">>}

\* Lost (2): whatever raised the line is cleared, although the radio may be in use.
HoldClear ==
    /\ loc = "idle"
    /\ Located(radio_clear_irq_status_all(d), "asking")
    /\ lost' = (lost \/ (OnChip /\ Line(d)))
    /\ UNCHANGED deaf

InUse(s) == s.state \in {"TX", "RX"}

\* Lost (3): a channel activity detection does not count as use.
HoldTake ==
    /\ loc = "asking"
    /\ IF InUse(d)
           THEN Located(d, "idle") /\ UNCHANGED lost
           ELSE Located([d EXCEPT !.state = "SCAN", !.pin = TRUE], "held")
                /\ lost' = (lost \/ op \in {"cad", "cad_rx"})
    /\ UNCHANGED deaf

Scan ==
    /\ loc = "held"
    /\ d.mode # "scan"
    /\ Located([d EXCEPT !.mode = "scan", !.packets = "scan", !.mask = "SCAN", !.causes = {}], loc)
    /\ UNCHANGED <<lost, deaf>>

\* The scan ends; the engine clears its interrupt or leaves it.
ScanEnds ==
    /\ loc = "held"
    /\ d.mode = "scan"
    /\ \E c \in {{}, {"SCAN_DONE"}} : Located([d EXCEPT !.mode = "standby", !.causes = c], loc)
    /\ UNCHANGED <<lost, deaf>>

ReleaseCheck ==
    /\ loc = "held"
    /\ d.mode # "scan"
    /\ Located(d, IF d.state = "SCAN" THEN "restoring" ELSE "idle")
    /\ UNCHANGED <<lost, deaf>>

\* Mutant: the packet type is left as the scan set it.
MutRestored(s) == [lr11xx_hal_wakeup(s) EXCEPT !.mask = "DEFAULT"]

\* The chip as release restores it.
Restored(s) == [lr11xx_hal_wakeup(s) EXCEPT !.packets = s.modem, !.mask = "DEFAULT"]

\* The critical region that ends the scan.
ReleaseEnd(s) == [s EXCEPT !.state = "STANDBY"]

ReleaseRestore ==
    /\ loc = "restoring"
    /\ Located(Restored(d), "restored")
    /\ deaf' = "no"
    /\ UNCHANGED lost

ReleaseScan ==
    /\ loc = "restored"
    /\ Located(ReleaseEnd(d), "idle")
    /\ UNCHANGED <<lost, deaf>>

-----------------------------------------------------------------------------
Protocol ==
    \/ sid_pal_radio_init
    \/ \E m \in Modems : sid_pal_radio_set_modem_mode(m)
    \/ sid_pal_radio_standby
    \/ sid_pal_set_radio_busy
    \/ sid_pal_radio_sleep
    \/ sid_pal_radio_start_tx
    \/ sid_pal_radio_start_rx
    \/ \E e \in {"NONE", "CS_LBT"} : sid_pal_radio_start_carrier_sense(e)
    \/ \E mode \in {"cad", "cad_rx", "cad_tx"} : sid_pal_radio_lora_start_cad(mode)
    \/ sid_pal_radio_start_continuous_rx
    \/ sid_pal_radio_set_rx_duty_cycle
    \/ sid_pal_radio_set_tx_continuous_wave
    \/ sid_pal_radio_get_chan_noise
    \/ sid_pal_radio_is_channel_free
    \/ sid_pal_radio_random

BottomHalf == IrqSimulated \/ IrqChip

Location ==
    \/ HoldClear \/ HoldTake
    \/ Scan \/ ScanEnds
    \/ ReleaseCheck \/ ReleaseRestore \/ ReleaseScan

LrNext == Protocol \/ ChipEnds \/ ChipHears \/ lr_timer_cb \/ BottomHalf \/ Location

LrSpec == LrInit /\ [][LrNext]_lr_vars

\* The chip ends what it does, the timer expires, the protocol runs the bottom half.
LrFairSpec ==
    /\ LrSpec
    /\ WF_lr_vars(ChipEnds)
    /\ WF_lr_vars(lr_timer_cb)
    /\ WF_lr_vars(BottomHalf)

-----------------------------------------------------------------------------
(***************************************************************************)
(* While location holds the radio the driver stays in SCAN, and the chip   *)
(* is location's: a running scan ends by itself, with its packet type,     *)
(* interrupt mask and causes untouched by calls of the protocol, by bottom *)
(* halves of earlier operations and by simulated timeouts, and a chip at   *)
(* rest is not started.                                                    *)
(***************************************************************************)
LeavesScan ==
    loc \in Holding =>
        /\ loc' \in Holding => d'.state = "SCAN"
        /\ d.mode \in {"sleep", "standby", "scan"} => d'.mode \in {d.mode, "scan", "standby"}
        /\ d.mode = "scan" => d'.packets = "scan" /\ d'.mask = "SCAN"
        /\ "SCAN_DONE" \in d.causes => "SCAN_DONE" \in d'.causes \/ d'.mode = "scan"

ScanUndisturbed == [][LeavesScan]_lr_vars

(***************************************************************************)
(* Sidewalk gets back the chip it gave: outside of a scan the chip has the *)
(* packet type of the driver's modem, if one is set, and its own interrupt *)
(* mask, whatever the protocol called during the scan and however the scan *)
(* ended, also if the scan took it masked.  Masked it is only after one of *)
(* two calls since: a bottom half while the radio slept (                  *)
(* lr11xx_radio.c:557 does not enable then, nor does the wake-up), and a   *)
(* measurement whose frequency is refused (:1413, :1534).                  *)
(***************************************************************************)
RadioReturned ==
    (bh = "idle" /\ d.state # "SCAN") =>
        /\ d.packets \in {d.modem, "none"}
        /\ d.mask # "SCAN"
        /\ d.mask = "NONE" => deaf # "no"

(***************************************************************************)
(* Every transmission, reception, carrier sense and activity detection the *)
(* driver accepts, carried out or simulated, ends in a report, however     *)
(* scans come and go, unless the protocol gives it up or the chip waits    *)
(* for ever for the packet of a preamble.  Excepted (lost) are those whose *)
(* cause a hold clears, a detection under which a hold takes the radio, an *)
(* operation that meets the exit mode CS_LBT these two leave behind, one   *)
(* on a chip left without interrupts by a bottom half while it slept, and  *)
(* a packet that is read and not reported: with its sync word, cut, or too *)
(* short.                                                                  *)
(***************************************************************************)
OperationsReported == []<>(op = "none" \/ lost) \/ <>[](d.mode = "heard")

-----------------------------------------------------------------------------
(***************************************************************************)
(* The inductive invariant: who has the chip, and in which state he left   *)
(* it.                                                                     *)
(***************************************************************************)

\* The state SCAN is the engine's hold, and no bottom half runs into it.
ScanIsHold ==
    /\ d.state = "SCAN" <=> loc \in Holding
    /\ bh # "idle" => d.state # "SCAN"

\* The chip is set up for Sidewalk, outside of a hold and at the end of it.
ChipOfSidewalk ==
    /\ d.state # "SCAN" => d.packets \in {d.modem, "none"} /\ d.mask # "SCAN"
                             /\ (d.mask = "NONE" => deaf # "no")
    /\ loc = "restored" => d.packets = d.modem /\ d.mask = "DEFAULT"

\* A running scan has the chip to itself.
ChipOfLocation ==
    d.mode = "scan" => /\ loc = "held"
                       /\ d.packets = "scan"
                       /\ d.mask = "SCAN"
                       /\ "SCAN_DONE" \notin d.causes

LrIInv == LrTypeOK /\ ScanIsHold /\ ChipOfSidewalk /\ ChipOfLocation
=============================================================================
