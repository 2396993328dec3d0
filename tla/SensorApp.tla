----------------------------- MODULE SensorApp -----------------------------
(***************************************************************************)
(* The sensor monitoring application, samples/sid_end_device/src/          *)
(* sensor_monitoring: the transmit task and its state machine (app_tx.c),  *)
(* the receive task (app_rx.c), the button masks and flag (app_buttons.c)  *)
(* and the callbacks and timers of app.c.                                  *)
(*                                                                         *)
(* Buttons, timers, the Sidewalk thread and the two tasks interleave.  The *)
(* tasks are fed by bounded queues whose producers never wait: an event    *)
(* that finds its queue full is dropped.  Messages to the cloud go through *)
(* the Sidewalk thread's queue, for which the transmit task does wait.     *)
(* The cloud is external: it may answer what it received, at any time.     *)
(***************************************************************************)
EXTENDS Naturals, Sequences

CONSTANTS
    Buttons, Leds, Links,   \* the ids of buttons and LEDs, the link types
    TxQueueSize, RxQueueSize, SidQueueSize,
    MaxStimuli,             \* bound on presses, requests and changes of status
    MaxFailures             \* bound on failed allocations and sends

ASSUME ConstantsAssumption ==
    /\ {TxQueueSize, RxQueueSize, SidQueueSize} \subseteq Nat \ {0}
    /\ {MaxStimuli, MaxFailures} \subseteq Nat

LedEvents == {"RESP_LED_ON", "RESP_LED_OFF"}
Events == LedEvents \cup {"TIME_SYNC_SUCCESS", "TIME_SYNC_FAIL", "CAPABILITY_SUCCESS",
                          "NOTIFY_SENSOR", "NOTIFY_BUTTON"}

\* What the cloud sends; ids are buttons of a response or LEDs of a request.
Downlinks ==
    [kind : {"capability", "capability_failed", "unsupported"}, ids : {{}}] \cup
    [kind : {"button"}, ids : SUBSET Buttons] \cup
    [kind : {"RESP_LED_ON", "RESP_LED_OFF"}, ids : SUBSET Leds]

\* A message to the cloud, by the event it is made for: the buttons it reports,
\* the LEDs that were on, and the link mask it is to be sent on.
Messages == [event : Events, state : {"CAPABILITY", "DATA"}, buttons : SUBSET Buttons,
             leds : SUBSET Leds, mask : SUBSET Links]

VARIABLES
    state,          \* the state of app_sm
    msgq,           \* app_sm.msgq
    tx,             \* the transmit task: where it is, and the message it makes
    press,          \* button_press_mask
    pressing,       \* app_btn_event_handler has set the bit, not yet the flag
    pending,        \* button_event_pending_processing
    last_link_mask,
    leds,           \* leds_state
    rxq, rx,        \* the received messages, and the receive task
    sidq, blocks,   \* the Sidewalk thread's queue, and the heap blocks of messages
    cloud,          \* what the cloud has to answer, and whether it accepted the device
    used,           \* how often the environment acted, against its bounds
    unreported,     \* history: pressed, and in no message handed over since
    raced,          \* history: pressed between the read and the clearing of the
                    \* flag, or answered for an earlier press
    ledview,        \* history: the LEDs that were on by the last LED response
    missed          \* history: an LED response was dropped since

txVars == <<state, msgq, tx>>
btnVars == <<press, pressing, pending, unreported, raced>>
rxVars == <<rxq, rx, leds>>
sidVars == <<sidq, blocks, last_link_mask>>
ledVars == <<ledview, missed>>
vars == <<txVars, btnVars, rxVars, sidVars, ledVars, cloud, used>>

NoMessage == [event |-> "NOTIFY_SENSOR", state |-> "DATA", buttons |-> {}, leds |-> {},
              mask |-> {}]
TxAt(pc, todo, m) == [pc |-> pc, todo |-> todo, msg |-> m]
TxWait == TxAt("wait", {}, NoMessage)
RxWait == [kind |-> "none", todo |-> {}]

Init ==
    /\ state = "INIT"
    /\ msgq = <<>>
    /\ tx = TxAt("new", {}, NoMessage)
    /\ press = {} /\ pressing = {} /\ pending = FALSE
    /\ last_link_mask = {}
    /\ leds = {}
    /\ rxq = <<>> /\ rx = RxWait
    /\ sidq = <<>> /\ blocks = 0
    /\ cloud = [capability |-> FALSE, buttons |-> {}, accepted |-> FALSE]
    /\ used = [stimuli |-> 0, failures |-> 0]
    /\ unreported = {} /\ raced = {}
    /\ ledview = {} /\ missed = FALSE

Use(counter, bound) ==
    /\ used[counter] < bound
    /\ used' = [used EXCEPT ![counter] = @ + 1]

-----------------------------------------------------------------------------
(***************************************************************************)
(* app_tx_event_send, from interrupts and threads alike.  Before the task  *)
(* has initialised it the queue has no room.                               *)
(***************************************************************************)

Accepted == tx.pc # "new" /\ Len(msgq) < TxQueueSize

app_tx_event_send(e) == msgq' = IF Accepted THEN Append(msgq, e) ELSE msgq

\* notify_timer_cb
notify_timer_cb ==
    /\ app_tx_event_send("NOTIFY_SENSOR")
    /\ UNCHANGED <<state, tx, btnVars, rxVars, sidVars, ledVars, cloud, used>>

\* Mutant: the timer is a single shot of the press, without its retries.
MutButtonTimerDue == pending /\ pressing # {}
ButtonTimerDue == pending

button_timer_cb ==
    /\ ButtonTimerDue
    /\ app_tx_event_send("NOTIFY_BUTTON")
    /\ UNCHANGED <<state, tx, btnVars, rxVars, sidVars, ledVars, cloud, used>>

(***************************************************************************)
(* app_btn_event_handler: the bit first, then the flag.  The press comes   *)
(* too late for the message the task is making when the task has read the  *)
(* button, and too late for the flag until the task has cleared it.        *)
(***************************************************************************)
TooLate(b) ==
    /\ tx.msg.event = "NOTIFY_BUTTON"
    /\ \/ tx.pc \in {"read", "send", "put"} /\ b \notin tx.todo \cup tx.msg.buttons
       \/ tx.pc = "sent"

app_btn_event_handler ==
    /\ pressing = {}
    /\ Use("stimuli", MaxStimuli)
    /\ \E b \in Buttons :
         /\ press' = press \cup {b}
         /\ pressing' = {b}
         /\ unreported' = unreported \cup {b}
         /\ raced' = IF TooLate(b) THEN raced \cup {b} ELSE raced \ {b}
    /\ UNCHANGED <<pending, txVars, rxVars, sidVars, ledVars, cloud>>

BtnHandlerReturns ==
    /\ pressing # {}
    /\ pending' = TRUE
    /\ pressing' = {}
    /\ UNCHANGED <<press, unreported, raced, txVars, rxVars, sidVars, ledVars, cloud, used>>

-----------------------------------------------------------------------------
(***************************************************************************)
(* app_tx_task.  A run of the state machine takes one event; what needs no *)
(* message is done with it, the rest goes on to app_tx_demo_msg_send.      *)
(***************************************************************************)
app_tx_task_init ==
    /\ tx.pc = "new"
    /\ tx' = TxWait
    /\ msgq' = <<>>
    /\ UNCHANGED <<state, btnVars, rxVars, sidVars, ledVars, cloud, used>>

Take(events) ==
    /\ tx.pc = "wait"
    /\ msgq # <<>> /\ Head(msgq) \in events
    /\ msgq' = Tail(msgq)
    /\ UNCHANGED <<btnVars, rxVars, sidVars, ledview, cloud, used>>

Message(e) == [event |-> e, state |-> state, buttons |-> {},
               leds |-> IF e \in LedEvents THEN leds ELSE {}, mask |-> last_link_mask]

\* An LED response the state machine does not make.
Ignored == missed' = (missed \/ Head(msgq) \in LedEvents)

AfterTimeSync == "CAPABILITY"

state_init ==
    /\ state = "INIT"
    /\ Take(Events)
    /\ state' = IF Head(msgq) = "TIME_SYNC_SUCCESS" THEN AfterTimeSync ELSE state
    /\ Ignored
    /\ UNCHANGED tx

state_notify_capability ==
    /\ state = "CAPABILITY"
    /\ Take(Events)
    /\ state' = IF Head(msgq) = "CAPABILITY_SUCCESS" THEN "DATA" ELSE state
    /\ tx' = IF Head(msgq) = "NOTIFY_SENSOR" THEN TxAt("send", {}, Message(Head(msgq))) ELSE tx
    /\ Ignored

\* The buttons are read one by one; the LEDs change by the receive task only,
\* which does not run meanwhile.
state_notify_data ==
    /\ state = "DATA"
    /\ Take(Events)
    /\ LET e == Head(msgq)
       IN /\ state' = IF e = "TIME_SYNC_FAIL" THEN "CAPABILITY" ELSE state
          /\ tx' = CASE e = "NOTIFY_BUTTON" -> TxAt("read", Buttons, Message(e))
                     [] e \in LedEvents \cup {"NOTIFY_SENSOR"} -> TxAt("send", {}, Message(e))
                     [] OTHER -> tx
          /\ missed' = (missed /\ e \notin LedEvents)

\* When the last one is read the message is complete.
ReadButton ==
    /\ tx.pc = "read"
    /\ \E b \in tx.todo :
         LET read == [tx.msg EXCEPT !.buttons = IF b \in press THEN @ \cup {b} ELSE @]
         IN  tx' = IF tx.todo = {b} THEN TxAt("send", {}, [read EXCEPT !.mask = last_link_mask])
                                    ELSE TxAt("read", tx.todo \ {b}, read)
    /\ UNCHANGED <<state, msgq, btnVars, rxVars, sidVars, ledVars, cloud, used>>

\* Back to the queue without having sent.
NotSent ==
    /\ tx' = TxWait
    /\ missed' = (missed \/ tx.msg.event \in LedEvents)
    /\ UNCHANGED <<state, msgq, press, pressing, unreported, raced, rxVars, sidq,
                   last_link_mask, ledview, cloud>>

\* Mutant: the flag is cleared although nothing was sent.
MutFlagAfterFailure == pending /\ tx.msg.event # "NOTIFY_BUTTON"
FlagAfterFailure == pending

\* sidewalk_event_send with room in the queue.  The clearing of the flag is a
\* step of its own.
Sent ==
    /\ Len(sidq) < SidQueueSize
    /\ sidq' = Append(sidq, tx.msg)
    /\ tx' = IF tx.msg.event = "NOTIFY_BUTTON" THEN [tx EXCEPT !.pc = "sent"] ELSE TxWait
    /\ unreported' = unreported \ tx.msg.buttons
    /\ raced' = raced \ tx.msg.buttons
    /\ ledview' = IF tx.msg.event \in LedEvents THEN tx.msg.leds ELSE ledview
    /\ UNCHANGED <<state, msgq, press, pressing, pending, rxVars, last_link_mask,
                   missed, cloud, used>>

\* A message is two blocks, itself and its data: serialisation or one of the
\* allocations fails and leaves none behind, or both are there and the message
\* is queued, or the task waits for room.
app_tx_demo_msg_send ==
    /\ tx.pc = "send"
    /\ \/ Use("failures", MaxFailures) /\ NotSent /\ pending' = FlagAfterFailure
          /\ UNCHANGED blocks
       \/ Sent /\ blocks' = blocks + 2
       \/ /\ Len(sidq) = SidQueueSize
          /\ blocks' = blocks + 2
          /\ tx' = [tx EXCEPT !.pc = "put"]
          /\ UNCHANGED <<state, msgq, btnVars, rxVars, sidq, last_link_mask, ledVars,
                         cloud, used>>

WaitEnds == tx.pc = "put" /\ Sent /\ UNCHANGED blocks

\* Mutant: the message is not freed when it cannot be queued.
MutBlocksAfterTimeout == blocks
BlocksAfterTimeout == blocks - 2

EventSendTimeout ==
    /\ tx.pc = "put" /\ Len(sidq) = SidQueueSize
    /\ Use("failures", MaxFailures)
    /\ NotSent
    /\ pending' = FlagAfterFailure
    /\ blocks' = BlocksAfterTimeout

\* app_btn_pending_flag_clear, when the message is on its way.
FlagClear ==
    /\ tx.pc = "sent"
    /\ tx' = TxWait
    /\ pending' = FALSE
    /\ UNCHANGED <<state, msgq, press, pressing, unreported, raced, rxVars, sidVars, ledVars,
                   cloud, used>>

-----------------------------------------------------------------------------
(***************************************************************************)
(* The Sidewalk thread.  Its priority is above that of the tasks: they do  *)
(* not run within one of its callbacks.                                    *)
(***************************************************************************)

\* sidewalk_event_send_msg: the message is given to the library and freed; it
\* reaches the cloud or is lost.
SidewalkSends ==
    /\ sidq # <<>>
    /\ sidq' = Tail(sidq)
    /\ blocks' = blocks - 2
    /\ LET m == Head(sidq)
           received == CASE m.state = "CAPABILITY" -> [cloud EXCEPT !.capability = TRUE]
                         [] m.state # "CAPABILITY" /\ m.event = "NOTIFY_BUTTON" ->
                              [cloud EXCEPT !.buttons = @ \cup m.buttons]
                         [] OTHER -> cloud
       IN  cloud' \in {cloud, received}
    /\ UNCHANGED <<last_link_mask, txVars, btnVars, rxVars, ledVars, used>>

\* Mutant: a status without a link clears the mask.
MutLinkMask(mask) == mask
app_tx_last_link_mask_set(mask) == IF mask # {} THEN mask ELSE last_link_mask

\* The mask first, then the event.  The library has the time only once a link
\* has been up.
on_sidewalk_status_changed ==
    /\ Use("stimuli", MaxStimuli)
    /\ \E mask \in SUBSET Links, synced \in BOOLEAN :
         /\ synced => mask \cup last_link_mask # {}
         /\ last_link_mask' = app_tx_last_link_mask_set(mask)
         /\ app_tx_event_send(IF synced THEN "TIME_SYNC_SUCCESS" ELSE "TIME_SYNC_FAIL")
    /\ UNCHANGED <<sidq, blocks, state, tx, btnVars, rxVars, ledVars, cloud>>

\* on_sidewalk_msg_received, other than acknowledgements.
on_sidewalk_msg_received(d) ==
    /\ rxq' = IF Len(rxq) < RxQueueSize THEN Append(rxq, d) ELSE rxq
    /\ UNCHANGED <<rx, leds, sidVars, txVars, btnVars, ledVars>>

\* The cloud answers what it received, a capability message with or without
\* success, the buttons of one or of several messages.
Answer ==
    /\ \/ /\ cloud.capability
          /\ \E ok \in BOOLEAN :
               /\ cloud' = [cloud EXCEPT !.capability = FALSE, !.accepted = @ \/ ok]
               /\ on_sidewalk_msg_received(
                    [kind |-> IF ok THEN "capability" ELSE "capability_failed", ids |-> {}])
       \/ \E seen \in SUBSET cloud.buttons \ {{}} :
            /\ cloud' = [cloud EXCEPT !.buttons = @ \ seen]
            /\ on_sidewalk_msg_received([kind |-> "button", ids |-> seen])
    /\ UNCHANGED used

\* LED requests, and what the receive task does not understand.
Request ==
    /\ Use("stimuli", MaxStimuli)
    /\ \E d \in Downlinks :
         /\ (d.kind \in LedEvents /\ d.ids # {}) \/ d.kind = "unsupported"
         /\ on_sidewalk_msg_received(d)
    /\ UNCHANGED cloud

-----------------------------------------------------------------------------
(***************************************************************************)
(* app_rx_task.  Of the two tasks it has the lower priority: it runs when  *)
(* the transmit task waits, and is preempted at every step.                *)
(***************************************************************************)
TxWaits == \/ tx.pc = "wait" /\ msgq = <<>>
           \/ tx.pc = "put" /\ Len(sidq) = SidQueueSize

\* Mutant: the status code is not looked at.
MutCapabilityOk(d) == d.kind \in {"capability", "capability_failed"}
CapabilityOk(d) == d.kind = "capability"

app_rx_task ==
    /\ TxWaits /\ rx = RxWait /\ rxq # <<>>
    /\ rxq' = Tail(rxq)
    /\ LET d == Head(rxq)
       IN /\ rx' = IF d.ids # {} THEN [kind |-> d.kind, todo |-> d.ids] ELSE RxWait
          /\ IF CapabilityOk(d) THEN app_tx_event_send("CAPABILITY_SUCCESS")
                                ELSE UNCHANGED msgq
    /\ UNCHANGED <<leds, state, tx, btnVars, sidVars, ledVars, cloud, used>>

\* One button of a response: the notify mask beside the press mask has no user.
app_rx_button_resp_process ==
    /\ TxWaits /\ rx.kind = "button"
    /\ \E b \in rx.todo :
         /\ press' = press \ {b}
         /\ raced' = raced \cup (unreported \cap {b})
         /\ rx' = IF rx.todo = {b} THEN RxWait ELSE [rx EXCEPT !.todo = @ \ {b}]
    /\ UNCHANGED <<pressing, pending, unreported, rxq, leds, txVars, sidVars, ledVars, cloud, used>>

TurnLed ==
    /\ TxWaits /\ rx.kind \in LedEvents
    /\ \E l \in rx.todo :
         /\ leds' = IF rx.kind = "RESP_LED_ON" THEN leds \cup {l} ELSE leds \ {l}
         /\ rx' = [rx EXCEPT !.todo = @ \ {l}]
    /\ UNCHANGED <<rxq, txVars, btnVars, sidVars, ledVars, cloud, used>>

\* Mutant: only requests to turn LEDs on are answered.
MutAskLedResponse ==
    IF rx.kind = "RESP_LED_ON" THEN app_tx_event_send(rx.kind) ELSE UNCHANGED msgq
AskLedResponse == app_tx_event_send(rx.kind)

\* The end of app_rx_led_req_process: the response is asked for.
app_rx_led_req_process ==
    /\ TxWaits /\ rx.kind \in LedEvents /\ rx.todo = {}
    /\ AskLedResponse
    /\ missed' = (missed \/ ~Accepted)
    /\ rx' = RxWait
    /\ UNCHANGED <<rxq, leds, state, tx, btnVars, sidVars, ledview, cloud, used>>

-----------------------------------------------------------------------------
Tx ==
    \/ app_tx_task_init \/ state_init \/ state_notify_capability \/ state_notify_data
    \/ ReadButton \/ app_tx_demo_msg_send \/ WaitEnds \/ EventSendTimeout \/ FlagClear

Rx == app_rx_task \/ app_rx_button_resp_process \/ TurnLed \/ app_rx_led_req_process

Next ==
    \/ notify_timer_cb \/ button_timer_cb
    \/ app_btn_event_handler \/ BtnHandlerReturns
    \/ Tx \/ Rx
    \/ SidewalkSends \/ on_sidewalk_status_changed
    \/ Answer \/ Request

Spec == Init /\ [][Next]_vars

\* The threads are scheduled, handlers return, and the button timer, whose
\* period is a tenth of the sensor's, finds room again and again.
FairSpec ==
    /\ Spec
    /\ WF_vars(Tx) /\ WF_vars(SidewalkSends)
    /\ WF_vars(BtnHandlerReturns)
    /\ SF_vars(button_timer_cb)

-----------------------------------------------------------------------------
TypeOK ==
    /\ state \in {"INIT", "CAPABILITY", "DATA"}
    /\ msgq \in Seq(Events) /\ Len(msgq) <= TxQueueSize
    /\ tx \in [pc : {"new", "wait", "read", "send", "put", "sent"}, todo : SUBSET Buttons,
               msg : Messages]
    /\ press \subseteq Buttons /\ pressing \subseteq Buttons /\ pending \in BOOLEAN
    /\ last_link_mask \subseteq Links
    /\ leds \subseteq Leds
    /\ rxq \in Seq(Downlinks) /\ Len(rxq) <= RxQueueSize
    /\ rx \in [kind : {"none"}, todo : {{}}] \cup [kind : {"button"}, todo : SUBSET Buttons] \cup
             [kind : LedEvents, todo : SUBSET Leds]
    /\ sidq \in Seq(Messages) /\ Len(sidq) <= SidQueueSize
    /\ blocks \in Nat
    /\ cloud \in [capability : BOOLEAN, buttons : SUBSET Buttons, accepted : BOOLEAN]
    /\ used \in [{"stimuli", "failures"} -> Nat]
    /\ unreported \subseteq Buttons /\ raced \subseteq Buttons
    /\ ledview \subseteq Leds /\ missed \in BOOLEAN

\* A press that no message reports yet is remembered by its bit, and by the flag
\* that has the task send again: through failed sends, dropped events and every
\* state of the machine.  The exceptions are the presses of raced.
NoPressForgotten ==
    \A b \in unreported \ raced : b \in press /\ (pending \/ b \in pressing)

\* Data, and responses to the cloud, only after the cloud accepted the device's
\* capabilities.
DataAfterCapability == state = "DATA" => cloud.accepted

\* What is handed to the Sidewalk thread names a link that has been up: the
\* status callback stores the mask before the event that makes the task use it.
SentOnKnownLink == \A i \in DOMAIN sidq : sidq[i].mask # {}

\* The blocks in use are those of the messages queued and being queued.
MessagesFreed == blocks = 2 * Len(sidq) + (IF tx.pc = "put" THEN 2 ELSE 0)

LedResponseDue ==
    \/ \E i \in DOMAIN msgq : msgq[i] \in LedEvents
    \/ tx.msg.event \in LedEvents /\ tx.pc \in {"send", "put"}
    \/ rx.kind \in LedEvents

\* The last LED response tells how the LEDs are, or another one is due, or one
\* was dropped: requests may come while the response to an earlier one is made.
LedsAsReported == leds = ledview \/ LedResponseDue \/ missed

\* The messages to the cloud are sound: after an accepted capability message,
\* on a link that was up, freed once, and the LED responses among them true.
UplinksSound ==
    /\ DataAfterCapability
    /\ SentOnKnownLink
    /\ MessagesFreed
    /\ LedsAsReported

\* In the data state a press is reported in the end, whatever sends failed.
PressesReported ==
    \A b \in Buttons :
        b \in unreported /\ state = "DATA" ~>
            b \notin unreported \/ b \in raced \/ state # "DATA"

-----------------------------------------------------------------------------
(***************************************************************************)
(* The inductive invariant behind NoPressForgotten and UplinksSound, in    *)
(* parts.  What the message being made does not report was pressed too     *)
(* late for it, so that nothing else is left when the flag is cleared.     *)
(***************************************************************************)
PressesKnown ==
    /\ NoPressForgotten
    /\ tx.pc \in {"read", "sent"} => tx.msg.event = "NOTIFY_BUTTON"
    /\ tx.pc \in {"read", "send", "put"} /\ tx.msg.event = "NOTIFY_BUTTON" =>
           unreported \ raced \subseteq tx.todo \cup tx.msg.buttons
    /\ tx.pc \in {"send", "put"} => tx.todo = {}
    /\ tx.pc = "sent" => unreported \subseteq raced

In(x, queue) == \E i \in 1 .. Len(queue) : queue[i] = x

\* A success on its way to the state machine is one the cloud sent.
AcceptedKnown ==
    /\ DataAfterCapability
    /\ In("CAPABILITY_SUCCESS", msgq) => cloud.accepted
    /\ \A d \in Downlinks : In(d, rxq) /\ CapabilityOk(d) => cloud.accepted

\* Until a link was up the state machine does not start, and makes no message.
LinkKnown ==
    /\ \A m \in Messages : In(m, sidq) => m.mask # {}
    /\ last_link_mask = {} => /\ state = "INIT" /\ tx.pc \in {"new", "wait"}
                              /\ ~In("TIME_SYNC_SUCCESS", msgq)
    /\ tx.pc \in {"send", "put"} => tx.msg.mask # {}

\* A response being made, and one that will follow it, or would have.
LedMaking == tx.msg.event \in LedEvents /\ tx.pc \in {"send", "put"}
LedFollows ==
    \/ In("RESP_LED_ON", msgq) \/ In("RESP_LED_OFF", msgq)
    \/ rx.kind \in LedEvents \/ missed

\* The response being made tells how the LEDs are, or another one follows.
LedsKnown ==
    /\ leds = ledview \/ LedMaking \/ LedFollows
    /\ LedMaking => tx.msg.leds = leds \/ LedFollows
    /\ tx.pc = "new" => msgq = <<>>
=============================================================================
