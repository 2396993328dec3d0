-------------------------- MODULE SensorAppProofs --------------------------
(***************************************************************************)
(* Proofs of SensorApp, for every set of buttons, LEDs and links, all       *)
(* queue sizes and bounds: no press is forgotten and the messages to the    *)
(* cloud are sound, however the tasks, callbacks and buttons interleave.    *)
(***************************************************************************)
EXTENDS SensorApp, SequenceTheorems, TLAPS

-----------------------------------------------------------------------------
(* Queues. *)

\* What a put at the end does.
LEMMA AppendIn ==
    ASSUME NEW S, NEW q \in Seq(S), NEW e \in S
    PROVE  /\ Append(q, e) \in Seq(S) /\ Len(q) \in Nat /\ Len(Append(q, e)) = Len(q) + 1
           /\ \A x : In(x, Append(q, e)) <=> In(x, q) \/ x = e
<1>1. /\ Append(q, e) \in Seq(S) /\ Len(q) \in Nat /\ Len(Append(q, e)) = Len(q) + 1
      /\ \A i \in 1 .. Len(q) : Append(q, e)[i] = q[i]
      /\ Append(q, e)[Len(q) + 1] = e
  BY AppendProperties, LenProperties
<1>2. \A i \in 1 .. Len(q) + 1 : i \in 1 .. Len(q) \/ i = Len(q) + 1
  BY <1>1
<1>3. Len(q) + 1 \in 1 .. Len(q) + 1 /\ \A i \in 1 .. Len(q) : i \in 1 .. Len(q) + 1
  BY <1>1
<1>4. ASSUME NEW x, In(x, Append(q, e)) PROVE In(x, q) \/ x = e
  BY <1>1, <1>2, <1>4 DEF In
<1>5. ASSUME NEW x, In(x, q) \/ x = e PROVE In(x, Append(q, e))
  BY <1>1, <1>3, <1>5 DEF In
<1> QED
  BY <1>1, <1>4, <1>5

\* What a get from the front does.
LEMMA TailIn ==
    ASSUME NEW S, NEW q \in Seq(S), q # <<>>
    PROVE  /\ Head(q) \in S /\ Tail(q) \in Seq(S)
           /\ Len(q) \in Nat /\ Len(q) >= 1 /\ Len(Tail(q)) = Len(q) - 1
           /\ \A x : In(x, q) <=> x = Head(q) \/ In(x, Tail(q))
<1>1. /\ Head(q) \in S /\ Tail(q) \in Seq(S) /\ Head(q) = q[1]
      /\ Len(Tail(q)) = Len(q) - 1
      /\ \A i \in 1 .. Len(Tail(q)) : Tail(q)[i] = q[i + 1]
  BY HeadTailProperties
<1>2. Len(q) \in Nat /\ Len(q) >= 1
  BY LenProperties, EmptySeq
<1>3. ASSUME NEW x, In(x, q) PROVE x = Head(q) \/ In(x, Tail(q))
  <2>1. PICK i \in 1 .. Len(q) : q[i] = x
    BY <1>3 DEF In
  <2>2. i = 1 \/ (i - 1 \in 1 .. Len(Tail(q)) /\ Tail(q)[i - 1] = q[i])
    BY <1>1, <1>2
  <2> QED
    BY <1>1, <2>1, <2>2 DEF In
<1>4. ASSUME NEW x, x = Head(q) \/ In(x, Tail(q)) PROVE In(x, q)
  <2>1. 1 \in 1 .. Len(q) /\ \A i \in 1 .. Len(Tail(q)) : i + 1 \in 1 .. Len(q)
    BY <1>1, <1>2
  <2> QED
    BY <1>1, <1>4, <2>1 DEF In
<1> QED
  BY <1>1, <1>2, <1>3, <1>4

\* Nothing is in an empty queue.
LEMMA EmptyIn == \A x : ~In(x, <<>>)
  BY DEF In

\* app_tx_event_send, as the queue's readers see it.
TxPuts(e) ==
    /\ msgq' \in Seq(Events) /\ Len(msgq') <= TxQueueSize
    /\ \A x : In(x, msgq') <=> In(x, msgq) \/ (Accepted /\ x = e)
    /\ ~Accepted => msgq' = msgq

\* It appends, or drops.
LEMMA TxPutsIt == ASSUME TypeOK, NEW e \in Events, app_tx_event_send(e) PROVE TxPuts(e)
<1>1. CASE Accepted
  <2>1. msgq' = Append(msgq, e) /\ Len(msgq) < TxQueueSize
    BY <1>1 DEF app_tx_event_send, Accepted
  <2> QED
    BY <1>1, <2>1, AppendIn, ConstantsAssumption DEF TypeOK, TxPuts
<1>2. CASE ~Accepted
  BY <1>2 DEF app_tx_event_send, TypeOK, TxPuts
<1> QED
  BY <1>1, <1>2

\* The state machine takes an event.
TxGets(e) ==
    /\ tx.pc = "wait" /\ e \in Events
    /\ msgq' \in Seq(Events) /\ Len(msgq') <= TxQueueSize
    /\ \A x : In(x, msgq) <=> x = e \/ In(x, msgq')

\* Take hands over the head.
LEMMA TxGetsIt == ASSUME TypeOK, Take(Events) PROVE TxGets(Head(msgq))
<1>1. msgq # <<>> /\ msgq' = Tail(msgq) /\ tx.pc = "wait"
  BY DEF Take
<1>2. /\ Head(msgq) \in Events /\ Tail(msgq) \in Seq(Events)
      /\ Len(msgq) \in Nat /\ Len(msgq) >= 1 /\ Len(Tail(msgq)) = Len(msgq) - 1
      /\ \A x : In(x, msgq) <=> x = Head(msgq) \/ In(x, Tail(msgq))
  BY <1>1, TailIn DEF TypeOK
<1>3. Len(msgq') <= TxQueueSize
  BY <1>1, <1>2, ConstantsAssumption DEF TypeOK
<1> QED
  BY <1>1, <1>2, <1>3 DEF TxGets

\* on_sidewalk_msg_received queues or drops.
RxPuts(d) ==
    /\ rxq' \in Seq(Downlinks) /\ Len(rxq') <= RxQueueSize
    /\ \A x : In(x, rxq') => In(x, rxq) \/ x = d

\* It does so.
LEMMA RxPutsIt ==
    ASSUME TypeOK, NEW d \in Downlinks, on_sidewalk_msg_received(d) PROVE RxPuts(d)
<1>1. CASE Len(rxq) < RxQueueSize
  <2>1. rxq' = Append(rxq, d)
    BY <1>1 DEF on_sidewalk_msg_received
  <2> QED
    BY <1>1, <2>1, AppendIn, ConstantsAssumption DEF TypeOK, RxPuts
<1>2. CASE ~(Len(rxq) < RxQueueSize)
  BY <1>2 DEF on_sidewalk_msg_received, TypeOK, RxPuts
<1> QED
  BY <1>1, <1>2

\* The receive task takes a message.
LEMMA RxGetsIt ==
    ASSUME TypeOK, rxq # <<>>, rxq' = Tail(rxq)
    PROVE  /\ Head(rxq) \in Downlinks /\ In(Head(rxq), rxq)
           /\ rxq' \in Seq(Downlinks) /\ Len(rxq') <= RxQueueSize
           /\ \A x : In(x, rxq') => In(x, rxq)
<1>1. /\ Head(rxq) \in Downlinks /\ rxq' \in Seq(Downlinks)
      /\ Len(rxq) \in Nat /\ Len(rxq) >= 1 /\ Len(rxq') = Len(rxq) - 1
      /\ \A x : In(x, rxq) <=> x = Head(rxq) \/ In(x, rxq')
  BY TailIn DEF TypeOK
<1>2. Len(rxq') <= RxQueueSize
  BY <1>1, ConstantsAssumption DEF TypeOK
<1> QED
  BY <1>1, <1>2

\* The Sidewalk thread takes a message.
LEMMA SidGetsIt ==
    ASSUME TypeOK, sidq # <<>>, sidq' = Tail(sidq)
    PROVE  /\ Head(sidq) \in Messages
           /\ sidq' \in Seq(Messages) /\ Len(sidq') <= SidQueueSize
           /\ Len(sidq) \in Nat /\ Len(sidq) >= 1 /\ Len(sidq') = Len(sidq) - 1
           /\ \A x : In(x, sidq') => In(x, sidq)
<1>1. /\ Head(sidq) \in Messages /\ sidq' \in Seq(Messages)
      /\ Len(sidq) \in Nat /\ Len(sidq) >= 1 /\ Len(sidq') = Len(sidq) - 1
      /\ \A x : In(x, sidq) <=> x = Head(sidq) \/ In(x, sidq')
  BY TailIn DEF TypeOK
<1>2. Len(sidq') <= SidQueueSize
  BY <1>1, ConstantsAssumption DEF TypeOK
<1> QED
  BY <1>1, <1>2

\* A message is handed to it.
LEMMA SidPutsIt ==
    ASSUME TypeOK, Sent
    PROVE  /\ sidq' \in Seq(Messages) /\ Len(sidq') <= SidQueueSize
           /\ Len(sidq) \in Nat /\ Len(sidq') = Len(sidq) + 1
           /\ \A x : In(x, sidq') <=> In(x, sidq) \/ x = tx.msg
<1>1. sidq' = Append(sidq, tx.msg) /\ Len(sidq) < SidQueueSize /\ tx.msg \in Messages
  BY DEF Sent, TypeOK
<1> QED
  BY <1>1, AppendIn, ConstantsAssumption DEF TypeOK

-----------------------------------------------------------------------------
(* The three outcomes of app_tx_demo_msg_send. *)

\* A serialisation or an allocation fails.
SendFails ==
    /\ tx.pc = "send" /\ Use("failures", MaxFailures) /\ NotSent
    /\ pending' = FlagAfterFailure /\ UNCHANGED blocks

\* There is room.
SendNow == tx.pc = "send" /\ Sent /\ blocks' = blocks + 2

\* The task waits for room.
SendBlocks ==
    /\ tx.pc = "send" /\ Len(sidq) = SidQueueSize
    /\ blocks' = blocks + 2
    /\ tx' = [tx EXCEPT !.pc = "put"]
    /\ UNCHANGED <<state, msgq, btnVars, rxVars, sidq, last_link_mask, ledVars, cloud, used>>

\* There are no others.
LEMMA SendCases == app_tx_demo_msg_send => SendFails \/ SendNow \/ SendBlocks
  BY DEF app_tx_demo_msg_send, SendFails, SendNow, SendBlocks

-----------------------------------------------------------------------------
(* The transmit task's steps, in fields. *)

TxStates == [pc : {"new", "wait", "read", "send", "put", "sent"}, todo : SUBSET Buttons,
             msg : Messages]

\* Waiting for an event.
LEMMA TxWaitShape ==
    TxWait \in TxStates /\ TxWait.pc = "wait" /\ TxWait.msg.event = "NOTIFY_SENSOR"
<1>1. NoMessage \in Messages /\ NoMessage.event = "NOTIFY_SENSOR"
  BY DEF NoMessage, Messages, Events
<1> QED
  BY <1>1 DEF TxWait, TxAt, TxStates

\* A message about to be made.
TxMakes(pc, e) ==
    /\ tx' \in TxStates
    /\ tx'.pc = pc /\ tx'.todo = (IF pc = "read" THEN Buttons ELSE {})
    /\ tx'.msg.event = e /\ tx'.msg.buttons = {}
    /\ tx'.msg.leds = (IF e \in LedEvents THEN leds ELSE {})
    /\ tx'.msg.mask = last_link_mask

\* Message makes it from the machine's state.
LEMMA MakesIt ==
    ASSUME TypeOK, state \in {"CAPABILITY", "DATA"}, NEW e \in Events,
           \/ tx' = TxAt("read", Buttons, Message(e)) /\ e = "NOTIFY_BUTTON"
           \/ tx' = TxAt("send", {}, Message(e)) /\ e # "NOTIFY_BUTTON"
    PROVE  TxMakes(IF e = "NOTIFY_BUTTON" THEN "read" ELSE "send", e)
<1>1. /\ Message(e) \in Messages
      /\ Message(e).event = e /\ Message(e).buttons = {} /\ Message(e).mask = last_link_mask
      /\ Message(e).leds = (IF e \in LedEvents THEN leds ELSE {})
  BY DEF Message, Messages, TypeOK
<1>2. CASE tx' = TxAt("read", Buttons, Message(e)) /\ e = "NOTIFY_BUTTON"
  BY <1>1, <1>2 DEF TxAt, TxMakes, TxStates
<1>3. CASE tx' = TxAt("send", {}, Message(e)) /\ e # "NOTIFY_BUTTON"
  BY <1>1, <1>3 DEF TxAt, TxMakes, TxStates
<1> QED
  BY <1>2, <1>3

\* The capability state makes a message for the sensor's event only.
CapabilityDoes(e) ==
    /\ state = "CAPABILITY" /\ TxGets(e)
    /\ state' = (IF e = "CAPABILITY_SUCCESS" THEN "DATA" ELSE state)
    /\ UNCHANGED tx \/ (TxMakes("send", e) /\ e = "NOTIFY_SENSOR")
    /\ missed' <=> missed \/ e \in LedEvents
    /\ UNCHANGED <<btnVars, rxVars, sidVars, ledview, cloud, used>>

\* state_notify_capability does just that.
LEMMA CapabilityOutcome ==
    ASSUME TypeOK, state_notify_capability PROVE CapabilityDoes(Head(msgq))
<1>1. TxGets(Head(msgq)) /\ UNCHANGED <<btnVars, rxVars, sidVars, ledview, cloud, used>>
  BY TxGetsIt DEF state_notify_capability, Take
<1>2. CASE Head(msgq) = "NOTIFY_SENSOR"
  <2>1. TxMakes("send", Head(msgq))
    BY <1>1, <1>2, MakesIt DEF state_notify_capability, TxGets
  <2> QED
    BY <1>1, <1>2, <2>1 DEF state_notify_capability, Ignored, CapabilityDoes
<1>3. CASE Head(msgq) # "NOTIFY_SENSOR"
  BY <1>1, <1>3 DEF state_notify_capability, Ignored, CapabilityDoes
<1> QED
  BY <1>2, <1>3

\* The data state makes a message for buttons, LED responses and the sensor.
DataDoes(e) ==
    /\ state = "DATA" /\ TxGets(e)
    /\ state' = (IF e = "TIME_SYNC_FAIL" THEN "CAPABILITY" ELSE state)
    /\ \/ TxMakes(IF e = "NOTIFY_BUTTON" THEN "read" ELSE "send", e)
       \/ e \notin LedEvents /\ UNCHANGED tx
    /\ missed' <=> missed /\ e \notin LedEvents
    /\ UNCHANGED <<btnVars, rxVars, sidVars, ledview, cloud, used>>

\* state_notify_data does just that.
LEMMA DataOutcome ==
    ASSUME TypeOK, state_notify_data PROVE DataDoes(Head(msgq))
<1>1. TxGets(Head(msgq)) /\ UNCHANGED <<btnVars, rxVars, sidVars, ledview, cloud, used>>
  BY TxGetsIt DEF state_notify_data, Take
<1> DEFINE e == Head(msgq)
<1>2. /\ state = "DATA" /\ state' = (IF e = "TIME_SYNC_FAIL" THEN "CAPABILITY" ELSE state)
      /\ missed' <=> missed /\ e \notin LedEvents
      /\ tx' = CASE e = "NOTIFY_BUTTON" -> TxAt("read", Buttons, Message(e))
                 [] e \in LedEvents \cup {"NOTIFY_SENSOR"} -> TxAt("send", {}, Message(e))
                 [] OTHER -> tx
  BY DEF state_notify_data
<1>3. e \in Events
  BY <1>1 DEF TxGets
<1> HIDE DEF e
<1>4. \/ tx' = TxAt("read", Buttons, Message(e)) /\ e = "NOTIFY_BUTTON"
      \/ tx' = TxAt("send", {}, Message(e)) /\ e # "NOTIFY_BUTTON"
      \/ e \notin LedEvents /\ UNCHANGED tx
  BY <1>2 DEF LedEvents
<1>5. \/ TxMakes(IF e = "NOTIFY_BUTTON" THEN "read" ELSE "send", e)
      \/ e \notin LedEvents /\ UNCHANGED tx
  BY <1>2, <1>3, <1>4, MakesIt
<1> QED
  BY <1>1, <1>2, <1>5 DEF DataDoes, e

\* One button is read.
ReadDoes(b) ==
    /\ tx.pc = "read" /\ b \in tx.todo
    /\ tx' \in TxStates
    /\ tx'.pc = (IF tx.todo = {b} THEN "send" ELSE "read")
    /\ tx'.todo = tx.todo \ {b}
    /\ tx'.msg.event = tx.msg.event
    /\ tx'.msg.buttons = (IF b \in press THEN tx.msg.buttons \cup {b} ELSE tx.msg.buttons)
    /\ tx'.pc = "send" => tx'.msg.mask = last_link_mask
    /\ UNCHANGED <<state, msgq, btnVars, rxVars, sidVars, ledVars, cloud, used>>

\* ReadButton reads some button so.
LEMMA ReadOutcome == ASSUME TypeOK, ReadButton PROVE \E b \in Buttons : ReadDoes(b)
<1>1. PICK b \in tx.todo :
        LET read == [tx.msg EXCEPT !.buttons = IF b \in press THEN @ \cup {b} ELSE @]
        IN  tx' = IF tx.todo = {b} THEN TxAt("send", {}, [read EXCEPT !.mask = last_link_mask])
                                   ELSE TxAt("read", tx.todo \ {b}, read)
  BY DEF ReadButton
<1> DEFINE read == [tx.msg EXCEPT !.buttons = IF b \in press THEN @ \cup {b} ELSE @]
           last == [read EXCEPT !.mask = last_link_mask]
<1>2. tx.msg \in Messages /\ b \in Buttons /\ tx.todo \subseteq Buttons
  BY DEF TypeOK
<1>3. /\ read \in Messages /\ read.event = tx.msg.event
      /\ read.buttons = (IF b \in press THEN tx.msg.buttons \cup {b} ELSE tx.msg.buttons)
  BY <1>2 DEF Messages
<1>4. /\ last \in Messages /\ last.event = tx.msg.event /\ last.mask = last_link_mask
      /\ last.buttons = (IF b \in press THEN tx.msg.buttons \cup {b} ELSE tx.msg.buttons)
  BY <1>2, <1>3 DEF Messages, TypeOK
<1>5. tx' = IF tx.todo = {b} THEN TxAt("send", {}, last) ELSE TxAt("read", tx.todo \ {b}, read)
  BY <1>1
<1> HIDE DEF read, last
<1>6. ReadDoes(b)
  <2>1. CASE tx.todo = {b}
    BY <1>2, <1>4, <1>5, <2>1 DEF ReadButton, ReadDoes, TxAt, TxStates
  <2>2. CASE tx.todo # {b}
    BY <1>2, <1>3, <1>5, <2>2 DEF ReadButton, ReadDoes, TxAt, TxStates
  <2> QED
    BY <2>1, <2>2
<1> QED
  BY <1>2, <1>6

\* A message is on its way: the flag of a button message is still to be cleared.
SentDoes ==
    /\ tx' \in TxStates
    /\ \/ tx.msg.event = "NOTIFY_BUTTON" /\ tx'.pc = "sent" /\ tx'.msg = tx.msg
       \/ tx.msg.event # "NOTIFY_BUTTON" /\ tx' = TxWait

\* Sent leaves the task so.
LEMMA SentOutcome == ASSUME TypeOK, Sent PROVE SentDoes
<1>1. CASE tx.msg.event = "NOTIFY_BUTTON"
  BY <1>1 DEF Sent, SentDoes, TypeOK, TxStates
<1>2. CASE tx.msg.event # "NOTIFY_BUTTON"
  BY <1>2, TxWaitShape DEF Sent, SentDoes
<1> QED
  BY <1>1, <1>2

-----------------------------------------------------------------------------
(* The invariant, one step per action. *)

\* Every step keeps the presses that no message reports, but for raced, remembered.
LEMMA PressesStep == ASSUME TypeOK, PressesKnown, Next PROVE PressesKnown'
<1> USE DEF PressesKnown, NoPressForgotten, txVars, btnVars, rxVars, sidVars, ledVars
<1>1. CASE notify_timer_cb
  BY <1>1 DEF notify_timer_cb
<1>2. CASE button_timer_cb
  BY <1>2 DEF button_timer_cb
<1>3. CASE app_btn_event_handler
  BY <1>3 DEF app_btn_event_handler, TooLate
<1>4. CASE BtnHandlerReturns
  BY <1>4 DEF BtnHandlerReturns
<1>5. CASE app_tx_task_init
  BY <1>5 DEF app_tx_task_init, TxWait, TxAt, NoMessage
<1>6. CASE state_init
  BY <1>6 DEF state_init, Take, Ignored, AfterTimeSync, TxAt, Message
<1>7. CASE state_notify_capability
  BY <1>7 DEF state_notify_capability, Take, Ignored, TxAt, Message
<1>8. CASE state_notify_data
  BY <1>8, DataOutcome DEF DataDoes, TxMakes, TypeOK
<1>9. CASE ReadButton
  <2>1. PICK b \in Buttons : ReadDoes(b)
    BY <1>9, ReadOutcome
  <2>2. UNCHANGED <<press, pressing, pending, unreported, raced>>
    BY <2>1 DEF ReadDoes
  <2>3. unreported \ raced \subseteq tx.todo \cup tx.msg.buttons
    BY <2>1 DEF ReadDoes
  <2> QED
    BY <2>1, <2>2, <2>3 DEF ReadDoes
<1>10. CASE SendFails
  BY <1>10 DEF SendFails, NotSent, FlagAfterFailure, TxWait, TxAt, NoMessage
<1>11. CASE SendNow
  <2>1. SentDoes
    BY <1>11, SentOutcome DEF SendNow
  <2>2. /\ unreported' = unreported \ tx.msg.buttons /\ raced' = raced \ tx.msg.buttons
        /\ UNCHANGED <<press, pressing, pending>> /\ tx.pc \in {"send", "put"}
    BY <1>11 DEF SendNow, Sent
  <2>3. CASE tx.msg.event = "NOTIFY_BUTTON" /\ tx'.pc = "sent" /\ tx'.msg = tx.msg
    <3>1. unreported' \subseteq raced'
      BY <2>2, <2>3
    <3> QED
      BY <2>3, <3>1
  <2>4. CASE tx' = TxWait
    BY <2>2, <2>4, TxWaitShape
  <2> QED
    BY <2>1, <2>3, <2>4 DEF SentDoes
<1>12. CASE SendBlocks
  BY <1>12 DEF SendBlocks
<1>13. CASE WaitEnds
  <2>1. SentDoes
    BY <1>13, SentOutcome DEF WaitEnds
  <2>2. /\ unreported' = unreported \ tx.msg.buttons /\ raced' = raced \ tx.msg.buttons
        /\ UNCHANGED <<press, pressing, pending>> /\ tx.pc \in {"send", "put"}
    BY <1>13 DEF WaitEnds, Sent
  <2>3. CASE tx.msg.event = "NOTIFY_BUTTON" /\ tx'.pc = "sent" /\ tx'.msg = tx.msg
    <3>1. unreported' \subseteq raced'
      BY <2>2, <2>3
    <3> QED
      BY <2>3, <3>1
  <2>4. CASE tx' = TxWait
    BY <2>2, <2>4, TxWaitShape
  <2> QED
    BY <2>1, <2>3, <2>4 DEF SentDoes
<1>14. CASE EventSendTimeout
  BY <1>14 DEF EventSendTimeout, NotSent, FlagAfterFailure, TxWait, TxAt, NoMessage
<1>15. CASE FlagClear
  BY <1>15 DEF FlagClear, TxWait, TxAt, NoMessage
<1>16. CASE app_rx_task
  BY <1>16 DEF app_rx_task
<1>17. CASE app_rx_button_resp_process
  BY <1>17 DEF app_rx_button_resp_process
<1>18. CASE TurnLed
  BY <1>18 DEF TurnLed
<1>19. CASE app_rx_led_req_process
  BY <1>19 DEF app_rx_led_req_process, AskLedResponse
<1>20. CASE SidewalkSends
  BY <1>20 DEF SidewalkSends
<1>21. CASE on_sidewalk_status_changed
  BY <1>21 DEF on_sidewalk_status_changed
<1>22. CASE Answer
  <2>1. UNCHANGED <<tx, press, pressing, pending, unreported, raced>>
    BY <1>22 DEF Answer, on_sidewalk_msg_received
  <2> QED
    BY <2>1
<1>23. CASE Request
  BY <1>23 DEF Request, on_sidewalk_msg_received
<1> QED
  BY SendCases, <1>1, <1>2, <1>3, <1>4, <1>5, <1>6, <1>7, <1>8, <1>9, <1>10, <1>11, <1>12,
     <1>13, <1>14, <1>15, <1>16, <1>17, <1>18, <1>19, <1>20, <1>21, <1>22, <1>23
     DEF Next, Tx, Rx

\* What the cloud answers is a downlink, and a success is remembered.
LEMMA AnswerOutcome ==
    ASSUME TypeOK, Answer
    PROVE  \E d \in Downlinks :
              /\ on_sidewalk_msg_received(d)
              /\ CapabilityOk(d) => cloud'.accepted
              /\ cloud.accepted => cloud'.accepted
              /\ cloud' \in [capability : BOOLEAN, buttons : SUBSET Buttons, accepted : BOOLEAN]
<1> USE DEF TypeOK
<1>1. ASSUME NEW ok \in BOOLEAN,
             cloud' = [cloud EXCEPT !.capability = FALSE, !.accepted = @ \/ ok],
             on_sidewalk_msg_received(
                 [kind |-> IF ok THEN "capability" ELSE "capability_failed", ids |-> {}])
      PROVE  \E d \in Downlinks :
                /\ on_sidewalk_msg_received(d)
                /\ CapabilityOk(d) => cloud'.accepted
                /\ cloud.accepted => cloud'.accepted
                /\ cloud' \in [capability : BOOLEAN, buttons : SUBSET Buttons,
                               accepted : BOOLEAN]
  <2> DEFINE d == [kind |-> IF ok THEN "capability" ELSE "capability_failed", ids |-> {}]
  <2>1. d \in Downlinks /\ (CapabilityOk(d) => ok)
    BY DEF Downlinks, CapabilityOk
  <2>2. /\ cloud' \in [capability : BOOLEAN, buttons : SUBSET Buttons, accepted : BOOLEAN]
        /\ ok \/ cloud.accepted => cloud'.accepted
    BY <1>1
  <2> QED
    BY <1>1, <2>1, <2>2
<1>2. ASSUME NEW seen \in SUBSET cloud.buttons, cloud' = [cloud EXCEPT !.buttons = @ \ seen],
             on_sidewalk_msg_received([kind |-> "button", ids |-> seen])
      PROVE  \E d \in Downlinks :
                /\ on_sidewalk_msg_received(d)
                /\ CapabilityOk(d) => cloud'.accepted
                /\ cloud.accepted => cloud'.accepted
                /\ cloud' \in [capability : BOOLEAN, buttons : SUBSET Buttons,
                               accepted : BOOLEAN]
  <2> DEFINE d == [kind |-> "button", ids |-> seen]
  <2>1. d \in Downlinks /\ ~CapabilityOk(d)
    BY DEF Downlinks, CapabilityOk
  <2>2. /\ cloud' \in [capability : BOOLEAN, buttons : SUBSET Buttons, accepted : BOOLEAN]
        /\ cloud.accepted => cloud'.accepted
    BY <1>2
  <2> QED
    BY <1>2, <2>1, <2>2
<1> QED
  BY <1>1, <1>2 DEF Answer

\* Every step keeps successes on their way ones the cloud sent.
LEMMA AcceptedStep == ASSUME TypeOK, AcceptedKnown, Next PROVE AcceptedKnown'
<1> USE DEF AcceptedKnown, DataAfterCapability, txVars, btnVars, rxVars, sidVars, ledVars
<1>1. CASE notify_timer_cb
  <2>1. TxPuts("NOTIFY_SENSOR") /\ UNCHANGED <<state, rxq, cloud>>
    BY <1>1, TxPutsIt DEF notify_timer_cb, Events
  <2> QED
    BY <2>1 DEF TxPuts
<1>2. CASE button_timer_cb
  <2>1. TxPuts("NOTIFY_BUTTON") /\ UNCHANGED <<state, rxq, cloud>>
    BY <1>2, TxPutsIt DEF button_timer_cb, Events
  <2> QED
    BY <2>1 DEF TxPuts
<1>3. CASE app_btn_event_handler
  <2>1. UNCHANGED <<state, msgq, rxq, cloud>>
    BY <1>3 DEF app_btn_event_handler
  <2> QED
    BY <2>1
<1>4. CASE BtnHandlerReturns
  <2>1. UNCHANGED <<state, msgq, rxq, cloud>>
    BY <1>4 DEF BtnHandlerReturns
  <2> QED
    BY <2>1
<1>5. CASE app_tx_task_init
  <2>1. msgq' = <<>> /\ UNCHANGED <<state, rxq, cloud>>
    BY <1>5 DEF app_tx_task_init
  <2> QED
    BY <2>1, EmptyIn
<1>6. CASE state_init
  <2>1. TxGets(Head(msgq)) /\ UNCHANGED <<rxq, cloud>> /\ state' # "DATA"
    BY <1>6, TxGetsIt DEF state_init, Take, AfterTimeSync
  <2> QED
    BY <2>1 DEF TxGets
<1>7. CASE state_notify_capability
  <2>1. CapabilityDoes(Head(msgq))
    BY <1>7, CapabilityOutcome
  <2> QED
    BY <2>1 DEF CapabilityDoes, TxGets
<1>8. CASE state_notify_data
  <2>1. DataDoes(Head(msgq))
    BY <1>8, DataOutcome
  <2> QED
    BY <2>1 DEF DataDoes, TxGets
<1>9. CASE ReadButton
  <2>1. UNCHANGED <<state, msgq, rxq, cloud>>
    BY <1>9 DEF ReadButton
  <2> QED
    BY <2>1
<1>10. CASE SendFails
  <2>1. UNCHANGED <<state, msgq, rxq, cloud>>
    BY <1>10 DEF SendFails, NotSent, FlagAfterFailure, TxWait, TxAt, NoMessage
  <2> QED
    BY <2>1
<1>11. CASE SendNow
  <2>1. UNCHANGED <<state, msgq, rxq, cloud>>
    BY <1>11 DEF SendNow, Sent, TxWait, TxAt, NoMessage
  <2> QED
    BY <2>1
<1>12. CASE SendBlocks
  <2>1. UNCHANGED <<state, msgq, rxq, cloud>>
    BY <1>12 DEF SendBlocks
  <2> QED
    BY <2>1
<1>13. CASE WaitEnds
  <2>1. UNCHANGED <<state, msgq, rxq, cloud>>
    BY <1>13 DEF WaitEnds, Sent, TxWait, TxAt, NoMessage
  <2> QED
    BY <2>1
<1>14. CASE EventSendTimeout
  <2>1. UNCHANGED <<state, msgq, rxq, cloud>>
    BY <1>14 DEF EventSendTimeout, NotSent, FlagAfterFailure, TxWait, TxAt, NoMessage
  <2> QED
    BY <2>1
<1>15. CASE FlagClear
  <2>1. UNCHANGED <<state, msgq, rxq, cloud>>
    BY <1>15 DEF FlagClear
  <2> QED
    BY <2>1
<1>16. CASE app_rx_task
  <2>1. rxq # <<>> /\ rxq' = Tail(rxq) /\ UNCHANGED <<state, cloud>>
    BY <1>16 DEF app_rx_task
  <2>2. Head(rxq) \in Downlinks /\ In(Head(rxq), rxq) /\ \A x : In(x, rxq') => In(x, rxq)
    BY <2>1, RxGetsIt
  <2>3. UNCHANGED msgq \/ (CapabilityOk(Head(rxq)) /\ TxPuts("CAPABILITY_SUCCESS"))
    BY <1>16, TxPutsIt DEF app_rx_task, Events
  <2> QED
    BY <2>1, <2>2, <2>3 DEF TxPuts
<1>17. CASE app_rx_button_resp_process
  <2>1. UNCHANGED <<state, msgq, rxq, cloud>>
    BY <1>17 DEF app_rx_button_resp_process
  <2> QED
    BY <2>1
<1>18. CASE TurnLed
  <2>1. UNCHANGED <<state, msgq, rxq, cloud>>
    BY <1>18 DEF TurnLed
  <2> QED
    BY <2>1
<1>19. CASE app_rx_led_req_process
  <2>1. TxPuts(rx.kind) /\ rx.kind \in LedEvents /\ UNCHANGED <<state, rxq, cloud>>
    BY <1>19, TxPutsIt DEF app_rx_led_req_process, AskLedResponse, Events
  <2> QED
    BY <2>1 DEF TxPuts, LedEvents
<1>20. CASE SidewalkSends
  <2>1. UNCHANGED <<state, msgq, rxq>>
    BY <1>20 DEF SidewalkSends
  <2>2. cloud'.accepted = cloud.accepted
    BY <1>20 DEF SidewalkSends, TypeOK
  <2> QED
    BY <2>1, <2>2
<1>21. CASE on_sidewalk_status_changed
  <2>1. UNCHANGED <<state, rxq, cloud>>
    BY <1>21 DEF on_sidewalk_status_changed
  <2>2. PICK e \in {"TIME_SYNC_SUCCESS", "TIME_SYNC_FAIL"} : TxPuts(e)
    BY <1>21, TxPutsIt DEF on_sidewalk_status_changed, Events
  <2> QED
    BY <2>1, <2>2 DEF TxPuts
<1>22. CASE Answer
  <2>1. UNCHANGED <<state, msgq>>
    BY <1>22 DEF Answer, on_sidewalk_msg_received
  <2>2. PICK d \in Downlinks :
          /\ on_sidewalk_msg_received(d)
          /\ CapabilityOk(d) => cloud'.accepted
          /\ cloud.accepted => cloud'.accepted
    BY <1>22, AnswerOutcome
  <2>3. RxPuts(d)
    BY <2>2, RxPutsIt
  <2> QED
    BY <2>1, <2>2, <2>3 DEF RxPuts
<1>23. CASE Request
  <2>1. PICK d \in Downlinks :
          /\ d.kind \in LedEvents \cup {"unsupported"}
          /\ on_sidewalk_msg_received(d)
    BY <1>23 DEF Request
  <2>2. RxPuts(d) /\ UNCHANGED <<state, msgq, cloud>> /\ ~CapabilityOk(d)
    BY <1>23, <2>1, RxPutsIt DEF Request, on_sidewalk_msg_received, CapabilityOk, LedEvents
  <2> QED
    BY <2>2 DEF RxPuts
<1> QED
  BY SendCases, <1>1, <1>2, <1>3, <1>4, <1>5, <1>6, <1>7, <1>8, <1>9, <1>10, <1>11, <1>12,
     <1>13, <1>14, <1>15, <1>16, <1>17, <1>18, <1>19, <1>20, <1>21, <1>22, <1>23
     DEF Next, Tx, Rx

\* Every step keeps messages on links that were up.
LEMMA LinkStep == ASSUME TypeOK, LinkKnown, Next PROVE LinkKnown'
<1> USE DEF LinkKnown, txVars, btnVars, rxVars, sidVars, ledVars
<1>1. CASE notify_timer_cb
  <2>1. TxPuts("NOTIFY_SENSOR") /\ UNCHANGED <<state, tx, sidq, last_link_mask>>
    BY <1>1, TxPutsIt DEF notify_timer_cb, Events
  <2> QED
    BY <2>1 DEF TxPuts
<1>2. CASE button_timer_cb
  <2>1. TxPuts("NOTIFY_BUTTON") /\ UNCHANGED <<state, tx, sidq, last_link_mask>>
    BY <1>2, TxPutsIt DEF button_timer_cb, Events
  <2> QED
    BY <2>1 DEF TxPuts
<1>3. CASE app_btn_event_handler
  <2>1. UNCHANGED <<state, msgq, tx, sidq, last_link_mask>>
    BY <1>3 DEF app_btn_event_handler
  <2> QED
    BY <2>1
<1>4. CASE BtnHandlerReturns
  <2>1. UNCHANGED <<state, msgq, tx, sidq, last_link_mask>>
    BY <1>4 DEF BtnHandlerReturns
  <2> QED
    BY <2>1
<1>5. CASE app_tx_task_init
  <2>1. msgq' = <<>> /\ tx' = TxWait /\ UNCHANGED <<state, sidq, last_link_mask>>
    BY <1>5 DEF app_tx_task_init
  <2> QED
    BY <2>1, EmptyIn, TxWaitShape
<1>6. CASE state_init
  <2>1. /\ TxGets(Head(msgq)) /\ UNCHANGED <<tx, sidq, last_link_mask>>
        /\ state' = state \/ Head(msgq) = "TIME_SYNC_SUCCESS"
    BY <1>6, TxGetsIt DEF state_init, Take
  <2> QED
    BY <2>1 DEF TxGets
<1>7. CASE state_notify_capability
  <2>1. CapabilityDoes(Head(msgq))
    BY <1>7, CapabilityOutcome
  <2> QED
    BY <2>1 DEF CapabilityDoes, TxGets, TxMakes
<1>8. CASE state_notify_data
  <2>1. DataDoes(Head(msgq))
    BY <1>8, DataOutcome
  <2> QED
    BY <2>1 DEF DataDoes, TxGets, TxMakes
<1>9. CASE ReadButton
  <2>1. PICK b \in Buttons : ReadDoes(b)
    BY <1>9, ReadOutcome
  <2> QED
    BY <2>1 DEF ReadDoes
<1>10. CASE SendFails
  <2>1. tx' = TxWait /\ UNCHANGED <<state, msgq, sidq, last_link_mask>>
    BY <1>10 DEF SendFails, NotSent
  <2> QED
    BY <2>1, TxWaitShape
<1>11. CASE SendNow
  <2>1. SentDoes /\ tx.pc \in {"send", "put"} /\ UNCHANGED <<state, msgq, last_link_mask>>
    BY <1>11, SentOutcome DEF SendNow, Sent
  <2>2. \A x : In(x, sidq') <=> In(x, sidq) \/ x = tx.msg
    BY <1>11, SidPutsIt DEF SendNow
  <2> QED
    BY <2>1, <2>2, TxWaitShape DEF SentDoes
<1>12. CASE SendBlocks
  <2>1. /\ tx.pc = "send" /\ tx'.pc = "put" /\ tx'.msg = tx.msg
        /\ UNCHANGED <<state, msgq, sidq, last_link_mask>>
    BY <1>12 DEF SendBlocks, TypeOK
  <2> QED
    BY <2>1
<1>13. CASE WaitEnds
  <2>1. SentDoes /\ tx.pc \in {"send", "put"} /\ UNCHANGED <<state, msgq, last_link_mask>>
    BY <1>13, SentOutcome DEF WaitEnds, Sent
  <2>2. \A x : In(x, sidq') <=> In(x, sidq) \/ x = tx.msg
    BY <1>13, SidPutsIt DEF WaitEnds
  <2> QED
    BY <2>1, <2>2, TxWaitShape DEF SentDoes
<1>14. CASE EventSendTimeout
  <2>1. tx' = TxWait /\ UNCHANGED <<state, msgq, sidq, last_link_mask>>
    BY <1>14 DEF EventSendTimeout, NotSent
  <2> QED
    BY <2>1, TxWaitShape
<1>15. CASE FlagClear
  <2>1. tx' = TxWait /\ UNCHANGED <<state, msgq, sidq, last_link_mask>>
    BY <1>15 DEF FlagClear
  <2> QED
    BY <2>1, TxWaitShape
<1>16. CASE app_rx_task
  <2>1. UNCHANGED <<state, tx, sidq, last_link_mask>>
    BY <1>16 DEF app_rx_task
  <2>2. UNCHANGED msgq \/ TxPuts("CAPABILITY_SUCCESS")
    BY <1>16, TxPutsIt DEF app_rx_task, Events
  <2> QED
    BY <2>1, <2>2 DEF TxPuts
<1>17. CASE app_rx_button_resp_process
  <2>1. UNCHANGED <<state, msgq, tx, sidq, last_link_mask>>
    BY <1>17 DEF app_rx_button_resp_process
  <2> QED
    BY <2>1
<1>18. CASE TurnLed
  <2>1. UNCHANGED <<state, msgq, tx, sidq, last_link_mask>>
    BY <1>18 DEF TurnLed
  <2> QED
    BY <2>1
<1>19. CASE app_rx_led_req_process
  <2>1. /\ TxPuts(rx.kind) /\ rx.kind \in LedEvents
        /\ UNCHANGED <<state, tx, sidq, last_link_mask>>
    BY <1>19, TxPutsIt DEF app_rx_led_req_process, AskLedResponse, Events
  <2> QED
    BY <2>1 DEF TxPuts, LedEvents
<1>20. CASE SidewalkSends
  <2>1. UNCHANGED <<state, msgq, tx, last_link_mask>>
    BY <1>20 DEF SidewalkSends
  <2>2. \A x : In(x, sidq') => In(x, sidq)
    BY <1>20, SidGetsIt DEF SidewalkSends
  <2> QED
    BY <2>1, <2>2
<1>21. CASE on_sidewalk_status_changed
  <2>1. UNCHANGED <<state, tx, sidq>>
    BY <1>21 DEF on_sidewalk_status_changed
  <2>2. PICK mask \in SUBSET Links, synced \in BOOLEAN :
          /\ synced => mask \cup last_link_mask # {}
          /\ last_link_mask' = app_tx_last_link_mask_set(mask)
          /\ app_tx_event_send(IF synced THEN "TIME_SYNC_SUCCESS" ELSE "TIME_SYNC_FAIL")
    BY <1>21 DEF on_sidewalk_status_changed
  <2>3. last_link_mask' = {} => last_link_mask = {} /\ ~synced
    BY <2>2 DEF app_tx_last_link_mask_set
  <2>4. TxPuts(IF synced THEN "TIME_SYNC_SUCCESS" ELSE "TIME_SYNC_FAIL")
    BY <2>2, TxPutsIt DEF Events
  <2> QED
    BY <2>1, <2>3, <2>4 DEF TxPuts
<1>22. CASE Answer
  <2>1. UNCHANGED <<state, msgq, tx, sidq, last_link_mask>>
    BY <1>22 DEF Answer, on_sidewalk_msg_received
  <2> QED
    BY <2>1
<1>23. CASE Request
  <2>1. UNCHANGED <<state, msgq, tx, sidq, last_link_mask>>
    BY <1>23 DEF Request, on_sidewalk_msg_received
  <2> QED
    BY <2>1
<1> QED
  BY SendCases, <1>1, <1>2, <1>3, <1>4, <1>5, <1>6, <1>7, <1>8, <1>9, <1>10, <1>11, <1>12,
     <1>13, <1>14, <1>15, <1>16, <1>17, <1>18, <1>19, <1>20, <1>21, <1>22, <1>23
     DEF Next, Tx, Rx

\* Every step keeps the blocks those of the messages queued and being queued.
LEMMA FreedStep == ASSUME TypeOK, MessagesFreed, Next PROVE MessagesFreed'
<1> USE DEF MessagesFreed, txVars, btnVars, rxVars, sidVars, ledVars
<1>1. CASE notify_timer_cb
  <2>1. UNCHANGED <<tx, sidq, blocks>>
    BY <1>1 DEF notify_timer_cb
  <2> QED
    BY <2>1
<1>2. CASE button_timer_cb
  <2>1. UNCHANGED <<tx, sidq, blocks>>
    BY <1>2 DEF button_timer_cb
  <2> QED
    BY <2>1
<1>3. CASE app_btn_event_handler
  <2>1. UNCHANGED <<tx, sidq, blocks>>
    BY <1>3 DEF app_btn_event_handler
  <2> QED
    BY <2>1
<1>4. CASE BtnHandlerReturns
  <2>1. UNCHANGED <<tx, sidq, blocks>>
    BY <1>4 DEF BtnHandlerReturns
  <2> QED
    BY <2>1
<1>5. CASE app_tx_task_init
  <2>1. tx' = TxWait /\ tx.pc # "put" /\ UNCHANGED <<sidq, blocks>>
    BY <1>5 DEF app_tx_task_init
  <2> QED
    BY <2>1, TxWaitShape
<1>6. CASE state_init
  <2>1. UNCHANGED <<tx, sidq, blocks>>
    BY <1>6 DEF state_init, Take, Ignored, AfterTimeSync
  <2> QED
    BY <2>1
<1>7. CASE state_notify_capability
  <2>1. CapabilityDoes(Head(msgq))
    BY <1>7, CapabilityOutcome
  <2>2. tx.pc # "put" /\ tx'.pc # "put" /\ UNCHANGED <<sidq, blocks>>
    BY <2>1 DEF CapabilityDoes, TxGets, TxMakes
  <2> QED
    BY <2>2
<1>8. CASE state_notify_data
  <2>1. DataDoes(Head(msgq))
    BY <1>8, DataOutcome
  <2>2. tx.pc # "put" /\ tx'.pc # "put" /\ UNCHANGED <<sidq, blocks>>
    BY <2>1 DEF DataDoes, TxGets, TxMakes
  <2> QED
    BY <2>2
<1>9. CASE ReadButton
  <2>1. PICK b \in Buttons : ReadDoes(b)
    BY <1>9, ReadOutcome
  <2>2. tx.pc # "put" /\ tx'.pc # "put" /\ UNCHANGED <<sidq, blocks>>
    BY <2>1 DEF ReadDoes
  <2> QED
    BY <2>2
<1>10. CASE SendFails
  <2>1. tx' = TxWait /\ tx.pc # "put" /\ UNCHANGED <<sidq, blocks>>
    BY <1>10 DEF SendFails, NotSent
  <2> QED
    BY <2>1, TxWaitShape
<1>11. CASE SendNow
  <2>1. tx.pc # "put" /\ blocks' = blocks + 2
    BY <1>11 DEF SendNow
  <2>2. tx'.pc # "put"
    BY <1>11, SentOutcome, TxWaitShape DEF SendNow, SentDoes
  <2>3. Len(sidq) \in Nat /\ Len(sidq') = Len(sidq) + 1
    BY <1>11, SidPutsIt DEF SendNow
  <2> QED
    BY <2>1, <2>2, <2>3
<1>12. CASE SendBlocks
  <2>1. tx.pc # "put" /\ tx'.pc = "put" /\ blocks' = blocks + 2 /\ UNCHANGED sidq
    BY <1>12 DEF SendBlocks, TypeOK
  <2>2. Len(sidq) \in Nat
    BY LenProperties DEF TypeOK
  <2> QED
    BY <2>1, <2>2
<1>13. CASE WaitEnds
  <2>1. tx.pc = "put" /\ blocks' = blocks
    BY <1>13 DEF WaitEnds
  <2>2. tx'.pc # "put"
    BY <1>13, SentOutcome, TxWaitShape DEF WaitEnds, SentDoes
  <2>3. Len(sidq) \in Nat /\ Len(sidq') = Len(sidq) + 1
    BY <1>13, SidPutsIt DEF WaitEnds
  <2> QED
    BY <2>1, <2>2, <2>3
<1>14. CASE EventSendTimeout
  <2>1. tx' = TxWait /\ tx.pc = "put" /\ UNCHANGED sidq /\ blocks' = blocks - 2
    BY <1>14 DEF EventSendTimeout, NotSent, BlocksAfterTimeout
  <2>2. Len(sidq) \in Nat
    BY LenProperties DEF TypeOK
  <2> QED
    BY <2>1, <2>2, TxWaitShape
<1>15. CASE FlagClear
  <2>1. tx' = TxWait /\ tx.pc # "put" /\ UNCHANGED <<sidq, blocks>>
    BY <1>15 DEF FlagClear
  <2> QED
    BY <2>1, TxWaitShape
<1>16. CASE app_rx_task
  <2>1. UNCHANGED <<tx, sidq, blocks>>
    BY <1>16 DEF app_rx_task
  <2> QED
    BY <2>1
<1>17. CASE app_rx_button_resp_process
  <2>1. UNCHANGED <<tx, sidq, blocks>>
    BY <1>17 DEF app_rx_button_resp_process
  <2> QED
    BY <2>1
<1>18. CASE TurnLed
  <2>1. UNCHANGED <<tx, sidq, blocks>>
    BY <1>18 DEF TurnLed
  <2> QED
    BY <2>1
<1>19. CASE app_rx_led_req_process
  <2>1. UNCHANGED <<tx, sidq, blocks>>
    BY <1>19 DEF app_rx_led_req_process, AskLedResponse
  <2> QED
    BY <2>1
<1>20. CASE SidewalkSends
  <2>1. UNCHANGED tx /\ blocks' = blocks - 2
    BY <1>20 DEF SidewalkSends
  <2>2. Len(sidq) \in Nat /\ Len(sidq') = Len(sidq) - 1
    BY <1>20, SidGetsIt DEF SidewalkSends
  <2> QED
    BY <2>1, <2>2
<1>21. CASE on_sidewalk_status_changed
  <2>1. UNCHANGED <<tx, sidq, blocks>>
    BY <1>21 DEF on_sidewalk_status_changed
  <2> QED
    BY <2>1
<1>22. CASE Answer
  <2>1. UNCHANGED <<tx, sidq, blocks>>
    BY <1>22 DEF Answer, on_sidewalk_msg_received
  <2> QED
    BY <2>1
<1>23. CASE Request
  <2>1. UNCHANGED <<tx, sidq, blocks>>
    BY <1>23 DEF Request, on_sidewalk_msg_received
  <2> QED
    BY <2>1
<1> QED
  BY SendCases, <1>1, <1>2, <1>3, <1>4, <1>5, <1>6, <1>7, <1>8, <1>9, <1>10, <1>11, <1>12,
     <1>13, <1>14, <1>15, <1>16, <1>17, <1>18, <1>19, <1>20, <1>21, <1>22, <1>23
     DEF Next, Tx, Rx

\* Every step keeps the last LED response true, or another one due.
LEMMA LedsStep == ASSUME TypeOK, PressesKnown, LedsKnown, Next PROVE LedsKnown'
<1> USE DEF LedsKnown, LedMaking, LedFollows, txVars, btnVars, rxVars, sidVars, ledVars
<1>1. CASE notify_timer_cb
  <2>1. TxPuts("NOTIFY_SENSOR") /\ UNCHANGED <<tx, rx, leds, ledview, missed>>
    BY <1>1, TxPutsIt DEF notify_timer_cb, Events
  <2> QED
    BY <2>1 DEF TxPuts, Accepted
<1>2. CASE button_timer_cb
  <2>1. TxPuts("NOTIFY_BUTTON") /\ UNCHANGED <<tx, rx, leds, ledview, missed>>
    BY <1>2, TxPutsIt DEF button_timer_cb, Events
  <2> QED
    BY <2>1 DEF TxPuts, Accepted
<1>3. CASE app_btn_event_handler
  <2>1. UNCHANGED <<tx, msgq, rx, leds, ledview, missed>>
    BY <1>3 DEF app_btn_event_handler
  <2> QED
    BY <2>1
<1>4. CASE BtnHandlerReturns
  <2>1. UNCHANGED <<tx, msgq, rx, leds, ledview, missed>>
    BY <1>4 DEF BtnHandlerReturns
  <2> QED
    BY <2>1
<1>5. CASE app_tx_task_init
  <2>1. msgq' = <<>> /\ tx.pc = "new" /\ tx' = TxWait /\ UNCHANGED <<rx, leds, ledview, missed>>
    BY <1>5 DEF app_tx_task_init
  <2>2. UNCHANGED msgq
    BY <2>1
  <2> QED
    BY <2>1, <2>2, TxWaitShape
<1>6. CASE state_init
  <2>1. /\ TxGets(Head(msgq)) /\ UNCHANGED <<tx, rx, leds, ledview>>
        /\ missed' <=> missed \/ Head(msgq) \in LedEvents
    BY <1>6, TxGetsIt DEF state_init, Take, Ignored
  <2> QED
    BY <2>1 DEF TxGets, LedEvents
<1>7. CASE state_notify_capability
  <2>1. CapabilityDoes(Head(msgq))
    BY <1>7, CapabilityOutcome
  <2> QED
    BY <2>1 DEF CapabilityDoes, TxGets, TxMakes, LedEvents
<1>8. CASE state_notify_data
  <2>1. DataDoes(Head(msgq))
    BY <1>8, DataOutcome
  <2>2. CASE Head(msgq) \in LedEvents
    <3>1. TxMakes("send", Head(msgq))
      BY <2>1, <2>2 DEF DataDoes, LedEvents
    <3> QED
      BY <2>1, <2>2, <3>1 DEF DataDoes, TxMakes
  <2>3. CASE Head(msgq) \notin LedEvents
    <3>1. LedFollows => LedFollows'
      BY <2>1, <2>3 DEF DataDoes, TxGets, LedEvents
    <3>2. tx.pc = "wait" /\ ~LedMaking' /\ tx'.pc # "new"
      BY <2>1, <2>3 DEF DataDoes, TxGets, TxMakes
    <3>3. UNCHANGED <<leds, ledview>>
      BY <2>1 DEF DataDoes
    <3> QED
      BY <3>1, <3>2, <3>3
  <2> QED
    BY <2>2, <2>3
<1>9. CASE ReadButton
  <2>1. PICK b \in Buttons : ReadDoes(b)
    BY <1>9, ReadOutcome
  <2>2. tx.msg.event = "NOTIFY_BUTTON"
    BY <2>1 DEF ReadDoes, PressesKnown
  <2> QED
    BY <2>1, <2>2 DEF ReadDoes, LedEvents
<1>10. CASE SendFails
  <2>1. /\ tx' = TxWait /\ UNCHANGED <<msgq, rx, leds, ledview>>
        /\ missed' <=> missed \/ tx.msg.event \in LedEvents
    BY <1>10 DEF SendFails, NotSent
  <2> QED
    BY <2>1, TxWaitShape
<1>11. CASE SendNow
  <2>1. SentDoes /\ tx.pc \in {"send", "put"} /\ UNCHANGED <<msgq, rx, leds, missed>>
    BY <1>11, SentOutcome DEF SendNow, Sent
  <2>2. ledview' = IF tx.msg.event \in LedEvents THEN tx.msg.leds ELSE ledview
    BY <1>11 DEF SendNow, Sent
  <2>3. tx'.pc \in {"sent", "wait"}
    BY <2>1, TxWaitShape DEF SentDoes
  <2> QED
    BY <2>1, <2>2, <2>3
<1>12. CASE SendBlocks
  <2>1. /\ tx.pc = "send" /\ tx'.pc = "put" /\ tx'.msg = tx.msg
        /\ UNCHANGED <<msgq, rx, leds, ledview, missed>>
    BY <1>12 DEF SendBlocks, TypeOK
  <2> QED
    BY <2>1
<1>13. CASE WaitEnds
  <2>1. SentDoes /\ tx.pc \in {"send", "put"} /\ UNCHANGED <<msgq, rx, leds, missed>>
    BY <1>13, SentOutcome DEF WaitEnds, Sent
  <2>2. ledview' = IF tx.msg.event \in LedEvents THEN tx.msg.leds ELSE ledview
    BY <1>13 DEF WaitEnds, Sent
  <2>3. tx'.pc \in {"sent", "wait"}
    BY <2>1, TxWaitShape DEF SentDoes
  <2> QED
    BY <2>1, <2>2, <2>3
<1>14. CASE EventSendTimeout
  <2>1. /\ tx' = TxWait /\ UNCHANGED <<msgq, rx, leds, ledview>>
        /\ missed' <=> missed \/ tx.msg.event \in LedEvents
    BY <1>14 DEF EventSendTimeout, NotSent
  <2> QED
    BY <2>1, TxWaitShape
<1>15. CASE FlagClear
  <2>1. tx.pc = "sent" /\ tx' = TxWait /\ UNCHANGED <<msgq, rx, leds, ledview, missed>>
    BY <1>15 DEF FlagClear
  <2> QED
    BY <2>1, TxWaitShape
<1>16. CASE app_rx_task
  <2>1. UNCHANGED <<tx, leds, ledview, missed>> /\ rx = RxWait
    BY <1>16 DEF app_rx_task
  <2>2. rx.kind \notin LedEvents
    BY <2>1 DEF RxWait, LedEvents
  <2>3. UNCHANGED msgq \/ TxPuts("CAPABILITY_SUCCESS")
    BY <1>16, TxPutsIt DEF app_rx_task, Events
  <2> QED
    BY <2>1, <2>2, <2>3 DEF TxPuts, Accepted
<1>17. CASE app_rx_button_resp_process
  <2>1. /\ UNCHANGED <<tx, msgq, leds, ledview, missed>>
        /\ rx.kind = "button" /\ rx'.kind \notin LedEvents
    BY <1>17 DEF app_rx_button_resp_process, RxWait, LedEvents, TypeOK
  <2> QED
    BY <2>1 DEF LedEvents
<1>18. CASE TurnLed
  <2>1. UNCHANGED <<tx, msgq, ledview, missed>> /\ rx'.kind \in LedEvents
    BY <1>18 DEF TurnLed, TypeOK
  <2> QED
    BY <2>1
<1>19. CASE app_rx_led_req_process
  <2>1. /\ TxPuts(rx.kind) /\ rx.kind \in LedEvents /\ UNCHANGED <<tx, leds, ledview>>
        /\ missed' <=> missed \/ ~Accepted
    BY <1>19, TxPutsIt DEF app_rx_led_req_process, AskLedResponse, Events
  <2> QED
    BY <2>1 DEF TxPuts, LedEvents, Accepted
<1>20. CASE SidewalkSends
  <2>1. UNCHANGED <<tx, msgq, rx, leds, ledview, missed>>
    BY <1>20 DEF SidewalkSends
  <2> QED
    BY <2>1
<1>21. CASE on_sidewalk_status_changed
  <2>1. UNCHANGED <<tx, rx, leds, ledview, missed>>
    BY <1>21 DEF on_sidewalk_status_changed
  <2>2. PICK e \in {"TIME_SYNC_SUCCESS", "TIME_SYNC_FAIL"} : TxPuts(e)
    BY <1>21, TxPutsIt DEF on_sidewalk_status_changed, Events
  <2> QED
    BY <2>1, <2>2 DEF TxPuts, Accepted
<1>22. CASE Answer
  <2>1. UNCHANGED <<tx, msgq, rx, leds, ledview, missed>>
    BY <1>22 DEF Answer, on_sidewalk_msg_received
  <2> QED
    BY <2>1
<1>23. CASE Request
  <2>1. UNCHANGED <<tx, msgq, rx, leds, ledview, missed>>
    BY <1>23 DEF Request, on_sidewalk_msg_received
  <2> QED
    BY <2>1
<1> QED
  BY SendCases, <1>1, <1>2, <1>3, <1>4, <1>5, <1>6, <1>7, <1>8, <1>9, <1>10, <1>11, <1>12,
     <1>13, <1>14, <1>15, <1>16, <1>17, <1>18, <1>19, <1>20, <1>21, <1>22, <1>23
     DEF Next, Tx, Rx

-----------------------------------------------------------------------------
(* Types. *)

RxTypes ==
    /\ leds \subseteq Leds
    /\ rxq \in Seq(Downlinks) /\ Len(rxq) <= RxQueueSize
    /\ rx \in [kind : {"none"}, todo : {{}}] \cup [kind : {"button"}, todo : SUBSET Buttons] \cup
             [kind : LedEvents, todo : SUBSET Leds]

\* TypeOK but for the number of blocks, which MessagesFreed bounds from below.
Typed ==
    /\ state \in {"INIT", "CAPABILITY", "DATA"}
    /\ msgq \in Seq(Events) /\ Len(msgq) <= TxQueueSize
    /\ tx \in TxStates
    /\ press \subseteq Buttons /\ pressing \subseteq Buttons /\ pending \in BOOLEAN
    /\ last_link_mask \subseteq Links
    /\ RxTypes
    /\ sidq \in Seq(Messages) /\ Len(sidq) <= SidQueueSize
    /\ cloud \in [capability : BOOLEAN, buttons : SUBSET Buttons, accepted : BOOLEAN]
    /\ used \in [{"stimuli", "failures"} -> Nat]
    /\ unreported \subseteq Buttons /\ raced \subseteq Buttons
    /\ ledview \subseteq Leds /\ missed \in BOOLEAN

\* The parts of TypeOK.
LEMMA TypeParts == TypeOK <=> Typed /\ blocks \in Nat
  BY DEF TypeOK, Typed, RxTypes, TxStates

\* The bounded counters count.
LEMMA UseCounts ==
    ASSUME Typed, NEW c \in {"stimuli", "failures"}, NEW n, Use(c, n)
    PROVE  used' \in [{"stimuli", "failures"} -> Nat]
<1>1. used \in [{"stimuli", "failures"} -> Nat] /\ used' = [used EXCEPT ![c] = @ + 1]
  BY DEF Typed, Use
<1>2. used[c] + 1 \in Nat
  BY <1>1
<1> QED
  BY <1>1, <1>2

\* The receive task's job: a received button response or LED request.
LEMMA RxTakes ==
    ASSUME TypeOK, app_rx_task
    PROVE  RxTypes' /\ (CapabilityOk(Head(rxq)) \/ UNCHANGED msgq)
<1>1. /\ Head(rxq) \in Downlinks /\ rxq' \in Seq(Downlinks) /\ Len(rxq') <= RxQueueSize
      /\ rx' = IF Head(rxq).ids # {} THEN [kind |-> Head(rxq).kind, todo |-> Head(rxq).ids]
                                     ELSE RxWait
      /\ UNCHANGED leds
  BY RxGetsIt DEF app_rx_task
<1>2. rx' \in [kind : {"none"}, todo : {{}}] \cup [kind : {"button"}, todo : SUBSET Buttons] \cup
              [kind : LedEvents, todo : SUBSET Leds]
  BY <1>1 DEF Downlinks, RxWait, LedEvents
<1> QED
  BY <1>1, <1>2 DEF app_rx_task, RxTypes, TypeOK

\* A button of a response is processed.
LEMMA RxButtonTypes == ASSUME TypeOK, app_rx_button_resp_process PROVE RxTypes'
<1>1. PICK b \in rx.todo : rx' = IF rx.todo = {b} THEN RxWait ELSE [rx EXCEPT !.todo = @ \ {b}]
  BY DEF app_rx_button_resp_process
<1>2. rx \in [kind : {"button"}, todo : SUBSET Buttons]
  BY DEF app_rx_button_resp_process, TypeOK, LedEvents
<1>3. CASE rx.todo = {b}
  BY <1>1, <1>3 DEF app_rx_button_resp_process, TypeOK, RxTypes, RxWait
<1>4. CASE rx.todo # {b}
  BY <1>1, <1>2, <1>4 DEF app_rx_button_resp_process, TypeOK, RxTypes
<1> QED
  BY <1>3, <1>4

\* An LED is turned.
LEMMA TurnLedTypes == ASSUME TypeOK, TurnLed PROVE RxTypes'
<1>1. PICK l \in rx.todo :
        /\ leds' = IF rx.kind = "RESP_LED_ON" THEN leds \cup {l} ELSE leds \ {l}
        /\ rx' = [rx EXCEPT !.todo = @ \ {l}]
  BY DEF TurnLed
<1>2. rx \in [kind : LedEvents, todo : SUBSET Leds]
  BY DEF TurnLed, TypeOK, LedEvents
<1> QED
  BY <1>1, <1>2 DEF TurnLed, TypeOK, RxTypes

\* Every step keeps the types.
LEMMA TypedStep == ASSUME TypeOK, Next PROVE Typed'
<1> USE DEF Typed, txVars, btnVars, rxVars, sidVars, ledVars
<1>0. Typed
  BY TypeParts
<1>1. CASE notify_timer_cb
  <2>1. msgq' \in Seq(Events) /\ Len(msgq') <= TxQueueSize
    BY <1>1, TxPutsIt DEF notify_timer_cb, TxPuts, Events
  <2> QED
    BY <1>0, <2>1, <1>1 DEF notify_timer_cb, RxTypes
<1>2. CASE button_timer_cb
  <2>1. msgq' \in Seq(Events) /\ Len(msgq') <= TxQueueSize
    BY <1>2, TxPutsIt DEF button_timer_cb, TxPuts, Events
  <2> QED
    BY <1>0, <2>1, <1>2 DEF button_timer_cb, RxTypes
<1>3. CASE app_btn_event_handler
  <2>1. used' \in [{"stimuli", "failures"} -> Nat]
    BY <1>0, <1>3, UseCounts DEF app_btn_event_handler
  <2> QED
    BY <1>0, <2>1, <1>3 DEF app_btn_event_handler, RxTypes
<1>4. CASE BtnHandlerReturns
  BY <1>0, <1>4 DEF BtnHandlerReturns, RxTypes
<1>5. CASE app_tx_task_init
  <2>1. tx' \in TxStates
    BY <1>5, TxWaitShape DEF app_tx_task_init
  <2>2. msgq' \in Seq(Events) /\ Len(msgq') <= TxQueueSize
    BY <1>5, EmptySeq, ConstantsAssumption DEF app_tx_task_init
  <2> QED
    BY <1>0, <2>1, <2>2, <1>5 DEF app_tx_task_init, RxTypes
<1>6. CASE state_init
  <2>1. msgq' \in Seq(Events) /\ Len(msgq') <= TxQueueSize
    BY <1>6, TxGetsIt DEF state_init, TxGets
  <2> QED
    BY <1>0, <2>1, <1>6 DEF state_init, Take, Ignored, AfterTimeSync, RxTypes
<1>7. CASE state_notify_capability
  <2>1. CapabilityDoes(Head(msgq))
    BY <1>7, CapabilityOutcome
  <2>2. missed' \in BOOLEAN
    BY <1>7 DEF state_notify_capability, Ignored
  <2> QED
    BY <1>0, <2>1, <2>2 DEF CapabilityDoes, TxGets, TxMakes, RxTypes
<1>8. CASE state_notify_data
  <2>1. DataDoes(Head(msgq))
    BY <1>8, DataOutcome
  <2>2. missed' \in BOOLEAN
    BY <1>8 DEF state_notify_data
  <2> QED
    BY <1>0, <2>1, <2>2 DEF DataDoes, TxGets, TxMakes, RxTypes
<1>9. CASE ReadButton
  <2>1. PICK b \in Buttons : ReadDoes(b)
    BY <1>9, ReadOutcome
  <2> QED
    BY <1>0, <2>1 DEF ReadDoes, RxTypes
<1>10. CASE SendFails
  <2>1. tx' \in TxStates /\ used' \in [{"stimuli", "failures"} -> Nat]
    BY <1>0, <1>10, TxWaitShape, UseCounts DEF SendFails, NotSent
  <2>2. missed' \in BOOLEAN /\ pending' \in BOOLEAN
    BY <1>0, <1>10 DEF SendFails, NotSent, FlagAfterFailure
  <2> QED
    BY <1>0, <2>1, <2>2, <1>10 DEF SendFails, NotSent, RxTypes
<1>11. CASE SendNow
  <2>1. tx' \in TxStates /\ sidq' \in Seq(Messages) /\ Len(sidq') <= SidQueueSize
    BY <1>11, SentOutcome, SidPutsIt DEF SendNow, SentDoes
  <2>2. ledview' \subseteq Leds
    BY <1>0, <1>11 DEF SendNow, Sent, TxStates, Messages
  <2> QED
    BY <1>0, <2>1, <2>2, <1>11 DEF SendNow, Sent, RxTypes
<1>12. CASE SendBlocks
  <2>1. tx' \in TxStates
    BY <1>0, <1>12 DEF SendBlocks, TxStates
  <2> QED
    BY <1>0, <2>1, <1>12 DEF SendBlocks, RxTypes
<1>13. CASE WaitEnds
  <2>1. tx' \in TxStates /\ sidq' \in Seq(Messages) /\ Len(sidq') <= SidQueueSize
    BY <1>13, SentOutcome, SidPutsIt DEF WaitEnds, SentDoes
  <2>2. ledview' \subseteq Leds
    BY <1>0, <1>13 DEF WaitEnds, Sent, TxStates, Messages
  <2> QED
    BY <1>0, <2>1, <2>2, <1>13 DEF WaitEnds, Sent, RxTypes
<1>14. CASE EventSendTimeout
  <2>1. tx' \in TxStates /\ used' \in [{"stimuli", "failures"} -> Nat]
    BY <1>0, <1>14, TxWaitShape, UseCounts DEF EventSendTimeout, NotSent
  <2>2. missed' \in BOOLEAN /\ pending' \in BOOLEAN
    BY <1>0, <1>14 DEF EventSendTimeout, NotSent, FlagAfterFailure
  <2> QED
    BY <1>0, <2>1, <2>2, <1>14 DEF EventSendTimeout, NotSent, RxTypes
<1>15. CASE FlagClear
  BY <1>0, <1>15, TxWaitShape DEF FlagClear, RxTypes
<1>16. CASE app_rx_task
  <2>1. RxTypes'
    BY <1>16, RxTakes
  <2>2. msgq' \in Seq(Events) /\ Len(msgq') <= TxQueueSize
    BY <1>0, <1>16, TxPutsIt DEF app_rx_task, TxPuts, Events
  <2> QED
    BY <1>0, <2>1, <2>2, <1>16 DEF app_rx_task
<1>17. CASE app_rx_button_resp_process
  BY <1>0, <1>17, RxButtonTypes DEF app_rx_button_resp_process
<1>18. CASE TurnLed
  BY <1>0, <1>18, TurnLedTypes DEF TurnLed
<1>19. CASE app_rx_led_req_process
  <2>1. msgq' \in Seq(Events) /\ Len(msgq') <= TxQueueSize
    BY <1>19, TxPutsIt DEF app_rx_led_req_process, AskLedResponse, TxPuts, Events
  <2>2. RxTypes' /\ missed' \in BOOLEAN
    BY <1>0, <1>19 DEF app_rx_led_req_process, RxTypes, RxWait
  <2> QED
    BY <1>0, <2>1, <2>2, <1>19 DEF app_rx_led_req_process
<1>20. CASE SidewalkSends
  <2>1. sidq' \in Seq(Messages) /\ Len(sidq') <= SidQueueSize /\ Head(sidq) \in Messages
    BY <1>20, SidGetsIt DEF SidewalkSends
  <2> DEFINE m == Head(sidq)
             Clouds == [capability : BOOLEAN, buttons : SUBSET Buttons, accepted : BOOLEAN]
  <2>3. cloud \in Clouds /\ m.buttons \subseteq Buttons
    BY <1>0, <2>1 DEF Messages
  <2>4. \/ cloud' = cloud
        \/ cloud' = [cloud EXCEPT !.capability = TRUE]
        \/ cloud' = [cloud EXCEPT !.buttons = cloud.buttons \cup m.buttons]
    BY <1>20 DEF SidewalkSends
  <2> HIDE DEF m
  <2>2. cloud' \in Clouds
    BY <2>3, <2>4
  <2> QED
    BY <1>0, <2>1, <2>2, <1>20 DEF SidewalkSends, RxTypes
<1>21. CASE on_sidewalk_status_changed
  <2>1. used' \in [{"stimuli", "failures"} -> Nat]
    BY <1>0, <1>21, UseCounts DEF on_sidewalk_status_changed
  <2>2. msgq' \in Seq(Events) /\ Len(msgq') <= TxQueueSize
    BY <1>21, TxPutsIt DEF on_sidewalk_status_changed, TxPuts, Events
  <2>3. last_link_mask' \subseteq Links
    BY <1>0, <1>21 DEF on_sidewalk_status_changed, app_tx_last_link_mask_set
  <2> QED
    BY <1>0, <2>1, <2>2, <2>3, <1>21 DEF on_sidewalk_status_changed, RxTypes
<1>22. CASE Answer
  <2>1. PICK d \in Downlinks :
          /\ on_sidewalk_msg_received(d)
          /\ cloud' \in [capability : BOOLEAN, buttons : SUBSET Buttons, accepted : BOOLEAN]
    BY <1>22, AnswerOutcome
  <2>2. RxTypes'
    BY <1>0, <2>1, RxPutsIt DEF on_sidewalk_msg_received, RxPuts, RxTypes
  <2> QED
    BY <1>0, <2>1, <2>2, <1>22 DEF Answer, on_sidewalk_msg_received
<1>23. CASE Request
  <2>1. PICK d \in Downlinks : on_sidewalk_msg_received(d)
    BY <1>23 DEF Request
  <2>2. RxTypes'
    BY <1>0, <2>1, RxPutsIt DEF on_sidewalk_msg_received, RxPuts, RxTypes
  <2>3. used' \in [{"stimuli", "failures"} -> Nat]
    BY <1>0, <1>23, UseCounts DEF Request
  <2> QED
    BY <1>0, <2>1, <2>2, <2>3, <1>23 DEF Request, on_sidewalk_msg_received
<1> QED
  BY SendCases, <1>1, <1>2, <1>3, <1>4, <1>5, <1>6, <1>7, <1>8, <1>9, <1>10, <1>11, <1>12,
     <1>13, <1>14, <1>15, <1>16, <1>17, <1>18, <1>19, <1>20, <1>21, <1>22, <1>23
     DEF Next, Tx, Rx

-----------------------------------------------------------------------------
(* The theorems. *)

SensorInv ==
    TypeOK /\ MessagesFreed /\ PressesKnown /\ AcceptedKnown /\ LinkKnown /\ LedsKnown

\* The application starts in the invariant.
LEMMA SensorInit == Init => SensorInv
<1> SUFFICES ASSUME Init PROVE SensorInv
  OBVIOUS
<1>1. NoMessage \in Messages /\ tx.pc = "new" /\ tx \in TxStates
  BY DEF Init, TxAt, TxStates, NoMessage, Messages, Events
<1>2. used \in [{"stimuli", "failures"} -> Nat]
  BY DEF Init
<1>3. msgq = <<>> /\ rxq = <<>> /\ sidq = <<>> /\ blocks = 0
  BY DEF Init
<1>4. /\ msgq \in Seq(Events) /\ rxq \in Seq(Downlinks) /\ sidq \in Seq(Messages)
      /\ Len(msgq) = 0 /\ Len(rxq) = 0 /\ Len(sidq) = 0
  BY <1>3, EmptySeq
<1>5. TypeOK
  <2>1. Len(msgq) <= TxQueueSize /\ Len(rxq) <= RxQueueSize /\ Len(sidq) <= SidQueueSize
    BY <1>4, ConstantsAssumption
  <2>2. RxTypes
    BY <1>4, <2>1 DEF Init, RxTypes, RxWait
  <2> QED
    BY <1>1, <1>2, <1>3, <1>4, <2>1, <2>2, TypeParts DEF Init, Typed
<1>6. MessagesFreed
  BY <1>1, <1>3, <1>4 DEF MessagesFreed
<1>7. PressesKnown
  BY <1>1 DEF Init, PressesKnown, NoPressForgotten
<1>8. AcceptedKnown /\ LinkKnown
  BY <1>1, <1>3, EmptyIn DEF Init, AcceptedKnown, DataAfterCapability, LinkKnown
<1>9. LedsKnown
  BY <1>1 DEF Init, LedsKnown, LedMaking
<1> QED
  BY <1>5, <1>6, <1>7, <1>8, <1>9 DEF SensorInv

\* Nothing depends on more than the variables.
LEMMA SensorStutter == ASSUME SensorInv, UNCHANGED vars PROVE SensorInv'
<1> USE DEF vars, txVars, btnVars, rxVars, sidVars, ledVars
<1>1. TypeOK'
  BY DEF SensorInv, TypeOK
<1>2. MessagesFreed' /\ PressesKnown' /\ AcceptedKnown' /\ LinkKnown' /\ LedsKnown'
  BY DEF SensorInv, MessagesFreed, PressesKnown, NoPressForgotten, AcceptedKnown,
         DataAfterCapability, LinkKnown, LedsKnown, LedMaking, LedFollows
<1> QED
  BY <1>1, <1>2 DEF SensorInv

\* Every step keeps the invariant.
LEMMA SensorStep == ASSUME SensorInv, [Next]_vars PROVE SensorInv'
<1>1. CASE Next
  <2> USE <1>1 DEF SensorInv
  <2>1. Typed' /\ MessagesFreed'
    BY TypedStep, FreedStep
  <2>2. blocks' \in Nat
    BY <2>1, LenProperties DEF Typed, MessagesFreed
  <2>3. TypeOK'
    BY <2>1, <2>2 DEF TypeOK, Typed, RxTypes, TxStates
  <2> QED
    BY <2>1, <2>3, PressesStep, AcceptedStep, LinkStep, LedsStep
<1>2. CASE UNCHANGED vars
  BY <1>2, SensorStutter
<1> QED
  BY <1>1, <1>2

\* In every behaviour the invariant holds in every state.
THEOREM SensorAlwaysInv == Spec => []SensorInv
<1>1. Init => SensorInv
  BY SensorInit
<1>2. SensorInv /\ [Next]_vars => SensorInv'
  BY SensorStep
<1> QED
  BY <1>1, <1>2, PTL DEF Spec

\* A press in no message yet keeps its bit and its flag, whatever sends fail, events
\* are dropped and tasks interleave: app_btn_event_handler against app_tx_task.
THEOREM PressesNeverForgotten == Spec => []NoPressForgotten
<1>1. SensorInv => NoPressForgotten
  BY DEF SensorInv, PressesKnown
<1> QED
  BY <1>1, SensorAlwaysInv, PTL

\* The invariant's parts say of the queues what the properties say.
LEMMA InvSound == SensorInv => UplinksSound
<1> SUFFICES ASSUME SensorInv PROVE UplinksSound
  OBVIOUS
<1>1. /\ msgq \in Seq(Events) /\ sidq \in Seq(Messages)
      /\ DOMAIN msgq = 1 .. Len(msgq) /\ DOMAIN sidq = 1 .. Len(sidq)
  BY LenProperties DEF SensorInv, TypeOK
<1>2. SentOnKnownLink
  <2>1. ASSUME NEW i \in DOMAIN sidq PROVE sidq[i] \in Messages /\ In(sidq[i], sidq)
    BY <1>1, <2>1, ElementOfSeq DEF In
  <2> QED
    BY <2>1 DEF SensorInv, LinkKnown, SentOnKnownLink
<1>3. LedsAsReported
  <2>1. In("RESP_LED_ON", msgq) \/ In("RESP_LED_OFF", msgq) =>
            \E i \in DOMAIN msgq : msgq[i] \in LedEvents
    BY <1>1 DEF In, LedEvents
  <2> QED
    BY <2>1 DEF SensorInv, LedsKnown, LedMaking, LedFollows, LedsAsReported, LedResponseDue
<1> QED
  BY <1>2, <1>3 DEF SensorInv, AcceptedKnown, UplinksSound

\* What goes to the cloud is sound: data only after the capabilities were accepted,
\* on a link that was up, every block freed once, and the LED responses true.
THEOREM UplinksAlwaysSound == Spec => []UplinksSound
  BY InvSound, SensorAlwaysInv, PTL
=============================================================================
