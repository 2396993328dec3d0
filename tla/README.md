# TLA+ models of the Sidewalk end device for nRF Connect SDK

This directory holds TLA+ specifications of the parts of this repository that
carry its own logic, TLC configurations that check them on small instances and
TLAPS proofs. `PROJECT.json` is the index: components, runs, the map from
definitions to source lines, mutants, findings, hazards and theorems.

Contents: [inventory](#inventory) - [plan](#plan) - [modules](#modules) -
[runs](#runs) - [proofs](#proofs) - [what is not modelled](#what-is-not-modelled).

## The system

An nRF device runs the Amazon Sidewalk protocol over Bluetooth LE, FSK or LoRa.
The protocol itself is a closed library. The repository provides what is around
it: the platform abstraction layer (PAL) the library calls (timers, BLE, radio
drivers, storage, crypto), the samples that call the library, and utilities.

```
 buttons, shells ----> sidewalk_event_send ----> Sidewalk thread ----> Sidewalk library
   (interrupts,          (bounded queue)          (event handlers)       | callbacks
    work queue)                ^                                         v
                               +---------- on_sidewalk_* (hello/app.c) --+
                                                                         | sid_pal_*
     +--------------------+-------------------+------------+------------+---------+
     | timer              | BLE adapter       | radio      | storage,   | software |
     | (one kernel timer) | advert, connection| driver     | keys, mfg  | interrupt|
     +--------------------+-------------------+------------+------------+---------+
                            | shared Bluetooth host
                          DFU over BLE (SMP server), exit timer, system work queue
```

## Inventory

Each component: state; operations; who it interacts with; what is hard; what
makes it correct. Bold names are properties some run checks.

**PAL timer** (`sid_timer.c`). State: a list of armed timers sorted by alarm and
one kernel timer. Operations: init, arm, cancel, deinit, the expiry handler and
the callbacks it runs. Clients are the library's threads and interrupts; callbacks
arm and cancel timers again. Hard: critical regions that end between two halves of
an operation, coalescing of low power timers, periodic timers that lag. Correct:
sorted list without duplicates (**ListSorted**, **NoDoubleLink**), no armed timer
forgotten (**HeadCovered**, **DueTimersFire**), cancelled is cancelled
(**DisarmedStaysDisarmed**), never early and not later than the tolerance
(**WithinTolerance**), and all of it as the promised service (**ImplementsService**).

**Sidewalk thread and hello application** (`sidewalk.c`, `sidewalk_events.c`,
`hello/app.c`). State: the event queue, the handle, the link mask in RAM and in
flash, the last status, heap blocks owned by events. Operations: eight event
handlers, library callbacks, buttons, start and reset. Hard: a full queue met by
interrupts, by threads that wait and by the draining thread itself; failures in
the middle of a link switch; resets. Correct: a context is freed once and only
statuses leak (**ContextsOwned**), handle and library agree (**HandleIffUp**), work is scheduled (**WorkIsScheduled**), links survive a
reset (**RestartsOnSameLinks**), statuses arrive in order (**StatusNeverRegresses**,
**StatusApplied**).

**BLE advertising** (`sid_ble_advert.c`). State: one advertising set of the host,
the mode, parameters, data, a delayed work item. Operations: start, update, stop,
deinit, params_set, connection notification, the work item's change from fast to
slow. Hard: the work item runs between any two host calls of the caller; host
calls fail. Correct: no set is lost or used after deletion (**SetsTracked**), what
is on the air is what the state and the data say (**AirMatchesState**), fast
advertising ends (**FastIsLimited**).

**DFU over BLE and the shared Bluetooth host** (`nordic_dfu.c`,
`bt_app_callbacks.c`, the DFU button of `hello/app.c`). State: the host's enable
count, the SMP advertising set, timers, work items, the button's toggle.
Operations: start and stop from the Sidewalk thread, stop by timeout from the work
queue, connections, uploads, the adapter's init and deinit. Hard: the same stop
code run by two threads, a count that changes on one side of a call that blocks, half
failed starts, a count used as an error code. Correct: the host is on for its users and
off without (**HostFollowsUsers**), DFU mode ends (**DfuModeEnds**).

**SX126x radio driver** (`sx126x_radio.c`, `sx126x_hal.c`, parts of the LoRa and
FSK files). State: driver state, exit mode, modem, the chip's mode, interrupt
causes and mask, RF switch, pin interrupt. Operations: those of
`sid_pal_radio_ifc.h`, the interrupt and its bottom half. Hard: the bottom half
restarts the radio by itself, is interleaved with the protocol's calls and calls
back into it; causes are latched, masked and cleared; the HAL wakes the chip on
its own; commands fail. Correct: **TxOnlyWhenAsked**, **ChipTracked**,
**NoInterruptLost**, **OperationsReported**.

**LR11xx radio driver** (`lr11xx_radio.c`, its HAL, LoRa and FSK files). State: as the
SX126x driver's, with the state SCAN, a software timer, `timeout_sim` and
`deferred_timeout`. Operations: those of the interface, and hold and release, by
which the location engine takes the chip for WiFi and GNSS scans. Hard: the protocol
goes on calling during a scan and must be served by simulated ends; hold and release
are interrupted by the protocol between their critical regions; measurements and the
bottom half mask the chip's interrupts on the way. Correct: a scan is
not disturbed (**ScanUndisturbed**), the protocol gets the chip back as it gave it
(**RadioReturned**), and operations end in a report (**OperationsReported**).

**BLE connection and adapter** (`sid_ble_connection.c`, `sid_ble_adapter.c`,
`sid_ble_service.c`). State: `conn_data` with its reference, the peer's address, the
parameters for this and for the next connection. Operations: the connected and
disconnected callbacks on the Bluetooth thread, and on the Sidewalk thread the
parameters, data, power, signal strength and disconnection. Hard: only changes of the
reference are under the mutex; objects of the host are used again and shared with DFU.
Correct: the library knows who is connected (**LibraryKnowsPeer**), references are
balanced (**ReferencesBalanced**), NULL is not used (**NoNullUse**), parameters asked
for are in force (**ParamsApplied**).

**Bulk data file transfer** (`sbdt/dfu_file_transfer.c`, `sbdt/scratch_buffer.c`,
`nordic_dfu_img.c`). State: scratch slots by file, one image writer, chunks in the
event queue. Operations: the library's callbacks (request, data, finalise, cancel,
release), the queued write of a chunk, the reboot event. Hard: callbacks overtake
queued chunks; all files share the writer; the queue is full for the very thread that
drains it. Correct: what is installed is one whole file (**ImageIsOneFile**), success
means installed (**SuccessIsInstalled**), slots and buffers follow the transfers
(**SlotsMatchTransfers**, **BuffersReturned**).

**Manufacturing storage and key import** (`sid_mfg_storage.c`, `sid_mfg_hex_v7.c`,
`sid_mfg_hex_v8.c`, `tlv.c`, `sid_crypto_keys.c`). State: the manufacturing region in
flash, the private keys in secure storage. Operations: the first boot, which imports
the keys and rewrites the region as aligned TLV without them; reads; writes and erase
of diagnostic builds. Hard: a reset between any two writes, padding, offsets. Correct:
a key is never lost (**KeysNotLost**), every value reads back
(**ReadyMeansComplete**), a region is converted once (**ConvertedOnce**).

**Sensor monitoring application** (`sensor_monitoring/app.c`, `app_tx.c`,
`app_rx.c`, `app_buttons.c`). State: the transmit state machine and its queue, the
bits of pressed buttons and the flag that a press is pending, the LEDs, the link
mask, the queue of received messages. Operations: two timers, the button interrupt,
two tasks, status and message callbacks. Hard: bits and flag are set by an interrupt
while the task reads, sends and clears; events and received messages are dropped by
full queues; sends fail. Correct: a press is remembered until it is reported
(**NoPressForgotten**) and is reported (**PressesReported**); capabilities before data,
only known links used, messages freed once, the cloud knows the LEDs
(**UplinksSound**, the conjunction of `DataAfterCapability`, `SentOnKnownLink`,
`MessagesFreed` and `LedsAsReported`).

Not modelled so far, in the order of the plan below:

| component | state and operations | hard | correct means |
|---|---|---|---|
| key-value storage | NVS entries by group and key | a deletion loop half done at a reset | a deleted group is gone |
| on-device certification | a provisioning state machine | steps out of order | no certificate over stale data |
| software interrupt, critical region | one work item, one lock key and a counter | nesting, interrupts between counter and key | callback runs once per trigger, lock released by the last exit |
| LR1110 driver | as the LR11xx driver, older HAL | as LR11xx | as LR11xx |
| the rest | see `PROJECT.json` | wrappers, tables, parsers, closed or vendored code | |

The hazards of `PROJECT.json` are these difficulties at their lines.

## Plan

Done, in the order of importance:

1. `TimerService` (abstract), `SidTimer`: everything in the system waits on the timer.
2. `SidewalkApp`: the application's concurrency.
3. `BleAdvert`, `NordicDfu`: the two users of the Bluetooth host.
4. `Sx126xRadio`: the driver's state machine.
5. `SensorApp`: the second application, its state machine, timers and buttons.
6. `BleConnection`: the connection's reference between two threads.
7. `FileTransfer`: chunks, image and buffers over the event queue.
8. `MfgStorage`: flash contents with a reset at every write.
9. `Lr11xxRadio`: the radio shared with location.

Each has its proofs in a module of its own; those in which Sidewalk shares a radio
(`BleConnection`, `NordicDfu`, `Lr11xxRadio`) have theirs together in `SharingProofs`,
which extends all three. That is why two of them have prefixed names (`DfuSpec`,
`LrSpec`, `DfuTypeOK`, ...).

To do:

10. `KvStorage`: NVS entries and the group deletion loop.
11. `CriticalRegion`, `SwInterrupt`: small, and then used by `SidTimer` in place
    of its atomic steps.
12. On-device certification; the LR1110 driver as an instance of `Lr11xxRadio`.
13. `BleAdvert` and `BleConnection` composed: a connection stops the set, and a
    restart of advertising while connected is what leads to the second connection
    that `BleConnection` allows.

Every safety property of the runs that pass is proved; a module added brings its
theorems with it. The modules are written for proofs: no RECURSIVE operators, named
assumptions, invariants in named parts.

## Modules

Definitions that translate a function carry its name; the map in `PROJECT.json`
gives the lines. A definition named `Mut...` is a plausible bug of the definition
after it; no specification uses it. `PROJECT.json` pairs each property with such
a mutant that breaks it, to show that the property depends on the code.

### SidTimer, TimerService, SidTimerProofs

`SidTimer` is `sid_timer.c`. `list`, `alarm`, `period`, `tolerance` and
`callback` are the context and the fields of `sid_pal_timer_t`; `hw` is the time
the kernel timer is set for; `trigger` is an expiry whose handler has not begun.
Each critical region of the code is one step. What is between two of them is a
step of its own, which is where the races are: a client's arm is `ClientArm`,
`ClientStore`, `ClientInsert`; the handler is `HandlerBegin`, `HandlerFetch`,
`HandlerReinsert`, the callback, `HandlerGetNextSchedule`, `HandlerStart`. A
callback may arm and cancel. With `Preemption` the client is an interrupt that
comes between any two steps of the handler, without it a thread, which the handler
(an interrupt) does not let run. `ClientRequests` and `CallbackRequests` say what
each context arms; both may arm the same timer. `nominal` and `crossed` are history
variables: the time a timer was asked for, and that a callback has armed a timer in the
window of a client's arm, between the look at the list (`:188`) and the insertion (`:198`).
From a crossing on the client changes a timer that is linked and is about to link it again;
`sys_dlist_append` then corrupts the list, and behaviours are followed up to that point.
The properties except what comes after a crossing and show that nothing else breaks them.

`TimerService` is what the interface promises, without list and kernel timer: a
set of pending events, each due at its time or up to its tolerance later.
`SidTimer` implements it with the mapping `Events`: the fields of the timers that are
on the list or in the handler's hands on their way back to it. The refinement ends at a
crossing (`ImplementsService`).

### SidewalkApp, SidewalkAppProofs

The end device's `sidewalk.c`, `sidewalk_events.c` and `hello/app.c` with its
start-up. The queue is bounded; a producer thread that finds it full waits
(`waiting`) and gives up after its timeout; the Sidewalk thread itself, and
interrupts, cannot wait, so their events are dropped. Heap blocks are the event
contexts, allocated by the producer and freed by the thread (`ThreadFree`) or by
the producer whose send failed. The library (`lib`) is external: initialised,
started, its mask, whether it has work. `Faults` names calls that may fail;
`Reboot` keeps the flash and loses the rest.

Chosen out: the persistent link mask is compiled in; `sidewalk_event_exit` has no
sender; LED and log effects are left out, DFU events are in `NordicDfu`.

### BleAdvert, BleAdvertProofs

`sid_ble_advert.c`. The caller (library thread) and the delayable work item
interleave at every call of the Bluetooth host; a connection is one step of the
Bluetooth receive thread together with its notification. `host` is the state of
the host's sets, `adv_set` the pointer. `MayOverlap` says which operations may
begin while the work item runs. `ble_adapter_deinit` calls deinit without a stop, so it
comes in any state. `stale` is a history variable: what `adv_state` still names after a
deinit deleted a set that a connection had taken off the air. The update after it passes
NULL to the host, which `SetsTracked` excepts.

### NordicDfu, SharingProofs

`nordic_dfu.c`, `bt_app_callbacks.c` and the button of `hello/app.c`. Two actors:
the Sidewalk thread (`sid`), which starts and stops DFU mode, and the work queue
(`work`), which stops it by timeout and restarts advertising; the work queue is
cooperative and of higher priority, so of its items one runs at a time and the thread
only while it waits in a call of the host. Every call of the host is a step.
`sid_ble_bt_enable` is the look at the count (`EnableLook`), then the increment of the
value seen (`EnableMore`) or the call of `bt_enable` (`EnableHost`), which blocks, its
answer and the increment after it (`EnableAnswer`); `sid_ble_bt_disable` is the look,
the count set down (`Disable`), `bt_disable`, which blocks, and its answer. An enable
that finds the host on its way off gets `-EALREADY` and goes on. The adapter's init and
deinit and the start and stop of DFU mode pass through the same actions (`who`).

Three history variables record what the code does not survive. `stop_raced`: a stop by
timeout overlapped a start or stop of the thread; they share their statics without a
lock and may leave DFU mode on. `count_raced`: the work queue counted down between the
thread's look at the count and its use, or the thread's enable met the host on its way
off; from there the host may be off under a user or on without. `timers_broken`: a start
initialised a timer that was running. `HostFollowsUsers` excepts the second and
`DfuModeEnds` the first and the third; all three are reached in the run.

### Sx126xRadio, Sx126xRadioProofs

`sx126x_radio.c` with the HAL and the chip. A driver function is the set of its
outcomes, `[s, ok]` records; `Then` continues the successful ones and stops at the
first failure, as the code's `break` and `goto` do. A driver call is one step;
the chip's steps, the bottom half, the return of a report to the protocol and the
protocol's calls interleave. The bottom half is one step up to its report.

The interface (`sid_pal_radio_ifc.h`) leaves to the closed protocol when it may
call what. The model lets it call everything in standby that needs standby, and
the rest at any moment when the driver is awake, with three exceptions, `Caller`:

| liberty | what it allows | properties that fail with it |
|---|---|---|
| `abandon` | ending a carrier sense before it reported | `TxOnlyWhenAsked`, `OperationsReported` |
| `sense_early` | carrier sense while a bottom half is due or reports | `TxOnlyWhenAsked`, `OperationsReported` |
| `sleep_early` | sleep while a bottom half is due or reports | `ChipTracked`, `OperationsReported` |

Bus failures are those of `Faults`. Those the run leaves out each break one of its
properties, by the code's own error paths; which one is the subject of the
[hypotheses](#the-hypotheses). The trim capacitors of a crystal put the chip in standby
before each operation; a TCXO (`Tcxo = TRUE`) needs none, and then all the properties
pass without failures, and with them all but the second part of `ChipTracked`,
`PathMatchesChip`: an operation begun over another one and then refused by the chip
leaves the RF switch on the new path.

### SensorApp, SensorAppProofs

The sensor monitoring sample. The transmit task (`tx`) takes an event, reads the
buttons one by one, sends and clears the flag, each a step of its own: an interrupt
or the Sidewalk thread may come between any two. It waits for room in the Sidewalk
thread's queue (`sidq`) and gives up after a timeout; every other producer drops what
does not fit. The receive task has the lowest priority of the three threads and runs
only when the transmit task waits (`TxWaits`). The cloud is external: it answers
messages it received, late, together or not at all, and asks for LEDs. A message is
what it reports, not its bytes; sensor readings are left out.

`unreported` and `raced` are history variables. A press in `raced` is one the code
loses: it came after the task had read that button and before the flag was cleared
(`app_tx.c:266` to `:316`), or its bit was cleared by the response to an earlier press
(`app_rx.c:49`). The properties except these and hold for all other presses.

### FileTransfer, FileTransferProofs

`dfu_file_transfer.c`, `scratch_buffer.c` and `nordic_dfu_img.c`. A file is a few
chunks; `image` is the sequence of chunks written since the writer was initialised,
`scheduled` the image an upgrade is requested for. Everything runs on the Sidewalk
thread: `pc = "process"` is inside `sid_process`, where the library (`lib`, `next`,
`held`, `reported`, external) calls back; a received chunk is put behind what is
queued and written by `sidewalk_event_file_transfer`. A link switch tears the library
down, DFU mode comes and goes, the calls in `Faults` fail. `Liberties` says what the
library may do beyond the order the header of its interface describes: transfers in
parallel, and finalising or taking a scratch buffer back before its buffers returned.
`spoiled` records which of these happened, where the code's guarantees end.

### BleConnection, SharingProofs

`sid_ble_connection.c` and the operations of the adapter and the service that use the
connection. The host's thread (`host`) is split where `conn_data` is read or changed
and where the library is called; an operation of the Sidewalk thread (`sid`) is split
between its look at the connection and its use. `state`, `peer`, `id`, `params` are the
host's objects, which are used again when their link is down and `refs` is zero. The
history variables `overlap`, `raced` and `nulluse` and the field `cleared` name the
windows in which the code does not protect itself. `bt_conn_le_param_update` may refuse
every request; the code logs that and goes on (`request`). `asked` is what the library
last asked for.

### MfgStorage, MfgStorageProofs

`tlv.c`, both parsers and `sid_pal_mfg_store_init`, with the import of
`sid_crypto_keys.c`. The region is a function from offsets to cells (marker, header,
payload byte, erased), in units scaled by `Align` and `Base`. `Walk` is the loop over
the entries that every function of `tlv.c` has: from an offset on to the first one in a
set, by the sizes and paddings of the headers it meets; lookups and free offsets are
walks that stop at a type or at unused space. What the factory may have written is any
content in which entries have different types, lie apart and within the region, one
after the other in version 8, at the places of the table in version 7
(`LayoutAssumption`), each of at most `MaxElement` bytes, the parser's buffer of 64
(`CONFIG_SIDEWALK_MFG_PARSER_MAX_ELEMENT_SIZE`), which is less than one byte of a size
holds. The first boot is one step per entry, per
import and per write to flash, with `Reset` and the calls in `Faults` at each.

Headers and erased flash read as what they are; payload met where a header is looked for
reads as `Reading` says, a constant with any type and size for every byte of every value,
so as a key or as flags as well. An entry longer than the buffer overruns it, and the
device stops or goes on with what it read (`Overrun`). `torn`, `wiped` and `misread`
(payload was taken for a header, or the buffer overrun) are history variables.

### Lr11xxRadio, SharingProofs

`lr11xx_radio.c` as far as the radio is shared. The protocol's calls and the bottom half
run in a software interrupt, the location engine in a thread they preempt: a step of the
engine (`HoldClear`, `HoldTake`, `Scan`, `ReleaseCheck`, `ReleaseRestore`,
`ReleaseScan`) is a critical region or what is between two. The bottom half is two
steps, `IrqSimulated` with the report of a simulated end and `IrqChip`; the protocol
calls from the first report.

The chip latches the causes its mask enables: `mask` is the modem's own (`DEFAULT`), `ALL`
in a carrier sense, the engine's in a scan, or `NONE`. `get_chan_noise`,
`is_channel_free` and `random` mask it and unmask it again, but for a refused frequency.
A reception goes on after an FSK preamble without a time limit (mode `heard`), and a
packet is read with every outcome `radio_lora_process_rx_done` and
`radio_fsk_process_rx_done` have: reported, reported as an error, or (cut on the bus, too
short) not reported. A carrier sense runs with every exit mode; the driver only asks
whether it is CS_LBT.

`op` is the operation whose end the protocol waits for; `lost` and `deaf` record the cases
in which the code does not report one or leaves the chip without interrupts. The protocol
keeps the rules of `Sx126xRadio` (no sleep while a bottom half is due, a
listen-before-talk runs to its end). Three more rules: it sets a modem before it starts an
operation, since the chip has no packet type after `sid_pal_radio_init`; it does not call
init in a scan or while `lr_timer` is armed; and after a refused measurement it sets the
modem again before it starts an operation. No property speaks of what the last two leave
out: init would abort the scan and initialise a linked timer, and an operation on the
masked chip would never be reported.

## Runs

| run | states | bounds, and why they are enough |
|---|---|---|
| `timer_service` | 665,753 | three timers: a periodic low power one of clients and of callbacks, so that the two cross, a low power and a precise single-shot one of callbacks; time to 2, so a list has up to three elements, equal, coalesced and separate alarms, and a periodic timer is re-inserted twice |
| `app_events` | 87,254 | queue 2 and heap 3: both fill, with a producer waiting; four stimuli and one reset: every handler follows every other |
| `ble_advert` | 2,031 | two sets: the most that exist even when one is lost; all fast/slow parameters; two data updates, one in flight and one newer |
| `dfu_sessions` | 642,920 | four presses make two sessions; one upload; one failing call anywhere but in `bt_disable` |
| `radio_operations` | 15,106 | the state is finite by itself; one failing command of `Faults`, among them the reading of a packet |
| `sensor_presses` | 373,137 | two buttons, so one can be late for the other's message; queues of one, so each is full whenever it is used; three stimuli: synchronisation and a press followed by another press, a loss of time or an LED request; one failing send |
| `file_transfer` | 526,956 | two files, so one transfer can meet another, of two chunks, so one is first and one last; a queue of two, full with one chunk and a process event; two requests, one failing call, one link switch, all liberties |
| `ble_connection` | 1,864,324 | two objects, the pool of a build with DFU; two centrals and two parameter sets tell the old from the new; the state is finite by itself |
| `mfg_storage` | 84,698 | 23 factory contents of both layouts, with one or two keys, values that need padding or do not, and values that do not fit once padded; payload that reads as a key, as flags and as neither, met by the boot after a torn write; two resets, so one can meet the recovery from the other; one failing call, two diagnostic writes |
| `lr11xx_sharing` | 210,636 | the state is finite by itself; every call of the protocol, from idle and from a report |

`TypeOK` is a property of `timer_service`; the type invariants of the other modules
hold on the same instances, are kept with the modules and are proved.

`timer_service`. The list stays sorted and without duplicates (`ListSorted`); no context
links a linked timer, but for a client whose arm was crossed (`NoDoubleLink`); whenever the
list is not empty, something will serve its head in time (`HeadCovered`); a timer cancelled, and not armed since, is not armed
(`DisarmedStaysDisarmed`); an alarm is never earlier than asked and, for single-shot
and for precise timers, at most its tolerance later (`WithinTolerance`). Every due
timer is served (`DueTimersFire`) and every step is one of the abstract service or
hidden (`ImplementsService`).

`app_events`. A context has one owner on every failure path, and what is allocated is
owned or a status that could not be queued (`ContextsOwned`); the handle is held exactly while the library is up
(`HandleIffUp`), work of the library has an event on its way unless one was dropped
for a full queue (`WorkIsScheduled`), a restart starts the links of the last switch
(`RestartsOnSameLinks`), statuses are applied in order (`StatusNeverRegresses`)
and, unless lost, in the end (`StatusApplied`).

`ble_advert`. The sets of the host are the one the driver knows and no call takes a
deleted or NULL set, but the update after a deinit that left a stale state
(`SetsTracked`); at rest the set does what the state says with the
newest data (`AirMatchesState`); fast advertising with a timeout ends
(`FastIsLimited`).

`dfu_sessions`. The host is on while the adapter or an SMP set exists and off once both
are gone and no init or start has failed (`HostFollowsUsers`), through every
interleaving within `bt_enable` and `bt_disable` until the two actors meet in the count
(`count_raced`); DFU mode ends by timeout (`DfuModeEnds`), but after `stop_raced` or
`timers_broken`.

`radio_operations`. No transmission but one asked for, and after listening only if
nothing was heard (`TxOnlyWhenAsked`); driver and chip, chip and RF switch agree
(`ChipTracked`); a raised line has a bottom half pending
(`NoInterruptLost`); transmissions, CAD, LoRa receptions and carrier senses end in a
report (`OperationsReported`), but for a LoRa packet that cannot be read.

`sensor_presses`. See the inventory; `NoPressForgotten` holds through dropped events,
failed sends and a return to the capability state, `PressesReported` under the
fairness below. The safety properties also hold with transmit queues of two
(1.6 million states).

`file_transfer`. The image an upgrade is requested for is the whole of one file over
cancelled and repeated transfers, skipped chunks and full queues (`ImageIsOneFile`); a
file reported as successful is the one installed (`SuccessIsInstalled`); a file has a
scratch buffer exactly while it is transferred (`SlotsMatchTransfers`); a chunk's
buffer comes back or its transfer ends (`BuffersReturned`). The first two except
transfers that cross and, the second, a library that does not wait for its buffers.

`ble_connection`. Between callbacks the library knows exactly who is connected
(`LibraryKnowsPeer`), one reference is held on that connection and none on another
(`ReferencesBalanced`), an operation during which the connection does not end never
hands NULL to the host (`NoNullUse`), the parameters last asked for are kept for the next
connection and the link runs on them, unless the host refused the request
(`ParamsApplied`).

`mfg_storage`. Until every key is in secure storage the flash is as the factory left it,
and no later boot destroys one (`KeysNotLost`); when init reports success every value
reads back, past padding, flags and cut diagnostic writes, unless a write of the region
was cut (`ReadyMeansComplete`); a converted region is not converted again
(`ConvertedOnce`). The first and the last hold until the parser takes payload for a header
or overruns its buffer; `misread` is set at that very step, so everything before it, and
every boot of a region that no reset tore, is covered.

`lr11xx_sharing`. From hold to release the driver stays in SCAN and a running scan keeps
the chip's mode, packet type, mask and end (`ScanUndisturbed`). Outside of a scan the chip
has the modem's packet type, or none after init, and an interrupt mask of Sidewalk's;
it is masked only after a bottom half on a sleeping radio or a refused measurement
(`RadioReturned`, `deaf`). An operation that the driver accepts ends in a report, carried
out or simulated, unless the protocol gives it up or a preamble is never followed by its
packet (`OperationsReported`). What the code does not report is marked by `lost` at the
step that loses it: a cause cleared by hold, a detection under which hold takes the radio,
an operation that meets the exit mode these leave behind, a chip masked while it slept, a
packet that is read and not reported. Without any one of these exceptions TLC finds a
counterexample.

Two runs show where the code and its documentation differ; `PROJECT.json` quotes
both sides.

| run | what it shows |
|---|---|
| `timer_lost_wakeup` | a timer armed by an interrupt between the read of the next schedule and its use is not scheduled |
| `radio_rx_lost` | an FSK packet whose sync word is handled late is never reported |

Deadlock is not checked where a bound ends the run: the clock of `SidTimer`
stops, the stimuli of `SidewalkApp` and the resets and writes of `MfgStorage` run
out. It is checked in the others.

### Fairness

- `timer_service`: time passes, the kernel timer expires, its interrupt runs its
  handler, a thread that began an arm goes on with it. The kernel guarantees all
  four. Clients need not do anything.
- `app_events`: `main` and the Sidewalk thread are scheduled, and `sid_process`
  returns. Buttons, the peer and the library's events are not fair.
- `ble_advert`: the work queue runs a scheduled item and the caller finishes what
  it began. `WorkBegin` has strong fairness: a caller that reschedules it again and
  again does not starve an item that is due again and again.
- `dfu_sessions`: timers expire as long as none was initialised while it ran, the two
  threads are scheduled and the host answers.
- `radio_operations`: the chip ends what it started (or its timer does), the
  protocol runs the bottom half it was asked to run, a report returns. Nothing is
  assumed about the protocol's own calls; a continuous reception is not required
  to end.
- `sensor_presses`: the transmit task and the Sidewalk thread are scheduled, the
  button interrupt returns. The button timer has strong fairness as to finding room
  in the queue: it asks ten times as often as the sensor's timer, and the task
  empties the queue. Nothing is assumed of the receive task, the cloud or the user.
- `file_transfer`: the Sidewalk thread handles what is queued and `sid_process`
  returns. Nothing is assumed of the library's callbacks.
- `lr11xx_sharing`: the chip ends what it does, the software timer expires, the
  protocol runs the bottom half. Nothing is assumed of the location engine: an
  operation is reported even if a scan never ends. Nor is the packet after a preamble
  assumed to come.

## Proofs

TLC checks the instances above; TLAPS checks the theorems for every value of the
constants, under the assumptions the modules state about them (bounds are natural
numbers, sizes positive, model values apart). Where a theorem needs more, the
hypothesis has a name and stands in the theorem. A property is seldom inductive: the
parts of the invariant that make it so are at the end of each module (and hold in TLC on
the run's instance), and the names ending in `Known` say what a process in the middle
of an operation may rely on.

| theorem | property | hypotheses |
|---|---|---|
| `TypeCorrect` | `TypeOK` of `SidTimer` | |
| `TimerSafety`, `TimerListSorted`, `TimerNoDoubleLink`, `TimerDisarmedStaysDisarmed`, `TimerWithinTolerance` | `HeadCovered` with the four others | `Serialised` |
| `TimerImplementsService` | `ImplementsService`, the refinement | `Serialised` |
| `ContextsAlwaysOwned`, `WorkAlwaysScheduled` | `ContextsOwned`, `WorkIsScheduled` | |
| `StatusRegressesNever` | `StatusNeverRegresses`, an action property | |
| `HandleAlwaysIffUp` | `HandleIffUp` | `DeinitWorks` |
| `AlwaysRestartsOnSameLinks` | `RestartsOnSameLinks` | `DeinitWorks`, `SettingsWork` |
| `SetsAlwaysTracked` | `SetsTracked` | `Orderly` |
| `AirAlwaysMatchesState` | `AirMatchesState` | `Orderly`, `UpdateWorks` |
| `HostAlwaysOnForUsers` | `HostOnForUsers`, half of `HostFollowsUsers` | |
| `HostAlwaysFollowsUsers` | `HostFollowsUsers` | `DisableWorks` |
| `PressesNeverForgotten`, `UplinksAlwaysSound` | `NoPressForgotten`, `UplinksSound` | |
| `ImageAlwaysOneFile`, `SuccessAlwaysInstalled`, `SlotsAlwaysMatch` | `ImageIsOneFile`, `SuccessIsInstalled`, `SlotsMatchTransfers` | |
| `LibraryKnowsPeerAlways`, `ReferencesAlwaysBalanced`, `NeverNullUse`, `ParamsAlwaysApplied` | the four of `ble_connection` | |
| `RadioAlwaysReturned`, `ScanNeverDisturbed` | `RadioReturned`, `ScanUndisturbed` | |
| `InterruptsNeverLost` | `NoInterruptLost` | `irq_params` does not fail |
| `ChipAlwaysTracked` | `ChipTracked` | `TrackingAssumptions` |
| `TransmitsOnlyWhenAsked` | `TxOnlyWhenAsked` | `AskingAssumptions` |
| `PrivateKeysNeverLost`, `NeverConvertedAgain`, `ReadyIsComplete` | `KeysNotLost`, `ConvertedOnce`, `ReadyMeansComplete` | |

The type invariants of these modules are proved as part of the invariants.

### The hypotheses

- `Serialised` (`SidTimer`): clients do not interrupt the handler. Without it `HeadCovered` is refuted by the run
  `timer_lost_wakeup`, and `DisarmedStaysDisarmed` by a cancel from an interrupt
  between a periodic timer's fetch and its re-insertion (see the list below).
- `DeinitWorks` (`SidewalkApp`): `sid_deinit` does not fail. `sidewalk_event_link_switch`
  only logs the failure (`sidewalk_events.c:285`) and initialises again, which
  overwrites the handle while the library is still up.
- `SettingsWork`: saving the link mask and `sid_set_factory_reset` do not fail. Both
  failures are logged or ignored (`sidewalk_events.c:191`, `:273`): the first leaves a
  mask in flash that is not the one in use, the second a cleared one.
- `Orderly` (`BleAdvert`): while the work item runs only a stop, which waits for it, and a
  change of the parameters begin; the host stops a set it is told to stop, and deletes one
  that is off. The code has no synchronisation for the other operations
  (see the list below).
- `UpdateWorks`: `bt_le_ext_adv_set_data` of a running set does not fail;
  `sid_ble_advert_update` copies the data first and does not take them back
  (`sid_ble_advert.c:235`).
- `DisableWorks` (`NordicDfu`): `bt_disable` does not fail. `sid_ble_bt_disable` counts
  down to zero first (`bt_app_callbacks.c:41`), so a failure leaves the host on for good
  (`Uncounted`). That it is not off under a user before `count_raced` needs no hypothesis.
- `Sx126xRadio`: the commands that must not fail, and what the protocol must not do.
  `NoInterruptLost` needs only that `sx126x_set_dio_irq_params` works, for any protocol:
  where masking fails at its begin, the bottom half gives up before it has read the
  cause, and the line stays high without another edge.
  `TrackingAssumptions`: `set_standby` and `set_sleep` work and the protocol does not put
  the radio to sleep under a bottom half; with a TCXO, where no trim puts the chip in
  standby first, also the commands that an operation begins with.
  `AskingAssumptions`: `irq_params`, `get_irq`, `set_standby` and `cad_params` work, a
  carrier sense runs to its end and none begins under a bottom half; otherwise an exit
  mode is left behind and a later timeout transmits. TLC refutes each property with each
  single command or liberty that its hypothesis excludes, so that none asks too much.

Each run satisfies the hypotheses of the theorems about its properties.

### SidTimerProofs

For every set of timers, requests, tolerance, and bound on time.

The argument. The five are not inductive: an insertion keeps the order only if nobody
changes the alarms of linked timers, and keeps the tolerance only if the alarm the context
is about to insert is the one asked for. `Held` is what no crossing destroys: no element
twice, times that were asked for, a handler that holds an unlinked timer;
`DisarmedStaysDisarmed` follows from it, as an armed timer has a nominal time. `HandOff` is
what a context knows of the timer it holds before a crossing: it is not linked, and the
other context does not hold it. The inductive invariant is `IInv`: `TypeOK`, `Held`, and,
unless `crossed`, `Sorted`, `Covered`, `AllTimely` and `HandOff`. `HeldNext` proves the
first part, `CoreNext` the second for steps that do not cross, and `CrossedStays` that a
crossing is never undone. `InsertProperties`, `DeleteProperties` and `FetchProperties` say
once what the list operations do to a sorted list, `InsertOnce`, `DeleteOnce` and
`TailOnce` to any, on lemmas about `InsertAt`, `RemoveAt` and `Min`; the proof of the step
has one case per action.

The refinement needs `InOrder` besides, until a crossing: what the handler took was due and no armed timer
is due before it, and a client inserts no alarm beyond the end of time. `ServiceStep` then
maps each step: inserting is `Arm` of the service, deleting `Cancel` or nothing, the fetch
of a single-shot timer (`FetchOnce`) and the re-insertion of a periodic one
(`ReinsertService`) are its event, all others are hidden. Coalescing is why `Arm` may
choose a time; `InsertProperties` bounds it by the tolerance.

### SidewalkAppProofs

For every size of the queue and the heap, every default link and every set of failing
calls. `CoreInv` is `TypeOK` with `LibKnown` (the handle and the state of the library),
`LoopKnown` (an event is held only while it is handled) and `StatusesOrdered` (the
statuses in the queue are between the last one applied and the library's, in their
order). Ownership is `Apart`, that the contexts of any two places are disjoint (queue,
thread, waiting producers), and `Accounted`, that a block has an owner exactly if it is
allocated and not leaked; without the first, freeing one context could free a block of
another. Links need `LinksKnown`: a link switch has saved the links it starts.
`StepMoves` says once how a step moves events between the places; the steps of the
conjuncts go by these moves.

### BleAdvertProofs

For every number of advertising sets of the host and all parameters. `Turns` says which
points of their code the caller and the work item can be at together, `SetKnown` that
`adv_set` is the only set and which of the two is about to create or delete it,
`StateKnown` that `adv_state` and `adv_set` agree but inside of these points and after a
deinit that left a stale state, until `adv_state` is set again: with them
`SetInv` is inductive and gives `SetsTracked`. `ModeKnown` and `DataKnown` follow the
interval and the data of the set from its creation to its start; `AirInv` adds them.

### SharingProofs: NordicDfu

For every number of presses, uploads and failures. The count has to be related to its
users also in the middle of a start or a stop, and to a host that is starting or
stopping. `HostBusy` says that the host changes exactly while one actor waits for it.
`Enables` counts the adapter, the SMP set and the actors between the enable and the set,
or between the set and the disable. `Counted` is that the count is at least that, that the
host is on exactly while it is counted, and that a count the thread has seen can only have
gone down since; `NothingExtra` that it is not more, but for one enable per failed init,
start or lost set. All of it is said until `count_raced`, where it ends to be true;
the races of `stop_raced` do not touch it.

### SensorAppProofs

For every set of buttons, LEDs and links and all sizes of the queues. `NoPressForgotten`
is not inductive: the flag is cleared after a message is put, and only what the task has
collected since (`tx.todo`, `tx.msg.buttons`) shows that no press was skipped
(`PressesKnown`). `UplinksSound` needs what is on its way: a success in a queue was sent
by the cloud (`AcceptedKnown`), a message in a queue or in the making has a mask
(`LinkKnown`), an LED response in the making tells the LEDs or another one follows
(`LedsKnown`); the last is by cases on which of two responses is sent last.

### FileTransferProofs

For every set of files, every number of chunks and slots, every size of the queue and all
failures and liberties. `OneFile` says that, until transfers cross, the open transfer,
the queued chunks and the image in the writer are of one file, the image a prefix of it
(`ImageOf`); `NothingMissed` that every chunk handed over is written or held;
`Installed` that after a report of success no chunk is left to undo the request. Without
`NothingMissed` the report would say nothing about the chunks still queued, and this is
where `spoiled` excepts a library that does not wait. The bound on slots lost to failed
allocations is a fact about cardinalities (`LostFinite`, from `FiniteSetTheorems`).

### SharingProofs: BleConnection

For every pool of connection objects, every set of centrals and of connection
parameters, under `NullAssumption` (NULL is none of them).

The argument. A property speaks of the moments between callbacks and operations; a
step in the middle of one needs what the steps before it established. The inductive
invariant `IInv` adds that: `HostKnows`, which objects the host's callback works on
and what `conn_data` holds at each of its steps; `DataKnown`, that `conn_data` names a
Sidewalk connection and its address; `SidKnows`, that an operation of the Sidewalk
thread has its connection unless it ended inside of it; `ParamsKnown`, that the link
has the parameters kept or those an update has just applied, unless they were refused.
The history variables `overlap`, `raced`, `request` and the field `cleared` mark the orders in which the code loses this
knowledge; the properties except them, and the proof shows that there are no others.

### Sx126xRadioProofs

For every set of failing commands, any number of failures, every protocol, with and
without a TCXO.

The argument. A driver function is a set of outcomes built with `Then`, so a lemma about
it says what holds of each outcome, given the context it began with. The lemmas follow
the calls: first the bus and the commands (`Keeps`, what a command that starts nothing
leaves alone; `Undisturbed`, what remains true of an operation under way), then the
functions of the interface, then the causes of the bottom half one by one. Each property
has an inductive invariant of its own, because each has hypotheses of its own; a step of
the specification keeps all three (`KeepsInvariants`).

- `ServedInv`: an unmasked cause has a bottom half scheduled also while one reports, and
  the pin interrupt is off only in a sleep with nothing latched. Without the second part
  a wake-up could find a line already high, and the edge would have been missed.
- `TrackedInv`: `ChipTracked`, that a chip in duty cycle does nothing else (the HAL turns
  the RF switch on its way out of it), and that a sleeping radio has no bottom half due.
- `AskedInv`: the exit mode that has the driver transmit is set only before or during a
  listen-before-talk (`Listening`), and what is latched then tells whether a carrier was
  heard: `Detecting` for a channel activity detection, `Sensing` for a carrier sense,
  whose time a preamble stops. `Still` excludes a cause left over from an operation
  before.

### SharingProofs: Lr11xxRadio

`Lr11xxRadio` has no constants and no bounds, so the proof is about the same behaviours as
the run, by an argument instead of an enumeration.

The argument. `LrIInv` says who has the chip: `ScanIsHold`, that the state SCAN is the hold
of the location engine and no bottom half is inside of it; `ChipOfSidewalk`, the packet
type and the mask outside of a hold and at the end of a release; `ChipOfLocation`, that a
running scan has the chip to itself. `LrKeeps` states what each function of the driver
leaves alone, once per function, and `OfSidewalk` what the measurements, which change the
mask, leave of the chip; a step is then one outside of a hold (`StepOutside`), one inside
of it (`StepInside`), or a step of the engine (`LocationStep`). The exceptions of
`RadioReturned` are in the theorem as in the property, and the rules of the protocol are
guards of `LrNext`.

### MfgStorageProofs

For every content the factory may have written in either layout with entries that fit the
parser's buffer, every size of the region, of the alignment, of the buffer and of a byte
(the buffer being smaller than what a byte holds), every reading of payload as headers,
every set of failing calls, any number of resets and diagnostic writes.

The argument has three layers.

1. *The walk.* `Walk` is a recursive function; that its equation defines it
   (`WalkExists`, `WalkUnfold`), that it ends (`WalkEnds`), and that a walk of one region
   goes as far in another that agrees up to there (`WalkAlong`) are inductions. They are
   done by least counterexample: `LeastNatural`, that a nonempty set of naturals has a
   least element, from the well-foundedness theorems of the library.
2. *The region.* An entry is `Held` if the walk meets its header before unused space,
   `Copied` if its payload follows it. `tlv_read` finds what is copied (`ReadBack`);
   `tlv_write` adds an entry (`HeldNew`, `CopiedNew`) and leaves the others (`HeldKept`,
   `CopiedKept`), wherever padding puts it. `ParserReads`: at each position of its loop
   either parser reads the next of the factory's entries, or the end.
3. *The conversion.* `IInv` has a conjunct per phase of `sid_pal_mfg_store_init`, for what
   a reset at this point leaves behind: `Settled` for the flash outside of the write,
   `Parsed` for the entries behind the parser and those before it, `ImageReady` for the
   region in RAM before the old one is erased. The distinction of `FirstTime` and `Again`
   is what makes it inductive: a boot after a torn write parses what is
   left of a converted region, and the keys are safe only as long as no header in it is
   one of a key (`Plain`), which would be destroyed in secure storage before its import.
   This holds of the headers that `tlv_write` put there, not of payload: `InOrder`, all of
   the above, is claimed until `misread`, and `Sound`, the types, after it. `MisreadTorn`
   is the other half of the argument: the walk through a region that is the factory's
   (`ParserReads`) or holds its flags (`WalkThrough`) meets headers only, so a region that
   was not torn is never misread, and a ready device that is not torn is complete without
   an exception for it.

### Only model-checked

- Liveness under fairness, which the prover does not do: `DueTimersFire`, `StatusApplied`,
  `FastIsLimited`, `DfuModeEnds`, `PressesReported`, `BuffersReturned` and
  `OperationsReported` of both radios.
- The behaviour without the hypotheses above, and the two runs that expect a violation.

All other properties of the runs are proved.

## What is not modelled

The components with status `not_modelled`, each with its reason, are in
`PROJECT.json`; the table in the inventory has those that the plan brings in. The
closed Sidewalk library, the Bluetooth host, the chip and the kernel are modelled
as far as the code depends on them.

Known behaviour of modelled code that no run covers, or that a property excepts:

- a callback that arms a timer between a client's look at that timer and its insertion
  (`sid_timer.c:188` to `:198`) makes the client overwrite the alarm of a linked timer and
  link it a second time (`crossed`). Whether one timer is armed in both contexts
  is up to the closed library;
- a client in an interrupt that cancels a periodic timer between its fetch
  (`sid_timer.c:227`) and its re-insertion (`:234`) finds it unlinked and does nothing;
  the handler arms it again. `DisarmedStaysDisarmed` fails with `Preemption`;
- a factory reset that the cloud starts reaches `on_sidewalk_factory_reset`
  (`hello/app.c:140`) alone, and the persistent link mask survives; `Kconfig:80` of the
  sample says that it "persists after a device reset but defaults after a factory
  reset". The button's handler clears it, before `sid_set_factory_reset`, which may
  still fail;
- `sid_ble_advert_start` waits for the work item only if `adv_set` is set
  (`sid_ble_advert.c:198`), and the work item clears it before it creates the slow set:
  a start in that window makes two sets. `MayOverlap` keeps start out of it;
- `sid_ble_send_data` does not look at the connection, disconnect and the parameter
  calls look at it outside of the mutex: a connection that ends meanwhile leaves NULL to
  be used (`NoNullUse` excepts it). Advertising restarted while connected admits a
  second connection, which overwrites `conn_data`: a reference is lost and the first
  one's end never reported (`overlap`). An update of the parameters that meets a
  connection being made may be lost (`raced`), and one that the host refuses is only logged
  (`sid_ble_connection.c:107`, `:173`) and not tried again on that link;
- `sid_ble_bt_enable` and `sid_ble_bt_disable` have no lock (`bt_app_callbacks.c:19`,
  `:41`): the count is 0 before `bt_disable` has switched the host off, and an enable that
  comes then gets `-EALREADY`, which `nordic_dfu.c:228` and `sid_ble_adapter.c:259` take
  for success; the host goes off under the new user (`count_raced`);
- a start calls `k_timer_init` for `exit_timer` and `led_timer` while they may be running
  (`nordic_dfu.c:261`, `:265`). No race is needed: a stop with the adapter initialised
  takes the remaining count for an error (`:291`) and leaves both running
  (`timers_broken`);
- a LoRa packet that the bottom half cannot read off the bus is not reported, although
  the receiver has stopped (`sx126x_radio.c:445`); `OperationsReported` excepts it
  (`unread`);
- a `pending_adv_start` between two calls of a start switches the new set on and
  `bt_le_ext_adv_start` then fails the start, which leaves its enable and its set; a stop
  without a set passes NULL to the host, which is taken to refuse it;
- `on_finalize_request` reports success before it completes the image, and without
  looking for queued chunks; `on_transfer_request` initialises the shared writer also
  for a request it then rejects (`spoiled`). A chunk whose event cannot be allocated
  leaves the library waiting (`lost`), a reboot event is lost to a full queue, and
  `scratch_buffer_init` on a link switch forgets the buffers;
- a reset or an error between the erasing of the manufacturing region and the last write
  loses its values, and what is left may be parsed as the other layout (`torn`). That
  parser takes the padding of a header for the high byte of a size: it may read past its
  buffer on the stack (`sid_mfg_hex_v8.c:81`), or find payload where it expects a header;
  where that reads as a private key, the imported key is destroyed
  (`sid_crypto_keys.c:100`) although the original is no longer in flash (`misread`). A
  second diagnostic write of a type is never read, the first entry wins. `tlv_header`
  keeps one byte of a size;
- `sid_pal_radio_hold_scan` clears a raised interrupt before it refuses a radio in use
  (`lr11xx_radio.c:1830`), and takes it from a channel activity detection, a
  duty-cycled reception and a caller of `sid_pal_set_radio_busy`, although
  `sid_pal_radio_ifc.h:303` keeps other stacks out then. The detection leaves its exit
  mode behind, as does a listen-before-talk whose cause is cleared: the timeout of the
  next reception then transmits, and its preamble, enabled until the mask is written
  again, puts the radio in standby (`lost`). A simulated end after a release is reported
  twice, the timer of an abandoned simulated reception goes on and may end another
  operation early, and a reception refused in a scan is simulated later;
- a bottom half on a sleeping radio leaves the interrupts masked (`lr11xx_radio.c:557`),
  and so do `is_channel_free` and `get_chan_noise` when `sid_pal_radio_set_frequency`
  refuses (`:1413`, `:1534`), the second also whenever the radio is not in standby
  (`deaf`). Setting the modem, init or a scan enables them again;
- on the LR11xx an FSK packet too short for its check sum (`lr11xx_radio_fsk.c:146`) and
  one cut on the bus end a reception without a report (`lr11xx_radio.c:414`, `:458`), as
  does one whose sync word is latched with it (`:425`). A preamble stops the time of an
  FSK reception and is reported only with exit mode CS_LBT (`:431`), so a reception, or a
  carrier sense with CS_ONLY or CS_RX, may wait for ever for the packet;
- `sid_pal_radio_init` of the LR11xx takes the chip from a running scan and initialises
  `lr_timer` even if it is armed; the model calls it in neither state;

- the delays of a periodic low power timer add up: the next period is added to the
  coalesced alarm (`sid_timer.c:232`). `WithinTolerance` therefore gives a
  periodic low power timer no upper bound;
- `sid_pal_timer_init` of an armed timer leaves the list with a cleared node; the
  interface forbids it and the model does not do it;
- `sid_ble_advert_deinit` leaves `adv_state` as it is (`sid_ble_advert.c:302`). If a
  connection has stopped the set before, deinit deletes it and the first update after the
  next init passes the NULL `adv_set` to the host (`:241`). `SetsTracked` excepts that
  call (`stale`), whose effect, up to the host, is not modelled. Nor is that `bt_disable`
  drops a set that deinit could not delete because it was on;
- `sid_ble_advert_update` and `_deinit` read `adv_set` without the synchronisation
  with the work item that `_stop` has. `MayOverlap` lets neither overlap it;
- `bt_le_ext_adv_stop`, `sid_deinit`, `bt_disable`, the saving of the settings and the
  radio commands named above do not fail in the runs; what fails with them is said under
  [proofs](#proofs);
- after a failed `sid_init` the application calls `sid_start` with a NULL handle;
  the library is taken to refuse it;
- the static toggle of the DFU button (`hello/app.c:293`) is not told when the exit
  timer ends DFU mode: the next long press then asks for a second end and does
  nothing. `NordicDfu` has the toggle and reaches that state;
- presses in `raced` of `SensorApp`, see there;
- a request for `sid_process` is lost to a full queue; `WorkIsScheduled` excepts it
  (`missed`) and the next request makes up for it.
