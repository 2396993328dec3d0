---------------------------- MODULE FileTransfer ----------------------------
(***************************************************************************)
(* Firmware update by Sidewalk bulk data transfer: the callbacks of         *)
(* dfu_file_transfer.c, the scratch buffers of scratch_buffer.c and the     *)
(* image writer of nordic_dfu_img.c.                                        *)
(*                                                                         *)
(* Everything runs on the Sidewalk thread, and still out of order: the      *)
(* library calls back from inside sid_process, which is itself an event of  *)
(* the thread's queue, while a received chunk is written by an event that   *)
(* on_data_received puts behind what is already queued. All files share     *)
(* one image writer. BLE DFU mode comes and goes from the work queue.       *)
(*                                                                         *)
(* A file is Chunks chunks long; the image is the sequence of the chunks    *)
(* <<file, offset>> written since the writer was initialised. The library   *)
(* and the multi-image writer are external.                                 *)
(***************************************************************************)
EXTENDS Integers, Sequences, FiniteSets

CONSTANTS
    Files,          \* file identifiers
    UNUSED,         \* SCRATCH_FILE_ID_UNUSED
    Chunks,         \* chunks per file
    MaxParallel,    \* CONFIG_SBDT_MAX_PARALLEL_TRANSFERS
    QueueSize,      \* CONFIG_SIDEWALK_THREAD_QUEUE_SIZE
    Liberties,      \* what the library may do: "parallel" transfers, "early":
                    \* not wait for its buffers before it finalises a file or
                    \* takes back a scratch buffer
    Faults,         \* the calls that may fail
    MaxRequests, MaxFaults, MaxLinkSwitches \* bounds

ASSUME FilesAssumption == UNUSED \notin Files
ASSUME SizesAssumption == {Chunks, MaxParallel, QueueSize} \subseteq Nat \ {0}

Slots == 1 .. MaxParallel
Offsets == 0 .. Chunks - 1

VARIABLES
    files,          \* the scratch slots: [id, buffer], buffer: allocated?
    image,          \* what is in the secondary slot, the position with it
    writer,         \* "none", "open" or "closed" (after dfu_multi_image_done)
    scheduled,      \* the image an upgrade is requested for
    in_dfu,         \* nordic_dfu_is_in_dfu()
    events,         \* the queue of the Sidewalk thread
    pc,             \* "process": inside sid_process
    lib,            \* library: "none", "open" or "ended" for each file
    next,           \* library: the next chunk of each file
    held,           \* library: the buffers the application has not released
    reported,       \* library: the file finalised with SUCCESS since the last
                    \* request, or UNUSED
    lost,           \* history: the buffers dropped by a failed allocation
    spoiled,        \* history: what makes an image or a report unreliable
    requests, faults, switches

appVars == <<files, image, writer, scheduled>>
libVars == <<lib, next, held, reported>>
boundVars == <<requests, faults, switches>>
vars == <<appVars, in_dfu, events, pc, libVars, lost, spoiled, boundVars>>

Event(h, f, o) == [h |-> h, f |-> f, o |-> o]
Chunk(f, o) == Event("chunk", f, o)
Process == Event("process", UNUSED, 0)
Reboot == Event("reboot", UNUSED, 0)

Queued(f, o) == \E i \in 1 .. Len(events) : events[i] = Chunk(f, o)
Whole(f) == [i \in 1 .. Chunks |-> <<f, i - 1>>]
EmptySlot == [id |-> UNUSED, buffer |-> FALSE]

Init ==
    /\ files = [i \in Slots |-> EmptySlot]
    /\ image = <<>> /\ writer = "none" /\ scheduled = <<>>
    /\ in_dfu = FALSE /\ events = <<>> /\ pc = "idle"
    /\ lib = [f \in Files |-> "none"] /\ next = [f \in Files |-> 0]
    /\ held = {} /\ reported = UNUSED /\ lost = {} /\ spoiled = {}
    /\ requests = 0 /\ faults = 0 /\ switches = 0

Fails(call) == call \in Faults /\ faults < MaxFaults /\ faults' = faults + 1
Works == UNCHANGED faults

Cancelled(f) == [lib EXCEPT ![f] = IF @ = "open" THEN "ended" ELSE @]

----------------------------------------------------------------------------
(* nordic_dfu_img.c over the multi-image writer: initialising forgets what *)
(* was written, a gap is refused, what is already there is skipped. What a *)
(* closed writer does with a chunk is left open. Writing into the slot     *)
(* undoes an earlier request for an upgrade.                               *)

\* Mutant: the writer goes on where the last image stopped.
Mutnordic_dfu_img_init == writer' = "open" /\ UNCHANGED image

nordic_dfu_img_init == image' = <<>> /\ writer' = "open"

nordic_dfu_img_write(f, o) ==
    /\ writer # "none" /\ o <= Len(image)
    /\ image' = IF o = Len(image) THEN Append(image, <<f, o>>) ELSE image
    /\ scheduled' = IF o = Len(image) THEN <<>> ELSE scheduled
    /\ UNCHANGED writer /\ Works

nordic_dfu_img_cancel == writer' = "closed" /\ UNCHANGED image

img_write_fails(o) ==
    /\ \/ o > Len(image) /\ Works
       \/ writer # "open" /\ Works
       \/ Fails("write")
    /\ nordic_dfu_img_cancel /\ UNCHANGED scheduled

nordic_dfu_img_finalize ==
    /\ writer' = "closed" /\ UNCHANGED image
    /\ \/ Len(image) = Chunks /\ scheduled' = image /\ Works
       \/ (Len(image) < Chunks \/ writer # "open") /\ UNCHANGED scheduled /\ Works
       \/ Fails("schedule") /\ UNCHANGED scheduled

----------------------------------------------------------------------------
(* scratch_buffer.c. A failed allocation keeps the slot.                   *)

scratch_buffer_create(f, ok) ==
    LET free == {i \in Slots : files[i].id = UNUSED}
        p_file == CHOOSE i \in free : \A j \in free : i <= j
        assigned == \E i \in Slots : files[i].id = f
    IN  \/ /\ assigned \/ free = {}
           /\ ~ok /\ Works /\ UNCHANGED files
        \/ /\ ~assigned /\ free # {} /\ (IF ok THEN Works ELSE Fails("malloc"))
           /\ files' = [files EXCEPT ![p_file] = [id |-> f, buffer |-> ok]]

\* Mutant: the slot's buffer is freed and its id kept.
Mutscratch_buffer_remove(f) ==
    files' = [i \in Slots |-> IF files[i].id = f THEN [files[i] EXCEPT !.buffer = FALSE]
                                                 ELSE files[i]]

scratch_buffer_remove(f) ==
    files' = [i \in Slots |-> IF files[i].id = f THEN EmptySlot ELSE files[i]]

----------------------------------------------------------------------------
(* The thread and its queue. on_event of the library asks for sid_process. *)

on_event ==
    /\ Len(events) < QueueSize
    /\ Cardinality({i \in 1 .. Len(events) : events[i] = Process}) < 2
    /\ events' = Append(events, Process)
    /\ UNCHANGED <<appVars, in_dfu, pc, libVars, lost, spoiled, boundVars>>

AtHead(h) == pc = "idle" /\ events # <<>> /\ Head(events).h = h

sidewalk_event_process ==
    /\ AtHead("process")
    /\ pc' = "process" /\ events' = Tail(events)
    /\ UNCHANGED <<appVars, in_dfu, libVars, lost, spoiled, boundVars>>

ProcessReturns ==
    /\ pc = "process" /\ pc' = "idle"
    /\ UNCHANGED <<appVars, in_dfu, events, libVars, lost, spoiled, boundVars>>

\* Mutant: an image that cannot be written does not cancel its transfer.
MutWriteFailed(f, o) == img_write_fails(o) /\ UNCHANGED lib

WriteFailed(f, o) == img_write_fails(o) /\ lib' = Cancelled(f)

(* The event of a chunk writes it, cancels image and transfer when that    *)
(* fails, and gives the buffer back either way.                            *)
sidewalk_event_file_transfer ==
    /\ AtHead("chunk")
    /\ events' = Tail(events)
    /\ LET f == Head(events).f
           o == Head(events).o
       IN  /\ \/ nordic_dfu_img_write(f, o) /\ UNCHANGED lib
              \/ WriteFailed(f, o)
           /\ held' = held \ {<<f, o>>}
    /\ UNCHANGED <<files, in_dfu, pc, next, reported, lost, spoiled, requests, switches>>

(* A warm reboot: the RAM is gone, the requested image is swapped in.      *)
sidewalk_event_reboot ==
    /\ AtHead("reboot")
    /\ files' = [i \in Slots |-> EmptySlot]
    /\ image' = <<>> /\ writer' = "none" /\ scheduled' = <<>>
    /\ in_dfu' = FALSE /\ events' = <<>> /\ pc' = "idle"
    /\ lib' = [f \in Files |-> "none"] /\ next' = [f \in Files |-> 0]
    /\ held' = {} /\ reported' = UNUSED /\ lost' = {} /\ spoiled' = {}
    /\ UNCHANGED boundVars

(* The link switch: the library goes down, with or without asking for the  *)
(* scratch buffers first, comes up, and scratch_buffer_init forgets what   *)
(* the slots held. The queue keeps its chunks.                             *)
sidewalk_event_link_switch ==
    /\ pc = "idle" /\ switches < MaxLinkSwitches
    /\ switches' = switches + 1
    /\ files' = [i \in Slots |-> EmptySlot]
    /\ lib' = [f \in Files |-> "none"] /\ next' = [f \in Files |-> 0]
    /\ held' = {} /\ lost' = {}
    /\ UNCHANGED <<image, writer, scheduled, in_dfu, events, pc, reported, spoiled, requests, faults>>

(* BLE DFU mode begins or ends, on the work queue.                         *)
DfuMode ==
    /\ in_dfu' = ~in_dfu
    /\ UNCHANGED <<appVars, events, pc, libVars, lost, spoiled, boundVars>>

----------------------------------------------------------------------------
(* The callbacks, each inside sid_process.                                 *)

(* The writer is initialised before the request is looked at. The image    *)
(* is unreliable once that happens while another transfer is open or a     *)
(* chunk still queued.                                                     *)
on_transfer_request(f) ==
    /\ pc = "process" /\ requests < MaxRequests /\ requests' = requests + 1
    /\ lib[f] = "none" /\ reported' = UNUSED
    /\ "parallel" \in Liberties \/ \A g \in Files : lib[g] # "open"
    /\ \/ Fails("img_init") /\ UNCHANGED <<files, image, writer, lib, next, spoiled>>
       \/ /\ nordic_dfu_img_init
          /\ spoiled' = IF \E g \in Files : lib[g] = "open" \/ \E o \in Offsets : Queued(g, o)
                        THEN spoiled \cup {"crossed"} ELSE spoiled
          /\ \/ in_dfu /\ Works /\ UNCHANGED <<files, lib, next>>
             \/ /\ ~in_dfu /\ scratch_buffer_create(f, TRUE)
                /\ lib' = [lib EXCEPT ![f] = "open"] /\ next' = [next EXCEPT ![f] = 0]
             \/ ~in_dfu /\ scratch_buffer_create(f, FALSE) /\ UNCHANGED <<lib, next>>
    /\ UNCHANGED <<scheduled, in_dfu, events, pc, held, lost, switches>>

\* Mutant: a chunk that finds the queue full is only logged.
MutEventRefused(f) == UNCHANGED <<image, writer, lib>>

EventRefused(f) == nordic_dfu_img_cancel /\ lib' = Cancelled(f)

(* The library hands over the buffer of the next chunk of an open file.    *)
(* In DFU mode, and when the queue is full, the transfer is cancelled and  *)
(* the buffer not given back; when the event cannot be allocated the       *)
(* callback just returns.                                                  *)
on_data_received(f) ==
    LET o == next[f] IN
    /\ pc = "process" /\ lib[f] = "open" /\ o < Chunks
    /\ next' = [next EXCEPT ![f] = o + 1]
    /\ held' = held \cup {<<f, o>>}
    /\ \/ /\ in_dfu
          /\ lib' = Cancelled(f)
          /\ Works /\ UNCHANGED <<image, writer, events, lost>>
       \/ /\ ~in_dfu /\ Fails("malloc")
          /\ lost' = lost \cup {<<f, o>>}
          /\ UNCHANGED <<image, writer, events, lib>>
       \/ /\ ~in_dfu /\ Works /\ Len(events) < QueueSize
          /\ events' = Append(events, Chunk(f, o))
          /\ UNCHANGED <<image, writer, lib, lost>>
       \/ /\ ~in_dfu /\ Works /\ Len(events) = QueueSize
          /\ EventRefused(f)
          /\ UNCHANGED <<events, lost>>
    /\ UNCHANGED <<files, scheduled, in_dfu, pc, reported, spoiled, requests, switches>>

(* Success is reported first; then the image is completed and a reboot     *)
(* asked for, whatever that returns.                                       *)
on_finalize_request(f) ==
    LET waiting == \E o \in Offsets : <<f, o>> \in held IN
    /\ pc = "process" /\ lib[f] = "open" /\ next[f] = Chunks
    /\ "early" \in Liberties \/ ~waiting
    /\ lib' = [lib EXCEPT ![f] = "ended"]
    /\ reported' = f
    /\ nordic_dfu_img_finalize
    /\ spoiled' = spoiled \cup (IF waiting THEN {"early"} ELSE {})
                          \cup (IF faults' # faults THEN {"fault"} ELSE {})
    /\ events' = IF Len(events) < QueueSize THEN Append(events, Reboot) ELSE events
    /\ UNCHANGED <<files, in_dfu, pc, next, held, lost, requests, switches>>

(* on_cancel_request and on_error do the same.                             *)
on_cancel_request(f) ==
    /\ pc = "process" /\ lib[f] = "open"
    /\ lib' = [lib EXCEPT ![f] = "ended"]
    /\ nordic_dfu_img_cancel
    /\ UNCHANGED <<files, scheduled, in_dfu, events, pc, next, held, reported, lost, spoiled, boundVars>>

on_release_scratch_buffer(f) ==
    /\ pc = "process" /\ lib[f] = "ended"
    /\ "early" \in Liberties \/ \A o \in Offsets : ~Queued(f, o)
    /\ lib' = [lib EXCEPT ![f] = "none"]
    /\ held' = held \ ({f} \X Offsets)
    /\ lost' = lost \ ({f} \X Offsets)
    /\ scratch_buffer_remove(f)
    /\ UNCHANGED <<image, writer, scheduled, in_dfu, events, pc, next, reported, spoiled, boundVars>>

----------------------------------------------------------------------------
Handle == sidewalk_event_process \/ sidewalk_event_file_transfer \/ sidewalk_event_reboot

Next ==
    \/ on_event \/ Handle \/ ProcessReturns \/ sidewalk_event_link_switch \/ DfuMode
    \/ \E f \in Files :
          \/ on_transfer_request(f) \/ on_data_received(f) \/ on_finalize_request(f)
          \/ on_cancel_request(f) \/ on_release_scratch_buffer(f)

Spec == Init /\ [][Next]_vars

(* The thread handles what is queued and sid_process returns.              *)
FairSpec == Spec /\ WF_vars(Handle) /\ WF_vars(ProcessReturns)

----------------------------------------------------------------------------
Events == {Process, Reboot} \cup {Chunk(f, o) : f \in Files, o \in Offsets}

TypeOK ==
    /\ files \in [Slots -> [id : Files \cup {UNUSED}, buffer : BOOLEAN]]
    /\ image \in Seq(Files \X Offsets) /\ scheduled \in Seq(Files \X Offsets)
    /\ writer \in {"none", "open", "closed"} /\ pc \in {"idle", "process"}
    /\ in_dfu \in BOOLEAN /\ events \in Seq(Events) /\ Len(events) <= QueueSize
    /\ lib \in [Files -> {"none", "open", "ended"}] /\ next \in [Files -> 0 .. Chunks]
    /\ held \subseteq Files \X Offsets /\ lost \subseteq Files \X Offsets
    /\ reported \in Files \cup {UNUSED} /\ spoiled \subseteq {"crossed", "early", "fault"}
    /\ {requests, faults, switches} \subseteq Nat

(* The image an upgrade is requested for is the whole of one file, in      *)
(* order, over cancelled and repeated transfers, skipped chunks, full      *)
(* queues and DFU mode, unless a request met an open transfer or a queued  *)
(* chunk: all files share the writer, which every request initialises.     *)
ImageIsOneFile ==
    scheduled # <<>> /\ "crossed" \notin spoiled => \E f \in Files : scheduled = Whole(f)

(* A file that was reported SUCCESS is the one the upgrade is requested    *)
(* for, although the report comes before the image is completed: true      *)
(* when the library waits for its buffers, completing works and transfers  *)
(* did not cross.                                                          *)
SuccessIsInstalled ==
    spoiled = {} /\ reported # UNUSED => scheduled = Whole(reported)

(* A file has a scratch buffer exactly while the library has a transfer    *)
(* of it; no file has two slots, and a slot without a buffer is one whose  *)
(* allocation failed: it is lost to every later transfer.                  *)
SlotsMatchTransfers ==
    /\ \A f \in Files : lib[f] # "none" <=> [id |-> f, buffer |-> TRUE] \in {files[i] : i \in Slots}
    /\ \A i, j \in Slots : files[i].id = files[j].id /\ i # j => files[i].id = UNUSED
    /\ Cardinality({i \in Slots : files[i].id # UNUSED /\ ~files[i].buffer}) <= faults

(* A buffer the library handed over is given back, or its transfer ends:   *)
(* the event of the chunk is handled, written or not. Only the failed      *)
(* allocation of the event leaves the library waiting.                     *)
BuffersReturned ==
    \A f \in Files, o \in Offsets :
        <<f, o>> \in held ~> (<<f, o>> \notin held \/ lib[f] # "open" \/ <<f, o>> \in lost)

----------------------------------------------------------------------------
(***************************************************************************)
(* The inductive invariant behind ImageIsOneFile and SuccessIsInstalled, in *)
(* parts.  Until transfers cross, the open transfer, the queued chunks and  *)
(* the image all are of one file.                                           *)
(***************************************************************************)
ImageOf(f) == Len(image) <= Chunks /\ \A i \in 1 .. Len(image) : image[i] = <<f, i - 1>>

OnlyFile(f) ==
    /\ \A g \in Files : lib[g] = "open" => g = f
    /\ \A g \in Files, o \in Offsets : Queued(g, o) => g = f
    /\ ImageOf(f)

OneFile == "crossed" \notin spoiled => \E f \in Files \cup {UNUSED} : OnlyFile(f)

\* What an open transfer handed over is written, or still held.
NothingMissed ==
    "crossed" \notin spoiled =>
        \A f \in Files : lib[f] = "open" =>
            /\ writer = "open"
            /\ \A o \in Offsets : o < next[f] => <<f, o>> \in held \/ o < Len(image)

\* The image that was reported is complete: no late chunk undoes the request.
Installed == SuccessIsInstalled /\ (spoiled = {} /\ reported # UNUSED => Len(image) = Chunks)
=============================================================================
