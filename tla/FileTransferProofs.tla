------------------------- MODULE FileTransferProofs -------------------------
(***************************************************************************)
(* Proofs of FileTransfer, for every set of files, number of chunks and of  *)
(* parallel transfers, queue size, and whatever the library is at liberty   *)
(* to do and may fail.                                                      *)
(***************************************************************************)
EXTENDS FileTransfer, FiniteSetTheorems, SequenceTheorems, WellFoundedInduction, TLAPS

-----------------------------------------------------------------------------
(* The queue of the Sidewalk thread. *)

\* An event put behind the others.
LEMMA QueuePuts ==
    ASSUME TypeOK, NEW e \in Events, Len(events) < QueueSize, events' = Append(events, e)
    PROVE  /\ events' \in Seq(Events) /\ Len(events') <= QueueSize
           /\ \A f, o : Queued(f, o)' => Queued(f, o) \/ e = Chunk(f, o)
<1>1. /\ events' \in Seq(Events) /\ Len(events) \in Nat /\ Len(events') = Len(events) + 1
      /\ \A i \in 1 .. Len(events) : events'[i] = events[i]
      /\ events'[Len(events) + 1] = e
  BY AppendProperties, LenProperties DEF TypeOK
<1>2. Len(events') <= QueueSize
  BY <1>1, SizesAssumption
<1>3. ASSUME NEW f, NEW o, Queued(f, o)' PROVE Queued(f, o) \/ e = Chunk(f, o)
  <2>1. PICK i \in 1 .. Len(events') : events'[i] = Chunk(f, o)
    BY <1>3 DEF Queued, Chunk, Event
  <2>2. i \in 1 .. Len(events) \/ i = Len(events) + 1
    BY <1>1, <2>1
  <2> QED
    BY <1>1, <2>1, <2>2 DEF Queued
<1> QED
  BY <1>1, <1>2, <1>3

\* The event at the front taken.
LEMMA QueueGets ==
    ASSUME TypeOK, events # <<>>, events' = Tail(events)
    PROVE  /\ events' \in Seq(Events) /\ Len(events') <= QueueSize
           /\ Head(events) \in Events
           /\ \A f, o : Queued(f, o)' => Queued(f, o)
           /\ \A f, o : Head(events) = Chunk(f, o) => Queued(f, o)
<1>1. /\ Head(events) \in Events /\ events' \in Seq(Events) /\ Head(events) = events[1]
      /\ Len(events') = Len(events) - 1
      /\ \A i \in 1 .. Len(events') : events'[i] = events[i + 1]
  BY HeadTailProperties DEF TypeOK
<1>2. Len(events) \in Nat /\ Len(events) >= 1
  BY LenProperties, EmptySeq DEF TypeOK
<1>3. Len(events') <= QueueSize
  BY <1>1, <1>2, SizesAssumption DEF TypeOK
<1>4. ASSUME NEW f, NEW o, Queued(f, o)' PROVE Queued(f, o)
  <2>1. PICK i \in 1 .. Len(events') : events'[i] = Chunk(f, o)
    BY <1>4 DEF Queued, Chunk, Event
  <2>2. i + 1 \in 1 .. Len(events) /\ events[i + 1] = Chunk(f, o)
    BY <1>1, <1>2, <2>1
  <2> QED
    BY <2>2 DEF Queued
<1>5. ASSUME NEW f, NEW o, Head(events) = Chunk(f, o) PROVE Queued(f, o)
  BY <1>1, <1>2, <1>5 DEF Queued
<1> QED
  BY <1>1, <1>3, <1>4, <1>5

\* A chunk at the front is one of a file.
LEMMA ChunkAtHead ==
    ASSUME TypeOK, AtHead("chunk"), events' = Tail(events)
    PROVE  /\ Head(events).f \in Files /\ Head(events).o \in Offsets
           /\ Queued(Head(events).f, Head(events).o)
           /\ \A f, o : Queued(f, o)' => Queued(f, o)
           /\ events' \in Seq(Events) /\ Len(events') <= QueueSize
<1>1. events # <<>> /\ Head(events).h = "chunk"
  BY DEF AtHead
<1>2. Head(events) \in Events
  BY <1>1, QueueGets
<1>3. PICK f \in Files, o \in Offsets : Head(events) = Chunk(f, o)
  BY <1>1, <1>2 DEF Events, Process, Reboot, Event
<1>4. Head(events).f = f /\ Head(events).o = o
  BY <1>3 DEF Chunk, Event
<1> QED
  BY <1>1, <1>3, <1>4, QueueGets

\* The queue's events other than chunks.
LEMMA OtherEvents ==
    /\ Process \in Events /\ Reboot \in Events
    /\ \A f, o : Process # Chunk(f, o) /\ Reboot # Chunk(f, o)
    /\ \A f \in Files, o \in Offsets : Chunk(f, o) \in Events
<1>1. \A f, o : Process # Chunk(f, o) /\ Reboot # Chunk(f, o)
  <2> SUFFICES ASSUME NEW f, NEW o PROVE Process # Chunk(f, o) /\ Reboot # Chunk(f, o)
    OBVIOUS
  <2>1. Process.h = "process" /\ Reboot.h = "reboot" /\ Chunk(f, o).h = "chunk"
    BY DEF Process, Reboot, Chunk, Event
  <2> QED
    BY <2>1
<1> QED
  BY <1>1 DEF Events

-----------------------------------------------------------------------------
(* The handlers' outcomes. *)

\* A chunk is written, or skipped.
ChunkWritten(f, o) ==
    /\ Queued(f, o) /\ o <= Len(image)
    /\ image' = IF o = Len(image) THEN Append(image, <<f, o>>) ELSE image
    /\ scheduled' = IF o = Len(image) THEN <<>> ELSE scheduled
    /\ UNCHANGED <<writer, lib, faults>>

\* A chunk is not written, and its transfer cancelled.
ChunkRefused(f, o) ==
    /\ Queued(f, o)
    /\ writer' = "closed" /\ lib' = Cancelled(f)
    /\ UNCHANGED <<image, scheduled>>
    /\ faults' = faults \/ faults' = faults + 1

\* The event of a chunk.
ChunkDone(f, o) ==
    /\ ChunkWritten(f, o) \/ ChunkRefused(f, o)
    /\ held' = held \ {<<f, o>>}
    /\ \A g, p : Queued(g, p)' => Queued(g, p)
    /\ events' \in Seq(Events) /\ Len(events') <= QueueSize
    /\ UNCHANGED <<files, in_dfu, pc, next, reported, lost, spoiled, requests, switches>>

\* The event does one or the other with the chunk at the front of the queue.
LEMMA ChunkOutcome ==
    ASSUME TypeOK, sidewalk_event_file_transfer
    PROVE  \E f \in Files, o \in Offsets : ChunkDone(f, o)
<1> DEFINE f == Head(events).f
           o == Head(events).o
<1>1. /\ f \in Files /\ o \in Offsets /\ Queued(f, o)
      /\ \A g, p : Queued(g, p)' => Queued(g, p)
      /\ events' \in Seq(Events) /\ Len(events') <= QueueSize
  BY ChunkAtHead DEF sidewalk_event_file_transfer
<1>2. /\ \/ nordic_dfu_img_write(f, o) /\ UNCHANGED lib
         \/ WriteFailed(f, o)
      /\ held' = held \ {<<f, o>>}
      /\ UNCHANGED <<files, in_dfu, pc, next, reported, lost, spoiled, requests, switches>>
  BY DEF sidewalk_event_file_transfer
<1> HIDE DEF f, o
<1>3. ASSUME nordic_dfu_img_write(f, o), UNCHANGED lib PROVE ChunkWritten(f, o)
  BY <1>1, <1>3 DEF nordic_dfu_img_write, Works, ChunkWritten
<1>4. ASSUME WriteFailed(f, o) PROVE ChunkRefused(f, o)
  BY <1>1, <1>4 DEF WriteFailed, img_write_fails, nordic_dfu_img_cancel, Fails, Works,
                    ChunkRefused
<1>5. ChunkDone(f, o)
  BY <1>1, <1>2, <1>3, <1>4 DEF ChunkDone
<1> QED
  BY <1>1, <1>5

\* A cancelled transfer is not open, and the others stay as they are.
LEMMA CancelledEnds ==
    ASSUME TypeOK, NEW f \in Files
    PROVE  /\ Cancelled(f) \in [Files -> {"none", "open", "ended"}]
           /\ Cancelled(f)[f] # "open"
           /\ \A g \in Files : g # f => Cancelled(f)[g] = lib[g]
           /\ \A g \in Files : Cancelled(f)[g] = "none" <=> lib[g] = "none"
  BY DEF TypeOK, Cancelled

\* What a request changes: nothing but the report, or the image anew, with or
\* without a transfer opened.
Requested(f) ==
    /\ pc = "process" /\ lib[f] = "none" /\ reported' = UNUSED
    /\ requests' = requests + 1
    /\ faults' = faults \/ faults' = faults + 1
    /\ UNCHANGED <<scheduled, in_dfu, events, pc, held, lost, switches>>

RequestIgnored == UNCHANGED <<files, image, writer, lib, next, spoiled>>

RequestTaken(f) ==
    /\ image' = <<>> /\ writer' = "open"
    /\ spoiled' = IF \E g \in Files : lib[g] = "open" \/ \E o \in Offsets : Queued(g, o)
                  THEN spoiled \cup {"crossed"} ELSE spoiled
    /\ \/ UNCHANGED <<files, lib, next>>
       \/ /\ scratch_buffer_create(f, TRUE)
          /\ lib' = [lib EXCEPT ![f] = "open"] /\ next' = [next EXCEPT ![f] = 0]
       \/ scratch_buffer_create(f, FALSE) /\ UNCHANGED <<lib, next>>

\* on_transfer_request does the one or the other.
LEMMA RequestOutcome ==
    ASSUME NEW f \in Files, on_transfer_request(f)
    PROVE  Requested(f) /\ (RequestIgnored \/ RequestTaken(f))
<1>1. RequestIgnored \/ RequestTaken(f)
  BY DEF on_transfer_request, RequestIgnored, RequestTaken, nordic_dfu_img_init
<1>2. faults' = faults \/ faults' = faults + 1
  BY DEF on_transfer_request, Fails, Works, scratch_buffer_create
<1> QED
  BY <1>1, <1>2 DEF on_transfer_request, Requested

\* What a chunk handed over changes: it is queued, or kept by mistake, or the
\* transfer is cancelled.
DataHandedOver(f, o) ==
    /\ o = next[f] /\ lib[f] = "open" /\ o \in Offsets
    /\ next' = [next EXCEPT ![f] = o + 1]
    /\ held' = held \cup {<<f, o>>}
    /\ faults' = faults \/ faults' = faults + 1
    /\ lost' \in {lost, lost \cup {<<f, o>>}}
    /\ events' \in Seq(Events) /\ Len(events') <= QueueSize
    /\ UNCHANGED <<files, scheduled, image, in_dfu, pc, reported, spoiled, requests, switches>>

DataTaken(f, o) ==
    /\ \A g, p : Queued(g, p)' => Queued(g, p) \/ Chunk(f, o) = Chunk(g, p)
    /\ UNCHANGED <<writer, lib>>

DataRefused(f) ==
    /\ lib' = Cancelled(f)
    /\ \A g, p : Queued(g, p)' => Queued(g, p)
    /\ writer' \in {writer, "closed"}

\* on_data_received does the one or the other.
LEMMA DataOutcome ==
    ASSUME TypeOK, NEW f \in Files, on_data_received(f)
    PROVE  DataHandedOver(f, next[f]) /\ (DataTaken(f, next[f]) \/ DataRefused(f))
<1> DEFINE o == next[f]
<1>1. o \in Offsets
  BY SizesAssumption DEF TypeOK, on_data_received, Offsets
<1>2. /\ lib[f] = "open" /\ next' = [next EXCEPT ![f] = o + 1] /\ held' = held \cup {<<f, o>>}
      /\ UNCHANGED <<files, scheduled, in_dfu, pc, reported, spoiled, requests, switches>>
  BY DEF on_data_received
<1>3. \/ lib' = Cancelled(f) /\ UNCHANGED <<faults, image, writer, events, lost>>
      \/ /\ faults' = faults + 1 /\ lost' = lost \cup {<<f, o>>}
         /\ UNCHANGED <<image, writer, events, lib>>
      \/ /\ Len(events) < QueueSize /\ events' = Append(events, Chunk(f, o))
         /\ UNCHANGED <<faults, image, writer, lib, lost>>
      \/ /\ writer' = "closed" /\ lib' = Cancelled(f)
         /\ UNCHANGED <<faults, image, events, lost>>
  BY DEF on_data_received, Fails, Works, EventRefused, nordic_dfu_img_cancel
<1>4. events \in Seq(Events) /\ Len(events) <= QueueSize
  BY DEF TypeOK
<1> HIDE DEF o
<1>5. UNCHANGED events => \A g, p : Queued(g, p)' => Queued(g, p)
  BY DEF Queued, Chunk, Event
<1>6. ASSUME Len(events) < QueueSize, events' = Append(events, Chunk(f, o))
      PROVE  /\ \A g, p : Queued(g, p)' => Queued(g, p) \/ Chunk(f, o) = Chunk(g, p)
             /\ events' \in Seq(Events) /\ Len(events') <= QueueSize
  BY <1>1, <1>6, QueuePuts, OtherEvents
<1>7. DataHandedOver(f, o)
  BY <1>1, <1>2, <1>3, <1>4, <1>6 DEF DataHandedOver, o
<1>8. DataTaken(f, o) \/ DataRefused(f)
  BY <1>3, <1>5, <1>6 DEF DataTaken, DataRefused
<1> QED
  BY <1>7, <1>8 DEF o

\* What the end of a file changes: an upgrade is requested, or not.
Finalized(f) ==
    LET waiting == \E o \in Offsets : <<f, o>> \in held IN
    /\ lib[f] = "open" /\ next[f] = Chunks
    /\ lib' = [lib EXCEPT ![f] = "ended"]
    /\ reported' = f /\ writer' = "closed"
    /\ \/ Len(image) = Chunks /\ scheduled' = image /\ UNCHANGED faults
       \/ (Len(image) < Chunks \/ writer # "open") /\ UNCHANGED <<scheduled, faults>>
       \/ UNCHANGED scheduled /\ faults' = faults + 1
    /\ spoiled' = spoiled \cup (IF waiting THEN {"early"} ELSE {})
                          \cup (IF faults' # faults THEN {"fault"} ELSE {})
    /\ events' \in Seq(Events) /\ Len(events') <= QueueSize
    /\ \A g, p : Queued(g, p)' => Queued(g, p)
    /\ UNCHANGED <<files, image, in_dfu, pc, next, held, lost, requests, switches>>

\* on_finalize_request does so.
LEMMA FinalizeOutcome ==
    ASSUME TypeOK, NEW f \in Files, on_finalize_request(f)
    PROVE  Finalized(f)
<1>1. events \in Seq(Events) /\ Len(events) <= QueueSize
  BY DEF TypeOK
<1>2. /\ events' \in Seq(Events) /\ Len(events') <= QueueSize
      /\ \A g, p : Queued(g, p)' => Queued(g, p)
  <2>1. CASE Len(events) < QueueSize
    <3>1. events' = Append(events, Reboot)
      BY <2>1 DEF on_finalize_request
    <3> QED
      BY <2>1, <3>1, QueuePuts, OtherEvents
  <2>2. CASE ~(Len(events) < QueueSize)
    <3>1. events' = events
      BY <2>2 DEF on_finalize_request
    <3> QED
      BY <1>1, <3>1 DEF Queued, Chunk, Event
  <2> QED
    BY <2>1, <2>2
<1> QED
  BY <1>2 DEF on_finalize_request, nordic_dfu_img_finalize, Fails, Works, Finalized

-----------------------------------------------------------------------------
(* Types. *)

\* The image in the slot, which nordic_dfu_img_write extends.
LEMMA WrittenTypes ==
    ASSUME TypeOK, NEW f \in Files, NEW o \in Offsets, ChunkWritten(f, o)
    PROVE  image' \in Seq(Files \X Offsets) /\ scheduled' \in Seq(Files \X Offsets)
<1>1. /\ image \in Seq(Files \X Offsets) /\ scheduled \in Seq(Files \X Offsets)
      /\ <<f, o>> \in Files \X Offsets /\ <<>> \in Seq(Files \X Offsets)
  BY EmptySeq DEF TypeOK
<1> QED
  BY <1>1, AppendProperties DEF ChunkWritten

\* The first free slot is one.
LEMMA FirstFree ==
    ASSUME NEW free \in SUBSET Nat, free # {}
    PROVE  (CHOOSE i \in free : \A j \in free : i <= j) \in free
<1> DEFINE R == {ss \in Nat \X Nat : ss[1] < ss[2]}
<1>1. IsWellFoundedOn(R, Nat)
  BY NatLessThanWellFounded DEF OpToRel
<1> HIDE DEF R
<1>2. PICK x \in free : \A y \in free : ~(<<y, x>> \in R)
  BY <1>1, WFMin
<1>3. \A y \in free : ~(y < x)
  BY <1>2 DEF R
<1>4. \E i \in free : \A j \in free : i <= j
  BY <1>3
<1> QED
  BY <1>4

\* What scratch_buffer_create does to the slots.
Created(f, ok, i) ==
    /\ files[i].id = UNUSED /\ \A j \in Slots : files[j].id # f
    /\ files' = [files EXCEPT ![i] = [id |-> f, buffer |-> ok]]
    /\ faults' = IF ok THEN faults ELSE faults + 1

\* It takes a free slot, or none.
LEMMA CreateOutcome ==
    ASSUME NEW f, NEW ok \in BOOLEAN, scratch_buffer_create(f, ok)
    PROVE  \/ ~ok /\ UNCHANGED <<files, faults>>
           \/ \E i \in Slots : Created(f, ok, i)
<1> DEFINE free == {i \in Slots : files[i].id = UNUSED}
           p_file == CHOOSE i \in free : \A j \in free : i <= j
<1>1. CASE ~ok /\ Works /\ UNCHANGED files
  BY <1>1 DEF Works
<1>2. CASE /\ ~(\E i \in Slots : files[i].id = f) /\ free # {}
           /\ (IF ok THEN Works ELSE Fails("malloc"))
           /\ files' = [files EXCEPT ![p_file] = [id |-> f, buffer |-> ok]]
  <2>1. free \in SUBSET Nat /\ free \subseteq Slots
    BY DEF Slots
  <2>2. p_file \in free
    BY <1>2, <2>1, FirstFree
  <2>3. p_file \in Slots /\ files[p_file].id = UNUSED
    BY <2>2
  <2> HIDE DEF p_file
  <2>4. Created(f, ok, p_file)
    BY <1>2, <2>3 DEF Created, Works, Fails
  <2> QED
    BY <2>3, <2>4
<1> QED
  BY <1>1, <1>2 DEF scratch_buffer_create

\* Every step keeps the types.
LEMMA TypeStep == ASSUME TypeOK, Next PROVE TypeOK'
<1> USE DEF appVars, libVars, boundVars
<1>0. /\ <<>> \in Seq(Events) /\ <<>> \in Seq(Files \X Offsets)
      /\ Len(<<>>) = 0 /\ 0 <= QueueSize
      /\ [i \in Slots |-> EmptySlot] \in [Slots -> [id : Files \cup {UNUSED}, buffer : BOOLEAN]]
      /\ [f \in Files |-> "none"] \in [Files -> {"none", "open", "ended"}]
      /\ [f \in Files |-> 0] \in [Files -> 0 .. Chunks]
  BY EmptySeq, SizesAssumption DEF EmptySlot
<1>1. CASE on_event
  <2>1. events' \in Seq(Events) /\ Len(events') <= QueueSize
    BY <1>1, QueuePuts, OtherEvents DEF on_event
  <2> QED
    BY <1>1, <2>1 DEF on_event, TypeOK
<1>2. CASE sidewalk_event_process
  <2>1. events' \in Seq(Events) /\ Len(events') <= QueueSize
    BY <1>2, QueueGets DEF sidewalk_event_process, AtHead
  <2> QED
    BY <1>2, <2>1 DEF sidewalk_event_process, TypeOK
<1>3. CASE sidewalk_event_file_transfer
  <2>1. PICK f \in Files, o \in Offsets : ChunkDone(f, o)
    BY <1>3, ChunkOutcome
  <2>2. CASE ChunkWritten(f, o)
    BY <2>1, <2>2, WrittenTypes DEF ChunkDone, ChunkWritten, TypeOK
  <2>3. CASE ChunkRefused(f, o)
    <3>1. lib' \in [Files -> {"none", "open", "ended"}]
      BY <2>3, CancelledEnds DEF ChunkRefused
    <3>2. {requests', faults', switches'} \subseteq Nat
      BY <2>1, <2>3 DEF ChunkDone, ChunkRefused, TypeOK
    <3> QED
      BY <2>1, <2>3, <3>1, <3>2 DEF ChunkDone, ChunkRefused, TypeOK
  <2> QED
    BY <2>1, <2>2, <2>3 DEF ChunkDone
<1>4. CASE sidewalk_event_reboot
  BY <1>0, <1>4 DEF sidewalk_event_reboot, TypeOK
<1>5. CASE ProcessReturns
  BY <1>5 DEF ProcessReturns, TypeOK
<1>6. CASE sidewalk_event_link_switch
  BY <1>0, <1>6 DEF sidewalk_event_link_switch, TypeOK
<1>7. CASE DfuMode
  BY <1>7 DEF DfuMode, TypeOK
<1>8. ASSUME NEW f \in Files, on_transfer_request(f) PROVE TypeOK'
  <2>1. Requested(f) /\ (RequestIgnored \/ RequestTaken(f))
    BY <1>8, RequestOutcome
  <2>2. files' \in [Slots -> [id : Files \cup {UNUSED}, buffer : BOOLEAN]]
    <3>1. CASE UNCHANGED files
      BY <3>1 DEF TypeOK
    <3>2. ASSUME NEW ok \in BOOLEAN, scratch_buffer_create(f, ok)
          PROVE  files' \in [Slots -> [id : Files \cup {UNUSED}, buffer : BOOLEAN]]
      <4>1. CASE UNCHANGED files
        BY <4>1 DEF TypeOK
      <4>2. ASSUME NEW i \in Slots, Created(f, ok, i)
            PROVE  files' \in [Slots -> [id : Files \cup {UNUSED}, buffer : BOOLEAN]]
        <5>1. files' = [files EXCEPT ![i] = [id |-> f, buffer |-> ok]]
          BY <4>2 DEF Created
        <5>2. [id |-> f, buffer |-> ok] \in [id : Files \cup {UNUSED}, buffer : BOOLEAN]
          OBVIOUS
        <5> QED
          BY <5>1, <5>2 DEF TypeOK
      <4> QED
        BY <3>2, <4>1, <4>2, CreateOutcome
    <3> QED
      BY <2>1, <3>1, <3>2 DEF RequestIgnored, RequestTaken
  <2>3. /\ lib' \in [Files -> {"none", "open", "ended"}]
        /\ next' \in [Files -> 0 .. Chunks]
    <3>1. \/ UNCHANGED <<lib, next>>
          \/ lib' = [lib EXCEPT ![f] = "open"] /\ next' = [next EXCEPT ![f] = 0]
      BY <2>1 DEF RequestIgnored, RequestTaken
    <3>2. 0 \in 0 .. Chunks
      BY SizesAssumption
    <3>3. CASE UNCHANGED <<lib, next>>
      BY <3>3 DEF TypeOK
    <3>4. CASE lib' = [lib EXCEPT ![f] = "open"] /\ next' = [next EXCEPT ![f] = 0]
      BY <3>2, <3>4 DEF TypeOK
    <3> QED
      BY <3>1, <3>3, <3>4
  <2>4. /\ image' \in Seq(Files \X Offsets) /\ writer' \in {"none", "open", "closed"}
        /\ spoiled' \subseteq {"crossed", "early", "fault"}
    BY <1>0, <2>1 DEF RequestIgnored, RequestTaken, TypeOK
  <2>5. {requests', faults', switches'} \subseteq Nat
    BY <2>1 DEF Requested, TypeOK
  <2> QED
    BY <2>1, <2>2, <2>3, <2>4, <2>5 DEF Requested, TypeOK
<1>9. ASSUME NEW f \in Files, on_data_received(f) PROVE TypeOK'
  <2> DEFINE o == next[f]
  <2>1. DataHandedOver(f, o) /\ (DataTaken(f, o) \/ DataRefused(f))
    BY <1>9, DataOutcome
  <2> HIDE DEF o
  <2>2. o + 1 \in 0 .. Chunks /\ <<f, o>> \in Files \X Offsets
    BY <2>1, SizesAssumption DEF DataHandedOver, Offsets
  <2>3. lib' \in [Files -> {"none", "open", "ended"}] /\ writer' \in {"none", "open", "closed"}
    BY <2>1, CancelledEnds DEF DataTaken, DataRefused, TypeOK
  <2>4. next' \in [Files -> 0 .. Chunks] /\ {requests', faults', switches'} \subseteq Nat
    BY <2>1, <2>2 DEF DataHandedOver, TypeOK
  <2>5. held' \subseteq Files \X Offsets /\ lost' \subseteq Files \X Offsets
    BY <2>1, <2>2 DEF DataHandedOver, TypeOK
  <2> QED
    BY <2>1, <2>3, <2>4, <2>5 DEF DataHandedOver, TypeOK
<1>10. ASSUME NEW f \in Files, on_finalize_request(f) PROVE TypeOK'
  <2>1. Finalized(f)
    BY <1>10, FinalizeOutcome
  <2> QED
    BY <2>1 DEF Finalized, TypeOK
<1>11. ASSUME NEW f \in Files, on_cancel_request(f) PROVE TypeOK'
  BY <1>11 DEF on_cancel_request, nordic_dfu_img_cancel, TypeOK
<1>12. ASSUME NEW f \in Files, on_release_scratch_buffer(f) PROVE TypeOK'
  BY <1>12 DEF on_release_scratch_buffer, scratch_buffer_remove, EmptySlot, TypeOK
<1> QED
  BY <1>1, <1>2, <1>3, <1>4, <1>5, <1>6, <1>7, <1>8, <1>9, <1>10, <1>11, <1>12
     DEF Next, Handle

-----------------------------------------------------------------------------
(* One file at a time. *)

\* Neither what is open nor what is queued grows, and the image stays.
LEMMA OneFileKept ==
    ASSUME OneFile, "crossed" \in spoiled => "crossed" \in spoiled', UNCHANGED image,
           \A g \in Files : lib'[g] = "open" => lib[g] = "open",
           \A g, p : Queued(g, p)' => Queued(g, p)
    PROVE  OneFile'
<1> SUFFICES ASSUME "crossed" \notin spoiled' PROVE \E f \in Files \cup {UNUSED} : OnlyFile(f)'
  BY DEF OneFile
<1>1. PICK f \in Files \cup {UNUSED} : OnlyFile(f)
  BY DEF OneFile
<1>2. OnlyFile(f)'
  BY <1>1 DEF OnlyFile, ImageOf
<1> QED
  BY <1>2

\* A chunk of the file at hand is written.
LEMMA OneFileWritten ==
    ASSUME TypeOK, OneFile, NEW f \in Files, NEW o \in Offsets, ChunkWritten(f, o),
           UNCHANGED spoiled, \A g, p : Queued(g, p)' => Queued(g, p)
    PROVE  OneFile'
<1> SUFFICES ASSUME "crossed" \notin spoiled' PROVE OnlyFile(f)'
  BY DEF OneFile
<1>1. OnlyFile(f)
  BY DEF OneFile, OnlyFile, ChunkWritten
<1>2. CASE o = Len(image)
  <2>1. image' = Append(image, <<f, o>>) /\ image \in Seq(Files \X Offsets)
    BY <1>2 DEF ChunkWritten, TypeOK
  <2>2. /\ Len(image) \in Nat /\ Len(image') = Len(image) + 1
        /\ \A i \in 1 .. Len(image) : image'[i] = image[i]
        /\ image'[Len(image) + 1] = <<f, o>>
    BY <2>1, AppendProperties, LenProperties
  <2>3. Len(image') <= Chunks
    BY <1>2, <2>2, SizesAssumption DEF Offsets
  <2>4. ASSUME NEW i \in 1 .. Len(image') PROVE image'[i] = <<f, i - 1>>
    <3>1. CASE i = Len(image) + 1
      BY <1>2, <2>2, <3>1
    <3>2. CASE i # Len(image) + 1
      <4>1. i \in 1 .. Len(image)
        BY <2>2, <3>2
      <4> QED
        BY <1>1, <2>2, <4>1 DEF OnlyFile, ImageOf
    <3> QED
      BY <3>1, <3>2
  <2> QED
    BY <1>1, <2>3, <2>4 DEF OnlyFile, ImageOf, ChunkWritten
<1>3. CASE o # Len(image)
  BY <1>1, <1>3 DEF OnlyFile, ImageOf, ChunkWritten
<1> QED
  BY <1>2, <1>3

\* Every step keeps the file one until transfers cross.
LEMMA OneFileStep == ASSUME TypeOK, OneFile, Next PROVE OneFile'
<1> USE DEF appVars, libVars, boundVars
<1>0. UNCHANGED events => \A g, p : Queued(g, p)' => Queued(g, p)
  BY DEF Queued, Chunk, Event
<1>1. CASE on_event
  <2>1. \A g, p : Queued(g, p)' => Queued(g, p)
    BY <1>1, QueuePuts, OtherEvents DEF on_event
  <2> QED
    BY <1>1, <2>1, OneFileKept DEF on_event
<1>2. CASE sidewalk_event_process
  <2>1. \A g, p : Queued(g, p)' => Queued(g, p)
    BY <1>2, QueueGets DEF sidewalk_event_process, AtHead
  <2> QED
    BY <1>2, <2>1, OneFileKept DEF sidewalk_event_process
<1>3. CASE sidewalk_event_file_transfer
  <2>1. PICK f \in Files, o \in Offsets : ChunkDone(f, o)
    BY <1>3, ChunkOutcome
  <2>2. CASE ChunkWritten(f, o)
    BY <2>1, <2>2, OneFileWritten DEF ChunkDone
  <2>3. CASE ChunkRefused(f, o)
    <3>1. \A g \in Files : lib'[g] = "open" => lib[g] = "open"
      BY <2>3, CancelledEnds DEF ChunkRefused
    <3> QED
      BY <2>1, <2>3, <3>1, OneFileKept DEF ChunkDone, ChunkRefused
  <2> QED
    BY <2>1, <2>2, <2>3 DEF ChunkDone
<1>4. CASE sidewalk_event_reboot
  <2>1. OnlyFile(UNUSED)'
    BY <1>4, EmptySeq, SizesAssumption DEF sidewalk_event_reboot, OnlyFile, ImageOf, Queued
  <2> QED
    BY <2>1 DEF OneFile
<1>5. CASE ProcessReturns
  BY <1>0, <1>5, OneFileKept DEF ProcessReturns
<1>6. CASE sidewalk_event_link_switch
  <2>1. \A g \in Files : lib'[g] # "open"
    BY <1>6 DEF sidewalk_event_link_switch
  <2> QED
    BY <1>0, <1>6, <2>1, OneFileKept DEF sidewalk_event_link_switch
<1>7. CASE DfuMode
  BY <1>0, <1>7, OneFileKept DEF DfuMode
<1>8. ASSUME NEW f \in Files, on_transfer_request(f) PROVE OneFile'
  <2>1. Requested(f) /\ (RequestIgnored \/ RequestTaken(f))
    BY <1>8, RequestOutcome
  <2>2. \A g, p : Queued(g, p)' => Queued(g, p)
    BY <1>0, <2>1 DEF Requested
  <2>3. CASE RequestIgnored
    BY <2>2, <2>3, OneFileKept DEF RequestIgnored
  <2>4. CASE RequestTaken(f)
    <3> SUFFICES ASSUME "crossed" \notin spoiled' PROVE OnlyFile(f)'
      BY DEF OneFile
    <3>1. \A g \in Files : lib[g] # "open" /\ \A o \in Offsets : ~Queued(g, o)
      BY <2>4 DEF RequestTaken
    <3>2. \A g \in Files : lib'[g] = "open" => g = f
      BY <2>4, <3>1 DEF RequestTaken, TypeOK
    <3>3. ImageOf(f)'
      BY <2>4, EmptySeq, SizesAssumption DEF RequestTaken, ImageOf
    <3> QED
      BY <2>2, <3>1, <3>2, <3>3 DEF OnlyFile
  <2> QED
    BY <2>1, <2>3, <2>4
<1>9. ASSUME NEW f \in Files, on_data_received(f) PROVE OneFile'
  <2> DEFINE o == next[f]
  <2>1. DataHandedOver(f, o) /\ (DataTaken(f, o) \/ DataRefused(f))
    BY <1>9, DataOutcome
  <2> HIDE DEF o
  <2>2. CASE DataTaken(f, o)
    <3> SUFFICES ASSUME "crossed" \notin spoiled' PROVE OnlyFile(f)'
      BY DEF OneFile
    <3>1. OnlyFile(f)
      BY <2>1 DEF OneFile, OnlyFile, DataHandedOver
    <3>2. \A g, p : Chunk(f, o) = Chunk(g, p) => g = f
      BY DEF Chunk, Event
    <3> QED
      BY <2>1, <2>2, <3>1, <3>2 DEF DataHandedOver, DataTaken, OnlyFile, ImageOf
  <2>3. CASE DataRefused(f)
    <3>1. \A g \in Files : lib'[g] = "open" => lib[g] = "open"
      BY <2>3, CancelledEnds DEF DataRefused
    <3> QED
      BY <2>1, <2>3, <3>1, OneFileKept DEF DataHandedOver, DataRefused
  <2> QED
    BY <2>1, <2>2, <2>3
<1>10. ASSUME NEW f \in Files, on_finalize_request(f) PROVE OneFile'
  <2>1. Finalized(f)
    BY <1>10, FinalizeOutcome
  <2>2. \A g \in Files : lib'[g] = "open" => lib[g] = "open"
    BY <2>1 DEF Finalized, TypeOK
  <2> QED
    BY <2>1, <2>2, OneFileKept DEF Finalized
<1>11. ASSUME NEW f \in Files, on_cancel_request(f) PROVE OneFile'
  <2>1. \A g \in Files : lib'[g] = "open" => lib[g] = "open"
    BY <1>11 DEF on_cancel_request, TypeOK
  <2> QED
    BY <1>0, <1>11, <2>1, OneFileKept DEF on_cancel_request, nordic_dfu_img_cancel
<1>12. ASSUME NEW f \in Files, on_release_scratch_buffer(f) PROVE OneFile'
  <2>1. \A g \in Files : lib'[g] = "open" => lib[g] = "open"
    BY <1>12 DEF on_release_scratch_buffer, TypeOK
  <2> QED
    BY <1>0, <1>12, <2>1, OneFileKept DEF on_release_scratch_buffer
<1> QED
  BY <1>1, <1>2, <1>3, <1>4, <1>5, <1>6, <1>7, <1>8, <1>9, <1>10, <1>11, <1>12
     DEF Next, Handle

-----------------------------------------------------------------------------
(* What an open transfer handed over is not missed. *)

\* The handler that closes the writer ends the only open transfer.
LEMMA NoneOpenLeft ==
    ASSUME TypeOK, OneFile, "crossed" \notin spoiled, NEW f \in Files,
           lib[f] = "open" \/ \E o \in Offsets : Queued(f, o),
           lib' = Cancelled(f) \/ lib' = [lib EXCEPT ![f] = "ended"]
    PROVE  \A g \in Files : lib'[g] # "open"
<1>1. \A g \in Files : lib[g] = "open" => g = f
  BY DEF OneFile, OnlyFile
<1>2. lib'[f] # "open" /\ \A g \in Files : g # f => lib'[g] = lib[g]
  BY CancelledEnds DEF TypeOK
<1> QED
  BY <1>1, <1>2

\* Nothing that an open transfer relies on is taken away.
LEMMA NothingMissedKept ==
    ASSUME NothingMissed, "crossed" \in spoiled => "crossed" \in spoiled',
           UNCHANGED <<image, writer, next>>, held \subseteq held',
           \A g \in Files : lib'[g] = "open" => lib[g] = "open"
    PROVE  NothingMissed'
  BY DEF NothingMissed

\* Every step writes what an open transfer handed over, or keeps it held, or
\* ends the transfer.
LEMMA NothingMissedStep == ASSUME TypeOK, OneFile, NothingMissed, Next PROVE NothingMissed'
<1> USE DEF appVars, libVars, boundVars
<1>0. (\A g \in Files : lib'[g] # "open") => NothingMissed'
  BY DEF NothingMissed
<1>1. CASE on_event
  BY <1>1, NothingMissedKept DEF on_event
<1>2. CASE sidewalk_event_process
  BY <1>2, NothingMissedKept DEF sidewalk_event_process
<1>3. CASE sidewalk_event_file_transfer
  <2>1. PICK f \in Files, o \in Offsets : ChunkDone(f, o)
    BY <1>3, ChunkOutcome
  <2>2. CASE ChunkWritten(f, o)
    <3>1. Len(image) \in Nat /\ Len(image') \in Nat /\ o < Len(image') /\ Len(image) <= Len(image')
      <4>1. CASE o = Len(image)
        <5>1. image' = Append(image, <<f, o>>) /\ image \in Seq(Files \X Offsets)
          BY <2>2, <4>1 DEF ChunkWritten, TypeOK
        <5>2. Len(image) \in Nat /\ Len(image') = Len(image) + 1
          BY <5>1, AppendProperties, LenProperties
        <5> QED
          BY <4>1, <5>2
      <4>2. CASE o # Len(image)
        <5>1. image' = image /\ o <= Len(image) /\ Len(image) \in Nat
          BY <2>2, <4>2, LenProperties DEF ChunkWritten, TypeOK
        <5> QED
          BY <4>2, <5>1 DEF Offsets
      <4> QED
        BY <4>1, <4>2
    <3>2. ASSUME NEW g \in Files, NEW p \in Offsets,
                 <<g, p>> \in held \/ p < Len(image), g = f
          PROVE  <<g, p>> \in held' \/ p < Len(image')
      <4>1. CASE p = o
        BY <3>1, <4>1
      <4>2. CASE p # o
        <5>1. <<g, p>> # <<f, o>>
          BY <4>2
        <5>2. p < Len(image) => p < Len(image')
          BY <3>1 DEF Offsets
        <5> QED
          BY <2>1, <3>2, <5>1, <5>2 DEF ChunkDone
      <4> QED
        BY <4>1, <4>2
    <3>3. "crossed" \notin spoiled => \A g \in Files : lib[g] = "open" => g = f
      BY <2>2 DEF OneFile, OnlyFile, ChunkWritten
    <3>4. UNCHANGED <<lib, writer, next, spoiled>>
      BY <2>1, <2>2 DEF ChunkDone, ChunkWritten
    <3> QED
      BY <3>2, <3>3, <3>4 DEF NothingMissed
  <2>3. CASE ChunkRefused(f, o)
    <3>1. "crossed" \notin spoiled => \A g \in Files : lib'[g] # "open"
      BY <2>3, NoneOpenLeft DEF ChunkRefused
    <3> QED
      BY <1>0, <2>1, <3>1 DEF ChunkDone, NothingMissed
  <2> QED
    BY <2>1, <2>2, <2>3 DEF ChunkDone
<1>4. CASE sidewalk_event_reboot
  BY <1>0, <1>4 DEF sidewalk_event_reboot
<1>5. CASE ProcessReturns
  BY <1>5, NothingMissedKept DEF ProcessReturns
<1>6. CASE sidewalk_event_link_switch
  BY <1>0, <1>6 DEF sidewalk_event_link_switch
<1>7. CASE DfuMode
  BY <1>7, NothingMissedKept DEF DfuMode
<1>8. ASSUME NEW f \in Files, on_transfer_request(f) PROVE NothingMissed'
  <2>1. Requested(f) /\ (RequestIgnored \/ RequestTaken(f))
    BY <1>8, RequestOutcome
  <2>2. CASE RequestIgnored
    BY <2>1, <2>2, NothingMissedKept DEF Requested, RequestIgnored
  <2>3. CASE RequestTaken(f)
    <3> SUFFICES ASSUME "crossed" \notin spoiled', NEW g \in Files, lib'[g] = "open"
                 PROVE  writer' = "open" /\ \A o \in Offsets : ~(o < next'[g])
      BY DEF NothingMissed
    <3>1. \A h \in Files : lib[h] # "open"
      BY <2>3 DEF RequestTaken
    <3>2. next' = [next EXCEPT ![f] = 0] /\ lib' = [lib EXCEPT ![f] = "open"]
      BY <2>3, <3>1 DEF RequestTaken
    <3>3. next'[g] = 0
      BY <3>1, <3>2 DEF TypeOK
    <3> QED
      BY <2>3, <3>3 DEF RequestTaken, Offsets
  <2> QED
    BY <2>1, <2>2, <2>3
<1>9. ASSUME NEW f \in Files, on_data_received(f) PROVE NothingMissed'
  <2> DEFINE o == next[f]
  <2>1. DataHandedOver(f, o) /\ (DataTaken(f, o) \/ DataRefused(f))
    BY <1>9, DataOutcome
  <2>2. o = next[f]
    OBVIOUS
  <2> HIDE DEF o
  <2>3. CASE DataTaken(f, o)
    <3> SUFFICES ASSUME "crossed" \notin spoiled', NEW g \in Files, lib'[g] = "open"
                 PROVE  /\ writer' = "open"
                        /\ \A p \in Offsets : p < next'[g] =>
                              <<g, p>> \in held' \/ p < Len(image')
      BY DEF NothingMissed
    <3>1. /\ "crossed" \notin spoiled /\ lib[g] = "open" /\ g = f
          /\ UNCHANGED <<writer, image>> /\ held' = held \cup {<<f, o>>}
      BY <2>1, <2>3 DEF OneFile, OnlyFile, DataHandedOver, DataTaken
    <3>2. next'[f] = o + 1 /\ o \in Offsets
      BY <2>1 DEF DataHandedOver, TypeOK
    <3>3. \A p \in Offsets : p < next'[g] => p < next[f] \/ p = o
      BY <2>2, <3>1, <3>2, SizesAssumption DEF Offsets
    <3> QED
      BY <3>1, <3>3 DEF NothingMissed
  <2>4. CASE DataRefused(f)
    <3>1. "crossed" \notin spoiled => \A g \in Files : lib'[g] # "open"
      BY <2>1, <2>4, NoneOpenLeft DEF DataHandedOver, DataRefused
    <3> QED
      BY <1>0, <2>1, <3>1 DEF DataHandedOver, NothingMissed
  <2> QED
    BY <2>1, <2>3, <2>4
<1>10. ASSUME NEW f \in Files, on_finalize_request(f) PROVE NothingMissed'
  <2>1. Finalized(f)
    BY <1>10, FinalizeOutcome
  <2>2. "crossed" \notin spoiled => \A g \in Files : lib'[g] # "open"
    BY <2>1, NoneOpenLeft DEF Finalized
  <2> QED
    BY <1>0, <2>1, <2>2 DEF Finalized, NothingMissed
<1>11. ASSUME NEW f \in Files, on_cancel_request(f) PROVE NothingMissed'
  <2>1. "crossed" \notin spoiled => \A g \in Files : lib'[g] # "open"
    BY <1>11, NoneOpenLeft DEF on_cancel_request
  <2> QED
    BY <1>0, <1>11, <2>1 DEF on_cancel_request, NothingMissed
<1>12. ASSUME NEW f \in Files, on_release_scratch_buffer(f) PROVE NothingMissed'
  <2>1. \A g \in Files : lib'[g] = "open" => lib[g] = "open" /\ g # f
    BY <1>12 DEF on_release_scratch_buffer, TypeOK
  <2>2. /\ held' = held \ ({f} \X Offsets)
        /\ UNCHANGED <<image, writer, next, spoiled>>
    BY <1>12 DEF on_release_scratch_buffer
  <2> QED
    BY <2>1, <2>2 DEF NothingMissed
<1> QED
  BY <1>1, <1>2, <1>3, <1>4, <1>5, <1>6, <1>7, <1>8, <1>9, <1>10, <1>11, <1>12
     DEF Next, Handle

-----------------------------------------------------------------------------
(* What is scheduled and what is reported. *)

\* An image of one file that has all its chunks is that file.
LEMMA WholeImage ==
    ASSUME TypeOK, NEW f, ImageOf(f), Len(image) = Chunks
    PROVE  f \in Files /\ image = Whole(f)
<1>1. /\ image \in Seq(Files \X Offsets) /\ DOMAIN image = 1 .. Chunks
      /\ \A i \in 1 .. Chunks : image[i] = <<f, i - 1>>
  BY LenProperties DEF TypeOK, ImageOf
<1>2. 1 \in 1 .. Chunks
  BY SizesAssumption
<1>3. image[1] \in Files \X Offsets /\ image[1] = <<f, 0>>
  BY <1>1, <1>2, ElementOfSeq
<1>4. image = [i \in 1 .. Chunks |-> image[i]]
  BY <1>1, LenProperties
<1>5. image = Whole(f)
  BY <1>1, <1>4 DEF Whole
<1> QED
  BY <1>3, <1>5

\* A finalised file that left nothing spoiled is the whole image, and an upgrade
\* to it is requested.
LEMMA FinalizeInstalls ==
    ASSUME TypeOK, OneFile, NothingMissed, NEW f \in Files, Finalized(f), spoiled' = {}
    PROVE  scheduled' = Whole(f) /\ Len(image') = Chunks
<1>1. /\ spoiled = {} /\ faults' = faults
      /\ \A o \in Offsets : <<f, o>> \notin held
  BY DEF Finalized
<1>2. writer = "open" /\ \A o \in Offsets : o < Len(image)
  <2>1. /\ lib[f] = "open" /\ next[f] = Chunks /\ "crossed" \notin spoiled
        /\ \A o \in Offsets : o < Chunks
    BY <1>1, SizesAssumption DEF Finalized, Offsets
  <2> QED
    BY <1>1, <2>1 DEF NothingMissed
<1>3. ImageOf(f)
  BY <1>1 DEF Finalized, OneFile, OnlyFile
<1>4. Len(image) = Chunks
  <2>1. Chunks - 1 \in Offsets /\ Len(image) \in Nat
    BY SizesAssumption, LenProperties DEF Offsets, TypeOK
  <2>2. Chunks - 1 < Len(image)
    BY <1>2, <2>1
  <2> QED
    BY <1>3, <2>1, <2>2, SizesAssumption DEF ImageOf
<1>5. faults # faults + 1 /\ ~(Len(image) < Chunks)
  BY <1>4, SizesAssumption DEF TypeOK
<1>6. scheduled' = image /\ image' = image
  BY <1>1, <1>2, <1>5 DEF Finalized
<1> QED
  BY <1>3, <1>4, <1>6, WholeImage

\* Neither the image nor the report changes.
LEMMA InstalledKept ==
    ASSUME Installed, spoiled' = {} => spoiled = {}, UNCHANGED <<image, scheduled, reported>>
    PROVE  Installed'
  BY DEF Installed, SuccessIsInstalled, Whole

\* Every step keeps what was reported requested.
LEMMA InstalledStep == ASSUME TypeOK, OneFile, NothingMissed, Installed, Next PROVE Installed'
<1> USE DEF appVars, libVars, boundVars
<1>0. reported' = UNUSED => Installed'
  BY DEF Installed, SuccessIsInstalled
<1>1. CASE on_event
  BY <1>1, InstalledKept DEF on_event
<1>2. CASE sidewalk_event_process
  BY <1>2, InstalledKept DEF sidewalk_event_process
<1>3. CASE sidewalk_event_file_transfer
  <2>1. PICK f \in Files, o \in Offsets : ChunkDone(f, o)
    BY <1>3, ChunkOutcome
  <2>2. CASE ChunkWritten(f, o)
    <3>1. CASE spoiled = {} /\ reported # UNUSED
      <4>1. Len(image) = Chunks /\ o # Chunks
        BY <3>1, SizesAssumption DEF Installed, Offsets
      <4>2. UNCHANGED <<image, scheduled>>
        BY <2>2, <4>1 DEF ChunkWritten
      <4> QED
        BY <2>1, <4>2, InstalledKept DEF ChunkDone
    <3>2. CASE ~(spoiled = {} /\ reported # UNUSED)
      BY <2>1, <3>2 DEF ChunkDone, Installed, SuccessIsInstalled
    <3> QED
      BY <3>1, <3>2
  <2>3. CASE ChunkRefused(f, o)
    BY <2>1, <2>3, InstalledKept DEF ChunkDone, ChunkRefused
  <2> QED
    BY <2>1, <2>2, <2>3 DEF ChunkDone
<1>4. CASE sidewalk_event_reboot
  BY <1>0, <1>4 DEF sidewalk_event_reboot
<1>5. CASE ProcessReturns
  BY <1>5, InstalledKept DEF ProcessReturns
<1>6. CASE sidewalk_event_link_switch
  BY <1>6, InstalledKept DEF sidewalk_event_link_switch
<1>7. CASE DfuMode
  BY <1>7, InstalledKept DEF DfuMode
<1>8. ASSUME NEW f \in Files, on_transfer_request(f) PROVE Installed'
  BY <1>0, <1>8 DEF on_transfer_request
<1>9. ASSUME NEW f \in Files, on_data_received(f) PROVE Installed'
  BY <1>9, DataOutcome, InstalledKept DEF DataHandedOver
<1>10. ASSUME NEW f \in Files, on_finalize_request(f) PROVE Installed'
  <2>1. Finalized(f)
    BY <1>10, FinalizeOutcome
  <2>2. spoiled' = {} => scheduled' = Whole(f) /\ Len(image') = Chunks
    BY <2>1, FinalizeInstalls
  <2>3. reported' = f
    BY <2>1 DEF Finalized
  <2> QED
    BY <2>2, <2>3 DEF Installed, SuccessIsInstalled, Whole
<1>11. ASSUME NEW f \in Files, on_cancel_request(f) PROVE Installed'
  BY <1>11, InstalledKept DEF on_cancel_request, nordic_dfu_img_cancel
<1>12. ASSUME NEW f \in Files, on_release_scratch_buffer(f) PROVE Installed'
  BY <1>12, InstalledKept DEF on_release_scratch_buffer
<1> QED
  BY <1>1, <1>2, <1>3, <1>4, <1>5, <1>6, <1>7, <1>8, <1>9, <1>10, <1>11, <1>12
     DEF Next, Handle

\* Every step keeps the image an upgrade is requested for the whole of one file.
LEMMA ImageStep == ASSUME TypeOK, OneFile, ImageIsOneFile, Next PROVE ImageIsOneFile'
<1> USE DEF appVars, libVars, boundVars
<1>0. ASSUME "crossed" \in spoiled => "crossed" \in spoiled',
             scheduled' = <<>> \/ UNCHANGED scheduled
      PROVE  ImageIsOneFile'
  BY <1>0 DEF ImageIsOneFile, Whole
<1>1. CASE on_event
  BY <1>0, <1>1 DEF on_event
<1>2. CASE sidewalk_event_process
  BY <1>0, <1>2 DEF sidewalk_event_process
<1>3. CASE sidewalk_event_file_transfer
  BY <1>0, <1>3, ChunkOutcome DEF ChunkDone, ChunkWritten, ChunkRefused
<1>4. CASE sidewalk_event_reboot
  BY <1>4 DEF sidewalk_event_reboot, ImageIsOneFile
<1>5. CASE ProcessReturns
  BY <1>0, <1>5 DEF ProcessReturns
<1>6. CASE sidewalk_event_link_switch
  BY <1>0, <1>6 DEF sidewalk_event_link_switch
<1>7. CASE DfuMode
  BY <1>0, <1>7 DEF DfuMode
<1>8. ASSUME NEW f \in Files, on_transfer_request(f) PROVE ImageIsOneFile'
  BY <1>0, <1>8, RequestOutcome DEF Requested, RequestIgnored, RequestTaken
<1>9. ASSUME NEW f \in Files, on_data_received(f) PROVE ImageIsOneFile'
  BY <1>0, <1>9, DataOutcome DEF DataHandedOver
<1>10. ASSUME NEW f \in Files, on_finalize_request(f) PROVE ImageIsOneFile'
  <2>1. Finalized(f)
    BY <1>10, FinalizeOutcome
  <2>2. "crossed" \in spoiled => "crossed" \in spoiled'
    BY <2>1 DEF Finalized
  <2>3. CASE Len(image) = Chunks /\ scheduled' = image
    <3> SUFFICES ASSUME "crossed" \notin spoiled PROVE \E g \in Files : scheduled' = Whole(g)
      BY <2>2 DEF ImageIsOneFile, Whole
    <3>1. PICK g \in Files \cup {UNUSED} : ImageOf(g)
      BY DEF OneFile, OnlyFile
    <3> QED
      BY <2>3, <3>1, WholeImage
  <2>4. CASE UNCHANGED scheduled
    BY <1>0, <2>2, <2>4
  <2> QED
    BY <2>1, <2>3, <2>4 DEF Finalized
<1>11. ASSUME NEW f \in Files, on_cancel_request(f) PROVE ImageIsOneFile'
  BY <1>0, <1>11 DEF on_cancel_request
<1>12. ASSUME NEW f \in Files, on_release_scratch_buffer(f) PROVE ImageIsOneFile'
  BY <1>0, <1>12 DEF on_release_scratch_buffer
<1> QED
  BY <1>1, <1>2, <1>3, <1>4, <1>5, <1>6, <1>7, <1>8, <1>9, <1>10, <1>11, <1>12
     DEF Next, Handle

-----------------------------------------------------------------------------
(* Scratch slots. *)

HasBuffer(f) == \E i \in Slots : files[i].id = f /\ files[i].buffer
IdsDistinct == \A i, j \in Slots : files[i].id = files[j].id /\ i # j => files[i].id = UNUSED
LostSlots == {i \in Slots : files[i].id # UNUSED /\ ~files[i].buffer}

\* The property, slot by slot.
SlotsKnown ==
    /\ \A f \in Files : lib[f] # "none" <=> HasBuffer(f)
    /\ IdsDistinct
    /\ Cardinality(LostSlots) <= faults

\* A slot is its id and its buffer.
LEMMA SlotsParts == TypeOK => (SlotsMatchTransfers <=> SlotsKnown)
<1> SUFFICES ASSUME TypeOK PROVE SlotsMatchTransfers <=> SlotsKnown
  OBVIOUS
<1>1. ASSUME NEW f
      PROVE  HasBuffer(f) <=> [id |-> f, buffer |-> TRUE] \in {files[i] : i \in Slots}
  <2>1. ASSUME NEW i \in Slots
        PROVE  files[i] = [id |-> f, buffer |-> TRUE] <=> files[i].id = f /\ files[i].buffer
    BY <2>1 DEF TypeOK
  <2> QED
    BY <2>1 DEF HasBuffer
<1> QED
  BY <1>1 DEF SlotsMatchTransfers, SlotsKnown, IdsDistinct, LostSlots

\* The slots lost are finitely many.
LEMMA LostFinite ==
    /\ IsFiniteSet(LostSlots) /\ Cardinality(LostSlots) \in Nat
    /\ IsFiniteSet(LostSlots') /\ Cardinality(LostSlots') \in Nat
<1>1. IsFiniteSet(Slots)
  BY FS_Interval, SizesAssumption DEF Slots
<1>2. LostSlots \subseteq Slots /\ LostSlots' \subseteq Slots
  BY DEF LostSlots
<1> QED
  BY <1>1, <1>2, FS_Subset, FS_CardinalityType

\* No step uncounts a failure.
LEMMA LostKept ==
    ASSUME TypeOK, SlotsKnown, LostSlots' \subseteq LostSlots,
           faults' = faults \/ faults' = faults + 1
    PROVE  Cardinality(LostSlots') <= faults'
<1>1. Cardinality(LostSlots') <= Cardinality(LostSlots)
  BY LostFinite, FS_Subset
<1>2. faults \in Nat
  BY DEF TypeOK
<1> QED
  BY <1>1, <1>2, LostFinite DEF SlotsKnown

\* The slots stay, and so do the files that have a transfer.
LEMMA SlotsKept ==
    ASSUME TypeOK, SlotsKnown, UNCHANGED files, faults' = faults \/ faults' = faults + 1,
           \A g \in Files : lib'[g] = "none" <=> lib[g] = "none"
    PROVE  SlotsKnown'
<1>1. Cardinality(LostSlots') <= faults'
  BY LostKept DEF LostSlots
<1> QED
  BY <1>1 DEF SlotsKnown, HasBuffer, IdsDistinct

\* All slots are given up, with all transfers.
LEMMA SlotsEmptied ==
    ASSUME TypeOK, files' = [i \in Slots |-> EmptySlot], UNCHANGED faults,
           lib' = [f \in Files |-> "none"]
    PROVE  SlotsKnown'
<1>1. \A i \in Slots : files'[i].id = UNUSED /\ ~files'[i].buffer
  BY DEF EmptySlot
<1>2. LostSlots' = {}
  BY <1>1 DEF LostSlots
<1>3. Cardinality(LostSlots') <= faults'
  BY <1>2, FS_EmptySet DEF TypeOK
<1>4. \A f \in Files : lib'[f] = "none" /\ ~HasBuffer(f)'
  BY <1>1, FilesAssumption DEF HasBuffer
<1> QED
  BY <1>1, <1>3, <1>4 DEF SlotsKnown, IdsDistinct

\* A slot is taken for a file, with its buffer or without.
LEMMA SlotsCreated ==
    ASSUME TypeOK, SlotsKnown, NEW f \in Files, NEW ok \in BOOLEAN, NEW i \in Slots,
           lib[f] = "none", Created(f, ok, i),
           lib' = IF ok THEN [lib EXCEPT ![f] = "open"] ELSE lib
    PROVE  SlotsKnown'
<1>1. /\ files'[i].id = f /\ files'[i].buffer = ok
      /\ \A j \in Slots : j # i => files'[j] = files[j]
      /\ files[i].id = UNUSED /\ \A j \in Slots : files[j].id # f
  BY DEF Created, TypeOK
<1>2. f # UNUSED
  BY FilesAssumption
<1>3. IdsDistinct'
  BY <1>1 DEF SlotsKnown, IdsDistinct
<1>4. ASSUME NEW g \in Files PROVE lib'[g] # "none" <=> HasBuffer(g)'
  <2>1. CASE g = f
    <3>1. HasBuffer(f)' <=> ok
      BY <1>1 DEF HasBuffer
    <3>2. lib'[f] # "none" <=> ok
      BY DEF TypeOK
    <3> QED
      BY <2>1, <3>1, <3>2
  <2>2. CASE g # f
    <3>1. HasBuffer(g)' <=> HasBuffer(g)
      BY <1>1, <2>2, FilesAssumption DEF HasBuffer
    <3>2. lib'[g] = lib[g]
      BY <2>2 DEF TypeOK
    <3> QED
      BY <3>1, <3>2 DEF SlotsKnown
  <2> QED
    BY <2>1, <2>2
<1>5. Cardinality(LostSlots') <= faults'
  <2>1. CASE ok
    <3>1. LostSlots' \subseteq LostSlots
      BY <1>1, <2>1 DEF LostSlots
    <3> QED
      BY <2>1, <3>1, LostKept DEF Created
  <2>2. CASE ~ok
    <3>1. LostSlots' = LostSlots \cup {i} /\ i \notin LostSlots
      BY <1>1, <1>2, <2>2 DEF LostSlots
    <3>2. Cardinality(LostSlots') = Cardinality(LostSlots) + 1
      BY <3>1, LostFinite, FS_AddElement
    <3>3. faults' = faults + 1 /\ faults \in Nat
      BY <2>2 DEF Created, TypeOK
    <3> QED
      BY <3>2, <3>3, LostFinite DEF SlotsKnown
  <2> QED
    BY <2>1, <2>2
<1> QED
  BY <1>3, <1>4, <1>5 DEF SlotsKnown

\* The slots of a file are given up with its transfer.
LEMMA SlotsRemoved ==
    ASSUME TypeOK, SlotsKnown, NEW f \in Files, scratch_buffer_remove(f), UNCHANGED faults,
           lib' = [lib EXCEPT ![f] = "none"]
    PROVE  SlotsKnown'
<1>1. \A j \in Slots :
         /\ files[j].id = f => files'[j].id = UNUSED /\ ~files'[j].buffer
         /\ files[j].id # f => files'[j] = files[j]
  BY DEF scratch_buffer_remove, EmptySlot
<1>2. f # UNUSED
  BY FilesAssumption
<1>3. IdsDistinct'
  BY <1>1 DEF SlotsKnown, IdsDistinct
<1>4. ASSUME NEW g \in Files PROVE lib'[g] # "none" <=> HasBuffer(g)'
  <2>1. CASE g = f
    BY <1>1, <1>2, <2>1 DEF HasBuffer, TypeOK
  <2>2. CASE g # f
    <3>1. HasBuffer(g)' <=> HasBuffer(g)
      BY <1>1, <2>2, FilesAssumption DEF HasBuffer
    <3>2. lib'[g] = lib[g]
      BY <2>2 DEF TypeOK
    <3> QED
      BY <3>1, <3>2 DEF SlotsKnown
  <2> QED
    BY <2>1, <2>2
<1>5. LostSlots' \subseteq LostSlots
  BY <1>1 DEF LostSlots
<1> QED
  BY <1>3, <1>4, <1>5, LostKept DEF SlotsKnown

\* Every step keeps slots and transfers together.
LEMMA SlotsStep == ASSUME TypeOK, SlotsKnown, Next PROVE SlotsKnown'
<1> USE DEF appVars, libVars, boundVars
<1>1. CASE on_event
  BY <1>1, SlotsKept DEF on_event
<1>2. CASE sidewalk_event_process
  BY <1>2, SlotsKept DEF sidewalk_event_process
<1>3. CASE sidewalk_event_file_transfer
  <2>1. PICK f \in Files, o \in Offsets : ChunkDone(f, o)
    BY <1>3, ChunkOutcome
  <2>2. \A g \in Files : lib'[g] = "none" <=> lib[g] = "none"
    BY <2>1, CancelledEnds DEF ChunkDone, ChunkWritten, ChunkRefused
  <2> QED
    BY <2>1, <2>2, SlotsKept DEF ChunkDone, ChunkWritten, ChunkRefused
<1>4. CASE sidewalk_event_reboot
  BY <1>4, SlotsEmptied DEF sidewalk_event_reboot
<1>5. CASE ProcessReturns
  BY <1>5, SlotsKept DEF ProcessReturns
<1>6. CASE sidewalk_event_link_switch
  BY <1>6, SlotsEmptied DEF sidewalk_event_link_switch
<1>7. CASE DfuMode
  BY <1>7, SlotsKept DEF DfuMode
<1>8. ASSUME NEW f \in Files, on_transfer_request(f) PROVE SlotsKnown'
  <2>1. Requested(f) /\ (RequestIgnored \/ RequestTaken(f))
    BY <1>8, RequestOutcome
  <2>2. lib[f] = "none" /\ (faults' = faults \/ faults' = faults + 1)
    BY <2>1 DEF Requested
  <2>3. CASE UNCHANGED <<files, lib>>
    BY <2>2, <2>3, SlotsKept
  <2>4. CASE scratch_buffer_create(f, TRUE) /\ lib' = [lib EXCEPT ![f] = "open"]
    <3>1. PICK i \in Slots : Created(f, TRUE, i)
      BY <2>4, CreateOutcome
    <3> QED
      BY <2>2, <2>4, <3>1, SlotsCreated
  <2>5. CASE scratch_buffer_create(f, FALSE) /\ UNCHANGED lib
    <3>1. ASSUME NEW i \in Slots, Created(f, FALSE, i) PROVE SlotsKnown'
      BY <2>2, <2>5, <3>1, SlotsCreated
    <3> QED
      BY <2>3, <2>5, <3>1, CreateOutcome
  <2> QED
    BY <2>1, <2>3, <2>4, <2>5 DEF RequestIgnored, RequestTaken
<1>9. ASSUME NEW f \in Files, on_data_received(f) PROVE SlotsKnown'
  <2>1. DataHandedOver(f, next[f]) /\ (DataTaken(f, next[f]) \/ DataRefused(f))
    BY <1>9, DataOutcome
  <2>2. \A g \in Files : lib'[g] = "none" <=> lib[g] = "none"
    BY <2>1, CancelledEnds DEF DataTaken, DataRefused
  <2> QED
    BY <2>1, <2>2, SlotsKept DEF DataHandedOver
<1>10. ASSUME NEW f \in Files, on_finalize_request(f) PROVE SlotsKnown'
  <2>1. Finalized(f)
    BY <1>10, FinalizeOutcome
  <2>2. \A g \in Files : lib'[g] = "none" <=> lib[g] = "none"
    BY <2>1 DEF Finalized, TypeOK
  <2> QED
    BY <2>1, <2>2, SlotsKept DEF Finalized
<1>11. ASSUME NEW f \in Files, on_cancel_request(f) PROVE SlotsKnown'
  <2>1. \A g \in Files : lib'[g] = "none" <=> lib[g] = "none"
    BY <1>11 DEF on_cancel_request, TypeOK
  <2> QED
    BY <1>11, <2>1, SlotsKept DEF on_cancel_request
<1>12. ASSUME NEW f \in Files, on_release_scratch_buffer(f) PROVE SlotsKnown'
  BY <1>12, SlotsRemoved DEF on_release_scratch_buffer
<1> QED
  BY <1>1, <1>2, <1>3, <1>4, <1>5, <1>6, <1>7, <1>8, <1>9, <1>10, <1>11, <1>12
     DEF Next, Handle

-----------------------------------------------------------------------------
(* The theorems. *)

TransferInv ==
    TypeOK /\ OneFile /\ NothingMissed /\ Installed /\ ImageIsOneFile /\ SlotsKnown

\* The device starts in the invariant.
LEMMA TransferInit == Init => TransferInv
<1> SUFFICES ASSUME Init PROVE TransferInv
  OBVIOUS
<1>1. TypeOK
  <2>1. /\ <<>> \in Seq(Events) /\ <<>> \in Seq(Files \X Offsets)
        /\ Len(<<>>) = 0 /\ 0 <= QueueSize
    BY EmptySeq, SizesAssumption
  <2>2. /\ files \in [Slots -> [id : Files \cup {UNUSED}, buffer : BOOLEAN]]
        /\ lib \in [Files -> {"none", "open", "ended"}] /\ next \in [Files -> 0 .. Chunks]
    BY SizesAssumption DEF Init, EmptySlot
  <2>3. image \in Seq(Files \X Offsets) /\ scheduled \in Seq(Files \X Offsets)
    BY <2>1 DEF Init
  <2>4. events \in Seq(Events) /\ Len(events) <= QueueSize
    BY <2>1 DEF Init
  <2>5. {requests, faults, switches} \subseteq Nat
    BY DEF Init
  <2> QED
    BY <2>2, <2>3, <2>4, <2>5 DEF Init, TypeOK
<1>2. OneFile
  <2>1. OnlyFile(UNUSED)
    BY EmptySeq, SizesAssumption DEF Init, OnlyFile, ImageOf, Queued
  <2> QED
    BY <2>1 DEF OneFile
<1>3. NothingMissed /\ Installed /\ ImageIsOneFile
  BY DEF Init, NothingMissed, Installed, SuccessIsInstalled, ImageIsOneFile
<1>4. SlotsKnown
  <2>1. \A i \in Slots : files[i].id = UNUSED /\ ~files[i].buffer
    BY DEF Init, EmptySlot
  <2>2. LostSlots = {}
    BY <2>1 DEF LostSlots
  <2>3. Cardinality(LostSlots) <= faults
    BY <2>2, FS_EmptySet DEF Init
  <2>4. \A f \in Files : lib[f] = "none" /\ ~HasBuffer(f)
    BY <2>1, FilesAssumption DEF Init, HasBuffer
  <2> QED
    BY <2>1, <2>3, <2>4 DEF SlotsKnown, IdsDistinct
<1> QED
  BY <1>1, <1>2, <1>3, <1>4 DEF TransferInv

\* Every step keeps the invariant.
LEMMA TransferStep == ASSUME TransferInv, [Next]_vars PROVE TransferInv'
<1>1. CASE Next
  BY <1>1, TypeStep, OneFileStep, NothingMissedStep, InstalledStep, ImageStep, SlotsStep
     DEF TransferInv
<1>2. CASE UNCHANGED vars
  <2> USE <1>2 DEF TransferInv, vars, appVars, libVars, boundVars
  <2>1. TypeOK'
    BY DEF TypeOK
  <2>2. OneFile'
    BY OneFileKept DEF Queued, Chunk, Event
  <2>3. NothingMissed' /\ Installed'
    BY NothingMissedKept, InstalledKept
  <2>4. ImageIsOneFile'
    BY DEF ImageIsOneFile, Whole
  <2>5. SlotsKnown'
    BY SlotsKept
  <2> QED
    BY <2>1, <2>2, <2>3, <2>4, <2>5
<1> QED
  BY <1>1, <1>2

\* In every behaviour the invariant holds in every state.
THEOREM TransferAlwaysInv == Spec => []TransferInv
<1>1. Init => TransferInv
  BY TransferInit
<1>2. TransferInv /\ [Next]_vars => TransferInv'
  BY TransferStep
<1> QED
  BY <1>1, <1>2, PTL DEF Spec

\* The image an upgrade is requested for is the whole of one file, unless a request
\* met an open transfer or a queued chunk: the one writer that nordic_dfu_img_init
\* resets is shared by all transfers.
THEOREM ImageAlwaysOneFile == Spec => []ImageIsOneFile
<1>1. TransferInv => ImageIsOneFile
  BY DEF TransferInv
<1> QED
  BY <1>1, TransferAlwaysInv, PTL

\* What on_finalize_request reported as a success is what the upgrade is requested
\* for, when the library waited for its buffers and completing the image worked.
THEOREM SuccessAlwaysInstalled == Spec => []SuccessIsInstalled
<1>1. TransferInv => SuccessIsInstalled
  BY DEF TransferInv, Installed
<1> QED
  BY <1>1, TransferAlwaysInv, PTL

\* A file has a scratch buffer exactly while it has a transfer, none has two, and
\* every slot lost is a failed allocation of scratch_buffer_create.
THEOREM SlotsAlwaysMatch == Spec => []SlotsMatchTransfers
<1>1. TransferInv => SlotsMatchTransfers
  BY SlotsParts DEF TransferInv
<1> QED
  BY <1>1, TransferAlwaysInv, PTL
=============================================================================
