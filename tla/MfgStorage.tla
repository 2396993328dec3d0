----------------------------- MODULE MfgStorage -----------------------------
(***************************************************************************)
(* Manufacturing storage: the TLV layout of tlv.c, the first boot of        *)
(* sid_mfg_storage.c that converts what the factory wrote (version 7 at     *)
(* constant offsets, version 8 as unpadded type-length-value), the import   *)
(* of the private keys into secure storage (sid_crypto_keys.c), and the     *)
(* writes of diagnostic builds. A reset may come between any two writes.    *)
(*                                                                         *)
(* The region is a function from offsets to cells. The start marker and an  *)
(* entry header take one cell each, a payload byte another; the units are   *)
(* scaled by Align (DATA_ALIGN) and Base (what one byte of a size can       *)
(* hold). A padding byte is the erase value, so it is an erased cell.       *)
(*                                                                         *)
(* The raw parser takes padding for the high byte of a size. In a region    *)
(* that a cut conversion left it may therefore overrun its buffer and take  *)
(* payload for headers, which then read as anything.                        *)
(***************************************************************************)
EXTENDS Integers, Sequences

CONSTANTS
    Factory,    \* what the factory may have written: [version, entries], the
                \* entries a sequence of [type, size, offset]
    Types,      \* the types of entries
    Keys,       \* the types of the private keys
    Table,      \* version 7: the sequence of [type, size, offset]
    Flags,      \* MFG_FLAGS_TYPE_ID
    Empty,      \* 0xFFFF
    NewTypes,   \* what diagnostic builds write, one byte each
    Align, Base, End,
    MaxElement, \* CONFIG_SIDEWALK_MFG_PARSER_MAX_ELEMENT_SIZE: the parser's buffer
    Reading,    \* what the bytes of a payload read as where they are met as a header
    Faults,     \* the calls that may fail
    MaxResets, MaxFaults, MaxWrites     \* bounds

ASSUME TypesAssumption ==
    /\ Keys \cup NewTypes \cup {Flags, Empty} \subseteq Types
    /\ Empty \notin Keys \cup {Flags} \cup NewTypes /\ Flags \notin Keys
    /\ "other" \in Types
ASSUME SizesAssumption ==
    /\ Align \in Nat \ {0} /\ Base \in Nat /\ End \in Nat \ {0}
    /\ MaxElement \in Nat /\ Align <= MaxElement /\ MaxElement < Base
ASSUME ReadingAssumption ==
    Reading \in [Types -> [1 .. MaxElement -> [type : Types, padding : Nat, data_size : Nat]]]

(* The cells of an entry the factory wrote: with a header in version 8.    *)
Lies(version, e) == e.offset .. e.offset + e.size - (IF version = 8 THEN 0 ELSE 1)

(* Entries of different types that fit the buffer, apart from each other    *)
(* and within the region.                                                  *)
Placed(version, es) ==
    /\ es \in Seq([type : Types \ {Empty, Flags, "other"}, size : 1 .. MaxElement,
                   offset : Nat \ {0}])
    /\ \A i \in 1 .. Len(es) : es[i].offset + es[i].size <= End - (IF version = 8 THEN 1 ELSE 0)
    /\ \A i, j \in 1 .. Len(es) :
          i # j => es[i].type # es[j].type /\ Lies(version, es[i]) \cap Lies(version, es[j]) = {}

(* Version 8 puts one entry after the other, version 7 each at the place   *)
(* that the table gives it.                                                *)
ASSUME LayoutAssumption ==
    /\ Placed(7, Table)
    /\ \A f \in Factory :
          /\ f.version \in {7, 8} /\ Placed(f.version, f.entries)
          /\ LET es == f.entries
             IN  \A i \in 1 .. Len(es) :
                    IF f.version = 7 THEN \E j \in 1 .. Len(Table) : es[i] = Table[j]
                    ELSE es[i].offset = IF i = 1 THEN 1 ELSE es[i - 1].offset + es[i - 1].size + 1

Offsets == 0 .. End - 1

VARIABLES
    factory,    \* what the factory wrote on this device
    flash,      \* the region
    psa,        \* the private keys in secure storage
    pc,         \* where sid_pal_mfg_store_init is: "off" before it
    pos,        \* the position of the parser, or of the write of the region
    ram,        \* the converted region, in RAM
    writing,    \* the type a diagnostic write has put the header of, or Empty
    converted,  \* history: was the region converted completely?
    torn,       \* history: did a reset or an error leave a conversion half way?
    wiped,      \* history: was the region erased on demand?
    misread,    \* history: did the buffer overrun, or was payload taken for a header?
    resets, faults, writes

bounds == <<resets, faults, writes>>
history == <<converted, torn, wiped, misread>>
vars == <<factory, flash, psa, pc, pos, ram, writing, history, bounds>>

----------------------------------------------------------------------------
(* Cells, and how four bytes read as a header: those of a header or of      *)
(* erased flash as what they are, those of a payload as anything.           *)

Cell(kind, type, a, b) == [kind |-> kind, type |-> type, a |-> a, b |-> b]
Erased == Cell("erased", Empty, Base - 1, Base - 1)
Marker(version) == Cell("marker", Empty, version, 0)
Header(type, padding, size) == Cell("header", type, padding, size)
Byte(type, i) == Cell("byte", type, i, 0)

Blank == [o \in Offsets |-> Erased]
PayloadOf(type, size) == [i \in 1 .. size |-> Byte(type, i)]

(* cells written one after the other from an offset on                     *)
Put(mem, offset, cells) ==
    [o \in Offsets |->
        IF o - offset \in 0 .. Len(cells) - 1 THEN cells[o - offset + 1] ELSE mem[o]]

bytes_to_header(c) ==
    IF c.kind = "byte" THEN Reading[c.type][c.a]
    ELSE [type |-> c.type, padding |-> c.a, data_size |-> c.b]

CALCULATE_PADDING(size) == (Align - (size % Align)) % Align

(* The loop over the entries that all functions of tlv.c have: from an     *)
(* offset to the first one at which it stops.                              *)
NextHeader(mem, o) ==
    LET header == bytes_to_header(mem[o]) IN o + 1 + header.data_size + header.padding

Walk(mem, stops) ==
    LET walk[o \in Nat] == IF o >= End \/ o \in stops THEN o ELSE walk[NextHeader(mem, o)]
    IN  walk

(* The offset of the payload of the first entry of a type, or 0.           *)
tlv_lookup(mem, type) ==
    LET o == Walk(mem, {o \in Offsets : bytes_to_header(mem[o]).type = type})[1]
    IN  IF o >= End THEN 0 ELSE o + 1

(* What tlv_read puts into the buffer; <<>> for an error.                  *)
tlv_read(mem, type, size) ==
    LET o == tlv_lookup(mem, type)
        header == bytes_to_header(mem[o - 1])
    IN  IF o = 0 THEN <<>>
        ELSE IF size <= header.data_size + header.padding /\ o + size <= End
             THEN [i \in 1 .. size |-> mem[o + i - 1]] ELSE <<>>

\* Mutant: the padding is not skipped.
Mutget_next_free_offset(mem) ==
    LET scan[o \in Nat] ==
            IF o >= End THEN End
            ELSE LET header == bytes_to_header(mem[o])
                 IN  IF header.type = Empty \/ header.data_size = 0 THEN o
                     ELSE scan[o + 1 + header.data_size]
    IN  scan[1]

Unused(mem) ==
    {o \in Offsets : LET header == bytes_to_header(mem[o])
                     IN  header.type = Empty \/ header.data_size = 0}

get_next_free_offset(mem) ==
    LET o == Walk(mem, Unused(mem))[1] IN IF o >= End THEN End ELSE o

Fits(mem, size) == get_next_free_offset(mem) + 1 + size + CALCULATE_PADDING(size) <= End

(* The header keeps one byte of the size.                                  *)
tlv_header(type, size) == Header(type, CALCULATE_PADDING(size), size % Base)

tlv_write(mem, type, payload) ==
    Put(mem, get_next_free_offset(mem), <<tlv_header(type, Len(payload))>> \o payload)

----------------------------------------------------------------------------
(* What the factory wrote.                                                 *)

FactoryCell(version, e, o) ==
    IF version = 7 THEN Byte(e.type, o - e.offset + 1)
    ELSE IF o = e.offset THEN Header(e.type, e.size \div Base, e.size % Base)
    ELSE Byte(e.type, o - e.offset)

FactoryFlash(f) ==
    [o \in Offsets |->
        LET here == {i \in 1 .. Len(f.entries) : o \in Lies(f.version, f.entries[i])}
        IN  IF o = 0 THEN Marker(f.version)
            ELSE IF here = {} THEN Erased
            ELSE FactoryCell(f.version, f.entries[CHOOSE i \in here : TRUE], o)]

Init ==
    /\ factory \in Factory /\ flash = FactoryFlash(factory)
    /\ psa = {} /\ pc = "off" /\ pos = 0 /\ ram = Blank /\ writing = Empty
    /\ converted = FALSE /\ torn = FALSE /\ wiped = FALSE /\ misread = FALSE
    /\ resets = 0 /\ faults = 0 /\ writes = 0

----------------------------------------------------------------------------
(* sid_pal_mfg_store_init.                                                 *)

Fails(call) == call \in Faults /\ faults < MaxFaults /\ faults' = faults + 1
Works == UNCHANGED faults
Goes(l) == pc' = l /\ UNCHANGED <<factory, writing, resets, writes, wiped>>

(* What a boot makes of the flags: missing, they call for the conversion,   *)
(* too short, init gives up. Erased ones read as set, other bytes either    *)
(* way.                                                                    *)
FlagsAt == tlv_lookup(flash, Flags)
FlagsRead == tlv_read(flash, Flags, Align)
FlagsShort ==
    LET header == bytes_to_header(flash[FlagsAt - 1])
    IN  FlagsAt # 0 /\ Align > header.data_size + header.padding

AfterFlags ==
    IF FlagsRead = <<>> THEN IF FlagsShort THEN {"stopped"} ELSE {"begin"}
    ELSE IF \A i \in 1 .. Align : FlagsRead[i] \in {Erased, Byte(Flags, i)} THEN {"ready"}
    ELSE {"ready", "begin"}

(* Without a marker there is nothing to do but certify the device.          *)
InitHeader ==
    /\ pc = "off"
    /\ IF flash[0].kind # "marker" THEN Goes("stopped") /\ UNCHANGED misread
       ELSE IF flash[0].a # 8 THEN Goes("begin") /\ UNCHANGED misread
       ELSE /\ \E next \in AfterFlags : Goes(next)
            /\ misread' = (misread \/ (FlagsAt # 0 /\ flash[FlagsAt - 1].kind = "byte"))
    /\ UNCHANGED <<flash, psa, pos, ram, converted, torn, faults>>

ParseBegin ==
    /\ pc = "begin"
    /\ \/ Fails("malloc") /\ Goes("stopped") /\ UNCHANGED <<ram, pos>>
       \/ Works /\ Goes("parse") /\ ram' = Put(Blank, 0, <<Marker(8)>>) /\ pos' = 1
    /\ UNCHANGED <<flash, psa, converted, torn, misread>>

(* The entry at the parser's position: [type, payload, next], of type      *)
(* Empty at the end. Version 7 leaves out what is still erased. Behind the  *)
(* region lie bytes of other partitions.                                    *)
Read(o, size) ==
    [i \in 1 .. size |-> IF o + i - 1 < End THEN flash[o + i - 1] ELSE Byte("other", 1)]

EntryRawTlv ==
    LET header == IF pos < End THEN bytes_to_header(flash[pos]) ELSE bytes_to_header(Erased)
        size == IF header.type = Empty THEN 0 ELSE header.padding * Base + header.data_size
    IN  [type |-> header.type, payload |-> Read(pos + 1, size), next |-> pos + 1 + size]

EntryConstant ==
    LET present == {j \in pos .. Len(Table) : \E c \in 1 .. Table[j].size :
                                                 flash[Table[j].offset + c - 1] # Erased}
        j == CHOOSE j \in present : \A k \in present : j <= k
    IN  IF present = {} THEN [type |-> Empty, payload |-> <<>>, next |-> pos]
        ELSE [type |-> Table[j].type, payload |-> Read(Table[j].offset, Table[j].size),
              next |-> j + 1]

Entry == IF flash[0].a = 8 THEN EntryRawTlv ELSE EntryConstant

(* The header that the parser reads is payload, or its entry overruns the   *)
(* buffer (the table's rows fit).                                           *)
Misreading ==
    /\ flash[0].a = 8 /\ pos < End
    /\ flash[pos].kind = "byte" \/ Len(Entry.payload) > MaxElement

Parses == pc = "parse" /\ misread' = (misread \/ Misreading)

(* An ordinary value is copied; without room the conversion is given up.   *)
ParseValue ==
    /\ Parses /\ Entry.type \notin Keys \cup {Empty}
    /\ IF Fits(ram, Len(Entry.payload))
       THEN Goes("parse") /\ ram' = tlv_write(ram, Entry.type, Entry.payload) /\ pos' = Entry.next
       ELSE Goes("stopped") /\ UNCHANGED <<ram, pos>>
    /\ UNCHANGED <<flash, psa, converted, torn, faults>>

(* A private key is destroyed in secure storage and imported again, and    *)
(* not copied. An empty one is refused first, and anything but the key may  *)
(* be: it may read as the identifier of one.                                *)
Genuine == Entry.payload = PayloadOf(Entry.type, Len(Entry.payload))

ParseKey ==
    /\ Parses /\ Entry.type \in Keys
    /\ \/ /\ Entry.payload = <<>> \/ ~Genuine
          /\ Goes("stopped") /\ UNCHANGED psa
       \/ Entry.payload # <<>> /\ Goes("import") /\ psa' = psa \ {Entry.type}
    /\ UNCHANGED <<flash, pos, ram, converted, torn, faults>>

(* An overrun of the buffer on the stack is undefined: the device may stop  *)
(* at a fault, or go on as above with what it read.                         *)
Overrun ==
    /\ Parses /\ Len(Entry.payload) > MaxElement /\ Goes("stopped")
    /\ UNCHANGED <<flash, psa, pos, ram, converted, torn, faults>>

\* Mutant: the parser goes on after an import that failed.
MutImportFailed == Goes("parse") /\ pos' = Entry.next

ImportFailed == Goes("stopped") /\ UNCHANGED pos

(* Anything but the key may be refused, or be kept in its place.            *)
sid_crypto_keys_new_import ==
    /\ pc = "import"
    /\ \/ /\ Fails("psa_import_key") \/ (~Genuine /\ Works)
          /\ ImportFailed /\ UNCHANGED psa
       \/ /\ Works /\ Goes("parse") /\ pos' = Entry.next
          /\ psa' = IF Genuine THEN psa \cup {Entry.type} ELSE psa
    /\ UNCHANGED <<flash, ram, converted, torn, misread>>

\* Mutant: the converted region has no flags.
MutWithFlags(mem) == mem

WithFlags(mem) == tlv_write(mem, Flags, PayloadOf(Flags, Align))

ParseFlags ==
    /\ Parses /\ Entry.type = Empty
    /\ IF Fits(ram, Align) THEN Goes("erase") /\ ram' = WithFlags(ram)
                           ELSE Goes("stopped") /\ UNCHANGED ram
    /\ UNCHANGED <<flash, psa, pos, converted, torn, faults>>

EraseFlash ==
    /\ pc = "erase"
    /\ \/ Fails("erase") /\ Goes("stopped") /\ UNCHANGED <<flash, pos>>
       \/ Works /\ Goes("write") /\ flash' = Blank /\ pos' = 0
    /\ UNCHANGED <<psa, ram, converted, torn, misread>>

WriteFlash ==
    /\ pc = "write"
    /\ \/ Fails("write") /\ Goes("stopped") /\ torn' = TRUE /\ UNCHANGED <<flash, pos, converted>>
       \/ /\ Works /\ flash' = [flash EXCEPT ![pos] = ram[pos]] /\ pos' = pos + 1
          /\ Goes(IF pos = End - 1 THEN "ready" ELSE "write")
          /\ converted' = (converted \/ pos = End - 1)
          /\ UNCHANGED torn
    /\ UNCHANGED <<psa, ram, misread>>

(* Power is lost or the device restarts, at any point.                     *)
Reset ==
    /\ pc # "off" /\ resets < MaxResets /\ resets' = resets + 1
    /\ pc' = "off" /\ pos' = 0 /\ ram' = Blank /\ writing' = Empty
    /\ torn' = (torn \/ pc = "write")
    /\ UNCHANGED <<factory, flash, psa, converted, wiped, misread, faults, writes>>

----------------------------------------------------------------------------
(* Diagnostic builds write values and erase the region. The header of a    *)
(* value goes to flash first.                                              *)

WriteHeader(type) ==
    /\ pc = "ready" /\ writing = Empty /\ writes < MaxWrites /\ writes' = writes + 1
    /\ Fits(flash, 1)
    /\ flash' = Put(flash, get_next_free_offset(flash), <<tlv_header(type, 1)>>)
    /\ pos' = get_next_free_offset(flash) + 1 /\ writing' = type
    /\ UNCHANGED <<factory, psa, pc, ram, history, resets, faults>>

WriteData ==
    /\ pc = "ready" /\ writing # Empty
    /\ flash' = [flash EXCEPT ![pos] = Cell("byte", writing, 1, 1)] /\ writing' = Empty
    /\ UNCHANGED <<factory, psa, pc, pos, ram, history, bounds>>

sid_pal_mfg_store_erase ==
    /\ pc = "ready" /\ writing = Empty /\ flash' = Blank /\ wiped' = TRUE
    /\ UNCHANGED <<factory, psa, pc, pos, ram, writing, converted, torn, misread, bounds>>

----------------------------------------------------------------------------
Next ==
    \/ InitHeader \/ ParseBegin \/ ParseValue \/ ParseKey \/ Overrun
    \/ sid_crypto_keys_new_import
    \/ ParseFlags \/ EraseFlash \/ WriteFlash \/ Reset
    \/ \E type \in NewTypes : WriteHeader(type)
    \/ WriteData \/ sid_pal_mfg_store_erase

Spec == Init /\ [][Next]_vars

----------------------------------------------------------------------------
FactoryTypes == {factory.entries[i].type : i \in 1 .. Len(factory.entries)}
SizeOf(type) ==
    LET es == factory.entries IN es[CHOOSE i \in 1 .. Len(es) : es[i].type = type].size

(* A private key is never lost, whatever fails and whenever the device     *)
(* restarts: until all of them are in secure storage the flash is as the   *)
(* factory left it, and no later conversion destroys one. Only a parser     *)
(* that took payload for headers, or overran its buffer, may destroy one.   *)
KeysNotLost ==
    ~misread => FactoryTypes \cap Keys \subseteq psa \/ flash = FactoryFlash(factory)

(* When init reports success every value of the factory reads back as it   *)
(* was, past padding, keys left out, flags and later diagnostic writes,    *)
(* also one that a reset cut between header and data. Only a conversion    *)
(* that a reset or an error cut between erasing and the last write loses   *)
(* values.                                                                 *)
ReadyMeansComplete ==
    pc = "ready" /\ ~torn /\ ~wiped =>
        \A type \in FactoryTypes \ Keys :
            tlv_read(flash, type, SizeOf(type)) = PayloadOf(type, SizeOf(type))

(* A converted region is never erased and converted again by a later boot, *)
(* unless it was converted from payload taken for headers.                  *)
ConvertedOnce == converted /\ ~wiped /\ ~misread => pc \in {"off", "ready"}

Cells ==
    [kind : {"erased", "marker", "header"}, type : Types, a : Nat, b : Nat]
      \cup [kind : {"byte"}, type : Types, a : 1 .. MaxElement, b : Nat]

(* The variables keep their types.                                         *)
TypeOK ==
    /\ factory \in Factory /\ flash \in [Offsets -> Cells] /\ ram \in [Offsets -> Cells]
    /\ psa \subseteq Keys /\ pos \in Nat /\ writing \in NewTypes \cup {Empty}
    /\ pc \in {"off", "begin", "parse", "import", "erase", "write", "ready", "stopped"}
    /\ converted \in BOOLEAN /\ torn \in BOOLEAN /\ wiped \in BOOLEAN /\ misread \in BOOLEAN

----------------------------------------------------------------------------
(***************************************************************************)
(* The inductive invariant. An entry is held if the walk through the region *)
(* finds it before unused space; it then stays, wherever the walk goes on.  *)
(***************************************************************************)
OfType(mem, type) == {o \in Offsets : bytes_to_header(mem[o]).type = type}
Place(mem, type) == Walk(mem, OfType(mem, type) \cup Unused(mem))[1]

Held(mem, type, size, limit) ==
    /\ Place(mem, type) + 1 + size + CALCULATE_PADDING(size) <= limit
    /\ mem[Place(mem, type)] = tlv_header(type, size)

Copied(mem, type, size, limit) ==
    /\ Held(mem, type, size, limit)
    /\ \A i \in 1 .. size : mem[Place(mem, type) + i] = Byte(type, i)

(* The flags, set or still erased.                                         *)
FlagsHeld(mem, limit) ==
    /\ Held(mem, Flags, Align, limit)
    /\ \A i \in 1 .. Align : mem[Place(mem, Flags) + i] \in {Erased, Byte(Flags, i)}

(* No entry of a type before the unused space, and nothing in that.         *)
Absent(mem, type) == Place(mem, type) = Walk(mem, Unused(mem))[1]
FreeBehind(mem) == \A o \in Offsets : o > Walk(mem, Unused(mem))[1] => mem[o] = Erased

(* What a diagnostic write that has put its header only may still change    *)
(* lies behind all that is held.                                           *)
Limit == IF writing = Empty THEN End ELSE pos - 1

Complete(mem, limit) ==
    \A i \in 1 .. Len(factory.entries) :
        LET e == factory.entries[i]
        IN  e.type \notin Keys => Copied(mem, e.type, e.size, limit)

(* No cell but payload reads as the header of a key or of the flags, or as  *)
(* a marker of another version.                                             *)
PlainCell(c) ==
    /\ c.kind # "byte" => c.type \notin Keys \cup {Flags}
    /\ c.kind = "marker" => c.a = 8
Plain(mem) == \A o \in Offsets : PlainCell(mem[o])

KeysIn == FactoryTypes \cap Keys \subseteq psa
Untouched == flash = FactoryFlash(factory)

(* Outside of the write of the region it is the factory's, or holds the     *)
(* flags and all values, or was torn or wiped; what is torn holds the flags *)
(* or no header that another conversion would take for a key's.             *)
Settled ==
    \/ Untouched
    \/ /\ KeysIn
       /\ flash[0].kind = "marker" =>
             flash[0].a = 8 /\ (FlagsHeld(flash, Limit) \/ Plain(flash))
       /\ \/ torn \/ wiped
          \/ flash[0].kind = "marker" /\ FlagsHeld(flash, Limit) /\ Complete(flash, Limit)

(* The entries that a parser at p is past; and where it may be.            *)
Passed(p, e) ==
    IF factory.version = 8 THEN e.offset < p ELSE \E j \in 1 .. Len(Table) : j < p /\ Table[j] = e

AtEntry(p) ==
    LET es == factory.entries
    IN  factory.version = 8 => p = 1 \/ \E i \in 1 .. Len(es) : p = es[i].offset + es[i].size + 1

Parsed ==
    \A i \in 1 .. Len(factory.entries) :
        LET e == factory.entries[i]
        IN  IF Passed(pos, e)
            THEN IF e.type \in Keys THEN e.type \in psa ELSE Copied(ram, e.type, e.size, End)
            ELSE Absent(ram, e.type)

(* A conversion: of what the factory wrote, or of what a torn one left.     *)
FirstTime == Untouched /\ pos > 0 /\ AtEntry(pos) /\ Parsed
Again == KeysIn /\ torn /\ flash[0].a = 8 /\ Plain(flash)

(* The region in RAM so far, and when it is complete.                       *)
ImageGrows == Plain(ram) /\ FreeBehind(ram) /\ Absent(ram, Flags)
ImageReady ==
    /\ KeysIn /\ FlagsHeld(ram, End)
    /\ \A o \in Offsets : o = Place(ram, Flags) \/ PlainCell(ram[o])
    /\ torn \/ Complete(ram, End)

(* As long as only headers were taken for headers.                         *)
InOrder ==
    /\ pc # "write" => Settled
    /\ pc = "begin" => Untouched \/ Again
    /\ pc \in {"parse", "import"} => ImageGrows /\ (FirstTime \/ (Again /\ pc = "parse"))
    /\ pc \in {"erase", "write"} => ImageReady
    /\ pc \in {"parse", "import", "erase", "write"} => ram[0] = Marker(8)
    /\ pc = "write" => \A o \in Offsets : flash[o] = IF o < pos THEN ram[o] ELSE Erased
    /\ pc = "ready" => /\ KeysIn
                       /\ flash[0].kind = "marker" => FlagsHeld(flash, Limit)
                       /\ torn \/ wiped \/ Complete(flash, Limit)
    /\ wiped => flash[0].kind # "marker" /\ pc \in {"off", "ready", "stopped"}
    /\ converted /\ ~wiped => /\ pc \in {"off", "ready"}
                              /\ flash[0].kind = "marker" /\ FlagsHeld(flash, Limit)

(* What holds whatever is read.                                            *)
Sound ==
    /\ TypeOK
    /\ pc = "write" => pos \in Offsets
    /\ pc \in {"parse", "import"} => pos > 0
    /\ pc = "import" => Entry.type \in Keys
    /\ writing # Empty => pc = "ready" /\ pos \in 2 .. End - 1

IInv == Sound /\ IF misread THEN torn ELSE InOrder
=============================================================================
