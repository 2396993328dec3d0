-------------------------- MODULE MfgStorageProofs --------------------------
(***************************************************************************)
(* Proofs of MfgStorage, for every content the factory may have written in  *)
(* either layout, every size of the region, every set of failing calls and  *)
(* any number of resets. The walk over the entries is reasoned about by     *)
(* least counterexample; on it rests what tlv_lookup, tlv_read and          *)
(* tlv_write find, on that what the parser reads of the factory's content,  *)
(* and on that the invariant of the conversion.                             *)
(***************************************************************************)
EXTENDS MfgStorage, WellFoundedInduction, TLAPS

-----------------------------------------------------------------------------
(***************************************************************************)
(* Induction over the natural numbers: a set of them that is not empty has  *)
(* a least element.                                                         *)
(***************************************************************************)
Smaller == {p \in Nat \X Nat : p[1] < p[2]}

\* The order of the natural numbers is well founded.
LEMMA SmallerWellFounded == IsWellFoundedOn(Smaller, Nat)
<1>1. OpToRel(<, Nat) = Smaller
  BY DEF OpToRel, Smaller
<1> QED
  BY <1>1, NatLessThanWellFounded

\* So every set of them that is not empty has a least element.
LEMMA LeastNatural ==
    ASSUME NEW S \in SUBSET Nat, S # {}
    PROVE  \E n \in S : \A k \in S : n <= k
<1>1. PICK n \in S : \A k \in S : <<k, n>> \notin Smaller
  BY SmallerWellFounded, WFMin, Zenon
<1>2. \A k \in S : ~(k < n)
  <2> SUFFICES ASSUME NEW k \in S, k < n PROVE FALSE
    OBVIOUS
  <2>1. <<k, n>> \in Nat \X Nat
    OBVIOUS
  <2>2. <<k, n>>[1] = k /\ <<k, n>>[2] = n
    OBVIOUS
  <2>3. <<k, n>> \in Smaller
    BY <2>1, <2>2 DEF Smaller
  <2> QED
    BY <1>1, <2>3
<1> QED
  BY <1>2

-----------------------------------------------------------------------------
(***************************************************************************)
(* The walk over the entries.                                              *)
(***************************************************************************)
Regions == [Offsets -> Cells]

\* The sizes of a header are numbers.
LEMMA HeaderTyped ==
    ASSUME NEW c \in Cells
    PROVE  /\ bytes_to_header(c).data_size \in Nat /\ bytes_to_header(c).padding \in Nat
           /\ bytes_to_header(c).type \in Types
<1>1. CASE c.kind = "byte"
  <2>1. c.type \in Types /\ c.a \in 1 .. MaxElement
    BY <1>1 DEF Cells
  <2>2. Reading[c.type][c.a] \in [type : Types, padding : Nat, data_size : Nat]
    BY <2>1, ReadingAssumption
  <2> QED
    BY <1>1, <2>2 DEF bytes_to_header
<1>2. CASE c.kind # "byte"
  BY <1>2 DEF Cells, bytes_to_header
<1> QED
  BY <1>1, <1>2

\* The walk goes forward.
LEMMA NextHeaderForward ==
    ASSUME NEW mem \in Regions, NEW o \in Nat, o < End
    PROVE  NextHeader(mem, o) \in Nat /\ NextHeader(mem, o) > o
<1>1. mem[o] \in Cells
  BY SizesAssumption DEF Regions, Offsets
<1> DEFINE h == bytes_to_header(mem[o])
<1>2. h.data_size \in Nat /\ h.padding \in Nat
  BY <1>1, HeaderTyped
<1>3. NextHeader(mem, o) = o + 1 + h.data_size + h.padding
  BY DEF NextHeader
<1> HIDE DEF h
<1> QED
  BY <1>2, <1>3

\* One step of the walk, by the function that goes on with it.
Step(mem, stops, g, o) == IF o >= End \/ o \in stops THEN o ELSE g[NextHeader(mem, o)]

\* The recursive definition of the walk has a solution, built from the end of the region
\* backwards.
LEMMA WalkExists ==
    ASSUME NEW mem \in Regions, NEW stops
    PROVE  \E g : g = [o \in Nat |-> Step(mem, stops, g, o)]
<1> DEFINE Solves(g, k) == \A o \in Nat : o + k >= End => g[o] = Step(mem, stops, g, o)
           Open == {k \in Nat : ~ \E g \in [Nat -> Nat] : Solves(g, k)}
<1>1. ASSUME Open # {} PROVE FALSE
  <2>1. PICK k \in Open : \A j \in Open : k <= j
    BY <1>1, LeastNatural
  <2>2. CASE k = 0
    <3> DEFINE g == [o \in Nat |-> o]
    <3>1. g \in [Nat -> Nat]
      OBVIOUS
    <3>2. Solves(g, 0)
      BY SizesAssumption DEF Step
    <3> QED
      BY <2>1, <2>2, <3>1, <3>2
  <2>3. CASE k # 0
    <3>0. k \in Nat /\ k - 1 \in Nat
      BY <2>1, <2>3
    <3>1. k \in Nat /\ k - 1 \in Nat /\ k - 1 \notin Open
      <4> HIDE DEF Open
      <4> QED
        BY <2>1, <3>0
    <3>2. PICK g \in [Nat -> Nat] : Solves(g, k - 1)
      BY <3>1
    <3>3. CASE k > End
      <4>1. Solves(g, k)
        BY <3>1, <3>2, <3>3, SizesAssumption
      <4> QED
        BY <2>1, <4>1
    <3>4. CASE k <= End
      <4> DEFINE e == End - k
                 f == [g EXCEPT ![e] = Step(mem, stops, g, e)]
      <4>1. e \in Nat /\ e < End
        BY <3>1, <2>3, <3>4, SizesAssumption
      <4>2. Step(mem, stops, g, e) \in Nat
        BY <4>1, NextHeaderForward DEF Step
      <4>3. f \in [Nat -> Nat]
        BY <4>1, <4>2
      <4>4. ASSUME NEW o \in Nat, o + k >= End
            PROVE  f[o] = Step(mem, stops, f, o)
        <5>1. o >= e
          BY <4>4, <3>1, SizesAssumption
        <5>2. o < End => NextHeader(mem, o) \in Nat /\ NextHeader(mem, o) > o
          BY NextHeaderForward
        <5>3. Step(mem, stops, f, o) = Step(mem, stops, g, o)
          BY <4>1, <5>1, <5>2, SizesAssumption DEF Step
        <5>4. CASE o = e
          BY <4>1, <5>3, <5>4
        <5>5. CASE o # e
          <6>1. o + (k - 1) >= End
            BY <3>1, <5>1, <5>5, SizesAssumption
          <6>2. g[o] = Step(mem, stops, g, o)
            BY <3>2, <6>1
          <6> QED
            BY <4>1, <5>3, <5>5, <6>2
        <5> QED
          BY <5>4, <5>5
      <4>5. Solves(f, k)
        BY <4>4
      <4> QED
        BY <2>1, <4>3, <4>5
    <3> QED
      BY <3>1, <3>3, <3>4, SizesAssumption
  <2> QED
    BY <2>2, <2>3
<1>2. End \in Nat /\ End \notin Open
  BY <1>1, SizesAssumption
<1>3. PICK g \in [Nat -> Nat] : Solves(g, End)
  BY <1>2
<1>4. \A o \in Nat : g[o] = Step(mem, stops, g, o)
  BY <1>3, SizesAssumption
<1>5. g = [o \in Nat |-> Step(mem, stops, g, o)]
  BY <1>4
<1> QED
  BY <1>5

\* So the walk is the function of its definition.
LEMMA WalkUnfold ==
    ASSUME NEW mem \in Regions, NEW stops, NEW o \in Nat
    PROVE  Walk(mem, stops)[o] = Step(mem, stops, Walk(mem, stops), o)
<1> DEFINE w == Walk(mem, stops)
<1>1. w = CHOOSE g : g = [x \in Nat |-> Step(mem, stops, g, x)]
  BY DEF Walk, Step
<1>2. w = [x \in Nat |-> Step(mem, stops, w, x)]
  BY <1>1, WalkExists
<1> QED
  BY <1>2

\* The walk ends beyond the region or where it is told to stop, and goes forward to there.
LEMMA WalkEnds ==
    ASSUME NEW mem \in Regions, NEW stops, NEW o \in Nat
    PROVE  /\ Walk(mem, stops)[o] \in Nat /\ Walk(mem, stops)[o] >= o
           /\ Walk(mem, stops)[o] >= End \/ Walk(mem, stops)[o] \in stops
<1> DEFINE w == Walk(mem, stops)
           Ends(x) == w[x] \in Nat /\ w[x] >= x /\ (w[x] >= End \/ w[x] \in stops)
           Open == {m \in Nat : \E x \in Nat : x + m = End /\ ~Ends(x)}
<1>0. \A x \in Nat : w[x] = Step(mem, stops, w, x)
  BY WalkUnfold
<1> HIDE DEF w
<1>1. \A x \in Nat : x >= End => Ends(x)
  BY <1>0, SizesAssumption DEF Step
<1>2. ASSUME Open # {} PROVE FALSE
  <2>1. PICK m \in Open : \A j \in Open : m <= j
    BY <1>2, LeastNatural
  <2>2. PICK x \in Nat : x + m = End /\ ~Ends(x)
    BY <2>1
  <2>3. x < End /\ x \notin stops
    BY <1>0, <1>1, <2>2, SizesAssumption DEF Step
  <2> DEFINE y == NextHeader(mem, x)
  <2>4. y \in Nat /\ y > x /\ w[x] = w[y]
    BY <1>0, <2>3, NextHeaderForward, SizesAssumption DEF Step
  <2> HIDE DEF y
  <2>5. ~Ends(y)
    BY <2>2, <2>4
  <2>6. y < End
    BY <1>1, <2>4, <2>5, SizesAssumption
  <2>7. End - y \in Nat /\ y + (End - y) = End /\ m \in Nat
    BY <2>1, <2>4, <2>6, SizesAssumption
  <2>8. End - y \in Open
    BY <2>4, <2>5, <2>7
  <2>9. m <= End - y
    <3> HIDE DEF Open
    <3> QED
      BY <2>1, <2>8
  <2> QED
    BY <2>2, <2>4, <2>7, <2>9, SizesAssumption
<1>3. Ends(o)
  <2>1. CASE o >= End
    BY <1>1, <2>1
  <2>2. CASE o < End
    <3>1. End - o \in Nat /\ o + (End - o) = End
      BY <2>2, SizesAssumption
    <3> QED
      BY <1>2, <3>1
  <2> QED
    BY <2>1, <2>2, SizesAssumption
<1> QED
  BY <1>3 DEF w

\* A walk through a region that agrees with another up to where the walk through that one
\* ends, and that stops at no other offset before, comes there as well.
LEMMA WalkAlong ==
    ASSUME NEW mem \in Regions, NEW stops, NEW new \in Regions, NEW ends,
           NEW r, r = Walk(mem, stops)[1],
           \A x \in Offsets : x < r => new[x] = mem[x] /\ (x \in ends => x \in stops)
    PROVE  Walk(new, ends)[1] = Walk(new, ends)[r]
<1> DEFINE w == Walk(mem, stops)
           v == Walk(new, ends)
           Open == {m \in Nat : \E x \in Nat : x + m = End /\ w[x] = r /\ v[x] # v[r]}
<1>0. \A x \in Nat : /\ w[x] = Step(mem, stops, w, x) /\ v[x] = Step(new, ends, v, x)
                     /\ w[x] \in Nat /\ w[x] >= x
  BY WalkUnfold, WalkEnds
<1>r. w[1] = r /\ r \in Nat
  BY <1>0
<1> HIDE DEF w, v
<1>1. \A x \in Nat : x >= End /\ w[x] = r => v[x] = v[r]
  BY <1>0, SizesAssumption DEF Step
<1>2. ASSUME Open # {} PROVE FALSE
  <2>1. PICK m \in Open : \A j \in Open : m <= j
    BY <1>2, LeastNatural
  <2>2. PICK x \in Nat : x + m = End /\ w[x] = r /\ v[x] # v[r]
    BY <2>1
  <2>3. x < End /\ x \notin stops /\ x < r
    <3>1. x < End
      BY <1>1, <2>2, SizesAssumption
    <3>2. x # r
      BY <2>2
    <3>3. x <= r
      BY <1>0, <2>2
    <3> QED
      BY <1>0, <1>r, <2>2, <3>1, <3>2, <3>3, SizesAssumption DEF Step
  <2>4. x \in Offsets /\ new[x] = mem[x] /\ x \notin ends
    BY <2>3, SizesAssumption DEF Offsets
  <2> DEFINE y == NextHeader(mem, x)
  <2>5. NextHeader(new, x) = y
    BY <2>4 DEF NextHeader
  <2>6. y \in Nat /\ y > x
    BY <2>3, NextHeaderForward
  <2> HIDE DEF y
  <2>7. w[y] = r /\ v[y] # v[r]
    <3>1. w[x] = w[y]
      BY <1>0, <2>3, SizesAssumption DEF Step, y
    <3>2. v[x] = v[y]
      BY <1>0, <2>3, <2>4, <2>5, SizesAssumption DEF Step
    <3> QED
      BY <2>2, <3>1, <3>2
  <2>8. y < End
    BY <1>1, <2>6, <2>7, SizesAssumption
  <2>9. End - y \in Nat /\ y + (End - y) = End /\ m \in Nat
    BY <2>1, <2>6, <2>8, SizesAssumption
  <2>10. End - y \in Open
    BY <2>6, <2>7, <2>9
  <2>11. m <= End - y
    <3> HIDE DEF Open
    <3> QED
      BY <2>1, <2>10
  <2> QED
    BY <2>2, <2>6, <2>9, <2>11, SizesAssumption
<1>3. v[1] = v[r]
  <2>1. CASE 1 >= End
    BY <1>1, <1>r, <2>1
  <2>2. CASE 1 < End
    <3>1. End - 1 \in Nat /\ 1 + (End - 1) = End
      BY <2>2, SizesAssumption
    <3> QED
      BY <1>2, <1>r, <3>1
  <2> QED
    BY <2>1, <2>2, SizesAssumption
<1> QED
  BY <1>3 DEF v

\* A walk along offsets at which it is not told to stop leaves the region.
LEMMA WalkThrough ==
    ASSUME NEW mem \in Regions, NEW stops, NEW S \in SUBSET Nat, 1 \in S,
           \A x \in S : x < End => x \notin stops /\ NextHeader(mem, x) \in S
    PROVE  Walk(mem, stops)[1] >= End
<1> DEFINE w == Walk(mem, stops)
           Open == {m \in Nat : \E x \in S : x + m = End /\ ~(w[x] >= End)}
<1>0. \A x \in Nat : w[x] = Step(mem, stops, w, x)
  BY WalkUnfold
<1> HIDE DEF w
<1>1. \A x \in S : x >= End => w[x] >= End
  BY <1>0, SizesAssumption DEF Step
<1>2. ASSUME Open # {} PROVE FALSE
  <2>1. PICK m \in Open : \A j \in Open : m <= j
    BY <1>2, LeastNatural
  <2>2. PICK x \in S : x + m = End /\ ~(w[x] >= End)
    BY <2>1
  <2>3. x \in Nat /\ x < End
    BY <1>1, <2>2, SizesAssumption
  <2> DEFINE y == NextHeader(mem, x)
  <2>4. y \in S /\ y \in Nat /\ y > x /\ w[x] = w[y]
    BY <1>0, <2>3, NextHeaderForward, SizesAssumption DEF Step
  <2> HIDE DEF y
  <2>5. ~(w[y] >= End)
    BY <2>2, <2>4
  <2>6. y < End
    BY <1>1, <2>4, <2>5, SizesAssumption
  <2>7. End - y \in Nat /\ y + (End - y) = End /\ m \in Nat
    BY <2>1, <2>4, <2>6, SizesAssumption
  <2>8. End - y \in Open
    BY <2>4, <2>5, <2>7
  <2>9. m <= End - y
    <3> HIDE DEF Open
    <3> QED
      BY <2>1, <2>8
  <2> QED
    BY <2>2, <2>3, <2>4, <2>7, <2>9, SizesAssumption
<1>3. w[1] >= End
  <2>1. CASE 1 >= End
    BY <1>1, <2>1
  <2>2. CASE 1 < End
    <3>1. End - 1 \in Nat /\ 1 + (End - 1) = End
      BY <2>2, SizesAssumption
    <3> QED
      BY <1>2, <3>1
  <2> QED
    BY <2>1, <2>2, SizesAssumption
<1> QED
  BY <1>3 DEF w

-----------------------------------------------------------------------------
(***************************************************************************)
(* Sizes and cells.                                                        *)
(***************************************************************************)

\* A padding is a number.
LEMMA PaddingTyped ==
    ASSUME NEW size \in Nat
    PROVE  CALCULATE_PADDING(size) \in Nat
<1>1. size % Align \in 0 .. Align - 1
  BY SizesAssumption
<1>2. Align - (size % Align) \in Nat
  BY <1>1, SizesAssumption
<1> DEFINE k == Align - (size % Align)
<1>3. k % Align \in 0 .. Align - 1
  <2> HIDE DEF k
  <2>1. k \in Nat
    BY <1>2 DEF k
  <2> QED
    BY <2>1, SizesAssumption
<1> QED
  BY <1>3 DEF CALCULATE_PADDING

\* The size of a header is a number, and the size itself if it fits a byte.
LEMMA SizeTyped ==
    ASSUME NEW size \in Nat
    PROVE  size % Base \in Nat /\ (size < Base => size % Base = size)
<1>1. Base \in Nat /\ Base > 0
  BY SizesAssumption
<1>2. size % Base \in Nat
  BY <1>1
<1>3. ASSUME size < Base PROVE size % Base = size
  BY <1>1, <1>3
<1> QED
  BY <1>2, <1>3

\* A size that fits a byte has no second one.
LEMMA SmallQuotient ==
    ASSUME NEW size \in Nat, size < Base
    PROVE  size \div Base = 0 /\ size % Base = size
<1>1. Base \in Nat /\ Base > 0
  BY SizesAssumption
<1> QED
  BY <1>1, Z3

\* The two bytes of a size in the raw layout give the size.
LEMMA TwoBytes ==
    ASSUME NEW size \in Nat
    PROVE  /\ size \div Base \in Nat /\ size % Base \in Nat
           /\ (size \div Base) * Base + (size % Base) = size
<1>1. Base \in Nat /\ Base > 0
  BY SizesAssumption
<1>2. size = Base * (size \div Base) + (size % Base)
  BY <1>1, Z3
<1>3. size \div Base \in Nat /\ size % Base \in Nat
  BY <1>1
<1> DEFINE q == size \div Base
           r == size % Base
<1>4. q \in Nat /\ r \in Nat /\ size = Base * q + r
  BY <1>2, <1>3
<1> HIDE DEF q, r
<1>5. q * Base + r = size
  BY <1>1, <1>4
<1> QED
  BY <1>3, <1>5 DEF q, r

\* The cells that the model writes.
LEMMA CellsTyped ==
    /\ Erased \in Cells
    /\ \A v \in Nat : Marker(v) \in Cells
    /\ \A t \in Types, i \in 1 .. MaxElement : Byte(t, i) \in Cells
    /\ \A t \in Types, i, j \in Nat : Header(t, i, j) \in Cells
    /\ \A t \in Types, size \in Nat : tlv_header(t, size) \in Cells
<1>1. Base - 1 \in Nat /\ Empty \in Types
  BY SizesAssumption, TypesAssumption
<1>2. \A t \in Types, i, j \in Nat : Header(t, i, j) \in Cells
  BY DEF Header, Cell, Cells
<1>3. \A t \in Types, size \in Nat : tlv_header(t, size) \in Cells
  BY <1>2, PaddingTyped, SizeTyped DEF tlv_header
<1> QED
  BY <1>1, <1>2, <1>3 DEF Erased, Marker, Byte, Cell, Cells

\* How they read as headers.
LEMMA CellsRead ==
    /\ bytes_to_header(Erased).type = Empty
    /\ \A t, size : /\ bytes_to_header(tlv_header(t, size)).type = t
                    /\ bytes_to_header(tlv_header(t, size)).padding = CALCULATE_PADDING(size)
                    /\ bytes_to_header(tlv_header(t, size)).data_size = size % Base
    /\ \A t, i, j : /\ bytes_to_header(Header(t, i, j)).type = t
                    /\ bytes_to_header(Header(t, i, j)).padding = i
                    /\ bytes_to_header(Header(t, i, j)).data_size = j
  BY DEF bytes_to_header, Erased, Marker, Byte, tlv_header, Header, Cell

\* A payload is a sequence of cells of its size.
LEMMA PayloadTyped ==
    ASSUME NEW t \in Types, NEW size \in Nat, size <= MaxElement
    PROVE  /\ PayloadOf(t, size) \in Seq(Cells) /\ Len(PayloadOf(t, size)) = size
           /\ \A i \in 1 .. size : PayloadOf(t, size)[i] = Byte(t, i)
<1>1. \A i \in 1 .. size : Byte(t, i) \in Cells
  BY CellsTyped, SizesAssumption
<1> QED
  BY <1>1 DEF PayloadOf

\* What Put writes, and that it leaves the rest.
LEMMA PutCells ==
    ASSUME NEW mem \in Regions, NEW n \in Nat, NEW cells \in Seq(Cells)
    PROVE  /\ Put(mem, n, cells) \in Regions
           /\ \A o \in Offsets : o < n => Put(mem, n, cells)[o] = mem[o]
           /\ \A i \in 1 .. Len(cells) : n + i - 1 < End => Put(mem, n, cells)[n + i - 1] = cells[i]
           /\ \A o \in Offsets : \/ Put(mem, n, cells)[o] = mem[o]
                                 \/ \E i \in 1 .. Len(cells) : Put(mem, n, cells)[o] = cells[i]
<1>1. Len(cells) \in Nat /\ \A i \in 1 .. Len(cells) : cells[i] \in Cells
  OBVIOUS
<1>2. \A o \in Offsets : mem[o] \in Cells /\ o \in Nat
  BY DEF Regions, Offsets
<1> DEFINE p == Put(mem, n, cells)
           len == Len(cells)
<1> HIDE DEF len
<1>3. /\ DOMAIN p = Offsets
      /\ p = [o \in Offsets |-> IF o - n \in 0 .. len - 1 THEN cells[o - n + 1] ELSE mem[o]]
  BY DEF Put, len
<1>4. \A o \in Offsets : p[o] = IF o - n \in 0 .. len - 1 THEN cells[o - n + 1] ELSE mem[o]
  BY <1>3
<1>5. \A o \in Offsets : o - n \in 0 .. len - 1 => o - n + 1 \in 1 .. len
  BY <1>1, <1>2 DEF len
<1>l. len \in Nat /\ len = Len(cells)
  BY <1>1 DEF len
<1> HIDE DEF p
<1>6. \A o \in Offsets : p[o] = mem[o] \/ \E i \in 1 .. len : p[o] = cells[i]
  BY <1>4, <1>5
<1>7. p \in Regions
  <2>1. \A o \in Offsets : p[o] \in Cells
    BY <1>1, <1>2, <1>6, <1>l
  <2> QED
    BY <1>3, <2>1 DEF Regions
<1>8. \A o \in Offsets : o < n => p[o] = mem[o]
  BY <1>2, <1>4, <1>l
<1>9. ASSUME NEW i \in 1 .. len, n + i - 1 < End
      PROVE  p[n + i - 1] = cells[i]
  <2>1. n + i - 1 \in Offsets /\ (n + i - 1) - n \in 0 .. len - 1 /\ (n + i - 1) - n + 1 = i
    BY <1>9, <1>l, SizesAssumption DEF Offsets
  <2> QED
    BY <1>4, <2>1
<1> QED
  BY <1>6, <1>7, <1>8, <1>9, <1>l DEF p

-----------------------------------------------------------------------------
(***************************************************************************)
(* What the functions of tlv.c find.                                       *)
(***************************************************************************)

\* Free space starts behind the marker and not beyond the region.
LEMMA FreeOffset ==
    ASSUME NEW mem \in Regions
    PROVE  get_next_free_offset(mem) \in Nat /\ get_next_free_offset(mem) \in 1 .. End
  BY WalkEnds, SizesAssumption DEF get_next_free_offset

\* The place of an entry is behind the marker.
LEMMA PlaceTyped ==
    ASSUME NEW mem \in Regions, NEW t
    PROVE  Place(mem, t) \in Nat /\ Place(mem, t) >= 1
  BY WalkEnds DEF Place

\* What is found is in the region and reads as the type that was looked for.
LEMMA LookupFound ==
    ASSUME NEW mem \in Regions, NEW t, tlv_lookup(mem, t) # 0
    PROVE  /\ tlv_lookup(mem, t) - 1 \in Offsets
           /\ bytes_to_header(mem[tlv_lookup(mem, t) - 1]).type = t
<1> DEFINE stops == {o \in Offsets : bytes_to_header(mem[o]).type = t}
           r == Walk(mem, stops)[1]
<1>1. tlv_lookup(mem, t) = IF r >= End THEN 0 ELSE r + 1
  BY DEF tlv_lookup
<1>2. r \in Nat /\ (r >= End \/ r \in stops)
  BY WalkEnds
<1> HIDE DEF r
<1>3. r \in stops /\ tlv_lookup(mem, t) - 1 = r
  BY <1>1, <1>2
<1> QED
  BY <1>3

\* An entry that is held is found, and free space starts behind it.
LEMMA HeldFound ==
    ASSUME NEW mem \in Regions, NEW t \in Types \ {Empty}, NEW size \in 1 .. Base - 1,
           NEW limit \in Nat, limit <= End, Held(mem, t, size, limit)
    PROVE  /\ Place(mem, t) \in Offsets
           /\ bytes_to_header(mem[Place(mem, t)]).data_size = size
           /\ tlv_lookup(mem, t) = Place(mem, t) + 1
           /\ Place(mem, t) + 1 + size + CALCULATE_PADDING(size) <= get_next_free_offset(mem)
<1> DEFINE r == Place(mem, t)
           pad == CALCULATE_PADDING(size)
           stops == OfType(mem, t) \cup Unused(mem)
<1>1. r \in Nat /\ r >= 1 /\ pad \in Nat /\ size \in Nat /\ size # 0
  BY PlaceTyped, PaddingTyped, SizesAssumption
<1>2. r + 1 + size + pad <= End /\ mem[r] = tlv_header(t, size)
  <2>1. r + 1 + size + pad <= limit /\ mem[r] = tlv_header(t, size)
    BY DEF Held
  <2> HIDE DEF r, pad
  <2> QED
    BY <2>1, <1>1, SizesAssumption
<1>3. /\ bytes_to_header(mem[r]).type = t /\ bytes_to_header(mem[r]).padding = pad
      /\ bytes_to_header(mem[r]).data_size = size
  BY <1>1, <1>2, CellsRead, SizeTyped, SizesAssumption
<1>4. r = Walk(mem, stops)[1]
  BY DEF Place
<1> HIDE DEF r, pad
<1>5. r \in Offsets /\ r < End
  BY <1>1, <1>2, SizesAssumption DEF Offsets
<1>6. r \in OfType(mem, t)
  BY <1>3, <1>5 DEF OfType
<1>7. r \notin Unused(mem)
  BY <1>1, <1>3 DEF Unused
<1>8. Walk(mem, OfType(mem, t))[1] = r
  <2>1. Walk(mem, OfType(mem, t))[1] = Walk(mem, OfType(mem, t))[r]
    <3> HIDE DEF stops
    <3>1. \A x \in Offsets : x < r => mem[x] = mem[x] /\ (x \in OfType(mem, t) => x \in stops)
      BY DEF stops
    <3> QED
      BY <1>4, <3>1, WalkAlong
  <2>2. Walk(mem, OfType(mem, t))[r] = r
    BY <1>1, <1>6, WalkUnfold DEF Step
  <2> QED
    BY <2>1, <2>2
<1>9. tlv_lookup(mem, t) = r + 1
  BY <1>1, <1>5, <1>8, SizesAssumption DEF tlv_lookup, OfType
<1>10. Walk(mem, Unused(mem))[1] >= r + 1 + size + pad
  <2>1. Walk(mem, Unused(mem))[1] = Walk(mem, Unused(mem))[r]
    <3> HIDE DEF stops
    <3>1. \A x \in Offsets : x < r => mem[x] = mem[x] /\ (x \in Unused(mem) => x \in stops)
      BY DEF stops
    <3> QED
      BY <1>4, <3>1, WalkAlong
  <2> DEFINE n == NextHeader(mem, r)
  <2>2. n = r + 1 + size + pad /\ n \in Nat
    BY <1>1, <1>3 DEF NextHeader
  <2> HIDE DEF n
  <2>3. Walk(mem, Unused(mem))[r] = Walk(mem, Unused(mem))[n]
    BY <1>1, <1>5, <1>7, WalkUnfold, SizesAssumption DEF Step, n
  <2>4. Walk(mem, Unused(mem))[n] >= n
    BY <2>2, WalkEnds
  <2> QED
    BY <2>1, <2>2, <2>3, <2>4
<1>11. r + 1 + size + pad <= get_next_free_offset(mem)
  BY <1>2, <1>10 DEF get_next_free_offset
<1> QED
  BY <1>3, <1>5, <1>9, <1>11 DEF r, pad

\* It stays held as long as nothing up to its header changes.
LEMMA HeldKept ==
    ASSUME NEW mem \in Regions, NEW new \in Regions, NEW t \in Types \ {Empty}, NEW size \in Nat,
           NEW limit \in Nat, limit <= End, Held(mem, t, size, limit),
           \A x \in Offsets : x <= Place(mem, t) => new[x] = mem[x]
    PROVE  Place(new, t) = Place(mem, t) /\ Held(new, t, size, limit)
<1> DEFINE r == Place(mem, t)
           pad == CALCULATE_PADDING(size)
           stops == OfType(mem, t) \cup Unused(mem)
           ends == OfType(new, t) \cup Unused(new)
<1>1. r \in Nat /\ r >= 1 /\ pad \in Nat
  BY PlaceTyped, PaddingTyped
<1>2. r + 1 + size + pad <= limit /\ mem[r] = tlv_header(t, size)
  BY DEF Held
<1>3. r = Walk(mem, stops)[1]
  BY DEF Place
<1>4. \A x \in Offsets : x <= r => new[x] = mem[x]
  OBVIOUS
<1> HIDE DEF r, pad
<1>5. r \in Offsets
  BY <1>1, <1>2, SizesAssumption DEF Offsets
<1>6. new[r] = tlv_header(t, size)
  BY <1>1, <1>2, <1>4, <1>5
<1>7. r \in ends
  <2>1. bytes_to_header(new[r]).type = t
    BY <1>6, CellsRead
  <2> QED
    BY <1>5, <2>1 DEF OfType
<1>8. \A x \in Offsets : x < r => new[x] = mem[x] /\ (x \in ends => x \in stops)
  <2> SUFFICES ASSUME NEW x \in Offsets, x < r PROVE new[x] = mem[x] /\ (x \in ends => x \in stops)
    OBVIOUS
  <2>1. new[x] = mem[x]
    BY <1>1, <1>4 DEF Offsets
  <2> QED
    BY <2>1 DEF OfType, Unused
<1> HIDE DEF stops, ends
<1>9. Walk(new, ends)[1] = Walk(new, ends)[r]
  BY <1>3, <1>8, WalkAlong
<1>10. Walk(new, ends)[r] = r
  BY <1>1, <1>7, WalkUnfold DEF Step
<1>11. Place(new, t) = r
  BY <1>9, <1>10 DEF Place, ends
<1> QED
  BY <1>2, <1>6, <1>11 DEF Held, r, pad

\* A wider limit holds it as well.
LEMMA HeldWider ==
    ASSUME NEW mem \in Regions, NEW t, NEW size \in Nat, NEW limit \in Nat, NEW wider \in Nat,
           limit <= wider, Held(mem, t, size, limit)
    PROVE  Held(mem, t, size, wider)
<1> DEFINE z == Place(mem, t) + 1 + size + CALCULATE_PADDING(size)
<1>1. z \in Nat
  BY PlaceTyped, PaddingTyped
<1>2. z <= limit
  BY DEF Held
<1> HIDE DEF z
<1>3. z <= wider
  BY <1>1, <1>2
<1> QED
  BY <1>3 DEF Held, z

\* What tlv_write leaves and what it writes.
LEMMA WriteCells ==
    ASSUME NEW mem \in Regions, NEW t \in Types, NEW payload \in Seq(Cells)
    PROVE  LET n == get_next_free_offset(mem)
               new == tlv_write(mem, t, payload)
           IN  /\ new \in Regions
               /\ \A o \in Offsets : o < n => new[o] = mem[o]
               /\ n < End => new[n] = tlv_header(t, Len(payload))
               /\ \A i \in 1 .. Len(payload) : n + i < End => new[n + i] = payload[i]
               /\ \A o \in Offsets : o > n + Len(payload) => new[o] = mem[o]
               /\ \A o \in Offsets : \/ new[o] = mem[o]
                                     \/ o = n /\ new[o] = tlv_header(t, Len(payload))
                                     \/ \E i \in 1 .. Len(payload) : new[o] = payload[i]
<1> DEFINE n == get_next_free_offset(mem)
           h == tlv_header(t, Len(payload))
           cells == <<h>> \o payload
           len == Len(payload)
           new == Put(mem, n, cells)
<1>1. n \in Nat /\ n >= 1
  BY FreeOffset, SizesAssumption
<1>2. len \in Nat /\ h \in Cells
  BY CellsTyped
<1> HIDE DEF h
<1>3. /\ cells \in Seq(Cells) /\ Len(cells) = len + 1 /\ cells[1] = h
      /\ \A i \in 1 .. len : cells[i + 1] = payload[i]
  BY <1>2
<1> HIDE DEF cells, n, len
<1>4. /\ new \in Regions
      /\ \A o \in Offsets : o < n => new[o] = mem[o]
      /\ \A i \in 1 .. Len(cells) : n + i - 1 < End => new[n + i - 1] = cells[i]
  BY <1>1, <1>3, PutCells
<1>5. \A o \in Offsets : new[o] = IF o - n \in 0 .. Len(cells) - 1 THEN cells[o - n + 1] ELSE mem[o]
  BY DEF Put
<1> HIDE DEF new
<1>6. n < End => new[n] = h
  <2>1. 1 \in 1 .. Len(cells) /\ n + 1 - 1 = n
    BY <1>1, <1>2, <1>3
  <2> QED
    BY <1>3, <1>4, <2>1
<1>7. ASSUME NEW i \in 1 .. len, n + i < End PROVE new[n + i] = payload[i]
  <2>1. i + 1 \in 1 .. Len(cells) /\ n + (i + 1) - 1 = n + i
    BY <1>1, <1>2, <1>3
  <2> QED
    BY <1>3, <1>4, <1>7, <2>1
<1>8. ASSUME NEW o \in Offsets, new[o] # mem[o]
      PROVE  (o = n /\ new[o] = h) \/ \E i \in 1 .. len : new[o] = payload[i]
  <2>1. o \in Nat
    BY DEF Offsets
  <2>2. o - n \in 0 .. len /\ new[o] = cells[o - n + 1]
    BY <1>2, <1>3, <1>5, <1>8
  <2>3. CASE o = n
    <3>1. o - n + 1 = 1
      BY <2>3, <1>1
    <3> QED
      BY <1>3, <2>2, <2>3, <3>1
  <2>4. CASE o # n
    <3>1. o - n \in 1 .. len
      BY <2>1, <2>2, <2>4, <1>1, <1>2
    <3> QED
      BY <1>3, <2>2, <3>1
  <2> QED
    BY <2>3, <2>4
<1>9. new = tlv_write(mem, t, payload)
  BY DEF tlv_write, new, cells, h, n
<1>10. \A o \in Offsets : o > n + len => new[o] = mem[o]
  BY <1>1, <1>2, <1>3, <1>5 DEF Offsets
<1> QED
  BY <1>4, <1>6, <1>7, <1>8, <1>9, <1>10 DEF n, h, len

\* An entry of a type that is absent is held once it is written.
LEMMA HeldNew ==
    ASSUME NEW mem \in Regions, NEW t \in Types \ {Empty}, NEW payload \in Seq(Cells),
           Absent(mem, t), Fits(mem, Len(payload))
    PROVE  /\ get_next_free_offset(mem) \in Offsets
           /\ Place(tlv_write(mem, t, payload), t) = get_next_free_offset(mem)
           /\ Held(tlv_write(mem, t, payload), t, Len(payload), End)
<1> DEFINE n == get_next_free_offset(mem)
           new == tlv_write(mem, t, payload)
           size == Len(payload)
           pad == CALCULATE_PADDING(size)
           stops == OfType(mem, t) \cup Unused(mem)
           ends == OfType(new, t) \cup Unused(new)
<1>1. n \in Nat /\ n >= 1 /\ size \in Nat /\ pad \in Nat
  BY FreeOffset, PaddingTyped, SizesAssumption
<1>2. n + 1 + size + pad <= End
  BY DEF Fits
<1>3. /\ new \in Regions
      /\ \A o \in Offsets : o < n => new[o] = mem[o]
      /\ n < End => new[n] = tlv_header(t, size)
  BY WriteCells
<1>4. n = IF Walk(mem, Unused(mem))[1] >= End THEN End ELSE Walk(mem, Unused(mem))[1]
  BY DEF get_next_free_offset
<1> HIDE DEF n, new, size, pad
<1>w. Walk(mem, stops)[1] = Walk(mem, Unused(mem))[1]
  BY DEF Absent, Place
<1>5. n < End /\ n \in Offsets /\ n = Walk(mem, stops)[1]
  BY <1>1, <1>2, <1>4, <1>w, SizesAssumption DEF Offsets
<1>6. n \in ends
  <2>1. bytes_to_header(new[n]).type = t
    BY <1>3, <1>5, CellsRead
  <2> QED
    BY <1>5, <2>1 DEF OfType
<1>7. \A x \in Offsets : x < n => new[x] = mem[x] /\ (x \in ends => x \in stops)
  <2> SUFFICES ASSUME NEW x \in Offsets, x < n
               PROVE new[x] = mem[x] /\ (x \in ends => x \in stops)
    OBVIOUS
  <2>1. new[x] = mem[x]
    BY <1>3
  <2> QED
    BY <2>1 DEF OfType, Unused
<1> HIDE DEF ends, stops
<1>8. Walk(new, ends)[1] = Walk(new, ends)[n]
  BY <1>3, <1>5, <1>7, WalkAlong
<1>9. Walk(new, ends)[n] = n
  BY <1>1, <1>3, <1>6, WalkUnfold DEF Step
<1>10. Place(new, t) = n
  BY <1>8, <1>9 DEF Place, ends
<1>11. Held(new, t, size, End)
  BY <1>2, <1>3, <1>5, <1>10 DEF Held, pad
<1> QED
  BY <1>5, <1>10, <1>11 DEF n, new, size

\* Its payload is copied with it.
LEMMA CopiedNew ==
    ASSUME NEW mem \in Regions, NEW t \in Types \ {Empty}, NEW size \in Nat,
           size <= MaxElement, Absent(mem, t), Fits(mem, size)
    PROVE  Copied(tlv_write(mem, t, PayloadOf(t, size)), t, size, End)
<1> DEFINE n == get_next_free_offset(mem)
           payload == PayloadOf(t, size)
           new == tlv_write(mem, t, payload)
           pad == CALCULATE_PADDING(size)
<1>1. payload \in Seq(Cells) /\ Len(payload) = size /\ \A i \in 1 .. size : payload[i] = Byte(t, i)
  BY PayloadTyped
<1>2. n \in Nat /\ pad \in Nat /\ n + 1 + size + pad <= End
  BY FreeOffset, PaddingTyped DEF Fits
<1> HIDE DEF payload
<1>3. Place(new, t) = n /\ Held(new, t, size, End)
  BY <1>1, HeldNew
<1>4. \A i \in 1 .. size : n + i < End => new[n + i] = payload[i]
  BY <1>1, WriteCells
<1> HIDE DEF n, new, pad
<1>5. \A i \in 1 .. size : new[n + i] = Byte(t, i)
  <2> SUFFICES ASSUME NEW i \in 1 .. size PROVE new[n + i] = Byte(t, i)
    OBVIOUS
  <2>1. n + i < End
    BY <1>2, SizesAssumption
  <2> QED
    BY <1>1, <1>4, <2>1
<1>6. Copied(new, t, size, End)
  BY <1>3, <1>5 DEF Copied
<1> QED
  BY <1>6 DEF new, payload

\* The walk through a region that an entry was written to goes on behind the entry.
LEMMA WalkWritten ==
    ASSUME NEW mem \in Regions, NEW u \in Types \ {Empty}, NEW payload \in Seq(Cells),
           Len(payload) < Base, Fits(mem, Len(payload)), FreeBehind(mem),
           NEW new, new = tlv_write(mem, u, payload),
           NEW n, n = Walk(mem, Unused(mem))[1],
           NEW stops, Walk(mem, stops)[1] = n,
           NEW ends, Unused(new) \subseteq ends, n \in ends => n \in Unused(new),
           \A x \in Offsets : x < n /\ new[x] = mem[x] /\ x \in ends => x \in stops
    PROVE  Walk(new, ends)[1] = IF Len(payload) = 0 THEN n
                                ELSE n + 1 + Len(payload) + CALCULATE_PADDING(Len(payload))
<1> DEFINE size == Len(payload)
           pad == CALCULATE_PADDING(size)
           m == n + 1 + size + pad
<1>1. n \in Nat /\ size \in Nat /\ pad \in Nat /\ size < Base
  BY WalkEnds, PaddingTyped
<1>2. n + 1 + size + pad <= End /\ get_next_free_offset(mem) = n
  <2> DEFINE g == get_next_free_offset(mem)
  <2>1. g = IF n >= End THEN End ELSE n
    BY DEF get_next_free_offset
  <2>2. g + 1 + size + pad <= End
    BY DEF Fits
  <2> HIDE DEF g, size, pad
  <2>3. g = n
    BY <1>1, <2>1, <2>2, SizesAssumption
  <2> QED
    BY <2>2, <2>3 DEF g
<1>3. /\ new \in Regions /\ (\A o \in Offsets : o < n => new[o] = mem[o])
      /\ n < End => new[n] = tlv_header(u, size)
      /\ \A o \in Offsets : o > n + size => new[o] = mem[o]
  BY <1>2, WriteCells
<1>4. \A o \in Offsets : o > n => mem[o] = Erased
  BY DEF FreeBehind
<1> HIDE DEF size, pad
<1>5. n < End /\ n \in Offsets /\ new[n] = tlv_header(u, size) /\ m \in Nat /\ m > n + size
  BY <1>1, <1>2, <1>3, SizesAssumption DEF Offsets
<1>6. /\ bytes_to_header(new[n]).type = u /\ bytes_to_header(new[n]).padding = pad
      /\ bytes_to_header(new[n]).data_size = size
  <2>1. size % Base = size
    BY <1>1, SizeTyped
  <2> QED
    BY <1>5, <2>1, CellsRead DEF pad
<1>7. Walk(new, ends)[1] = Walk(new, ends)[n]
  BY <1>3, WalkAlong
<1>8. n \in ends <=> size = 0
  BY <1>5, <1>6 DEF Unused
<1>9. CASE size = 0
  <2>1. Walk(new, ends)[n] = n
    BY <1>1, <1>3, <1>8, <1>9, WalkUnfold DEF Step
  <2> QED
    BY <1>7, <1>9, <2>1 DEF size
<1>10. CASE size # 0
  <2>1. NextHeader(new, n) = m
    BY <1>1, <1>6 DEF NextHeader
  <2> HIDE DEF m
  <2>2. Walk(new, ends)[n] = Walk(new, ends)[m]
    BY <1>1, <1>3, <1>5, <1>8, <1>10, <2>1, WalkUnfold, SizesAssumption DEF Step
  <2>3. Walk(new, ends)[m] = m
    <3>1. CASE m >= End
      BY <1>3, <1>5, <3>1, WalkUnfold DEF Step
    <3>2. CASE m < End
      <4>1. m \in Offsets /\ m > n
        BY <1>1, <1>5, <3>2, SizesAssumption DEF Offsets
      <4>2. new[m] = Erased
        BY <1>3, <1>4, <1>5, <4>1
      <4>3. m \in ends
        BY <4>1, <4>2, CellsRead DEF Unused
      <4> QED
        BY <1>3, <1>5, <4>3, WalkUnfold DEF Step
    <3> QED
      BY <1>5, <3>1, <3>2, SizesAssumption
  <2>4. Walk(new, ends)[1] = m
    BY <1>7, <2>2, <2>3
  <2> QED
    BY <1>10, <2>4 DEF m, size, pad
<1> QED
  BY <1>9, <1>10

\* Nothing is behind the free space of it, and other types stay absent.
LEMMA WriteGrows ==
    ASSUME NEW mem \in Regions, NEW u \in Types \ {Empty}, NEW payload \in Seq(Cells),
           Len(payload) < Base, Fits(mem, Len(payload)), FreeBehind(mem)
    PROVE  /\ FreeBehind(tlv_write(mem, u, payload))
           /\ \A t : t \notin {u, Empty} /\ Absent(mem, t) => Absent(tlv_write(mem, u, payload), t)
<1> DEFINE new == tlv_write(mem, u, payload)
           n == Walk(mem, Unused(mem))[1]
           size == Len(payload)
           pad == CALCULATE_PADDING(size)
           m == IF size = 0 THEN n ELSE n + 1 + size + pad
<1>1. n \in Nat /\ size \in Nat /\ pad \in Nat
  BY WalkEnds, PaddingTyped
<1>2. n < End /\ get_next_free_offset(mem) = n
  <2> DEFINE g == get_next_free_offset(mem)
  <2>1. g = IF n >= End THEN End ELSE n
    BY DEF get_next_free_offset
  <2>2. g + 1 + size + pad <= End
    BY DEF Fits
  <2> HIDE DEF g, size, pad, n
  <2>3. g = n /\ n < End
    BY <1>1, <2>1, <2>2, SizesAssumption
  <2> QED
    BY <2>3 DEF g
<1>3. /\ new \in Regions /\ (\A o \in Offsets : o < n => new[o] = mem[o])
      /\ n < End => new[n] = tlv_header(u, size)
      /\ \A o \in Offsets : o > n + size => new[o] = mem[o]
  BY <1>2, WriteCells
<1>h. bytes_to_header(new[n]).type = u
  BY <1>2, <1>3, CellsRead
<1>4. \A o \in Offsets : o > n => mem[o] = Erased
  BY DEF FreeBehind
<1> DEFINE Agree(stops, ends) ==
               \A x \in Offsets : x < n /\ new[x] = mem[x] /\ x \in ends => x \in stops
<1> HIDE DEF n, new
<1>5. Walk(new, Unused(new))[1] = m
  <2>1. Agree(Unused(mem), Unused(new))
    BY DEF Unused
  <2>2. Walk(mem, Unused(mem))[1] = n /\ new = tlv_write(mem, u, payload)
    BY DEF n, new
  <2> QED
    BY <2>1, <2>2, WalkWritten
<1>6. FreeBehind(new)
  <2> SUFFICES ASSUME NEW o \in Offsets, o > m PROVE new[o] = Erased
    BY <1>5 DEF FreeBehind
  <2> HIDE DEF size, pad
  <2>1. o > n /\ o > n + size
    BY <1>1 DEF Offsets
  <2> QED
    BY <1>3, <1>4, <2>1
<1>7. ASSUME NEW t, t \notin {u, Empty}, Absent(mem, t) PROVE Absent(new, t)
  <2> DEFINE stops == OfType(mem, t) \cup Unused(mem)
             ends == OfType(new, t) \cup Unused(new)
  <2>1. Walk(mem, stops)[1] = n /\ new = tlv_write(mem, u, payload) /\ n = Walk(mem, Unused(mem))[1]
    BY <1>7 DEF Absent, Place, n, new
  <2>2. Unused(new) \subseteq ends /\ (n \in ends => n \in Unused(new))
    BY <1>h, <1>7 DEF OfType
  <2>3. Agree(stops, ends)
    BY DEF OfType, Unused
  <2> HIDE DEF stops, ends
  <2>4. Walk(new, ends)[1] = m
    BY <2>1, <2>2, <2>3, WalkWritten
  <2> QED
    BY <1>5, <2>4 DEF Absent, Place, ends
<1> QED
  BY <1>6, <1>7 DEF new

\* A copied entry stays as long as nothing before its end changes.
LEMMA CopiedKept ==
    ASSUME NEW mem \in Regions, NEW new \in Regions, NEW t \in Types \ {Empty}, NEW size \in Nat,
           NEW limit \in Nat, limit <= End, Copied(mem, t, size, limit),
           \A x \in Offsets : x < Place(mem, t) + 1 + size + CALCULATE_PADDING(size) => new[x] = mem[x]
    PROVE  Place(new, t) = Place(mem, t) /\ Copied(new, t, size, limit)
<1> DEFINE r == Place(mem, t)
           pad == CALCULATE_PADDING(size)
<1>1. r \in Nat /\ pad \in Nat /\ Held(mem, t, size, limit) /\ r + 1 + size + pad <= limit
  BY PlaceTyped, PaddingTyped DEF Copied, Held
<1>2. \A x \in Offsets : x < r + 1 + size + pad => new[x] = mem[x]
  OBVIOUS
<1>3. \A i \in 1 .. size : mem[r + i] = Byte(t, i)
  BY DEF Copied
<1> HIDE DEF r, pad
<1>4. \A x \in Offsets : x <= r => new[x] = mem[x]
  BY <1>1, <1>2 DEF Offsets
<1>5. Place(new, t) = r /\ Held(new, t, size, limit)
  BY <1>1, <1>4, HeldKept DEF r
<1>6. ASSUME NEW i \in 1 .. size PROVE new[r + i] = Byte(t, i)
  <2>1. r + i \in Offsets /\ r + i < r + 1 + size + pad
    BY <1>1, SizesAssumption DEF Offsets
  <2> QED
    BY <1>2, <1>3, <2>1
<1> QED
  BY <1>5, <1>6 DEF Copied, r

\* A copied value reads back as it was.
LEMMA ReadBack ==
    ASSUME NEW mem \in Regions, NEW t \in Types \ {Empty}, NEW size \in 1 .. Base - 1,
           NEW limit \in Nat, limit <= End, Copied(mem, t, size, limit)
    PROVE  tlv_read(mem, t, size) = PayloadOf(t, size)
<1> DEFINE r == Place(mem, t)
           pad == CALCULATE_PADDING(size)
           h == bytes_to_header(mem[r])
<1>1. Held(mem, t, size, limit) /\ \A i \in 1 .. size : mem[r + i] = Byte(t, i)
  BY DEF Copied
<1>2. r \in Nat /\ pad \in Nat /\ size \in Nat /\ r + 1 + size + pad <= limit
  BY <1>1, PlaceTyped, PaddingTyped, SizesAssumption DEF Held
<1>3. h.data_size = size /\ tlv_lookup(mem, t) = r + 1
  BY <1>1, HeldFound
<1>4. h.padding = pad
  BY <1>1, CellsRead DEF Held
<1> HIDE DEF r, pad
<1>5. (r + 1) - 1 = r /\ r + 1 # 0 /\ (r + 1) + size <= End /\ size <= size + pad
  BY <1>2, SizesAssumption
<1>6. tlv_read(mem, t, size) = [i \in 1 .. size |-> mem[(r + 1) + i - 1]]
  BY <1>3, <1>4, <1>5 DEF tlv_read
<1>7. \A i \in 1 .. size : mem[(r + 1) + i - 1] = Byte(t, i)
  <2> SUFFICES ASSUME NEW i \in 1 .. size PROVE mem[(r + 1) + i - 1] = Byte(t, i)
    OBVIOUS
  <2>1. (r + 1) + i - 1 = r + i
    BY <1>2
  <2> QED
    BY <1>1, <2>1
<1> QED
  BY <1>6, <1>7 DEF PayloadOf

\* Flags that are held are found, by their header, and read as set.
LEMMA HeldFlagsFound ==
    ASSUME NEW mem \in Regions, NEW limit \in Nat, limit <= End, FlagsHeld(mem, limit)
    PROVE  /\ tlv_lookup(mem, Flags) # 0 /\ mem[tlv_lookup(mem, Flags) - 1].kind = "header"
           /\ tlv_read(mem, Flags, Align) # <<>>
           /\ \A i \in 1 .. Align : tlv_read(mem, Flags, Align)[i] \in {Erased, Byte(Flags, i)}
<1> DEFINE r == Place(mem, Flags)
           pad == CALCULATE_PADDING(Align)
           h == bytes_to_header(mem[r])
<1>0. /\ Align \in 1 .. Base - 1 /\ Align \in Nat /\ Align >= 1 /\ Flags \in Types \ {Empty}
      /\ Held(mem, Flags, Align, limit)
      /\ \A i \in 1 .. Align : mem[r + i] \in {Erased, Byte(Flags, i)}
  BY SizesAssumption, TypesAssumption DEF FlagsHeld
<1>2. r \in Nat /\ pad \in Nat /\ r + 1 + Align + pad <= limit /\ mem[r] = tlv_header(Flags, Align)
  BY <1>0, PlaceTyped, PaddingTyped DEF Held
<1>3. h.data_size = Align /\ tlv_lookup(mem, Flags) = r + 1
  BY <1>0, HeldFound
<1>4. h.padding = pad
  BY <1>2, CellsRead
<1>k. mem[r].kind = "header"
  BY <1>2 DEF tlv_header, Header, Cell
<1> HIDE DEF r, pad
<1>5. (r + 1) - 1 = r /\ r + 1 # 0 /\ (r + 1) + Align <= End /\ Align <= Align + pad
  BY <1>0, <1>2, SizesAssumption
<1>6. tlv_read(mem, Flags, Align) = [i \in 1 .. Align |-> mem[(r + 1) + i - 1]]
  BY <1>3, <1>4, <1>5 DEF tlv_read
<1>7. 1 \in DOMAIN tlv_read(mem, Flags, Align)
  BY <1>0, <1>6
<1>8. 1 \notin DOMAIN <<>>
  OBVIOUS
<1>9. ASSUME NEW i \in 1 .. Align
      PROVE  tlv_read(mem, Flags, Align)[i] \in {Erased, Byte(Flags, i)}
  <2>1. (r + 1) + i - 1 = r + i
    BY <1>2
  <2> QED
    BY <1>0, <1>6, <2>1
<1> QED
  BY <1>3, <1>5, <1>7, <1>8, <1>9, <1>k

-----------------------------------------------------------------------------
(***************************************************************************)
(* What the factory wrote.                                                 *)
(***************************************************************************)

\* The entries of the factory.
LEMMA EntryTyped ==
    ASSUME NEW f \in Factory, NEW i \in 1 .. Len(f.entries)
    PROVE  /\ f.version \in {7, 8} /\ Len(f.entries) \in Nat
           /\ f.entries[i].type \in Types \ {Empty, Flags, "other"}
           /\ f.entries[i].size \in Nat /\ f.entries[i].size >= 1
           /\ f.entries[i].size <= MaxElement /\ f.entries[i].size < Base
           /\ f.entries[i].offset \in Nat /\ f.entries[i].offset >= 1
           /\ f.entries[i].offset + f.entries[i].size <= End
           /\ f.version = 8 => f.entries[i].offset + f.entries[i].size < End
<1> DEFINE es == f.entries
<1>1. f.version \in {7, 8} /\ Placed(f.version, es)
  BY LayoutAssumption
<1>2. es \in Seq([type : Types \ {Empty, Flags, "other"}, size : 1 .. MaxElement, offset : Nat \ {0}])
  BY <1>1 DEF Placed
<1>3. es[i] \in [type : Types \ {Empty, Flags, "other"}, size : 1 .. MaxElement, offset : Nat \ {0}]
  <2> DEFINE S == [type : Types \ {Empty, Flags, "other"}, size : 1 .. MaxElement, offset : Nat \ {0}]
  <2>1. es \in Seq(S) /\ i \in 1 .. Len(es)
    BY <1>2
  <2> HIDE DEF S, es
  <2>2. es[i] \in S
    BY <2>1
  <2> QED
    BY <2>2 DEF S
<1>4. es[i].offset + es[i].size <= End - (IF f.version = 8 THEN 1 ELSE 0)
  BY <1>1 DEF Placed
<1>5. Len(es) \in Nat
  BY <1>2
<1> QED
  BY <1>1, <1>3, <1>4, <1>5, SizesAssumption

\* They are of different types and apart.
LEMMA EntriesApart ==
    ASSUME NEW f \in Factory, NEW i \in 1 .. Len(f.entries), NEW j \in 1 .. Len(f.entries), i # j
    PROVE  /\ f.entries[i].type # f.entries[j].type
           /\ Lies(f.version, f.entries[i]) \cap Lies(f.version, f.entries[j]) = {}
  BY LayoutAssumption DEF Placed

\* A cell of an entry lies in the region, behind the marker.
LEMMA LiesTyped ==
    ASSUME NEW f \in Factory, NEW i \in 1 .. Len(f.entries), NEW o \in Lies(f.version, f.entries[i])
    PROVE  o \in Offsets /\ o # 0 /\ o \in Nat
<1> DEFINE e == f.entries[i]
           last == e.offset + e.size - (IF f.version = 8 THEN 0 ELSE 1)
<1>1. /\ f.version \in {7, 8} /\ e.size \in Nat /\ e.size >= 1 /\ e.offset \in Nat /\ e.offset >= 1
      /\ e.offset + e.size <= End /\ (f.version = 8 => e.offset + e.size < End)
  BY EntryTyped
<1>2. o \in e.offset .. last
  BY DEF Lies
<1>3. last \in Int /\ last < End
  <2>1. CASE f.version = 8
    BY <1>1, <2>1, SizesAssumption
  <2>2. CASE f.version = 7
    BY <1>1, <2>2, SizesAssumption
  <2> QED
    BY <1>1, <2>1, <2>2
<1> QED
  BY <1>1, <1>2, <1>3, SizesAssumption DEF Offsets

\* Every cell of what the factory wrote.
LEMMA FactoryCells ==
    ASSUME NEW f \in Factory
    PROVE  /\ FactoryFlash(f)[0] = Marker(f.version)
           /\ \A i \in 1 .. Len(f.entries) : \A o \in Lies(f.version, f.entries[i]) :
                 FactoryFlash(f)[o] = FactoryCell(f.version, f.entries[i], o)
           /\ \A o \in Offsets :
                 o = 0 \/ (\E i \in 1 .. Len(f.entries) : o \in Lies(f.version, f.entries[i]))
                       \/ FactoryFlash(f)[o] = Erased
<1> DEFINE Here(o) == {i \in 1 .. Len(f.entries) : o \in Lies(f.version, f.entries[i])}
<1>1. \A o \in Offsets : FactoryFlash(f)[o] =
          IF o = 0 THEN Marker(f.version)
          ELSE IF Here(o) = {} THEN Erased
          ELSE FactoryCell(f.version, f.entries[CHOOSE i \in Here(o) : TRUE], o)
  BY DEF FactoryFlash
<1>2. 0 \in Offsets
  BY SizesAssumption DEF Offsets
<1>3. ASSUME NEW i \in 1 .. Len(f.entries), NEW o \in Lies(f.version, f.entries[i])
      PROVE  FactoryFlash(f)[o] = FactoryCell(f.version, f.entries[i], o)
  <2>1. o \in Offsets /\ o # 0
    BY LiesTyped
  <2>2. i \in Here(o)
    OBVIOUS
  <2>3. \A j \in Here(o) : j = i
    BY EntriesApart
  <2>4. (CHOOSE j \in Here(o) : TRUE) = i
    BY <2>2, <2>3
  <2> QED
    BY <1>1, <2>1, <2>2, <2>4
<1> QED
  BY <1>1, <1>2, <1>3

\* It is a region of cells, with a marker and without a header of flags.
LEMMA FactoryRegion ==
    ASSUME NEW f \in Factory
    PROVE  /\ FactoryFlash(f) \in Regions
           /\ \A o \in Offsets : FactoryFlash(f)[o].kind = "header" => FactoryFlash(f)[o].type # Flags
           /\ FactoryFlash(f)[0].kind = "marker" /\ FactoryFlash(f)[0].a = f.version
<1>1. ASSUME NEW o \in Offsets
      PROVE  /\ FactoryFlash(f)[o] \in Cells
             /\ FactoryFlash(f)[o].kind = "header" => FactoryFlash(f)[o].type # Flags
  <2>1. f.version \in {7, 8}
    BY LayoutAssumption
  <2>2. CASE o = 0
    <3>1. FactoryFlash(f)[o] = Marker(f.version) /\ f.version \in Nat
      BY <2>1, <2>2, FactoryCells
    <3>2. Marker(f.version) \in Cells
      BY <3>1, CellsTyped
    <3>3. Marker(f.version).kind = "marker"
      BY DEF Marker, Cell
    <3> QED
      BY <3>1, <3>2, <3>3
  <2>3. CASE \E i \in 1 .. Len(f.entries) : o \in Lies(f.version, f.entries[i])
    <3>1. PICK i \in 1 .. Len(f.entries) : o \in Lies(f.version, f.entries[i])
      BY <2>3
    <3> DEFINE e == f.entries[i]
    <3>2. FactoryFlash(f)[o] = FactoryCell(f.version, e, o)
      BY <3>1, FactoryCells
    <3>3. /\ e.type \in Types /\ e.type # Flags /\ e.size \in Nat /\ e.size >= 1 /\ e.offset \in Nat
          /\ e.size <= MaxElement
      BY EntryTyped
    <3>4. /\ o \in Nat /\ o >= e.offset
          /\ o <= e.offset + e.size - (IF f.version = 8 THEN 0 ELSE 1)
      BY <3>1, <3>3, <2>1, LiesTyped DEF Lies
    <3>5. /\ f.version = 7 => o - e.offset + 1 \in 1 .. MaxElement
          /\ f.version # 7 /\ o # e.offset => o - e.offset \in 1 .. MaxElement
      <4> DEFINE off == e.offset
                 size == e.size
      <4>1. /\ off \in Nat /\ size \in Nat /\ size <= MaxElement /\ o \in Nat /\ o >= off
            /\ f.version = 7 => o <= off + size - 1
            /\ f.version # 7 => o <= off + size - 0
        BY <2>1, <3>3, <3>4
      <4> HIDE DEF off, size
      <4>2. /\ f.version = 7 => o - off + 1 \in 1 .. MaxElement
            /\ f.version # 7 /\ o # off => o - off \in 1 .. MaxElement
        BY <4>1, SizesAssumption
      <4> QED
        BY <4>2 DEF off
    <3>6. e.size \div Base \in Nat /\ e.size % Base \in Nat
      BY <3>3, TwoBytes
    <3> HIDE DEF e
    <3>7. \/ \E k \in 1 .. MaxElement : FactoryFlash(f)[o] = Byte(e.type, k)
          \/ \E k, m \in Nat : FactoryFlash(f)[o] = Header(e.type, k, m)
      BY <3>2, <3>5, <3>6 DEF FactoryCell
    <3>8. CASE \E k \in 1 .. MaxElement : FactoryFlash(f)[o] = Byte(e.type, k)
      <4>1. PICK k \in 1 .. MaxElement : FactoryFlash(f)[o] = Byte(e.type, k)
        BY <3>8
      <4>2. Byte(e.type, k) \in Cells /\ Byte(e.type, k).kind = "byte"
        BY <3>3, CellsTyped DEF Byte, Cell
      <4> QED
        BY <4>1, <4>2
    <3>9. CASE \E k, m \in Nat : FactoryFlash(f)[o] = Header(e.type, k, m)
      <4>1. PICK k \in Nat, m \in Nat : FactoryFlash(f)[o] = Header(e.type, k, m)
        BY <3>9
      <4>2. Header(e.type, k, m) \in Cells /\ Header(e.type, k, m).type = e.type
        BY <3>3, CellsTyped DEF Header, Cell
      <4> QED
        BY <3>3, <4>1, <4>2
    <3> QED
      BY <3>7, <3>8, <3>9
  <2>4. CASE FactoryFlash(f)[o] = Erased
    BY <2>4, CellsTyped DEF Erased, Cell
  <2> QED
    BY <2>2, <2>3, <2>4, FactoryCells
<1>2. FactoryFlash(f) \in Regions
  <2>1. FactoryFlash(f) = [o \in Offsets |-> FactoryFlash(f)[o]]
    BY DEF FactoryFlash
  <2> QED
    BY <1>1, <2>1 DEF Regions
<1>4. FactoryFlash(f)[0].kind = "marker" /\ FactoryFlash(f)[0].a = f.version
  <2>1. FactoryFlash(f)[0] = Marker(f.version)
    BY FactoryCells
  <2> QED
    BY <2>1 DEF Marker, Cell
<1> QED
  BY <1>1, <1>2, <1>4

\* So it does not hold flags.
LEMMA FactoryNoFlags ==
    ASSUME NEW f \in Factory, NEW limit \in Nat, limit <= End
    PROVE  ~FlagsHeld(FactoryFlash(f), limit)
<1> DEFINE mem == FactoryFlash(f)
           r == Place(mem, Flags)
           pad == CALCULATE_PADDING(Align)
<1> SUFFICES ASSUME FlagsHeld(mem, limit) PROVE FALSE
  OBVIOUS
<1>0. mem \in Regions /\ \A o \in Offsets : mem[o].kind = "header" => mem[o].type # Flags
  BY FactoryRegion
<1> HIDE DEF mem
<1>1. /\ r \in Nat /\ pad \in Nat /\ Align \in Nat
      /\ r + 1 + Align + pad <= limit /\ mem[r] = tlv_header(Flags, Align)
  BY <1>0, PlaceTyped, PaddingTyped, SizesAssumption DEF FlagsHeld, Held
<1>2. mem[r].kind = "header" /\ mem[r].type = Flags
  BY <1>1 DEF tlv_header, Header, Cell
<1> HIDE DEF r, pad
<1>3. r \in Offsets
  BY <1>1, SizesAssumption DEF Offsets
<1> QED
  BY <1>0, <1>2, <1>3

-----------------------------------------------------------------------------
(***************************************************************************)
(* What the parser reads of it: the next entry that it is not past, until   *)
(* there is none.                                                          *)
(***************************************************************************)

\* In the raw layout the entries follow each other.
LEMMA RawOrdered ==
    ASSUME NEW f \in Factory, f.version = 8,
           NEW i \in 1 .. Len(f.entries), NEW j \in 1 .. Len(f.entries), i < j
    PROVE  f.entries[i].offset + f.entries[i].size < f.entries[j].offset
<1> DEFINE es == f.entries
           n == Len(es)
           Behind(x, y) == es[x].offset + es[x].size < es[y].offset
           Open == {y \in Nat : y \in 1 .. n /\ \E x \in 1 .. n : x < y /\ ~Behind(x, y)}
<1>0. n \in Nat /\ \A x \in 1 .. n : es[x].offset \in Nat /\ es[x].size \in Nat
  BY EntryTyped
<1>1. /\ n \in Nat
      /\ \A x \in 1 .. n : /\ es[x].offset \in Nat /\ es[x].size \in Nat
                            /\ es[x].offset + es[x].size \in Nat
  <2> HIDE DEF es, n
  <2> QED
    BY <1>0
<1>2. \A y \in 1 .. n : y # 1 => es[y].offset = es[y - 1].offset + es[y - 1].size + 1
  BY LayoutAssumption
<1>3. ASSUME Open # {} PROVE FALSE
  <2>1. PICK y \in Open : \A z \in Open : y <= z
    BY <1>3, LeastNatural
  <2>2. y \in 1 .. n
    BY <2>1
  <2>3. PICK x \in 1 .. n : x < y /\ ~Behind(x, y)
    BY <2>1
  <2> DEFINE z == y - 1
  <2>4. z \in 1 .. n /\ z \in Nat /\ z < y /\ x <= z /\ y # 1
    BY <1>1, <2>2, <2>3
  <2>5. es[y].offset = es[z].offset + es[z].size + 1
    BY <1>2, <2>2, <2>4
  <2>6. z \notin Open
    <3> HIDE DEF Open
    <3> QED
      BY <1>1, <2>1, <2>2, <2>4
  <2> DEFINE xs == es[x].offset + es[x].size
             zo == es[z].offset
             zs == es[z].size
             yo == es[y].offset
  <2>7. xs \in Nat
    BY <1>1
  <2>8. zo \in Nat /\ zs \in Nat
    BY <1>1, <2>4
  <2>9. yo \in Nat
    BY <1>1, <2>2
  <2>10. xs = zo + zs \/ xs < zo
    <3>1. CASE x = z
      BY <3>1
    <3>2. CASE x # z
      <4>1. x < z
        BY <1>1, <2>4, <3>2
      <4> QED
        BY <2>4, <2>6, <4>1
    <3> QED
      BY <3>1, <3>2
  <2>11. yo = zo + zs + 1 /\ ~(xs < yo)
    BY <2>3, <2>5
  <2> HIDE DEF xs, zo, zs, yo, Open
  <2> QED
    BY <2>7, <2>8, <2>9, <2>10, <2>11
<1>4. Behind(i, j)
  <2>1. i \in 1 .. n /\ j \in 1 .. n /\ j \in Nat
    BY <1>1
  <2> HIDE DEF Behind, n
  <2> QED
    BY <1>3, <2>1
<1> QED
  BY <1>4

\* A boot finds no flags in it: the walk goes from header to header and over erased cells.
LEMMA RawNoFlags ==
    ASSUME NEW f \in Factory, f.version = 8
    PROVE  tlv_lookup(FactoryFlash(f), Flags) = 0
<1> DEFINE es == f.entries
           n == Len(es)
           mem == FactoryFlash(f)
           stops == {o \in Offsets : bytes_to_header(mem[o]).type = Flags}
           Behind(o) == \A i \in 1 .. n : es[i].offset + es[i].size < o
           S == {o \in Nat : o >= 1 /\ (Behind(o) \/ \E i \in 1 .. n : es[i].offset = o)}
<1>0. mem \in Regions /\ n \in Nat
  BY FactoryRegion, LayoutAssumption DEF Placed
<1>1. \A i \in 1 .. n : /\ es[i].offset \in Nat /\ es[i].size \in Nat /\ es[i].offset >= 1
                         /\ es[i].size < Base /\ es[i].type # Flags
  BY EntryTyped
<1>2. \A i \in 1 .. n : es[i].offset = IF i = 1 THEN 1 ELSE es[i - 1].offset + es[i - 1].size + 1
  BY LayoutAssumption
<1>3. 1 \in S
  <2>1. CASE n = 0
    BY <2>1
  <2>2. CASE n # 0
    <3>1. 1 \in 1 .. n
      BY <1>0, <2>2
    <3> QED
      BY <1>2, <3>1
  <2> QED
    BY <2>1, <2>2
<1>4. ASSUME NEW x \in S, x < End, Behind(x)
      PROVE  x \notin stops /\ NextHeader(mem, x) \in S
  <2>1. x \in Nat /\ x \in Offsets /\ x # 0
    BY <1>4, SizesAssumption DEF Offsets
  <2>2. \A i \in 1 .. n : x \notin Lies(8, es[i])
    <3> SUFFICES ASSUME NEW i \in 1 .. n, x \in Lies(8, es[i]) PROVE FALSE
      OBVIOUS
    <3>1. x \in es[i].offset .. es[i].offset + es[i].size - 0
      BY DEF Lies
    <3> DEFINE a == es[i].offset
               b == es[i].size
    <3>2. a \in Nat /\ b \in Nat /\ a + b < x /\ x \in a .. a + b - 0
      BY <1>1, <1>4, <3>1
    <3> HIDE DEF a, b
    <3> QED
      BY <2>1, <3>2
  <2>3. mem[x] = Erased
    BY <2>1, <2>2, FactoryCells
  <2>4. bytes_to_header(mem[x]).type # Flags
    BY <2>3, CellsRead, TypesAssumption
  <2> DEFINE y == NextHeader(mem, x)
  <2>5. y \in Nat /\ y > x
    BY <1>0, <1>4, <2>1, NextHeaderForward
  <2> HIDE DEF y
  <2>6. Behind(y)
    <3> SUFFICES ASSUME NEW i \in 1 .. n PROVE es[i].offset + es[i].size < y
      OBVIOUS
    <3> DEFINE a == es[i].offset + es[i].size
    <3>1. a \in Nat /\ a < x
      BY <1>1, <1>4
    <3> HIDE DEF a
    <3>2. a < y
      BY <2>1, <2>5, <3>1
    <3> QED
      BY <3>2 DEF a
  <2> HIDE DEF mem
  <2>7. y >= 1
    BY <2>1, <2>5
  <2> QED
    BY <2>4, <2>5, <2>6, <2>7 DEF y
<1>5. ASSUME NEW x \in S, x < End, NEW i \in 1 .. n, es[i].offset = x
      PROVE  x \notin stops /\ NextHeader(mem, x) \in S
  <2> DEFINE size == es[i].size
             e == es[i]
             y == x + 1 + size
  <2>1. x \in Nat /\ size \in Nat /\ size < Base /\ Base \in Nat
    BY <1>1, <1>5, SizesAssumption
  <2>2. size \div Base = 0 /\ size % Base = size
    <3> HIDE DEF size
    <3> QED
      BY <2>1, SmallQuotient
  <2>3. mem[x] = FactoryCell(8, e, x)
    <3>1. x \in Lies(8, es[i])
      <4>1. Lies(8, es[i]) = x .. x + size - 0
        BY <1>5 DEF Lies
      <4> HIDE DEF size
      <4> QED
        BY <2>1, <4>1
    <3> QED
      BY <3>1, FactoryCells
  <2>4. mem[x] = Header(e.type, 0, size)
    BY <1>5, <2>2, <2>3 DEF FactoryCell
  <2>5. bytes_to_header(mem[x]) = [type |-> e.type, padding |-> 0, data_size |-> size]
    BY <2>4 DEF bytes_to_header, Header, Cell
  <2>6. x \notin stops
    BY <1>1, <2>5
  <2>7. NextHeader(mem, x) = x + 1 + size + 0
    BY <2>5 DEF NextHeader
  <2> HIDE DEF mem
  <2>8. NextHeader(mem, x) = y /\ y \in Nat /\ y >= 1 /\ y = x + size + 1
    <3> HIDE DEF size
    <3> QED
      BY <2>1, <2>7
  <2>9. y = es[i].offset + es[i].size + 1
    BY <1>5, <2>8
  <2> HIDE DEF y
  <2>10. CASE i = n
    <3>1. Behind(y)
      <4> SUFFICES ASSUME NEW j \in 1 .. n PROVE es[j].offset + es[j].size < y
        OBVIOUS
      <4>1. j < i => es[j].offset + es[j].size < es[i].offset
        BY RawOrdered
      <4> DEFINE a == es[j].offset + es[j].size
                 b == es[i].offset
      <4>2. a \in Nat /\ b \in Nat /\ size \in Nat /\ y = b + size + 1
        <5>1. es[j].offset \in Nat /\ es[j].size \in Nat /\ es[i].offset \in Nat
          BY <1>1
        <5> HIDE DEF es
        <5> QED
          BY <2>1, <2>9, <5>1
      <4>3. a < b \/ a = b + size
        <5>1. j < i \/ j = i
          BY <1>0, <2>10
        <5> QED
          BY <4>1, <5>1
      <4> HIDE DEF a, b, size
      <4>4. a < y
        BY <4>2, <4>3
      <4> QED
        BY <4>4 DEF a
    <3> QED
      BY <2>6, <2>8, <3>1
  <2>11. CASE i # n
    <3>1. i + 1 \in 1 .. n /\ i + 1 # 1 /\ (i + 1) - 1 = i
      BY <1>0, <2>11
    <3>2. es[i + 1].offset = y
      BY <1>2, <2>9, <3>1
    <3> QED
      BY <2>6, <2>8, <3>1, <3>2
  <2> QED
    BY <2>10, <2>11
<1>6. Walk(mem, stops)[1] >= End
  <2>1. \A x \in S : x < End => x \notin stops /\ NextHeader(mem, x) \in S
    BY <1>4, <1>5
  <2>2. S \in SUBSET Nat
    OBVIOUS
  <2> HIDE DEF S, stops, mem
  <2> QED
    BY <1>0, <1>3, <2>1, <2>2, WalkThrough
<1> QED
  BY <1>6 DEF tlv_lookup

\* The entry k of the factory is read next.
Reads(k) ==
    LET es == factory.entries
    IN  /\ Entry.type = es[k].type /\ Entry.payload = PayloadOf(es[k].type, es[k].size)
        /\ ~Passed(pos, es[k]) /\ ~Misreading
        /\ Entry.next \in Nat /\ Entry.next > 0 /\ AtEntry(Entry.next)
        /\ \A i \in 1 .. Len(es) : Passed(Entry.next, es[i]) <=> Passed(pos, es[i]) \/ i = k

\* The raw layout at the start of an entry.
LEMMA RawEntryRead ==
    ASSUME factory \in Factory, Untouched, factory.version = 8, NEW k \in 1 .. Len(factory.entries),
           pos = factory.entries[k].offset
    PROVE  Reads(k)
<1> DEFINE es == factory.entries
           e == es[k]
           t == e.type
           size == e.size
           next == pos + 1 + size
<1>1. /\ t \in Types /\ size \in Nat /\ size >= 1 /\ pos \in Nat /\ pos >= 1 /\ pos + size < End
      /\ Len(es) \in Nat /\ size <= MaxElement /\ t # Empty
  BY EntryTyped
<1>2. \A o \in pos .. pos + size : flash[o] = IF o = pos THEN Header(t, size \div Base, size % Base)
                                                         ELSE Byte(t, o - pos)
  <2>1. Lies(8, e) = pos .. pos + size
    BY <1>1 DEF Lies
  <2>2. \A o \in Lies(8, e) : flash[o] = FactoryCell(8, e, o)
    BY FactoryCells DEF Untouched
  <2> SUFFICES ASSUME NEW o \in pos .. pos + size
               PROVE  flash[o] = IF o = pos THEN Header(t, size \div Base, size % Base)
                                            ELSE Byte(t, o - pos)
    OBVIOUS
  <2>3. flash[o] = FactoryCell(8, e, o)
    BY <2>1, <2>2
  <2>4. FactoryCell(8, e, o) = IF o = e.offset THEN Header(e.type, e.size \div Base, e.size % Base)
                                               ELSE Byte(e.type, o - e.offset)
    BY DEF FactoryCell
  <2> QED
    BY <2>3, <2>4, Zenon
<1>3. flash[0].a = 8
  BY FactoryRegion DEF Untouched
<1> DEFINE q == size \div Base
           m == size % Base
<1>4. q \in Nat /\ m \in Nat /\ q * Base + m = size
  BY <1>1, TwoBytes
<1>5. flash[pos] = Header(t, q, m)
  BY <1>1, <1>2
<1> HIDE DEF q, m
<1>6. \A i \in 1 .. size : pos + 1 + i - 1 < End /\ flash[pos + 1 + i - 1] = Byte(t, i)
  <2> SUFFICES ASSUME NEW i \in 1 .. size
               PROVE pos + 1 + i - 1 < End /\ flash[pos + 1 + i - 1] = Byte(t, i)
    OBVIOUS
  <2> HIDE DEF t, size
  <2> DEFINE p == pos
  <2>0. p \in Nat /\ size \in Nat /\ p + size < End /\ End \in Nat /\ i \in 1 .. size
    BY <1>1, SizesAssumption
  <2> HIDE DEF p
  <2>1. /\ p + 1 + i - 1 = p + i /\ p + i \in p .. p + size /\ p + i # p
        /\ p + i - p = i /\ p + i < End
    BY <2>0
  <2>2. flash[p + i] = Byte(t, (p + i) - p)
    BY <1>2, <2>1 DEF p
  <2>3. p + 1 + i - 1 < End /\ flash[p + 1 + i - 1] = Byte(t, i)
    BY <2>0, <2>1, <2>2
  <2> QED
    BY <2>3, Zenon DEF p
<1>n. t # Empty
  BY <1>1
<1> HIDE DEF t, size, e
<1>7. Read(pos + 1, size) = PayloadOf(t, size)
  BY <1>6 DEF Read, PayloadOf
<1>8. bytes_to_header(flash[pos]) = [type |-> t, padding |-> q, data_size |-> m]
  BY <1>5 DEF bytes_to_header, Header, Cell
<1>9. pos < End
  BY <1>1, SizesAssumption
<1>10. Entry = [type |-> t, payload |-> PayloadOf(t, size), next |-> next]
  <2>1. EntryRawTlv = [type |-> t, payload |-> Read(pos + 1, q * Base + m),
                       next |-> pos + 1 + (q * Base + m)]
    BY <1>8, <1>9, <1>n DEF EntryRawTlv
  <2> QED
    BY <1>3, <1>4, <1>7, <2>1 DEF Entry
<1>11. Entry.type = t /\ Entry.payload = PayloadOf(t, size) /\ Entry.next = next
  BY <1>10
<1>m. ~Misreading
  <2>1. Len(Entry.payload) = size
    BY <1>1, <1>11, PayloadTyped
  <2>2. flash[pos].kind # "byte"
    BY <1>5 DEF Header, Cell
  <2> HIDE DEF size
  <2> QED
    BY <1>1, <2>1, <2>2, SizesAssumption DEF Misreading
<1>12. next \in Nat /\ next > 0
  BY <1>1
<1>13. AtEntry(next)
  <2>0. next = pos + size + 1
    BY <1>1
  <2>1. next = es[k].offset + es[k].size + 1
    BY <2>0 DEF size, e
  <2> HIDE DEF next
  <2> QED
    BY <2>1 DEF AtEntry
<1>14. ~Passed(pos, es[k])
  BY <1>1 DEF Passed
<1>15. ASSUME NEW i \in 1 .. Len(es)
       PROVE  Passed(next, es[i]) <=> Passed(pos, es[i]) \/ i = k
  <2>1. es[i].offset \in Nat /\ es[i].size \in Nat
    BY EntryTyped
  <2>2. i < k => es[i].offset + es[i].size < pos
    BY RawOrdered
  <2>3. i > k => pos + size < es[i].offset
    BY RawOrdered DEF size, e
  <2>4. i = k => es[i].offset = pos
    OBVIOUS
  <2> DEFINE off == es[i].offset
             len == es[i].size
             p == pos
  <2>5. off < next <=> off < p \/ i = k
    <3>1. i < k \/ i = k \/ i > k
      BY <1>1
    <3>2. off \in Nat /\ len \in Nat /\ p \in Nat /\ size \in Nat /\ next = p + 1 + size
      BY <1>1, <2>1
    <3>3. (i < k => off + len < p) /\ (i > k => p + size < off) /\ (i = k => off = p)
      BY <2>2, <2>3, <2>4
    <3>4. i \in Nat /\ k \in Nat
      BY <1>1
    <3> HIDE DEF off, len, p, next
    <3> QED
      BY <3>1, <3>2, <3>3, <3>4
  <2> QED
    BY <2>5 DEF Passed
<1> HIDE DEF next
<1> QED
  BY <1>11, <1>12, <1>13, <1>14, <1>15, <1>m DEF Reads, t, size, e

\* The raw layout behind the last entry.
LEMMA RawEndRead ==
    ASSUME factory \in Factory, Untouched, factory.version = 8, pos \in Nat, pos > 0,
           \A i \in 1 .. Len(factory.entries) :
               factory.entries[i].offset + factory.entries[i].size < pos
    PROVE  /\ Entry.type = Empty /\ ~Misreading
           /\ \A i \in 1 .. Len(factory.entries) : Passed(pos, factory.entries[i])
<1> DEFINE es == factory.entries
<1>1. \A i \in 1 .. Len(es) : es[i].offset \in Nat /\ es[i].size \in Nat
  BY EntryTyped
<1>2. \A i \in 1 .. Len(es) : Passed(pos, es[i])
  BY <1>1 DEF Passed
<1>3. \A i \in 1 .. Len(es) : pos \notin Lies(8, es[i])
  BY <1>1 DEF Lies
<1>4. pos < End => flash[pos] = Erased
  <2> SUFFICES ASSUME pos < End PROVE flash[pos] = Erased
    OBVIOUS
  <2>1. pos \in Offsets /\ pos # 0
    BY SizesAssumption DEF Offsets
  <2> QED
    BY <1>3, <2>1, FactoryCells DEF Untouched
<1>5. flash[0].a = 8
  BY FactoryRegion DEF Untouched
<1>6. EntryRawTlv.type = Empty /\ EntryRawTlv.payload = Read(pos + 1, 0)
  BY <1>4, CellsRead DEF EntryRawTlv
<1>7. Len(Read(pos + 1, 0)) = 0
  BY DEF Read
<1>8. pos < End => flash[pos].kind # "byte"
  BY <1>4 DEF Erased, Cell
<1>9. ~Misreading
  BY <1>5, <1>6, <1>7, <1>8, SizesAssumption DEF Misreading, Entry
<1> QED
  BY <1>2, <1>5, <1>6, <1>9 DEF Entry

\* The rows of the table of version 7.
LEMMA RowTyped ==
    ASSUME NEW j \in 1 .. Len(Table)
    PROVE  /\ Len(Table) \in Nat /\ Table[j].type \in Types /\ Table[j].size \in Nat
           /\ Table[j].size >= 1 /\ Table[j].offset \in Nat /\ Table[j].offset >= 1
           /\ Table[j].offset + Table[j].size <= End /\ Table[j].size <= MaxElement
<1>1. Placed(7, Table)
  BY LayoutAssumption
<1> DEFINE S == [type : Types \ {Empty, Flags, "other"}, size : 1 .. MaxElement, offset : Nat \ {0}]
<1>2. Table \in Seq(S)
  BY <1>1 DEF Placed
<1>3. Len(Table) \in Nat /\ Table[j] \in S
  <2> HIDE DEF S
  <2> QED
    BY <1>2
<1>4. Table[j].offset + Table[j].size <= End - (IF 7 = 8 THEN 1 ELSE 0)
  BY <1>1 DEF Placed
<1>5. Table[j].offset + Table[j].size <= End
  BY <1>4, SizesAssumption
<1> QED
  BY <1>3, <1>5, SizesAssumption

\* A row is one of the factory's entries or still erased.
LEMMA RowCells ==
    ASSUME NEW f \in Factory, f.version = 7, NEW j \in 1 .. Len(Table), NEW c \in 1 .. Table[j].size
    PROVE  /\ Table[j].offset + c - 1 \in Offsets
           /\ (\E i \in 1 .. Len(f.entries) : f.entries[i] = Table[j]) =>
                 FactoryFlash(f)[Table[j].offset + c - 1] = Byte(Table[j].type, c)
           /\ ~(\E i \in 1 .. Len(f.entries) : f.entries[i] = Table[j]) =>
                 FactoryFlash(f)[Table[j].offset + c - 1] = Erased
<1> DEFINE r == Table[j]
           off == r.offset
           size == r.size
           o == off + c - 1
<1>1. off \in Nat /\ off >= 1 /\ size \in Nat /\ off + size <= End
  BY RowTyped
<1>2. Lies(7, r) = off .. off + size - 1
  BY <1>1 DEF Lies
<1> HIDE DEF off, size
<1>3. o \in off .. off + size - 1 /\ o \in 0 .. End - 1 /\ o # 0 /\ o - off + 1 = c
  <2>1. c \in 1 .. size
    BY DEF size
  <2> QED
    BY <1>1, <2>1, SizesAssumption
<1> HIDE DEF o
<1>4. o \in Lies(7, r) /\ o \in Offsets
  BY <1>2, <1>3 DEF Offsets
<1>5. ASSUME NEW i \in 1 .. Len(f.entries), f.entries[i] = r
      PROVE  FactoryFlash(f)[o] = Byte(r.type, c)
  <2>1. FactoryFlash(f)[o] = FactoryCell(7, r, o)
    BY <1>4, <1>5, FactoryCells
  <2> QED
    BY <1>3, <2>1 DEF FactoryCell, off
<1>6. ASSUME ~\E i \in 1 .. Len(f.entries) : f.entries[i] = r
      PROVE  FactoryFlash(f)[o] = Erased
  <2>1. ASSUME NEW i \in 1 .. Len(f.entries) PROVE o \notin Lies(7, f.entries[i])
    <3>1. PICK k \in 1 .. Len(Table) : f.entries[i] = Table[k]
      BY LayoutAssumption
    <3>2. k # j
      BY <1>6, <3>1
    <3>3. Lies(7, Table[k]) \cap Lies(7, Table[j]) = {}
      BY <3>2, LayoutAssumption DEF Placed
    <3> QED
      BY <1>4, <3>1, <3>3
  <2> QED
    BY <1>3, <1>4, <2>1, FactoryCells
<1> QED
  BY <1>4, <1>5, <1>6 DEF o, off

\* The table layout: the first row of the rest that is not erased.
LEMMA TableRead ==
    ASSUME factory \in Factory, Untouched, factory.version = 7, pos \in Nat, pos > 0
    PROVE  \/ /\ Entry.type = Empty /\ ~Misreading
              /\ \A i \in 1 .. Len(factory.entries) : Passed(pos, factory.entries[i])
           \/ \E k \in 1 .. Len(factory.entries) : Reads(k)
<1> DEFINE es == factory.entries
           IsEntry(j) == \E i \in 1 .. Len(es) : es[i] = Table[j]
           present == {j \in pos .. Len(Table) : \E c \in 1 .. Table[j].size :
                                                    flash[Table[j].offset + c - 1] # Erased}
<1>0. Len(Table) \in Nat
  <2>1. Table \in Seq([type : Types \ {Empty, Flags, "other"}, size : 1 .. MaxElement, offset : Nat \ {0}])
    BY LayoutAssumption DEF Placed
  <2> QED
    BY <2>1
<1>1. \A i \in 1 .. Len(es) : \E j \in 1 .. Len(Table) : es[i] = Table[j]
  BY LayoutAssumption
<1>a. flash[0].a = 7
  BY FactoryRegion DEF Untouched
<1>m. ~Misreading
  BY <1>a DEF Misreading
<1>2. Entry = EntryConstant
  BY <1>a DEF Entry
<1>3. \A j \in pos .. Len(Table) : j \in present <=> IsEntry(j)
  <2> SUFFICES ASSUME NEW j \in pos .. Len(Table) PROVE j \in present <=> IsEntry(j)
    OBVIOUS
  <2>1. j \in 1 .. Len(Table)
    BY <1>0
  <2>2. 1 \in 1 .. Table[j].size
    BY <2>1, RowTyped
  <2>3. \A t, c : Byte(t, c) # Erased
    BY DEF Byte, Erased, Cell
  <2>4. ASSUME IsEntry(j) PROVE j \in present
    <3>1. flash[Table[j].offset + 1 - 1] = Byte(Table[j].type, 1)
      BY <2>1, <2>2, <2>4, RowCells DEF Untouched
    <3> QED
      BY <2>2, <2>3, <3>1
  <2>5. ASSUME ~IsEntry(j) PROVE j \notin present
    <3>1. \A c \in 1 .. Table[j].size : flash[Table[j].offset + c - 1] = Erased
      BY <2>1, <2>5, RowCells DEF Untouched
    <3> QED
      BY <3>1
  <2> QED
    BY <2>4, <2>5
<1>4. EntryConstant =
          LET j == CHOOSE j \in present : \A k \in present : j <= k
          IN  IF present = {} THEN [type |-> Empty, payload |-> <<>>, next |-> pos]
              ELSE [type |-> Table[j].type, payload |-> Read(Table[j].offset, Table[j].size),
                    next |-> j + 1]
  BY DEF EntryConstant
<1>5. present \in SUBSET Nat /\ present \subseteq pos .. Len(Table)
  BY <1>0
<1> HIDE DEF present
<1>6. CASE present = {}
  <2>1. Entry.type = Empty
    BY <1>2, <1>4, <1>6
  <2>2. ASSUME NEW i \in 1 .. Len(es) PROVE Passed(pos, es[i])
    <3>1. PICK j \in 1 .. Len(Table) : es[i] = Table[j]
      BY <1>1
    <3>2. IsEntry(j)
      BY <3>1
    <3>3. j < pos
      <4> HIDE DEF IsEntry
      <4> QED
        BY <1>0, <1>3, <1>6, <3>2
    <3> QED
      BY <3>1, <3>3 DEF Passed
  <2> QED
    BY <1>m, <2>1, <2>2
<1>7. CASE present # {}
  <2> DEFINE j == CHOOSE j \in present : \A k \in present : j <= k
             t == Table[j].type
             size == Table[j].size
  <2>1. \E x \in present : \A y \in present : x <= y
    BY <1>5, <1>7, LeastNatural
  <2>2. j \in present /\ \A y \in present : j <= y
    BY <2>1
  <2> HIDE DEF j
  <2>3. j \in pos .. Len(Table) /\ j \in Nat /\ j \in 1 .. Len(Table) /\ j >= pos
    BY <1>0, <1>5, <2>2
  <2>4. PICK k \in 1 .. Len(es) : es[k] = Table[j]
    BY <1>3, <2>2, <2>3
  <2>5. Entry = [type |-> t, payload |-> Read(Table[j].offset, size), next |-> j + 1]
    BY <1>2, <1>4, <1>7 DEF j
  <2>6. Read(Table[j].offset, size) = PayloadOf(t, size)
    <3>1. \A c \in 1 .. size : /\ Table[j].offset + c - 1 < End
                               /\ flash[Table[j].offset + c - 1] = Byte(t, c)
      <4> SUFFICES ASSUME NEW c \in 1 .. size
                   PROVE  /\ Table[j].offset + c - 1 < End
                          /\ flash[Table[j].offset + c - 1] = Byte(t, c)
        OBVIOUS
      <4>1. Table[j].offset + c - 1 \in Offsets /\ flash[Table[j].offset + c - 1] = Byte(t, c)
        BY <2>3, <2>4, RowCells DEF Untouched
      <4> QED
        BY <4>1, SizesAssumption DEF Offsets
    <3> QED
      BY <3>1 DEF Read, PayloadOf
  <2>7. /\ Entry.type = es[k].type /\ Entry.payload = PayloadOf(es[k].type, es[k].size)
        /\ Entry.next = j + 1
    BY <2>4, <2>5, <2>6
  <2>8. AtEntry(j + 1)
    BY DEF AtEntry
  <2>9. \A x \in 1 .. Len(Table) : Table[x] = Table[j] => x = j
    BY <2>3, LayoutAssumption DEF Placed
  <2>10. ~Passed(pos, es[k])
    BY <2>3, <2>4, <2>9 DEF Passed
  <2>11. ASSUME NEW i \in 1 .. Len(es)
         PROVE  Passed(j + 1, es[i]) <=> Passed(pos, es[i]) \/ i = k
    <3>1. PICK x \in 1 .. Len(Table) : es[i] = Table[x]
      BY <1>1
    <3>2. \A y \in 1 .. Len(Table) : Table[y] = Table[x] => y = x
      BY LayoutAssumption DEF Placed
    <3>3. \A p : Passed(p, es[i]) <=> x < p
      BY <3>1, <3>2 DEF Passed
    <3>4. x >= pos => x \in present
      <4>1. IsEntry(x)
        BY <3>1
      <4> HIDE DEF IsEntry
      <4> QED
        BY <1>0, <1>3, <4>1
    <3>5. x = j <=> i = k
      <4>1. i = k => x = j
        BY <2>4, <2>9, <3>1
      <4>2. x = j => es[i] = es[k]
        BY <2>4, <3>1
      <4>3. es[i] = es[k] => i = k
        BY EntriesApart
      <4> QED
        BY <4>1, <4>2, <4>3
    <3>6. x < j + 1 <=> x < pos \/ x = j
      BY <1>0, <2>2, <2>3, <3>4
    <3> QED
      BY <3>3, <3>5, <3>6
  <2>12. j + 1 \in Nat /\ j + 1 > 0
    BY <2>3
  <2>13. Reads(k)
    BY <1>m, <2>7, <2>8, <2>10, <2>11, <2>12 DEF Reads
  <2> QED
    BY <2>13
<1> QED
  BY <1>6, <1>7

\* The parser reads the next entry that it is not past, or the end once it is past all.
LEMMA ParserReads ==
    ASSUME factory \in Factory, Untouched, pos \in Nat, pos > 0, AtEntry(pos)
    PROVE  \/ /\ Entry.type = Empty /\ ~Misreading
              /\ \A i \in 1 .. Len(factory.entries) : Passed(pos, factory.entries[i])
           \/ \E k \in 1 .. Len(factory.entries) : Reads(k)
<1> DEFINE es == factory.entries
           n == Len(es)
<1>1. factory.version \in {7, 8}
  BY LayoutAssumption
<1>2. CASE factory.version = 7
  BY <1>2, TableRead
<1>3. CASE factory.version = 8
  <2>0. n \in Nat
    BY LayoutAssumption DEF Placed
  <2>1. \A i \in 1 .. n : es[i].offset = IF i = 1 THEN 1 ELSE es[i - 1].offset + es[i - 1].size + 1
    BY <1>3, LayoutAssumption
  <2>2. CASE \E k \in 1 .. n : pos = es[k].offset
    BY <1>3, <2>2, RawEntryRead
  <2>3. CASE ~\E k \in 1 .. n : pos = es[k].offset
    <3>1. \A i \in 1 .. n : es[i].offset + es[i].size < pos
      <4>1. CASE pos = 1
        <5>1. n = 0
          BY <2>0, <2>1, <2>3, <4>1
        <5> QED
          BY <5>1
      <4>2. CASE pos # 1
        <5>1. PICK i \in 1 .. n : pos = es[i].offset + es[i].size + 1
          BY <1>3, <4>2 DEF AtEntry
        <5>2. i = n
          <6>1. ASSUME i # n PROVE FALSE
            <7>1. i + 1 \in 1 .. n /\ i + 1 # 1 /\ (i + 1) - 1 = i
              BY <2>0, <6>1
            <7>2. es[i + 1].offset = es[i].offset + es[i].size + 1
              BY <2>1, <7>1
            <7> QED
              BY <2>3, <5>1, <7>1, <7>2
          <6> QED
            BY <6>1
        <5>3. ASSUME NEW x \in 1 .. n PROVE es[x].offset + es[x].size < pos
          <6>1. /\ es[x].offset \in Nat /\ es[x].size \in Nat
                /\ es[n].offset \in Nat /\ es[n].size \in Nat
            BY <5>2, EntryTyped
          <6>2. x = n \/ x < n
            BY <2>0
          <6>3. x < n => es[x].offset + es[x].size < es[n].offset
            BY <1>3, <5>2, RawOrdered
          <6> DEFINE a == es[x].offset + es[x].size
                     b == es[n].offset
                     c == es[n].size
                     p == pos
          <6>4. a \in Nat /\ b \in Nat /\ c \in Nat /\ p = b + c + 1
            <7>1. p = b + c + 1
              BY <5>1, <5>2
            <7>2. b \in Nat /\ c \in Nat
              BY <6>1
            <7> HIDE DEF b, c, p, es
            <7>3. a \in Nat
              BY <6>1
            <7> QED
              BY <7>1, <7>2, <7>3
          <6>5. a = b + c \/ a < b
            BY <6>2, <6>3
          <6> HIDE DEF a, b, c, p
          <6>6. a < p
            BY <6>4, <6>5
          <6> QED
            BY <6>6 DEF a, p
        <5> QED
          BY <5>3
      <4> QED
        BY <4>1, <4>2
    <3> QED
      BY <1>3, <3>1, RawEndRead
  <2> QED
    BY <2>2, <2>3
<1> QED
  BY <1>1, <1>2, <1>3

-----------------------------------------------------------------------------
(***************************************************************************)
(* The steps. First the facts that all of them use.                        *)
(***************************************************************************)

\* The regions of a state, and the limit of what is held.
LEMMA StateTyped ==
    ASSUME Sound
    PROVE  /\ flash \in Regions /\ ram \in Regions /\ factory \in Factory /\ psa \subseteq Keys
           /\ pos \in Nat /\ Limit \in Nat /\ Limit <= End
<1>1. TypeOK /\ (writing # Empty => pos \in 2 .. End - 1)
  BY DEF Sound
<1>2. flash \in Regions /\ ram \in Regions /\ factory \in Factory /\ psa \subseteq Keys /\ pos \in Nat
  BY <1>1 DEF TypeOK, Regions
<1>3. Limit \in Nat /\ Limit <= End
  BY <1>1, <1>2, SizesAssumption DEF Limit
<1> QED
  BY <1>2, <1>3

\* What is read is a sequence of cells, behind the region too.
LEMMA ReadTyped ==
    ASSUME flash \in Regions, NEW o \in Nat, NEW size \in Nat
    PROVE  /\ Read(o, size) \in Seq(Cells) /\ Len(Read(o, size)) = size
           /\ \A i \in 1 .. size : \/ Read(o, size)[i] = Byte("other", 1)
                                  \/ \E x \in Offsets : Read(o, size)[i] = flash[x]
<1> DEFINE r == Read(o, size)
<1>1. r = [i \in 1 .. size |-> IF o + i - 1 < End THEN flash[o + i - 1] ELSE Byte("other", 1)]
  BY DEF Read
<1> HIDE DEF r
<1>2. \A i \in 1 .. size : r[i] = Byte("other", 1) \/ \E x \in Offsets : r[i] = flash[x]
  <2> SUFFICES ASSUME NEW i \in 1 .. size
               PROVE  r[i] = Byte("other", 1) \/ \E x \in Offsets : r[i] = flash[x]
    OBVIOUS
  <2>1. o + i - 1 < End => o + i - 1 \in Offsets
    BY SizesAssumption DEF Offsets
  <2>2. r[i] = IF o + i - 1 < End THEN flash[o + i - 1] ELSE Byte("other", 1)
    BY <1>1
  <2> QED
    BY <2>1, <2>2
<1>3. Byte("other", 1) \in Cells
  <2>1. 1 \in 1 .. MaxElement /\ "other" \in Types
    BY SizesAssumption, TypesAssumption
  <2> QED
    BY <2>1, CellsTyped
<1>4. \A i \in 1 .. size : r[i] \in Cells
  BY <1>2, <1>3 DEF Regions
<1>5. r \in Seq(Cells) /\ Len(r) = size
  BY <1>1, <1>4
<1> QED
  BY <1>2, <1>5 DEF r

\* The raw parser reads an entry of some type.
LEMMA RawTyped ==
    ASSUME flash \in Regions, pos \in Nat
    PROVE  /\ EntryRawTlv.type \in Types /\ EntryRawTlv.next \in Nat /\ EntryRawTlv.next > 0
           /\ EntryRawTlv.payload \in Seq(Cells)
           /\ \A i \in 1 .. Len(EntryRawTlv.payload) :
                 \/ EntryRawTlv.payload[i] = Byte("other", 1)
                 \/ \E x \in Offsets : EntryRawTlv.payload[i] = flash[x]
<1> DEFINE c == IF pos < End THEN flash[pos] ELSE Erased
           h == bytes_to_header(c)
           size == IF h.type = Empty THEN 0 ELSE h.padding * Base + h.data_size
<1>1. c \in Cells
  BY CellsTyped, SizesAssumption DEF Regions, Offsets
<1>2. h.type \in Types /\ h.padding \in Nat /\ h.data_size \in Nat
  BY <1>1, HeaderTyped
<1>3. size \in Nat
  <2> DEFINE a == h.padding
             b == h.data_size
  <2>1. a \in Nat /\ b \in Nat /\ Base \in Nat
    BY <1>2, SizesAssumption
  <2> HIDE DEF a, b
  <2>2. a * Base + b \in Nat
    BY <2>1
  <2> QED
    BY <2>2 DEF a, b
<1>4. EntryRawTlv = [type |-> h.type, payload |-> Read(pos + 1, size), next |-> pos + 1 + size]
  BY DEF EntryRawTlv
<1> HIDE DEF size, h
<1>5. pos + 1 \in Nat /\ pos + 1 + size \in Nat /\ pos + 1 + size > 0
  BY <1>3
<1>6. /\ EntryRawTlv.type = h.type /\ EntryRawTlv.payload = Read(pos + 1, size)
      /\ EntryRawTlv.next = pos + 1 + size
  BY <1>4
<1> QED
  BY <1>2, <1>3, <1>5, <1>6, ReadTyped

\* So does the other one.
LEMMA EntryReads ==
    ASSUME flash \in Regions, pos \in Nat, pos > 0
    PROVE  /\ Entry.type \in Types /\ Entry.payload \in Seq(Cells)
           /\ Entry.next \in Nat /\ Entry.next > 0
<1>1. CASE flash[0].a = 8
  BY <1>1, RawTyped DEF Entry
<1>2. CASE flash[0].a # 8
  <2> DEFINE present == {j \in pos .. Len(Table) : \E c \in 1 .. Table[j].size :
                                                      flash[Table[j].offset + c - 1] # Erased}
             j == CHOOSE j \in present : \A k \in present : j <= k
  <2>0. Len(Table) \in Nat
    <3>1. Table \in Seq([type : Types \ {Empty, Flags, "other"}, size : 1 .. MaxElement,
                         offset : Nat \ {0}])
      BY LayoutAssumption DEF Placed
    <3> QED
      BY <3>1
  <2>1. Entry = IF present = {} THEN [type |-> Empty, payload |-> <<>>, next |-> pos]
                ELSE [type |-> Table[j].type, payload |-> Read(Table[j].offset, Table[j].size),
                      next |-> j + 1]
    BY <1>2 DEF Entry, EntryConstant
  <2>2. present \in SUBSET Nat /\ present \subseteq pos .. Len(Table)
    BY <2>0
  <2> HIDE DEF present
  <2>3. CASE present = {}
    <3>1. <<>> \in Seq(Cells)
      OBVIOUS
    <3> QED
      BY <2>1, <2>3, <3>1, TypesAssumption
  <2>4. CASE present # {}
    <3>1. \E x \in present : \A y \in present : x <= y
      BY <2>2, <2>4, LeastNatural
    <3>2. j \in present
      BY <3>1
    <3> HIDE DEF j
    <3>3. j \in 1 .. Len(Table) /\ j + 1 \in Nat /\ j + 1 > 0
      BY <2>0, <2>2, <3>2
    <3>4. Table[j].type \in Types /\ Table[j].size \in Nat /\ Table[j].offset \in Nat
      BY <3>3, RowTyped
    <3>5. Read(Table[j].offset, Table[j].size) \in Seq(Cells)
      BY <3>4, ReadTyped
    <3>6. /\ Entry.type = Table[j].type /\ Entry.next = j + 1
          /\ Entry.payload = Read(Table[j].offset, Table[j].size)
      BY <2>1, <2>4
    <3> QED
      BY <3>3, <3>4, <3>5, <3>6
  <2> QED
    BY <2>3, <2>4
<1> QED
  BY <1>1, <1>2

\* The region of RAM that a conversion starts with.
LEMMA BlankRegion ==
    /\ Blank \in Regions
    /\ Put(Blank, 0, <<Marker(8)>>) \in Regions
    /\ Put(Blank, 0, <<Marker(8)>>)[0] = Marker(8)
    /\ \A o \in Offsets : o # 0 => Put(Blank, 0, <<Marker(8)>>)[o] = Erased
<1> DEFINE cells == <<Marker(8)>>
           n == 0
           new == Put(Blank, n, cells)
<1>0. n = 0 /\ n \in Nat
  OBVIOUS
<1>1. Blank \in Regions /\ \A o \in Offsets : Blank[o] = Erased
  BY CellsTyped DEF Blank, Regions
<1>2. cells \in Seq(Cells) /\ Len(cells) = 1 /\ cells[1] = Marker(8)
  BY CellsTyped
<1> HIDE DEF cells, n
<1>3. /\ new \in Regions
      /\ \A i \in 1 .. Len(cells) : n + i - 1 < End => new[n + i - 1] = cells[i]
  BY <1>0, <1>1, <1>2, PutCells
<1>4. new[0] = Marker(8)
  <2>1. 1 \in 1 .. Len(cells) /\ n + 1 - 1 = 0 /\ n + 1 - 1 < End
    BY <1>0, <1>2, SizesAssumption
  <2> HIDE DEF new
  <2> QED
    BY <1>2, <1>3, <2>1
<1>5. ASSUME NEW o \in Offsets, o # 0 PROVE new[o] = Erased
  <2>1. new[o] = IF o - n \in 0 .. Len(cells) - 1 THEN cells[o - n + 1] ELSE Blank[o]
    BY DEF Put
  <2>2. o - n \notin 0 .. Len(cells) - 1
    BY <1>0, <1>2, <1>5, SizesAssumption DEF Offsets
  <2> HIDE DEF new
  <2> QED
    BY <1>1, <2>1, <2>2
<1> QED
  BY <1>1, <1>3, <1>4, <1>5 DEF new, cells, n

\* The types are kept, whatever is read.
LEMMA SoundStep ==
    ASSUME Sound, [Next]_vars
    PROVE  Sound'
<1>0. /\ TypeOK /\ flash \in Regions /\ ram \in Regions /\ factory \in Factory /\ psa \subseteq Keys
      /\ pos \in Nat
  BY StateTyped DEF Sound
<1>e. pc \in {"parse", "import"} => /\ Entry.type \in Types /\ Entry.payload \in Seq(Cells)
                                   /\ Entry.next \in Nat /\ Entry.next > 0
  BY <1>0, EntryReads DEF Sound
<1>w. pc # "ready" => writing = Empty
  BY DEF Sound
<1>1. CASE InitHeader
  <2>1. pc' \in {"stopped", "begin", "ready"}
    BY <1>1 DEF InitHeader, Goes, AfterFlags
  <2>2. pc = "off" /\ UNCHANGED <<factory, flash, psa, pos, ram, writing, converted, torn, wiped>>
    BY <1>1 DEF InitHeader, Goes
  <2>3. misread' \in BOOLEAN
    BY <1>0, <1>1 DEF InitHeader, TypeOK
  <2>4. TypeOK'
    BY <1>0, <2>1, <2>2, <2>3 DEF TypeOK
  <2> QED
    BY <1>w, <2>1, <2>2, <2>4 DEF Sound
<1>2. CASE ParseBegin
  <2>1. /\ pc = "begin"
        /\ UNCHANGED <<factory, flash, psa, writing, converted, torn, wiped, misread>>
        /\ \/ pc' = "stopped" /\ UNCHANGED <<ram, pos>>
           \/ pc' = "parse" /\ ram' = Put(Blank, 0, <<Marker(8)>>) /\ pos' = 1
    BY <1>2 DEF ParseBegin, Goes
  <2>2. ram' \in Regions /\ pos' \in Nat /\ (pc' = "parse" => pos' > 0)
    BY <1>0, <2>1, BlankRegion
  <2>3. TypeOK'
    BY <1>0, <2>1, <2>2 DEF TypeOK, Regions
  <2> QED
    BY <1>w, <2>1, <2>2, <2>3 DEF Sound
<1>3. CASE ParseValue
  <2>1. /\ pc = "parse" /\ UNCHANGED <<factory, flash, psa, writing, converted, torn, wiped>>
        /\ \/ pc' = "stopped" /\ UNCHANGED <<ram, pos>>
           \/ /\ pc' = "parse" /\ pos' = Entry.next
              /\ ram' = tlv_write(ram, Entry.type, Entry.payload)
    BY <1>3 DEF ParseValue, Parses, Goes
  <2>2. ram' \in Regions /\ pos' \in Nat /\ (pc' = "parse" => pos' > 0)
    BY <1>0, <1>e, <2>1, WriteCells
  <2>3. misread' \in BOOLEAN
    BY <1>0, <1>3 DEF ParseValue, Parses, TypeOK
  <2>4. TypeOK'
    BY <1>0, <2>1, <2>2, <2>3 DEF TypeOK, Regions
  <2> QED
    BY <1>w, <2>1, <2>2, <2>4 DEF Sound
<1>4. CASE ParseKey
  <2>1. /\ pc = "parse" /\ UNCHANGED <<factory, flash, pos, ram, writing, converted, torn, wiped>>
        /\ Entry.type \in Keys /\ pc' \in {"stopped", "import"} /\ psa' \subseteq psa
    BY <1>4 DEF ParseKey, Parses, Goes
  <2>2. Entry' = Entry
    BY <2>1 DEF Entry, EntryRawTlv, EntryConstant, Read
  <2>3. misread' \in BOOLEAN
    BY <1>0, <1>4 DEF ParseKey, Parses, TypeOK
  <2>4. TypeOK'
    BY <1>0, <2>1, <2>3 DEF TypeOK
  <2> QED
    BY <1>w, <2>1, <2>2, <2>4 DEF Sound
<1>5. CASE Overrun
  <2>1. /\ pc = "parse" /\ UNCHANGED <<factory, flash, psa, pos, ram, writing, converted, torn, wiped>>
        /\ pc' = "stopped"
    BY <1>5 DEF Overrun, Parses, Goes
  <2>3. misread' \in BOOLEAN
    BY <1>0, <1>5 DEF Overrun, Parses, TypeOK
  <2>4. TypeOK'
    BY <1>0, <2>1, <2>3 DEF TypeOK
  <2> QED
    BY <1>w, <2>1, <2>4 DEF Sound
<1>6. CASE sid_crypto_keys_new_import
  <2>1. /\ pc = "import" /\ UNCHANGED <<factory, flash, ram, writing, converted, torn, wiped, misread>>
        /\ \/ pc' = "stopped" /\ UNCHANGED <<pos, psa>>
           \/ /\ pc' = "parse" /\ pos' = Entry.next
              /\ psa' = psa \cup {Entry.type} \/ psa' = psa
    BY <1>6 DEF sid_crypto_keys_new_import, ImportFailed, Goes
  <2>2. pos' \in Nat /\ (pc' = "parse" => pos' > 0) /\ psa' \subseteq Keys
    BY <1>0, <1>e, <2>1 DEF Sound
  <2>3. TypeOK'
    BY <1>0, <2>1, <2>2 DEF TypeOK
  <2> QED
    BY <1>w, <2>1, <2>2, <2>3 DEF Sound
<1>7. CASE ParseFlags
  <2>1. /\ pc = "parse" /\ UNCHANGED <<factory, flash, psa, pos, writing, converted, torn, wiped>>
        /\ \/ pc' = "stopped" /\ UNCHANGED ram
           \/ pc' = "erase" /\ ram' = WithFlags(ram)
    BY <1>7 DEF ParseFlags, Parses, Goes
  <2>2. ram' \in Regions
    <3>1. PayloadOf(Flags, Align) \in Seq(Cells) /\ Flags \in Types
      BY PayloadTyped, SizesAssumption, TypesAssumption
    <3> QED
      BY <1>0, <2>1, <3>1, WriteCells DEF WithFlags
  <2>3. misread' \in BOOLEAN
    BY <1>0, <1>7 DEF ParseFlags, Parses, TypeOK
  <2>4. TypeOK'
    BY <1>0, <2>1, <2>2, <2>3 DEF TypeOK, Regions
  <2> QED
    BY <1>w, <2>1, <2>4 DEF Sound
<1>8. CASE EraseFlash
  <2>1. /\ pc = "erase" /\ UNCHANGED <<factory, psa, ram, writing, converted, torn, wiped, misread>>
        /\ \/ pc' = "stopped" /\ UNCHANGED <<flash, pos>>
           \/ pc' = "write" /\ flash' = Blank /\ pos' = 0
    BY <1>8 DEF EraseFlash, Goes
  <2>2. flash' \in Regions /\ pos' \in Nat /\ (pc' = "write" => pos' \in Offsets)
    BY <1>0, <2>1, BlankRegion, SizesAssumption DEF Offsets
  <2>3. TypeOK'
    BY <1>0, <2>1, <2>2 DEF TypeOK, Regions
  <2> QED
    BY <1>w, <2>1, <2>2, <2>3 DEF Sound
<1>9. CASE WriteFlash
  <2>1. /\ pc = "write" /\ UNCHANGED <<factory, psa, ram, writing, wiped, misread>>
        /\ \/ pc' = "stopped" /\ UNCHANGED <<flash, pos>>
           \/ /\ flash' = [flash EXCEPT ![pos] = ram[pos]] /\ pos' = pos + 1
              /\ pc' = IF pos = End - 1 THEN "ready" ELSE "write"
    BY <1>9 DEF WriteFlash, Goes
  <2>2. pos \in Offsets
    BY <2>1 DEF Sound
  <2>3. flash' \in Regions /\ pos' \in Nat /\ (pc' = "write" => pos' \in Offsets)
    <3>1. flash' \in Regions
      BY <1>0, <2>1, <2>2 DEF Regions
    <3>2. pos' \in Nat /\ (pc' = "write" => pos' \in Offsets)
      BY <1>0, <2>1, <2>2, SizesAssumption DEF Offsets
    <3> QED
      BY <3>1, <3>2
  <2>4. converted' \in BOOLEAN /\ torn' \in BOOLEAN
    BY <1>0, <1>9 DEF WriteFlash, TypeOK
  <2>5. pc' \in {"stopped", "ready", "write"}
    BY <2>1
  <2>6. TypeOK'
    BY <1>0, <2>1, <2>3, <2>4, <2>5 DEF TypeOK, Regions
  <2> QED
    BY <1>w, <2>1, <2>3, <2>5, <2>6 DEF Sound
<1>10. CASE Reset
  <2>1. /\ pc' = "off" /\ pos' = 0 /\ ram' = Blank /\ writing' = Empty
        /\ UNCHANGED <<factory, flash, psa, converted, wiped, misread>>
    BY <1>10 DEF Reset
  <2>2. torn' \in BOOLEAN
    BY <1>0, <1>10 DEF Reset, TypeOK
  <2>3. TypeOK'
    BY <1>0, <2>1, <2>2, BlankRegion DEF TypeOK, Regions
  <2> QED
    BY <2>1, <2>3 DEF Sound
<1>11. CASE \E type \in NewTypes : WriteHeader(type)
  <2>0. PICK type \in NewTypes : WriteHeader(type)
    BY <1>11
  <2> DEFINE n == get_next_free_offset(flash)
             cells == <<tlv_header(type, 1)>>
  <2>1. /\ pc = "ready" /\ Fits(flash, 1) /\ flash' = Put(flash, n, cells) /\ pos' = n + 1
        /\ writing' = type /\ UNCHANGED <<factory, psa, pc, ram, converted, torn, wiped, misread>>
    BY <2>0 DEF WriteHeader, history
  <2>2. n \in Nat /\ n >= 1 /\ CALCULATE_PADDING(1) \in Nat /\ n + 1 + 1 + CALCULATE_PADDING(1) <= End
    BY <1>0, <2>1, FreeOffset, PaddingTyped, SizesAssumption DEF Fits
  <2>3. cells \in Seq(Cells)
    BY CellsTyped, TypesAssumption
  <2> HIDE DEF n, cells
  <2>4. flash' \in Regions
    BY <1>0, <2>1, <2>2, <2>3, PutCells
  <2>5. pos' \in Nat /\ pos' \in 2 .. End - 1
    BY <2>1, <2>2, SizesAssumption
  <2>6. TypeOK'
    BY <1>0, <2>1, <2>4, <2>5 DEF TypeOK, Regions
  <2> QED
    BY <2>1, <2>5, <2>6 DEF Sound
<1>12. CASE WriteData
  <2>1. /\ pc = "ready" /\ writing # Empty /\ writing' = Empty
        /\ flash' = [flash EXCEPT ![pos] = Cell("byte", writing, 1, 1)]
        /\ UNCHANGED <<factory, psa, pc, pos, ram, converted, torn, wiped, misread>>
    BY <1>12 DEF WriteData, history
  <2>2. Cell("byte", writing, 1, 1) \in Cells
    <3>1. writing \in Types /\ 1 \in 1 .. MaxElement
      BY <1>0, <2>1, TypesAssumption, SizesAssumption DEF TypeOK
    <3> QED
      BY <3>1 DEF Cell, Cells
  <2>3. flash' \in Regions
    BY <1>0, <2>1, <2>2 DEF Regions
  <2>4. TypeOK'
    BY <1>0, <2>1, <2>3 DEF TypeOK, Regions
  <2> QED
    BY <2>1, <2>4 DEF Sound
<1>13. CASE sid_pal_mfg_store_erase
  <2>1. /\ pc = "ready" /\ writing = Empty /\ flash' = Blank /\ wiped' = TRUE
        /\ UNCHANGED <<factory, psa, pc, pos, ram, writing, converted, torn, misread>>
    BY <1>13 DEF sid_pal_mfg_store_erase
  <2>2. TypeOK'
    BY <1>0, <2>1, BlankRegion DEF TypeOK, Regions
  <2> QED
    BY <2>1, <2>2 DEF Sound
<1>14. CASE UNCHANGED vars
  <2>1. UNCHANGED <<factory, flash, psa, pc, pos, ram, writing, converted, torn, wiped, misread>>
    BY <1>14 DEF vars, history
  <2>2. Entry' = Entry
    BY <2>1 DEF Entry, EntryRawTlv, EntryConstant, Read
  <2>3. TypeOK'
    BY <1>0, <2>1 DEF TypeOK
  <2> QED
    BY <2>1, <2>2, <2>3 DEF Sound
<1> QED
  BY <1>1, <1>2, <1>3, <1>4, <1>5, <1>6, <1>7, <1>8, <1>9, <1>10, <1>11, <1>12, <1>13, <1>14 DEF Next

\* What the factory wrote is not held as flags, and a boot finds none in it.
LEMMA UntouchedNoFlags ==
    ASSUME factory \in Factory, Untouched, NEW limit \in Nat, limit <= End
    PROVE  /\ ~FlagsHeld(flash, limit) /\ (flash[0].a = 8 => FlagsAt = 0)
           /\ flash[0].kind = "marker" /\ flash[0].a = factory.version
<1>1. ~FlagsHeld(flash, limit)
  BY FactoryNoFlags DEF Untouched
<1>2. flash[0].kind = "marker" /\ flash[0].a = factory.version
  BY FactoryRegion DEF Untouched
<1>3. flash[0].a = 8 => FlagsAt = 0
  BY <1>2, RawNoFlags DEF Untouched, FlagsAt
<1> QED
  BY <1>1, <1>2, <1>3

\* What a boot finds: nothing, the flags that are held, or payload in a plain region.
LEMMA BootFinds ==
    ASSUME flash \in Regions, NEW limit \in Nat, limit <= End
    PROVE  /\ FlagsAt = 0 => AfterFlags = {"begin"}
           /\ FlagsHeld(flash, limit) => /\ AfterFlags = {"ready"}
                                         /\ FlagsAt # 0 /\ flash[FlagsAt - 1].kind = "header"
           /\ Plain(flash) /\ FlagsAt # 0 => flash[FlagsAt - 1].kind = "byte"
<1>1. ASSUME FlagsAt = 0 PROVE AfterFlags = {"begin"}
  <2>1. FlagsRead = <<>>
    BY <1>1 DEF FlagsRead, tlv_read, FlagsAt
  <2> QED
    BY <1>1, <2>1 DEF AfterFlags, FlagsShort
<1>2. ASSUME FlagsHeld(flash, limit)
      PROVE  AfterFlags = {"ready"} /\ FlagsAt # 0 /\ flash[FlagsAt - 1].kind = "header"
  <2>1. /\ FlagsAt # 0 /\ flash[FlagsAt - 1].kind = "header" /\ FlagsRead # <<>>
        /\ \A i \in 1 .. Align : FlagsRead[i] \in {Erased, Byte(Flags, i)}
    BY <1>2, HeldFlagsFound DEF FlagsAt, FlagsRead
  <2> QED
    BY <2>1 DEF AfterFlags
<1>3. ASSUME Plain(flash), FlagsAt # 0 PROVE flash[FlagsAt - 1].kind = "byte"
  <2>1. FlagsAt - 1 \in Offsets /\ bytes_to_header(flash[FlagsAt - 1]).type = Flags
    BY <1>3, LookupFound DEF FlagsAt
  <2>2. PlainCell(flash[FlagsAt - 1])
    BY <1>3, <2>1 DEF Plain
  <2> QED
    BY <2>1, <2>2 DEF PlainCell, bytes_to_header
<1> QED
  BY <1>1, <1>2, <1>3

\* The region is settled as long as it and what it is judged by stay.
LEMMA SettledKept ==
    ASSUME Settled, UNCHANGED <<factory, flash, psa, torn, wiped, writing>>,
           writing = Empty \/ pos' = pos
    PROVE  Settled'
<1>1. Limit' = Limit
  BY DEF Limit
<1> QED
  BY <1>1 DEF Settled, Untouched, KeysIn, FactoryTypes, Complete, Plain

\* The initial states.
LEMMA InitIInv ==
    ASSUME Init
    PROVE  IInv
<1>1. factory \in Factory /\ flash = FactoryFlash(factory) /\ writing = Empty
  BY DEF Init
<1>2. flash \in [Offsets -> Cells]
  BY <1>1, FactoryRegion DEF Regions
<1>3. ram \in [Offsets -> Cells]
  BY CellsTyped DEF Init, Blank
<1>4. TypeOK
  BY <1>1, <1>2, <1>3 DEF Init, TypeOK
<1>5. Settled
  BY <1>1 DEF Settled, Untouched
<1>6. pc = "off" /\ ~misread /\ ~converted /\ ~wiped
  BY DEF Init
<1>7. Sound
  BY <1>1, <1>4, <1>6 DEF Sound
<1>8. InOrder
  BY <1>5, <1>6 DEF InOrder
<1> QED
  BY <1>6, <1>7, <1>8 DEF IInv

\* A boot looks at the marker and the flags.
LEMMA InitHeaderStep ==
    ASSUME Sound, InOrder, InitHeader, ~misread'
    PROVE  InOrder'
<1>0. /\ flash \in Regions /\ factory \in Factory /\ Limit \in Nat /\ Limit <= End
  BY StateTyped
<1>1. /\ pc = "off" /\ writing = Empty /\ Settled
      /\ UNCHANGED <<factory, flash, psa, pos, ram, writing, converted, torn, wiped>>
  BY DEF Sound, InOrder, InitHeader, Goes
<1>3. Settled' /\ Limit' = Limit
  BY <1>1, SettledKept DEF Limit
<1>4. /\ flash[0].kind # "marker" => pc' = "stopped"
      /\ flash[0].kind = "marker" /\ flash[0].a # 8 => pc' = "begin"
      /\ flash[0].kind = "marker" /\ flash[0].a = 8 =>
            pc' \in AfterFlags /\ (FlagsAt = 0 \/ flash[FlagsAt - 1].kind # "byte")
  BY <1>1 DEF InitHeader, Goes
<1>5. /\ FlagsAt = 0 => AfterFlags = {"begin"}
      /\ FlagsHeld(flash, Limit) => AfterFlags = {"ready"}
      /\ Plain(flash) /\ FlagsAt # 0 => flash[FlagsAt - 1].kind = "byte"
  BY <1>0, BootFinds
<1>7. Untouched => /\ (flash[0].a = 8 => FlagsAt = 0) /\ ~FlagsHeld(flash, Limit)
                   /\ flash[0].kind = "marker"
  BY <1>0, UntouchedNoFlags
<1>8. wiped => flash[0].kind # "marker"
  BY DEF InOrder
<1>p. pc' \in {"stopped", "begin", "ready"}
  BY <1>1 DEF InitHeader, Goes, AfterFlags
<1>9. pc' = "ready" => KeysIn /\ FlagsHeld(flash, Limit) /\ (torn \/ wiped \/ Complete(flash, Limit))
  <2> SUFFICES ASSUME pc' = "ready"
               PROVE  KeysIn /\ FlagsHeld(flash, Limit) /\ (torn \/ wiped \/ Complete(flash, Limit))
    OBVIOUS
  <2>1. flash[0].kind = "marker" /\ flash[0].a = 8 /\ FlagsAt # 0 /\ flash[FlagsAt - 1].kind # "byte"
    BY <1>4, <1>5
  <2> QED
    BY <1>1, <1>5, <1>7, <2>1 DEF Settled
<1>10. pc' = "begin" => Untouched \/ Again
  <2> SUFFICES ASSUME pc' = "begin", ~Untouched PROVE Again
    OBVIOUS
  <2>1. /\ KeysIn /\ flash[0].kind = "marker"
        /\ flash[0].a = 8 /\ (FlagsHeld(flash, Limit) \/ Plain(flash))
        /\ torn \/ wiped \/ FlagsHeld(flash, Limit)
    BY <1>1, <1>4 DEF Settled
  <2>2. ~FlagsHeld(flash, Limit)
    BY <1>4, <1>5, <2>1
  <2> QED
    BY <1>8, <2>1, <2>2 DEF Again
<1>11. converted /\ ~wiped => /\ flash[0].kind = "marker" /\ FlagsHeld(flash, Limit)
                              /\ pc' = "ready"
  <2> SUFFICES ASSUME converted, ~wiped
               PROVE  flash[0].kind = "marker" /\ FlagsHeld(flash, Limit) /\ pc' = "ready"
    OBVIOUS
  <2>1. flash[0].kind = "marker" /\ FlagsHeld(flash, Limit)
    BY DEF InOrder
  <2>2. flash[0].a = 8
    BY <1>1, <1>7, <2>1 DEF Settled
  <2> QED
    BY <1>4, <1>5, <2>1, <2>2
<1>12. /\ (KeysIn' <=> KeysIn) /\ (Untouched' <=> Untouched) /\ (Again' <=> Again)
       /\ (Complete(flash, Limit)' <=> Complete(flash, Limit))
       /\ (FlagsHeld(flash, Limit)' <=> FlagsHeld(flash, Limit))
  BY <1>1, <1>3 DEF KeysIn, FactoryTypes, Untouched, Again, Plain, Complete
<1>13. (pc = "begin" => Untouched \/ Again)'
  BY <1>10, <1>12
<1>14. (pc = "ready" => /\ KeysIn
                        /\ flash[0].kind = "marker" => FlagsHeld(flash, Limit)
                        /\ torn \/ wiped \/ Complete(flash, Limit))'
  BY <1>1, <1>9, <1>12
<1>15. (wiped => flash[0].kind # "marker" /\ pc \in {"off", "ready", "stopped"})'
  BY <1>1, <1>4, <1>8
<1>16. (converted /\ ~wiped => /\ pc \in {"off", "ready"}
                               /\ flash[0].kind = "marker" /\ FlagsHeld(flash, Limit))'
  BY <1>1, <1>11, <1>12
<1> QED
  BY <1>3, <1>p, <1>13, <1>14, <1>15, <1>16 DEF InOrder

\* Plain cells.
LEMMA PlainCells ==
    /\ PlainCell(Erased) /\ PlainCell(Marker(8)) /\ \A t, i : PlainCell(Byte(t, i))
    /\ \A t, size : t \notin Keys \cup {Flags} => PlainCell(tlv_header(t, size))
<1>1. Empty \notin Keys \cup {Flags}
  BY TypesAssumption
<1>2. PlainCell(Erased) /\ PlainCell(Marker(8))
  BY <1>1 DEF PlainCell, Erased, Marker, Cell
<1>3. \A t, i : PlainCell(Byte(t, i))
  BY DEF PlainCell, Byte, Cell
<1>4. \A t, size : t \notin Keys \cup {Flags} => PlainCell(tlv_header(t, size))
  BY DEF PlainCell, tlv_header, Header, Cell
<1> QED
  BY <1>2, <1>3, <1>4

\* In an empty region nothing is found and all is free.
LEMMA EmptyRegion ==
    ASSUME NEW mem \in Regions, \A o \in Offsets : o # 0 => mem[o] = Erased
    PROVE  FreeBehind(mem) /\ \A t : Absent(mem, t)
<1>1. 1 >= End \/ 1 \in Unused(mem)
  <2> SUFFICES ASSUME ~(1 >= End) PROVE 1 \in Unused(mem)
    OBVIOUS
  <2>1. 1 \in Offsets /\ 1 # 0
    BY SizesAssumption DEF Offsets
  <2> QED
    BY <2>1, CellsRead DEF Unused
<1>2. \A stops : Unused(mem) \subseteq stops => Walk(mem, stops)[1] = 1
  <2> SUFFICES ASSUME NEW stops, Unused(mem) \subseteq stops PROVE Walk(mem, stops)[1] = 1
    OBVIOUS
  <2>1. Walk(mem, stops)[1] = Step(mem, stops, Walk(mem, stops), 1)
    BY WalkUnfold
  <2> QED
    BY <1>1, <2>1 DEF Step
<1>3. Walk(mem, Unused(mem))[1] = 1
  BY <1>2
<1>4. \A t : Place(mem, t) = 1
  BY <1>2 DEF Place
<1>5. FreeBehind(mem)
  BY <1>3 DEF FreeBehind, Offsets
<1> QED
  BY <1>3, <1>4, <1>5 DEF Absent

\* The conversion starts with an empty region in RAM.
LEMMA ParseBeginStep ==
    ASSUME Sound, InOrder, ParseBegin
    PROVE  InOrder'
<1>0. factory \in Factory /\ pos \in Nat
  BY StateTyped
<1>1. /\ pc = "begin" /\ writing = Empty /\ Settled /\ (Untouched \/ Again) /\ ~wiped /\ ~converted
      /\ UNCHANGED <<factory, flash, psa, writing, converted, torn, wiped>>
  BY DEF Sound, InOrder, ParseBegin, Goes
<1>2. Settled'
  BY <1>1, SettledKept
<1>3. CASE pc' = "stopped" /\ UNCHANGED <<ram, pos>>
  BY <1>1, <1>2, <1>3 DEF InOrder
<1>4. CASE pc' = "parse" /\ ram' = Put(Blank, 0, <<Marker(8)>>) /\ pos' = 1
  <2>1. ram' \in Regions /\ ram'[0] = Marker(8) /\ \A o \in Offsets : o # 0 => ram'[o] = Erased
    BY <1>4, BlankRegion
  <2>2. FreeBehind(ram') /\ \A t : Absent(ram', t)
    BY <2>1, EmptyRegion
  <2>3. ImageGrows'
    <3>1. Plain(ram)'
      BY <2>1, PlainCells DEF Plain
    <3> QED
      BY <2>2, <3>1 DEF ImageGrows
  <2>4. ASSUME Untouched PROVE FirstTime'
    <3>1. ASSUME NEW i \in 1 .. Len(factory.entries)
          PROVE  ~Passed(1, factory.entries[i])
      <4>1. factory.entries[i].offset \in Nat /\ factory.entries[i].offset >= 1
        BY <1>0, EntryTyped
      <4> QED
        BY <4>1 DEF Passed
    <3>2. Parsed'
      <4> SUFFICES ASSUME NEW i \in 1 .. Len(factory.entries)
                   PROVE  ~Passed(pos', factory.entries[i]) /\ Absent(ram', factory.entries[i].type)
        BY <1>1 DEF Parsed, Passed
      <4> QED
        BY <1>4, <2>2, <3>1
    <3>3. AtEntry(pos)'
      BY <1>4 DEF AtEntry
    <3> QED
      BY <1>1, <1>4, <2>4, <3>2, <3>3 DEF FirstTime, Untouched
  <2>5. ASSUME Again PROVE Again'
    BY <1>1, <2>5 DEF Again, KeysIn, FactoryTypes, Plain
  <2> QED
    BY <1>1, <1>2, <1>4, <2>1, <2>3, <2>4, <2>5 DEF InOrder
<1> QED
  BY <1>3, <1>4 DEF ParseBegin, Goes

\* What the conversion reads of a plain region, if it takes no payload for a header.
LEMMA AgainReads ==
    ASSUME Sound, Again, ~Misreading
    PROVE  /\ Entry.type \in Types \ (Keys \cup {Flags}) /\ Entry.payload \in Seq(Cells)
           /\ Entry.next \in Nat /\ Len(Entry.payload) \in Nat
           /\ Entry.type # Empty => Len(Entry.payload) < Base
           /\ \A i \in 1 .. Len(Entry.payload) : PlainCell(Entry.payload[i])
<1>0. flash \in Regions /\ pos \in Nat /\ flash[0].a = 8 /\ Plain(flash)
  BY StateTyped DEF Again
<1>1. /\ Entry = EntryRawTlv /\ Entry.type \in Types /\ Entry.next \in Nat /\ Entry.payload \in Seq(Cells)
      /\ \A i \in 1 .. Len(Entry.payload) :
            Entry.payload[i] = Byte("other", 1) \/ \E x \in Offsets : Entry.payload[i] = flash[x]
  BY <1>0, RawTyped DEF Entry
<1>2. \A i \in 1 .. Len(Entry.payload) : PlainCell(Entry.payload[i])
  BY <1>0, <1>1, PlainCells DEF Plain
<1>3. Entry.type = bytes_to_header(IF pos < End THEN flash[pos] ELSE Erased).type
  BY <1>1 DEF EntryRawTlv
<1>4. CASE pos < End
  <2>1. pos \in Offsets /\ PlainCell(flash[pos]) /\ flash[pos].kind # "byte"
    BY <1>0, <1>4, SizesAssumption DEF Offsets, Plain, Misreading
  <2>2. Entry.type \notin Keys \cup {Flags}
    BY <1>3, <1>4, <2>1 DEF PlainCell, bytes_to_header
  <2>3. Len(Entry.payload) \in Nat /\ ~(Len(Entry.payload) > MaxElement)
    BY <1>0, <1>1, <1>4 DEF Misreading
  <2>4. Len(Entry.payload) < Base
    BY <2>3, SizesAssumption
  <2> QED
    BY <1>1, <1>2, <2>2, <2>3, <2>4
<1>5. CASE ~(pos < End)
  <2>1. Entry.type = Empty
    BY <1>3, <1>5, CellsRead
  <2> QED
    BY <1>1, <1>2, <2>1, TypesAssumption
<1> QED
  BY <1>4, <1>5

\* A first conversion reads an entry of the factory, or is past all of them.
LEMMA FirstTimeReads ==
    ASSUME Sound, FirstTime
    PROVE  \/ /\ Entry.type = Empty /\ ~Misreading
              /\ \A i \in 1 .. Len(factory.entries) : Passed(pos, factory.entries[i])
           \/ \E k \in 1 .. Len(factory.entries) : Reads(k)
  BY StateTyped, ParserReads DEF FirstTime

\* The first step that takes payload for a header, or that overruns the buffer, meets a
\* region that was torn.
LEMMA MisreadTorn ==
    ASSUME Sound, InOrder, ~misread, Next, misread'
    PROVE  torn /\ torn'
<1>0. /\ flash \in Regions /\ factory \in Factory /\ Limit \in Nat /\ Limit <= End
  BY StateTyped
<1>1. CASE InitHeader
  <2>1. /\ pc = "off" /\ torn' = torn /\ flash[0].kind = "marker" /\ flash[0].a = 8
        /\ FlagsAt # 0 /\ flash[FlagsAt - 1].kind = "byte"
    BY <1>1 DEF InitHeader
  <2>2. Settled /\ (wiped => flash[0].kind # "marker")
    BY <2>1 DEF InOrder
  <2>3. ~Untouched
    BY <1>0, <2>1, UntouchedNoFlags
  <2>4. ~FlagsHeld(flash, Limit)
    BY <1>0, <2>1, BootFinds
  <2> QED
    BY <2>1, <2>2, <2>3, <2>4 DEF Settled
<1>2. CASE ParseValue \/ ParseKey \/ Overrun \/ ParseFlags
  <2>1. pc = "parse" /\ Misreading /\ torn' = torn
    BY <1>2 DEF ParseValue, ParseKey, Overrun, ParseFlags, Parses
  <2>2. FirstTime \/ Again
    BY <2>1 DEF InOrder
  <2>3. ~FirstTime
    BY <2>1, FirstTimeReads DEF Reads
  <2> QED
    BY <2>1, <2>2, <2>3 DEF Again
<1>3. ASSUME ~InitHeader, ~ParseValue, ~ParseKey, ~Overrun, ~ParseFlags PROVE FALSE
  <2>1. misread' = misread
    BY <1>3 DEF Next, ParseBegin, sid_crypto_keys_new_import, EraseFlash, WriteFlash, Reset,
                WriteHeader, WriteData, sid_pal_mfg_store_erase, history
  <2> QED
    BY <2>1
<1> QED
  BY <1>1, <1>2, <1>3

\* A private key is destroyed in secure storage; those the parser is past stay.
LEMMA ParseKeyStep ==
    ASSUME Sound, InOrder, ParseKey, ~misread'
    PROVE  InOrder'
<1>0. factory \in Factory /\ psa \subseteq Keys
  BY StateTyped
<1>1. /\ pc = "parse" /\ writing = Empty /\ ~wiped /\ ~converted /\ ImageGrows /\ ram[0] = Marker(8)
      /\ pc' \in {"import", "stopped"} /\ psa \ {Entry.type} \subseteq psa' /\ Entry.type \in Keys
      /\ UNCHANGED <<factory, flash, pos, ram, writing, converted, torn, wiped>> /\ ~Misreading
  BY DEF Sound, InOrder, ParseKey, Parses, Goes
<1>2. FirstTime
  <2>1. FirstTime \/ Again
    BY <1>1 DEF InOrder
  <2> QED
    BY <1>1, <2>1, AgainReads
<1>3. PICK k \in 1 .. Len(factory.entries) : Reads(k)
  BY <1>1, <1>2, FirstTimeReads, TypesAssumption
<1> DEFINE es == factory.entries
<1>4. Entry.type = es[k].type /\ ~Passed(pos, es[k])
  BY <1>3 DEF Reads
<1>5. \A i \in 1 .. Len(es) : Passed(pos, es[i]) /\ es[i].type \in psa => es[i].type \in psa'
  <2> SUFFICES ASSUME NEW i \in 1 .. Len(es), Passed(pos, es[i]), es[i].type \in psa
               PROVE  es[i].type \in psa'
    OBVIOUS
  <2>1. es[i].type # es[k].type
    BY <1>0, <1>4, EntriesApart
  <2> QED
    BY <1>1, <1>4, <2>1
<1>6. Parsed'
  <2>1. \A i \in 1 .. Len(es) : Passed(pos, es[i])' <=> Passed(pos, es[i])
    BY <1>1 DEF Passed
  <2>2. Parsed
    BY <1>2 DEF FirstTime
  <2> SUFFICES ASSUME NEW i \in 1 .. Len(es)
               PROVE  IF Passed(pos, es[i])'
                      THEN IF es[i].type \in Keys THEN es[i].type \in psa'
                           ELSE Copied(ram, es[i].type, es[i].size, End)
                      ELSE Absent(ram, es[i].type)
    BY <1>1 DEF Parsed
  <2>3. IF Passed(pos, es[i])
        THEN IF es[i].type \in Keys THEN es[i].type \in psa
             ELSE Copied(ram, es[i].type, es[i].size, End)
        ELSE Absent(ram, es[i].type)
    BY <2>2 DEF Parsed
  <2> QED
    BY <1>5, <2>1, <2>3
<1>7. FirstTime'
  BY <1>1, <1>2, <1>6 DEF FirstTime, Untouched, AtEntry
<1>8. Settled'
  BY <1>7 DEF FirstTime, Settled
<1>9. ImageGrows' <=> ImageGrows
  BY <1>1 DEF ImageGrows, Plain, FreeBehind
<1> QED
  BY <1>1, <1>7, <1>8, <1>9 DEF InOrder

\* It is imported again, from the bytes of the factory.
LEMMA ImportStep ==
    ASSUME Sound, InOrder, sid_crypto_keys_new_import
    PROVE  InOrder'
<1>0. factory \in Factory /\ psa \subseteq Keys
  BY StateTyped
<1>1. /\ pc = "import" /\ writing = Empty /\ ~wiped /\ ~converted /\ ImageGrows /\ ram[0] = Marker(8)
      /\ FirstTime /\ Entry.type \in Keys
      /\ UNCHANGED <<factory, flash, ram, writing, converted, torn, wiped>>
  BY DEF Sound, InOrder, sid_crypto_keys_new_import, Goes, ImportFailed
<1>2. Untouched /\ Untouched'
  BY <1>1 DEF FirstTime, Untouched
<1>3. Settled'
  BY <1>2 DEF Settled
<1>4. CASE pc' = "stopped" /\ UNCHANGED <<pos, psa>>
  BY <1>1, <1>3, <1>4 DEF InOrder
<1>5. CASE /\ pc' = "parse" /\ pos' = Entry.next
           /\ psa' = IF Entry.payload = PayloadOf(Entry.type, Len(Entry.payload))
                     THEN psa \cup {Entry.type} ELSE psa
  <2>1. PICK k \in 1 .. Len(factory.entries) : Reads(k)
    BY <1>1, FirstTimeReads, TypesAssumption
  <2> DEFINE es == factory.entries
  <2>2. /\ Entry.type = es[k].type /\ Entry.payload = PayloadOf(es[k].type, es[k].size)
        /\ ~Passed(pos, es[k]) /\ pos' \in Nat /\ pos' > 0 /\ AtEntry(pos')
        /\ \A i \in 1 .. Len(es) : Passed(pos', es[i]) <=> Passed(pos, es[i]) \/ i = k
    BY <1>5, <2>1 DEF Reads
  <2>3. psa' = psa \cup {Entry.type}
    <3>1. es[k].type \in Types /\ es[k].size \in Nat /\ es[k].size <= MaxElement
      BY <1>0, EntryTyped
    <3>2. Len(Entry.payload) = es[k].size
      BY <2>2, <3>1, PayloadTyped
    <3> QED
      BY <1>5, <2>2, <3>2
  <2>4. \A i \in 1 .. Len(es) : Passed(pos, es[i])' <=> Passed(pos, es[i]) \/ i = k
    BY <1>1, <2>2 DEF Passed
  <2>5. Parsed'
    <3>1. Parsed
      BY <1>1 DEF FirstTime
    <3> SUFFICES ASSUME NEW i \in 1 .. Len(es)
                 PROVE  IF Passed(pos, es[i])'
                        THEN IF es[i].type \in Keys THEN es[i].type \in psa'
                             ELSE Copied(ram, es[i].type, es[i].size, End)
                        ELSE Absent(ram, es[i].type)
      BY <1>1 DEF Parsed
    <3>2. CASE i = k
      BY <1>1, <2>2, <2>3, <2>4, <3>2
    <3>3. CASE i # k
      BY <2>3, <2>4, <3>1, <3>3 DEF Parsed
    <3> QED
      BY <3>2, <3>3
  <2>6. AtEntry(pos)'
    BY <1>1, <2>2 DEF AtEntry
  <2>7. FirstTime'
    BY <1>2, <2>2, <2>5, <2>6 DEF FirstTime
  <2>8. ImageGrows' <=> ImageGrows
    BY <1>1 DEF ImageGrows, Plain, FreeBehind
  <2> QED
    BY <1>1, <1>3, <1>5, <2>7, <2>8 DEF InOrder
<1> QED
  BY <1>4, <1>5 DEF sid_crypto_keys_new_import, Goes, ImportFailed, Genuine

\* Writing an entry keeps what is copied before.
LEMMA WriteKeeps ==
    ASSUME NEW mem \in Regions, NEW u \in Types, NEW payload \in Seq(Cells),
           NEW t \in Types \ {Empty}, NEW size \in 1 .. Base - 1, Copied(mem, t, size, End)
    PROVE  Copied(tlv_write(mem, u, payload), t, size, End)
<1> DEFINE new == tlv_write(mem, u, payload)
           n == get_next_free_offset(mem)
           z == Place(mem, t) + 1 + size + CALCULATE_PADDING(size)
<1>1. new \in Regions /\ (\A o \in Offsets : o < n => new[o] = mem[o])
  BY WriteCells
<1>2. z <= n
  BY HeldFound, SizesAssumption DEF Copied
<1>3. z \in Nat /\ n \in Nat /\ size \in Nat
  <2>1. size \in Nat
    BY SizesAssumption
  <2>2. CALCULATE_PADDING(size) \in Nat /\ Place(mem, t) \in Nat /\ n \in Nat
    BY <2>1, PlaceTyped, PaddingTyped, FreeOffset
  <2> QED
    BY <2>1, <2>2
<1> HIDE DEF new, n, z
<1>4. \A o \in Offsets : o < z => new[o] = mem[o]
  BY <1>1, <1>2, <1>3 DEF Offsets
<1>5. Copied(new, t, size, End)
  BY <1>1, <1>3, <1>4, CopiedKept, SizesAssumption DEF z
<1> QED
  BY <1>5 DEF new

\* A plain region stays so if a plain entry is written.
LEMMA WritePlain ==
    ASSUME NEW mem \in Regions, NEW t \in Types \ (Keys \cup {Flags}), NEW payload \in Seq(Cells),
           Plain(mem), \A i \in 1 .. Len(payload) : PlainCell(payload[i])
    PROVE  Plain(tlv_write(mem, t, payload)) /\ tlv_write(mem, t, payload)[0] = mem[0]
<1> DEFINE new == tlv_write(mem, t, payload)
           n == get_next_free_offset(mem)
<1>1. /\ \A o \in Offsets : o < n => new[o] = mem[o]
      /\ \A o \in Offsets : \/ new[o] = mem[o]
                            \/ o = n /\ new[o] = tlv_header(t, Len(payload))
                            \/ \E i \in 1 .. Len(payload) : new[o] = payload[i]
  BY WriteCells
<1>2. n \in Nat /\ n >= 1 /\ 0 \in Offsets
  BY FreeOffset, SizesAssumption DEF Offsets
<1>3. PlainCell(tlv_header(t, Len(payload)))
  BY PlainCells
<1> HIDE DEF new, n
<1>4. Plain(new)
  BY <1>1, <1>3 DEF Plain
<1>5. new[0] = mem[0]
  BY <1>1, <1>2
<1> QED
  BY <1>4, <1>5 DEF new

\* A value is copied, behind the values that were copied before.
LEMMA ParseValueStep ==
    ASSUME Sound, InOrder, ParseValue, ~misread'
    PROVE  InOrder'
<1>0. factory \in Factory /\ ram \in Regions /\ pos \in Nat
  BY StateTyped
<1>1. /\ pc = "parse" /\ writing = Empty /\ ~wiped /\ ~converted /\ ImageGrows /\ ram[0] = Marker(8)
      /\ Settled /\ Entry.type \notin Keys \cup {Empty} /\ ~Misreading
      /\ UNCHANGED <<factory, flash, psa, writing, converted, torn, wiped>>
  BY DEF Sound, InOrder, ParseValue, Parses, Goes
<1>g. Plain(ram) /\ FreeBehind(ram) /\ Absent(ram, Flags)
  BY <1>1 DEF ImageGrows
<1>2. Settled'
  BY <1>1, SettledKept
<1>3. CASE pc' = "stopped" /\ UNCHANGED <<ram, pos>>
  BY <1>1, <1>2, <1>3 DEF InOrder
<1>4. CASE /\ Fits(ram, Len(Entry.payload)) /\ pc' = "parse"
           /\ ram' = tlv_write(ram, Entry.type, Entry.payload) /\ pos' = Entry.next
  <2> SUFFICES ASSUME Entry.payload \in Seq(Cells), Entry.type \in Types \ (Keys \cup {Flags}),
                      \A i \in 1 .. Len(Entry.payload) : PlainCell(Entry.payload[i]),
                      Len(Entry.payload) < Base, FirstTime' \/ Again'
               PROVE  InOrder'
    <3>1. CASE Again
      <4>1. Again'
        BY <1>1, <3>1 DEF Again, KeysIn, FactoryTypes, Plain
      <4> QED
        BY <1>1, <3>1, <4>1, AgainReads
    <3>2. CASE FirstTime
      <4>1. PICK k \in 1 .. Len(factory.entries) : Reads(k)
        BY <1>1, <3>2, FirstTimeReads
      <4> DEFINE es == factory.entries
                 t == es[k].type
                 size == es[k].size
      <4>2. /\ Entry.type = t /\ Entry.payload = PayloadOf(t, size)
            /\ ~Passed(pos, es[k]) /\ pos' \in Nat /\ pos' > 0 /\ AtEntry(pos')
            /\ \A i \in 1 .. Len(es) : Passed(pos', es[i]) <=> Passed(pos, es[i]) \/ i = k
        BY <1>4, <4>1 DEF Reads
      <4>3. /\ t \in Types \ {Empty, Flags, "other"} /\ size \in Nat
            /\ size <= MaxElement /\ size < Base
        BY <1>0, EntryTyped
      <4>4. /\ Entry.payload \in Seq(Cells) /\ Len(Entry.payload) = size
            /\ \A i \in 1 .. size : Entry.payload[i] = Byte(t, i)
        BY <4>2, <4>3, PayloadTyped
      <4>5. \A i \in 1 .. Len(es) : Passed(pos, es[i])' <=> Passed(pos, es[i]) \/ i = k
        BY <1>1, <4>2 DEF Passed
      <4>6. Parsed
        BY <3>2 DEF FirstTime
      <4>7. Absent(ram, t)
        BY <4>2, <4>6 DEF Parsed
      <4>8. Copied(ram', t, size, End)
        BY <1>0, <1>4, <4>2, <4>3, <4>4, <4>7, CopiedNew
      <4>9. ASSUME NEW i \in 1 .. Len(es), i # k
            PROVE  IF Passed(pos, es[i])'
                   THEN IF es[i].type \in Keys THEN es[i].type \in psa'
                        ELSE Copied(ram', es[i].type, es[i].size, End)
                   ELSE Absent(ram', es[i].type)
        <5> DEFINE u == es[i].type
                   m == es[i].size
        <5>1. u \in Types \ {Empty, Flags, "other"} /\ m \in Nat /\ m >= 1 /\ m < Base /\ u # t
          BY <1>0, <4>9, EntryTyped, EntriesApart
        <5>2. IF Passed(pos, es[i])'
              THEN IF u \in Keys THEN u \in psa ELSE Copied(ram, u, m, End)
              ELSE Absent(ram, u)
          BY <4>5, <4>6, <4>9 DEF Parsed
        <5> HIDE DEF u, m
        <5>3. ASSUME Copied(ram, u, m, End) PROVE Copied(ram', u, m, End)
          <6>1. m \in 1 .. Base - 1
            BY <5>1, SizesAssumption
          <6> QED
            BY <1>0, <1>4, <4>2, <4>3, <4>4, <5>1, <5>3, <6>1, WriteKeeps
        <5>4. ASSUME Absent(ram, u) PROVE Absent(ram', u)
          BY <1>0, <1>4, <1>g, <4>2, <4>3, <4>4, <5>1, <5>4, WriteGrows
        <5>5. IF Passed(pos, es[i])'
              THEN IF u \in Keys THEN u \in psa' ELSE Copied(ram', u, m, End)
              ELSE Absent(ram', u)
          BY <1>1, <5>2, <5>3, <5>4
        <5> QED
          BY <5>5 DEF u, m
      <4>10. Parsed'
        <5> SUFFICES ASSUME NEW i \in 1 .. Len(es)
                     PROVE  IF Passed(pos, es[i])'
                            THEN IF es[i].type \in Keys THEN es[i].type \in psa'
                                 ELSE Copied(ram', es[i].type, es[i].size, End)
                            ELSE Absent(ram', es[i].type)
          BY <1>1 DEF Parsed
        <5>1. CASE i = k
          BY <1>1, <4>2, <4>5, <4>8, <5>1
        <5>2. CASE i # k
          BY <4>9, <5>2
        <5> QED
          BY <5>1, <5>2
      <4>11. FirstTime'
        <5>1. AtEntry(pos)'
          BY <1>1, <4>2 DEF AtEntry
        <5>2. Untouched'
          BY <1>1, <3>2 DEF FirstTime, Untouched
        <5> QED
          BY <4>2, <4>10, <5>1, <5>2 DEF FirstTime
      <4>12. \A i \in 1 .. Len(Entry.payload) : PlainCell(Entry.payload[i])
        BY <4>4, PlainCells
      <4> QED
        BY <1>1, <4>2, <4>3, <4>4, <4>11, <4>12
    <3> QED
      BY <1>1, <3>1, <3>2 DEF InOrder
  <2>1. Plain(ram') /\ ram'[0] = ram[0]
    BY <1>0, <1>1, <1>4, <1>g, WritePlain
  <2>2. FreeBehind(ram') /\ Absent(ram', Flags)
    <3>1. Flags \notin {Entry.type, Empty} /\ Entry.type \in Types \ {Empty}
      BY <1>1, TypesAssumption
    <3> QED
      BY <1>0, <1>4, <1>g, <3>1, WriteGrows
  <2>3. ImageGrows'
    BY <2>1, <2>2 DEF ImageGrows, Plain
  <2> QED
    BY <1>1, <1>2, <1>4, <2>1, <2>3 DEF InOrder
<1> QED
  BY <1>3, <1>4 DEF ParseValue, Goes

\* The flags make the region in RAM complete.
LEMMA ParseFlagsStep ==
    ASSUME Sound, InOrder, ParseFlags
    PROVE  InOrder'
<1>0. factory \in Factory /\ ram \in Regions /\ pos \in Nat
  BY StateTyped
<1>1. /\ pc = "parse" /\ writing = Empty /\ ~wiped /\ ~converted /\ ImageGrows /\ ram[0] = Marker(8)
      /\ Settled /\ Entry.type = Empty /\ (FirstTime \/ Again)
      /\ UNCHANGED <<factory, flash, psa, pos, writing, converted, torn, wiped>>
  BY DEF Sound, InOrder, ParseFlags, Parses, Goes
<1>2. Settled'
  BY <1>1, SettledKept
<1>3. CASE pc' = "stopped" /\ UNCHANGED ram
  BY <1>1, <1>2, <1>3 DEF InOrder
<1>4. CASE Fits(ram, Align) /\ pc' = "erase" /\ ram' = WithFlags(ram)
  <2> DEFINE payload == PayloadOf(Flags, Align)
             n == get_next_free_offset(ram)
             es == factory.entries
  <2>0. Flags \in Types \ {Empty} /\ Flags \in Types /\ Align \in Nat /\ Align <= MaxElement
    BY TypesAssumption, SizesAssumption
  <2>1. /\ payload \in Seq(Cells) /\ Len(payload) = Align
        /\ \A i \in 1 .. Align : payload[i] = Byte(Flags, i)
    BY <2>0, PayloadTyped
  <2>2. ram' = tlv_write(ram, Flags, payload)
    BY <1>4 DEF WithFlags
  <2> HIDE DEF payload
  <2>3. Place(ram', Flags) = n /\ Held(ram', Flags, Align, End)
    <3>1. Absent(ram, Flags)
      BY <1>1 DEF ImageGrows
    <3> QED
      BY <1>0, <1>4, <2>0, <2>1, <2>2, <3>1, HeldNew
  <2>f. FlagsHeld(ram', End)
    <3>1. \A i \in 1 .. Align : n + i < End => ram'[n + i] = Byte(Flags, i)
      BY <1>0, <2>0, <2>1, <2>2, WriteCells
    <3>2. n \in Nat /\ n + 1 + Align + CALCULATE_PADDING(Align) <= End
          /\ CALCULATE_PADDING(Align) \in Nat
      BY <1>0, <1>4, <2>0, FreeOffset, PaddingTyped DEF Fits
    <3> HIDE DEF n
    <3>3. \A i \in 1 .. Align : n + i < End
      <4> DEFINE pad == CALCULATE_PADDING(Align)
      <4>1. n \in Nat /\ n + 1 + Align + pad <= End /\ pad \in Nat
        BY <3>2
      <4> HIDE DEF pad
      <4> QED
        BY <2>0, <4>1, SizesAssumption
    <3> QED
      BY <2>3, <3>1, <3>3 DEF FlagsHeld
  <2>4. /\ ram' \in Regions
        /\ \A o \in Offsets : o < n => ram'[o] = ram[o]
        /\ \A o \in Offsets : ram'[o] = ram[o] \/ o = n \/ \E i \in 1 .. Align : ram'[o] = Byte(Flags, i)
    BY <1>0, <2>0, <2>1, <2>2, WriteCells
  <2>5. \A o \in Offsets : o = n \/ PlainCell(ram'[o])
    BY <1>1, <2>4, PlainCells DEF Plain, ImageGrows
  <2>6. n \in Nat /\ n >= 1 /\ 0 \in Offsets
    BY <1>0, FreeOffset, SizesAssumption DEF Offsets
  <2> HIDE DEF n
  <2>7. ram'[0] = Marker(8)
    BY <1>1, <2>4, <2>6
  <2>8. KeysIn /\ (torn \/ Complete(ram', End))
    <3>1. CASE Again
      BY <3>1 DEF Again
    <3>2. CASE FirstTime
      <4>1. \A i \in 1 .. Len(es) : Passed(pos, es[i])
        <5>1. ASSUME NEW k \in 1 .. Len(es), Reads(k) PROVE FALSE
          <6>1. es[k].type # Empty
            BY <1>0, EntryTyped
          <6> QED
            BY <1>1, <5>1, <6>1 DEF Reads
        <5> QED
          BY <3>2, <5>1, FirstTimeReads
      <4>2. \A i \in 1 .. Len(es) : IF es[i].type \in Keys THEN es[i].type \in psa
                                    ELSE Copied(ram, es[i].type, es[i].size, End)
        BY <3>2, <4>1 DEF FirstTime, Parsed
      <4>3. KeysIn
        BY <4>2 DEF KeysIn, FactoryTypes
      <4>4. ASSUME NEW i \in 1 .. Len(es), es[i].type \notin Keys
            PROVE  Copied(ram', es[i].type, es[i].size, End)
        <5> DEFINE u == es[i].type
                   m == es[i].size
        <5>1. u \in Types \ {Empty} /\ m \in Nat /\ m >= 1 /\ m < Base /\ Copied(ram, u, m, End)
          BY <1>0, <4>2, <4>4, EntryTyped
        <5> HIDE DEF u, m
        <5>2. m \in 1 .. Base - 1
          BY <5>1, SizesAssumption
        <5>3. Copied(ram', u, m, End)
          BY <1>0, <2>0, <2>1, <2>2, <5>1, <5>2, WriteKeeps
        <5> QED
          BY <5>3 DEF u, m
      <4> QED
        BY <4>3, <4>4 DEF Complete
    <3> QED
      BY <1>1, <3>1, <3>2
  <2>9. ImageReady'
    <3>1. KeysIn'
      BY <1>1, <2>8 DEF KeysIn, FactoryTypes
    <3>2. torn' \/ Complete(ram, End)'
      BY <1>1, <2>8 DEF Complete
    <3> QED
      BY <2>3, <2>f, <2>5, <3>1, <3>2 DEF ImageReady
  <2> QED
    BY <1>1, <1>2, <1>4, <2>7, <2>9 DEF InOrder
<1> QED
  BY <1>3, <1>4 DEF ParseFlags, Goes

\* Erasing the region makes it blank: nothing of it is written yet.
LEMMA EraseFlashStep ==
    ASSUME Sound, InOrder, EraseFlash
    PROVE  InOrder'
<1>1. /\ pc = "erase" /\ writing = Empty /\ ~wiped /\ ~converted /\ ImageReady /\ ram[0] = Marker(8)
      /\ Settled /\ UNCHANGED <<factory, psa, ram, writing, converted, torn, wiped>>
  BY DEF Sound, InOrder, EraseFlash, Goes
<1>2. CASE pc' = "stopped" /\ UNCHANGED <<flash, pos>>
  <2>1. Settled'
    BY <1>1, <1>2, SettledKept
  <2> QED
    BY <1>1, <1>2, <2>1 DEF InOrder
<1>3. CASE pc' = "write" /\ flash' = Blank /\ pos' = 0
  <2>1. flash' \in Regions /\ (\A o \in Offsets : flash'[o] = Erased)
    BY <1>3, BlankRegion DEF Blank
  <2>2. pos' \in Offsets /\ \A o \in Offsets : ~(o < pos')
    BY <1>3, SizesAssumption DEF Offsets
  <2>4. ImageReady'
    BY <1>1 DEF ImageReady, KeysIn, FactoryTypes, Complete
  <2> QED
    BY <1>1, <1>3, <2>1, <2>2, <2>4 DEF InOrder
<1> QED
  BY <1>2, <1>3 DEF EraseFlash, Goes

\* A write that is cut leaves a region that holds the flags or is plain.
LEMMA CutWrite ==
    ASSUME Sound, InOrder, pc = "write"
    PROVE  /\ KeysIn
           /\ flash[0].kind = "marker" => flash[0].a = 8 /\ (FlagsHeld(flash, End) \/ Plain(flash))
<1>0. flash \in Regions /\ ram \in Regions
  BY StateTyped
<1>1. /\ ImageReady /\ ram[0] = Marker(8) /\ pos \in Offsets /\ 0 \in Offsets
      /\ \A o \in Offsets : flash[o] = IF o < pos THEN ram[o] ELSE Erased
  BY SizesAssumption DEF Sound, InOrder, Offsets
<1>2. flash[0].kind = "marker" => flash[0].a = 8
  BY <1>1, PlainCells DEF PlainCell
<1> DEFINE r == Place(ram, Flags)
<1>3. /\ r \in Nat /\ Held(ram, Flags, Align, End) /\ \A o \in Offsets : o = r \/ PlainCell(ram[o])
      /\ \A i \in 1 .. Align : ram[r + i] \in {Erased, Byte(Flags, i)}
  BY <1>0, <1>1, PlaceTyped DEF ImageReady, FlagsHeld
<1>4. CASE r < pos
  <2>1. \A o \in Offsets : o <= r => flash[o] = ram[o]
    BY <1>1, <1>3, <1>4 DEF Offsets
  <2>2. Flags \in Types \ {Empty} /\ Align \in Nat
    BY TypesAssumption, SizesAssumption
  <2>3. Held(flash, Flags, Align, End) /\ Place(flash, Flags) = r
    BY <1>0, <1>3, <2>1, <2>2, HeldKept, SizesAssumption
  <2>4. ASSUME NEW i \in 1 .. Align PROVE flash[r + i] \in {Erased, Byte(Flags, i)}
    <3> DEFINE pad == CALCULATE_PADDING(Align)
    <3>1. r + 1 + Align + pad <= End /\ pad \in Nat
      BY <1>3, <2>2, PaddingTyped DEF Held
    <3> HIDE DEF pad, r
    <3>2. r + i \in Offsets
      BY <1>3, <2>2, <3>1, SizesAssumption DEF Offsets
    <3> QED
      BY <1>1, <1>3, <3>2
  <2> QED
    BY <1>1, <1>2, <2>3, <2>4 DEF ImageReady, FlagsHeld
<1>5. CASE ~(r < pos)
  <2>1. \A o \in Offsets : o < pos => o # r
    BY <1>5
  <2>2. Plain(flash)
    BY <1>1, <1>3, <2>1, PlainCells DEF Plain
  <2> QED
    BY <1>1, <1>2, <2>2 DEF ImageReady
<1> QED
  BY <1>4, <1>5

\* The region is written cell by cell; with the last one it is complete.
LEMMA WriteFlashStep ==
    ASSUME Sound, InOrder, WriteFlash
    PROVE  InOrder'
<1>0. flash \in Regions /\ ram \in Regions /\ factory \in Factory /\ pos \in Nat
  BY StateTyped
<1>1. /\ pc = "write" /\ writing = Empty /\ ~wiped /\ ~converted /\ ImageReady /\ ram[0] = Marker(8)
      /\ pos \in Offsets /\ (\A o \in Offsets : flash[o] = IF o < pos THEN ram[o] ELSE Erased)
      /\ UNCHANGED <<factory, psa, ram, writing, wiped>>
  BY DEF Sound, InOrder, WriteFlash, Goes
<1>2. KeysIn' <=> KeysIn
  BY <1>1 DEF KeysIn, FactoryTypes
<1>3. CASE pc' = "stopped" /\ torn' = TRUE /\ UNCHANGED <<flash, pos, converted>>
  <2>2. Settled'
    <3>1. Limit' = End
      BY <1>1 DEF Limit
    <3>2. Plain(flash)' <=> Plain(flash)
      BY <1>3 DEF Plain
    <3> QED
      BY <1>1, <1>2, <1>3, <3>1, <3>2, CutWrite DEF Settled
  <2> QED
    BY <1>1, <1>3, <2>2 DEF InOrder
<1>4. CASE /\ flash' = [flash EXCEPT ![pos] = ram[pos]] /\ pos' = pos + 1 /\ UNCHANGED torn
           /\ pc' = (IF pos = End - 1 THEN "ready" ELSE "write")
           /\ converted' = (converted \/ pos = End - 1)
  <2>1. \A o \in Offsets : flash'[o] = IF o < pos + 1 THEN ram[o] ELSE Erased
    <3> SUFFICES ASSUME NEW o \in Offsets PROVE flash'[o] = IF o < pos + 1 THEN ram[o] ELSE Erased
      OBVIOUS
    <3>1. o \in Nat /\ (o < pos + 1 <=> o < pos \/ o = pos)
      BY <1>0 DEF Offsets
    <3>2. CASE o = pos
      BY <1>0, <1>1, <1>4, <3>1, <3>2 DEF Regions
    <3>3. CASE o # pos
      BY <1>0, <1>1, <1>4, <3>1, <3>3 DEF Regions
    <3> QED
      BY <3>2, <3>3
  <2>2. flash' \in Regions
    BY <1>0, <1>1, <1>4 DEF Regions
  <2>4. CASE pos = End - 1
    <3>1. \A o \in Offsets : o < pos + 1
      BY <2>4, SizesAssumption DEF Offsets
    <3>2. flash' = ram
      BY <1>0, <2>1, <2>2, <3>1 DEF Regions
    <3>3. Limit' = End
      BY <1>1 DEF Limit
    <3>4. /\ KeysIn' /\ FlagsHeld(flash', Limit') /\ (torn' \/ Complete(flash, Limit)')
          /\ flash'[0].kind = "marker" /\ flash'[0].a = 8
      <4>1. KeysIn' /\ FlagsHeld(flash', Limit')
        BY <1>1, <1>2, <3>2, <3>3 DEF ImageReady
      <4>2. torn' \/ Complete(flash, Limit)'
        BY <1>1, <1>4, <3>2, <3>3 DEF ImageReady, Complete
      <4>3. flash'[0].kind = "marker" /\ flash'[0].a = 8
        BY <1>1, <3>2 DEF Marker, Cell
      <4> QED
        BY <4>1, <4>2, <4>3
    <3>5. Settled'
      BY <3>4 DEF Settled
    <3> QED
      BY <1>1, <1>4, <2>4, <3>4, <3>5 DEF InOrder
  <2>5. CASE pos # End - 1
    <3>1. pos + 1 \in Offsets
      BY <1>0, <1>1, <2>5, SizesAssumption DEF Offsets
    <3>2. ImageReady'
      BY <1>1, <1>2, <1>4 DEF ImageReady, Complete
    <3> QED
      BY <1>1, <1>4, <2>1, <2>5, <3>1, <3>2 DEF InOrder
  <2> QED
    BY <2>4, <2>5
<1> QED
  BY <1>3, <1>4 DEF WriteFlash, Goes

\* Power may be lost at any point.
LEMMA ResetStep ==
    ASSUME Sound, InOrder, Reset
    PROVE  InOrder'
<1>0. flash \in Regions /\ Limit \in Nat /\ Limit <= End /\ factory \in Factory
  BY StateTyped
<1>1. /\ pc' = "off" /\ pos' = 0 /\ ram' = Blank /\ writing' = Empty
      /\ torn' = (torn \/ pc = "write")
      /\ UNCHANGED <<factory, flash, psa, converted, wiped>>
  BY DEF Reset
<1>3. /\ Limit' = End /\ (KeysIn' <=> KeysIn) /\ (Untouched' <=> Untouched)
      /\ (Plain(flash)' <=> Plain(flash))
  BY <1>1 DEF Limit, KeysIn, FactoryTypes, Untouched, Plain
<1>4. \A t : \A size \in Nat : Held(flash, t, size, Limit) => Held(flash, t, size, End)
  BY <1>0, HeldWider, SizesAssumption
<1>5. FlagsHeld(flash, Limit) => FlagsHeld(flash', Limit')
  BY <1>1, <1>3, <1>4, SizesAssumption DEF FlagsHeld
<1>6. Complete(flash, Limit) => Complete(flash, Limit)'
  <2> SUFFICES ASSUME Complete(flash, Limit), NEW i \in 1 .. Len(factory.entries),
                      factory.entries[i].type \notin Keys
               PROVE  Copied(flash, factory.entries[i].type, factory.entries[i].size, End)
    BY <1>1, <1>3 DEF Complete
  <2>1. factory.entries[i].size \in Nat
    BY <1>0, EntryTyped
  <2>2. Copied(flash, factory.entries[i].type, factory.entries[i].size, Limit)
    BY DEF Complete
  <2> QED
    BY <1>4, <2>1, <2>2 DEF Copied
<1>7. Settled'
  <2>1. CASE pc = "write"
    BY <1>1, <1>3, <2>1, CutWrite DEF Settled
  <2>2. CASE pc # "write"
    <3>1. Settled
      BY <2>2 DEF InOrder
    <3>2. CASE Untouched
      BY <1>3, <3>2 DEF Settled
    <3>3. CASE ~Untouched
      <4>1. /\ KeysIn
            /\ flash[0].kind = "marker" =>
                  flash[0].a = 8 /\ (FlagsHeld(flash, Limit) \/ Plain(flash))
            /\ \/ torn \/ wiped
               \/ /\ flash[0].kind = "marker" /\ FlagsHeld(flash, Limit)
                  /\ Complete(flash, Limit)
        BY <3>1, <3>3 DEF Settled
      <4> QED
        BY <1>1, <1>3, <1>5, <1>6, <4>1 DEF Settled
    <3> QED
      BY <3>2, <3>3
  <2> QED
    BY <2>1, <2>2
<1>8. converted /\ ~wiped => flash[0].kind = "marker" /\ FlagsHeld(flash, Limit)
  BY DEF InOrder
<1>9. wiped => flash[0].kind # "marker"
  BY DEF InOrder
<1> QED
  BY <1>1, <1>5, <1>7, <1>8, <1>9 DEF InOrder

\* What is held at a limit stays held if nothing before the limit changes.
LEMMA HeldBefore ==
    ASSUME NEW mem \in Regions, NEW new \in Regions, NEW t \in Types \ {Empty}, NEW size \in Nat,
           NEW limit \in Nat, limit <= End, \A x \in Offsets : x < limit => new[x] = mem[x]
    PROVE  /\ Held(mem, t, size, limit) => Held(new, t, size, limit) /\ Place(new, t) = Place(mem, t)
           /\ Copied(mem, t, size, limit) => Copied(new, t, size, limit)
<1> DEFINE r == Place(mem, t)
           z == Place(mem, t) + 1 + size + CALCULATE_PADDING(size)
<1>1. r \in Nat /\ z \in Nat /\ r < z
  BY PlaceTyped, PaddingTyped
<1>2. ASSUME Held(mem, t, size, limit) PROVE z <= limit
  BY <1>2 DEF Held
<1> HIDE DEF r, z
<1>3. ASSUME Held(mem, t, size, limit) PROVE Held(new, t, size, limit) /\ Place(new, t) = r
  <2>1. \A x \in Offsets : x <= r => new[x] = mem[x]
    BY <1>1, <1>2, <1>3 DEF Offsets
  <2> QED
    BY <1>3, <2>1, HeldKept DEF r
<1>4. ASSUME Copied(mem, t, size, limit) PROVE Copied(new, t, size, limit)
  <2>1. \A x \in Offsets : x < z => new[x] = mem[x]
    BY <1>1, <1>2, <1>4 DEF Offsets, Copied
  <2> QED
    BY <1>4, <2>1, CopiedKept DEF z
<1> QED
  BY <1>3, <1>4 DEF r

\* So do the flags.
LEMMA FlagsBefore ==
    ASSUME NEW mem \in Regions, NEW new \in Regions, NEW limit \in Nat, limit <= End,
           \A x \in Offsets : x < limit => new[x] = mem[x], FlagsHeld(mem, limit)
    PROVE  FlagsHeld(new, limit)
<1> DEFINE r == Place(mem, Flags)
           pad == CALCULATE_PADDING(Align)
<1>0. Flags \in Types \ {Empty} /\ Align \in Nat
  BY TypesAssumption, SizesAssumption
<1>1. Held(mem, Flags, Align, limit) /\ \A i \in 1 .. Align : mem[r + i] \in {Erased, Byte(Flags, i)}
  BY DEF FlagsHeld
<1>2. Held(new, Flags, Align, limit) /\ Place(new, Flags) = r
  BY <1>0, <1>1, HeldBefore
<1>3. r \in Nat /\ pad \in Nat /\ r + 1 + Align + pad <= limit
  BY <1>0, <1>1, PlaceTyped, PaddingTyped DEF Held
<1>4. ASSUME NEW i \in 1 .. Align PROVE new[r + i] \in {Erased, Byte(Flags, i)}
  <2> HIDE DEF r, pad
  <2>1. r + i \in Offsets /\ r + i < limit
    BY <1>0, <1>3, SizesAssumption DEF Offsets
  <2> QED
    BY <1>1, <2>1
<1> QED
  BY <1>2, <1>4 DEF FlagsHeld

\* A region that was written behind what is held is still settled and complete.
LEMMA WrittenBehind ==
    ASSUME Sound, InOrder, pc = "ready", NEW mem \in Regions, NEW limit \in Nat, limit <= Limit,
           NEW wider \in Nat, limit <= wider, wider <= End,
           0 < limit, \A x \in Offsets : x < limit => mem[x] = flash[x],
           \A t \in Types \ {Empty} : \A size \in 1 .. Base - 1 :
               /\ Held(flash, t, size, Limit) => Held(flash, t, size, limit)
               /\ Copied(flash, t, size, Limit) => Copied(flash, t, size, limit),
           flash' = mem, Limit' = wider, pc' = "ready",
           UNCHANGED <<factory, psa, ram, converted, torn, wiped>>
    PROVE  InOrder'
<1>0. /\ flash \in Regions /\ factory \in Factory /\ Limit \in Nat /\ Limit <= End
  BY StateTyped
<1>1. mem[0] = flash[0]
  <2>1. 0 \in Offsets
    BY SizesAssumption DEF Offsets
  <2> QED
    BY <2>1
<1>2. Flags \in Types \ {Empty} /\ Align \in Nat /\ Align \in 1 .. Base - 1
  BY TypesAssumption, SizesAssumption
<1>3. limit <= End
  BY <1>0, SizesAssumption
<1>4. FlagsHeld(flash, Limit) => FlagsHeld(flash', Limit')
  <2> SUFFICES ASSUME FlagsHeld(flash, Limit) PROVE FlagsHeld(mem, wider)
    OBVIOUS
  <2>1. FlagsHeld(flash, limit)
    BY <1>2 DEF FlagsHeld
  <2>2. FlagsHeld(mem, limit)
    BY <1>0, <1>3, <2>1, FlagsBefore
  <2>3. Held(mem, Flags, Align, wider)
    BY <1>2, <2>2, HeldWider DEF FlagsHeld
  <2> QED
    BY <2>2, <2>3 DEF FlagsHeld
<1>5. Complete(flash, Limit) => Complete(flash, Limit)'
  <2> SUFFICES ASSUME Complete(flash, Limit), NEW i \in 1 .. Len(factory.entries),
                      factory.entries[i].type \notin Keys
               PROVE  Copied(mem, factory.entries[i].type, factory.entries[i].size, wider)
    BY DEF Complete
  <2> DEFINE u == factory.entries[i].type
             m == factory.entries[i].size
  <2>1. u \in Types \ {Empty} /\ m \in Nat /\ m >= 1 /\ m < Base /\ Copied(flash, u, m, Limit)
    BY <1>0, EntryTyped DEF Complete
  <2> HIDE DEF u, m
  <2>2. m \in 1 .. Base - 1
    BY <2>1, SizesAssumption
  <2>3. Copied(flash, u, m, limit)
    BY <2>1, <2>2
  <2>4. Copied(mem, u, m, limit)
    BY <1>0, <1>3, <2>1, <2>3, HeldBefore
  <2>5. Held(mem, u, m, wider)
    BY <2>1, <2>4, HeldWider DEF Copied
  <2>6. Copied(mem, u, m, wider)
    BY <2>4, <2>5 DEF Copied
  <2> QED
    BY <2>6 DEF u, m
<1>6. /\ KeysIn /\ (flash[0].kind = "marker" => FlagsHeld(flash, Limit))
      /\ (torn \/ wiped \/ Complete(flash, Limit)) /\ Settled
      /\ (wiped => flash[0].kind # "marker")
      /\ (converted /\ ~wiped => flash[0].kind = "marker")
  BY DEF InOrder
<1>7. Untouched => flash[0].kind = "marker" /\ ~FlagsHeld(flash, Limit)
  BY <1>0, UntouchedNoFlags
<1>8. /\ flash[0].kind = "marker" => flash[0].a = 8
      /\ torn \/ wiped \/ flash[0].kind = "marker"
  BY <1>6, <1>7 DEF Settled
<1>9. KeysIn'
  BY <1>6 DEF KeysIn, FactoryTypes
<1>10. Settled'
  BY <1>1, <1>4, <1>5, <1>6, <1>8, <1>9 DEF Settled
<1> QED
  BY <1>1, <1>4, <1>5, <1>6, <1>9, <1>10 DEF InOrder

\* A diagnostic write puts its header behind everything that is held.
LEMMA WriteHeaderStep ==
    ASSUME Sound, InOrder, NEW type \in NewTypes, WriteHeader(type)
    PROVE  InOrder'
<1> DEFINE n == get_next_free_offset(flash)
           cells == <<tlv_header(type, 1)>>
<1>0. /\ flash \in Regions /\ factory \in Factory /\ Limit \in Nat /\ Limit <= End
  BY StateTyped
<1>1. /\ pc = "ready" /\ writing = Empty /\ Fits(flash, 1)
      /\ flash' = Put(flash, n, cells) /\ pos' = n + 1 /\ writing' = type
      /\ UNCHANGED <<factory, psa, pc, ram, converted, torn, wiped>>
  BY DEF WriteHeader, history
<1>2. type \in Types /\ type # Empty
  BY TypesAssumption
<1>3. n \in Nat /\ n >= 1 /\ CALCULATE_PADDING(1) \in Nat /\ n + 1 + 1 + CALCULATE_PADDING(1) <= End
  BY <1>0, <1>1, FreeOffset, PaddingTyped, SizesAssumption DEF Fits
<1>4. cells \in Seq(Cells)
  BY <1>2, CellsTyped
<1>5. Limit = End
  BY <1>1 DEF Limit
<1>6. \A t \in Types \ {Empty} : \A size \in 1 .. Base - 1 :
          /\ Held(flash, t, size, Limit) => Held(flash, t, size, n)
          /\ Copied(flash, t, size, Limit) => Copied(flash, t, size, n)
  <2> SUFFICES ASSUME NEW t \in Types \ {Empty}, NEW size \in 1 .. Base - 1
               PROVE  /\ Held(flash, t, size, Limit) => Held(flash, t, size, n)
                      /\ Copied(flash, t, size, Limit) => Copied(flash, t, size, n)
    OBVIOUS
  <2>1. Held(flash, t, size, Limit) => Held(flash, t, size, n)
    BY <1>0, HeldFound DEF Held
  <2> QED
    BY <2>1 DEF Copied
<1> HIDE DEF cells, n
<1>7. flash' \in Regions /\ \A o \in Offsets : o < n => flash'[o] = flash[o]
  BY <1>0, <1>1, <1>3, <1>4, PutCells
<1>8. Limit' = n
  BY <1>1, <1>2, <1>3 DEF Limit
<1>9. n <= End
  BY <1>3, SizesAssumption
<1>11. n <= Limit /\ 0 < n
  BY <1>3, <1>5, <1>9
<1> QED
  BY <1>1, <1>3, <1>6, <1>7, <1>8, <1>9, <1>11, WrittenBehind

\* And its data behind that.
LEMMA WriteDataStep ==
    ASSUME Sound, InOrder, WriteData
    PROVE  InOrder'
<1>0. /\ flash \in Regions /\ factory \in Factory /\ Limit \in Nat /\ Limit <= End /\ pos \in Nat
  BY StateTyped
<1>1. /\ pc = "ready" /\ writing # Empty /\ writing \in NewTypes /\ pos \in 2 .. End - 1
      /\ flash' = [flash EXCEPT ![pos] = Cell("byte", writing, 1, 1)] /\ writing' = Empty
      /\ UNCHANGED <<factory, psa, pc, pos, ram, converted, torn, wiped>>
  BY DEF Sound, TypeOK, WriteData, history
<1>2. Limit = pos - 1 /\ Limit' = End /\ End \in Nat /\ Limit > 0
  BY <1>1, SizesAssumption DEF Limit
<1>3. Cell("byte", writing, 1, 1) \in Cells
  BY <1>1, TypesAssumption, SizesAssumption DEF Cell, Cells
<1>4. flash' \in Regions
  BY <1>0, <1>1, <1>3 DEF Regions
<1>5. \A o \in Offsets : o < Limit => flash'[o] = flash[o]
  BY <1>0, <1>1, <1>2 DEF Regions, Offsets
<1> DEFINE l == Limit
           w == End
<1>7. l \in Nat /\ l <= Limit /\ l <= w /\ w <= End /\ 0 < l /\ w \in Nat /\ Limit' = w
  BY <1>0, <1>2
<1> HIDE DEF w
<1> QED
  BY <1>1, <1>4, <1>5, <1>7, WrittenBehind

\* Erasing on demand leaves no marker.
LEMMA StoreEraseStep ==
    ASSUME Sound, InOrder, sid_pal_mfg_store_erase
    PROVE  InOrder'
<1>1. /\ pc = "ready" /\ writing = Empty /\ flash' = Blank /\ wiped' = TRUE /\ KeysIn
      /\ UNCHANGED <<factory, psa, pc, pos, ram, writing, converted, torn>>
  BY DEF InOrder, sid_pal_mfg_store_erase
<1>2. flash' \in Regions /\ flash'[0] = Erased
  BY <1>1, BlankRegion, SizesAssumption DEF Blank, Offsets
<1>3. flash'[0].kind # "marker"
  BY <1>2 DEF Erased, Cell
<1>4. KeysIn'
  BY <1>1 DEF KeysIn, FactoryTypes
<1>6. Settled'
  BY <1>1, <1>3, <1>4 DEF Settled
<1> QED
  BY <1>1, <1>3, <1>4, <1>6 DEF InOrder

\* A parser that stopped at an overrun leaves the region as it was.
LEMMA OverrunStep ==
    ASSUME Sound, InOrder, Overrun, ~misread'
    PROVE  InOrder'
<1>1. /\ pc = "parse" /\ pc' = "stopped" /\ writing = Empty /\ ~wiped /\ ~converted /\ Settled
      /\ UNCHANGED <<factory, flash, psa, pos, ram, writing, converted, torn, wiped>>
  BY DEF Sound, InOrder, Overrun, Parses, Goes
<1>2. Settled'
  BY <1>1, SettledKept
<1> QED
  BY <1>1, <1>2 DEF InOrder

\* Nothing changes if no step is taken.
LEMMA StutterStep ==
    ASSUME Sound, InOrder, UNCHANGED vars
    PROVE  InOrder'
<1>1. UNCHANGED <<factory, flash, psa, pc, pos, ram, writing, converted, torn, wiped>>
  BY DEF vars, history
<1>2. Limit' = Limit
  BY <1>1 DEF Limit
<1>3. /\ (Untouched' <=> Untouched) /\ (KeysIn' <=> KeysIn)
      /\ (Complete(flash, Limit)' <=> Complete(flash, Limit))
      /\ (Plain(flash)' <=> Plain(flash)) /\ (ImageGrows' <=> ImageGrows)
  BY <1>1, <1>2 DEF Untouched, KeysIn, FactoryTypes, Complete, Plain, ImageGrows, FreeBehind
<1>4. Settled' <=> Settled
  BY <1>1, <1>2, <1>3 DEF Settled
<1>5. FirstTime' <=> FirstTime
  BY <1>1 DEF FirstTime, Untouched, AtEntry, Parsed, Passed
<1>6. Again' <=> Again
  BY <1>1, <1>3 DEF Again
<1>7. ImageReady' <=> ImageReady
  BY <1>1, <1>3 DEF ImageReady, Complete
<1> QED
  BY <1>1, <1>2, <1>3, <1>4, <1>5, <1>6, <1>7 DEF InOrder

\* Every step keeps the invariant: it stays in order, or something torn was misread.
LEMMA StepIInv ==
    ASSUME IInv, [Next]_vars
    PROVE  IInv'
<1>0. Sound /\ Sound' /\ torn \in BOOLEAN /\ misread \in BOOLEAN
  BY SoundStep DEF IInv, Sound, TypeOK
<1>1. (torn => torn') /\ (misread => misread')
  <2>1. CASE InitHeader \/ ParseValue \/ ParseKey \/ Overrun \/ ParseFlags
    <3>1. torn' = torn
      BY <2>1 DEF InitHeader, ParseValue, ParseKey, Overrun, ParseFlags
    <3>2. misread => misread'
      BY <2>1 DEF InitHeader, ParseValue, ParseKey, Overrun, ParseFlags, Parses
    <3> QED
      BY <3>1, <3>2
  <2>2. CASE WriteFlash \/ Reset
    <3>1. misread' = misread
      BY <2>2 DEF WriteFlash, Reset
    <3>2. torn => torn'
      BY <2>2 DEF WriteFlash, Reset
    <3> QED
      BY <3>1, <3>2
  <2>3. CASE \/ ParseBegin \/ sid_crypto_keys_new_import \/ EraseFlash \/ WriteData
             \/ (\E type \in NewTypes : WriteHeader(type)) \/ sid_pal_mfg_store_erase
             \/ UNCHANGED vars
    <3>1. UNCHANGED <<torn, misread>>
      BY <2>3 DEF ParseBegin, sid_crypto_keys_new_import, EraseFlash, WriteData, WriteHeader,
                  sid_pal_mfg_store_erase, history, vars
    <3> QED
      BY <3>1
  <2> QED
    BY <2>1, <2>2, <2>3 DEF Next
<1>2. CASE misread
  BY <1>0, <1>1, <1>2 DEF IInv
<1>3. CASE ~misread /\ misread'
  <2>1. InOrder
    BY <1>3 DEF IInv
  <2>2. CASE Next
    BY <1>0, <1>3, <2>1, <2>2, MisreadTorn DEF IInv
  <2>3. CASE UNCHANGED vars
    BY <1>3, <2>3 DEF vars, history
  <2> QED
    BY <2>2, <2>3
<1>4. CASE ~misread /\ ~misread'
  <2>1. InOrder
    BY <1>4 DEF IInv
  <2>2. CASE UNCHANGED vars
    BY <1>0, <1>4, <2>1, <2>2, StutterStep DEF IInv
  <2>3. CASE Next
    <3>1. InOrder'
      BY <1>0, <1>4, <2>1, <2>3, InitHeaderStep, ParseBeginStep, ParseValueStep, ParseKeyStep,
         OverrunStep, ImportStep, ParseFlagsStep, EraseFlashStep, WriteFlashStep, ResetStep,
         WriteHeaderStep, WriteDataStep, StoreEraseStep DEF Next
    <3> QED
      BY <1>0, <1>4, <3>1 DEF IInv
  <2> QED
    BY <2>2, <2>3
<1> QED
  BY <1>2, <1>3, <1>4

\* The inductive invariant holds in every reachable state.
LEMMA AlwaysIInv == Spec => []IInv
<1>1. Init => IInv
  BY InitIInv
<1>2. IInv /\ [Next]_vars => IInv'
  BY StepIInv
<1> QED
  BY <1>1, <1>2, PTL DEF Spec

-----------------------------------------------------------------------------
(***************************************************************************)
(* The theorems.                                                           *)
(***************************************************************************)

\* The variables keep their types.
THEOREM StorageTypes == Spec => []TypeOK
<1>1. IInv => TypeOK
  BY DEF IInv, Sound
<1> QED
  BY <1>1, AlwaysIInv, PTL

\* Whatever the factory wrote that fits the parser's buffer, whatever fails and whenever the
\* device restarts, the flash is as the factory left it until all its private keys are in secure
\* storage, and they stay there as long as the parser takes no payload for a header and does not
\* overrun its buffer (sid_mfg_storage.c, sid_mfg_hex_v7.c and sid_mfg_hex_v8.c;
\* sid_crypto_keys.c).
THEOREM PrivateKeysNeverLost == Spec => []KeysNotLost
<1>1. IInv => KeysNotLost
  <2> SUFFICES ASSUME IInv, ~misread PROVE KeysIn \/ Untouched
    BY DEF KeysNotLost, KeysIn, Untouched
  <2>0. InOrder
    BY DEF IInv
  <2>1. CASE pc = "write"
    BY <2>0, <2>1 DEF InOrder, ImageReady
  <2>2. CASE pc # "write"
    BY <2>0, <2>2 DEF InOrder, Settled
  <2> QED
    BY <2>1, <2>2
<1> QED
  BY <1>1, AlwaysIInv, PTL

\* A boot never converts a region that was converted from headers: it finds the flags, behind
\* padding, values and later diagnostic writes (sid_mfg_storage.c, sid_pal_mfg_store_init).
THEOREM NeverConvertedAgain == Spec => []ConvertedOnce
<1>1. IInv => ConvertedOnce
  BY DEF IInv, InOrder, ConvertedOnce
<1> QED
  BY <1>1, AlwaysIInv, PTL

\* When init reports success every value of the factory reads back as it was, if no conversion
\* was cut while it wrote and the region was not erased on demand (tlv.c, tlv_write and tlv_read).
\* A region that was not torn is never misread, so nothing is excepted on that account.
THEOREM ReadyIsComplete == Spec => []ReadyMeansComplete
<1>1. IInv => ReadyMeansComplete
  <2> SUFFICES ASSUME IInv, pc = "ready", ~torn, ~wiped, NEW type \in FactoryTypes \ Keys
               PROVE  tlv_read(flash, type, SizeOf(type)) = PayloadOf(type, SizeOf(type))
    BY DEF ReadyMeansComplete
  <2> DEFINE es == factory.entries
             k == CHOOSE i \in 1 .. Len(es) : es[i].type = type
             size == es[k].size
  <2>0. /\ flash \in Regions /\ factory \in Factory /\ Limit \in Nat /\ Limit <= End
    BY StateTyped DEF IInv
  <2>1. k \in 1 .. Len(es) /\ es[k].type = type
    BY DEF FactoryTypes
  <2>2. SizeOf(type) = size
    BY DEF SizeOf
  <2> HIDE DEF k
  <2>3. /\ type \in Types \ {Empty} /\ size \in Nat /\ size >= 1 /\ size < Base
    BY <2>0, <2>1, EntryTyped
  <2>4. Copied(flash, type, size, Limit)
    BY <2>1, <2>3 DEF IInv, InOrder, Complete
  <2> HIDE DEF size
  <2>5. size \in 1 .. Base - 1
    BY <2>3, SizesAssumption
  <2>6. tlv_read(flash, type, size) = PayloadOf(type, size)
    BY <2>0, <2>3, <2>4, <2>5, ReadBack
  <2> QED
    BY <2>2, <2>6
<1> QED
  BY <1>1, AlwaysIInv, PTL
=============================================================================
