----------------------------- MODULE DataTypes -----------------------------
(***************************************************************************)
(* common/*_data_type.cc: MPI data types as the file views of the          *)
(* simulator.  getRegionsByBytes(byteOffset, numBytes) gives the regions   *)
(* of a file that hold numBytes of data, from the byteOffset-th byte of    *)
(* data on.  The types here are built over an elementary one of width      *)
(* bytes, as those the traces and the aggregators make.                    *)
(***************************************************************************)
EXTENDS Integers, SequencesExt

Region(offset, extent) == [offset |-> offset, extent |-> extent]
End(r) == r.offset + r.extent
Least(a, b) == IF a < b THEN a ELSE b
Greatest(set) == CHOOSE x \in set : \A y \in set : x >= y
Lowest(set) == CHOOSE x \in set : \A y \in set : x <= y

(* A loop: what n steps make of start.                                     *)
Loop(Step(_, _), start, n) ==
    LET after[k \in 0..n] == IF k = 0 THEN start ELSE Step(after[k - 1], k) IN after[n]
ProductOf(s) == Loop(LAMBDA acc, k : acc * s[k], 1, Len(s))
SumOf(s) == Loop(LAMBDA acc, k : acc + s[k], 0, Len(s))

(* The constructors; extent and trueExtent are the same until resize.      *)
Basic(width) == [kind |-> "basic", width |-> width, extent |-> width, trueExtent |-> width]

Contiguous(count, width) ==
    [kind |-> "basic", width |-> width, extent |-> count * width, trueExtent |-> count * width]

Indexed(lens, disps, width) ==
    LET bytes == (lens[Len(lens)] + disps[Len(disps)]) * width
    IN  [kind |-> "indexed", lens |-> lens, disps |-> disps, width |-> width,
         extent |-> bytes, trueExtent |-> bytes]

BlockIndexed(len, disps, width) == Indexed([i \in DOMAIN disps |-> len], disps, width)

Subarray(sizes, subSizes, starts, order, width) ==
    LET bytes == width * ProductOf(sizes)
    IN  [kind |-> "subarray", sizes |-> sizes, subSizes |-> subSizes, starts |-> starts,
         order |-> order, width |-> width, extent |-> bytes, trueExtent |-> bytes]

StridedExtent(count, len, stride, width) == ((count - 1) * stride + len) * width
Vector(count, len, stride, width) ==
    LET bytes == StridedExtent(count, len, stride, width)
    IN  [kind |-> "vector", count |-> count, len |-> len, stride |-> stride, width |-> width,
         extent |-> bytes, trueExtent |-> bytes]

(* Blocks of lens[i] elements of widths[i] bytes, displaced in bytes.      *)
Struct(lens, disps, widths) ==
    LET bytes == Greatest({disps[i] + lens[i] * widths[i] : i \in DOMAIN lens})
    IN  [kind |-> "struct", lens |-> lens, disps |-> disps, widths |-> widths,
         extent |-> bytes, trueExtent |-> bytes]
Hindexed(lens, disps, width) == Struct(lens, disps, [i \in DOMAIN lens |-> width])

Resized(t, extent) == [t EXCEPT !.extent = extent]

-----------------------------------------------------------------------------
(* What a loop over a type has produced: its regions and their bytes.      *)
Nothing == [regions |-> <<>>, done |-> 0]
Give(acc, begin, length) ==
    [regions |-> Append(acc.regions, Region(begin, length)), done |-> acc.done + length]

(* How many blocks are gone through until n bytes are done: after the      *)
(* first instance of the type each has all of its data bytes.              *)
Rounds(blocks, data, n) == blocks * ((n \div data) + 2)

(* IndexedDataType.  A block is taken in part when the offset is inside    *)
(* it, and whole when the offset is not past it.                           *)
IndexedBlock(t, off, n, acc, k) ==
    LET blocks  == Len(t.lens)
        pass    == k \div blocks
        i       == (k % blocks) + 1
        data    == SumOf(t.lens) * t.width
        begin   == ((off \div data) + pass) * t.extent
        at      == (IF pass = 0 THEN off % data ELSE begin) % t.trueExtent
        before  == SumOf(SubSeq(t.lens, 1, i - 1)) * t.width
        bytes   == t.lens[i] * t.width
        inside  == at > before /\ at < before + bytes
        skipped == IF inside THEN at - before ELSE 0
    IN  IF acc.done >= n \/ at > before + bytes THEN acc
        ELSE Give(acc, begin + skipped + t.disps[i] * t.width, Least(bytes - skipped, n - acc.done))

IndexedRegions(t, off, n) ==
    Loop(LAMBDA acc, k : IndexedBlock(t, off, n, acc, k - 1), Nothing,
         Rounds(Len(t.lens), SumOf(t.lens) * t.width, n)).regions

(* SubarrayDataType: the dimensions from the slowest to the fastest.       *)
InMemoryOrder(t, s) == IF t.order = "C" THEN s ELSE Reverse(s)

NumArrayRegions(t) == ProductOf(Front(InMemoryOrder(t, t.subSizes)))

(* The offset of the region-th row: the digits of its number in the sizes  *)
(* of the slower dimensions are its coordinates.                           *)
ArrayMemoryLocation(t, region) ==
    LET sizes  == InMemoryOrder(t, t.sizes)
        sub    == InMemoryOrder(t, t.subSizes)
        start  == InMemoryOrder(t, t.starts)
        digit  == [d \in DOMAIN sub |->
                     IF d = Len(sub) THEN 0
                     ELSE (region \div ProductOf(SubSeq(sub, d + 1, Len(sub) - 1))) % sub[d]]
    IN  t.width * Loop(LAMBDA loc, d : start[d] + digit[d] + sizes[d] * loc, 0, Len(sub))

SubarrayContiguousCount(t) == Last(InMemoryOrder(t, t.subSizes))
ArrayContiguousCount(t) == Last(InMemoryOrder(t, t.sizes))

(* A row at a time; the first one of each array is cut when the offset     *)
(* lies between the row's ends in the first array.                         *)
SubarrayRow(t, off, n, acc, k) ==
    LET rows   == NumArrayRegions(t)
        data   == ProductOf(t.subSizes) * t.width
        array  == ((off \div data) + (k \div rows)) * t.trueExtent
        loc    == ArrayMemoryLocation(t, k % rows)
        length == SubarrayContiguousCount(t) * t.width
        cut    == IF k % rows = 0 /\ off >= loc /\ off < loc + length THEN off - loc ELSE 0
    IN  IF acc.done >= n THEN acc
        ELSE Give(acc, array + loc, Least(length - cut, n - acc.done))

SubarrayRegions(t, off, n) ==
    Loop(LAMBDA acc, k : SubarrayRow(t, off, n, acc, k - 1), Nothing,
         Rounds(NumArrayRegions(t), ProductOf(t.subSizes) * t.width, n)).regions

(* VectorDataType: a block at the head of every stride, for ever; strides  *)
(* are positive.                                                           *)
VectorBlock(t, n, acc) ==
    LET stride == t.stride * t.width
        block  == t.len * t.width
        within == acc.at % stride
        begin  == IF within > block THEN acc.at + stride - within ELSE acc.at
        length == IF within > block THEN block ELSE block - within
        taken  == Least(length, n - acc.done)
    IN  IF acc.done >= n THEN acc
        ELSE [regions |-> Append(acc.regions, Region(begin, taken)),
              done    |-> acc.done + taken,
              at      |-> ((begin \div stride) + 1) * stride]

VectorRegions(t, off, n) ==
    Loop(LAMBDA acc, k : VectorBlock(t, n, acc),
         [regions |-> <<>>, done |-> 0, at |-> off], Rounds(1, t.len * t.width, n)).regions

(* StructDataType: offsets count the holes too.                            *)
StructBlock(t, off, n, acc, k) ==
    LET blocks == Len(t.lens)
        pass   == k \div blocks
        i      == (k % blocks) + 1
        begin  == ((off \div t.trueExtent) + pass) * t.trueExtent
        now    == IF pass = 0 THEN off ELSE begin
        at     == now % t.trueExtent
        bytes  == t.lens[i] * t.widths[i]
    IN  IF acc.done >= n THEN acc
        ELSE IF at > t.disps[i] /\ at < t.disps[i] + bytes
        THEN Give(acc, now, Least(bytes - (at - t.disps[i]), n - acc.done))
        ELSE IF at <= t.disps[i] THEN Give(acc, begin + t.disps[i], Least(bytes, n - acc.done))
        ELSE acc

StructRegions(t, off, n) ==
    Loop(LAMBDA acc, k : StructBlock(t, off, n, acc, k - 1), Nothing,
         Rounds(Len(t.lens), SumOf([i \in DOMAIN t.lens |-> t.lens[i] * t.widths[i]]), n)).regions

RegionsByBytes(t, off, n) ==
    CASE t.kind = "basic"    -> <<Region(off, n)>>
      [] t.kind = "indexed"  -> IndexedRegions(t, off, n)
      [] t.kind = "subarray" -> SubarrayRegions(t, off, n)
      [] t.kind = "vector"   -> VectorRegions(t, off, n)
      [] t.kind = "struct"   -> StructRegions(t, off, n)
=============================================================================
