---------------------------- MODULE FileLayouts ----------------------------
(***************************************************************************)
(* From an access through a file view to what each server transfers:       *)
(* layout/data_type_processor.cc, layout/data_type_layout.cc and           *)
(* layout/simple_stripe_distribution.cc; and what the caches and the       *)
(* aggregators turn accesses into: common/file_page_utils.cc,              *)
(* common/file_region_set.cc and client/aggregator/.  An access is a       *)
(* record of a view, an offset in the view's data and a size in bytes.     *)
(***************************************************************************)
EXTENDS DataTypes

CONSTANTS StripSize, PageSize

ASSUME FileLayoutsAssumption == {StripSize, PageSize} \subseteq Nat \ {0}

(* The members of a set of numbers, the smallest first.                    *)
InOrder(set) ==
    [k \in 1..Cardinality(set) |->
       CHOOSE x \in set : Cardinality({y \in set : y < x}) = k - 1]

View(disp, type) == [disp |-> disp, type |-> type]
WholeFile == View(0, Basic(1))

LocateFileRegions(a) ==
    LET regions == RegionsByBytes(a.view.type, a.offset, a.size)
    IN  [k \in DOMAIN regions |-> [regions[k] EXCEPT !.offset = @ + a.view.disp]]

-----------------------------------------------------------------------------
(* SimpleStripeDistribution of object i of n, i from 0.                    *)
(* Mutant of NextMappedLogicalOffset: one past the object's strip still    *)
(* counts as in it.                                                        *)
NextMappedLogicalOffsetLate(i, n, off) ==
    LET diff == (off - i * StripSize) % (n * StripSize)
    IN  IF off < i * StripSize THEN i * StripSize
        ELSE IF diff > StripSize THEN off + n * StripSize - diff
        ELSE off
NextMappedLogicalOffset(i, n, off) ==
    LET diff == (off - i * StripSize) % (n * StripSize)
    IN  IF off < i * StripSize THEN i * StripSize
        ELSE IF diff >= StripSize THEN off + n * StripSize - diff
        ELSE off

LogicalToPhysical(i, n, off) ==
    LET stripes == off \div (n * StripSize)
        rest    == off - stripes * n * StripSize
    IN  stripes * StripSize
          + (IF rest < i * StripSize THEN 0
             ELSE IF rest < (i + 1) * StripSize THEN rest - i * StripSize
             ELSE StripSize)

PhysicalToLogical(i, n, off) ==
    (off \div StripSize) * StripSize * n + StripSize * i + (off % StripSize)

ContiguousLength(off) == StripSize - (off % StripSize)

(* distributeContiguousRegion: the strips of object i that the region      *)
(* meets, cut to limit, the object's bytes, unless the access may extend   *)
(* it.  acc.at is the next logical offset of the object.                   *)
(* Mutant of TakeStrip: the logical offset is taken for the object's own.  *)
TakeStripLogical(r, i, n, limit, extend, acc) ==
    LET phys   == acc.at
        strip  == ContiguousLength(phys)
        taken  == Least(strip, r.extent)
        bytes  == IF extend THEN taken ELSE Least(phys + taken, limit) - phys
        given  == IF extend \/ phys < limit THEN <<Region(phys, bytes)>> ELSE <<>>
    IN  IF acc.at >= End(r) THEN acc
        ELSE [layout |-> acc.layout \o given,
              at     |-> NextMappedLogicalOffset(i, n, acc.at + strip)]
TakeStrip(r, i, n, limit, extend, acc) ==
    LET phys   == LogicalToPhysical(i, n, acc.at)
        strip  == ContiguousLength(phys)
        taken  == Least(strip, r.extent)
        bytes  == IF extend THEN taken ELSE Least(phys + taken, limit) - phys
        given  == IF extend \/ phys < limit THEN <<Region(phys, bytes)>> ELSE <<>>
    IN  IF acc.at >= End(r) THEN acc
        ELSE [layout |-> acc.layout \o given,
              at     |-> NextMappedLogicalOffset(i, n, acc.at + strip)]

Distribute(r, i, n, limit, extend) ==
    Loop(LAMBDA acc, k : TakeStrip(r, i, n, limit, extend, acc),
         [layout |-> <<>>, at |-> NextMappedLogicalOffset(i, n, r.offset)],
         (r.extent \div (StripSize * n)) + 2).layout

(* processServerRequest of the access' regions; the client's layouts are   *)
(* the same.                                                               *)
ServerLayout(regions, i, n, limit, extend) ==
    Loop(LAMBDA layout, k : layout \o Distribute(regions[k], i, n, limit, extend),
         <<>>, Len(regions))

Length(layout) == SumOf([k \in DOMAIN layout |-> layout[k].extent])

(* getSubRegions: from the region that byte off is in, length bytes.  The  *)
(* first region is not shortened by what precedes off in it.               *)
TakeRest(layout, length, acc, k) ==
    IF acc.done >= length THEN acc
    ELSE Give(acc, layout[k].offset, Least(layout[k].extent, length - acc.done))
SubRegions(layout, off, length) ==
    LET first   == CHOOSE k \in DOMAIN layout :
                     /\ Length(SubSeq(layout, 1, k - 1)) <= off
                     /\ off < Length(SubSeq(layout, 1, k))
        skipped == off - Length(SubSeq(layout, 1, first - 1))
    IN  Loop(LAMBDA acc, k : TakeRest(layout, length, acc, first + k),
             Give(Nothing, layout[first].offset + skipped, Least(layout[first].extent, length)),
             Len(layout) - first).regions

-----------------------------------------------------------------------------
(* FileRegionSet::insert, and CyclicRegionSet's: one set of disjoint       *)
(* regions that do not touch.                                              *)
InsertRegion(set, r) ==
    LET lower    == {x \in set : x.offset <= r.offset}
        prev     == {x \in lower : (\A y \in lower : y.offset <= x.offset) /\ r.offset <= End(x)}
        begin    == Lowest({x.offset : x \in prev} \union {r.offset})
        end      == Greatest({End(x) : x \in prev} \union {End(r)})
        absorbed == {x \in set : x.offset > r.offset /\ x.offset <= end}
        last     == Greatest({End(x) : x \in absorbed} \union {end})
    IN  (set \ (prev \union absorbed)) \union {Region(begin, last - begin)}

RegionSpan(set) ==
    IF set = {} THEN 0 ELSE Greatest({End(x) : x \in set}) - Lowest({x.offset : x \in set})

RegionsInOrder(set) ==
    [k \in 1..Cardinality(set) |->
       CHOOSE x \in set : x.offset = InOrder({y.offset : y \in set})[k]]

-----------------------------------------------------------------------------
(* FilePageUtils, of the regions of an access.                             *)
RequestPages(regions) ==
    UNION {r.offset \div PageSize .. (End(r) - 1) \div PageSize : r \in Range(regions)}

(* Mutant of RequestPartialPages: the ends of the regions are not looked   *)
(* at.                                                                     *)
RequestPartialPagesBegun(regions) ==
    {r.offset \div PageSize : r \in {x \in Range(regions) : x.offset % PageSize # 0}}
RequestPartialPages(regions) ==
    {r.offset \div PageSize : r \in {x \in Range(regions) : x.offset % PageSize # 0}}
      \union {End(r) \div PageSize : r \in {x \in Range(regions) : End(x) % PageSize # 0}}

RequestFullPages(regions) == RequestPages(regions) \ RequestPartialPages(regions)

(* determinePartialPageRegions: what each region has of the page, the      *)
(* order of the cases is the code's.                                       *)
PartOnPage(p, r) ==
    LET begin == p * PageSize
        end   == begin + PageSize
    IN  IF r.offset <= begin /\ End(r) >= end THEN {Region(begin, PageSize)}
        ELSE IF r.offset >= begin /\ r.offset < end
        THEN {Region(r.offset, Least(end, End(r)) - r.offset)}
        ELSE IF End(r) >= begin /\ End(r) < end THEN {Region(begin, End(r) - begin)}
        ELSE {}
PartialPageRegions(p, regions) ==
    Loop(LAMBDA set, k : LET parts == PartOnPage(p, regions[k])
                         IN  IF parts = {} THEN set
                             ELSE InsertRegion(set, CHOOSE r \in parts : TRUE),
         {}, Len(regions))

PageView(pages) ==
    View(0, BlockIndexed(PageSize,
              [k \in 1..Cardinality(pages) |-> PageSize * InOrder(pages)[k]], 1))

-----------------------------------------------------------------------------
(* What is sent for a request of a cache or an aggregator.                 *)
(* The pages of an access, read or written back as a whole.                *)
WholePages(a, pages) ==
    [a EXCEPT !.view = PageView(pages), !.offset = 0, !.size = PageSize * Cardinality(pages)]
PagesAccess(a) == WholePages(a, RequestPages(LocateFileRegions(a)))

(* DataSievingAccessStrategy: from the first byte to the last.             *)
SievedAccess(all) ==
    LET regions == UNION {Range(LocateFileRegions(a)) : a \in all}
        begin   == Lowest({r.offset : r \in regions})
    IN  [(CHOOSE a \in all : TRUE) EXCEPT !.view = WholeFile, !.offset = begin,
           !.size = Greatest({End(r) : r \in regions}) - begin]

(* ViewAwareAccessStrategy: the members' parts of the fastest dimension    *)
(* are joined; the view is of the regions that result, of one part of      *)
(* whole rows, or of the whole file.                                       *)
RowPart(t) == Region(ArrayMemoryLocation(t, 0) \div t.width, SubarrayContiguousCount(t))

ViewOfRows(rows, cycle, t) ==
    LET parts == RegionsInOrder(rows)
    IN  IF Cardinality(rows) > 1
        THEN View(0, Resized(Indexed([k \in DOMAIN parts |-> parts[k].extent],
                                     [k \in DOMAIN parts |-> parts[k].offset], t.width), cycle))
        ELSE IF cycle # RegionSpan(rows)
        THEN View(0, Subarray(t.sizes, <<t.sizes[1], parts[1].extent>>,
                              <<0, parts[1].offset>>, "C", t.width))
        ELSE WholeFile

(* The offset is the first member's times eight, the type and the sizes    *)
(* are those of the first.                                                 *)
JoinedAccess(all) ==
    LET first == CHOOSE a \in all : TRUE
        t     == first.view.type
        members == SetToSeq(all)
        rows  == Loop(LAMBDA set, k : InsertRegion(set, RowPart(members[k].view.type)),
                      {}, Len(members))
    IN  [first EXCEPT !.view = ViewOfRows(rows, ArrayContiguousCount(t), t),
           !.offset = 8 * @,
           !.size = SumOf([k \in DOMAIN members |-> members[k].size])]
=============================================================================
