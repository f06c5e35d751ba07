---------------------------- MODULE MCFileAccess ----------------------------
\* A directory, a file that has bytes and one that has none; one client that
\* writes and one that reads, through the views the traces and the aggregators
\* make.  Regions do not cross a strip's end unless they end at one.
EXTENDS FileAccess
MCDirectories == {<<"a">>}
Old == <<"a", "f">>
New == <<"b", "g">>
MCFiles == {Old, New}
MCFileSize == [f \in Files |-> IF f = Old THEN 24 ELSE 0]

Access(type, offset, bytes) == [view |-> View(0, type), offset |-> offset, size |-> bytes]
Ask(mode, path, how, all) == [mode |-> mode, path |-> path, how |-> how, accesses |-> all]
Read(path, how, all) == Ask("read", path, how, all)
Write(path, how, all) == Ask("write", path, how, all)
Pairs(writes, reads) == {[writer |-> w, reader |-> r] : w \in writes, r \in reads}

Columns(from, n) == Subarray(<<2, 8>>, <<2, n>>, <<0, from>>, "C", 1)

\* A file that grows under its reader: blocks of an indexed type from inside
\* one on, read whole, by pages, and from the first byte of a member to the
\* last of another; then a page that is filled in part, and two members' parts
\* of the rows of an array.
ReadWhole == Read(New, "plain", {Access(Contiguous(2, 4), 0, 12)})
ReadPages == Read(New, "pages", {Access(Basic(1), 3, 4)})
ReadSieve == Read(New, "sieve", {Access(Indexed(<<1>>, <<4>>, 1), 0, 1), Access(Basic(1), 11, 1)})
Growing ==
  Pairs({Write(New, "plain", {Access(Indexed(<<2, 1>>, <<0, 3>>, 1), 1, 4)})},
        {ReadWhole, ReadPages, ReadSieve})
  \union Pairs(
        {Write(New, "pages", {[Access(Indexed(<<1, 1>>, <<1, 7>>, 1), 0, 2) EXCEPT !.view.disp = 4]})},
        {ReadPages})
  \union Pairs(
        {Write(New, "join", {Access(Columns(0, 2), 0, 4), Access(Columns(6, 2), 0, 4)})},
        {ReadWhole})

\* A file of its full size: parts of rows that are joined to half rows and to
\* whole ones, an array in Fortran order, a second array of a view, a vector,
\* and blocks of bytes.
Full == Pairs(
  {Write(Old, "join", {Access(Columns(0, 2), 0, 4), Access(Columns(2, 2), 0, 4)})},
  {Read(Old, "plain", {Access(Basic(1), 0, 24)}),
   Read(Old, "plain", {Access(Vector(3, 2, 4, 1), 0, 6)}),
   Read(Old, "pages", {Access(Hindexed(<<1, 2>>, <<0, 6>>, 1), 0, 3)})})
  \union Pairs(
  {Write(Old, "plain", {Access(Subarray(<<2, 2, 2>>, <<1, 2, 1>>, <<1, 0, 1>>, "F", 2), 0, 4)})},
  {Read(Old, "plain", {Access(Subarray(<<2, 4>>, <<2, 2>>, <<0, 2>>, "C", 1), 4, 4)}),
   Read(Old, "join", {Access(Columns(0, 4), 0, 8), Access(Columns(4, 4), 0, 8)})})

MCTraces == Growing \union Full
=============================================================================
