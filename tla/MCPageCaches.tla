----------------------------- MODULE MCPageCaches ----------------------------
EXTENDS PageCaches

CONSTANTS c1, c2

MCClasses == {"blockIndexed", "singlePages", "progressive"}

MCProgressive == {"progressive"}

MCCaches == {c1, c2}

MCFiles == {1, 2}

\* Both processes use file 1, one of them file 2.
MCUsers == 1 :> {c1, c2} @@ 2 :> {c1}

\* Of file 1: a region of page 0; page 1 in full and another region of page 0;
\* regions of both.  Of file 2, more pages than the cache has entries.
MCAccesses ==
  {[file |-> 1, full |-> {}, part |-> (0 :> {"a"})],
   [file |-> 1, full |-> {1}, part |-> (0 :> {"b", "c"})],
   [file |-> 1, full |-> {}, part |-> (0 :> {"b"} @@ 1 :> {"a"})],
   [file |-> 2, full |-> {0, 1, 2}, part |-> << >>]}
=============================================================================
