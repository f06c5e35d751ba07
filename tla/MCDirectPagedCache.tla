------------------------ MODULE MCDirectPagedCache ------------------------
(* Two files; the first can be accessed by one page or by two.             *)
EXTENDS DirectPagedCache

MCRegions == {[file |-> 1, pages |-> {1}], [file |-> 1, pages |-> {1, 2}],
              [file |-> 2, pages |-> {1}]}
=============================================================================
