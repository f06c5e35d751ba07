-------------------------- MODULE MCNameOperations --------------------------
(***************************************************************************)
(* Two servers with metadata. The path of the file crosses from one to the *)
(* other and back: the root and d/e are on server 1, d and the file's      *)
(* metadata on server 2; the file has data on both. FileBuilder makes the  *)
(* root, d, d/e and the file in this order, so that the first handle of    *)
(* server 2 is the metadata of d.                                          *)
(***************************************************************************)
EXTENDS NameOperations

D == <<"d">>
E == <<"d", "e">>
F == <<"d", "e", "f">>
MCDirectories == {<<>>, D, E}
MCFiles == {F}
MCUnknown == {<<"d", "x">>, <<"x", "y">>}
MCMetaServer == [p \in MCDirectories \union MCFiles |-> IF p \in {D, F} THEN 2 ELSE 1]
MCDataServers == [p \in MCDirectories \union MCFiles |->
                    IF p = F THEN <<2, 1>> ELSE <<MCMetaServer[p]>>]
MCFirstHandle == [path |-> D, part |-> 0]
=============================================================================
