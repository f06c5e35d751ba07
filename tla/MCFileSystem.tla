---------------------------- MODULE MCFileSystem ----------------------------
\* A read of one region and a write of two, with operations on metadata and an
\* empty write to choose from.
EXTENDS FileSystem

Reg(o, e) == [offset |-> o, extent |-> e]
MCKind == [f \in Requests |-> CASE f = "r" -> "read" [] f = "w" -> "write"
                                [] f = "e" -> "write" [] f = "o" -> "open"
                                [] f = "c" -> "create" [] f = "u" -> "unlink"]
MCRegions == [f \in Requests |-> CASE f = "r" -> <<Reg(2, 1)>>
                                   [] f = "w" -> <<Reg(2, 1), Reg(9, 1)>>
                                   [] OTHER -> <<Reg(4, 0)>>]
=============================================================================
