------------------------- MODULE FixedINodeLayoutOps -------------------------
(***************************************************************************)
(* FixedINodeStorageLayout (os/fixed_inode_storage_layout.cc): how an I/O  *)
(* node's file system assigns blocks to files, and which blocks hold a     *)
(* region of a file.  A layout is a record of the class's four members; a  *)
(* region is a record of an offset and an extent in bytes.                 *)
(***************************************************************************)
EXTENDS Integers, Sequences

CONSTANTS BlockSize,       \* fsBlockSize_
          SizeMod,         \* 2^64: the arithmetic on regions is unsigned
          FirstDataBlock   \* 1000 in the constructor

\* The block size divides the word, as every power of two does.
ASSUME LayoutAssumption ==
  /\ BlockSize \in Nat \ {0}
  /\ SizeMod \in Nat \ {0}
  /\ SizeMod % BlockSize = 0
  /\ FirstDataBlock \in Nat

EmptyLayout == [nextMetaDataBlock |-> 0, nextDataBlock |-> FirstDataBlock,
                metaDataBlocks |-> [n \in {} |-> 0], dataBlocks |-> [n \in {} |-> 0]]

Put(map, k, v) == [x \in DOMAIN map \union {k} |-> IF x = k THEN v ELSE map[x]]

\* addFileToLayout: one inode block, then contiguous data blocks.
\* Mutant of AddFile: the next inode block is not advanced.
AddFileNoMetaAdvance(layout, name, bytes) ==
  [nextMetaDataBlock |-> layout.nextMetaDataBlock,
   nextDataBlock     |-> layout.nextDataBlock + bytes \div BlockSize,
   metaDataBlocks    |-> Put(layout.metaDataBlocks, name, layout.nextMetaDataBlock),
   dataBlocks        |-> Put(layout.dataBlocks, name, layout.nextDataBlock)]
AddFile(layout, name, bytes) ==
  [nextMetaDataBlock |-> layout.nextMetaDataBlock + 1,
   nextDataBlock     |-> layout.nextDataBlock + bytes \div BlockSize,
   metaDataBlocks    |-> Put(layout.metaDataBlocks, name, layout.nextMetaDataBlock),
   dataBlocks        |-> Put(layout.dataBlocks, name, layout.nextDataBlock)]

BlocksOffset(offset) == offset \div BlockSize

\* The bytes of the region that precede the first block boundary inside it.
FirstBlockPortion(r) ==
  LET partial == ((BlocksOffset(r.offset) * BlockSize - r.offset) % SizeMod) % BlockSize
  IN IF r.extent < partial THEN r.extent ELSE partial

\* Mutant of NumBlocks: the tail is not counted.
NumBlocksNoTail(r) ==
  (r.extent \div BlockSize) + (IF FirstBlockPortion(r) # 0 THEN 1 ELSE 0)
NumBlocks(r) ==
  (r.extent \div BlockSize)
    + (IF FirstBlockPortion(r) # 0 THEN 1 ELSE 0)
    + (IF (r.extent - FirstBlockPortion(r)) % BlockSize # 0 THEN 1 ELSE 0)

\* The blocks of one region of a file whose first data block is first.
RegionBlocks(first, r) ==
  [i \in 1..NumBlocks(r) |-> first + BlocksOffset(r.offset) + i - 1]
=============================================================================
