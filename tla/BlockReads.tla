----------------------------- MODULE BlockReads -----------------------------
(***************************************************************************)
(* Reading a committed file block by block: multiStore.Get, readAt and     *)
(* readAtVariable of cmd/fvs2d/tree.go.                                    *)
(*                                                                         *)
(* A file is [size, blocks, sizes].  Blocks are addressed by content, so a *)
(* block stands for its own id.  `sizes' are the sizes of the blocks in a  *)
(* format 2 commit; a format 1 file has none and blocks of one size.       *)
(***************************************************************************)
EXTENDS Integers, Sequences, FiniteSets
SeqOps == INSTANCE SequencesExt

DefaultBlockSize == 4096
BlockSize(blockSize) == IF blockSize > 0 THEN blockSize ELSE DefaultBlockSize

\* multiStore.Get: whether some store has the block.
CanGet(stores, block) == \E i \in DOMAIN stores : block \in stores[i]

\* buildTree: the offsets of the blocks of a format 2 file.
IsVariable(n) == Len(n.sizes) = Len(n.blocks) /\ n.blocks # <<>>
BlockStart(n, i, bs) ==
  IF IsVariable(n) THEN SeqOps!FoldLeft(+, 0, SubSeq(n.sizes, 1, i - 1))
  ELSE (i - 1) * bs

\* Mutant: the search for the first block stops one short of it.
FirstBlock_Next(n, off, bs) ==
  1 + Cardinality({i \in DOMAIN n.blocks : BlockStart(n, i, bs) < off})
\* The block that the loop begins with: by binary search, or by division.
FirstBlock(n, off, bs) ==
  IF IsVariable(n)
    THEN SeqOps!Max({i \in DOMAIN n.blocks : BlockStart(n, i, bs) <= off} \cup {1})
    ELSE off \div bs + 1

\* The part of block i that lies in [off, end), as positions in the block.
Piece(n, i, off, end, bs) ==
  LET start == BlockStart(n, i, bs)
  IN [from |-> SeqOps!Max({0, off - start}),
      to   |-> SeqOps!Min({Len(n.blocks[i]), end - start})]

Error == [err |-> TRUE, data |-> <<>>]
Data(d) == [err |-> FALSE, data |-> d]

\* readAt and readAtVariable: a loop over the blocks from the first one on.
ReadAt(n, off, length, blockSize, stores) ==
  LET end   == SeqOps!Min({off + length, n.size})
      bs    == BlockSize(blockSize)
      first == FirstBlock(n, off, bs)
      used  == {i \in DOMAIN n.blocks : i >= first /\ BlockStart(n, i, bs) < end}
      piece(i) == Piece(n, i, off, end, bs)
      bytes(i) == SubSeq(n.blocks[i], piece(i).from + 1, piece(i).to)
      fails(i) == ~CanGet(stores, n.blocks[i]) \/ piece(i).from > piece(i).to
  IN IF off < 0 \/ off >= n.size \/ length <= 0 THEN Data(<<>>)
     ELSE IF \E i \in used : fails(i) THEN Error
     ELSE Data(SeqOps!FlattenSeq(
                 [k \in 1..Cardinality(used) |-> bytes(first + k - 1)]))

-----------------------------------------------------------------------------
(* The reference: a file is one sequence of bytes.                         *)

Content(n) == SeqOps!FlattenSeq(n.blocks)

\* A file as the library commits it: cut into blocks of the sizes it lists, or
\* of one size but for the last.
IsWhole(n, blockSize) ==
  /\ n.blocks \in Seq(Seq(Nat)) /\ n.sizes \in Seq(Nat) /\ blockSize \in Int
  /\ n.size = Len(Content(n))
  /\ \A i \in DOMAIN n.blocks :
       /\ n.blocks[i] # <<>>
       /\ IF IsVariable(n) THEN n.sizes[i] = Len(n.blocks[i])
          ELSE /\ Len(n.blocks[i]) <= BlockSize(blockSize)
               /\ i < Len(n.blocks) => Len(n.blocks[i]) = BlockSize(blockSize)

Slice(n, off, length) ==
  SubSeq(Content(n), off + 1, SeqOps!Min({off + length, n.size}))

\* The blocks with a byte in [off, off + length).
Overlapping(n, off, length) ==
  LET begin(i) == Len(SeqOps!FlattenSeq(SubSeq(n.blocks, 1, i - 1)))
      end(i) == begin(i) + Len(n.blocks[i])
  IN {n.blocks[i] : i \in {j \in DOMAIN n.blocks :
                             SeqOps!Max({begin(j), off}) < SeqOps!Min({end(j), off + length})}}
=============================================================================
