----------------------------- MODULE MCUnionFS -----------------------------
(* UnionFS for TLC: two names, paths of one or two of them.                *)
EXTENDS UnionCommit, UnionCrash, TLC

CONSTANTS a, b

\* Parents first.
SomeOrder == Seqs!SetToSortSeq(Paths, LAMBDA p, q : Len(p) < Len(q))

\* The tree with the given entries and nothing else.
Tree(entries) == entries @@ [p \in Paths |-> None]

\* Directories with entries beside a file; a file beside an empty directory.
DirTree  == Tree(<<a>> :> Dir @@ <<a, a>> :> File("base") @@ <<b>> :> Dir
                 @@ <<b, a>> :> Link("base"))
SideTree == Tree(<<a>> :> File("base") @@ <<b>> :> Dir @@ <<b, b>> :> Dir)
FifoTree == Tree(<<a>> :> Fifo @@ <<b>> :> Link("base"))
FullTree == Tree(<<a>> :> Dir @@ <<a, a>> :> Dir @@ <<a, b>> :> Fifo
                 @@ <<b>> :> File("base"))
NoTree   == Tree(<<>>)

SomeTrees == {DirTree, SideTree, FifoTree, FullTree, NoTree}

\* last only records the call; states that differ in nothing else are one.
Mount == <<given, up, wh>>
=============================================================================
