------------------------------ MODULE FileTree ------------------------------
(***************************************************************************)
(* Paths and trees of files, as the committed trees (tree.go) and the      *)
(* union file system (fuse.go) use them.                                   *)
(***************************************************************************)
EXTENDS Naturals, Sequences, FiniteSets

CONSTANTS Names,       \* names of directory entries; none starts with .wh.
          MaxDepth     \* bound: the longest path

ASSUME DepthAssumption == MaxDepth \in Nat

\* A directory entry; the data of a file, or the target of a link, is whatever
\* tells versions apart.
Dir     == [kind |-> "dir",  data |-> "none"]
File(d) == [kind |-> "file", data |-> d]
Link(d) == [kind |-> "link", data |-> d]
Fifo    == [kind |-> "fifo", data |-> "none"]
None    == [kind |-> "none", data |-> "none"]

\* A path is a sequence of names; the root, <<>>, always exists.
Paths == UNION {[1..n -> Names] : n \in 1..MaxDepth}
PathsAndRoot == Paths \cup {<<>>}

Parent(p)    == SubSeq(p, 1, Len(p) - 1)
IsBelow(q, p) == Len(q) > Len(p) /\ SubSeq(q, 1, Len(p)) = p
Below(p)     == {q \in Paths : IsBelow(q, p)}
Ancestors(p) == {q \in Paths : IsBelow(p, q)}
Children(p)  == {q \in Paths : Len(q) = Len(p) + 1 /\ IsBelow(q, p)}

\* Everything in a tree is inside directories.
IsTree(t) ==
  \A p \in Paths : t[p] # None => \A q \in Ancestors(p) : t[q] = Dir
=============================================================================
