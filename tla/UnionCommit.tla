---------------------------- MODULE UnionCommit ----------------------------
(***************************************************************************)
(* The upper directory of a union mount, taken as a layer: it is "itself   *)
(* ready to commit as a new state" (README.md).  This module puts the      *)
(* union file system (fuse.go) and the merge of layers (tree.go) together: *)
(* the same markers are read by dirEntries and stat while the mount lives, *)
(* and by buildMergedTreeFromRepos once the directory is committed.        *)
(*                                                                         *)
(* The commit itself is the fvs2 library's: it lists directories, files,   *)
(* links, fifos and the marker files, in an order of its own.              *)
(***************************************************************************)
EXTENDS UnionFS, Layers

CONSTANT CommitOrder   \* the order in which the library comes to the paths

ASSUME OrderAssumption ==
  /\ CommitOrder \in Seq(Paths)
  /\ \A p \in Paths : \E i \in DOMAIN CommitOrder : CommitOrder[i] = p

\* What the commit of a directory with tree d.up and markers d.wh lists at p.
CommitPath(d, list, p) ==
  LET marked == IF p \in d.wh THEN Append(list, [path |-> p, entry |-> Whiteout])
                ELSE list
  IN IF d.up[p] = None THEN marked
     ELSE Append(marked, [path |-> p, entry |-> d.up[p]])
CommitOf(d) ==
  Seqs!FoldLeft(LAMBDA list, p : CommitPath(d, list, p), <<>>, CommitOrder)

Restacked ==
  LET lowerLayer == CommitOf([up |-> lower, wh |-> {}])
      upperLayer == CommitOf([up |-> up, wh |-> wh])
      merged == ApplyLayer(ApplyLayer(Nothing, lowerLayer), upperLayer)
  IN TreeView(BuildTree(Merged(merged)))

\* A file or link stands in the upper directory where the commit below has a
\* directory with entries: the one case the merge gets wrong (LayerStack).
OverDirectory ==
  \E p \in Paths : /\ up[p] \notin {None, Dir} /\ p \notin wh
                   /\ \E q \in Below(p) : lower[q] # None

\* Committing the upper directory and mounting it on top of the same layers
\* shows what the mount showed: the handlers leave the markers that the merge
\* needs, after every sequence of calls and failures.
ReadyToCommit == ~OverDirectory => Restacked = View
=============================================================================
