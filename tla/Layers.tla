------------------------------- MODULE Layers -------------------------------
(***************************************************************************)
(* Stacked layers and the inode tree: cmd/fvs2d/tree.go.  A layer is the   *)
(* list of entries of a committed state.  An entry is a path and what is   *)
(* there: a directory, a file, a link, a fifo, or a marker.  The marker    *)
(* Whiteout at p is the file .wh.<base> beside p, the marker Opaque at d   *)
(* the file .wh..wh..opq inside d.                                         *)
(*                                                                         *)
(* The modes of directories, which buildTree copies from their entries,    *)
(* are left out, and so is the sharing of equal block ids in memory.       *)
(***************************************************************************)
EXTENDS FileTree
Seqs == INSTANCE SequencesExt

Whiteout == [kind |-> "whiteout", data |-> "none"]
Opaque   == [kind |-> "opaque", data |-> "none"]
IsMarker(e) == e.entry \in {Whiteout, Opaque}

-----------------------------------------------------------------------------
(* buildMergedTreeFromRepos: `order' lists the paths as they were first    *)
(* added, `files' has the entry that now stands at each.                   *)

Nothing == [order |-> <<>>, files |-> <<>>]

\* Mutant: a path is listed again each time it is added.
Add_Again(m, e) ==
  [order |-> Append(m.order, e.path),
   files |-> [q \in DOMAIN m.files \cup {e.path} |->
                IF q = e.path THEN e.entry ELSE m.files[q]]]
\* add: a path keeps the place in the order that it has.
Add(m, e) ==
  [order |-> IF e.path \in DOMAIN m.files THEN m.order
             ELSE Append(m.order, e.path),
   files |-> [q \in DOMAIN m.files \cup {e.path} |->
                IF q = e.path THEN e.entry ELSE m.files[q]]]

\* Taking out the paths that a marker hides.
Keep(gone, kept, q) == IF q \in gone THEN kept ELSE Append(kept, q)
Drop(m, gone) ==
  [order |-> Seqs!FoldLeft(LAMBDA kept, q : Keep(gone, kept, q), <<>>, m.order),
   files |-> [q \in DOMAIN m.files \ gone |-> m.files[q]]]

\* Mutant: del takes out the path alone, not what is below it.
Del_PathOnly(m, p) == Drop(m, {p})
\* del(p, true).
Del(m, p) == Drop(m, {p} \cup Below(p))

\* The first loop over a layer's files.  For a marker in the root path.Dir
\* answers ".", and "./" begins no path: an opaque root hides nothing.
ApplyMarker(m, e) ==
  IF e.entry = Whiteout THEN Del(m, e.path)
  ELSE IF e.entry = Opaque /\ e.path # <<>> THEN Drop(m, Below(e.path))
  ELSE m

\* The second loop.
AddFile(m, e) == IF IsMarker(e) \/ e.path = <<>> THEN m ELSE Add(m, e)

\* Mutant: one loop, so that a marker also hides entries of its own layer.
ApplyLayer_OneLoop(m, layer) ==
  Seqs!FoldLeft(LAMBDA n, e : AddFile(ApplyMarker(n, e), e), m, layer)
\* One round of the loop over the layers: all markers, then all files.
ApplyLayer(m, layer) ==
  Seqs!FoldLeft(AddFile, Seqs!FoldLeft(ApplyMarker, m, layer), layer)

\* A single commit is not merged: its list goes to buildTree as it is, the
\* markers as files named .wh., of which only the directories show here.
AddRaw(m, e) ==
  AddFile(m, IF ~IsMarker(e) THEN e
             ELSE [path |-> IF e.entry = Whiteout THEN Parent(e.path) ELSE e.path,
                   entry |-> Dir])
SingleLayer(layer) == Seqs!FoldLeft(AddRaw, Nothing, layer)

\* The list given to buildTree.
Merged(m) ==
  [i \in DOMAIN m.order |->
     [path |-> m.order[i], entry |-> m.files[m.order[i]]]]

-----------------------------------------------------------------------------
(* buildTree: nodes by inode number; 1 is the root, 0 stands for nothing.  *)

NewNode(entry) == [entry |-> entry, children |-> <<>>]

\* A node put under a name in a directory, in place of what was there.
Attach(t, parent, name, entry) ==
  Append([t EXCEPT ![parent].children =
            [x \in DOMAIN @ \cup {name} |->
               IF x = name THEN Len(t) + 1 ELSE @[x]]],
         NewNode(entry))

Lookup(t, parent, name) ==
  IF parent # 0 /\ name \in DOMAIN t[parent].children
    THEN t[parent].children[name] ELSE 0

\* ensureDir, as one step of a walk: a tree and the node reached in it.
EnsureDir(at, name) ==
  LET child == Lookup(at.tree, at.node, name)
  IN IF child # 0 /\ at.tree[child].entry = Dir
       THEN [at EXCEPT !.node = child]
       ELSE [tree |-> Attach(at.tree, at.node, name, Dir),
             node |-> Len(at.tree) + 1]

\* The walk to an entry's place, then the entry itself.
Insert(t, e) ==
  LET steps == IF e.entry = Dir THEN e.path ELSE Parent(e.path)
      at    == Seqs!FoldLeft(EnsureDir, [tree |-> t, node |-> 1], steps)
  IN IF e.entry = Dir THEN at.tree
     ELSE Attach(at.tree, at.node, e.path[Len(e.path)], e.entry)

BuildTree(entries) == Seqs!FoldLeft(Insert, <<NewNode(Dir)>>, entries)

\* lookupTreePath, and what it finds at every path.
LookupPath(t, p) == Seqs!FoldLeft(LAMBDA ino, name : Lookup(t, ino, name), 1, p)
TreeView(t) ==
  [p \in Paths |-> LET ino == LookupPath(t, p)
                   IN IF ino = 0 THEN None ELSE t[ino].entry]

-----------------------------------------------------------------------------
(* What stacking means, without lists: the reference.  A directory that no *)
(* layer lists is there as long as something is in it.                     *)

Plain(layer) == {e \in Seqs!ToSet(layer) : ~IsMarker(e) /\ e.path # <<>>}
Has(layer, p, entry) == [path |-> p, entry |-> entry] \in Seqs!ToSet(layer)

\* What a commit lists is the snapshot of a directory: one entry for a path,
\* and something inside of it only if it is a directory.
IsSnapshot(layer) ==
  /\ layer \in Seq(Seqs!ToSet(layer))
  /\ \A e \in Seqs!ToSet(layer) :
       /\ e = [path |-> e.path, entry |-> e.entry]
       /\ e.path \in PathsAndRoot /\ e.entry # None
       /\ e.entry = Whiteout => e.path # <<>>
  /\ \A e, f \in Plain(layer) :
       /\ e.path = f.path => e = f
       /\ IsBelow(f.path, e.path) => e.entry = Dir

\* What the layer lists at p, and whether it has anything inside p.
OwnEntry(layer, p) ==
  LET here == {e \in Plain(layer) : e.path = p}
  IN IF here = {} THEN None ELSE (CHOOSE e \in here : TRUE).entry
HasInside(layer, p) == \E e \in Plain(layer) : IsBelow(e.path, p)

\* Whether the layer hides what is below it at p: a whiteout of p or of a
\* directory above, an opaque directory above, a non-directory above.
Hides(layer, p) ==
  \/ Has(layer, p, Whiteout)
  \/ \E q \in Ancestors(p) :
       \/ Has(layer, q, Whiteout) \/ Has(layer, q, Opaque)
       \/ OwnEntry(layer, q) \notin {Dir, None}

\* What is listed in a stack after one more layer on a stack that lists v.
Overlay(v, layer) ==
  [p \in Paths |->
     IF OwnEntry(layer, p) # None THEN OwnEntry(layer, p)
     ELSE IF Hides(layer, p) \/ (HasInside(layer, p) /\ v[p] # Dir) THEN None
     ELSE v[p]]

\* What a stack that lists v shows.
Shown(v) ==
  [p \in Paths |-> IF v[p] = None /\ \E q \in Below(p) : v[q] # None
                   THEN Dir ELSE v[p]]

\* The layer has something other than a directory, and no whiteout, where the
\* stack has a directory with entries.
Clashes(v, layer) ==
  \E p \in Paths : /\ OwnEntry(layer, p) \notin {None, Dir}
                   /\ ~Hides(layer, p)
                   /\ \E q \in Below(p) : v[q] # None
=============================================================================
