----------------------------- MODULE LayerStack -----------------------------
(***************************************************************************)
(* Building the tree of a mount: every layer is resolved and loaded, then  *)
(* buildMergedTreeFromRepos (cmd/fvs2d/tree.go) takes them in one by one,  *)
(* lowest first.  The fvs2 library, which resolves and reads, is external. *)
(*                                                                         *)
(* Beside the lists the code keeps, `view' is what the stack should list,  *)
(* layer by layer; the data of a file is the number of its layer, which    *)
(* stands for bytes cut into blocks the way of that layer's commit.        *)
(***************************************************************************)
EXTENDS Layers, BlockReads, TLC

CONSTANTS LayerSet,    \* layers of a stack: [entries, blockSize, variable]
          MaxLayers    \* bound: layers of a stack

ASSUME StackAssumption == MaxLayers \in Nat \ {0}

\* What the library lists of a commit is the snapshot of a directory.
ASSUME LayerAssumption ==
  \A l \in LayerSet :
    IsSnapshot(l.entries) /\ l.blockSize \in Nat /\ l.variable \in BOOLEAN

VARIABLES status,   \* what the builder is at
          count,    \* layers merged so far
          merged,   \* order and files
          formats,  \* of the layers merged: [blockSize, variable]
          blockSize,\* of the tree
          view,     \* reference: what the stack lists
          regular   \* reference: no layer so far was one of the odd ones

blocks == <<formats, blockSize>>
vars == <<status, count, merged, blocks, view, regular>>

\* The loop only ever lists entries it has, each once; the reference view is
\* a tree, so the comparison below is between file systems.
TypeOK ==
  /\ status \in {"resolving", "merging", "built", "failed"}
  /\ count \in 0..MaxLayers
  /\ DOMAIN merged.files = {merged.order[i] : i \in DOMAIN merged.order}
  /\ Len(merged.order) = Cardinality(DOMAIN merged.files)
  /\ Len(formats) = count /\ blockSize \in Nat
  /\ IsTree(Shown(view))
  /\ regular \in BOOLEAN

Init ==
  /\ status = "resolving"
  /\ count = 0
  /\ merged = Nothing
  /\ formats = <<>> /\ blockSize = 0
  /\ view = [p \in Paths |-> None]
  /\ regular = TRUE

\* resolveLayer of every layer.  One that names no commit, or an empty
\* branch, or cannot be read, fails the whole.
Resolve ==
  /\ status = "resolving"
  /\ status' \in {"merging", "failed"}
  /\ UNCHANGED <<count, merged, blocks, view, regular>>

\* The layer's entries, its files told from those of other layers.
Stamp(layer, n) ==
  [i \in DOMAIN layer |->
     IF layer[i].entry.kind = "file"
       THEN [layer[i] EXCEPT !.entry = File(n)] ELSE layer[i]]

\* A layer whose stacking the code and the reference see differently: it puts
\* something else over a directory with entries; it makes a directory of a
\* file without an entry for the directory; its root is opaque.
Odd(v, layer) ==
  \/ Clashes(v, layer)
  \/ \E p \in Paths : /\ v[p] \notin {None, Dir} /\ ~Hides(layer, p)
                      /\ OwnEntry(layer, p) = None /\ HasInside(layer, p)
  \/ Has(layer, <<>>, Opaque)

\* Mutant: the first layer that has a block size decides.
LayerBlockSize_First(bs, l) == IF bs > 0 THEN bs ELSE l.blockSize
\* The tree's block size is that of the last layer that has one.
LayerBlockSize(bs, l) == IF l.blockSize > 0 THEN l.blockSize ELSE bs
Format(l) == [blockSize |-> l.blockSize, variable |-> l.variable]

MergeLayer(l) ==
  LET layer == Stamp(l.entries, count + 1)
  IN /\ status = "merging" /\ count < MaxLayers
     /\ count' = count + 1
     /\ merged' = ApplyLayer(merged, layer)
     /\ formats' = Append(formats, Format(l))
     /\ blockSize' = LayerBlockSize(blockSize, l)
     /\ view' = Overlay(view, layer)
     /\ regular' = (regular /\ ~Odd(view, layer))
     /\ UNCHANGED status

\* A daemon started for one commit builds its tree without the merge.
LoadSingle(l) ==
  LET layer == Stamp(l.entries, 1)
  IN /\ status = "merging" /\ count = 0
     /\ status' = "built"
     /\ count' = 1
     /\ merged' = SingleLayer(layer)
     /\ formats' = <<Format(l)>>
     /\ blockSize' = IF l.blockSize > 0 THEN l.blockSize ELSE DefaultBlockSize
     /\ view' = Overlay(view, layer)
     /\ regular' = \A i \in DOMAIN layer : ~IsMarker(layer[i])

\* The layer's block store cannot be opened.
MergeFails ==
  /\ status = "merging" /\ count < MaxLayers
  /\ status' = "failed"
  /\ UNCHANGED <<count, merged, blocks, view, regular>>

\* buildTree; a mount without layers is refused before.
Build ==
  /\ status = "merging" /\ count > 0
  /\ status' = "built"
  /\ blockSize' = IF blockSize > 0 THEN blockSize ELSE DefaultBlockSize
  /\ UNCHANGED <<count, merged, formats, view, regular>>

Next ==
  \/ Resolve \/ MergeFails \/ Build
  \/ \E l \in LayerSet : MergeLayer(l) \/ LoadSingle(l)

Spec == Init /\ [][Next]_vars

-----------------------------------------------------------------------------
\* The tree that buildTree makes of the lists as they stand.
Tree == BuildTree(Merged(merged))

\* A stack of layers shows, at every path, what the highest layer that has or
\* hides the path says: the order in which the loop keeps paths, the two
\* passes over a layer and buildTree's repairs of missing or replaced
\* directories do not show.
TreeIsOverlay == (count > 0 /\ regular) => TreeView(Tree) = Shown(view)

\* The file of layer n: three bytes, in blocks of that layer's size.  The
\* last block of a format 2 file is the longer one.
FileOf(n) ==
  LET x == n
      y == n + 10
      z == n + 20
  IN IF formats[n].variable
       THEN [size |-> 3, blocks |-> <<<<x>>, <<y, z>>>>, sizes |-> <<1, 2>>]
       ELSE [size |-> 3, sizes |-> <<>>,
             blocks |-> CASE formats[n].blockSize = 1 -> <<<<x>>, <<y>>, <<z>>>>
                          [] formats[n].blockSize = 2 -> <<<<x, y>>, <<z>>>>
                          [] OTHER -> <<<<x, y, z>>>>]

\* Each layer's own block store, without the blocks that are lost.
BlocksOf(n) == {FileOf(n).blocks[i] : i \in DOMAIN FileOf(n).blocks}
StoresWithout(lost) == [n \in 1..count |-> BlocksOf(n) \ lost]

\* No layer over one with blocks of a fixed size has another block size: the
\* tree keeps one block size for all.
SizesAgree ==
  \A n \in 1..count, m \in 1..count :
    ~formats[n].variable =>
      /\ n < m => formats[m].blockSize \in {0, formats[n].blockSize}
      /\ formats[n].blockSize = 0 => formats[m].blockSize = 0

\* A read of any part of a file of any layer gives that part of that layer's
\* bytes, up to the end of the file, and needs no block outside of that part:
\* with a block lost it fails exactly where it asks for a byte of it.
ReadsOwnData ==
  status = "built" /\ SizesAgree =>
    \A n \in {m \in 1..count : \E p \in Paths : TreeView(Tree)[p] = File(m)} :
      LET f == FileOf(n)
      IN \A off \in 0..3, length \in 0..4, lost \in {{}} \cup {{x} : x \in BlocksOf(n)} :
           ReadAt(f, off, length, blockSize, StoresWithout(lost)) =
             IF Overlapping(f, off, length) \cap lost # {} THEN Error
             ELSE Data(Slice(f, off, length))

\* "a higher layer overrides a path from a lower one" (README.md): an entry
\* of the last layer is what the mount shows at its path.
HigherOverrides ==
  \A p \in DOMAIN merged.files :
    merged.files[p] = File(count) => TreeView(Tree)[p] = File(count)
=============================================================================
