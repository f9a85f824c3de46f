-------------------------- MODULE LayerStackProofs --------------------------
(***************************************************************************)
(* Proofs about LayerStack, for any names, any depth, any number of layers *)
(* and any layers that are snapshots of directories.                       *)
(*                                                                         *)
(* The lists the code keeps say what the reference view says, as long as   *)
(* no layer was one of the odd ones; below an entry of either is nothing   *)
(* but what directories can hold.  buildTree needs both.                   *)
(***************************************************************************)
EXTENDS LayerStack, LayersProofs, BlockReadsProofs

\* What the lists can hold: entries of layers, their files renamed by Stamp,
\* and the directories of markers.
Listable ==
  {Dir} \cup {File(n) : n \in Nat}
  \cup UNION {{l.entries[i].entry : i \in DOMAIN l.entries} : l \in LayerSet}

NoneListed == [p \in Paths |-> None]

Types ==
  /\ status \in {"resolving", "merging", "built", "failed"}
  /\ count \in 0..MaxLayers
  /\ formats \in Seq([blockSize : Nat, variable : BOOLEAN])
  /\ Len(formats) = count
  /\ blockSize \in Nat
  /\ regular \in BOOLEAN

\* The reference says nothing that no file system could show.
ViewOK == view = [p \in Paths |-> view[p]] /\ OnDirs(view)

ListsAgree == regular => ListView(merged) = view

Untouched == count = 0 => merged = Nothing /\ view = NoneListed

IInv == Types /\ merged \in Lists(Listable) /\ ViewOK /\ ListsAgree /\ Untouched

-----------------------------------------------------------------------------
(* A layer whose files are renamed is a snapshot still.                    *)

LEMMA StampEntry ==
  ASSUME NEW layer, IsSnapshot(layer), NEW n, NEW i \in DOMAIN layer
  PROVE  /\ layer[i].entry # None
         /\ Stamp(layer, n)[i].path = layer[i].path
         /\ Stamp(layer, n)[i].entry =
              IF layer[i].entry.kind = "file" THEN File(n) ELSE layer[i].entry
<1>1. PICK e : e = layer[i]
  OBVIOUS
<1>2. e = [path |-> e.path, entry |-> e.entry] /\ e.entry # None
  BY <1>1 DEF IsSnapshot, Seqs!ToSet
<1> QED
  BY <1>1, <1>2 DEF Stamp

LEMMA StampParts ==
  ASSUME NEW layer, IsSnapshot(layer), NEW n
  PROVE  \A i \in DOMAIN layer :
           LET e == layer[i]
               f == Stamp(layer, n)[i]
           IN /\ f = [path |-> f.path, entry |-> f.entry] /\ f.path = e.path
              /\ f.entry = IF e.entry.kind = "file" THEN File(n) ELSE e.entry
              /\ IsMarker(f) <=> IsMarker(e)
              /\ f.entry = Dir <=> e.entry = Dir
              /\ f.entry # None
              /\ f.entry = Whiteout <=> e.entry = Whiteout
<1> SUFFICES ASSUME NEW i \in DOMAIN layer, NEW e, e = layer[i],
                    NEW f, f = Stamp(layer, n)[i]
             PROVE  /\ f = [path |-> f.path, entry |-> f.entry] /\ f.path = e.path
                    /\ f.entry = IF e.entry.kind = "file" THEN File(n) ELSE e.entry
                    /\ IsMarker(f) <=> IsMarker(e)
                    /\ f.entry = Dir <=> e.entry = Dir
                    /\ f.entry # None
                    /\ f.entry = Whiteout <=> e.entry = Whiteout
  OBVIOUS
<1>1. e = [path |-> e.path, entry |-> e.entry] /\ e.entry # None
  BY DEF IsSnapshot, Seqs!ToSet
<1>2. /\ f = [path |-> f.path, entry |-> f.entry] /\ f.path = e.path
      /\ f.entry = IF e.entry.kind = "file" THEN File(n) ELSE e.entry
  <2>1. f = [path |-> f.path, entry |-> f.entry]
    BY <1>1 DEF Stamp
  <2> QED
    BY <2>1, StampEntry
<1>3. /\ File(n).kind = "file" /\ Dir.kind = "dir" /\ None.kind = "none"
      /\ Whiteout.kind = "whiteout" /\ Opaque.kind = "opaque"
  BY DEF File, Dir, None, Whiteout, Opaque
<1> QED
  BY <1>1, <1>2, <1>3 DEF IsMarker

LEMMA StampIsSnapshot ==
  ASSUME NEW layer, IsSnapshot(layer), NEW n
  PROVE  IsSnapshot(Stamp(layer, n))
<1> DEFINE new == Stamp(layer, n)
<1>1. DOMAIN new = DOMAIN layer
  BY DEF Stamp
<1>2. \A i \in DOMAIN layer :
        /\ new[i] = [path |-> new[i].path, entry |-> new[i].entry]
        /\ new[i].path = layer[i].path
        /\ new[i].entry = IF layer[i].entry.kind = "file" THEN File(n)
                          ELSE layer[i].entry
        /\ IsMarker(new[i]) <=> IsMarker(layer[i])
        /\ new[i].entry = Dir <=> layer[i].entry = Dir
        /\ new[i].entry # None
        /\ new[i].entry = Whiteout <=> layer[i].entry = Whiteout
  BY StampParts
<1>3. new = [i \in DOMAIN new |-> new[i]]
  BY DEF Stamp
<1> HIDE DEF new
<1>4. \A i \in DOMAIN layer :
        /\ layer[i].path \in PathsAndRoot
        /\ layer[i].entry = Whiteout => layer[i].path # <<>>
        /\ layer[i] \in Seqs!ToSet(layer)
  BY DEF IsSnapshot, Seqs!ToSet
<1>5. new \in Seq(Seqs!ToSet(new))
  <2>1. layer \in Seq(Seqs!ToSet(layer))
    BY DEF IsSnapshot
  <2>2. Len(layer) \in Nat /\ DOMAIN layer = 1..Len(layer)
    BY <2>1
  <2>3. \A i \in DOMAIN new : new[i] \in Seqs!ToSet(new)
    BY DEF Seqs!ToSet
  <2> QED
    BY <1>1, <1>3, <2>2, <2>3
<1>6. \A e \in Seqs!ToSet(new) : \E i \in DOMAIN layer : e = new[i]
  BY <1>1 DEF Seqs!ToSet
<1>7. \A e \in Seqs!ToSet(new) :
        /\ e = [path |-> e.path, entry |-> e.entry]
        /\ e.path \in PathsAndRoot /\ e.entry # None
        /\ e.entry = Whiteout => e.path # <<>>
  <2> SUFFICES ASSUME NEW i \in DOMAIN layer, NEW e, e = new[i]
               PROVE  /\ e = [path |-> e.path, entry |-> e.entry]
                      /\ e.path \in PathsAndRoot /\ e.entry # None
                      /\ e.entry = Whiteout => e.path # <<>>
    BY <1>6
  <2> QED
    BY <1>2, <1>4
<1>8. \A e \in Plain(new) : \E i \in DOMAIN layer :
        /\ e = new[i] /\ e.path = layer[i].path /\ layer[i] \in Plain(layer)
  <2> TAKE e \in Plain(new)
  <2>1. e \in Seqs!ToSet(new) /\ ~IsMarker(e) /\ e.path # <<>>
    BY DEF Plain
  <2>2. PICK i \in DOMAIN layer : e = new[i]
    BY <1>6, <2>1
  <2>3. new[i].path = layer[i].path
    BY <1>2
  <2>4. layer[i] \in Plain(layer)
    BY <1>2, <1>4, <2>1, <2>2, <2>3 DEF Plain
  <2> QED
    BY <2>2, <2>3, <2>4
<1>9. ASSUME NEW e \in Plain(new), NEW f \in Plain(new)
      PROVE  /\ e.path = f.path => e = f
             /\ IsBelow(f.path, e.path) => e.entry = Dir
  <2>1. PICK i \in DOMAIN layer :
          e = new[i] /\ e.path = layer[i].path /\ layer[i] \in Plain(layer)
    BY <1>8
  <2>2. PICK j \in DOMAIN layer :
          f = new[j] /\ f.path = layer[j].path /\ layer[j] \in Plain(layer)
    BY <1>8
  <2>3. /\ layer[i].path = layer[j].path => layer[i] = layer[j]
        /\ IsBelow(layer[j].path, layer[i].path) => layer[i].entry = Dir
    BY <2>1, <2>2 DEF IsSnapshot
  <2>4. e.path = f.path => e = f
    <3> SUFFICES ASSUME e.path = f.path PROVE e = f
      OBVIOUS
    <3>1. layer[i].entry = layer[j].entry
      BY <2>1, <2>2, <2>3
    <3>2. e.entry = f.entry
      BY <1>2, <2>1, <2>2, <3>1
    <3> QED
      BY <1>2, <2>1, <2>2, <3>2
  <2>5. IsBelow(f.path, e.path) => e.entry = Dir
    BY <1>2, <2>1, <2>2, <2>3
  <2> QED
    BY <2>4, <2>5
<1>10. IsSnapshot(new)
  BY <1>5, <1>7, <1>9 DEF IsSnapshot
<1> QED
  BY <1>10 DEF new

LEMMA ListableFacts ==
  None \notin Listable /\ Dir \in Listable
<1>1. ASSUME NEW s, IsSnapshot(s), NEW i \in DOMAIN s
      PROVE  s[i].entry # None
  <2>1. PICK e : e = s[i]
    OBVIOUS
  <2>2. e \in Seqs!ToSet(s)
    BY <2>1 DEF Seqs!ToSet
  <2> QED
    BY <1>1, <2>1, <2>2 DEF IsSnapshot
<1>2. Dir # None /\ \A n \in Nat : File(n) # None
  BY DEF Dir, None, File
<1>3. \A l \in LayerSet : \A i \in DOMAIN l.entries : l.entries[i].entry # None
  BY <1>1, LayerAssumption
<1> QED
  BY <1>2, <1>3 DEF Listable

\* A layer of the set, as the builder takes it in.
LEMMA LayerFacts ==
  ASSUME NEW l \in LayerSet, NEW n \in Nat,
         NEW layer, layer = Stamp(l.entries, n)
  PROVE  /\ IsSnapshot(layer)
         /\ \A i \in DOMAIN layer : ~IsMarker(layer[i]) => layer[i].entry \in Listable
         /\ LayerOK(layer, Listable)
<1>1. IsSnapshot(l.entries)
  BY LayerAssumption
<1>2. IsSnapshot(layer)
  BY <1>1, StampIsSnapshot
<1>3. \A i \in DOMAIN layer : layer[i].entry \in Listable
  <2> TAKE i \in DOMAIN layer
  <2>1. i \in DOMAIN l.entries
    BY DEF Stamp
  <2>2. layer[i].entry = IF l.entries[i].entry.kind = "file" THEN File(n)
                         ELSE l.entries[i].entry
    <3>1. PICK s : s = l.entries /\ IsSnapshot(s) /\ i \in DOMAIN s
      BY <1>1, <2>1
    <3>2. Stamp(s, n)[i].entry = IF s[i].entry.kind = "file" THEN File(n)
                                 ELSE s[i].entry
      BY <3>1, StampEntry
    <3> QED
      BY <3>1, <3>2
  <2> QED
    BY <2>1, <2>2 DEF Listable
<1>4. LayerOK(layer, Listable)
  BY <1>2, <1>3, SnapshotIsLayer
<1> QED
  BY <1>2, <1>3, <1>4

-----------------------------------------------------------------------------
(* The steps.                                                              *)

LEMMA InitIInv == Init => IInv
<1> SUFFICES ASSUME Init PROVE IInv
  OBVIOUS
<1>1. Types
  <2>1. <<>> \in Seq([blockSize : Nat, variable : BOOLEAN]) /\ Len(<<>>) = 0
    OBVIOUS
  <2> QED
    BY <2>1, StackAssumption DEF Init, Types
<1>2. /\ Nothing \in Lists(Listable) /\ ListView(Nothing) = NoneListed
  BY NothingListed DEF NoneListed
<1>3. ViewOK /\ view = NoneListed
  BY DEF Init, ViewOK, OnDirs, NoneListed
<1> QED
  BY <1>1, <1>2, <1>3 DEF Init, IInv, ListsAgree, Untouched

\* One layer more.
LEMMA MergeKeepsIInv ==
  ASSUME IInv, NEW l \in LayerSet, MergeLayer(l)
  PROVE  IInv'
<1>1. PICK layer : layer = Stamp(l.entries, count + 1)
  OBVIOUS
<1>2. /\ status = "merging" /\ count < MaxLayers /\ count' = count + 1
      /\ merged' = ApplyLayer(merged, layer) /\ formats' = Append(formats, Format(l))
      /\ blockSize' = LayerBlockSize(blockSize, l)
      /\ view' = Overlay(view, layer) /\ regular' = (regular /\ ~Odd(view, layer))
      /\ status' = status
  BY <1>1 DEF MergeLayer
<1>3. Types /\ count \in Nat /\ MaxLayers \in Nat
  BY StackAssumption DEF IInv, Types
<1>4. /\ IsSnapshot(layer) /\ LayerOK(layer, Listable)
      /\ \A i \in DOMAIN layer : ~IsMarker(layer[i]) => layer[i].entry \in Listable
  BY <1>1, <1>3, LayerFacts
<1>5. Types'
  <2>1. Format(l) \in [blockSize : Nat, variable : BOOLEAN]
    BY LayerAssumption DEF Format
  <2>2. /\ formats' \in Seq([blockSize : Nat, variable : BOOLEAN])
        /\ Len(formats') = count'
    BY <1>2, <1>3, <2>1 DEF Types
  <2>3. blockSize' \in Nat
    BY <1>2, <1>3, LayerAssumption DEF Types, LayerBlockSize
  <2>4. count' \in 0..MaxLayers /\ regular' \in BOOLEAN
    BY <1>2, <1>3 DEF Types
  <2> QED
    BY <1>2, <1>3, <2>2, <2>3, <2>4 DEF Types
<1>6. merged' \in Lists(Listable)
  <2>1. merged \in Lists(Listable)
    BY DEF IInv
  <2>2. PICK n \in Nat : DOMAIN layer = 1..n
    BY <1>4 DEF LayerOK
  <2> QED
    BY <1>2, <1>4, <2>1, <2>2, ApplyLayerListed
<1>7. ViewOK'
  <2>1. OnDirs(view')
    BY <1>2, <1>4, OverlayOnDirs DEF IInv, ViewOK
  <2> QED
    BY <1>2, <2>1 DEF ViewOK, Overlay
<1>8. ListsAgree'
  <2> SUFFICES ASSUME regular, ~Odd(view, layer)
               PROVE  ListView(ApplyLayer(merged, layer)) = Overlay(view, layer)
    BY <1>2 DEF ListsAgree
  <2>1. merged \in Lists(Listable) /\ view = ListView(merged)
    BY DEF IInv, ListsAgree
  <2>2. /\ ~Clashes(view, layer) /\ ~Has(layer, <<>>, Opaque)
        /\ \A p \in Paths :
             ~(/\ view[p] \notin {None, Dir} /\ ~Hides(layer, p)
               /\ OwnEntry(layer, p) = None /\ HasInside(layer, p))
    BY DEF Odd
  <2> QED
    BY <1>4, <2>1, <2>2, ApplyLayerOverlay
<1>9. Untouched'
  BY <1>2, <1>3 DEF Untouched
<1> QED
  BY <1>5, <1>6, <1>7, <1>8, <1>9 DEF IInv

\* A single commit, whose list is not merged.
LEMMA SingleKeepsIInv ==
  ASSUME IInv, NEW l \in LayerSet, LoadSingle(l)
  PROVE  IInv'
<1>1. PICK layer : layer = Stamp(l.entries, 1)
  OBVIOUS
<1>2. /\ count = 0 /\ status' = "built" /\ count' = 1
      /\ merged' = SingleLayer(layer) /\ formats' = <<Format(l)>>
      /\ blockSize' = IF l.blockSize > 0 THEN l.blockSize ELSE DefaultBlockSize
      /\ view' = Overlay(view, layer)
      /\ regular' = \A i \in DOMAIN layer : ~IsMarker(layer[i])
  BY <1>1 DEF LoadSingle
<1>3. view = NoneListed /\ ViewOK
  BY <1>2 DEF IInv, Untouched
<1>4. IsSnapshot(layer) /\ LayerOK(layer, Listable)
  BY <1>1, LayerFacts
<1>5. PICK n \in Nat : DOMAIN layer = 1..n
  BY <1>4 DEF LayerOK
<1>6. Types'
  <2>1. Format(l) \in [blockSize : Nat, variable : BOOLEAN]
    BY LayerAssumption DEF Format
  <2>2. formats' \in Seq([blockSize : Nat, variable : BOOLEAN]) /\ Len(formats') = 1
    BY <1>2, <2>1
  <2>3. blockSize' \in Nat
    BY <1>2, LayerAssumption DEF DefaultBlockSize
  <2>4. 1 \in 0..MaxLayers
    BY StackAssumption
  <2>5. regular' \in BOOLEAN
    BY <1>2
  <2> QED
    BY <1>2, <2>2, <2>3, <2>4, <2>5 DEF Types
<1>7. /\ merged' \in Lists(Listable)
      /\ regular' => Listed(ListView(merged'), Nothing, layer, n)
  BY <1>2, <1>4, <1>5, ListableFacts, RawListed
<1>8. ViewOK'
  <2>1. OnDirs(view')
    BY <1>2, <1>3, <1>4, OverlayOnDirs DEF ViewOK
  <2> QED
    BY <1>2, <2>1 DEF ViewOK, Overlay
<1>9. ListsAgree'
  <2> SUFFICES ASSUME regular', NEW x, x = ListView(merged')
               PROVE  x = Overlay(view, layer)
    BY <1>2 DEF ListsAgree
  <2>1. \A p \in Paths :
          /\ \A i \in 1..n : IsAt(layer[i], p) => x[p] = layer[i].entry
          /\ (\A i \in 1..n : ~IsAt(layer[i], p)) => x[p] = None
    BY <1>7, NothingListed DEF Listed
  <2>2. \A p \in Paths : Overlay(view, layer)[p] = OwnEntry(layer, p)
    BY <1>3 DEF Overlay, NoneListed
  <2>3. ASSUME NEW p \in Paths PROVE x[p] = OwnEntry(layer, p)
    BY <1>4, <1>5, <2>1, ReferenceParts
  <2>4. x = [p \in Paths |-> x[p]]
    BY DEF ListView
  <2>5. Overlay(view, layer) = [p \in Paths |-> Overlay(view, layer)[p]]
    BY DEF Overlay
  <2> QED
    BY <2>2, <2>3, <2>4, <2>5
<1>10. Untouched'
  BY <1>2 DEF Untouched
<1> QED
  BY <1>6, <1>7, <1>8, <1>9, <1>10 DEF IInv

LEMMA NextIInv == IInv /\ [Next]_vars => IInv'
<1> SUFFICES ASSUME IInv, [Next]_vars PROVE IInv'
  OBVIOUS
<1>1. ASSUME UNCHANGED <<count, merged, formats, view, regular>>,
             blockSize' \in Nat,
             status' \in {"resolving", "merging", "built", "failed"}
      PROVE  IInv'
  BY <1>1 DEF IInv, Types, ViewOK, ListsAgree, Untouched
<1>2. status \in {"resolving", "merging", "built", "failed"} /\ blockSize \in Nat
  BY DEF IInv, Types
<1>3. CASE Resolve
  BY <1>1, <1>2, <1>3 DEF Resolve, blocks
<1>4. CASE MergeFails
  BY <1>1, <1>2, <1>4 DEF MergeFails, blocks
<1>5. CASE Build
  <2>1. blockSize' \in Nat
    BY <1>2, <1>5 DEF Build, DefaultBlockSize
  <2> QED
    BY <1>1, <1>5, <2>1 DEF Build
<1>6. ASSUME NEW l \in LayerSet, MergeLayer(l) PROVE IInv'
  BY <1>6, MergeKeepsIInv
<1>7. ASSUME NEW l \in LayerSet, LoadSingle(l) PROVE IInv'
  BY <1>7, SingleKeepsIInv
<1>8. CASE UNCHANGED vars
  BY <1>1, <1>2, <1>8 DEF vars, blocks
<1> QED
  BY <1>3, <1>4, <1>5, <1>6, <1>7, <1>8 DEF Next

THEOREM Invariant == Spec => []IInv
BY InitIInv, NextIInv, PTL DEF Spec

-----------------------------------------------------------------------------
(* What the invariant says of the lists and of the tree.                   *)

\* buildMergedTreeFromRepos lists each path once and has an entry for each;
\* the reference view is a tree of files (tree.go, add and del).
THEOREM TypeCorrect == Spec => []TypeOK
<1>1. ASSUME IInv PROVE TypeOK
  <2>1. /\ DOMAIN merged.files = {merged.order[i] : i \in DOMAIN merged.order}
        /\ Len(merged.order) = Cardinality(DOMAIN merged.files)
    BY <1>1, ListParts, ListLength DEF IInv
  <2>2. IsTree(Shown(view))
    BY <1>1, ShownIsTree DEF IInv, ViewOK
  <2> QED
    BY <1>1, <2>1, <2>2 DEF IInv, Types, TypeOK
<1> QED
  BY <1>1, Invariant, PTL

\* buildMergedTreeFromRepos and buildTree: the tree of a stack shows, at every
\* path, what the highest layer that has or hides the path says, for every
\* stack of snapshots none of which is an odd one.
THEOREM StackShowsOverlay == Spec => []TreeIsOverlay
<1>1. ASSUME IInv PROVE TreeIsOverlay
  <2> SUFFICES ASSUME regular PROVE TreeView(Tree) = Shown(view)
    BY DEF TreeIsOverlay
  <2>1. merged \in Lists(Listable) /\ ListView(merged) = view /\ OnDirs(view)
    BY <1>1 DEF IInv, ListsAgree, ViewOK
  <2> QED
    BY <2>1, ListableFacts, BuildTreeShows DEF Tree
<1> QED
  BY <1>1, Invariant, PTL

-----------------------------------------------------------------------------
(* The block size of the tree, and what is read with it.                   *)

\* The tree's block size is that of a layer with none after it that has
\* another; it is no size, or the default, if no layer has one.
SizeOK ==
  /\ \A n \in 1..count :
       /\ formats[n].blockSize > 0
       /\ \A m \in 1..count : n < m => formats[m].blockSize \in {0, formats[n].blockSize}
       => blockSize = formats[n].blockSize
  /\ (\A n \in 1..count : formats[n].blockSize = 0) => blockSize \in {0, DefaultBlockSize}

LEMMA InitSizeOK == Init => SizeOK
BY DEF Init, SizeOK

LEMMA MergeSize ==
  ASSUME Types, SizeOK, NEW l \in LayerSet, MergeLayer(l)
  PROVE  SizeOK'
<1>1. /\ formats' = Append(formats, Format(l)) /\ count' = count + 1
      /\ blockSize' = LayerBlockSize(blockSize, l)
  BY DEF MergeLayer
<1>2. l.blockSize \in Nat /\ l.variable \in BOOLEAN
  BY LayerAssumption
<1>3. count \in Nat /\ formats \in Seq([blockSize : Nat, variable : BOOLEAN])
      /\ Len(formats) = count
  BY DEF Types
<1>4. PICK format : format = Format(l)
  OBVIOUS
<1>5. format \in [blockSize : Nat, variable : BOOLEAN] /\ format.blockSize = l.blockSize
  BY <1>2, <1>4 DEF Format
<1>6. /\ formats'[count + 1].blockSize = l.blockSize
      /\ \A n \in 1..count : formats'[n] = formats[n]
  <2>1. /\ formats'[Len(formats) + 1] = format
        /\ \A n \in 1..Len(formats) : formats'[n] = formats[n]
    BY <1>1, <1>3, <1>4, <1>5, AppendProperties
  <2> QED
    BY <1>3, <1>5, <2>1
<1>7. \A n \in 1..count : formats[n].blockSize \in Nat
  <2> TAKE n \in 1..count
  <2>1. formats[n] \in [blockSize : Nat, variable : BOOLEAN]
    BY <1>3, ElementOfSeq
  <2> QED
    BY <2>1
<1>8. ASSUME NEW n \in 1..count', formats'[n].blockSize > 0,
             \A m \in 1..count' : n < m => formats'[m].blockSize \in {0, formats'[n].blockSize}
      PROVE  blockSize' = formats'[n].blockSize
  <2>1. CASE n = count + 1
    BY <1>1, <1>2, <1>6, <1>8, <2>1 DEF LayerBlockSize
  <2>2. CASE n # count + 1
    <3>1. n \in 1..count /\ formats'[n] = formats[n] /\ n < count + 1 /\ count + 1 \in 1..count'
      BY <1>1, <1>3, <1>6, <2>2
    <3>2. l.blockSize \in {0, formats[n].blockSize}
      BY <1>6, <1>8, <3>1
    <3>3. ASSUME NEW m \in 1..count, n < m
          PROVE  formats[m].blockSize \in {0, formats[n].blockSize}
      <4>1. m \in 1..count' /\ formats'[m] = formats[m]
        BY <1>1, <1>3, <1>6
      <4> QED
        BY <1>8, <3>1, <3>3, <4>1
    <3>4. blockSize = formats[n].blockSize
      BY <1>8, <3>1, <3>3 DEF SizeOK
    <3> QED
      BY <1>1, <1>2, <3>1, <3>2, <3>4 DEF LayerBlockSize
  <2> QED
    BY <2>1, <2>2
<1>9. ASSUME \A n \in 1..count' : formats'[n].blockSize = 0
      PROVE  blockSize' \in {0, DefaultBlockSize}
  <2>1. l.blockSize = 0
    <3>1. count + 1 \in 1..count'
      BY <1>1, <1>3
    <3> QED
      BY <1>6, <1>9, <3>1
  <2>2. \A n \in 1..count : formats[n].blockSize = 0
    <3> TAKE n \in 1..count
    <3>1. n \in 1..count' /\ formats'[n] = formats[n]
      BY <1>1, <1>3, <1>6
    <3> QED
      BY <1>9, <3>1
  <2> QED
    BY <1>1, <2>1, <2>2 DEF LayerBlockSize, SizeOK
<1> QED
  BY <1>8, <1>9 DEF SizeOK

LEMMA NextSizeOK == IInv /\ SizeOK /\ [Next]_vars => SizeOK'
<1> SUFFICES ASSUME IInv, SizeOK, [Next]_vars PROVE SizeOK'
  OBVIOUS
<1>1. Types /\ blockSize \in Nat
  BY DEF IInv, Types
<1>2. CASE UNCHANGED <<count, formats, blockSize>>
  BY <1>2 DEF SizeOK
<1>3. CASE Build
  <2>1. /\ count' = count /\ formats' = formats
        /\ blockSize' = IF blockSize > 0 THEN blockSize ELSE DefaultBlockSize
    BY <1>3 DEF Build
  <2>2. \A n \in 1..count : blockSize = formats[n].blockSize /\ formats[n].blockSize > 0
                               => blockSize' = formats[n].blockSize
    BY <2>1
  <2>3. blockSize \in {0, DefaultBlockSize} => blockSize' \in {0, DefaultBlockSize}
    BY <2>1
  <2> QED
    BY <2>1, <2>2, <2>3 DEF SizeOK
<1>4. ASSUME NEW l \in LayerSet, LoadSingle(l) PROVE SizeOK'
  <2>1. PICK format : format = Format(l)
    OBVIOUS
  <2>2. /\ count' = 1 /\ formats' = <<format>> /\ format.blockSize = l.blockSize
        /\ blockSize' = IF l.blockSize > 0 THEN l.blockSize ELSE DefaultBlockSize
    BY <1>4, <2>1 DEF LoadSingle, Format
  <2>3. l.blockSize \in Nat /\ 1..1 = {1} /\ formats'[1] = format
    BY <2>2, LayerAssumption
  <2> QED
    BY <2>2, <2>3 DEF SizeOK
<1> QED
  BY <1>1, <1>2, <1>3, <1>4, MergeSize
  DEF Next, Resolve, MergeFails, vars, blocks

\* Tuples of one, two and three elements of a set.
IsOne(t, a, S) == t \in Seq(S) /\ Len(t) = 1 /\ t[1] = a
IsTwo(t, a, b, S) == t \in Seq(S) /\ Len(t) = 2 /\ t[1] = a /\ t[2] = b
IsThree(t, a, b, c, S) == t \in Seq(S) /\ Len(t) = 3 /\ t[1] = a /\ t[2] = b /\ t[3] = c

LEMMA TupleOfOne ==
  ASSUME NEW S, NEW a \in S PROVE IsOne(<<a>>, a, S)
BY DEF IsOne

LEMMA TupleOfTwo ==
  ASSUME NEW S, NEW a \in S, NEW b \in S PROVE IsTwo(<<a, b>>, a, b, S)
BY DEF IsTwo

LEMMA TupleOfThree ==
  ASSUME NEW S, NEW a \in S, NEW b \in S, NEW c \in S
  PROVE  IsThree(<<a, b, c>>, a, b, c, S)
BY DEF IsThree

LEMMA SeqIsFunction ==
  ASSUME NEW S, NEW s \in Seq(S)
  PROVE  s \in [1..Len(s) -> S] /\ Len(s) \in Nat /\ (Len(s) # 0 => s # <<>>)
OBVIOUS

\* A file of three bytes, cut in each of the ways of a layer.
InOne(blks) == blks \in Seq(Seq(Nat)) /\ Len(blks) = 1 /\ Len(blks[1]) = 3
InTwo(blks) ==
  blks \in Seq(Seq(Nat)) /\ Len(blks) = 2 /\ Len(blks[1]) + Len(blks[2]) = 3
InThree(blks) ==
  /\ blks \in Seq(Seq(Nat)) /\ Len(blks) = 3
  /\ Len(blks[1]) = 1 /\ Len(blks[2]) = 1 /\ Len(blks[3]) = 1

LEMMA ThreeBytes ==
  ASSUME NEW blks, InOne(blks) \/ InTwo(blks) \/ InThree(blks)
  PROVE  Len(SeqOps!FlattenSeq(blks)) = 3
<1>0. PICK len : len = Len(blks)
  OBVIOUS
<1>1. blks \in [1..len -> Seq(Nat)] /\ len \in Nat
  <2>1. blks \in Seq(Seq(Nat))
    BY Zenon DEF InOne, InTwo, InThree
  <2> QED
    BY <1>0, <2>1, SeqIsFunction, Zenon
<1>2. PICK h : OffsetsOf(h, Nat, len, blks)
  <2>1. Len(blks) = len
    BY <1>0
  <2> QED
    BY <1>1, <2>1, FlattenOffsets, Zenon
<1>3. /\ h[0] = 0 /\ h[len] = Len(SeqOps!FlattenSeq(blks))
      /\ \A k \in 1..len : h[k] = h[k - 1] + Len(blks[k])
  BY <1>2, Zenon DEF OffsetsOf
<1>4. PICK a, b, c, d, e : a = h[1] /\ b = h[2] /\ c = h[3] /\ d = Len(blks[1]) /\ e = Len(blks[2])
  OBVIOUS
<1>5. CASE InOne(blks)
  <2>0. len = 1 /\ d = 3
    BY <1>0, <1>4, <1>5, Zenon DEF InOne
  <2>1. h[1] = h[0] + Len(blks[1])
    BY <1>3, <2>0
  <2>2. a = 3
    <3>1. a = 0 + d
      BY <1>3, <1>4, <2>1, Zenon
    <3> QED
      BY <2>0, <3>1
  <2> QED
    BY <1>3, <1>4, <2>0, <2>2, Zenon
<1>6. CASE InTwo(blks)
  <2>0. len = 2 /\ d + e = 3
    BY <1>0, <1>4, <1>6, Zenon DEF InTwo
  <2>1. h[1] = h[0] + Len(blks[1]) /\ h[2] = h[1] + Len(blks[2])
    BY <1>3, <2>0
  <2>2. d \in Nat /\ e \in Nat
    BY <1>1, <1>4, <2>0
  <2>3. a = 0 + d /\ b = a + e
    BY <1>3, <1>4, <2>1, Zenon
  <2>4. b = 3
    BY <2>0, <2>2, <2>3
  <2> QED
    BY <1>3, <1>4, <2>0, <2>4, Zenon
<1>7. CASE InThree(blks)
  <2>0. len = 3 /\ Len(blks[1]) = 1 /\ Len(blks[2]) = 1 /\ Len(blks[3]) = 1
    BY <1>0, <1>7, Zenon DEF InThree
  <2>1. h[1] = h[0] + Len(blks[1]) /\ h[2] = h[1] + Len(blks[2]) /\ h[3] = h[2] + Len(blks[3])
    <3>1. /\ 1 \in 1..3 /\ 2 \in 1..3 /\ 3 \in 1..3
          /\ 1 - 1 = 0 /\ 2 - 1 = 1 /\ 3 - 1 = 2
      OBVIOUS
    <3> QED
      BY <1>3, <2>0, <3>1, Zenon
  <2>2. a = h[0] + 1 /\ b = a + 1 /\ c = b + 1
    BY <1>4, <2>0, <2>1, Zenon
  <2>3. c = 3
    BY <1>3, <2>2
  <2> QED
    BY <1>3, <1>4, <2>0, <2>3, Zenon
<1> QED
  BY <1>5, <1>6, <1>7

\* The sizes of the blocks are listed, or they are the block size but for the
\* last.
Sized(blks, sizes, bs) ==
  /\ blks \in Seq(Seq(Nat)) /\ blks # <<>> /\ sizes \in Seq(Nat) /\ bs \in Nat
  /\ \A i \in 1..Len(blks) : blks[i] # <<>>
  /\ \/ Len(sizes) = Len(blks) /\ \A i \in 1..Len(blks) : sizes[i] = Len(blks[i])
     \/ /\ Len(sizes) = 0
        /\ \A i \in 1..Len(blks) :
             /\ Len(blks[i]) <= BlockSize(bs)
             /\ i < Len(blks) => Len(blks[i]) = BlockSize(bs)
OfThree(blks, sizes) == [size |-> 3, blocks |-> blks, sizes |-> sizes]

LEMMA WholeFile ==
  ASSUME NEW blks, NEW sizes, NEW bs, Sized(blks, sizes, bs),
         Len(SeqOps!FlattenSeq(blks)) = 3
  PROVE  IsWhole(OfThree(blks, sizes), bs) /\ OfThree(blks, sizes).size = 3
<1>1. PICK f : f = OfThree(blks, sizes)
  OBVIOUS
<1>2. f.blocks = blks /\ f.sizes = sizes /\ f.size = 3
  BY <1>1 DEF OfThree
<1>3. /\ blks \in Seq(Seq(Nat)) /\ blks # <<>> /\ sizes \in Seq(Nat) /\ bs \in Nat
      /\ \A i \in 1..Len(blks) : blks[i] # <<>>
  BY Zenon DEF Sized
<1>4. DOMAIN blks = 1..Len(blks) /\ Len(blks) # 0 /\ bs \in Int
  BY <1>3
<1>5. IsVariable(f) <=> Len(sizes) = Len(blks)
  BY <1>2, <1>3, Zenon DEF IsVariable
<1>6. Len(Content(f)) = 3
  BY <1>2, Zenon DEF Content
<1>7. \A i \in DOMAIN f.blocks :
        /\ f.blocks[i] # <<>>
        /\ IF IsVariable(f) THEN f.sizes[i] = Len(f.blocks[i])
           ELSE /\ Len(f.blocks[i]) <= BlockSize(bs)
                /\ i < Len(f.blocks) => Len(f.blocks[i]) = BlockSize(bs)
  BY <1>2, <1>3, <1>4, <1>5, Zenon DEF Sized
<1>8. IsWhole(f, bs)
  BY <1>2, <1>3, <1>4, <1>6, <1>7, Zenon DEF IsWhole
<1> QED
  BY <1>1, <1>2, <1>8, Zenon

\* A layer's commit of blocks of one size has the size of the tree.
LEMMA SizeFits ==
  ASSUME IInv, SizeOK, SizesAgree, NEW n \in 1..count, ~formats[n].variable
  PROVE  BlockSize(blockSize) = BlockSize(formats[n].blockSize)
<1>1. \A m \in 1..count : formats[m].blockSize \in Nat
  <2> TAKE m \in 1..count
  <2>1. formats[m] \in [blockSize : Nat, variable : BOOLEAN]
    BY ElementOfSeq DEF IInv, Types
  <2> QED
    BY <2>1
<1>2. \A m \in 1..count : n < m => formats[m].blockSize \in {0, formats[n].blockSize}
  BY DEF SizesAgree
<1>3. CASE formats[n].blockSize > 0
  BY <1>2, <1>3 DEF SizeOK
<1>4. CASE ~(formats[n].blockSize > 0)
  <2>1. formats[n].blockSize = 0
    BY <1>1, <1>4
  <2>2. \A m \in 1..count : formats[m].blockSize = 0
    BY <2>1 DEF SizesAgree
  <2>3. blockSize \in {0, DefaultBlockSize}
    BY <2>2 DEF SizeOK
  <2> QED
    BY <2>1, <2>3 DEF BlockSize, DefaultBlockSize
<1> QED
  BY <1>3, <1>4

\* So every layer's file is read as it was committed.
LEMMA FileIsWhole ==
  ASSUME IInv, SizeOK, SizesAgree, NEW n \in 1..count
  PROVE  IsWhole(FileOf(n), blockSize) /\ FileOf(n).size = 3
<1>1. PICK x, y, z \in Nat : x = n /\ y = n + 10 /\ z = n + 20
  BY DEF IInv, Types
<1>2. blockSize \in Nat /\ formats[n].blockSize \in Nat
  <2>1. formats[n] \in [blockSize : Nat, variable : BOOLEAN]
    BY ElementOfSeq DEF IInv, Types
  <2> QED
    BY <2>1 DEF IInv, Types
<1>3. PICK p, q, r, pq, qr, pqr :
        /\ p = <<x>> /\ q = <<y>> /\ r = <<z>>
        /\ pq = <<x, y>> /\ qr = <<y, z>> /\ pqr = <<x, y, z>>
  OBVIOUS
<1>4. /\ IsOne(p, x, Nat) /\ IsOne(q, y, Nat) /\ IsOne(r, z, Nat)
      /\ IsTwo(pq, x, y, Nat) /\ IsTwo(qr, y, z, Nat) /\ IsThree(pqr, x, y, z, Nat)
  BY <1>3, TupleOfOne, TupleOfTwo, TupleOfThree, Zenon
<1>5. /\ p \in Seq(Nat) /\ q \in Seq(Nat) /\ r \in Seq(Nat)
      /\ pq \in Seq(Nat) /\ qr \in Seq(Nat) /\ pqr \in Seq(Nat)
      /\ Len(p) = 1 /\ Len(q) = 1 /\ Len(r) = 1
      /\ Len(pq) = 2 /\ Len(qr) = 2 /\ Len(pqr) = 3
  BY <1>4, Zenon DEF IsOne, IsTwo, IsThree
<1>6. p # <<>> /\ q # <<>> /\ r # <<>> /\ pq # <<>> /\ qr # <<>> /\ pqr # <<>>
  <2>1. 1 # 0 /\ 2 # 0 /\ 3 # 0
    OBVIOUS
  <2> QED
    BY <1>5, <2>1, SeqIsFunction, Zenon
<1>7. PICK sizes : sizes = <<1, 2>>
  OBVIOUS
<1>8. sizes \in Seq(Nat) /\ Len(sizes) = 2 /\ sizes[1] = 1 /\ sizes[2] = 2
  <2>1. IsTwo(sizes, 1, 2, Nat)
    <3>1. 1 \in Nat /\ 2 \in Nat
      OBVIOUS
    <3> QED
      BY <1>7, <3>1, TupleOfTwo, Zenon
  <2> QED
    BY <2>1, Zenon DEF IsTwo
<1>9. PICK none \in Seq(Nat) : none = <<>> /\ Len(none) = 0
  <2>1. <<>> \in Seq(Nat) /\ Len(<<>>) = 0
    OBVIOUS
  <2> QED
    BY <2>1, Zenon
<1>10. ~formats[n].variable => BlockSize(blockSize) = BlockSize(formats[n].blockSize)
  BY SizeFits
<1>11. /\ BlockSize(1) = 1 /\ BlockSize(2) = 2
       /\ formats[n].blockSize \notin {1, 2} => 3 <= BlockSize(formats[n].blockSize)
  <2>1. PICK bs \in Nat : bs = formats[n].blockSize
    BY <1>2
  <2>2. bs \notin {1, 2} => 3 <= BlockSize(bs)
    BY DEF BlockSize, DefaultBlockSize
  <2> QED
    BY <2>1, <2>2 DEF BlockSize
<1>12. CASE formats[n].variable
  <2>1. PICK blks : blks = <<p, qr>>
    OBVIOUS
  <2>2. IsTwo(blks, p, qr, Seq(Nat))
    BY <1>5, <2>1, TupleOfTwo, Zenon
  <2>3. blks \in Seq(Seq(Nat)) /\ Len(blks) = 2 /\ blks[1] = p /\ blks[2] = qr
    BY <2>2, Zenon DEF IsTwo
  <2>4. FileOf(n) = OfThree(blks, sizes)
    BY <1>1, <1>3, <1>7, <1>12, <2>1, Zenon DEF FileOf, OfThree
  <2>5. InTwo(blks)
    <3>1. Len(blks[1]) = 1 /\ Len(blks[2]) = 2 /\ 1 + 2 = 3
      BY <1>5, <2>3
    <3> QED
      BY <2>3, <3>1, Zenon DEF InTwo
  <2>6. Sized(blks, sizes, blockSize)
    <3>1. \A i \in 1..2 : i = 1 \/ i = 2
      OBVIOUS
    <3>2. blks # <<>>
      BY <2>1
    <3> QED
      BY <1>2, <1>5, <1>6, <1>8, <2>3, <3>1, <3>2, Zenon DEF Sized
  <2> QED
    BY <2>4, <2>5, <2>6, ThreeBytes, WholeFile, Zenon
<1>13. CASE ~formats[n].variable /\ formats[n].blockSize = 1
  <2>1. PICK blks : blks = <<p, q, r>>
    OBVIOUS
  <2>2. IsThree(blks, p, q, r, Seq(Nat))
    BY <1>5, <2>1, TupleOfThree, Zenon
  <2>3. /\ blks \in Seq(Seq(Nat)) /\ Len(blks) = 3
        /\ blks[1] = p /\ blks[2] = q /\ blks[3] = r
    BY <2>2, Zenon DEF IsThree
  <2>4. FileOf(n) = OfThree(blks, none)
    BY <1>1, <1>3, <1>9, <1>13, <2>1 DEF FileOf, OfThree
  <2>5. InThree(blks)
    BY <1>5, <2>3, Zenon DEF InThree
  <2>6. Sized(blks, none, blockSize)
    <3>1. (\A i \in 1..3 : i = 1 \/ i = 2 \/ i = 3) /\ 1 <= 1
      OBVIOUS
    <3>2. blks # <<>>
      BY <2>1
    <3>3. BlockSize(blockSize) = 1
      BY <1>10, <1>11, <1>13, Zenon
    <3> QED
      BY <1>2, <1>5, <1>6, <1>9, <2>3, <3>1, <3>2, <3>3, Zenon DEF Sized
  <2> QED
    BY <2>4, <2>5, <2>6, ThreeBytes, WholeFile, Zenon
<1>14. CASE ~formats[n].variable /\ formats[n].blockSize = 2
  <2>1. PICK blks : blks = <<pq, r>>
    OBVIOUS
  <2>2. IsTwo(blks, pq, r, Seq(Nat))
    BY <1>5, <2>1, TupleOfTwo, Zenon
  <2>3. blks \in Seq(Seq(Nat)) /\ Len(blks) = 2 /\ blks[1] = pq /\ blks[2] = r
    BY <2>2, Zenon DEF IsTwo
  <2>4. FileOf(n) = OfThree(blks, none)
    <3>1. formats[n].blockSize # 1
      BY <1>14
    <3> QED
      BY <1>1, <1>3, <1>9, <1>14, <2>1, <3>1 DEF FileOf, OfThree
  <2>5. InTwo(blks)
    <3>1. Len(blks[1]) = 2 /\ Len(blks[2]) = 1 /\ 2 + 1 = 3
      BY <1>5, <2>3
    <3> QED
      BY <2>3, <3>1, Zenon DEF InTwo
  <2>6. Sized(blks, none, blockSize)
    <3>1. (\A i \in 1..2 : i = 1 \/ i = 2) /\ 1 <= 2 /\ 2 <= 2 /\ ~(2 < 2)
      OBVIOUS
    <3>2. blks # <<>>
      BY <2>1
    <3>3. BlockSize(blockSize) = 2
      BY <1>10, <1>11, <1>14, Zenon
    <3> QED
      BY <1>2, <1>5, <1>6, <1>9, <2>3, <3>1, <3>2, <3>3, Zenon DEF Sized
  <2> QED
    BY <2>4, <2>5, <2>6, ThreeBytes, WholeFile, Zenon
<1>15. CASE ~formats[n].variable /\ formats[n].blockSize \notin {1, 2}
  <2>1. PICK blks : blks = <<pqr>>
    OBVIOUS
  <2>2. IsOne(blks, pqr, Seq(Nat))
    BY <1>5, <2>1, TupleOfOne, Zenon
  <2>3. blks \in Seq(Seq(Nat)) /\ Len(blks) = 1 /\ blks[1] = pqr
    BY <2>2, Zenon DEF IsOne
  <2>4. FileOf(n) = OfThree(blks, none)
    <3>1. formats[n].blockSize # 1 /\ formats[n].blockSize # 2
      BY <1>15
    <3> QED
      BY <1>1, <1>3, <1>9, <1>15, <2>1, <3>1 DEF FileOf, OfThree
  <2>5. InOne(blks)
    BY <1>5, <2>3, Zenon DEF InOne
  <2>6. Sized(blks, none, blockSize)
    <3>1. (\A i \in 1..1 : i = 1) /\ ~(1 < 1)
      OBVIOUS
    <3>2. blks # <<>>
      BY <2>1
    <3>3. 3 <= BlockSize(blockSize)
      BY <1>10, <1>11, <1>15, Zenon
    <3> QED
      BY <1>2, <1>5, <1>6, <1>9, <2>3, <3>1, <3>2, <3>3, Zenon DEF Sized
  <2> QED
    BY <2>4, <2>5, <2>6, ThreeBytes, WholeFile, Zenon
<1> QED
  BY <1>12, <1>13, <1>14, <1>15

\* A block of a layer's file is in the stores just if it is not lost.
LEMMA StoresHave ==
  ASSUME NEW n \in 1..count, NEW block \in BlocksOf(n), NEW lost
  PROVE  CanGet(StoresWithout(lost), block) <=> block \notin lost
<1>1. PICK stores : stores = StoresWithout(lost)
  OBVIOUS
<1>2. DOMAIN stores = 1..count /\ \A m \in 1..count : stores[m] = BlocksOf(m) \ lost
  BY <1>1, Zenon DEF StoresWithout
<1> HIDE DEF BlocksOf
<1> QED
  BY <1>1, <1>2, Zenon DEF CanGet

\* readAt and readAtVariable over a stack: with the block size that the merge
\* arrives at, a read of a layer's file gives that layer's bytes, and fails
\* just where it asks for a byte of a lost block, whatever the layers' formats.
THEOREM ReadsAreOwn == Spec => []ReadsOwnData
<1>1. ASSUME IInv, SizeOK PROVE ReadsOwnData
  <2> SUFFICES ASSUME SizesAgree, NEW n \in 1..count, NEW off \in 0..3, NEW length \in 0..4,
                      NEW lost
               PROVE  ReadAt(FileOf(n), off, length, blockSize, StoresWithout(lost)) =
                        IF Overlapping(FileOf(n), off, length) \cap lost # {} THEN Error
                        ELSE Data(Slice(FileOf(n), off, length))
    BY Zenon DEF ReadsOwnData
  <2>1. PICK f, stores : f = FileOf(n) /\ stores = StoresWithout(lost)
    OBVIOUS
  <2>2. IsWhole(f, blockSize)
    BY <1>1, <2>1, FileIsWhole
  <2>3. off \in Nat /\ length \in Nat
    OBVIOUS
  <2>4. ReadAt(f, off, length, blockSize, stores) =
          IF \A block \in Overlapping(f, off, length) : CanGet(stores, block)
            THEN Data(Slice(f, off, length)) ELSE Error
    BY <2>2, <2>3, ReadsExactly
  <2>5. Overlapping(f, off, length) \subseteq BlocksOf(n)
    BY <2>1, Zenon DEF Overlapping, BlocksOf
  <2>6. \A block \in Overlapping(f, off, length) : CanGet(stores, block) <=> block \notin lost
    BY <2>1, <2>5, StoresHave, Zenon
  <2>7. (\A block \in Overlapping(f, off, length) : CanGet(stores, block))
          <=> Overlapping(f, off, length) \cap lost = {}
    <3> HIDE DEF Overlapping, CanGet
    <3> QED
      BY <2>6, Zenon
  <2> QED
    BY <2>1, <2>4, <2>7, Zenon
<1>2. Init => SizeOK
  BY InitSizeOK
<1>3. IInv /\ SizeOK /\ [Next]_vars => SizeOK'
  BY NextSizeOK
<1> QED
  BY <1>1, <1>2, <1>3, Invariant, PTL DEF Spec
=============================================================================
