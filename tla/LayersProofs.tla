---------------------------- MODULE LayersProofs ----------------------------
(***************************************************************************)
(* Lemmas about Layers, for any names and any depth: about paths, about    *)
(* the lists of paths and entries that the merge keeps, about the inode    *)
(* tree that buildTree makes of them, and about the reference.             *)
(*                                                                         *)
(* What a loop over a list computes is a fold; FoldProofs has the          *)
(* induction over it, and is instantiated here for the operators of Layers.*)
(* The two results are ApplyLayerOverlay, that a round of the loop over    *)
(* the layers is one layer more in the reference, and BuildTreeShows, that *)
(* the tree built of a list shows what the list shows.                     *)
(***************************************************************************)
EXTENDS Layers, SequenceTheorems, FunctionTheorems, FiniteSetTheorems, TLAPS

-----------------------------------------------------------------------------
(* Paths.                                                                  *)

LEMMA PathIsSeq ==
  ASSUME NEW p \in Paths
  PROVE  /\ p \in Seq(Names)
         /\ Len(p) \in 1..MaxDepth /\ Len(p) \in Nat
         /\ p # <<>>
<1>1. PICK n \in 1..MaxDepth : p \in [1..n -> Names]
  BY DEF Paths
<1>2. n \in Nat
  BY <1>1, DepthAssumption
<1>3. p \in Seq(Names) /\ Len(p) = n
  BY <1>1, <1>2
<1> QED
  BY <1>1, <1>2, <1>3

LEMMA SeqIsPath ==
  ASSUME NEW p \in Seq(Names), Len(p) \in 1..MaxDepth
  PROVE  p \in Paths
<1>1. p \in [1..Len(p) -> Names]
  BY LenProperties
<1> QED
  BY <1>1 DEF Paths

\* The first n names of a path, as a path and as a sequence.
LEMMA Prefix ==
  ASSUME NEW q \in Seq(Names), NEW n \in 0..Len(q)
  PROVE  /\ SubSeq(q, 1, n) \in Seq(Names)
         /\ Len(SubSeq(q, 1, n)) = n
         /\ \A i \in 1..n : SubSeq(q, 1, n)[i] = q[i]
         /\ q \in Paths /\ n # 0 => SubSeq(q, 1, n) \in Paths
<1>1. /\ SubSeq(q, 1, n) \in Seq(Names)
      /\ Len(SubSeq(q, 1, n)) = n
      /\ \A i \in 1..n : SubSeq(q, 1, n)[i] = q[i]
  <2>1. \A i \in 1..n : q[i] \in Names
    BY LenProperties
  <2>2. n \in Nat /\ Len(q) \in Nat
    BY LenProperties
  <2> QED
    BY <2>1, <2>2
<1>2. ASSUME q \in Paths, n # 0
      PROVE  SubSeq(q, 1, n) \in Paths
  <2>1. Len(q) \in 1..MaxDepth
    BY <1>2, PathIsSeq
  <2>2. n \in 1..MaxDepth
    BY <1>2, <2>1, DepthAssumption
  <2> QED
    BY <1>1, <2>2, SeqIsPath
<1> QED
  BY <1>1, <1>2

\* One path is below another if it is longer and begins with it.
LEMMA BelowByNames ==
  ASSUME NEW q \in Seq(Names), NEW p \in Seq(Names)
  PROVE  IsBelow(q, p) <=> /\ Len(q) > Len(p)
                           /\ \A i \in 1..Len(p) : q[i] = p[i]
<1>1. Len(q) \in Nat /\ Len(p) \in Nat
  BY LenProperties
<1>2. CASE Len(q) > Len(p)
  <2>1. /\ SubSeq(q, 1, Len(p)) \in Seq(Names)
        /\ Len(SubSeq(q, 1, Len(p))) = Len(p)
        /\ \A i \in 1..Len(p) : SubSeq(q, 1, Len(p))[i] = q[i]
    BY <1>1, <1>2, Prefix
  <2>2. SubSeq(q, 1, Len(p)) = p <=> \A i \in 1..Len(p) : q[i] = p[i]
    BY <2>1, SeqEqual
  <2> QED
    BY <1>2, <2>2 DEF IsBelow
<1> QED
  BY <1>2 DEF IsBelow

\* Being below is a strict order.
LEMMA BelowOrder ==
  /\ \A p \in Seq(Names) : ~IsBelow(p, p)
  /\ \A p, q, r \in Seq(Names) : IsBelow(r, q) /\ IsBelow(q, p) => IsBelow(r, p)
<1>1. \A p \in Seq(Names) : Len(p) \in Nat
  BY LenProperties
<1>2. \A p \in Seq(Names) : ~IsBelow(p, p)
  BY <1>1 DEF IsBelow
<1>3. ASSUME NEW p \in Seq(Names), NEW q \in Seq(Names), NEW r \in Seq(Names),
             IsBelow(r, q), IsBelow(q, p)
      PROVE  IsBelow(r, p)
  <2>1. Len(r) > Len(q) /\ Len(q) > Len(p)
    BY <1>3 DEF IsBelow
  <2>2. \A i \in 1..Len(p) : r[i] = q[i] /\ q[i] = p[i]
    BY <1>1, <1>3, <2>1, BelowByNames
  <2> QED
    BY <1>1, <2>1, <2>2, BelowByNames
<1> QED
  BY <1>2, <1>3

\* What a path is below of, the path lies between.
LEMMA BelowLinear ==
  ASSUME NEW q \in Seq(Names), NEW p \in Seq(Names), NEW r \in Seq(Names),
         IsBelow(q, p), IsBelow(q, r)
  PROVE  p = r \/ IsBelow(p, r) \/ IsBelow(r, p)
<1>1. Len(p) \in Nat /\ Len(r) \in Nat /\ Len(q) \in Nat
  BY LenProperties
<1>2. /\ \A i \in 1..Len(p) : q[i] = p[i]
      /\ \A i \in 1..Len(r) : q[i] = r[i]
  BY BelowByNames
<1>3. CASE Len(p) = Len(r)
  BY <1>1, <1>2, <1>3, SeqEqual
<1>4. CASE Len(p) > Len(r)
  BY <1>1, <1>2, <1>4, BelowByNames
<1>5. CASE Len(r) > Len(p)
  BY <1>1, <1>2, <1>5, BelowByNames
<1> QED
  BY <1>1, <1>3, <1>4, <1>5

-----------------------------------------------------------------------------
(* Parents, ancestors and children.                                        *)

LEMMA ParentIsPath ==
  ASSUME NEW p \in Paths
  PROVE  /\ Parent(p) \in PathsAndRoot /\ Parent(p) \in Seq(Names)
         /\ Len(Parent(p)) = Len(p) - 1
         /\ IsBelow(p, Parent(p))
<1>1. p \in Seq(Names) /\ Len(p) \in Nat /\ Len(p) >= 1
  BY PathIsSeq, DepthAssumption
<1>2. /\ Parent(p) \in Seq(Names) /\ Len(Parent(p)) = Len(p) - 1
      /\ Len(p) - 1 # 0 => Parent(p) \in Paths
  <2>1. Len(p) - 1 \in 0..Len(p)
    BY <1>1
  <2> QED
    BY <1>1, <2>1, Prefix DEF Parent
<1>3. Len(p) - 1 = 0 => Parent(p) = <<>>
  BY <1>2, EmptySeq
<1>4. IsBelow(p, Parent(p))
  <2>1. \A i \in 1..Len(Parent(p)) : p[i] = Parent(p)[i]
    BY <1>1, <1>2, Prefix DEF Parent
  <2> QED
    BY <1>1, <1>2, <2>1, BelowByNames
<1> QED
  BY <1>2, <1>3, <1>4 DEF PathsAndRoot

LEMMA RootIsAboveAll ==
  \A p \in Paths : IsBelow(p, <<>>) /\ ~IsBelow(<<>>, p)
<1> SUFFICES ASSUME NEW p \in Paths PROVE IsBelow(p, <<>>) /\ ~IsBelow(<<>>, p)
  OBVIOUS
<1>1. Len(p) \in Nat /\ Len(p) >= 1 /\ p \in Seq(Names)
  BY PathIsSeq, DepthAssumption
<1>2. SubSeq(p, 1, 0) = <<>>
  BY SubSeqEmpty
<1> QED
  BY <1>1, <1>2 DEF IsBelow

\* The ancestors of a path are its parent and the parent's ancestors.
LEMMA AncestorsOfParent ==
  ASSUME NEW p \in Paths
  PROVE  /\ Parent(p) = <<>> => Ancestors(p) = {}
         /\ Parent(p) # <<>> =>
              /\ Parent(p) \in Paths
              /\ Ancestors(p) = Ancestors(Parent(p)) \cup {Parent(p)}
<1>1. /\ p \in Seq(Names) /\ Len(p) \in Nat
      /\ Parent(p) \in PathsAndRoot /\ Parent(p) \in Seq(Names)
      /\ Len(Parent(p)) = Len(p) - 1
      /\ IsBelow(p, Parent(p))
  BY PathIsSeq, ParentIsPath
<1>2. ASSUME NEW q \in Paths, IsBelow(p, q)
      PROVE  q = Parent(p) \/ IsBelow(Parent(p), q)
  <2>1. q \in Seq(Names) /\ Len(q) \in Nat /\ Len(p) > Len(q)
    BY <1>2, PathIsSeq DEF IsBelow
  <2>2. ~IsBelow(q, Parent(p))
    BY <1>1, <2>1 DEF IsBelow
  <2> QED
    BY <1>1, <1>2, <2>1, <2>2, BelowLinear
<1>3. ASSUME NEW q \in Paths, IsBelow(Parent(p), q)
      PROVE  IsBelow(p, q)
  BY <1>1, <1>3, PathIsSeq, BelowOrder
<1>4. CASE Parent(p) = <<>>
  BY <1>2, <1>4, RootIsAboveAll DEF Ancestors
<1>5. CASE Parent(p) # <<>>
  BY <1>1, <1>2, <1>3, <1>5 DEF Ancestors, PathsAndRoot
<1> QED
  BY <1>4, <1>5

LEMMA ChildrenByParent ==
  ASSUME NEW p \in PathsAndRoot
  PROVE  \A q \in Paths : q \in Children(p) <=> Parent(q) = p
<1> SUFFICES ASSUME NEW q \in Paths PROVE q \in Children(p) <=> Parent(q) = p
  OBVIOUS
<1>1. /\ q \in Seq(Names) /\ Len(q) \in Nat
      /\ Len(Parent(q)) = Len(q) - 1 /\ IsBelow(q, Parent(q))
  BY PathIsSeq, ParentIsPath
<1>2. Len(p) \in Nat
  BY PathIsSeq DEF PathsAndRoot
<1> QED
  BY <1>1, <1>2 DEF Children, IsBelow, Parent

\* On the way down to q the next step from p is a child of p.
LEMMA ChildTowards ==
  ASSUME NEW p \in PathsAndRoot, NEW q \in Paths, IsBelow(q, p)
  PROVE  \E r \in Children(p) : r = q \/ r \in Ancestors(q)
<1>1. /\ p \in Seq(Names) /\ q \in Seq(Names)
      /\ Len(p) \in Nat /\ Len(q) \in Nat /\ Len(q) > Len(p)
  BY PathIsSeq DEF PathsAndRoot, IsBelow
<1> DEFINE r == SubSeq(q, 1, Len(p) + 1)
<1>2. /\ r \in Seq(Names) /\ r \in Paths /\ Len(r) = Len(p) + 1
      /\ \A i \in 1..Len(p) + 1 : r[i] = q[i]
  BY <1>1, Prefix
<1> HIDE DEF r
<1>3. \A i \in 1..Len(p) : q[i] = p[i]
  BY <1>1, BelowByNames
<1>4. IsBelow(r, p)
  BY <1>1, <1>2, <1>3, BelowByNames
<1>5. r = q \/ IsBelow(q, r)
  <2>1. CASE Len(q) = Len(p) + 1
    BY <1>1, <1>2, <2>1, SeqEqual
  <2>2. CASE Len(q) > Len(p) + 1
    BY <1>1, <1>2, <2>2, BelowByNames
  <2> QED
    BY <1>1, <2>1, <2>2
<1> QED
  BY <1>2, <1>4, <1>5 DEF Children, Ancestors

-----------------------------------------------------------------------------
(* The folds of Layers, as folds of FoldProofs.                            *)

MarkerStep(c, m, e) == ApplyMarker(m, e)
FileStep(c, m, e)   == AddFile(m, e)
RawStep(c, m, e)    == AddRaw(m, e)
WalkStep(c, at, x)  == EnsureDir(at, x)
InsertStep(c, t, e) == Insert(t, e)

Keeps   == INSTANCE FoldProofs WITH op <- Keep
Markers == INSTANCE FoldProofs WITH op <- MarkerStep
Files   == INSTANCE FoldProofs WITH op <- FileStep
Raws    == INSTANCE FoldProofs WITH op <- RawStep
Walks   == INSTANCE FoldProofs WITH op <- WalkStep
Inserts == INSTANCE FoldProofs WITH op <- InsertStep
Lookups == INSTANCE FoldProofs WITH op <- Lookup

LEMMA KeepFold ==
  ASSUME NEW m, NEW gone
  PROVE  Drop(m, gone).order = Keeps!Fold(gone, <<>>, m.order)
BY DEF Drop, Keeps!Fold, Keeps!Follows, Keeps!Greatest,
   Seqs!FoldLeft, Seqs!MapThenFoldSet, Seqs!Max

LEMMA ListFolds ==
  ASSUME NEW base, NEW seq
  PROVE  /\ Seqs!FoldLeft(ApplyMarker, base, seq) = Markers!Fold("", base, seq)
         /\ Seqs!FoldLeft(AddFile, base, seq) = Files!Fold("", base, seq)
         /\ Seqs!FoldLeft(AddRaw, base, seq) = Raws!Fold("", base, seq)
<1>1. Seqs!FoldLeft(ApplyMarker, base, seq) = Markers!Fold("", base, seq)
  BY DEF Markers!Fold, Markers!Follows, Markers!Greatest, MarkerStep,
     Seqs!FoldLeft, Seqs!MapThenFoldSet, Seqs!Max
<1>2. Seqs!FoldLeft(AddFile, base, seq) = Files!Fold("", base, seq)
  BY DEF Files!Fold, Files!Follows, Files!Greatest, FileStep,
     Seqs!FoldLeft, Seqs!MapThenFoldSet, Seqs!Max
<1>3. Seqs!FoldLeft(AddRaw, base, seq) = Raws!Fold("", base, seq)
  BY DEF Raws!Fold, Raws!Follows, Raws!Greatest, RawStep,
     Seqs!FoldLeft, Seqs!MapThenFoldSet, Seqs!Max
<1> QED
  BY <1>1, <1>2, <1>3

LEMMA TreeFolds ==
  ASSUME NEW base, NEW seq
  PROVE  /\ Seqs!FoldLeft(EnsureDir, base, seq) = Walks!Fold("", base, seq)
         /\ Seqs!FoldLeft(Insert, base, seq) = Inserts!Fold("", base, seq)
         /\ LookupPath(base, seq) = Lookups!Fold(base, 1, seq)
<1>1. Seqs!FoldLeft(EnsureDir, base, seq) = Walks!Fold("", base, seq)
  BY DEF Walks!Fold, Walks!Follows, Walks!Greatest, WalkStep,
     Seqs!FoldLeft, Seqs!MapThenFoldSet, Seqs!Max
<1>2. Seqs!FoldLeft(Insert, base, seq) = Inserts!Fold("", base, seq)
  BY DEF Inserts!Fold, Inserts!Follows, Inserts!Greatest, InsertStep,
     Seqs!FoldLeft, Seqs!MapThenFoldSet, Seqs!Max
<1>3. LookupPath(base, seq) = Lookups!Fold(base, 1, seq)
  BY DEF LookupPath, Lookups!Fold, Lookups!Follows, Lookups!Greatest,
     Seqs!FoldLeft, Seqs!MapThenFoldSet, Seqs!Max
<1> QED
  BY <1>1, <1>2, <1>3

-----------------------------------------------------------------------------
(* The lists of paths and entries.                                         *)

\* Lists that name each path once, in order, with an entry out of E at each.
Lists(E) ==
  {m \in [order : Seq(Paths), files : UNION {[S -> E] : S \in SUBSET Paths}] :
     /\ DOMAIN m.files = {m.order[i] : i \in DOMAIN m.order}
     /\ \A i, j \in DOMAIN m.order : m.order[i] = m.order[j] => i = j}

\* What the lists say of every path.
ListView(m) ==
  [p \in Paths |-> IF p \in DOMAIN m.files THEN m.files[p] ELSE None]

LEMMA ListParts ==
  ASSUME NEW E, NEW m \in Lists(E)
  PROVE  /\ m.order \in Seq(Paths) /\ Len(m.order) \in Nat
         /\ DOMAIN m.order = 1..Len(m.order)
         /\ DOMAIN m.files \in SUBSET Paths
         /\ m.files \in [DOMAIN m.files -> E]
         /\ DOMAIN m.files = {m.order[i] : i \in DOMAIN m.order}
         /\ \A i, j \in DOMAIN m.order : m.order[i] = m.order[j] => i = j
<1>1. /\ m.order \in Seq(Paths)
      /\ m.files \in UNION {[S -> E] : S \in SUBSET Paths}
  BY DEF Lists
<1>2. PICK S \in SUBSET Paths : m.files \in [S -> E]
  BY <1>1
<1> QED
  BY <1>1, <1>2 DEF Lists

LEMMA ListIs ==
  ASSUME NEW E, NEW order \in Seq(Paths), NEW S \in SUBSET Paths,
         NEW files \in [S -> E], {order[i] : i \in DOMAIN order} = S,
         \A i, j \in DOMAIN order : order[i] = order[j] => i = j
  PROVE  [order |-> order, files |-> files] \in Lists(E)
<1> DEFINE m == [order |-> order, files |-> files]
<1>1. files \in UNION {[X -> E] : X \in SUBSET Paths}
  OBVIOUS
<1>2. m \in [order : Seq(Paths), files : UNION {[X -> E] : X \in SUBSET Paths}]
  BY <1>1
<1>3. m.order = order /\ m.files = files /\ DOMAIN files = S
  OBVIOUS
<1> HIDE DEF m
<1>4. /\ DOMAIN m.files = {m.order[i] : i \in DOMAIN m.order}
      /\ \A i, j \in DOMAIN m.order : m.order[i] = m.order[j] => i = j
  BY <1>3
<1>5. m \in Lists(E)
  BY <1>2, <1>4 DEF Lists
<1> QED
  BY <1>5 DEF m

LEMMA NothingListed ==
  ASSUME NEW E
  PROVE  /\ Nothing \in Lists(E)
         /\ ListView(Nothing) = [p \in Paths |-> None]
<1>1. DOMAIN <<>> = {} /\ <<>> \in Seq(Paths)
  OBVIOUS
<1>2. <<>> \in [{} -> E]
  OBVIOUS
<1>3. <<>> \in UNION {[S -> E] : S \in SUBSET Paths}
  BY <1>2
<1> QED
  BY <1>1, <1>3 DEF Nothing, Lists, ListView

LEMMA ListLength ==
  ASSUME NEW E, NEW m \in Lists(E)
  PROVE  Len(m.order) = Cardinality(DOMAIN m.files)
<1> DEFINE n == Len(m.order)
           S == DOMAIN m.files
<1>1. /\ n \in Nat /\ m.order \in [1..n -> S]
      /\ \A i, j \in 1..n : m.order[i] = m.order[j] => i = j
      /\ \A p \in S : \E i \in 1..n : m.order[i] = p
  BY ListParts
<1> HIDE DEF n, S
<1>2. m.order \in Bijection(1..n, S)
  BY <1>1, Fun_IsBij
<1>3. ExistsBijection(1..n, S)
  BY <1>2 DEF ExistsBijection
<1>4. Cardinality(S) = n
  BY <1>1, <1>3, FS_CountingElements
<1> QED
  BY <1>4 DEF n, S

\* add puts an entry at a path.
LEMMA AddListed ==
  ASSUME NEW E, NEW m \in Lists(E), NEW e, e.path \in Paths, e.entry \in E
  PROVE  /\ Add(m, e) \in Lists(E)
         /\ \A p \in Paths :
              ListView(Add(m, e))[p] =
                IF p = e.path THEN e.entry ELSE ListView(m)[p]
<1> DEFINE n == Len(m.order)
           S == DOMAIN m.files
           order == Add(m, e).order
           files == Add(m, e).files
<1>1. /\ m.order \in Seq(Paths) /\ n \in Nat /\ DOMAIN m.order = 1..n
      /\ S \in SUBSET Paths /\ m.files \in [S -> E]
      /\ S = {m.order[i] : i \in 1..n}
      /\ \A i, j \in 1..n : m.order[i] = m.order[j] => i = j
  BY ListParts
<1> HIDE DEF n, S
<1>2. /\ Add(m, e) = [order |-> order, files |-> files]
      /\ order = IF e.path \in S THEN m.order ELSE Append(m.order, e.path)
      /\ files = [q \in S \cup {e.path} |->
                    IF q = e.path THEN e.entry ELSE m.files[q]]
  BY DEF Add, S
<1> HIDE DEF order, files
<1>3. files \in [S \cup {e.path} -> E] /\ S \cup {e.path} \in SUBSET Paths
  BY <1>1, <1>2
<1>4. /\ order \in Seq(Paths)
      /\ {order[i] : i \in DOMAIN order} = S \cup {e.path}
      /\ \A i, j \in DOMAIN order : order[i] = order[j] => i = j
  <2>1. CASE e.path \in S
    BY <1>1, <1>2, <2>1, SMTT(40)
  <2>2. CASE e.path \notin S
    <3>1. order = Append(m.order, e.path)
      BY <1>2, <2>2
    <3>2. /\ order \in Seq(Paths) /\ DOMAIN order = 1..(n + 1)
          /\ order[n + 1] = e.path /\ \A i \in 1..n : order[i] = m.order[i]
      BY <1>1, <3>1 DEF n
    <3>3. {order[i] : i \in 1..(n + 1)} = S \cup {e.path}
      <4>1. \A i \in 1..(n + 1) : i \in 1..n \/ i = n + 1
        BY <1>1
      <4>2. \A i \in 1..n : i \in 1..(n + 1)
        BY <1>1
      <4>3. n + 1 \in 1..(n + 1)
        BY <1>1
      <4> QED
        BY <1>1, <3>2, <4>1, <4>2, <4>3
    <3>4. ASSUME NEW i \in 1..(n + 1), NEW j \in 1..(n + 1), order[i] = order[j]
          PROVE  i = j
      <4>1. CASE i \in 1..n /\ j \in 1..n
        BY <1>1, <3>2, <3>4, <4>1
      <4>2. CASE i = n + 1 /\ j \in 1..n
        BY <1>1, <2>2, <3>2, <3>4, <4>2
      <4>3. CASE i \in 1..n /\ j = n + 1
        BY <1>1, <2>2, <3>2, <3>4, <4>3
      <4>4. (i \in 1..n \/ i = n + 1) /\ (j \in 1..n \/ j = n + 1)
        BY <1>1
      <4> QED
        BY <4>1, <4>2, <4>3, <4>4
    <3> QED
      BY <3>2, <3>3, <3>4
  <2> QED
    BY <2>1, <2>2
<1>5. Add(m, e) \in Lists(E)
  <2>1. PICK D : D = S \cup {e.path}
    OBVIOUS
  <2>2. /\ D \in SUBSET Paths /\ files \in [D -> E] /\ order \in Seq(Paths)
        /\ {order[i] : i \in DOMAIN order} = D
    BY <1>3, <1>4, <2>1
  <2>3. [order |-> order, files |-> files] \in Lists(E)
    BY <1>4, <2>2, ListIs
  <2> QED
    BY <1>2, <2>3
<1>6. ASSUME NEW p \in Paths
      PROVE  ListView(Add(m, e))[p] =
               IF p = e.path THEN e.entry ELSE ListView(m)[p]
  <2>1. /\ ListView(Add(m, e))[p] = IF p \in S \cup {e.path} THEN files[p] ELSE None
        /\ ListView(m)[p] = IF p \in S THEN m.files[p] ELSE None
    BY <1>2, <1>3 DEF ListView, S
  <2> QED
    BY <1>2, <2>1
<1> QED
  BY <1>5, <1>6

\* The loop in del keeps the paths that are not hidden, in their order.
LEMMA DropListed ==
  ASSUME NEW E, NEW m \in Lists(E), NEW gone
  PROVE  /\ Drop(m, gone) \in Lists(E)
         /\ \A p \in Paths :
              ListView(Drop(m, gone))[p] =
                IF p \in gone THEN None ELSE ListView(m)[p]
<1> DEFINE n == Len(m.order)
           S == DOMAIN m.files
           order == Drop(m, gone).order
           files == Drop(m, gone).files
           Kept(k) == {m.order[i] : i \in 1..k} \ gone
           T == [k \in 0..n |->
                   {s \in Seq(Paths) :
                      /\ {s[i] : i \in DOMAIN s} = Kept(k)
                      /\ \A i, j \in DOMAIN s : s[i] = s[j] => i = j}]
<1>1. /\ m.order \in Seq(Paths) /\ n \in Nat /\ DOMAIN m.order = 1..n
      /\ S \in SUBSET Paths /\ m.files \in [S -> E]
      /\ S = {m.order[i] : i \in 1..n}
      /\ \A i, j \in 1..n : m.order[i] = m.order[j] => i = j
      /\ \A i \in 1..n : m.order[i] \in Paths
  BY ListParts
<1> HIDE DEF n, S
<1>2. /\ Drop(m, gone) = [order |-> order, files |-> files]
      /\ files = [q \in S \ gone |-> m.files[q]]
  BY DEF Drop, S
<1>3. order = Keeps!Fold(gone, <<>>, m.order)
  BY KeepFold
<1> HIDE DEF order, files
<1>4. <<>> \in T[0]
  <2>1. Kept(0) = {} /\ DOMAIN <<>> = {} /\ <<>> \in Seq(Paths) /\ 0 \in 0..n
    BY <1>1
  <2> QED
    BY <2>1
<1>5. ASSUME NEW k \in 1..n, NEW s \in T[k - 1]
      PROVE  Keep(gone, s, m.order[k]) \in T[k]
  <2> DEFINE q == m.order[k]
             t == Keep(gone, s, q)
  <2>1. /\ k \in 0..n /\ k - 1 \in 0..n
        /\ \A i \in 1..k : i \in 1..n /\ (i \in 1..(k - 1) \/ i = k)
        /\ \A i \in 1..(k - 1) : i \in 1..k /\ i # k
        /\ k \in 1..k /\ q \in Paths
    BY <1>1
  <2>2. /\ s \in Seq(Paths) /\ {s[i] : i \in DOMAIN s} = Kept(k - 1)
        /\ \A i, j \in DOMAIN s : s[i] = s[j] => i = j
    BY <1>5, <2>1
  <2>3. Kept(k) = Kept(k - 1) \cup ({q} \ gone)
    BY <2>1
  <2>4. q \notin Kept(k - 1)
    BY <1>1, <2>1
  <2> HIDE DEF q, Kept
  <2>5. CASE q \in gone
    <3>1. t = s /\ Kept(k) = Kept(k - 1)
      BY <2>3, <2>5 DEF Keep
    <3> QED
      BY <2>1, <2>2, <3>1 DEF q
  <2>6. CASE q \notin gone
    <3>1. t = Append(s, q) /\ Kept(k) = Kept(k - 1) \cup {q}
      BY <2>3, <2>6 DEF Keep
    <3> HIDE DEF t
    <3> DEFINE l == Len(s)
    <3>2. /\ l \in Nat /\ DOMAIN s = 1..l
          /\ t \in Seq(Paths) /\ DOMAIN t = 1..(l + 1)
          /\ t[l + 1] = q /\ \A i \in 1..l : t[i] = s[i]
      BY <2>1, <2>2, <3>1
    <3> HIDE DEF l
    <3>3. /\ \A i \in 1..(l + 1) : i \in 1..l \/ i = l + 1
          /\ \A i \in 1..l : i \in 1..(l + 1)
          /\ l + 1 \in 1..(l + 1)
      BY <3>2
    <3>4. {t[i] : i \in 1..(l + 1)} = Kept(k)
      BY <2>2, <3>1, <3>2, <3>3
    <3>5. ASSUME NEW i \in 1..(l + 1), NEW j \in 1..(l + 1), t[i] = t[j]
          PROVE  i = j
      <4>1. \A h \in 1..l : s[h] # q
        BY <2>2, <2>4, <3>2
      <4>2. CASE i \in 1..l /\ j \in 1..l
        BY <2>2, <3>2, <3>5, <4>2
      <4>3. CASE i = l + 1 \/ j = l + 1
        BY <3>2, <3>3, <3>5, <4>1, <4>3
      <4> QED
        BY <3>3, <4>2, <4>3
    <3>6. /\ {t[i] : i \in DOMAIN t} = Kept(k)
          /\ \A i, j \in DOMAIN t : t[i] = t[j] => i = j
      BY <3>2, <3>4, <3>5
    <3> QED
      BY <2>1, <3>2, <3>6 DEF t, q
  <2> QED
    BY <2>5, <2>6
<1>6. order \in T[n]
  <2> HIDE DEF T
  <2> QED
    BY <1>1, <1>3, <1>4, <1>5, Keeps!FoldInduct
<1>7. /\ order \in Seq(Paths)
      /\ {order[i] : i \in DOMAIN order} = S \ gone
      /\ \A i, j \in DOMAIN order : order[i] = order[j] => i = j
  BY <1>1, <1>6
<1> HIDE DEF T
<1>8. files \in [S \ gone -> E] /\ S \ gone \in SUBSET Paths
  BY <1>1, <1>2
<1>9. Drop(m, gone) \in Lists(E)
  <2>1. PICK D : D = S \ gone
    OBVIOUS
  <2>2. /\ D \in SUBSET Paths /\ files \in [D -> E] /\ order \in Seq(Paths)
        /\ {order[i] : i \in DOMAIN order} = D
    BY <1>7, <1>8, <2>1
  <2>3. [order |-> order, files |-> files] \in Lists(E)
    BY <1>7, <2>2, ListIs
  <2> QED
    BY <1>2, <2>3
<1>10. ASSUME NEW p \in Paths
       PROVE  ListView(Drop(m, gone))[p] =
                IF p \in gone THEN None ELSE ListView(m)[p]
  <2>1. /\ ListView(Drop(m, gone))[p] = IF p \in S \ gone THEN files[p] ELSE None
        /\ ListView(m)[p] = IF p \in S THEN m.files[p] ELSE None
    BY <1>2, <1>8 DEF ListView, S
  <2> QED
    BY <1>2, <2>1
<1> QED
  BY <1>9, <1>10

-----------------------------------------------------------------------------
(* The two loops over the entries of a layer.                              *)

\* The marker e hides p from the layers below.
MarkerHides(e, p) ==
  \/ e.entry = Whiteout /\ (p = e.path \/ IsBelow(p, e.path))
  \/ e.entry = Opaque /\ e.path # <<>> /\ IsBelow(p, e.path)

IsAt(e, p) == ~IsMarker(e) /\ e.path = p

\* After k entries of the first loop, and of the second.
Unhidden(v, m, layer, k) ==
  \A p \in Paths :
    v[p] = IF \E i \in 1..k : MarkerHides(layer[i], p) THEN None
           ELSE ListView(m)[p]
Listed(v, m, layer, k) ==
  \A p \in Paths :
    /\ \A i \in 1..k : IsAt(layer[i], p) => v[p] = layer[i].entry
    /\ (\A i \in 1..k : ~IsAt(layer[i], p)) => v[p] = ListView(m)[p]

\* What the loops need of a layer, weaker than what a commit lists.
LayerOK(layer, E) ==
  /\ \E n \in Nat : DOMAIN layer = 1..n
  /\ \A i \in DOMAIN layer :
       /\ layer[i].path \in PathsAndRoot
       /\ layer[i].entry = Whiteout => layer[i].path # <<>>
       /\ ~IsMarker(layer[i]) => layer[i].entry \in E
  /\ \A i, j \in DOMAIN layer : \A p \in Paths :
       IsAt(layer[i], p) /\ IsAt(layer[j], p) => layer[i].entry = layer[j].entry

LEMMA MarkerListed ==
  ASSUME NEW E, NEW m \in Lists(E), NEW e, e.path \in PathsAndRoot
  PROVE  /\ ApplyMarker(m, e) \in Lists(E)
         /\ \A p \in Paths :
              ListView(ApplyMarker(m, e))[p] =
                IF MarkerHides(e, p) THEN None ELSE ListView(m)[p]
<1>0. Whiteout # Opaque
  BY DEF Whiteout, Opaque
<1>1. CASE e.entry = Whiteout
  <2>1. PICK gone : gone = {e.path} \cup Below(e.path)
    OBVIOUS
  <2>2. ApplyMarker(m, e) = Drop(m, gone)
    BY <1>1, <2>1 DEF ApplyMarker, Del
  <2>3. \A p \in Paths : MarkerHides(e, p) <=> p \in gone
    BY <1>0, <1>1, <2>1 DEF MarkerHides, Below
  <2> QED
    BY <2>2, <2>3, DropListed
<1>2. CASE e.entry = Opaque /\ e.path # <<>>
  <2>1. PICK gone : gone = Below(e.path)
    OBVIOUS
  <2>2. ApplyMarker(m, e) = Drop(m, gone)
    BY <1>0, <1>2, <2>1 DEF ApplyMarker
  <2>3. \A p \in Paths : MarkerHides(e, p) <=> p \in gone
    BY <1>0, <1>2, <2>1 DEF MarkerHides, Below
  <2> QED
    BY <2>2, <2>3, DropListed
<1>3. CASE e.entry # Whiteout /\ ~(e.entry = Opaque /\ e.path # <<>>)
  <2>1. ApplyMarker(m, e) = m /\ \A p \in Paths : ~MarkerHides(e, p)
    BY <1>3 DEF ApplyMarker, MarkerHides
  <2> QED
    BY <2>1
<1> QED
  BY <1>1, <1>2, <1>3

LEMMA MarkersListed ==
  ASSUME NEW E, NEW m \in Lists(E), NEW n \in Nat, NEW layer,
         DOMAIN layer = 1..n,
         \A i \in 1..n : layer[i].path \in PathsAndRoot
  PROVE  LET x == Seqs!FoldLeft(ApplyMarker, m, layer)
         IN x \in Lists(E) /\ Unhidden(ListView(x), m, layer, n)
<1> DEFINE T == [k \in 0..n |->
                   {y \in Lists(E) : Unhidden(ListView(y), m, layer, k)}]
           x == Seqs!FoldLeft(ApplyMarker, m, layer)
<1>1. m \in T[0]
  <2>1. 1..0 = {} /\ 0 \in 0..n
    OBVIOUS
  <2>2. Unhidden(ListView(m), m, layer, 0)
    BY <2>1 DEF Unhidden
  <2> QED
    BY <2>1, <2>2
<1>2. ASSUME NEW k \in 1..n, NEW y \in T[k - 1]
      PROVE  MarkerStep("", y, layer[k]) \in T[k]
  <2>1. /\ k \in 0..n /\ k - 1 \in 0..n
        /\ \A i \in 1..k : i \in 1..(k - 1) \/ i = k
        /\ \A i \in 1..(k - 1) : i \in 1..k
        /\ k \in 1..k
    OBVIOUS
  <2>2. y \in Lists(E) /\ Unhidden(ListView(y), m, layer, k - 1)
    BY <2>1
  <2> DEFINE z == ApplyMarker(y, layer[k])
  <2>3. /\ z \in Lists(E)
        /\ \A p \in Paths :
             ListView(z)[p] =
               IF MarkerHides(layer[k], p) THEN None ELSE ListView(y)[p]
    BY <2>2, MarkerListed
  <2>4. Unhidden(ListView(z), m, layer, k)
    <3> HIDE DEF z
    <3> SUFFICES ASSUME NEW p \in Paths
                 PROVE  ListView(z)[p] =
                          IF \E i \in 1..k : MarkerHides(layer[i], p) THEN None
                          ELSE ListView(m)[p]
      BY DEF Unhidden
    <3>1. ListView(y)[p] =
            IF \E i \in 1..(k - 1) : MarkerHides(layer[i], p) THEN None
            ELSE ListView(m)[p]
      BY <2>2 DEF Unhidden
    <3> QED
      BY <2>1, <2>3, <3>1
  <2> QED
    BY <2>1, <2>3, <2>4 DEF MarkerStep
<1>3. x \in T[n]
  <2>1. x = Markers!Fold("", m, layer)
    BY ListFolds
  <2> HIDE DEF T, x
  <2> QED
    BY <1>1, <1>2, <2>1, Markers!FoldInduct
<1> QED
  BY <1>3

LEMMA FileListed ==
  ASSUME NEW E, NEW m \in Lists(E), NEW e, e.path \in PathsAndRoot,
         ~IsMarker(e) => e.entry \in E
  PROVE  /\ AddFile(m, e) \in Lists(E)
         /\ \A p \in Paths :
              ListView(AddFile(m, e))[p] =
                IF IsAt(e, p) THEN e.entry ELSE ListView(m)[p]
<1>1. CASE IsMarker(e) \/ e.path = <<>>
  <2>1. <<>> \notin Paths
    BY PathIsSeq
  <2>2. AddFile(m, e) = m /\ \A p \in Paths : ~IsAt(e, p)
    BY <1>1, <2>1 DEF AddFile, IsAt
  <2> QED
    BY <2>2
<1>2. CASE ~IsMarker(e) /\ e.path # <<>>
  <2>1. AddFile(m, e) = Add(m, e) /\ e.path \in Paths /\ e.entry \in E
    BY <1>2 DEF AddFile, PathsAndRoot
  <2>2. \A p \in Paths : IsAt(e, p) <=> p = e.path
    BY <1>2 DEF IsAt
  <2> QED
    BY <2>1, <2>2, AddListed
<1> QED
  BY <1>1, <1>2

\* One more entry in the second loop.
LEMMA ListedNext ==
  ASSUME NEW E, NEW layer, LayerOK(layer, E), NEW m, NEW y, NEW z,
         NEW n \in Nat, DOMAIN layer = 1..n, NEW k \in 1..n,
         Listed(ListView(y), m, layer, k - 1),
         \A p \in Paths :
           ListView(z)[p] =
             IF IsAt(layer[k], p) THEN layer[k].entry ELSE ListView(y)[p]
  PROVE  Listed(ListView(z), m, layer, k)
<1>1. /\ \A i \in 1..k : i \in 1..n /\ (i \in 1..(k - 1) \/ i = k)
      /\ \A i \in 1..(k - 1) : i \in 1..k
      /\ k \in 1..k
  OBVIOUS
<1> SUFFICES ASSUME NEW p \in Paths
             PROVE  /\ \A i \in 1..k : IsAt(layer[i], p) =>
                         ListView(z)[p] = layer[i].entry
                    /\ (\A i \in 1..k : ~IsAt(layer[i], p)) =>
                         ListView(z)[p] = ListView(m)[p]
  BY DEF Listed
<1>2. /\ \A i \in 1..(k - 1) : IsAt(layer[i], p) => ListView(y)[p] = layer[i].entry
      /\ (\A i \in 1..(k - 1) : ~IsAt(layer[i], p)) => ListView(y)[p] = ListView(m)[p]
  BY DEF Listed
<1>3. \A i \in 1..k : IsAt(layer[i], p) /\ IsAt(layer[k], p) =>
        layer[i].entry = layer[k].entry
  BY <1>1 DEF LayerOK
<1> QED
  BY <1>1, <1>2, <1>3

LEMMA FilesListed ==
  ASSUME NEW E, NEW m \in Lists(E), NEW layer, LayerOK(layer, E),
         NEW n \in Nat, DOMAIN layer = 1..n
  PROVE  LET x == Seqs!FoldLeft(AddFile, m, layer)
         IN x \in Lists(E) /\ Listed(ListView(x), m, layer, n)
<1> DEFINE T == [k \in 0..n |->
                   {y \in Lists(E) : Listed(ListView(y), m, layer, k)}]
           x == Seqs!FoldLeft(AddFile, m, layer)
<1>1. m \in T[0]
  <2>1. 1..0 = {} /\ 0 \in 0..n
    OBVIOUS
  <2>2. Listed(ListView(m), m, layer, 0)
    BY <2>1 DEF Listed
  <2> QED
    BY <2>1, <2>2
<1>2. ASSUME NEW k \in 1..n, NEW y \in T[k - 1]
      PROVE  FileStep("", y, layer[k]) \in T[k]
  <2>1. k \in 0..n /\ k - 1 \in 0..n
    OBVIOUS
  <2>2. y \in Lists(E) /\ Listed(ListView(y), m, layer, k - 1)
    BY <2>1
  <2>3. /\ layer[k].path \in PathsAndRoot
        /\ ~IsMarker(layer[k]) => layer[k].entry \in E
    BY DEF LayerOK
  <2> DEFINE z == AddFile(y, layer[k])
  <2>4. /\ z \in Lists(E)
        /\ \A p \in Paths :
             ListView(z)[p] =
               IF IsAt(layer[k], p) THEN layer[k].entry ELSE ListView(y)[p]
    BY <2>2, <2>3, FileListed
  <2> HIDE DEF z
  <2>5. Listed(ListView(z), m, layer, k)
    BY <2>2, <2>4, ListedNext
  <2> QED
    BY <2>1, <2>4, <2>5 DEF FileStep, z
<1>3. x \in T[n]
  <2>1. x = Files!Fold("", m, layer)
    BY ListFolds
  <2> HIDE DEF T, x
  <2> QED
    BY <1>1, <1>2, <2>1, Files!FoldInduct
<1> QED
  BY <1>3

LEMMA RawListed ==
  ASSUME NEW E, Dir \in E, NEW layer, LayerOK(layer, E),
         NEW n \in Nat, DOMAIN layer = 1..n
  PROVE  LET x == SingleLayer(layer)
         IN /\ x \in Lists(E)
            /\ (\A i \in 1..n : ~IsMarker(layer[i])) =>
                 Listed(ListView(x), Nothing, layer, n)
<1> DEFINE NoMarkers == \A i \in 1..n : ~IsMarker(layer[i])
           T == [k \in 0..n |->
                   {y \in Lists(E) :
                      NoMarkers => Listed(ListView(y), Nothing, layer, k)}]
           x == SingleLayer(layer)
<1>1. Nothing \in T[0]
  <2>1. 1..0 = {} /\ 0 \in 0..n
    OBVIOUS
  <2>2. Listed(ListView(Nothing), Nothing, layer, 0)
    BY <2>1 DEF Listed
  <2> QED
    BY <2>1, <2>2, NothingListed
<1>2. ASSUME NEW k \in 1..n, NEW y \in T[k - 1]
      PROVE  RawStep("", y, layer[k]) \in T[k]
  <2> DEFINE e == layer[k]
             z == AddRaw(y, e)
  <2>1. k \in 0..n /\ k - 1 \in 0..n
    OBVIOUS
  <2>2. /\ y \in Lists(E)
        /\ NoMarkers => Listed(ListView(y), Nothing, layer, k - 1)
    BY <2>1
  <2>3. /\ e.path \in PathsAndRoot
        /\ ~IsMarker(e) => e.entry \in E
        /\ e.entry = Whiteout => e.path \in Paths
    BY DEF LayerOK, PathsAndRoot
  <2>4. CASE ~IsMarker(e)
    <3>1. z = AddFile(y, e)
      BY <2>4 DEF AddRaw
    <3> HIDE DEF z, e
    <3>2. /\ z \in Lists(E)
          /\ \A p \in Paths :
               ListView(z)[p] = IF IsAt(e, p) THEN e.entry ELSE ListView(y)[p]
      BY <2>2, <2>3, <3>1, FileListed
    <3>3. NoMarkers => Listed(ListView(z), Nothing, layer, k)
      BY <2>2, <3>2, ListedNext DEF e
    <3> QED
      BY <2>1, <3>2, <3>3 DEF RawStep, z, e
  <2>5. CASE IsMarker(e)
    <3> DEFINE d == IF e.entry = Whiteout THEN Parent(e.path) ELSE e.path
               f == [path |-> d, entry |-> Dir]
    <3>1. z = AddFile(y, f)
      BY <2>5 DEF AddRaw
    <3>2. ~NoMarkers
      BY <2>5
    <3> HIDE DEF z, e
    <3>3. d \in PathsAndRoot
      BY <2>3, ParentIsPath
    <3> HIDE DEF d
    <3>4. f.path \in PathsAndRoot /\ f.entry \in E
      BY <3>3
    <3> HIDE DEF f
    <3>5. z \in Lists(E)
      BY <2>2, <3>1, <3>4, FileListed
    <3> QED
      BY <2>1, <3>2, <3>5 DEF RawStep, z, e
  <2> QED
    BY <2>4, <2>5
<1>3. x \in T[n]
  <2>1. x = Raws!Fold("", Nothing, layer)
    BY ListFolds DEF SingleLayer
  <2> HIDE DEF T, x
  <2> QED
    BY <1>1, <1>2, <2>1, Raws!FoldInduct
<1> QED
  BY <1>3

\* One round of the loop over the layers.
LEMMA ApplyLayerListed ==
  ASSUME NEW E, NEW m \in Lists(E), NEW layer, LayerOK(layer, E),
         NEW n \in Nat, DOMAIN layer = 1..n
  PROVE  LET x == ApplyLayer(m, layer)
         IN /\ x \in Lists(E)
            /\ \A p \in Paths :
                 /\ \A i \in 1..n :
                      IsAt(layer[i], p) => ListView(x)[p] = layer[i].entry
                 /\ (\A i \in 1..n : ~IsAt(layer[i], p)) =>
                      ListView(x)[p] =
                        IF \E i \in 1..n : MarkerHides(layer[i], p) THEN None
                        ELSE ListView(m)[p]
<1> DEFINE y == Seqs!FoldLeft(ApplyMarker, m, layer)
           x == ApplyLayer(m, layer)
<1>1. x = Seqs!FoldLeft(AddFile, y, layer)
  BY DEF ApplyLayer
<1>2. \A i \in 1..n : layer[i].path \in PathsAndRoot
  BY DEF LayerOK
<1>3. y \in Lists(E) /\ Unhidden(ListView(y), m, layer, n)
  BY <1>2, MarkersListed
<1> HIDE DEF x, y
<1>4. x \in Lists(E) /\ Listed(ListView(x), y, layer, n)
  BY <1>1, <1>3, FilesListed
<1>5. ASSUME NEW p \in Paths
      PROVE  /\ \A i \in 1..n :
                  IsAt(layer[i], p) => ListView(x)[p] = layer[i].entry
             /\ (\A i \in 1..n : ~IsAt(layer[i], p)) =>
                  ListView(x)[p] =
                    IF \E i \in 1..n : MarkerHides(layer[i], p) THEN None
                    ELSE ListView(m)[p]
  BY <1>3, <1>4 DEF Listed, Unhidden
<1> QED
  BY <1>4, <1>5 DEF x

-----------------------------------------------------------------------------
(* The same, without lists: the reference.                                 *)

LEMMA SnapshotIsLayer ==
  ASSUME NEW layer, IsSnapshot(layer), NEW E,
         \A i \in DOMAIN layer : ~IsMarker(layer[i]) => layer[i].entry \in E
  PROVE  LayerOK(layer, E)
<1>1. \A i \in DOMAIN layer :
        /\ layer[i] \in Seqs!ToSet(layer)
        /\ layer[i].path \in PathsAndRoot
        /\ layer[i].entry = Whiteout => layer[i].path # <<>>
  BY DEF IsSnapshot, Seqs!ToSet
<1>2. \E n \in Nat : DOMAIN layer = 1..n
  <2>1. layer \in Seq(Seqs!ToSet(layer))
    BY DEF IsSnapshot
  <2>2. Len(layer) \in Nat /\ DOMAIN layer = 1..Len(layer)
    BY <2>1
  <2> QED
    BY <2>2
<1>3. ASSUME NEW i \in DOMAIN layer, NEW j \in DOMAIN layer, NEW p \in Paths,
             IsAt(layer[i], p), IsAt(layer[j], p)
      PROVE  layer[i].entry = layer[j].entry
  <2>1. p # <<>>
    BY PathIsSeq
  <2>2. layer[i] \in Plain(layer) /\ layer[j] \in Plain(layer)
    BY <1>1, <1>3, <2>1 DEF Plain, IsAt
  <2>3. layer[i] = layer[j]
    BY <1>3, <2>2 DEF IsSnapshot, IsAt
  <2> QED
    BY <2>3
<1> QED
  BY <1>1, <1>2, <1>3 DEF LayerOK

\* What OwnEntry, HasInside and Has say, entry by entry.
LEMMA ReferenceParts ==
  ASSUME NEW layer, IsSnapshot(layer), NEW p \in Paths
  PROVE  /\ \A i \in DOMAIN layer : IsAt(layer[i], p) =>
              /\ OwnEntry(layer, p) = layer[i].entry
              /\ OwnEntry(layer, p) # None
         /\ (\A i \in DOMAIN layer : ~IsAt(layer[i], p)) =>
              OwnEntry(layer, p) = None
         /\ \A q \in PathsAndRoot, w \in {Whiteout, Opaque} :
              Has(layer, q, w) <=>
                \E i \in DOMAIN layer : layer[i].path = q /\ layer[i].entry = w
<1> DEFINE here == {e \in Plain(layer) : e.path = p}
<1>1. \A i \in DOMAIN layer :
        /\ layer[i] \in Seqs!ToSet(layer)
        /\ layer[i] = [path |-> layer[i].path, entry |-> layer[i].entry]
        /\ layer[i].entry # None
  BY DEF IsSnapshot, Seqs!ToSet
<1>2. p # <<>>
  BY PathIsSeq
<1>3. \A i \in DOMAIN layer : IsAt(layer[i], p) => layer[i] \in here
  BY <1>1, <1>2 DEF Plain, IsAt
<1>4. \A e \in here : \E i \in DOMAIN layer : IsAt(layer[i], p)
  BY DEF Plain, IsAt, Seqs!ToSet
<1>5. \A e, f \in here : e = f
  BY DEF IsSnapshot
<1>6. OwnEntry(layer, p) = IF here = {} THEN None ELSE (CHOOSE e \in here : TRUE).entry
  BY DEF OwnEntry
<1> HIDE DEF here
<1>7. ASSUME NEW i \in DOMAIN layer, IsAt(layer[i], p)
      PROVE  OwnEntry(layer, p) = layer[i].entry /\ OwnEntry(layer, p) # None
  <2>1. (CHOOSE e \in here : TRUE) = layer[i]
    BY <1>3, <1>5, <1>7
  <2> QED
    BY <1>1, <1>3, <1>6, <1>7, <2>1
<1>8. (\A i \in DOMAIN layer : ~IsAt(layer[i], p)) => OwnEntry(layer, p) = None
  BY <1>4, <1>6
<1>9. ASSUME NEW q \in PathsAndRoot, NEW w \in {Whiteout, Opaque}
      PROVE  Has(layer, q, w) <=>
               \E i \in DOMAIN layer : layer[i].path = q /\ layer[i].entry = w
  <2>1. ASSUME Has(layer, q, w)
        PROVE  \E i \in DOMAIN layer : layer[i].path = q /\ layer[i].entry = w
    <3>1. PICK i \in DOMAIN layer : layer[i] = [path |-> q, entry |-> w]
      BY <2>1 DEF Has, Seqs!ToSet
    <3> QED
      BY <3>1
  <2>2. ASSUME NEW i \in DOMAIN layer, layer[i].path = q, layer[i].entry = w
        PROVE  Has(layer, q, w)
    BY <1>1, <2>2 DEF Has
  <2> QED
    BY <2>1, <2>2
<1> QED
  BY <1>7, <1>8, <1>9

\* What the markers of a layer hide, by the reference.
LEMMA HiddenByMarkers ==
  ASSUME NEW layer, IsSnapshot(layer), NEW p \in Paths, ~Has(layer, <<>>, Opaque)
  PROVE  (\E i \in DOMAIN layer : MarkerHides(layer[i], p)) <=>
           \/ Has(layer, p, Whiteout)
           \/ \E q \in Ancestors(p) : Has(layer, q, Whiteout) \/ Has(layer, q, Opaque)
<1>1. \A i \in DOMAIN layer :
        /\ layer[i].path \in PathsAndRoot
        /\ layer[i].entry = Whiteout => layer[i].path # <<>>
  BY DEF IsSnapshot, Seqs!ToSet
<1>2. \A q \in PathsAndRoot, w \in {Whiteout, Opaque} :
        Has(layer, q, w) <=>
          \E i \in DOMAIN layer : layer[i].path = q /\ layer[i].entry = w
  BY ReferenceParts
<1>3. ASSUME NEW i \in DOMAIN layer, MarkerHides(layer[i], p)
      PROVE  \/ Has(layer, p, Whiteout)
             \/ \E q \in Ancestors(p) :
                  Has(layer, q, Whiteout) \/ Has(layer, q, Opaque)
  <2>1. PICK q : q = layer[i].path
    OBVIOUS
  <2>2. q \in PathsAndRoot
    BY <1>1, <2>1
  <2>3. CASE layer[i].entry = Whiteout /\ p = q
    BY <1>2, <2>1, <2>2, <2>3
  <2>4. CASE layer[i].entry \in {Whiteout, Opaque} /\ q # <<>> /\ IsBelow(p, q)
    <3>1. q \in Ancestors(p)
      BY <2>2, <2>4 DEF Ancestors, PathsAndRoot
    <3> QED
      BY <1>2, <2>1, <2>2, <2>4, <3>1
  <2> QED
    BY <1>1, <1>3, <2>1, <2>3, <2>4 DEF MarkerHides
<1>4. ASSUME Has(layer, p, Whiteout)
      PROVE  \E i \in DOMAIN layer : MarkerHides(layer[i], p)
  BY <1>2, <1>4 DEF MarkerHides, PathsAndRoot
<1>5. ASSUME NEW q \in Ancestors(p), Has(layer, q, Whiteout) \/ Has(layer, q, Opaque)
      PROVE  \E i \in DOMAIN layer : MarkerHides(layer[i], p)
  <2>1. q \in Paths /\ q # <<>> /\ IsBelow(p, q) /\ q \in PathsAndRoot
    BY PathIsSeq DEF Ancestors, PathsAndRoot
  <2>2. PICK i \in DOMAIN layer :
          layer[i].path = q /\ layer[i].entry \in {Whiteout, Opaque}
    BY <1>2, <1>5, <2>1
  <2> QED
    BY <2>1, <2>2 DEF MarkerHides
<1> QED
  BY <1>3, <1>4, <1>5

\* One round of the loop over the layers is one layer more in the reference,
\* unless the layer is one of the odd ones.
THEOREM ApplyLayerOverlay ==
  ASSUME NEW E, NEW m \in Lists(E), NEW layer, IsSnapshot(layer),
         \A i \in DOMAIN layer : ~IsMarker(layer[i]) => layer[i].entry \in E,
         NEW v, v = ListView(m), ~Clashes(v, layer), ~Has(layer, <<>>, Opaque),
         \A p \in Paths :
           ~(/\ v[p] \notin {None, Dir} /\ ~Hides(layer, p)
             /\ OwnEntry(layer, p) = None /\ HasInside(layer, p))
  PROVE  ListView(ApplyLayer(m, layer)) = Overlay(v, layer)
<1> DEFINE x == ListView(ApplyLayer(m, layer))
<1>1. LayerOK(layer, E)
  BY SnapshotIsLayer
<1>2. PICK n \in Nat : DOMAIN layer = 1..n
  BY <1>1 DEF LayerOK
<1>3. \A p \in Paths :
        /\ \A i \in 1..n : IsAt(layer[i], p) => x[p] = layer[i].entry
        /\ (\A i \in 1..n : ~IsAt(layer[i], p)) =>
             x[p] = IF \E i \in 1..n : MarkerHides(layer[i], p) THEN None
                    ELSE ListView(m)[p]
  BY <1>1, <1>2, ApplyLayerListed
<1>4. x = [p \in Paths |-> x[p]]
  BY DEF ListView
<1> HIDE DEF x
<1> DEFINE Marked(p) ==
             \/ Has(layer, p, Whiteout)
             \/ \E q \in Ancestors(p) :
                  Has(layer, q, Whiteout) \/ Has(layer, q, Opaque)
<1>5. \A p \in Paths : (\E i \in 1..n : MarkerHides(layer[i], p)) <=> Marked(p)
  BY <1>2, HiddenByMarkers
<1>6. \A p \in Paths :
        /\ OwnEntry(layer, p) # None => x[p] = OwnEntry(layer, p)
        /\ OwnEntry(layer, p) = None => x[p] = IF Marked(p) THEN None ELSE v[p]
  <2> SUFFICES ASSUME NEW p \in Paths
               PROVE  /\ OwnEntry(layer, p) # None => x[p] = OwnEntry(layer, p)
                      /\ OwnEntry(layer, p) = None =>
                           x[p] = IF Marked(p) THEN None ELSE v[p]
    OBVIOUS
  <2>1. /\ \A i \in 1..n : IsAt(layer[i], p) =>
             /\ OwnEntry(layer, p) = layer[i].entry
             /\ OwnEntry(layer, p) # None
        /\ (\A i \in 1..n : ~IsAt(layer[i], p)) => OwnEntry(layer, p) = None
    BY <1>2, ReferenceParts
  <2> HIDE DEF Marked
  <2> QED
    BY <1>3, <1>5, <2>1
<1>7. ASSUME NEW p \in Paths, OwnEntry(layer, p) = None, ~Marked(p), Hides(layer, p)
      PROVE  v[p] = None
  <2>1. PICK q \in Ancestors(p) : OwnEntry(layer, q) \notin {Dir, None}
    BY <1>7 DEF Hides
  <2>2. /\ q \in Paths /\ p \in Seq(Names) /\ q \in Seq(Names) /\ IsBelow(p, q)
        /\ p \in Below(q)
    BY PathIsSeq DEF Ancestors, Below
  <2>3. Ancestors(q) \subseteq Ancestors(p)
    BY <2>2, BelowOrder, PathIsSeq DEF Ancestors
  <2>4. ASSUME NEW r \in Ancestors(q), OwnEntry(layer, r) \notin {Dir, None}
        PROVE  FALSE
    <3>1. r \in Paths /\ IsBelow(q, r)
      BY DEF Ancestors
    <3>2. PICK i \in DOMAIN layer : IsAt(layer[i], r)
      BY <2>4, <3>1, ReferenceParts
    <3>3. PICK j \in DOMAIN layer : IsAt(layer[j], q)
      BY <2>1, <2>2, ReferenceParts
    <3>4. layer[i].entry # Dir
      BY <2>4, <3>1, <3>2, ReferenceParts
    <3>5. layer[i] \in Plain(layer) /\ layer[j] \in Plain(layer)
      BY <2>2, <3>1, <3>2, <3>3, PathIsSeq DEF Plain, IsAt, Seqs!ToSet
    <3> QED
      BY <3>1, <3>2, <3>3, <3>4, <3>5 DEF IsSnapshot, IsAt
  <2>5. ~Hides(layer, q)
    BY <1>7, <2>2, <2>3, <2>4 DEF Hides, Ancestors
  <2> QED
    BY <2>1, <2>2, <2>5 DEF Clashes
<1>8. ASSUME NEW p \in Paths
      PROVE  x[p] = Overlay(v, layer)[p]
  <2>1. CASE OwnEntry(layer, p) # None
    BY <1>6, <2>1 DEF Overlay
  <2>2. CASE OwnEntry(layer, p) = None /\ Marked(p)
    <3>1. Hides(layer, p)
      BY <2>2 DEF Hides
    <3> QED
      BY <1>6, <2>2, <3>1 DEF Overlay
  <2>3. CASE OwnEntry(layer, p) = None /\ ~Marked(p)
    <3>1. x[p] = v[p]
      BY <1>6, <2>3
    <3>2. Hides(layer, p) => v[p] = None
      BY <1>7, <2>3
    <3>3. ~Hides(layer, p) /\ HasInside(layer, p) => v[p] \in {None, Dir}
      BY <2>3
    <3> QED
      BY <2>3, <3>1, <3>2, <3>3 DEF Overlay
  <2> QED
    BY <2>1, <2>2, <2>3
<1>9. Overlay(v, layer) = [p \in Paths |-> Overlay(v, layer)[p]]
  BY DEF Overlay
<1> QED
  BY <1>4, <1>8, <1>9 DEF x

\* Nothing is listed below something that is no directory.
OnDirs(v) ==
  \A p \in Paths : v[p] # None => \A q \in Ancestors(p) : v[q] \in {None, Dir}

LEMMA OverlayOnDirs ==
  ASSUME NEW layer, IsSnapshot(layer), NEW v, OnDirs(v)
  PROVE  OnDirs(Overlay(v, layer))
<1> DEFINE x == Overlay(v, layer)
<1>1. \A p \in Paths :
        x[p] = IF OwnEntry(layer, p) # None THEN OwnEntry(layer, p)
               ELSE IF Hides(layer, p) \/ (HasInside(layer, p) /\ v[p] # Dir)
                 THEN None ELSE v[p]
  BY DEF Overlay
<1> HIDE DEF x
<1> SUFFICES ASSUME NEW p \in Paths, x[p] # None, NEW q \in Ancestors(p),
                    x[q] \notin {None, Dir}
             PROVE  FALSE
  BY DEF OnDirs, x
<1>2. q \in Paths /\ IsBelow(p, q) /\ p # <<>> /\ q # <<>>
  BY PathIsSeq DEF Ancestors
<1>3. ASSUME OwnEntry(layer, p) # None
      PROVE  \E e \in Plain(layer) : e.path = p
  BY <1>3 DEF OwnEntry
<1>4. CASE OwnEntry(layer, q) # None
  <2>1. OwnEntry(layer, q) \notin {None, Dir}
    BY <1>1, <1>2, <1>4
  <2>2. PICK i \in DOMAIN layer : IsAt(layer[i], q) /\ layer[i].entry # Dir
    BY <1>2, <2>1, ReferenceParts
  <2>3. layer[i] \in Plain(layer) /\ layer[i].path = q
    BY <1>2, <2>2 DEF Plain, IsAt, Seqs!ToSet
  <2>4. OwnEntry(layer, p) = None
    BY <1>2, <1>3, <2>2, <2>3 DEF IsSnapshot
  <2>5. Hides(layer, p)
    BY <2>1 DEF Hides
  <2> QED
    BY <1>1, <2>4, <2>5
<1>5. CASE OwnEntry(layer, q) = None
  <2>1. ~HasInside(layer, q) /\ v[q] \notin {None, Dir}
    BY <1>1, <1>2, <1>5
  <2>2. OwnEntry(layer, p) = None
    BY <1>2, <1>3, <2>1 DEF HasInside
  <2>3. v[p] # None
    BY <1>1, <2>2
  <2> QED
    BY <2>1, <2>3 DEF OnDirs
<1> QED
  BY <1>4, <1>5

\* What is shown of it is a tree of files.
LEMMA ShownIsTree ==
  ASSUME NEW v, OnDirs(v)
  PROVE  IsTree(Shown(v))
<1> SUFFICES ASSUME NEW p \in Paths, Shown(v)[p] # None, NEW q \in Ancestors(p)
             PROVE  Shown(v)[q] = Dir
  BY DEF IsTree
<1>1. q \in Paths /\ IsBelow(p, q)
  BY DEF Ancestors
<1>2. \E r \in Below(q) : v[r] # None
  <2>1. CASE v[p] # None
    BY <1>1, <2>1 DEF Below
  <2>2. CASE v[p] = None
    <3>1. PICK r \in Below(p) : v[r] # None
      BY <2>2 DEF Shown
    <3>2. IsBelow(r, q) /\ r \in Paths
      BY <1>1, BelowOrder, PathIsSeq DEF Below
    <3> QED
      BY <3>1, <3>2 DEF Below
  <2> QED
    BY <2>1, <2>2
<1>3. v[q] \in {None, Dir}
  BY <1>1, <1>2 DEF OnDirs, Below, Ancestors
<1> QED
  BY <1>1, <1>2, <1>3 DEF Shown

-----------------------------------------------------------------------------
(* Paths, by their last names.                                             *)

Last(p) == p[Len(p)]

\* Induction over the length of a path.
LEMMA PathInduct ==
  ASSUME NEW T, <<>> \in T, \A p \in Paths : Parent(p) \in T => p \in T
  PROVE  \A p \in PathsAndRoot : p \in T
<1> DEFINE U == {n \in Nat : \A p \in PathsAndRoot : Len(p) = n => p \in T}
<1>1. 0 \in U
  <2>1. \A p \in Paths : Len(p) # 0
    BY PathIsSeq, DepthAssumption
  <2> QED
    BY <2>1 DEF PathsAndRoot
<1>2. ASSUME NEW n \in Nat, n \in U
      PROVE  n + 1 \in U
  <2> SUFFICES ASSUME NEW p \in PathsAndRoot, Len(p) = n + 1
               PROVE  p \in T
    OBVIOUS
  <2>1. p \in Paths
    <3>1. Len(<<>>) = 0
      OBVIOUS
    <3> QED
      BY <3>1 DEF PathsAndRoot
  <2>2. Parent(p) \in PathsAndRoot /\ Len(Parent(p)) = n
    BY <2>1, ParentIsPath
  <2> QED
    BY <1>2, <2>1, <2>2
<1> HIDE DEF U
<1>3. \A n \in Nat : n \in U
  BY <1>1, <1>2, Lookups!NatInduct
<1>4. \A p \in PathsAndRoot : Len(p) \in Nat
  BY PathIsSeq DEF PathsAndRoot
<1> QED
  BY <1>3, <1>4 DEF U

LEMMA LastIsName ==
  ASSUME NEW p \in Paths
  PROVE  /\ Last(p) \in Names /\ Len(p) \in Nat /\ Len(p) # 0
         /\ DOMAIN p = 1..Len(p) /\ DOMAIN Parent(p) = 1..(Len(p) - 1)
         /\ \A i \in 1..(Len(p) - 1) : Parent(p)[i] = p[i]
<1>1. p \in Seq(Names) /\ Len(p) \in Nat /\ Len(p) >= 1
  BY PathIsSeq, DepthAssumption
<1>2. Parent(p) \in Seq(Names) /\ Len(Parent(p)) = Len(p) - 1
  BY ParentIsPath
<1>3. \A i \in 1..(Len(p) - 1) : Parent(p)[i] = p[i]
  BY <1>1, Prefix DEF Parent
<1> QED
  BY <1>1, <1>2, <1>3 DEF Last

LEMMA ByParentAndLast ==
  ASSUME NEW p \in Paths, NEW q \in Paths, Parent(p) = Parent(q), Last(p) = Last(q)
  PROVE  p = q
<1>1. /\ p \in Seq(Names) /\ q \in Seq(Names)
      /\ Len(p) \in Nat /\ Len(p) # 0 /\ Len(q) \in Nat /\ Len(q) # 0
  BY PathIsSeq, LastIsName
<1>2. Len(p) = Len(q)
  BY <1>1, ParentIsPath
<1>3. ASSUME NEW i \in 1..Len(p) PROVE p[i] = q[i]
  <2>1. CASE i \in 1..(Len(p) - 1)
    BY <1>2, <2>1, LastIsName
  <2>2. CASE i = Len(p)
    BY <1>2, <2>2 DEF Last
  <2> QED
    BY <1>1, <2>1, <2>2
<1> QED
  BY <1>1, <1>2, <1>3, SeqEqual

-----------------------------------------------------------------------------
(* The inode tree.                                                         *)

Nodes(E) == [entry : E, children : UNION {[S -> Nat] : S \in SUBSET Names}]

\* Nodes whose children are nodes; the first is the root.
Linked(E) ==
  {t \in Seq(Nodes(E)) :
     /\ Len(t) >= 1 /\ t[1].entry = Dir
     /\ \A i \in 1..Len(t) : \A x \in DOMAIN t[i].children :
          t[i].children[x] \in 1..Len(t)}

\* Trees: every node is found at one path only.
Inodes(E) ==
  {t \in Linked(E) :
     \A p, q \in PathsAndRoot :
       LookupPath(t, p) # 0 /\ LookupPath(t, p) = LookupPath(t, q) => p = q}

LEMMA LinkedParts ==
  ASSUME NEW E, NEW t \in Linked(E)
  PROVE  /\ t \in Seq(Nodes(E)) /\ Len(t) \in Nat /\ Len(t) >= 1
         /\ DOMAIN t = 1..Len(t) /\ t[1].entry = Dir
         /\ \A i \in 1..Len(t) :
              /\ t[i] = [entry |-> t[i].entry, children |-> t[i].children]
              /\ t[i].entry \in E /\ DOMAIN t[i].children \in SUBSET Names
              /\ t[i].children \in [DOMAIN t[i].children -> 1..Len(t)]
<1>1. /\ t \in Seq(Nodes(E)) /\ Len(t) >= 1 /\ t[1].entry = Dir
      /\ \A i \in 1..Len(t) : \A x \in DOMAIN t[i].children :
           t[i].children[x] \in 1..Len(t)
  BY DEF Linked
<1>2. Len(t) \in Nat /\ DOMAIN t = 1..Len(t)
  BY <1>1
<1>3. ASSUME NEW i \in 1..Len(t)
      PROVE  /\ t[i] = [entry |-> t[i].entry, children |-> t[i].children]
             /\ t[i].entry \in E /\ DOMAIN t[i].children \in SUBSET Names
             /\ t[i].children \in [DOMAIN t[i].children -> 1..Len(t)]
  <2>1. t[i] \in Nodes(E)
    BY <1>1, <1>2
  <2>2. PICK S \in SUBSET Names : t[i].children \in [S -> Nat]
    BY <2>1 DEF Nodes
  <2> QED
    BY <1>1, <2>1, <2>2 DEF Nodes
<1> QED
  BY <1>1, <1>2, <1>3

LEMMA LookupInRange ==
  ASSUME NEW E, NEW t \in Linked(E), NEW i \in 0..Len(t), NEW x
  PROVE  Lookup(t, i, x) \in 0..Len(t)
<1>1. Len(t) \in Nat
  BY LinkedParts
<1>2. CASE i # 0 /\ x \in DOMAIN t[i].children
  <2>1. t[i].children \in [DOMAIN t[i].children -> 1..Len(t)]
    <3>1. i \in 1..Len(t)
      BY <1>1, <1>2
    <3> QED
      BY <3>1, LinkedParts
  <2>2. t[i].children[x] \in 1..Len(t)
    BY <1>2, <2>1
  <2> QED
    BY <1>1, <1>2, <2>2 DEF Lookup
<1>3. CASE ~(i # 0 /\ x \in DOMAIN t[i].children)
  BY <1>1, <1>3 DEF Lookup
<1> QED
  BY <1>2, <1>3

\* A path is looked up by its parent and its last name.
LEMMA LookupFacts ==
  ASSUME NEW E, NEW t \in Linked(E)
  PROVE  /\ LookupPath(t, <<>>) = 1
         /\ \A p \in Paths :
              LookupPath(t, p) = Lookup(t, LookupPath(t, Parent(p)), Last(p))
         /\ \A p \in PathsAndRoot : LookupPath(t, p) \in 0..Len(t)
<1>1. LookupPath(t, <<>>) = 1
  <2>1. PICK root : root = <<>> /\ DOMAIN root = {}
    OBVIOUS
  <2>2. LookupPath(t, root) = Lookups!Fold(t, 1, root)
    BY TreeFolds
  <2>3. Lookups!Fold(t, 1, root) = 1
    BY <2>1, Lookups!FoldEmpty
  <2> QED
    BY <2>1, <2>2, <2>3
<1>2. ASSUME NEW p \in Paths
      PROVE  LookupPath(t, p) = Lookup(t, LookupPath(t, Parent(p)), Last(p))
  <2>1. PICK n \in Nat : n = Len(p)
    BY LastIsName
  <2>2. /\ n # 0 /\ DOMAIN p = 1..n /\ DOMAIN Parent(p) = 1..(n - 1)
        /\ \A k \in 1..(n - 1) : Parent(p)[k] = p[k]
    BY <2>1, LastIsName
  <2>3. Lookups!Fold(t, 1, p) = Lookup(t, Lookups!Fold(t, 1, Parent(p)), p[n])
    BY <2>2, Lookups!FoldLast
  <2> QED
    BY <2>1, <2>3, TreeFolds DEF Last
<1> DEFINE T == {p \in PathsAndRoot : LookupPath(t, p) \in 0..Len(t)}
<1>3. <<>> \in T
  BY <1>1, LinkedParts DEF PathsAndRoot
<1>4. ASSUME NEW p \in Paths, Parent(p) \in T
      PROVE  p \in T
  BY <1>2, <1>4, LookupInRange DEF PathsAndRoot
<1> HIDE DEF T
<1>5. \A p \in PathsAndRoot : p \in T
  BY <1>3, <1>4, PathInduct
<1> QED
  BY <1>1, <1>2, <1>5 DEF T

LEMMA NewNodeFacts ==
  ASSUME NEW E, NEW entry \in E
  PROVE  /\ NewNode(entry) \in Nodes(E) /\ NewNode(entry).entry = entry
         /\ DOMAIN NewNode(entry).children = {}
<1>1. PICK none : none = <<>>
  OBVIOUS
<1>2. DOMAIN none = {} /\ none \in [{} -> Nat]
  BY <1>1
<1>3. NewNode(entry) = [entry |-> entry, children |-> none]
  BY <1>1 DEF NewNode
<1>4. PICK D : D = UNION {[S -> Nat] : S \in SUBSET Names}
  OBVIOUS
<1>5. none \in D
  BY <1>2, <1>4
<1>6. NewNode(entry) \in [entry : E, children : D]
  BY <1>3, <1>5
<1>7. NewNode(entry) \in Nodes(E)
  BY <1>4, <1>6 DEF Nodes
<1> QED
  BY <1>2, <1>3, <1>7

\* A new node where no node was.
LEMMA AttachFacts ==
  ASSUME NEW E, NEW t \in Inodes(E), NEW entry \in E, NEW p \in Paths,
         LookupPath(t, p) = 0, LookupPath(t, Parent(p)) # 0
  PROVE  LET u == Attach(t, LookupPath(t, Parent(p)), Last(p), entry)
         IN /\ u \in Inodes(E)
            /\ \A q \in PathsAndRoot :
                 LookupPath(u, q) = IF q = p THEN Len(t) + 1 ELSE LookupPath(t, q)
            /\ \A q \in Paths :
                 TreeView(u)[q] = IF q = p THEN entry ELSE TreeView(t)[q]
<1> DEFINE d == LookupPath(t, Parent(p))
           x == Last(p)
           n == Len(t)
           C == [y \in DOMAIN t[d].children \cup {x} |->
                   IF y = x THEN n + 1 ELSE t[d].children[y]]
           u == Attach(t, d, x, entry)
<1>1. /\ t \in Linked(E)
      /\ \A q, r \in PathsAndRoot :
           LookupPath(t, q) # 0 /\ LookupPath(t, q) = LookupPath(t, r) => q = r
  BY DEF Inodes
<1>2. /\ t \in Seq(Nodes(E)) /\ n \in Nat /\ n >= 1
      /\ DOMAIN t = 1..n /\ t[1].entry = Dir
      /\ \A i \in 1..n :
           /\ t[i] = [entry |-> t[i].entry, children |-> t[i].children]
           /\ t[i].entry \in E /\ DOMAIN t[i].children \in SUBSET Names
           /\ t[i].children \in [DOMAIN t[i].children -> 1..n]
  BY <1>1, LinkedParts
<1>3. /\ x \in Names /\ Parent(p) \in PathsAndRoot /\ p \in PathsAndRoot
      /\ d \in 1..n /\ d # 0
  <2>1. d \in 0..Len(t) /\ d # 0
    BY <1>1, LookupFacts, ParentIsPath
  <2> QED
    BY <2>1, LastIsName, ParentIsPath DEF PathsAndRoot
<1>4. x \notin DOMAIN t[d].children
  <2>1. Lookup(t, d, x) = 0
    BY <1>1, LookupFacts
  <2> HIDE DEF d, x
  <2>2. x \in DOMAIN t[d].children => t[d].children[x] \in 1..n
    BY <1>2, <1>3
  <2> QED
    BY <1>2, <1>3, <2>1, <2>2 DEF Lookup
<1> HIDE DEF d, x
<1>5. C \in [DOMAIN t[d].children \cup {x} -> 1..(n + 1)]
      /\ DOMAIN t[d].children \cup {x} \in SUBSET Names
  <2>1. \A y \in DOMAIN t[d].children : t[d].children[y] \in 1..n
    BY <1>2, <1>3
  <2> QED
    BY <1>2, <1>3, <2>1
<1>6. u = Append([t EXCEPT ![d].children = C], NewNode(entry))
  BY DEF Attach
<1> HIDE DEF C, u
<1>7. NewNode(entry).entry = entry /\ DOMAIN NewNode(entry).children = {}
      /\ NewNode(entry) \in Nodes(E)
  BY NewNodeFacts
<1>8. PICK s : s = [t EXCEPT ![d].children = C]
  OBVIOUS
<1>9. /\ DOMAIN s = 1..n /\ s[d] = [entry |-> t[d].entry, children |-> C]
      /\ \A i \in 1..n : i # d => s[i] = t[i]
  BY <1>2, <1>3, <1>8
<1>10. s \in Seq(Nodes(E)) /\ Len(s) = n
  <2>1. C \in UNION {[S -> Nat] : S \in SUBSET Names}
    <3>1. C \in [DOMAIN t[d].children \cup {x} -> Nat]
      BY <1>2, <1>5
    <3> QED
      BY <1>5, <3>1
  <2>2. s[d] \in Nodes(E)
    BY <1>2, <1>3, <1>9, <2>1 DEF Nodes
  <2>3. \A i \in 1..n : s[i] \in Nodes(E)
    BY <1>2, <1>9, <2>2
  <2>4. s = [i \in 1..n |-> s[i]]
    BY <1>2, <1>8
  <2> QED
    BY <1>2, <2>3, <2>4
<1>11. /\ u \in Seq(Nodes(E)) /\ Len(u) = n + 1
       /\ u[n + 1] = NewNode(entry) /\ \A i \in 1..n : u[i] = s[i]
  BY <1>2, <1>6, <1>7, <1>8, <1>10
<1>12. u \in Linked(E)
  <2>1. u[1].entry = Dir
    BY <1>2, <1>3, <1>9, <1>11
  <2>2. ASSUME NEW i \in 1..(n + 1), NEW y \in DOMAIN u[i].children
        PROVE  u[i].children[y] \in 1..(n + 1)
    <3>1. CASE i = n + 1
      BY <1>7, <1>11, <2>2, <3>1
    <3>2. CASE i = d
      BY <1>3, <1>5, <1>9, <1>11, <2>2, <3>2
    <3>3. CASE i \in 1..n /\ i # d
      <4>1. u[i] = t[i]
        BY <1>9, <1>11, <3>3
      <4> QED
        BY <1>2, <2>2, <3>3, <4>1
    <3> QED
      BY <1>2, <3>1, <3>2, <3>3
  <2> QED
    BY <1>2, <1>11, <2>1, <2>2 DEF Linked
\* What a lookup finds in the new tree.
<1>13. /\ \A i \in 0..n : \A y :
            Lookup(u, i, y) = IF i = d /\ y = x THEN n + 1 ELSE Lookup(t, i, y)
       /\ \A y : Lookup(u, n + 1, y) = 0
  <2>1. ASSUME NEW i \in 0..n, NEW y
        PROVE  Lookup(u, i, y) = IF i = d /\ y = x THEN n + 1 ELSE Lookup(t, i, y)
    <3>1. CASE i = 0
      BY <1>3, <3>1 DEF Lookup
    <3>2. CASE i \in 1..n /\ i # d
      <4>1. u[i] = t[i]
        BY <1>9, <1>11, <3>2
      <4> QED
        BY <3>2, <4>1 DEF Lookup
    <3>3. CASE i = d
      <4>1. u[i].children = C
        BY <1>3, <1>9, <1>11, <3>3
      <4>2. /\ y \in DOMAIN u[i].children <=> y = x \/ y \in DOMAIN t[d].children
            /\ y \in DOMAIN u[i].children =>
                 u[i].children[y] = IF y = x THEN n + 1 ELSE t[d].children[y]
        BY <4>1 DEF C
      <4> QED
        BY <1>3, <3>3, <4>2 DEF Lookup
    <3> QED
      BY <1>2, <3>1, <3>2, <3>3
  <2>2. ASSUME NEW y PROVE Lookup(u, n + 1, y) = 0
    BY <1>7, <1>11 DEF Lookup
  <2> QED
    BY <2>1, <2>2
<1> DEFINE Is(q) == LookupPath(u, q) = IF q = p THEN n + 1 ELSE LookupPath(t, q)
           T == {q \in PathsAndRoot : Is(q)}
<1>14. <<>> \in T
  <2>1. <<>> # p /\ <<>> \in PathsAndRoot
    BY PathIsSeq DEF PathsAndRoot
  <2> QED
    BY <1>1, <1>12, <2>1, LookupFacts
<1>15. ASSUME NEW q \in Paths, Parent(q) \in T
       PROVE  q \in T
  <2>1. /\ LookupPath(u, q) = Lookup(u, LookupPath(u, Parent(q)), Last(q))
        /\ LookupPath(t, q) = Lookup(t, LookupPath(t, Parent(q)), Last(q))
        /\ LookupPath(t, Parent(q)) \in 0..n
        /\ q \in PathsAndRoot /\ Parent(q) \in PathsAndRoot
    BY <1>1, <1>12, LookupFacts, ParentIsPath DEF PathsAndRoot
  <2>2. LookupPath(u, Parent(q)) =
          IF Parent(q) = p THEN n + 1 ELSE LookupPath(t, Parent(q))
    BY <1>15
  <2>3. CASE Parent(q) = p
    <3>1. LookupPath(u, q) = 0
      BY <1>13, <2>1, <2>2, <2>3
    <3>2. LookupPath(t, q) = 0
      BY <2>1, <2>3 DEF Lookup
    <3>3. q # p
      BY <2>3, ParentIsPath, LastIsName
    <3> QED
      BY <2>1, <3>1, <3>2, <3>3
  <2>4. CASE Parent(q) # p
    <3>1. LookupPath(u, q) =
            IF LookupPath(t, Parent(q)) = d /\ Last(q) = x THEN n + 1
            ELSE LookupPath(t, q)
      BY <1>13, <2>1, <2>2, <2>4
    <3>2. LookupPath(t, Parent(q)) = d /\ Last(q) = x <=> q = p
      <4>1. LookupPath(t, Parent(q)) = d => Parent(q) = Parent(p)
        BY <1>1, <1>3, <2>1 DEF d
      <4> QED
        BY <4>1, ByParentAndLast DEF d, x
    <3> QED
      BY <2>1, <3>1, <3>2
  <2> QED
    BY <2>3, <2>4
<1> HIDE DEF T
<1>16. \A q \in PathsAndRoot : q \in T
  BY <1>14, <1>15, PathInduct
<1>17. \A q \in PathsAndRoot : Is(q)
  BY <1>16 DEF T
<1>18. \A q \in PathsAndRoot : LookupPath(t, q) \in 0..n
  BY <1>1, LookupFacts
<1>19. u \in Inodes(E)
  <2> SUFFICES ASSUME NEW q \in PathsAndRoot, NEW r \in PathsAndRoot,
                      NEW i, i # 0, i = LookupPath(u, q), i = LookupPath(u, r)
               PROVE  q = r
    BY <1>12 DEF Inodes
  <2>1. /\ i = IF q = p THEN n + 1 ELSE LookupPath(t, q)
        /\ i = IF r = p THEN n + 1 ELSE LookupPath(t, r)
    BY <1>17
  <2>2. LookupPath(t, q) \in 0..n /\ LookupPath(t, r) \in 0..n /\ n \in Nat
    BY <1>2, <1>18
  <2> HIDE DEF n
  <2>3. CASE q = p
    BY <2>1, <2>2, <2>3
  <2>4. CASE q # p
    <3>1. r # p /\ i = LookupPath(t, q) /\ i = LookupPath(t, r)
      BY <2>1, <2>2, <2>4
    <3> QED
      BY <1>1, <3>1
  <2> QED
    BY <2>3, <2>4
<1>20. ASSUME NEW q \in Paths
       PROVE  TreeView(u)[q] = IF q = p THEN entry ELSE TreeView(t)[q]
  <2>1. /\ Is(q) /\ LookupPath(t, q) \in 0..n
        /\ TreeView(u)[q] = IF LookupPath(u, q) = 0 THEN None
                            ELSE u[LookupPath(u, q)].entry
        /\ TreeView(t)[q] = IF LookupPath(t, q) = 0 THEN None
                            ELSE t[LookupPath(t, q)].entry
    BY <1>17, <1>18 DEF PathsAndRoot, TreeView
  <2>2. CASE q = p
    BY <1>2, <1>7, <1>11, <2>1, <2>2
  <2>3. CASE q # p
    <3>1. \A i \in 1..n : u[i].entry = t[i].entry
      BY <1>3, <1>9, <1>11
    <3> QED
      BY <2>1, <2>3, <3>1
  <2> QED
    BY <2>2, <2>3
<1> QED
  BY <1>17, <1>19, <1>20 DEF u, d, x

LEMMA TreeViewFacts ==
  ASSUME NEW E, None \notin E, NEW t \in Linked(E), NEW p \in Paths
  PROVE  /\ TreeView(t)[p] = None <=> LookupPath(t, p) = 0
         /\ LookupPath(t, p) # 0 => TreeView(t)[p] = t[LookupPath(t, p)].entry
<1>1. LookupPath(t, p) \in 0..Len(t) /\ Len(t) \in Nat
  BY LookupFacts, LinkedParts DEF PathsAndRoot
<1>2. LookupPath(t, p) # 0 => t[LookupPath(t, p)].entry \in E
  <2> SUFFICES ASSUME NEW i, i = LookupPath(t, p), i # 0
               PROVE  t[i].entry \in E
    OBVIOUS
  <2>1. i \in 1..Len(t)
    BY <1>1
  <2> QED
    BY <2>1, LinkedParts
<1>3. TreeView(t)[p] = IF LookupPath(t, p) = 0 THEN None
                       ELSE t[LookupPath(t, p)].entry
  BY DEF TreeView
<1> QED
  BY <1>2, <1>3

\* The walk of ensureDir has come to r: the directories on the way are there.
DirMade(at, t, r) ==
  /\ at.node = LookupPath(at.tree, r) /\ at.node # 0
  /\ \A q \in Paths :
       TreeView(at.tree)[q] =
         IF q = r \/ q \in Ancestors(r) THEN Dir ELSE TreeView(t)[q]

LEMMA EnsureDirFacts ==
  ASSUME NEW E, None \notin E, Dir \in E, NEW t, NEW r \in Paths,
         NEW at \in [tree : Inodes(E), node : Nat], DirMade(at, t, Parent(r)),
         TreeView(t)[r] \in {None, Dir}
  PROVE  LET next == EnsureDir(at, Last(r))
         IN next \in [tree : Inodes(E), node : Nat] /\ DirMade(next, t, r)
<1> DEFINE child == Lookup(at.tree, at.node, Last(r))
           next == EnsureDir(at, Last(r))
<1>1. /\ at.tree \in Inodes(E) /\ at.tree \in Linked(E) /\ at.node \in Nat
      /\ at = [tree |-> at.tree, node |-> at.node]
      /\ at.node = LookupPath(at.tree, Parent(r)) /\ at.node # 0
  BY DEF Inodes, DirMade
<1>2. /\ child = LookupPath(at.tree, r)
      /\ child \in 0..Len(at.tree) /\ Len(at.tree) \in Nat
  BY <1>1, LookupFacts, LinkedParts DEF PathsAndRoot
<1>3. /\ r \in Seq(Names) /\ Len(r) \in Nat /\ IsBelow(r, Parent(r))
      /\ Parent(r) \in Seq(Names)
      /\ Parent(r) = <<>> => Ancestors(r) = {}
      /\ Parent(r) # <<>> => Ancestors(r) = Ancestors(Parent(r)) \cup {Parent(r)}
  BY PathIsSeq, ParentIsPath, AncestorsOfParent
<1>4. /\ r # Parent(r) /\ r \notin Ancestors(Parent(r)) /\ r \notin Ancestors(r)
      /\ Parent(r) = <<>> => Ancestors(Parent(r)) = {} /\ Parent(r) \notin Paths
  <2>1. r # Parent(r) /\ r \notin Ancestors(Parent(r)) /\ r \notin Ancestors(r)
    BY <1>3, BelowOrder DEF Ancestors
  <2>2. Parent(r) = <<>> => Ancestors(Parent(r)) = {} /\ Parent(r) \notin Paths
    BY RootIsAboveAll, PathIsSeq DEF Ancestors
  <2> QED
    BY <2>1, <2>2
<1>5. /\ TreeView(at.tree)[r] = TreeView(t)[r]
      /\ \A q \in Paths : q # r =>
           TreeView(at.tree)[q] =
             IF q = r \/ q \in Ancestors(r) THEN Dir ELSE TreeView(t)[q]
  <2>1. \A q \in Paths :
          TreeView(at.tree)[q] =
            IF q = Parent(r) \/ q \in Ancestors(Parent(r)) THEN Dir
            ELSE TreeView(t)[q]
    BY DEF DirMade
  <2> QED
    BY <1>3, <1>4, <2>1
<1>6. CASE child # 0
  <2>1. at.tree[child].entry = Dir
    BY <1>1, <1>2, <1>5, <1>6, TreeViewFacts
  <2>2. next = [tree |-> at.tree, node |-> child]
    BY <1>1, <1>6, <2>1 DEF EnsureDir
  <2>3. TreeView(at.tree)[r] = Dir
    BY <1>1, <1>2, <1>6, <2>1, TreeViewFacts
  <2> HIDE DEF child, next
  <2>4. next.tree = at.tree /\ next.node = child
    BY <2>2
  <2>5. DirMade(next, t, r)
    BY <1>2, <1>5, <1>6, <2>3, <2>4 DEF DirMade
  <2>6. next \in [tree : Inodes(E), node : Nat]
    BY <1>1, <1>2, <2>2
  <2> QED
    BY <2>5, <2>6 DEF next
<1>7. CASE child = 0
  <2> DEFINE u == Attach(at.tree, at.node, Last(r), Dir)
  <2>1. /\ u \in Inodes(E)
        /\ \A q \in PathsAndRoot :
             LookupPath(u, q) = IF q = r THEN Len(at.tree) + 1
                                ELSE LookupPath(at.tree, q)
        /\ \A q \in Paths :
             TreeView(u)[q] = IF q = r THEN Dir ELSE TreeView(at.tree)[q]
    <3> SUFFICES ASSUME NEW s \in Inodes(E), s = at.tree,
                        NEW w, w = Attach(s, LookupPath(s, Parent(r)), Last(r), Dir)
                 PROVE  /\ w \in Inodes(E)
                        /\ \A q \in PathsAndRoot :
                             LookupPath(w, q) = IF q = r THEN Len(s) + 1
                                                ELSE LookupPath(s, q)
                        /\ \A q \in Paths :
                             TreeView(w)[q] = IF q = r THEN Dir ELSE TreeView(s)[q]
      BY <1>1
    <3>1. LookupPath(s, r) = 0 /\ LookupPath(s, Parent(r)) # 0
      BY <1>1, <1>2, <1>7
    <3> HIDE DEF child, next
    <3> QED
      BY <3>1, AttachFacts
  <2>2. next = [tree |-> u, node |-> Len(at.tree) + 1]
    BY <1>7 DEF EnsureDir
  <2> HIDE DEF u, child, next
  <2>3. next.tree = u /\ next.node = Len(at.tree) + 1
    BY <2>2
  <2>4. LookupPath(u, r) = Len(at.tree) + 1
    BY <2>1 DEF PathsAndRoot
  <2>5. \A q \in Paths :
          TreeView(u)[q] =
            IF q = r \/ q \in Ancestors(r) THEN Dir ELSE TreeView(t)[q]
    BY <1>5, <2>1
  <2>6. DirMade(next, t, r)
    BY <1>2, <2>3, <2>4, <2>5 DEF DirMade
  <2>7. next \in [tree : Inodes(E), node : Nat]
    BY <1>2, <2>1, <2>2
  <2> QED
    BY <2>6, <2>7 DEF next
<1> QED
  BY <1>6, <1>7

LEMMA RootOrPath ==
  ASSUME NEW p \in PathsAndRoot
  PROVE  p \in Seq(Names) /\ Len(p) \in Nat /\ DOMAIN p = 1..Len(p)
<1>1. <<>> \in Seq(Names)
  OBVIOUS
<1>2. p \in Seq(Names)
  BY <1>1, PathIsSeq DEF PathsAndRoot
<1> QED
  BY <1>2

LEMMA WalkMakes ==
  ASSUME NEW E, None \notin E, Dir \in E, NEW t \in Inodes(E),
         NEW p \in PathsAndRoot,
         \A q \in Paths : q = p \/ q \in Ancestors(p) => TreeView(t)[q] \in {None, Dir}
  PROVE  LET at == Seqs!FoldLeft(EnsureDir, [tree |-> t, node |-> 1], p)
         IN at \in [tree : Inodes(E), node : Nat] /\ DirMade(at, t, p)
<1> DEFINE at == Seqs!FoldLeft(EnsureDir, [tree |-> t, node |-> 1], p)
           A == [tree : Inodes(E), node : Nat]
           n == Len(p)
           T == [k \in 0..n |-> {x \in A : DirMade(x, t, SubSeq(p, 1, k))}]
           start == [tree |-> t, node |-> 1]
<1>1. p \in Seq(Names) /\ n \in Nat /\ DOMAIN p = 1..n
  BY RootOrPath
<1>2. SubSeq(p, 1, 0) = <<>> /\ SubSeq(p, 1, n) = p
  <2>1. SubSeq(p, 1, n) = p
    <3>1. SubSeq(p, 1, n) \in Seq(Names) /\ Len(SubSeq(p, 1, n)) = n
          /\ \A i \in 1..n : SubSeq(p, 1, n)[i] = p[i]
      BY <1>1, Prefix
    <3> QED
      BY <1>1, <3>1, SeqEqual
  <2> QED
    BY <2>1, SubSeqEmpty
<1>3. \A k \in 1..n :
        /\ SubSeq(p, 1, k) \in Paths /\ Parent(SubSeq(p, 1, k)) = SubSeq(p, 1, k - 1)
        /\ Last(SubSeq(p, 1, k)) = p[k]
        /\ \/ SubSeq(p, 1, k) = p
           \/ SubSeq(p, 1, k) \in Ancestors(p)
  <2> SUFFICES ASSUME NEW k \in 1..n, NEW r, r = SubSeq(p, 1, k)
               PROVE  /\ r \in Paths /\ Parent(r) = SubSeq(p, 1, k - 1)
                      /\ Last(r) = p[k]
                      /\ r = p \/ r \in Ancestors(p)
    OBVIOUS
  <2>1. /\ p \in Paths /\ k \in 0..n /\ k # 0 /\ k - 1 \in 0..n /\ k \in Nat
    <3>1. Len(<<>>) = 0
      OBVIOUS
    <3> QED
      BY <1>1, <3>1 DEF PathsAndRoot
  <2>2. /\ r \in Paths /\ r \in Seq(Names) /\ Len(r) = k
        /\ \A i \in 1..k : r[i] = p[i]
    BY <1>1, <2>1, Prefix
  <2>3. Parent(r) = SubSeq(p, 1, k - 1)
    <3>1. /\ Parent(r) \in Seq(Names) /\ Len(Parent(r)) = k - 1
          /\ \A i \in 1..(k - 1) : Parent(r)[i] = r[i]
      BY <2>2, LastIsName, ParentIsPath
    <3>2. /\ SubSeq(p, 1, k - 1) \in Seq(Names) /\ Len(SubSeq(p, 1, k - 1)) = k - 1
          /\ \A i \in 1..(k - 1) : SubSeq(p, 1, k - 1)[i] = p[i]
      BY <1>1, <2>1, Prefix
    <3>3. \A i \in 1..(k - 1) : Parent(r)[i] = SubSeq(p, 1, k - 1)[i]
      BY <2>2, <3>1, <3>2
    <3> QED
      BY <3>1, <3>2, <3>3, SeqEqual
  <2>4. r = p \/ r \in Ancestors(p)
    <3>1. CASE k = n
      BY <1>2, <3>1
    <3>2. CASE k # n
      <4>1. n > k
        BY <2>1, <3>2
      <4>2. IsBelow(p, r)
        BY <2>2, <4>1 DEF IsBelow
      <4> QED
        BY <2>2, <4>2 DEF Ancestors
    <3> QED
      BY <3>1, <3>2
  <2> QED
    BY <2>2, <2>3, <2>4 DEF Last
<1>4. start \in T[0]
  <2>1. start \in A /\ start.tree = t /\ start.node = 1
    OBVIOUS
  <2>2. LookupPath(t, <<>>) = 1
    BY LookupFacts DEF Inodes
  <2>3. \A q \in Paths : q # <<>> /\ q \notin Ancestors(<<>>)
    BY RootIsAboveAll, PathIsSeq DEF Ancestors
  <2> HIDE DEF start
  <2>4. DirMade(start, t, <<>>)
    BY <2>1, <2>2, <2>3 DEF DirMade
  <2> HIDE DEF A
  <2>5. DirMade(start, t, SubSeq(p, 1, 0))
    <3>1. PICK r : r = SubSeq(p, 1, 0)
      OBVIOUS
    <3>2. r = <<>>
      BY <1>2, <3>1
    <3> QED
      BY <2>4, <3>1, <3>2
  <2>6. 0 \in 0..n /\ start \in A
    BY <1>1, <2>1
  <2> HIDE DEF n
  <2> QED
    BY <2>5, <2>6
<1>5. ASSUME NEW k \in 1..n, NEW x \in T[k - 1]
      PROVE  WalkStep("", x, p[k]) \in T[k]
  <2>1. k \in 0..n /\ k - 1 \in 0..n
    BY <1>1
  <2>2. PICK r : r = SubSeq(p, 1, k)
    OBVIOUS
  <2>3. r \in Paths /\ Last(r) = p[k] /\ TreeView(t)[r] \in {None, Dir}
    BY <1>3, <2>2
  <2>4. x \in A /\ DirMade(x, t, Parent(r))
    <3>1. x \in A /\ DirMade(x, t, SubSeq(p, 1, k - 1))
      <4> HIDE DEF A
      <4> QED
        BY <2>1
    <3> QED
      BY <1>3, <2>2, <3>1
  <2>5. EnsureDir(x, Last(r)) \in A /\ DirMade(EnsureDir(x, Last(r)), t, r)
    BY <2>3, <2>4, EnsureDirFacts
  <2> HIDE DEF A
  <2> QED
    BY <2>1, <2>2, <2>3, <2>5 DEF WalkStep
<1>6. at \in T[n]
  <2>1. at = Walks!Fold("", start, p)
    BY TreeFolds
  <2> HIDE DEF T, at, start
  <2> QED
    BY <1>1, <1>4, <1>5, <2>1, Walks!FoldInduct
<1>7. at \in A /\ DirMade(at, t, SubSeq(p, 1, n))
  <2> HIDE DEF A, at
  <2> QED
    BY <1>1, <1>6
<1> QED
  BY <1>2, <1>7


\* Insert: an entry comes to its path, and its directories are made.
LEMMA InsertFacts ==
  ASSUME NEW E, None \notin E, Dir \in E, NEW t \in Inodes(E),
         NEW e, e.path \in Paths, e.entry \in E,
         \A q \in Ancestors(e.path) : TreeView(t)[q] \in {None, Dir},
         \/ TreeView(t)[e.path] = None
         \/ e.entry = Dir /\ TreeView(t)[e.path] = Dir
  PROVE  LET u == Insert(t, e)
         IN /\ u \in Inodes(E)
            /\ \A q \in Paths :
                 TreeView(u)[q] = IF q = e.path THEN e.entry
                                  ELSE IF q \in Ancestors(e.path) THEN Dir
                                  ELSE TreeView(t)[q]
<1>1. PICK p \in Paths : p = e.path
  OBVIOUS
<1> DEFINE At(steps) ==
             Seqs!FoldLeft(EnsureDir, [tree |-> t, node |-> 1], steps)
           u == Insert(t, e)
<1>2. ASSUME NEW q \in Paths, q \in Ancestors(p)
      PROVE  TreeView(t)[q] \in {None, Dir}
  BY <1>1, <1>2
<1>3. CASE e.entry = Dir
  <2>1. u = At(p).tree
    BY <1>1, <1>3 DEF Insert
  <2>2. p \in PathsAndRoot
    BY DEF PathsAndRoot
  <2>3. \A q \in Paths : q = p \/ q \in Ancestors(p) => TreeView(t)[q] \in {None, Dir}
    BY <1>1, <1>2
  <2>4. At(p) \in [tree : Inodes(E), node : Nat] /\ DirMade(At(p), t, p)
    BY <2>2, <2>3, WalkMakes
  <2> HIDE DEF At, u
  <2>5. u \in Inodes(E)
    BY <2>1, <2>4
  <2>6. \A q \in Paths :
          TreeView(u)[q] = IF q = p \/ q \in Ancestors(p) THEN Dir ELSE TreeView(t)[q]
    BY <2>1, <2>4 DEF DirMade
  <2> QED
    BY <1>1, <1>3, <2>5, <2>6 DEF u
<1>4. CASE e.entry # Dir
  <2>1. PICK r \in PathsAndRoot : r = Parent(p)
    BY ParentIsPath
  <2>2. /\ p \in Seq(Names) /\ r \in Seq(Names) /\ IsBelow(p, r)
        /\ p \notin Ancestors(p)
        /\ \A q \in Paths : q \in Ancestors(p) <=> q = r \/ q \in Ancestors(r)
    <3>1. p \in Seq(Names) /\ r \in Seq(Names) /\ IsBelow(p, r)
      BY <2>1, PathIsSeq, ParentIsPath
    <3>2. p \notin Ancestors(p)
      BY <3>1, BelowOrder DEF Ancestors
    <3>3. r = <<>> => \A q \in Paths : q # r /\ q \notin Ancestors(r)
      BY RootIsAboveAll, PathIsSeq DEF Ancestors
    <3>4. \A q \in Paths : q \in Ancestors(p) <=> q = r \/ q \in Ancestors(r)
      BY <2>1, <3>3, AncestorsOfParent
    <3> QED
      BY <3>1, <3>2, <3>4
  <2>3. \A q \in Paths : q = r \/ q \in Ancestors(r) => TreeView(t)[q] \in {None, Dir}
    BY <1>2, <2>2
  <2>4. At(r) \in [tree : Inodes(E), node : Nat] /\ DirMade(At(r), t, r)
    BY <2>3, WalkMakes
  <2>5. PICK s \in Inodes(E) : s = At(r).tree
    BY <2>4
  <2>6. /\ At(r).node = LookupPath(s, r) /\ LookupPath(s, r) # 0
        /\ \A q \in Paths :
             TreeView(s)[q] = IF q \in Ancestors(p) THEN Dir ELSE TreeView(t)[q]
    <3> HIDE DEF At
    <3> QED
      BY <2>2, <2>4, <2>5 DEF DirMade
  <2>7. u = Attach(s, LookupPath(s, r), Last(p), e.entry)
    <3>1. u = Attach(At(r).tree, At(r).node, Last(p), e.entry)
      BY <1>1, <1>4, <2>1 DEF Insert, Last
    <3> HIDE DEF At
    <3> QED
      BY <2>5, <2>6, <3>1
  <2> HIDE DEF At, u
  <2>8. LookupPath(s, p) = 0
    <3>1. TreeView(s)[p] = None /\ s \in Linked(E)
      BY <1>1, <1>4, <2>2, <2>6 DEF Inodes
    <3> QED
      BY <3>1, TreeViewFacts
  <2>9. /\ u \in Inodes(E)
        /\ \A q \in Paths :
             TreeView(u)[q] = IF q = p THEN e.entry ELSE TreeView(s)[q]
    <3> SUFFICES ASSUME NEW w, w = Attach(s, LookupPath(s, Parent(p)), Last(p), e.entry)
                 PROVE  /\ w \in Inodes(E)
                        /\ \A q \in Paths :
                             TreeView(w)[q] = IF q = p THEN e.entry ELSE TreeView(s)[q]
      BY <2>1, <2>7
    <3>1. LookupPath(s, Parent(p)) # 0
      BY <2>1, <2>6
    <3> QED
      BY <2>8, <3>1, AttachFacts
  <2> QED
    BY <1>1, <2>6, <2>9 DEF u
<1> QED
  BY <1>3, <1>4

\* One path more in a list: what stands in the way, and what it adds to.
With(v, p, entry) == [q \in Paths |-> IF q = p THEN entry ELSE v[q]]

LEMMA ShownAdd ==
  ASSUME NEW v, NEW p \in Paths, NEW entry, entry # None, v[p] = None,
         NEW w, w = With(v, p, entry), OnDirs(w)
  PROVE  /\ \A q \in Ancestors(p) : Shown(v)[q] \in {None, Dir}
         /\ \/ Shown(v)[p] = None
            \/ entry = Dir /\ Shown(v)[p] = Dir
         /\ \A q \in Paths :
              Shown(w)[q] = IF q = p THEN entry
                            ELSE IF q \in Ancestors(p) THEN Dir ELSE Shown(v)[q]
<1>0. \A q \in Paths : w[q] = IF q = p THEN entry ELSE v[q]
  BY DEF With
<1>1. \A q \in Paths :
        /\ Shown(v)[q] = IF v[q] = None /\ \E r \in Below(q) : v[r] # None
                         THEN Dir ELSE v[q]
        /\ Shown(w)[q] = IF w[q] = None /\ \E r \in Below(q) : w[r] # None
                         THEN Dir ELSE w[q]
  BY DEF Shown
<1>2. /\ p \notin Ancestors(p) /\ p \notin Below(p)
      /\ \A q, r \in Paths : r \in Below(q) <=> q \in Ancestors(r)
  BY BelowOrder, PathIsSeq DEF Ancestors, Below
<1>3. \A q \in Ancestors(p) : q \in Paths /\ q # p /\ v[q] \in {None, Dir}
  BY <1>0, <1>2 DEF OnDirs, Ancestors
<1>4. \A q \in Ancestors(p) : Shown(v)[q] \in {None, Dir}
  BY <1>1, <1>3
<1>5. \/ Shown(v)[p] = None
      \/ entry = Dir /\ Shown(v)[p] = Dir
  <2>1. ASSUME NEW r \in Below(p), v[r] # None
        PROVE  entry = Dir
    <3>1. r \in Paths /\ r # p /\ p \in Ancestors(r)
      BY <1>2 DEF Below
    <3> QED
      BY <1>0, <2>1, <3>1 DEF OnDirs
  <2> QED
    BY <1>1, <2>1
<1>6. ASSUME NEW q \in Paths
      PROVE  Shown(w)[q] = IF q = p THEN entry
                           ELSE IF q \in Ancestors(p) THEN Dir ELSE Shown(v)[q]
  <2>1. CASE q = p
    BY <1>0, <1>1, <2>1
  <2>2. CASE q # p /\ q \in Ancestors(p)
    <3>1. p \in Below(q) /\ w[p] # None
      BY <1>0, <1>2, <2>2
    <3> QED
      BY <1>0, <1>1, <1>3, <2>2, <3>1
  <2>3. CASE q # p /\ q \notin Ancestors(p)
    <3>1. \A r \in Below(q) : r # p /\ r \in Paths
      BY <1>2, <2>3 DEF Below
    <3> QED
      BY <1>0, <1>1, <2>3, <3>1
  <2> QED
    BY <2>1, <2>2, <2>3
<1> QED
  BY <1>4, <1>5, <1>6

LEMMA EmptyTree ==
  ASSUME NEW E, Dir \in E
  PROVE  /\ <<NewNode(Dir)>> \in Inodes(E)
         /\ \A p \in Paths : TreeView(<<NewNode(Dir)>>)[p] = None
<1>1. PICK t : t = <<NewNode(Dir)>>
  OBVIOUS
<1>2. /\ NewNode(Dir) \in Nodes(E) /\ NewNode(Dir).entry = Dir
      /\ DOMAIN NewNode(Dir).children = {}
  BY NewNodeFacts
<1>3. /\ t \in Seq(Nodes(E)) /\ Len(t) = 1 /\ t[1] = NewNode(Dir)
  BY <1>1, <1>2
<1>4. t \in Linked(E)
  <2>1. /\ Len(t) >= 1 /\ t[1].entry = Dir
        /\ \A i \in 1..Len(t) : DOMAIN t[i].children = {}
    BY <1>2, <1>3
  <2> QED
    BY <1>3, <2>1 DEF Linked
<1>5. \A i \in 0..1 : \A x : Lookup(t, i, x) = 0
  BY <1>2, <1>3 DEF Lookup
<1>6. \A p \in Paths : LookupPath(t, p) = 0
  <2> TAKE p \in Paths
  <2>1. LookupPath(t, Parent(p)) \in 0..1
    BY <1>3, <1>4, LookupFacts, ParentIsPath
  <2> QED
    BY <1>4, <1>5, <2>1, LookupFacts
<1>7. t \in Inodes(E)
  BY <1>4, <1>6 DEF Inodes, PathsAndRoot
<1>8. \A p \in Paths : TreeView(t)[p] = None
  BY <1>6 DEF TreeView
<1> QED
  BY <1>1, <1>7, <1>8

\* The tree built of a list shows what the list shows.
THEOREM BuildTreeShows ==
  ASSUME NEW E, None \notin E, Dir \in E, NEW m \in Lists(E), OnDirs(ListView(m))
  PROVE  TreeView(BuildTree(Merged(m))) = Shown(ListView(m))
<1> DEFINE v == ListView(m)
           n == Len(m.order)
           seq == Merged(m)
           V(k) == [p \in Paths |->
                      IF \E i \in 1..k : m.order[i] = p THEN v[p] ELSE None]
           T == [k \in 0..n |->
                   {t \in Inodes(E) :
                      \A p \in Paths : TreeView(t)[p] = Shown(V(k))[p]}]
           start == <<NewNode(Dir)>>
<1>1. /\ n \in Nat /\ DOMAIN m.order = 1..n
      /\ \A i \in 1..n : m.order[i] \in Paths
      /\ DOMAIN m.files \in SUBSET Paths
      /\ \A p \in DOMAIN m.files : m.files[p] \in E
      /\ DOMAIN m.files = {m.order[i] : i \in 1..n}
      /\ \A i, j \in 1..n : m.order[i] = m.order[j] => i = j
  BY ListParts
<1>2. /\ DOMAIN seq = 1..n
      /\ \A i \in 1..n : /\ seq[i].path = m.order[i]
                         /\ seq[i].entry = v[m.order[i]]
                         /\ seq[i].entry \in E
  BY <1>1 DEF Merged, ListView
<1>3. \A p \in Paths : v[p] # None => \E i \in 1..n : m.order[i] = p
  BY <1>1 DEF ListView
<1> HIDE DEF v, n, seq
<1>4. \A k : OnDirs(V(k))
  <2> TAKE k
  <2>1. \A p \in Paths : V(k)[p] = None \/ V(k)[p] = v[p]
    OBVIOUS
  <2>2. OnDirs(v)
    BY DEF v
  <2> HIDE DEF V
  <2> QED
    BY <2>1, <2>2 DEF OnDirs, Ancestors
<1>5. start \in T[0]
  <2>1. start \in Inodes(E) /\ \A p \in Paths : TreeView(start)[p] = None
    BY EmptyTree
  <2>2. \A p \in Paths : V(0)[p] = None
    OBVIOUS
  <2>3. \A p \in Paths : Shown(V(0))[p] = None
    <3> HIDE DEF V
    <3> QED
      BY <2>2 DEF Shown, Below
  <2>4. 0 \in 0..n
    BY <1>1
  <2> HIDE DEF V, start
  <2> QED
    BY <2>1, <2>3, <2>4
<1>6. ASSUME NEW k \in 1..n, NEW t \in T[k - 1]
      PROVE  Insert(t, seq[k]) \in T[k]
  <2>1. k - 1 \in 0..n /\ k \in 0..n /\ k \in Nat
    BY <1>1
  <2>2. PICK p \in Paths : p = m.order[k]
    BY <1>1
  <2>3. PICK e : e = seq[k]
    OBVIOUS
  <2>4. e.path = p /\ e.entry = v[p] /\ e.entry \in E /\ e.entry # None
    BY <1>2, <2>2, <2>3
  <2>5. V(k - 1)[p] = None
    <3>1. \A i \in 1..(k - 1) : m.order[i] # p
      BY <1>1, <2>1, <2>2
    <3> QED
      BY <3>1
  <2>6. \A q \in Paths : V(k)[q] = IF q = p THEN e.entry ELSE V(k - 1)[q]
    <3> SUFFICES ASSUME NEW q \in Paths
                 PROVE  V(k)[q] = IF q = p THEN e.entry ELSE V(k - 1)[q]
      OBVIOUS
    <3>1. (\E i \in 1..k : m.order[i] = q) <=>
            q = p \/ \E i \in 1..(k - 1) : m.order[i] = q
      BY <2>1, <2>2
    <3> QED
      BY <2>4, <2>5, <3>1
  <2>7. t \in Inodes(E) /\ \A q \in Paths : TreeView(t)[q] = Shown(V(k - 1))[q]
    <3> HIDE DEF V
    <3> QED
      BY <2>1
  <2> HIDE DEF V
  <2>8. /\ \A q \in Ancestors(p) : Shown(V(k - 1))[q] \in {None, Dir}
        /\ \/ Shown(V(k - 1))[p] = None
           \/ e.entry = Dir /\ Shown(V(k - 1))[p] = Dir
        /\ \A q \in Paths :
             Shown(V(k))[q] =
               IF q = p THEN e.entry
               ELSE IF q \in Ancestors(p) THEN Dir ELSE Shown(V(k - 1))[q]
    <3> SUFFICES ASSUME NEW x, x = V(k - 1), NEW y, y = V(k)
                 PROVE  /\ \A q \in Ancestors(p) : Shown(x)[q] \in {None, Dir}
                        /\ \/ Shown(x)[p] = None
                           \/ e.entry = Dir /\ Shown(x)[p] = Dir
                        /\ \A q \in Paths :
                             Shown(y)[q] =
                               IF q = p THEN e.entry
                               ELSE IF q \in Ancestors(p) THEN Dir ELSE Shown(x)[q]
      OBVIOUS
    <3>1. PICK d : d = e.entry
      OBVIOUS
    <3>2. x[p] = None /\ OnDirs(y) /\ d # None
      BY <1>4, <2>4, <2>5, <3>1
    <3>3. y = With(x, p, d)
      <4>1. \A q \in Paths : y[q] = With(x, p, d)[q]
        BY <2>6, <3>1 DEF With
      <4>2. y = [q \in Paths |-> y[q]]
        BY DEF V
      <4>3. With(x, p, d) = [q \in Paths |-> With(x, p, d)[q]]
        BY DEF With
      <4> QED
        BY <4>1, <4>2, <4>3
    <3>4. /\ \A q \in Ancestors(p) : Shown(x)[q] \in {None, Dir}
          /\ \/ Shown(x)[p] = None
             \/ d = Dir /\ Shown(x)[p] = Dir
          /\ \A q \in Paths :
               Shown(y)[q] = IF q = p THEN d
                             ELSE IF q \in Ancestors(p) THEN Dir ELSE Shown(x)[q]
      BY <3>2, <3>3, ShownAdd
    <3> QED
      BY <3>1, <3>4
  <2>9. /\ \A q \in Ancestors(e.path) : TreeView(t)[q] \in {None, Dir}
        /\ \/ TreeView(t)[e.path] = None
           \/ e.entry = Dir /\ TreeView(t)[e.path] = Dir
    BY <2>4, <2>7, <2>8 DEF Ancestors
  <2>10. PICK u : u = Insert(t, e)
    OBVIOUS
  <2>11. /\ u \in Inodes(E)
         /\ \A q \in Paths :
              TreeView(u)[q] = IF q = e.path THEN e.entry
                               ELSE IF q \in Ancestors(e.path) THEN Dir
                               ELSE TreeView(t)[q]
    BY <2>4, <2>7, <2>9, <2>10, InsertFacts
  <2>12. \A q \in Paths : TreeView(u)[q] = Shown(V(k))[q]
    BY <2>4, <2>7, <2>8, <2>11
  <2> QED
    BY <2>1, <2>3, <2>10, <2>11, <2>12
<1>7. BuildTree(seq) \in T[n]
  <2>1. BuildTree(seq) = Inserts!Fold("", start, seq)
    BY TreeFolds DEF BuildTree
  <2>2. \A k \in 1..n : \A t \in T[k - 1] : InsertStep("", t, seq[k]) \in T[k]
    <3> HIDE DEF T
    <3> QED
      BY <1>6 DEF InsertStep
  <2>3. n \in Nat /\ DOMAIN seq = 1..n
    BY <1>1, <1>2
  <2> HIDE DEF T, start
  <2>4. Inserts!Fold("", start, seq) \in T[n]
    BY <1>5, <2>2, <2>3, Inserts!FoldInduct
  <2> QED
    BY <2>1, <2>4
<1>8. \A p \in Paths : TreeView(BuildTree(seq))[p] = Shown(V(n))[p]
  <2>1. n \in 0..n
    BY <1>1
  <2> HIDE DEF V
  <2> QED
    BY <1>7, <2>1
<1>9. V(n) = v
  <2>1. v = [p \in Paths |-> v[p]]
    BY DEF v, ListView
  <2>2. \A p \in Paths : V(n)[p] = v[p]
    BY <1>3
  <2> QED
    BY <2>1, <2>2
<1>10. TreeView(BuildTree(seq)) = [p \in Paths |-> TreeView(BuildTree(seq))[p]]
  BY DEF TreeView
<1>11. Shown(v) = [p \in Paths |-> Shown(v)[p]]
  BY DEF Shown
<1> HIDE DEF V
<1> QED
  BY <1>8, <1>9, <1>10, <1>11 DEF v, seq
=============================================================================
