--------------------------- MODULE UnionFSProofs ---------------------------
(***************************************************************************)
(* Proofs about UnionFS, for any names, any depth and any committed trees; *)
(* and about its upper directory as others find it: as a crash inside a    *)
(* handler leaves it (UnionCrash), and as the library commits it, stacked  *)
(* on the layers below again (UnionCommit).                                *)
(*                                                                         *)
(* The lemmas are about an upper directory u, markers w and a committed    *)
(* tree t as values, so that they speak of the state before a call, after  *)
(* it, and of the states a handler passes through, which are those that a  *)
(* crash can leave.  The commits use the theorems of LayersProofs about    *)
(* the merge and the tree built of it.                                     *)
(***************************************************************************)
EXTENDS UnionCrash, UnionCommit, LayersProofs

\* The invariant, of values: the upper directory is a tree, its markers lie
\* in directories of it, and no marker hides an entry of it.
Sound(u, w) ==
  /\ u \in Trees /\ w \in SUBSET Paths
  /\ IsTree(u)
  /\ \A m \in w : u[m] = None /\ \A q \in Ancestors(m) : u[q] = Dir

StatOf(u, w, t, p) ==
  IF p \in w THEN None ELSE IF u[p] # None THEN u[p] ELSE t[p]
WalkOf(u, w, t, p) == \A q \in Ancestors(p) : StatOf(u, w, t, q) = Dir
VisibleOf(u, w, t, p) == IF WalkOf(u, w, t, p) THEN StatOf(u, w, t, p) ELSE None
ViewOf(u, w, t) == [p \in Paths |-> VisibleOf(u, w, t, p)]

\* Two entries that look the same, up to what copyUp does to a fifo.
Same(e, f) == e \in {f, CopyOf(f)}

LEMMA EntryFacts ==
  /\ None \notin Entries /\ Dir \in Entries /\ Dir # None
  /\ \A e \in Entries : CopyOf(e) \in Entries
  /\ CopyOf(None) = None
  /\ \A e \in Entries \cup {None} : CopyOf(e) = Dir <=> e = Dir
  /\ \A e \in Entries \cup {None} : CopyOf(e) = None <=> e = None
  /\ \A e \in Entries \cup {None} : e.kind = "file" => e \notin {None, Dir}
  /\ File("new") \in Entries /\ Link("new") \in Entries
  /\ File("new") # Dir /\ Link("new") # Dir
BY DEF Entries, Dir, File, Link, Fifo, None, CopyOf

LEMMA TreeFacts ==
  ASSUME NEW u \in Trees, NEW p \in Paths
  PROVE  u[p] \in Entries \cup {None}
BY DEF Trees

\* Below an entry that is no directory there is nothing.
LEMMA OnlyDirsHold ==
  ASSUME NEW u, NEW p \in Paths, NEW q \in Paths, IsTree(u), IsBelow(q, p),
         u[p] # Dir
  PROVE  u[q] = None
BY DEF IsTree, Ancestors

LEMMA NoMarkerBelowFile ==
  ASSUME NEW u, NEW w, NEW p \in Paths, NEW q \in Paths, Sound(u, w),
         IsBelow(q, p), u[p] # Dir
  PROVE  q \notin w
BY DEF Sound, Ancestors

\* Going down a directory.
LEMMA WalkByParent ==
  ASSUME NEW u, NEW w, NEW t, NEW p \in Paths
  PROVE  WalkOf(u, w, t, p) <=>
           \/ Parent(p) = <<>>
           \/ Parent(p) \in Paths /\ VisibleOf(u, w, t, Parent(p)) = Dir
<1>1. CASE Parent(p) = <<>>
  BY <1>1, AncestorsOfParent DEF WalkOf
<1>2. CASE Parent(p) # <<>>
  <2>1. /\ Parent(p) \in Paths
        /\ Ancestors(p) = Ancestors(Parent(p)) \cup {Parent(p)}
    BY <1>2, AncestorsOfParent
  <2>2. WalkOf(u, w, t, p) <=> /\ WalkOf(u, w, t, Parent(p))
                             /\ StatOf(u, w, t, Parent(p)) = Dir
    BY <2>1 DEF WalkOf
  <2> QED
    BY <1>2, <2>1, <2>2, EntryFacts DEF VisibleOf
<1> QED
  BY <1>1, <1>2

LEMMA WalkDown ==
  ASSUME NEW u, NEW w, NEW t, NEW p \in Paths, NEW q \in Ancestors(p),
         WalkOf(u, w, t, p)
  PROVE  q \in Paths /\ WalkOf(u, w, t, q) /\ StatOf(u, w, t, q) = Dir
<1>1. \A r \in Ancestors(q) : r \in Ancestors(p)
  BY BelowOrder, PathIsSeq DEF Ancestors
<1> QED
  BY <1>1 DEF WalkOf, Ancestors

-----------------------------------------------------------------------------
(* What the pieces of the handlers do.                                     *)

\* MkdirAll of the directory a name is in: where the walk found directories,
\* it adds what is missing and nothing looks different.
Prepared(v, u, w, t, p) ==
  /\ Sound(v, w)
  /\ \A q \in Ancestors(p) : v[q] = Dir
  /\ \A q \in Paths : q \notin Ancestors(p) => v[q] = u[q]
  /\ \A q \in Paths : u[q] # None => v[q] = u[q]
  /\ \A q \in Paths : StatOf(v, w, t, q) = StatOf(u, w, t, q)

LEMMA MakeParents ==
  ASSUME NEW u, NEW w, NEW t, Sound(u, w),
         NEW p \in Paths, WalkOf(u, w, t, p),
         NEW v, v = MkdirAll(u, Parent(p))
  PROVE  Prepared(v, u, w, t, p)
<1>1. \A q \in Paths :
        q = Parent(p) \/ q \in Ancestors(Parent(p)) <=> q \in Ancestors(p)
  <2>1. CASE Parent(p) = <<>>
    BY <2>1, AncestorsOfParent, RootIsAboveAll, PathIsSeq DEF Ancestors
  <2>2. CASE Parent(p) # <<>>
    BY <2>2, AncestorsOfParent
  <2> QED
    BY <2>1, <2>2
<1>2. /\ v = [q \in Paths |-> v[q]]
      /\ \A q \in Paths :
           v[q] = IF u[q] = None /\ q \in Ancestors(p) THEN Dir ELSE u[q]
  BY <1>1 DEF MkdirAll
<1>3. u \in Trees /\ w \in SUBSET Paths
  BY DEF Sound
<1>4. v \in Trees
  BY <1>2, <1>3, EntryFacts, TreeFacts DEF Trees
<1>5. \A q \in Ancestors(p) :
        /\ q \in Paths /\ q \notin w /\ u[q] \in {None, Dir}
        /\ StatOf(u, w, t, q) = Dir
  BY EntryFacts DEF WalkOf, StatOf, Ancestors
<1>6. \A q \in Ancestors(p) : v[q] = Dir
  BY <1>2, <1>5
<1>7. IsTree(v)
  <2> SUFFICES ASSUME NEW q \in Paths, v[q] # None, NEW r \in Ancestors(q)
               PROVE  v[r] = Dir
    BY DEF IsTree
  <2>1. CASE q \in Ancestors(p)
    BY <1>6, <2>1, BelowOrder, PathIsSeq DEF Ancestors
  <2>2. CASE q \notin Ancestors(p)
    <3>1. u[r] = Dir /\ r \in Paths
      BY <1>2, <2>2 DEF Sound, IsTree, Ancestors
    <3> QED
      BY <1>2, <3>1, EntryFacts
  <2> QED
    BY <2>1, <2>2
<1>8. \A m \in w : v[m] = None /\ \A q \in Ancestors(m) : v[q] = Dir
  <2> SUFFICES ASSUME NEW m \in w
               PROVE  v[m] = None /\ \A q \in Ancestors(m) : v[q] = Dir
    OBVIOUS
  <2>1. u[m] = None /\ m \in Paths /\ \A q \in Ancestors(m) : u[q] = Dir
    BY <1>3 DEF Sound
  <2>2. v[m] = None
    BY <1>2, <1>5, <2>1
  <2>3. \A q \in Ancestors(m) : v[q] = Dir
    BY <1>2, <2>1, EntryFacts DEF Ancestors
  <2> QED
    BY <2>2, <2>3
<1>9. \A q \in Paths : StatOf(v, w, t, q) = StatOf(u, w, t, q)
  BY <1>2, <1>5, EntryFacts DEF StatOf
<1> QED
  BY <1>2, <1>3, <1>4, <1>6, <1>7, <1>8, <1>9 DEF Sound, Prepared

\* An entry that is no directory, or nothing, is replaced; a marker of it goes.
LEMMA PutEntry ==
  ASSUME NEW u, NEW w, Sound(u, w), NEW p \in Paths, u[p] # Dir,
         \A q \in Ancestors(p) : u[q] = Dir,
         NEW e \in Entries, NEW v, v = [u EXCEPT ![p] = e],
         NEW x \in {w, w \ {p}}, p \notin x
  PROVE  Sound(v, x)
<1>1. u \in Trees /\ w \in SUBSET Paths /\ IsTree(u)
  BY DEF Sound
<1>2. v \in Trees /\ \A q \in Paths : v[q] = IF q = p THEN e ELSE u[q]
  BY <1>1 DEF Trees
<1>3. \A q \in Paths : IsBelow(q, p) => u[q] = None /\ q \notin w
  BY <1>1, OnlyDirsHold, NoMarkerBelowFile
<1>4. ~IsBelow(p, p)
  BY BelowOrder, PathIsSeq
<1>5. IsTree(v)
  BY <1>1, <1>2, <1>3, <1>4 DEF IsTree, Ancestors
<1>6. \A m \in x : v[m] = None /\ \A q \in Ancestors(m) : v[q] = Dir
  BY <1>1, <1>2, <1>3 DEF Sound, Ancestors
<1> QED
  BY <1>1, <1>2, <1>5, <1>6 DEF Sound

\* An entry with nothing inside is removed; its marker may be made.
LEMMA CutEntry ==
  ASSUME NEW u, NEW w, Sound(u, w), NEW p \in Paths,
         EmptyUpper(u, w, p),
         NEW v, v = [u EXCEPT ![p] = None],
         NEW x, \/ x = w
                \/ x = w \cup {p} /\ \A q \in Ancestors(p) : u[q] = Dir
  PROVE  Sound(v, x)
<1>1. u \in Trees /\ w \in SUBSET Paths /\ IsTree(u)
  BY DEF Sound
<1>2. v \in Trees /\ \A q \in Paths : v[q] = IF q = p THEN None ELSE u[q]
  BY <1>1 DEF Trees
<1>3. \A q \in Paths : IsBelow(q, p) => u[q] = None /\ q \notin w
  BY DEF EmptyUpper, Below
<1>4. ~IsBelow(p, p)
  BY BelowOrder, PathIsSeq
<1>5. IsTree(v)
  BY <1>1, <1>2, <1>3 DEF IsTree, Ancestors
<1>6. \A m \in x : v[m] = None /\ \A q \in Ancestors(m) : v[q] = Dir
  <2> SUFFICES ASSUME NEW m \in x
               PROVE  v[m] = None /\ \A q \in Ancestors(m) : v[q] = Dir
    OBVIOUS
  <2>1. CASE m = p
    <3>1. \A q \in Ancestors(p) : u[q] = Dir
      BY <2>1 DEF Sound
    <3> QED
      BY <1>2, <1>4, <2>1, <3>1 DEF Ancestors
  <2>2. CASE m # p
    BY <1>1, <1>2, <1>3, <2>2 DEF Sound, Ancestors
  <2> QED
    BY <2>1, <2>2
<1> QED
  BY <1>1, <1>2, <1>5, <1>6 DEF Sound

\* What copyUp makes of u; CopyUp is this, of the state's variables.
CopyOn(u, t, p) ==
  IF u[p] = None /\ t[p] \notin {None, Dir}
    THEN [MkdirAll(u, Parent(p)) EXCEPT ![p] = CopyOf(t[p])] ELSE u

\* copyUp of what the walk found: it looks the same, and nothing else changes.
LEMMA CopyUpLooksSame ==
  ASSUME NEW u, NEW w, NEW t \in Trees, Sound(u, w),
         NEW p \in Paths, VisibleOf(u, w, t, p) # None,
         NEW v, v = CopyOn(u, t, p)
  PROVE  /\ Sound(v, w)
         /\ p \notin w /\ WalkOf(u, w, t, p)
         /\ v[p] # None => \A q \in Ancestors(p) : v[q] = Dir
         /\ v[p] # None => v[p] = StatOf(v, w, t, p)
         /\ v[p] = None => t[p] = Dir /\ v = u
         /\ \A q \in Paths : IsBelow(q, p) => v[q] = u[q]
         /\ \A q \in Paths : q # p => StatOf(v, w, t, q) = StatOf(u, w, t, q)
         /\ Same(StatOf(v, w, t, p), StatOf(u, w, t, p))
<1>1. /\ p \notin w /\ WalkOf(u, w, t, p) /\ StatOf(u, w, t, p) # None
      /\ u \in Trees /\ w \in SUBSET Paths
  BY DEF VisibleOf, StatOf, Sound
<1>2. CASE ~(u[p] = None /\ t[p] \notin {None, Dir})
  <2>1. v = u
    BY <1>2 DEF CopyOn
  <2>2. u[p] # None => \A q \in Ancestors(p) : u[q] = Dir
    BY DEF Sound, IsTree
  <2>3. u[p] = None => t[p] = Dir
    BY <1>1, <1>2 DEF StatOf
  <2> QED
    BY <1>1, <2>1, <2>2, <2>3 DEF StatOf, Same
<1>3. CASE u[p] = None /\ t[p] \notin {None, Dir}
  <2>0. PICK made : made = MkdirAll(u, Parent(p))
    OBVIOUS
  <2>1. /\ Sound(made, w)
        /\ \A q \in Ancestors(p) : made[q] = Dir
        /\ \A q \in Paths : q \notin Ancestors(p) => made[q] = u[q]
        /\ \A q \in Paths : StatOf(made, w, t, q) = StatOf(u, w, t, q)
    <3>1. Prepared(made, u, w, t, p)
      BY <1>1, <2>0, MakeParents
    <3> QED
      BY <3>1 DEF Prepared
  <2>2. v = [made EXCEPT ![p] = CopyOf(t[p])]
    BY <1>3, <2>0 DEF CopyOn
  <2>3. CopyOf(t[p]) \in Entries
    BY <1>3, TreeFacts, EntryFacts
  <2>4. made[p] = u[p] /\ made \in Trees
    BY <2>1, BelowOrder, PathIsSeq DEF Ancestors, Sound
  <2>5. Sound(v, w)
    BY <1>1, <1>3, <2>1, <2>2, <2>3, <2>4, EntryFacts, PutEntry
  <2>6. \A q \in Paths : v[q] = IF q = p THEN CopyOf(t[p]) ELSE made[q]
    BY <2>2, <2>3, <2>4 DEF Trees
  <2>7. CopyOf(t[p]) # None /\ v[p] = CopyOf(t[p])
    BY <2>3, <2>6, EntryFacts
  <2>8. StatOf(v, w, t, p) = CopyOf(t[p]) /\ StatOf(u, w, t, p) = t[p]
    BY <1>1, <1>3, <2>7 DEF StatOf
  <2>9. \A q \in Paths : q # p => StatOf(v, w, t, q) = StatOf(u, w, t, q)
    BY <2>1, <2>6 DEF StatOf
  <2>10. \A q \in Ancestors(p) : v[q] = Dir
    <3>1. \A q \in Ancestors(p) : q \in Paths /\ q # p
      BY BelowOrder, PathIsSeq DEF Ancestors
    <3> QED
      BY <2>1, <2>6, <3>1
  <2>11. \A q \in Paths : IsBelow(q, p) => v[q] = u[q]
    <3>1. \A q \in Paths : IsBelow(q, p) => q \notin Ancestors(p) /\ q # p
      BY BelowOrder, PathIsSeq DEF Ancestors
    <3> QED
      BY <2>1, <2>6, <3>1
  <2> QED
    BY <1>1, <2>5, <2>7, <2>8, <2>9, <2>10, <2>11 DEF Same
<1> QED
  BY <1>2, <1>3

-----------------------------------------------------------------------------
(* Where os.Rename takes what ends up at q.                                *)

AtOrBelow(q, p) == q = p \/ IsBelow(q, p)

\* The names of an origin o: those of src, then those of q after dst.
Spells(o, src, q, dst) ==
  /\ o \in Seq(Names)
  /\ Len(o) = Len(src) + (Len(q) - Len(dst))
  /\ \A i \in 1..Len(src) : o[i] = src[i]
  /\ \A i \in 1..Len(o), j \in 1..Len(q) :
       i > Len(src) /\ i - Len(src) = j - Len(dst) => o[i] = q[j]

LEMMA OriginNames ==
  ASSUME NEW src \in Paths, NEW dst \in Paths, NEW q \in Paths,
         AtOrBelow(q, dst)
  PROVE  Spells(Origin(q, src, dst), src, q, dst)
<1>1. /\ src \in Seq(Names) /\ dst \in Seq(Names) /\ q \in Seq(Names)
      /\ Len(src) \in Nat /\ Len(dst) \in Nat /\ Len(q) \in Nat
      /\ Len(q) >= Len(dst)
  BY PathIsSeq DEF AtOrBelow, IsBelow
<1> PICK o : o = Origin(q, src, dst)
  OBVIOUS
<1>2. PICK rest : rest = SubSeq(q, Len(dst) + 1, Len(q))
  OBVIOUS
<1>3. /\ rest \in Seq(Names) /\ Len(rest) = Len(q) - Len(dst)
      /\ \A i \in 1..Len(q) - Len(dst) : rest[i] = q[Len(dst) + i]
  <2>1. \A i \in 1..Len(q) : q[i] \in Names
    BY <1>1, LenProperties
  <2> QED
    BY <1>1, <1>2, <2>1
<1>4. o = src \o rest
  BY <1>2 DEF Origin
<1>5. /\ o \in Seq(Names) /\ Len(o) = Len(src) + Len(rest)
      /\ Len(o) = Len(src) + (Len(q) - Len(dst))
  <2>1. o \in Seq(Names) /\ Len(o) = Len(src) + Len(rest)
    BY <1>1, <1>3, <1>4, ConcatProperties
  <2> QED
    BY <1>1, <1>3, <2>1
<1>6. ASSUME NEW i \in 1..Len(o), NEW j \in 1..Len(q),
             i > Len(src), i - Len(src) = j - Len(dst)
      PROVE  o[i] = q[j]
  <2>1. PICK k : k = i - Len(src)
    OBVIOUS
  <2>2. k \in 1..Len(q) - Len(dst) /\ j = Len(dst) + k
    BY <1>1, <1>3, <1>5, <1>6, <2>1
  <2>3. o[i] = rest[k]
    BY <1>1, <1>3, <1>4, <1>5, <1>6, <2>1
  <2> QED
    BY <1>3, <2>2, <2>3
<1>7. \A i \in 1..Len(src) : o[i] = src[i]
  BY <1>1, <1>3, <1>4, <1>5
<1> QED
  BY <1>3, <1>5, <1>6, <1>7 DEF Spells

\* A renamed entry comes from src or from below it.
LEMMA OriginOf ==
  ASSUME NEW src \in Paths, NEW dst \in Paths, NEW q \in Paths,
         AtOrBelow(q, dst)
  PROVE  /\ q = dst => Origin(q, src, dst) = src
         /\ q # dst => IsBelow(Origin(q, src, dst), src)
<1>1. /\ src \in Seq(Names) /\ dst \in Seq(Names) /\ q \in Seq(Names)
      /\ Len(src) \in Nat /\ Len(dst) \in Nat /\ Len(q) \in Nat
  BY PathIsSeq
<1>2. PICK o : o = Origin(q, src, dst)
  OBVIOUS
<1>3. /\ o \in Seq(Names) /\ Len(o) = Len(src) + (Len(q) - Len(dst))
      /\ \A i \in 1..Len(src) : o[i] = src[i]
  BY <1>2, OriginNames DEF Spells
<1>4. q = dst => o = src
  BY <1>1, <1>3, SeqEqual
<1>5. q # dst => IsBelow(o, src)
  <2>1. q # dst => Len(q) > Len(dst)
    BY DEF AtOrBelow, IsBelow
  <2> QED
    BY <1>1, <1>3, <2>1, BelowByNames
<1> QED
  BY <1>2, <1>4, <1>5

\* What is inside something before the move is inside it after the move.
LEMMA OriginBelow ==
  ASSUME NEW src \in Paths, NEW dst \in Paths, NEW q \in Paths, NEW r \in Paths,
         AtOrBelow(r, dst), IsBelow(q, r)
  PROVE  /\ AtOrBelow(q, dst)
         /\ IsBelow(Origin(q, src, dst), Origin(r, src, dst))
         /\ Origin(q, src, dst) \in Paths => Origin(r, src, dst) \in Paths
<1>1. /\ src \in Seq(Names) /\ dst \in Seq(Names)
      /\ q \in Seq(Names) /\ r \in Seq(Names)
      /\ Len(src) \in 1..MaxDepth /\ Len(src) \in Nat /\ Len(dst) \in Nat
      /\ Len(q) \in Nat /\ Len(r) \in Nat
  BY PathIsSeq
<1>2. AtOrBelow(q, dst)
  BY <1>1, BelowOrder DEF AtOrBelow
<1>3. PICK o : o = Origin(q, src, dst)
  OBVIOUS
<1>4. PICK n : n = Origin(r, src, dst)
  OBVIOUS
<1>5. Spells(o, src, q, dst)
  BY <1>2, <1>3, OriginNames
<1>6. Spells(n, src, r, dst)
  BY <1>4, OriginNames
<1>7. /\ Len(q) > Len(r) /\ Len(r) >= Len(dst)
      /\ \A i \in 1..Len(r) : q[i] = r[i]
  <2>1. Len(q) > Len(r) /\ \A i \in 1..Len(r) : q[i] = r[i]
    BY <1>1, BelowByNames
  <2> QED
    BY <1>1, <2>1 DEF AtOrBelow, IsBelow
<1>8. \A i \in 1..Len(n) : o[i] = n[i]
  <2> SUFFICES ASSUME NEW i \in 1..Len(n) PROVE o[i] = n[i]
    OBVIOUS
  <2>1. CASE i <= Len(src)
    BY <1>1, <1>5, <1>6, <2>1 DEF Spells
  <2>2. CASE i > Len(src)
    <3>1. PICK j : j = Len(dst) + (i - Len(src))
      OBVIOUS
    <3>2. /\ j \in 1..Len(r) /\ j \in 1..Len(q)
          /\ i \in 1..Len(o) /\ i - Len(src) = j - Len(dst)
      BY <1>1, <1>5, <1>6, <1>7, <2>2, <3>1 DEF Spells
    <3> QED
      BY <1>5, <1>6, <1>7, <2>2, <3>2 DEF Spells
  <2> QED
    BY <1>1, <1>6, <2>1, <2>2 DEF Spells
<1>9. IsBelow(o, n)
  <2>1. o \in Seq(Names) /\ n \in Seq(Names) /\ Len(o) > Len(n)
    BY <1>1, <1>5, <1>6, <1>7 DEF Spells
  <2> QED
    BY <1>8, <2>1, BelowByNames
<1>10. o \in Paths => n \in Paths
  <2>1. o \in Paths => Len(o) \in 1..MaxDepth
    BY PathIsSeq
  <2>2. o \in Paths => Len(n) \in 1..MaxDepth
    BY <1>1, <1>5, <1>6, <1>7, <2>1, DepthAssumption DEF Spells
  <2> QED
    BY <1>6, <2>2, SeqIsPath DEF Spells
<1> QED
  BY <1>2, <1>3, <1>4, <1>9, <1>10

\* The directories between src and an origin are origins themselves.
LEMMA OriginBetween ==
  ASSUME NEW src \in Paths, NEW dst \in Paths, NEW q \in Paths,
         AtOrBelow(q, dst), NEW x \in Paths, AtOrBelow(x, src),
         IsBelow(Origin(q, src, dst), x)
  PROVE  \E r \in Paths : /\ AtOrBelow(r, dst) /\ IsBelow(q, r)
                          /\ Origin(r, src, dst) = x
<1>1. /\ src \in Seq(Names) /\ dst \in Seq(Names)
      /\ q \in Seq(Names) /\ x \in Seq(Names)
      /\ Len(src) \in Nat /\ Len(dst) \in Nat /\ Len(dst) >= 1
      /\ Len(q) \in Nat /\ Len(x) \in Nat
  BY PathIsSeq, DepthAssumption
<1>2. PICK o : o = Origin(q, src, dst)
  OBVIOUS
<1>3. Spells(o, src, q, dst)
  BY <1>2, OriginNames
<1>4. Len(o) > Len(x) /\ \A i \in 1..Len(x) : o[i] = x[i]
  BY <1>1, <1>2, <1>3, BelowByNames DEF Spells
<1>5. Len(x) >= Len(src)
  BY <1>1 DEF AtOrBelow, IsBelow
<1>6. \A i \in 1..Len(dst) : q[i] = dst[i]
  BY <1>1, BelowByNames DEF AtOrBelow
<1>7. PICK n : n = Len(dst) + (Len(x) - Len(src))
  OBVIOUS
<1>8. n \in 0..Len(q) /\ n # 0 /\ n < Len(q) /\ n >= Len(dst) /\ n \in Nat
  BY <1>1, <1>3, <1>4, <1>5, <1>7 DEF Spells
<1>9. PICK r : r = SubSeq(q, 1, n)
  OBVIOUS
<1>10. /\ r \in Paths /\ r \in Seq(Names) /\ Len(r) = n
       /\ \A i \in 1..n : r[i] = q[i]
  BY <1>1, <1>8, <1>9, Prefix
<1>11. IsBelow(q, r)
  BY <1>1, <1>8, <1>10, BelowByNames
<1>12. AtOrBelow(r, dst)
  <2>1. \A i \in 1..Len(dst) : r[i] = dst[i]
    BY <1>1, <1>6, <1>8, <1>10
  <2>2. CASE n = Len(dst)
    BY <1>1, <1>10, <2>1, <2>2, SeqEqual DEF AtOrBelow
  <2>3. CASE n > Len(dst)
    BY <1>1, <1>10, <2>1, <2>3, BelowByNames DEF AtOrBelow
  <2> QED
    BY <1>1, <1>8, <2>2, <2>3
<1>13. PICK y : y = Origin(r, src, dst)
  OBVIOUS
<1>14. Spells(y, src, r, dst) /\ y \in Seq(Names) /\ Len(y) = Len(x)
  <2>1. Spells(y, src, r, dst)
    BY <1>10, <1>12, <1>13, OriginNames
  <2> QED
    BY <1>1, <1>7, <1>10, <2>1 DEF Spells
<1>15. \A i \in 1..Len(x) : y[i] = x[i]
  <2> SUFFICES ASSUME NEW i \in 1..Len(x) PROVE y[i] = x[i]
    OBVIOUS
  <2>1. CASE i <= Len(src)
    BY <1>1, <1>3, <1>4, <1>14, <2>1 DEF Spells
  <2>2. CASE i > Len(src)
    <3>1. PICK j : j = Len(dst) + (i - Len(src))
      OBVIOUS
    <3>2. /\ j \in 1..n /\ j \in 1..Len(q)
          /\ i \in 1..Len(o) /\ i \in 1..Len(y) /\ i - Len(src) = j - Len(dst)
      BY <1>1, <1>3, <1>4, <1>7, <1>8, <1>14, <2>2, <3>1 DEF Spells
    <3>3. y[i] = r[j]
      BY <1>10, <1>14, <2>2, <3>2 DEF Spells
    <3>4. o[i] = q[j]
      BY <1>3, <2>2, <3>2 DEF Spells
    <3> QED
      BY <1>4, <1>10, <3>2, <3>3, <3>4
  <2> QED
    BY <1>1, <2>1, <2>2
<1>16. y = x
  BY <1>1, <1>14, <1>15, SeqEqual
<1> QED
  BY <1>10, <1>11, <1>12, <1>13, <1>16

-----------------------------------------------------------------------------
(* os.Rename.                                                              *)

\* Neither name of a rename is, or is inside, the other.
Apart(src, dst) == src # dst /\ ~IsBelow(dst, src) /\ ~IsBelow(src, dst)

\* v is u after the rename of src to dst.
Moved(v, u, src, dst) ==
  \A q \in Paths :
    /\ AtOrBelow(q, dst) =>
         v[q] = IF Origin(q, src, dst) \in Paths
                THEN u[Origin(q, src, dst)] ELSE None
    /\ ~AtOrBelow(q, dst) /\ AtOrBelow(q, src) => v[q] = None
    /\ ~AtOrBelow(q, dst) /\ ~AtOrBelow(q, src) => v[q] = u[q]

\* The same of markers: x is w after it, dst's own marker gone.
MovedMarks(x, w, src, dst) ==
  /\ x \in SUBSET Paths /\ dst \notin x
  /\ \A q \in Paths :
       IsBelow(q, dst) => (q \in x <=> Origin(q, src, dst) \in w)
  /\ \A q \in Paths : IsBelow(q, src) => q \notin x
  /\ \A q \in Paths :
       ~AtOrBelow(q, dst) /\ ~AtOrBelow(q, src) => (q \in x <=> q \in w)

LEMMA MovedTree ==
  ASSUME NEW u, NEW src, NEW dst
  PROVE  Moved(MoveTree(u, src, dst), u, src, dst)
BY DEF MoveTree, Moved, AtOrBelow

LEMMA MovedMarkers ==
  ASSUME NEW u, NEW w, Sound(u, w), NEW src \in Paths, NEW dst \in Paths,
         Apart(src, dst), NEW s \in {w, w \cup {src}},
         NEW x, x = MoveMarkers(s \ {dst}, src, dst)
  PROVE  MovedMarks(x, w, src, dst)
<1>1. /\ src \in Seq(Names) /\ dst \in Seq(Names)
      /\ ~IsBelow(src, src) /\ ~IsBelow(dst, dst)
  BY PathIsSeq, BelowOrder
<1>2. \A q \in Paths :
        IsBelow(q, dst) => (q \in x <=> Origin(q, src, dst) \in w)
  <2> SUFFICES ASSUME NEW q \in Paths, IsBelow(q, dst)
               PROVE  q \in x <=> Origin(q, src, dst) \in w
    OBVIOUS
  <2>1. q # dst
    BY <1>1
  <2>2. IsBelow(Origin(q, src, dst), src)
    BY <2>1, OriginOf DEF AtOrBelow
  <2>3. Origin(q, src, dst) # src /\ Origin(q, src, dst) # dst
    BY <1>1, <2>2 DEF Apart
  <2>4. q \in x <=> Origin(q, src, dst) \in s \ {dst}
    BY DEF MoveMarkers
  <2> QED
    BY <2>3, <2>4
<1>3. \A q \in Paths : ~IsBelow(q, dst) =>
        (q \in x <=> ~IsBelow(q, src) /\ q \in s /\ q # dst)
  BY DEF MoveMarkers
<1>4. \A q \in Paths : IsBelow(q, src) => ~IsBelow(q, dst)
  BY <1>1, BelowLinear, PathIsSeq DEF Apart
<1>5. x \in SUBSET Paths
  BY DEF MoveMarkers, Sound
<1>6. dst \notin x
  BY <1>1, <1>3 DEF Apart
<1>7. \A q \in Paths : IsBelow(q, src) => q \notin x
  BY <1>3, <1>4
<1>8. \A q \in Paths : ~AtOrBelow(q, dst) /\ ~AtOrBelow(q, src) =>
                         (q \in x <=> q \in w)
  BY <1>3 DEF AtOrBelow
<1> QED
  BY <1>2, <1>5, <1>6, <1>7, <1>8 DEF MovedMarks

\* The directories that lead to dst, and those that lead to anything that
\* stays, stay.
LEMMA StaysPut ==
  ASSUME NEW src \in Paths, NEW dst \in Paths, Apart(src, dst),
         NEW q \in Paths, NEW r \in Ancestors(q),
         q \in {src, dst} \/ (~AtOrBelow(q, dst) /\ ~AtOrBelow(q, src))
  PROVE  r \in Paths /\ ~AtOrBelow(r, dst) /\ ~AtOrBelow(r, src)
<1>1. /\ r \in Paths /\ IsBelow(q, r) /\ q \in Seq(Names) /\ r \in Seq(Names)
      /\ src \in Seq(Names) /\ dst \in Seq(Names)
  BY PathIsSeq DEF Ancestors
<1>2. ASSUME NEW p \in {src, dst}, AtOrBelow(r, p)
      PROVE  IsBelow(q, p)
  BY <1>1, <1>2, BelowOrder DEF AtOrBelow
<1>3. ~IsBelow(q, src) /\ ~IsBelow(q, dst)
  BY <1>1, BelowOrder DEF Apart, AtOrBelow
<1> QED
  BY <1>1, <1>2, <1>3

\* The rename of a tree over nothing, or over an empty entry, is sound.
LEMMA MoveEntries ==
  ASSUME NEW u, NEW w, Sound(u, w), NEW src \in Paths, NEW dst \in Paths,
         Apart(src, dst), u[src] # None,
         \A q \in Ancestors(dst) : u[q] = Dir,
         NEW s \in {w, w \cup {src}},
         NEW v, v = MoveTree(u, src, dst),
         NEW x, x = MoveMarkers(s \ {dst}, src, dst)
  PROVE  Sound(v, x)
<1>1. u \in Trees /\ w \in SUBSET Paths /\ IsTree(u)
  BY DEF Sound
<1>2. Moved(v, u, src, dst)
  BY MovedTree
<1>3. MovedMarks(x, w, src, dst)
  BY <1>1, MovedMarkers
<1>4. v \in Trees
  <2>1. v = [q \in Paths |-> v[q]]
    BY DEF MoveTree
  <2>2. \A q \in Paths : v[q] \in Entries \cup {None}
    BY <1>1, <1>2, TreeFacts DEF Moved
  <2> QED
    BY <2>1, <2>2 DEF Trees
<1>5. ASSUME NEW q \in Paths, NEW r \in Ancestors(q), AtOrBelow(q, dst),
             Origin(q, src, dst) \in Paths,
             \A p \in Ancestors(Origin(q, src, dst)) : u[p] = Dir
      PROVE  v[r] = Dir
  <2>1. r \in Paths /\ IsBelow(q, r)
    BY <1>5 DEF Ancestors
  <2>2. CASE AtOrBelow(r, dst)
    <3>1. /\ IsBelow(Origin(q, src, dst), Origin(r, src, dst))
          /\ Origin(r, src, dst) \in Paths
      BY <1>5, <2>1, <2>2, OriginBelow
    <3>2. u[Origin(r, src, dst)] = Dir
      BY <1>5, <3>1 DEF Ancestors
    <3> QED
      BY <1>2, <2>1, <2>2, <3>1, <3>2 DEF Moved
  <2>3. CASE ~AtOrBelow(r, dst)
    <3>1. IsBelow(dst, r)
      BY <1>5, <2>1, <2>3, BelowLinear, PathIsSeq DEF AtOrBelow
    <3>2. r \in Ancestors(dst)
      BY <2>1, <3>1 DEF Ancestors
    <3>3. ~AtOrBelow(r, src)
      BY <3>2, StaysPut
    <3> QED
      BY <1>2, <2>1, <2>3, <3>2, <3>3 DEF Moved
  <2> QED
    BY <2>2, <2>3
<1>6. ASSUME NEW q \in Paths, NEW r \in Ancestors(q),
             (~AtOrBelow(q, dst) /\ ~AtOrBelow(q, src)) \/ q = src, u[r] = Dir
      PROVE  v[r] = Dir
  BY <1>2, <1>6, StaysPut DEF Moved
<1>7. IsTree(v)
  <2> SUFFICES ASSUME NEW q \in Paths, v[q] # None, NEW r \in Ancestors(q)
               PROVE  v[r] = Dir
    BY DEF IsTree
  <2>1. CASE AtOrBelow(q, dst)
    <3>1. Origin(q, src, dst) \in Paths /\ u[Origin(q, src, dst)] # None
      BY <1>2, <2>1 DEF Moved
    <3> QED
      BY <1>1, <1>5, <2>1, <3>1 DEF IsTree
  <2>2. CASE ~AtOrBelow(q, dst)
    <3>1. ~AtOrBelow(q, src) /\ u[q] # None
      BY <1>2, <2>2 DEF Moved
    <3> QED
      BY <1>1, <1>6, <2>2, <3>1 DEF IsTree
  <2> QED
    BY <2>1, <2>2
<1>8. ASSUME NEW m \in x
      PROVE  v[m] = None /\ \A r \in Ancestors(m) : v[r] = Dir
  <2>1. m \in Paths /\ m # dst /\ ~IsBelow(m, src)
    BY <1>3, <1>8 DEF MovedMarks
  <2>2. CASE IsBelow(m, dst)
    <3>1. /\ Origin(m, src, dst) \in w /\ Origin(m, src, dst) \in Paths
          /\ AtOrBelow(m, dst)
          /\ u[Origin(m, src, dst)] = None
          /\ \A r \in Ancestors(Origin(m, src, dst)) : u[r] = Dir
      BY <1>1, <1>3, <1>8, <2>1, <2>2 DEF Sound, AtOrBelow, MovedMarks
    <3> QED
      BY <1>2, <1>5, <2>1, <3>1 DEF Moved
  <2>3. CASE m = src
    <3>1. ~AtOrBelow(src, dst) /\ AtOrBelow(src, src)
      BY DEF Apart, AtOrBelow
    <3>2. \A r \in Ancestors(src) : u[r] = Dir
      BY <1>1 DEF IsTree
    <3> QED
      BY <1>2, <1>6, <2>3, <3>1, <3>2 DEF Moved
  <2>4. CASE ~AtOrBelow(m, dst) /\ ~AtOrBelow(m, src)
    <3>1. m \in w /\ u[m] = None /\ \A r \in Ancestors(m) : u[r] = Dir
      BY <1>3, <1>8, <2>1, <2>4 DEF Sound, MovedMarks
    <3> QED
      BY <1>2, <1>6, <2>1, <2>4, <3>1 DEF Moved
  <2> QED
    BY <2>1, <2>2, <2>3, <2>4 DEF AtOrBelow
<1> QED
  BY <1>3, <1>4, <1>7, <1>8 DEF Sound, MovedMarks

-----------------------------------------------------------------------------
(* What users see.                                                         *)

LEMMA StatEntry ==
  ASSUME NEW u \in Trees, NEW w, NEW t \in Trees, NEW q \in Paths
  PROVE  /\ StatOf(u, w, t, q) \in Entries \cup {None}
         /\ VisibleOf(u, w, t, q) \in Entries \cup {None}
BY TreeFacts DEF StatOf, VisibleOf

\* Where every entry looks the same, so does every walk.
LEMMA SameStatSameView ==
  ASSUME NEW u \in Trees, NEW w, NEW v, NEW x, NEW t \in Trees,
         \A q \in Paths : Same(StatOf(v, x, t, q), StatOf(u, w, t, q))
  PROVE  \A q \in Paths : Same(VisibleOf(v, x, t, q), VisibleOf(u, w, t, q))
<1>1. \A q \in Paths : StatOf(v, x, t, q) = Dir <=> StatOf(u, w, t, q) = Dir
  BY StatEntry, EntryFacts DEF Same
<1>2. \A q \in Paths : WalkOf(v, x, t, q) <=> WalkOf(u, w, t, q)
  BY <1>1 DEF WalkOf, Ancestors
<1> QED
  BY <1>2, EntryFacts DEF VisibleOf, Same

\* Where one entry changes to e, with nothing to see inside it before and
\* after, that one is all that looks different.
LEMMA OneChange ==
  ASSUME NEW u, NEW w, NEW v, NEW x, NEW t, NEW p \in Paths, NEW e,
         WalkOf(u, w, t, p),
         StatOf(v, x, t, p) = e,
         \A q \in Paths : q # p => StatOf(v, x, t, q) = StatOf(u, w, t, q),
         \/ e # Dir
         \/ \A q \in Paths : IsBelow(q, p) => StatOf(v, x, t, q) = None,
         \/ StatOf(u, w, t, p) # Dir
         \/ \A q \in Paths : IsBelow(q, p) => VisibleOf(u, w, t, q) = None
  PROVE  \A q \in Paths :
           VisibleOf(v, x, t, q) = IF q = p THEN e ELSE VisibleOf(u, w, t, q)
<1>1. WalkOf(v, x, t, p)
  <2>1. \A r \in Ancestors(p) : r \in Paths /\ r # p
    BY BelowOrder, PathIsSeq DEF Ancestors
  <2> QED
    BY <2>1 DEF WalkOf
<1>2. ASSUME NEW q \in Paths, IsBelow(q, p)
      PROVE  /\ VisibleOf(v, x, t, q) = None
             /\ VisibleOf(u, w, t, q) = None
  <2>1. p \in Ancestors(q)
    BY <1>2 DEF Ancestors
  <2> QED
    BY <1>2, <2>1 DEF VisibleOf, WalkOf
<1>3. ASSUME NEW q \in Paths, q # p, ~IsBelow(q, p)
      PROVE  VisibleOf(v, x, t, q) = VisibleOf(u, w, t, q)
  <2>1. p \notin Ancestors(q)
    BY <1>3 DEF Ancestors
  <2>2. WalkOf(v, x, t, q) <=> WalkOf(u, w, t, q)
    BY <2>1 DEF WalkOf, Ancestors
  <2> QED
    BY <1>3, <2>2 DEF VisibleOf
<1> QED
  BY <1>1, <1>2, <1>3, BelowOrder, PathIsSeq DEF VisibleOf

-----------------------------------------------------------------------------
(* The handlers.                                                           *)

\* The inductive invariant.  It is what TypeOK, UpperIsTree and NoShadow say
\* together: none of them is inductive without the others.
IInv == TypeOK /\ Sound(up, wh)

\* What is to be shown of every call: the upper directory stays sound, a
\* failure shows nothing, a success shows what POSIX would.
Seen(q)  == VisibleOf(up, wh, lower, q)
SeenNext(q) == VisibleOf(up', wh', lower, q)
Silent   == \A q \in Paths : Same(SeenNext(q), Seen(q))
StepOK ==
  /\ Sound(up', wh') /\ given' = given
  /\ last'.op \in Ops /\ last'.path \in Paths \cup {<<>>}
  /\ last'.to \in Paths \cup {<<>>} /\ last'.errno \in Errnos
  /\ last' = [op |-> last'.op, path |-> last'.path,
              to |-> last'.to, errno |-> last'.errno]
  /\ last'.errno # "OK" => Silent
  /\ (last'.errno = "OK" /\ ~ShowsThrough(last')) =>
       PosixAllows(View, last') /\ SameView(View', Posix(View, last'))

LEMMA StateFacts ==
  ASSUME IInv
  PROVE  /\ lower \in Trees /\ IsTree(lower)
         /\ up \in Trees /\ wh \in SUBSET Paths /\ Sound(up, wh)
         /\ \A p \in Paths : IsDir(Parent(p)) <=> WalkOf(up, wh, lower, p)
         /\ \A p \in Paths : Stat(p) = StatOf(up, wh, lower, p)
         /\ \A p \in Paths : Visible(p) = VisibleOf(up, wh, lower, p)
         /\ \A p \in Paths : CopyUp(p) = CopyOn(up, lower, p)
<1>1. /\ lower \in Trees /\ IsTree(lower)
      /\ up \in Trees /\ wh \in SUBSET Paths /\ Sound(up, wh)
  BY LowerAssumption DEF IInv, TypeOK
<1>2. \A p : Stat(p) = StatOf(up, wh, lower, p)
  BY DEF Stat, StatOf
<1>3. \A p : Visible(p) = VisibleOf(up, wh, lower, p)
  BY <1>2 DEF Visible, VisibleOf, WalkOf
<1>4. \A p \in Paths : IsDir(Parent(p)) <=> WalkOf(up, wh, lower, p)
  BY <1>3, WalkByParent DEF IsDir
<1>5. \A p \in Paths : CopyUp(p) = CopyOn(up, lower, p)
  BY DEF CopyUp, NeedsCopy, CopyOn
<1> QED
  BY <1>1, <1>2, <1>3, <1>4, <1>5

LEMMA ViewFacts ==
  /\ \A q \in Paths : View[q] = Seen(q)
  /\ lower' = lower => \A q \in Paths : View'[q] = SeenNext(q)
  /\ View = [q \in Paths |-> View[q]]
<1>1. View = [q \in Paths |-> Seen(q)]
  BY DEF View, Visible, Stat, Seen, VisibleOf, WalkOf, StatOf
<1>2. lower' = lower => View' = [q \in Paths |-> SeenNext(q)]
  BY DEF View, Visible, Stat, SeenNext, VisibleOf, WalkOf, StatOf
<1> QED
  BY <1>1, <1>2

\* A call whose changes to the entries do not show.
LEMMA SilentStep ==
  ASSUME IInv, lower' = lower, Sound(up', wh'),
         \A q \in Paths :
           Same(StatOf(up', wh', lower, q), StatOf(up, wh, lower, q))
  PROVE  Silent /\ SameView(View', View)
<1>1. Silent
  <2>1. up \in Trees /\ lower \in Trees
    BY StateFacts
  <2>2. PICK v, x : v = up' /\ x = wh'
    OBVIOUS
  <2>3. \A q \in Paths :
          Same(VisibleOf(v, x, lower, q), VisibleOf(up, wh, lower, q))
    BY <2>1, <2>2, SameStatSameView
  <2> QED
    BY <2>2, <2>3 DEF Silent, Seen, SeenNext
<1> QED
  BY <1>1, ViewFacts DEF SameView, Silent, Same

\* A call that changes what is seen at p to e, and nothing else.
LEMMA ShownStep ==
  ASSUME lower' = lower, NEW p \in Paths, NEW e,
         \A q \in Paths : SeenNext(q) = IF q = p THEN e ELSE Seen(q)
  PROVE  SameView(View', [View EXCEPT ![p] = e])
BY ViewFacts DEF SameView

\* Refusing changes nothing.
LEMMA RefuseStep ==
  ASSUME IInv, NEW op \in Ops, NEW p \in Paths, NEW errno \in Errnos \ {"OK"},
         UNCHANGED given, Refuse(op, p, errno)
  PROVE  StepOK
<1>1. /\ up' = up /\ wh' = wh /\ lower' = lower
      /\ last' = [op |-> op, path |-> p, to |-> <<>>, errno |-> errno]
  BY DEF Refuse, Reply, given
<1>2. Sound(up', wh') /\ Silent
  BY <1>1, StateFacts DEF Silent, Seen, SeenNext, Same
<1> QED
  BY <1>1, <1>2 DEF StepOK

\* So does failing, but for directories and copies that look the same.
LEMMA FailStep ==
  ASSUME IInv, UNCHANGED given, Sound(up', wh'),
         \A q \in Paths :
           Same(StatOf(up', wh', lower, q), StatOf(up, wh, lower, q)),
         NEW op \in Ops, NEW p \in Paths, NEW to \in Paths \cup {<<>>},
         NEW errno \in Errnos \ {"OK"}, Reply(op, p, to, errno)
  PROVE  StepOK
<1>1. last' = [op |-> op, path |-> p, to |-> to, errno |-> errno]
  BY DEF Reply
<1>2. Silent
  BY SilentStep DEF given
<1> QED
  BY <1>1, <1>2 DEF StepOK

\* Create, Mkdir and Symlink.
LEMMA NewStep ==
  ASSUME IInv, NEW op \in Ops, NEW p \in Paths, NEW entry, NEW fail,
         New(op, p, entry, fail),
         \/ op = "create" /\ entry = File("new")
         \/ op = "mkdir" /\ entry = Dir
         \/ op = "symlink" /\ entry = Link("new")
  PROVE  StepOK
<1> DEFINE u == up
           w == wh
           t == lower
<1>1. /\ t \in Trees /\ IsTree(t) /\ u \in Trees /\ IsTree(u)
      /\ w \in SUBSET Paths
      /\ Sound(u, w) /\ WalkOf(u, w, t, p) /\ VisibleOf(u, w, t, p) = None
      /\ UNCHANGED given /\ lower' = t
  BY StateFacts DEF New, given, Sound
<1>2. PICK made : made = MkdirAll(up, Parent(p))
  OBVIOUS
<1>3. /\ Sound(made, w) /\ made \in Trees
      /\ \A q \in Ancestors(p) : made[q] = Dir
      /\ made[p] = u[p]
      /\ \A q \in Paths : q \notin Ancestors(p) => made[q] = u[q]
      /\ \A q \in Paths : StatOf(made, w, t, q) = StatOf(u, w, t, q)
  <2>1. p \notin Ancestors(p)
    BY BelowOrder, PathIsSeq DEF Ancestors
  <2>2. /\ Sound(made, w)
        /\ \A q \in Ancestors(p) : made[q] = Dir
        /\ \A q \in Paths : q \notin Ancestors(p) => made[q] = u[q]
        /\ \A q \in Paths : StatOf(made, w, t, q) = StatOf(u, w, t, q)
    BY <1>1, <1>2, MakeParents DEF Prepared
  <2>3. made \in Trees
    BY <2>2 DEF Sound
  <2> QED
    BY <2>1, <2>2, <2>3
<1>4. StatOf(u, w, t, p) = None
  BY <1>1 DEF VisibleOf
<1>5. u[p] = None
  BY <1>1, <1>4 DEF StatOf, Sound
<1>6. CASE fail = "mkdirAll" /\ Refuse(op, p, "EIO")
  BY <1>1, <1>6, RefuseStep DEF Errnos
<1>7. CASE up' = made /\ wh' = w /\ Reply(op, p, <<>>, "EIO")
  BY <1>1, <1>3, <1>7, FailStep DEF Errnos, Same
<1>8. CASE /\ up' = [made EXCEPT ![p] = entry] /\ wh' = ClearWhiteout(w, p)
           /\ Reply(op, p, <<>>, "OK")
  <2> DEFINE v == up'
             x == wh'
  <2>1. entry \in Entries /\ entry # None
    BY EntryFacts
  <2>2. x = w \ {p} /\ v = [made EXCEPT ![p] = entry]
    BY <1>8 DEF ClearWhiteout
  <2>3. \A q \in Paths : v[q] = IF q = p THEN entry ELSE made[q]
    BY <1>3, <2>1, <2>2 DEF Trees
  <2>4. Sound(v, x)
    BY <1>3, <1>5, <2>1, <2>2, EntryFacts, PutEntry
  <2>5. StatOf(v, x, t, p) = entry
    BY <2>1, <2>2, <2>3 DEF StatOf
  <2>6. \A q \in Paths : q # p => StatOf(v, x, t, q) = StatOf(u, w, t, q)
    BY <1>3, <2>2, <2>3 DEF StatOf
  <2>7. last' = [op |-> op, path |-> p, to |-> <<>>, errno |-> "OK"]
    BY <1>8 DEF Reply
  <2>8. ASSUME ~ShowsThrough(last')
        PROVE  SameView(View', Posix(View, last'))
    <3>1. ASSUME entry = Dir, NEW q \in Paths, IsBelow(q, p)
          PROVE  StatOf(v, x, t, q) = None
      <4>1. op = "mkdir"
        BY <3>1, EntryFacts
      <4>2. t[p] # Dir
        BY <2>7, <2>8, <4>1, PathIsSeq DEF ShowsThrough
      <4>3. t[q] = None /\ u[q] = None
        BY <1>1, <1>5, <3>1, <4>2, EntryFacts, OnlyDirsHold
      <4>4. q # p
        BY <3>1, BelowOrder, PathIsSeq
      <4> QED
        BY <2>6, <3>1, <4>3, <4>4 DEF StatOf
    <3>2. \A q \in Paths :
            VisibleOf(v, x, t, q) =
              IF q = p THEN entry ELSE VisibleOf(u, w, t, q)
      <4>1. PICK a, b : a = v /\ b = x
        OBVIOUS
      <4>2. \/ entry # Dir
            \/ \A q \in Paths : IsBelow(q, p) => StatOf(a, b, t, q) = None
        BY <3>1, <4>1
      <4>3. StatOf(u, w, t, p) # Dir
        BY <1>4, EntryFacts
      <4>4. \A q \in Paths :
              VisibleOf(a, b, t, q) =
                IF q = p THEN entry ELSE VisibleOf(u, w, t, q)
        BY <1>1, <2>5, <2>6, <4>1, <4>2, <4>3, OneChange
      <4> QED
        BY <4>1, <4>4
    <3>3. Posix(View, last') = [View EXCEPT ![p] = entry]
      BY <2>7 DEF Posix
    <3> QED
      BY <1>1, <3>2, <3>3, ShownStep DEF Seen, SeenNext
  <2> QED
    BY <1>1, <2>4, <2>7, <2>8 DEF StepOK, Errnos, PosixAllows
<1>9. Restore(ClearWhiteout(w, p), p, p \in w) = w
  BY DEF Restore, ClearWhiteout, MakeWhiteout
<1> QED
  BY <1>2, <1>6, <1>7, <1>8, <1>9 DEF New

\* copyUp, and what its failure leaves.
LEMMA CopyUpStep ==
  ASSUME IInv, NEW p \in Paths, Visible(p) # None,
         NEW v, v = CopyUp(p)
  PROVE  /\ Sound(v, wh) /\ v \in Trees
         /\ p \notin wh /\ WalkOf(up, wh, lower, p)
         /\ v[p] # None => \A q \in Ancestors(p) : v[q] = Dir
         /\ v[p] # None => v[p] = StatOf(v, wh, lower, p)
         /\ v[p] = None => lower[p] = Dir /\ v = up
         /\ \A q \in Paths : IsBelow(q, p) => v[q] = up[q]
         /\ \A q \in Paths :
              q # p => StatOf(v, wh, lower, q) = StatOf(up, wh, lower, q)
         /\ Same(StatOf(v, wh, lower, p), StatOf(up, wh, lower, p))
         /\ \A q \in Paths :
              Same(StatOf(v, wh, lower, q), StatOf(up, wh, lower, q))
         /\ StatOf(up, wh, lower, p) = Visible(p)
<1>1. /\ Sound(up, wh) /\ lower \in Trees
      /\ VisibleOf(up, wh, lower, p) # None /\ v = CopyOn(up, lower, p)
      /\ VisibleOf(up, wh, lower, p) = Visible(p)
  BY StateFacts
<1>2. /\ Sound(v, wh)
      /\ p \notin wh /\ WalkOf(up, wh, lower, p)
      /\ v[p] # None => \A q \in Ancestors(p) : v[q] = Dir
      /\ v[p] # None => v[p] = StatOf(v, wh, lower, p)
      /\ v[p] = None => lower[p] = Dir /\ v = up
      /\ \A q \in Paths : IsBelow(q, p) => v[q] = up[q]
      /\ \A q \in Paths :
           q # p => StatOf(v, wh, lower, q) = StatOf(up, wh, lower, q)
      /\ Same(StatOf(v, wh, lower, p), StatOf(up, wh, lower, p))
  BY <1>1, CopyUpLooksSame
<1>3. v \in Trees
  BY <1>2 DEF Sound
<1>4. StatOf(up, wh, lower, p) = Visible(p)
  BY <1>1, <1>2 DEF VisibleOf
<1>5. \A q \in Paths : Same(StatOf(v, wh, lower, q), StatOf(up, wh, lower, q))
  BY <1>2 DEF Same
<1> QED
  BY <1>2, <1>3, <1>4, <1>5

LEMMA CopyUpFailsStep ==
  ASSUME IInv, NEW p \in Paths, Visible(p) # None, UNCHANGED given,
         CopyUpFails(p),
         NEW op \in Ops, NEW to \in Paths \cup {<<>>}, Reply(op, p, to, "EIO")
  PROVE  StepOK
<1>1. PICK made : made = MkdirAll(up, Parent(p))
  OBVIOUS
<1>2. Sound(up, wh) /\ WalkOf(up, wh, lower, p)
  BY StateFacts, CopyUpStep
<1>3. /\ Sound(made, wh)
      /\ \A q \in Paths : StatOf(made, wh, lower, q) = StatOf(up, wh, lower, q)
  BY <1>1, <1>2, MakeParents DEF Prepared
<1>4. up' \in {up, made} /\ wh' = wh
  BY <1>1 DEF CopyUpFails
<1>5. /\ Sound(up', wh')
      /\ \A q \in Paths :
           Same(StatOf(up', wh', lower, q), StatOf(up, wh, lower, q))
  BY <1>2, <1>3, <1>4 DEF Same
<1> QED
  BY <1>5, FailStep DEF Errnos

\* Setattr and Open for writing when copyUp went well; the call may fail then.
LEMMA CopiedStep ==
  ASSUME IInv, NEW p \in Paths, Visible(p) # None, UNCHANGED <<given, wh>>,
         up' = CopyUp(p),
         NEW op \in {"setattr", "open", "truncate"},
         NEW errno \in {"OK", "EIO"},
         op = "truncate" => errno = "EIO",
         Reply(op, p, <<>>, errno)
  PROVE  StepOK
<1>1. PICK v : v = CopyUp(p)
  OBVIOUS
<1>2. /\ Sound(v, wh)
      /\ \A q \in Paths :
           Same(StatOf(v, wh, lower, q), StatOf(up, wh, lower, q))
  BY <1>1, CopyUpStep
<1>3. up' = v /\ wh' = wh /\ lower' = lower
  BY <1>1 DEF given
<1>4. /\ Sound(up', wh')
      /\ \A q \in Paths :
           Same(StatOf(up', wh', lower, q), StatOf(up, wh, lower, q))
  BY <1>2, <1>3
<1>5. Silent /\ SameView(View', View)
  BY <1>3, <1>4, SilentStep
<1>6. last' = [op |-> op, path |-> p, to |-> <<>>, errno |-> errno]
  BY DEF Reply
<1>7. errno = "OK" => Posix(View, last') = View
  BY <1>6 DEF Posix
<1>8. op \in Ops /\ errno \in Errnos
  BY DEF Ops, Errnos
<1> QED
  BY <1>4, <1>5, <1>6, <1>7, <1>8 DEF StepOK, PosixAllows

\* Data written to a file of the upper directory.
LEMMA DataStep ==
  ASSUME IInv, NEW p \in Paths, UNCHANGED <<given, wh>>,
         NEW v, Sound(v, wh), v[p] \notin {None, Dir},
         up' = [v EXCEPT ![p] = File("new")],
         \A q \in Paths :
           q # p => StatOf(v, wh, lower, q) = StatOf(up, wh, lower, q),
         WalkOf(up, wh, lower, p), p \notin wh,
         StatOf(up, wh, lower, p) \notin {None, Dir},
         NEW op \in {"truncate", "write"}, Reply(op, p, <<>>, "OK")
  PROVE  StepOK
<1>1. PICK z : z = up'
  OBVIOUS
<1>2. v \in Trees /\ \A q \in Ancestors(p) : v[q] = Dir
  BY DEF Sound, IsTree
<1>3. /\ z = [v EXCEPT ![p] = File("new")]
      /\ \A q \in Paths : z[q] = IF q = p THEN File("new") ELSE v[q]
  BY <1>1, <1>2 DEF Trees
<1>4. Sound(z, wh)
  BY <1>2, <1>3, EntryFacts, PutEntry
<1>5. StatOf(z, wh, lower, p) = File("new")
  BY <1>3, EntryFacts DEF StatOf
<1>6. \A q \in Paths :
        q # p => StatOf(z, wh, lower, q) = StatOf(up, wh, lower, q)
  BY <1>3 DEF StatOf
<1>7. \A q \in Paths :
        VisibleOf(z, wh, lower, q) =
          IF q = p THEN File("new") ELSE VisibleOf(up, wh, lower, q)
  BY <1>5, <1>6, EntryFacts, OneChange
<1>8. last' = [op |-> op, path |-> p, to |-> <<>>, errno |-> "OK"]
  BY DEF Reply
<1>9. \A q \in Paths : SeenNext(q) = IF q = p THEN File("new") ELSE Seen(q)
  BY <1>1, <1>7 DEF SeenNext, Seen
<1>10. SameView(View', [View EXCEPT ![p] = File("new")])
  BY <1>9, ShownStep DEF given
<1>11. Posix(View, last') = [View EXCEPT ![p] = File("new")]
  <2>1. CASE op = "truncate"
    BY <1>8, <2>1 DEF Posix
  <2>2. CASE op = "write"
    <3>1. View[p] # None
      BY ViewFacts DEF Seen, VisibleOf
    <3>2. Posix(View, last') = [View EXCEPT ![p] = IF View[p] = None THEN None
                                                   ELSE File("new")]
      BY <1>8, <2>2 DEF Posix
    <3> QED
      BY <3>1, <3>2
  <2> QED
    BY <2>1, <2>2
<1> QED
  BY <1>1, <1>4, <1>8, <1>10, <1>11 DEF StepOK, PosixAllows, Ops, Errnos

LEMMA SetattrStep ==
  ASSUME IInv, NEW p \in Paths, NEW truncate \in BOOLEAN, NEW fail,
         Setattr(p, truncate, fail)
  PROVE  StepOK
<1> PICK op : op = IF truncate THEN "truncate" ELSE "setattr"
  OBVIOUS
<1>1. PICK v : v = CopyUp(p)
  OBVIOUS
<1>2. Visible(p) # None /\ UNCHANGED given /\ op \in Ops
  BY DEF Setattr, Ops
<1>3. CASE CopyUpFails(p) /\ Reply(op, p, <<>>, "EIO")
  BY <1>2, <1>3, CopyUpFailsStep
<1>4. CASE Refuse(op, p, "ENOENT")
  BY <1>2, <1>4, RefuseStep DEF Errnos
<1>5. CASE up' = v /\ UNCHANGED wh /\ Reply(op, p, <<>>, "EIO")
  BY <1>1, <1>2, <1>5, CopiedStep
<1>6. CASE ~truncate /\ up' = v /\ UNCHANGED wh /\ Reply(op, p, <<>>, "OK")
  BY <1>1, <1>2, <1>6, CopiedStep
<1>7. CASE /\ truncate /\ v[p] # None
           /\ up' = [v EXCEPT ![p] = File("new")]
           /\ UNCHANGED wh /\ Reply(op, p, <<>>, "OK")
  <2>1. /\ Sound(v, wh) /\ p \notin wh /\ WalkOf(up, wh, lower, p)
        /\ v[p] = StatOf(v, wh, lower, p)
        /\ \A q \in Paths :
             q # p => StatOf(v, wh, lower, q) = StatOf(up, wh, lower, q)
        /\ Same(StatOf(v, wh, lower, p), StatOf(up, wh, lower, p))
        /\ StatOf(up, wh, lower, p) = Visible(p)
    BY <1>1, <1>2, <1>7, CopyUpStep
  <2>2. Visible(p) \in Entries \cup {None} /\ Visible(p).kind = "file"
    BY <1>7, StateFacts, StatEntry DEF Setattr
  <2>3. Visible(p) \notin {None, Dir}
    BY <2>2, EntryFacts
  <2>4. v[p] \notin {None, Dir}
    BY <2>1, <2>2, <2>3, EntryFacts DEF Same
  <2> QED
    BY <1>2, <1>7, <2>1, <2>3, <2>4, DataStep
<1> QED
  BY <1>1, <1>3, <1>4, <1>5, <1>6, <1>7 DEF Setattr

LEMMA OpenWriteStep ==
  ASSUME IInv, NEW p \in Paths, NEW fail, OpenWrite(p, fail)
  PROVE  StepOK
<1>1. Visible(p) # None
  BY StateFacts, StatEntry, EntryFacts DEF OpenWrite
<1>2. UNCHANGED given /\ wh' = wh /\ "open" \in Ops
  BY DEF OpenWrite, Ops
<1>3. CASE CopyUpFails(p) /\ Reply("open", p, <<>>, "EIO")
  BY <1>1, <1>2, <1>3, CopyUpFailsStep
<1>4. CASE up' = CopyUp(p) /\ Reply("open", p, <<>>, "EIO")
  BY <1>1, <1>2, <1>4, CopiedStep
<1>5. CASE up' = CopyUp(p) /\ Reply("open", p, <<>>, "OK")
  BY <1>1, <1>2, <1>5, CopiedStep
<1> QED
  BY <1>3, <1>4, <1>5 DEF OpenWrite

LEMMA WriteStep ==
  ASSUME IInv, NEW p \in Paths, Write(p)
  PROVE  StepOK
<1>1. /\ up[p].kind = "file" /\ up' = [up EXCEPT ![p] = File("new")]
      /\ UNCHANGED <<given, wh>> /\ Reply("write", p, <<>>, "OK")
  BY DEF Write
<1>2. Sound(up, wh) /\ up[p] \in Entries \cup {None}
  BY StateFacts, TreeFacts
<1>3. up[p] \notin {None, Dir}
  BY <1>1, <1>2, EntryFacts
<1>4. p \notin wh /\ \A q \in Ancestors(p) : up[q] = Dir /\ q \notin wh
  BY <1>2, <1>3, EntryFacts DEF Sound, IsTree, Ancestors
<1>5. WalkOf(up, wh, lower, p) /\ StatOf(up, wh, lower, p) = up[p]
  BY <1>3, <1>4, EntryFacts DEF WalkOf, StatOf
<1> QED
  BY <1>1, <1>2, <1>3, <1>4, <1>5, DataStep

\* In a sound state a directory lists what can be looked up in it: an upper
\* entry, or a lower one, which is listed because its parent is a lower
\* directory that no marker hides.
LEMMA Listing ==
  ASSUME IInv
  PROVE  ReaddirIsLookup
<1> SUFFICES ASSUME NEW p \in PathsAndRoot, IsDir(p)
             PROVE  DirEntries(p) = {q \in Children(p) : Visible(q) # None}
  BY DEF ReaddirIsLookup, PathsAndRoot
<1> SUFFICES ASSUME NEW q \in Children(p)
             PROVE  q \in DirEntries(p) <=> Visible(q) # None
  BY DEF DirEntries
<1>1. q \in Paths /\ Parent(q) = p
  BY ChildrenByParent DEF Children
<1>2. /\ WalkOf(up, wh, lower, q)
      /\ Stat(q) = StatOf(up, wh, lower, q)
      /\ Visible(q) = VisibleOf(up, wh, lower, q)
      /\ IsTree(lower)
  BY <1>1, StateFacts
<1>3. Visible(q) = Stat(q)
  BY <1>2 DEF VisibleOf
<1>4. ASSUME lower[q] # None, q \notin wh, p # <<>>
      PROVE  StatLower(p) = Dir
  <2>1. p \in Paths /\ p \in Ancestors(q)
    BY <1>1, <1>4, AncestorsOfParent DEF PathsAndRoot
  <2>2. lower[p] = Dir
    BY <1>1, <1>2, <1>4, <2>1 DEF IsTree
  <2>3. p \notin wh
    BY <1>2, <2>1, EntryFacts DEF WalkOf, StatOf
  <2> QED
    BY <2>2, <2>3 DEF StatLower
<1>5. Stat(q) # None => q \notin wh /\ (up[q] # None \/ lower[q] # None)
  BY DEF Stat
<1> QED
  BY <1>3, <1>4, <1>5 DEF DirEntries

\* What is seen below an empty directory.
LEMMA EmptyDirectory ==
  ASSUME IInv, NEW p \in Paths, Visible(p) = Dir, DirEntries(p) = {},
         NEW q \in Paths, IsBelow(q, p)
  PROVE  VisibleOf(up, wh, lower, q) = None
<1>1. PICK r \in Children(p) : r = q \/ r \in Ancestors(q)
  BY ChildTowards DEF PathsAndRoot
<1>2. r \in Paths /\ Parent(r) = p
  BY <1>1, ChildrenByParent DEF Children, PathsAndRoot
<1>3. VisibleOf(up, wh, lower, r) = None
  BY <1>1, <1>2, Listing, StateFacts DEF ReaddirIsLookup, IsDir
<1>4. CASE r \in Ancestors(q)
  <2>1. WalkOf(up, wh, lower, q) => /\ WalkOf(up, wh, lower, r)
                                  /\ StatOf(up, wh, lower, r) = Dir
    BY <1>4, WalkDown
  <2> QED
    BY <1>3, <2>1, EntryFacts DEF VisibleOf
<1> QED
  BY <1>1, <1>3, <1>4

\* Unlink and Rmdir.
LEMMA RemoveStep ==
  ASSUME IInv, NEW op \in {"unlink", "rmdir"}, NEW p \in Paths,
         NEW dir \in BOOLEAN, dir = (op = "rmdir"),
         NEW fail, Remove(op, p, dir, fail)
  PROVE  StepOK
<1> DEFINE whiteout == StatLower(p) # None
<1>1. PICK marked : marked = Mark(wh, p, whiteout)
  OBVIOUS
<1>2. PICK made : made = IF whiteout THEN MkdirAll(up, Parent(p)) ELSE up
  OBVIOUS
<1>3. /\ Sound(up, wh) /\ WalkOf(up, wh, lower, p) /\ UNCHANGED given
      /\ up \in Trees /\ lower \in Trees /\ IsTree(lower)
      /\ wh \in SUBSET Paths
      /\ Stat(p) = StatOf(up, wh, lower, p) /\ op \in Ops
      /\ Visible(p) = VisibleOf(up, wh, lower, p)
  BY StateFacts DEF Remove, Ops
<1>4. /\ Sound(made, wh) /\ made[p] = up[p] /\ made \in Trees
      /\ \A q \in Paths : q \notin Ancestors(p) => made[q] = up[q]
      /\ \A q \in Paths : StatOf(made, wh, lower, q) = StatOf(up, wh, lower, q)
      /\ whiteout => \A q \in Ancestors(p) : made[q] = Dir
  <2>1. PICK all : all = MkdirAll(up, Parent(p))
    OBVIOUS
  <2>2. /\ Sound(all, wh)
        /\ \A q \in Ancestors(p) : all[q] = Dir
        /\ \A q \in Paths : q \notin Ancestors(p) => all[q] = up[q]
        /\ \A q \in Paths : StatOf(all, wh, lower, q) = StatOf(up, wh, lower, q)
    <3>1. Prepared(all, up, wh, lower, p)
      BY <1>3, <2>1, MakeParents
    <3> QED
      BY <3>1 DEF Prepared
  <2>3. p \notin Ancestors(p)
    BY BelowOrder, PathIsSeq DEF Ancestors
  <2>4. made = IF whiteout THEN all ELSE up
    BY <1>2, <2>1
  <2>5. Sound(made, wh)
    BY <1>3, <2>2, <2>4
  <2>6. made \in Trees
    BY <2>5 DEF Sound
  <2> QED
    BY <2>2, <2>3, <2>4, <2>5, <2>6
<1>5. ASSUME NEW errno \in Errnos \ {"OK"}, Refuse(op, p, errno)
      PROVE  StepOK
  BY <1>3, <1>5, RefuseStep
<1>6. ASSUME NEW errno \in Errnos \ {"OK"}, Reply(op, p, <<>>, errno),
             up' \in {up, made}, wh' = wh
      PROVE  StepOK
  <2>1. /\ Sound(up', wh')
        /\ \A q \in Paths :
             Same(StatOf(up', wh', lower, q), StatOf(up, wh, lower, q))
    BY <1>3, <1>4, <1>6 DEF Same
  <2> QED
    BY <1>3, <1>6, <2>1, FailStep
<1>7. Stat(p) # None => p \notin wh /\ Unmark(marked, p, whiteout) = wh
  BY <1>1 DEF Stat, Mark, Unmark, MakeWhiteout, ClearWhiteout
<1>8. CASE /\ Stat(p) # None /\ dir = (Stat(p) = Dir)
           /\ dir => DirEntries(p) = {}
           /\ up[p] # None => EmptyUpper(up, wh, p)
           /\ up' = [made EXCEPT ![p] = None] /\ wh' = marked
           /\ Reply(op, p, <<>>, "OK")
  <2>1. PICK v, x : v = up' /\ x = wh'
    OBVIOUS
  <2>2. \A q \in Paths : IsBelow(q, p) => q \notin Ancestors(p)
    BY BelowOrder, PathIsSeq DEF Ancestors
  <2>3. EmptyUpper(made, wh, p)
    <3>1. EmptyUpper(up, wh, p)
      <4>1. CASE up[p] = None
        <5>1. \A q \in Paths : IsBelow(q, p) => up[q] = None /\ q \notin wh
          BY <1>3, <4>1, EntryFacts, OnlyDirsHold, NoMarkerBelowFile DEF Sound
        <5> QED
          BY <5>1 DEF EmptyUpper, Below
      <4> QED
        BY <1>8, <4>1
    <3> QED
      BY <1>4, <2>2, <3>1 DEF EmptyUpper, Below
  <2>4. x \in {wh, wh \cup {p}} /\ (p \in x <=> whiteout)
    <3>1. p \notin wh /\ x = Mark(wh, p, whiteout)
      BY <1>1, <1>7, <1>8, <2>1
    <3>2. CASE whiteout
      BY <3>1, <3>2 DEF Mark, MakeWhiteout
    <3>3. CASE ~whiteout
      BY <3>1, <3>3 DEF Mark, MakeWhiteout
    <3> QED
      BY <3>2, <3>3
  <2>5. Sound(v, x)
    <3>1. v = [made EXCEPT ![p] = None] /\ Sound(made, wh)
      BY <1>4, <1>8, <2>1
    <3>2. CASE x = wh
      <4>1. Sound(v, wh)
        BY <2>3, <3>1, CutEntry
      <4> QED
        BY <3>2, <4>1
    <3>3. CASE x = wh \cup {p}
      <4>1. \A q \in Ancestors(p) : made[q] = Dir
        BY <1>4, <2>4, <3>3
      <4> QED
        BY <2>3, <3>1, <3>3, <4>1, CutEntry
    <3> QED
      BY <2>4, <3>2, <3>3
  <2>6. \A q \in Paths : v[q] = IF q = p THEN None ELSE made[q]
    BY <1>4, <1>8, <2>1 DEF Trees
  <2>7. StatOf(v, x, lower, p) = None
    BY <2>4, <2>6, <1>7, <1>8 DEF StatOf, StatLower
  <2>8. \A q \in Paths :
          q # p => StatOf(v, x, lower, q) = StatOf(up, wh, lower, q)
    BY <1>4, <2>4, <2>6 DEF StatOf
  <2>9. \/ StatOf(up, wh, lower, p) # Dir
        \/ \A q \in Paths :
             IsBelow(q, p) => VisibleOf(up, wh, lower, q) = None
    <3>1. CASE Stat(p) = Dir
      <4>1. Visible(p) = Dir /\ DirEntries(p) = {}
        BY <1>3, <1>8, <3>1 DEF VisibleOf
      <4> QED
        BY <4>1, EmptyDirectory
    <3> QED
      BY <1>3, <3>1
  <2>10. \A q \in Paths :
           VisibleOf(v, x, lower, q) =
             IF q = p THEN None ELSE VisibleOf(up, wh, lower, q)
    BY <1>3, <2>7, <2>8, <2>9, EntryFacts, OneChange
  <2>11. last' = [op |-> op, path |-> p, to |-> <<>>, errno |-> "OK"]
    BY <1>8 DEF Reply
  <2>12. SameView(View', Posix(View, last'))
    <3>1. Posix(View, last') = [View EXCEPT ![p] = None]
      BY <2>11 DEF Posix
    <3>2. \A q \in Paths : SeenNext(q) = IF q = p THEN None ELSE Seen(q)
      BY <2>1, <2>10 DEF Seen, SeenNext
    <3>3. SameView(View', [View EXCEPT ![p] = None])
      BY <1>3, <3>2, ShownStep DEF given
    <3> QED
      BY <3>1, <3>3
  <2>13. PosixAllows(View, last')
    <3>1. op = "rmdir" => \A q \in Below(p) : View[q] = None
      BY <1>3, <1>8, <2>9, ViewFacts DEF Below, Seen
    <3> QED
      BY <2>11, <3>1 DEF PosixAllows
  <2> QED
    BY <1>3, <2>1, <2>5, <2>11, <2>12, <2>13 DEF StepOK, Errnos
<1> QED
  BY <1>1, <1>2, <1>5, <1>6, <1>7, <1>8 DEF Remove, Errnos

-----------------------------------------------------------------------------
(* Rename.                                                                 *)

\* What is seen after os.Rename and the change of markers is what was seen,
\* moved, if the commit has directories neither at src nor at dst.
LEMMA MovedView ==
  ASSUME NEW u, NEW w, NEW t, Sound(u, w), IsTree(t),
         NEW src \in Paths, NEW dst \in Paths, Apart(src, dst),
         u[src] # None, src \notin w, t[src] # Dir, t[dst] # Dir,
         WalkOf(u, w, t, src), WalkOf(u, w, t, dst),
         NEW s \in {w, w \cup {src}}, t[src] # None => src \in s,
         NEW v, v = MoveTree(u, src, dst),
         NEW x, x = MoveMarkers(s \ {dst}, src, dst)
  PROVE  Moved(ViewOf(v, x, t), ViewOf(u, w, t), src, dst)
<1>1. Moved(v, u, src, dst)
  BY MovedTree
<1>2. MovedMarks(x, w, src, dst) /\ (src \in s => src \in x)
  <2>1. MovedMarks(x, w, src, dst)
    BY MovedMarkers
  <2>2. src \in s => src \in x
    BY BelowOrder, PathIsSeq DEF MoveMarkers, Apart
  <2> QED
    BY <2>1, <2>2
<1>3. w \in SUBSET Paths
  BY DEF Sound
<1>4. /\ \A q \in Paths : IsBelow(q, src) => t[q] = None
      /\ \A q \in Paths : IsBelow(q, dst) => t[q] = None
  BY OnlyDirsHold
<1>5. ~AtOrBelow(src, dst) /\ AtOrBelow(src, src) /\ AtOrBelow(dst, dst)
  BY DEF Apart, AtOrBelow
<1>6. ASSUME NEW q \in Paths, AtOrBelow(q, dst), Origin(q, src, dst) \in Paths
      PROVE  StatOf(v, x, t, q) = StatOf(u, w, t, Origin(q, src, dst))
  <2>1. PICK o \in Paths : o = Origin(q, src, dst)
    BY <1>6
  <2>2. v[q] = u[o]
    BY <1>1, <1>6, <2>1 DEF Moved
  <2>3. CASE q = dst
    <3>1. o = src /\ q \notin x
      BY <1>2, <1>6, <2>1, <2>3, OriginOf DEF MovedMarks
    <3> QED
      BY <2>1, <2>2, <3>1 DEF StatOf
  <2>4. CASE q # dst
    <3>1. IsBelow(q, dst) /\ IsBelow(o, src)
      BY <1>6, <2>1, <2>4, OriginOf DEF AtOrBelow
    <3>2. (q \in x <=> o \in w) /\ t[q] = None /\ t[o] = None
      BY <1>2, <1>4, <2>1, <3>1 DEF MovedMarks
    <3> QED
      BY <2>1, <2>2, <3>2 DEF StatOf
  <2> QED
    BY <2>3, <2>4
<1>7. ASSUME NEW q \in Paths, AtOrBelow(q, dst),
             Origin(q, src, dst) \notin Paths
      PROVE  StatOf(v, x, t, q) = None
  <2>1. q # dst /\ IsBelow(q, dst)
    BY <1>7, OriginOf DEF AtOrBelow
  <2>2. v[q] = None /\ t[q] = None /\ q \notin x
    BY <1>1, <1>2, <1>3, <1>4, <1>7, <2>1 DEF Moved, MovedMarks
  <2> QED
    BY <2>2 DEF StatOf
<1>8. StatOf(v, x, t, src) = None
  <2>1. v[src] = None
    BY <1>1, <1>5 DEF Moved
  <2> QED
    BY <1>2, <2>1 DEF StatOf
<1>9. ASSUME NEW q \in Paths, ~AtOrBelow(q, dst), ~AtOrBelow(q, src)
      PROVE  StatOf(v, x, t, q) = StatOf(u, w, t, q)
  BY <1>1, <1>2, <1>9 DEF Moved, MovedMarks, StatOf
<1>10. ASSUME NEW q \in Paths, ~AtOrBelow(q, dst), ~AtOrBelow(q, src)
       PROVE  VisibleOf(v, x, t, q) = VisibleOf(u, w, t, q)
  <2>1. WalkOf(v, x, t, q) <=> WalkOf(u, w, t, q)
    BY <1>9, <1>10, StaysPut DEF WalkOf
  <2> QED
    BY <1>9, <1>10, <2>1 DEF VisibleOf
<1>11. ASSUME NEW q \in Paths, AtOrBelow(q, src)
       PROVE  VisibleOf(v, x, t, q) = None
  <2>1. q # src => src \in Ancestors(q)
    BY <1>11 DEF AtOrBelow, Ancestors
  <2> QED
    BY <1>8, <2>1, EntryFacts DEF VisibleOf, WalkOf
<1>12. ASSUME NEW q \in Paths, AtOrBelow(q, dst), Origin(q, src, dst) \in Paths
       PROVE  VisibleOf(v, x, t, q) = VisibleOf(u, w, t, Origin(q, src, dst))
  <2>1. PICK o \in Paths : o = Origin(q, src, dst)
    BY <1>12
  <2>2. AtOrBelow(o, src)
    BY <1>12, <2>1, OriginOf DEF AtOrBelow
  <2>3. ASSUME WalkOf(v, x, t, q), NEW r \in Ancestors(o)
        PROVE  StatOf(u, w, t, r) = Dir
    <3>1. r \in Paths /\ IsBelow(o, r)
      BY <2>3 DEF Ancestors
    <3>2. CASE AtOrBelow(r, src)
      <4>1. PICK p \in Paths : /\ AtOrBelow(p, dst) /\ IsBelow(q, p)
                               /\ Origin(p, src, dst) = r
        BY <1>12, <2>1, <3>1, <3>2, OriginBetween
      <4>2. StatOf(v, x, t, p) = Dir
        BY <2>3, <4>1 DEF WalkOf, Ancestors
      <4> QED
        BY <1>6, <3>1, <4>1, <4>2
    <3>3. CASE ~AtOrBelow(r, src)
      <4>1. IsBelow(src, r)
        BY <2>2, <3>1, <3>3, BelowLinear, PathIsSeq DEF AtOrBelow
      <4> QED
        BY <3>1, <4>1 DEF WalkOf, Ancestors
    <3> QED
      BY <3>2, <3>3
  <2>4. ASSUME WalkOf(u, w, t, o), NEW r \in Ancestors(q)
        PROVE  StatOf(v, x, t, r) = Dir
    <3>1. r \in Paths /\ IsBelow(q, r)
      BY <2>4 DEF Ancestors
    <3>2. CASE AtOrBelow(r, dst)
      <4>1. Origin(r, src, dst) \in Paths /\ IsBelow(o, Origin(r, src, dst))
        BY <2>1, <3>1, <3>2, OriginBelow
      <4>2. StatOf(u, w, t, Origin(r, src, dst)) = Dir
        BY <2>4, <4>1 DEF WalkOf, Ancestors
      <4> QED
        BY <1>6, <3>1, <3>2, <4>1, <4>2
    <3>3. CASE ~AtOrBelow(r, dst)
      <4>1. IsBelow(dst, r)
        BY <1>12, <3>1, <3>3, BelowLinear, PathIsSeq DEF AtOrBelow
      <4>2. r \in Ancestors(dst) /\ StatOf(u, w, t, r) = Dir
        BY <3>1, <4>1 DEF WalkOf, Ancestors
      <4>3. ~AtOrBelow(r, src)
        BY <4>2, StaysPut
      <4> QED
        BY <1>9, <3>1, <3>3, <4>2, <4>3
    <3> QED
      BY <3>2, <3>3
  <2>5. WalkOf(v, x, t, q) <=> WalkOf(u, w, t, o)
    BY <2>3, <2>4 DEF WalkOf
  <2>6. StatOf(v, x, t, q) = StatOf(u, w, t, o)
    BY <1>6, <1>12, <2>1
  <2> QED
    BY <2>1, <2>5, <2>6 DEF VisibleOf
<1>13. ASSUME NEW q \in Paths, AtOrBelow(q, dst),
              Origin(q, src, dst) \notin Paths
       PROVE  VisibleOf(v, x, t, q) = None
  BY <1>7, <1>13 DEF VisibleOf
<1>14. \A q \in Paths : ViewOf(v, x, t)[q] = VisibleOf(v, x, t, q)
  BY DEF ViewOf
<1>15. \A q \in Paths : ViewOf(u, w, t)[q] = VisibleOf(u, w, t, q)
  BY DEF ViewOf
<1> QED
  BY <1>10, <1>11, <1>12, <1>13, <1>14, <1>15 DEF Moved

LEMMA RenameStep ==
  ASSUME IInv, NEW src \in Paths, NEW dst \in Paths,
         NEW fail \in RenameFailures, Rename(src, dst, fail)
  PROVE  StepOK
<1> DEFINE srcMarker == StatLower(src) # None
           dstMarker == dst \in wh
<1>1. PICK copied : copied = CopyUp(src)
  OBVIOUS
<1>2. PICK made : made = MkdirAll(copied, Parent(dst))
  OBVIOUS
<1>3. PICK marked : marked = Mark(wh, src, srcMarker)
  OBVIOUS
<1>4. PICK swapped : swapped = ClearWhiteout(marked, dst)
  OBVIOUS
<1>5. /\ Sound(up, wh) /\ lower \in Trees /\ IsTree(lower)
      /\ wh \in SUBSET Paths /\ up \in Trees
      /\ WalkOf(up, wh, lower, src) /\ WalkOf(up, wh, lower, dst)
      /\ Visible(src) # None /\ Apart(src, dst)
      /\ UNCHANGED given /\ lower' = lower /\ "rename" \in Ops
  BY StateFacts DEF Rename, KernelAllowsRename, Apart, given, Ops
<1>6. /\ Sound(copied, wh) /\ src \notin wh
      /\ copied[src] # None => copied[src] = StatOf(copied, wh, lower, src)
      /\ \A q \in Paths :
           Same(StatOf(copied, wh, lower, q), StatOf(up, wh, lower, q))
  BY <1>1, <1>5, CopyUpStep
<1>7. WalkOf(copied, wh, lower, src) /\ WalkOf(copied, wh, lower, dst)
  <2>1. \A q \in Paths : StatOf(up, wh, lower, q) = Dir =>
                           StatOf(copied, wh, lower, q) = Dir
    BY <1>6, EntryFacts DEF Same
  <2> QED
    BY <1>5, <2>1 DEF WalkOf, Ancestors
<1>8. /\ Sound(made, wh)
      /\ \A q \in Ancestors(dst) : made[q] = Dir
      /\ \A q \in Paths : q \notin Ancestors(dst) => made[q] = copied[q]
      /\ \A q \in Paths : copied[q] # None => made[q] = copied[q]
      /\ \A q \in Paths :
           StatOf(made, wh, lower, q) = StatOf(copied, wh, lower, q)
  <2>1. Sound(copied, wh) /\ WalkOf(copied, wh, lower, dst)
    BY <1>6, <1>7
  <2>2. Prepared(made, copied, wh, lower, dst)
    BY <1>2, <2>1, MakeParents
  <2> QED
    BY <2>2 DEF Prepared
<1>9. \A q \in Paths :
        Same(StatOf(made, wh, lower, q), StatOf(up, wh, lower, q))
  BY <1>6, <1>8
<1>10. CASE CopyUpFails(src) /\ Reply("rename", src, dst, "EIO")
  BY <1>5, <1>10, CopyUpFailsStep
<1>11. ASSUME NEW errno \in Errnos \ {"OK"}, Reply("rename", src, dst, errno),
              up' \in {up, copied, made}, wh' = wh
       PROVE  StepOK
  <2>1. /\ Sound(up', wh')
        /\ \A q \in Paths :
             Same(StatOf(up', wh', lower, q), StatOf(up, wh, lower, q))
    BY <1>5, <1>6, <1>8, <1>9, <1>11 DEF Same
  <2> QED
    BY <1>5, <1>11, <2>1, FailStep
<1>12. marked = (IF srcMarker THEN wh \cup {src} ELSE wh) /\ src # dst
  BY <1>3, <1>5 DEF Mark, MakeWhiteout, Apart
<1>13. /\ Unmark(marked, src, srcMarker) = wh
       /\ Restore(Unmark(swapped, src, srcMarker), dst, dstMarker) = wh
  <2>1. swapped = marked \ {dst}
    BY <1>4 DEF ClearWhiteout
  <2>2. CASE srcMarker
    BY <1>6, <1>12, <2>1, <2>2 DEF Unmark, Restore, ClearWhiteout, MakeWhiteout
  <2>3. CASE ~srcMarker
    BY <1>12, <2>1, <2>3 DEF Unmark, Restore, ClearWhiteout, MakeWhiteout
  <2> QED
    BY <2>2, <2>3
<1>14. CASE /\ copied[src] # None
            /\ made[dst] # None => EmptyUpper(made, wh, dst)
            /\ up' = MoveTree(made, src, dst)
            /\ wh' = MoveMarkers(swapped, src, dst)
            /\ Reply("rename", src, dst, "OK")
  <2>1. PICK v, x : v = up' /\ x = wh'
    OBVIOUS
  <2>2. /\ v = MoveTree(made, src, dst)
        /\ x = MoveMarkers(marked \ {dst}, src, dst)
        /\ marked \in {wh, wh \cup {src}}
    BY <1>4, <1>12, <1>14, <2>1 DEF ClearWhiteout
  <2>3. made[src] # None
    BY <1>8, <1>14
  <2>4. Sound(v, x)
    BY <1>5, <1>8, <2>2, <2>3, MoveEntries
  <2>5. last' = [op |-> "rename", path |-> src, to |-> dst, errno |-> "OK"]
    BY <1>14 DEF Reply
  <2>6. ASSUME ~ShowsThrough(last')
        PROVE  /\ PosixAllows(View, last')
               /\ SameView(View', Posix(View, last'))
    <3>1. lower[src] # Dir /\ lower[dst] # Dir
      BY <2>5, <2>6, PathIsSeq DEF ShowsThrough
    <3>2. WalkOf(made, wh, lower, src) /\ WalkOf(made, wh, lower, dst)
      BY <1>7, <1>8 DEF WalkOf, Ancestors
    <3>3. lower[src] # None => src \in marked
      BY <1>6, <1>12 DEF StatLower
    <3>4. Moved(ViewOf(v, x, lower), ViewOf(made, wh, lower), src, dst)
      BY <1>5, <1>6, <1>8, <2>2, <2>3, <3>1, <3>2, <3>3, MovedView
    <3>5. \A q \in Paths :
            Same(VisibleOf(made, wh, lower, q), VisibleOf(up, wh, lower, q))
      BY <1>5, <1>9, SameStatSameView
    <3>6. \A q \in Paths : /\ ViewOf(v, x, lower)[q] = View'[q]
                           /\ Same(ViewOf(made, wh, lower)[q], View[q])
      <4>1. \A q \in Paths : View[q] = VisibleOf(up, wh, lower, q)
        BY ViewFacts DEF Seen
      <4>2. \A q \in Paths : View'[q] = VisibleOf(v, x, lower, q)
        BY <1>5, <2>1, ViewFacts DEF SeenNext
      <4> QED
        BY <3>5, <4>1, <4>2 DEF ViewOf
    <3>7. SameView(View', MoveTree(View, src, dst))
      <4>1. Moved(MoveTree(View, src, dst), View, src, dst)
        BY MovedTree
      <4>2. ASSUME NEW q \in Paths
            PROVE  Same(ViewOf(v, x, lower)[q], MoveTree(View, src, dst)[q])
        <5>1. CASE AtOrBelow(q, dst)
          BY <3>4, <3>6, <4>1, <5>1 DEF Moved, Same
        <5>2. CASE ~AtOrBelow(q, dst)
          BY <3>4, <3>6, <4>1, <5>2 DEF Moved, Same
        <5> QED
          BY <5>1, <5>2
      <4> QED
        BY <3>6, <4>2 DEF SameView, Same
    <3>8. Posix(View, last') = MoveTree(View, src, dst)
      BY <2>5 DEF Posix
    <3>9. ASSUME NEW q \in Paths, IsBelow(q, dst)
          PROVE  View[q] = None
      <4>1. made[q] = None
        <5>1. CASE made[dst] = None
          BY <1>8, <3>9, <5>1, EntryFacts, OnlyDirsHold DEF Sound
        <5>2. CASE made[dst] # None
          BY <1>14, <3>9, <5>2 DEF EmptyUpper, Below
        <5> QED
          BY <5>1, <5>2
      <4>2. lower[q] = None
        BY <1>5, <3>1, <3>9, OnlyDirsHold
      <4>3. StatOf(made, wh, lower, q) = None
        BY <4>1, <4>2 DEF StatOf
      <4>4. StatOf(up, wh, lower, q) = None
        BY <1>5, <1>9, <4>3, StatEntry, EntryFacts DEF Same
      <4> QED
        BY <4>4, ViewFacts DEF Seen, VisibleOf
    <3> QED
      BY <2>5, <3>7, <3>8, <3>9 DEF PosixAllows, Below
  <2> QED
    BY <1>5, <2>1, <2>4, <2>5, <2>6 DEF StepOK, Errnos
<1>15. ASSUME fail = "no", copied[src] # None,
              ~(made[dst] # None /\ ~EmptyUpper(made, wh, dst)),
              up' = MoveTree(made, src, dst),
              wh' = MoveMarkers(swapped, src, dst),
              Reply("rename", src, dst, "OK")
       PROVE  StepOK
  BY <1>14, <1>15
<1> QED
  BY <1>1, <1>2, <1>3, <1>4, <1>10, <1>11, <1>13, <1>15 DEF Rename, Errnos

-----------------------------------------------------------------------------
(* The theorems about UnionFS.                                             *)

LEMMA NextStep ==
  ASSUME IInv, Next
  PROVE  StepOK
<1>1. CASE ReadOnly
  BY <1>1, RefuseStep DEF ReadOnly, Errnos
<1>2. ASSUME NEW p \in Paths, NEW fail,
             Create(p, fail) \/ Mkdir(p, fail) \/ Symlink(p, fail)
      PROVE  StepOK
  <2>1. "create" \in Ops /\ "mkdir" \in Ops /\ "symlink" \in Ops
    BY DEF Ops
  <2>2. CASE Create(p, fail)
    BY <2>1, <2>2, NewStep DEF Create
  <2>3. CASE Mkdir(p, fail)
    BY <2>1, <2>3, NewStep DEF Mkdir
  <2>4. CASE Symlink(p, fail)
    BY <2>1, <2>4, NewStep DEF Symlink
  <2> QED
    BY <1>2, <2>2, <2>3, <2>4
<1>3. ASSUME NEW p \in Paths, NEW fail, Unlink(p, fail) \/ Rmdir(p, fail)
      PROVE  StepOK
  BY <1>3, RemoveStep DEF Unlink, Rmdir
<1>4. ASSUME NEW p \in Paths, NEW fail,
             \/ OpenWrite(p, fail)
             \/ \E truncate \in BOOLEAN : Setattr(p, truncate, fail)
      PROVE  StepOK
  BY <1>4, OpenWriteStep, SetattrStep
<1>5. ASSUME NEW p \in Paths, Write(p)
      PROVE  StepOK
  BY <1>5, WriteStep
<1>6. ASSUME NEW src \in Paths, NEW dst \in Paths, NEW fail \in RenameFailures,
             Rename(src, dst, fail)
      PROVE  StepOK
  BY <1>6, RenameStep
<1> QED
  BY <1>1, <1>2, <1>3, <1>4, <1>5, <1>6 DEF Next

LEMMA InitIInv == Init => IInv
<1> SUFFICES ASSUME Init PROVE IInv
  OBVIOUS
<1>1. up \in Trees /\ \A p \in Paths : up[p] = None
  BY DEF Init, Trees
<1>2. Sound(up, wh)
  BY <1>1 DEF Init, Sound, IsTree
<1>3. TypeOK
  BY <1>1 DEF Init, TypeOK, Ops, Errnos
<1> QED
  BY <1>2, <1>3 DEF IInv

LEMMA NextIInv == IInv /\ [Next]_vars => IInv'
<1> SUFFICES ASSUME IInv, [Next]_vars PROVE IInv'
  OBVIOUS
<1>1. CASE Next
  <2>1. StepOK
    BY <1>1, NextStep
  <2>2. up' \in Trees /\ wh' \in SUBSET Paths
    BY <2>1 DEF StepOK, Sound
  <2>3. writable' = writable /\ lower' = lower
    BY <2>1 DEF StepOK, given
  <2>4. last' \in [op : Ops, path : Paths \cup {<<>>}, to : Paths \cup {<<>>},
                   errno : Errnos]
    BY <2>1 DEF StepOK
  <2> QED
    BY <2>1, <2>2, <2>3, <2>4 DEF IInv, TypeOK, StepOK
<1>2. CASE UNCHANGED vars
  BY <1>2 DEF IInv, TypeOK, vars, given
<1> QED
  BY <1>1, <1>2

LEMMA SpecIInv == Spec => []IInv
BY InitIInv, NextIInv, PTL DEF Spec

\* Whatever calls come and whatever fails in them, the upper directory holds
\* files, directories and links, and markers of paths.
THEOREM TypeCorrect == Spec => []TypeOK
<1>1. IInv => TypeOK
  BY DEF IInv
<1> QED
  BY <1>1, SpecIInv, PTL

\* os.MkdirAll comes before every file, copy, marker and rename, and nothing
\* is removed or replaced that has something inside: what is in the upper
\* directory can be reached in it.
THEOREM UpperStaysTree == Spec => []UpperIsTree
<1>1. IInv => UpperIsTree
  BY DEF IInv, UpperIsTree, Sound
<1> QED
  BY <1>1, SpecIInv, PTL

\* Create, Mkdir, Symlink and Rename clear the marker of what they make, and
\* remove and Rename mark only what is gone from the upper directory, or undo
\* it: no marker hides an upper entry, not even after failures.
THEOREM NothingShadowed == Spec => []NoShadow
<1>1. IInv => NoShadow
  BY DEF IInv, NoShadow, Sound
<1> QED
  BY <1>1, SpecIInv, PTL

\* Readdir, which merges two listings, and Lookup, which asks for one name at
\* a time, agree in every reachable state.
THEOREM ListingIsLookup == Spec => []ReaddirIsLookup
<1>1. IInv => ReaddirIsLookup
  BY Listing
<1> QED
  BY <1>1, SpecIInv, PTL

\* Every error path of every handler undoes what users could see of it.
THEOREM FailuresAreSilent == Spec => ErrorLeavesView
<1>1. IInv /\ [Next]_vars =>
        [last'.errno # "OK" => SameView(View', View)]_vars
  <2> SUFFICES ASSUME IInv, Next, last'.errno # "OK"
               PROVE  SameView(View', View)
    OBVIOUS
  <2>1. Silent /\ lower' = lower
    BY NextStep DEF StepOK, given
  <2> QED
    BY <2>1, ViewFacts DEF SameView, Silent, Same
<1> QED
  BY <1>1, SpecIInv, PTL DEF Spec, ErrorLeavesView

\* Every success of every handler shows what POSIX would, unless a directory
\* of the commit shows through.
THEOREM SuccessesArePosix == Spec => SuccessIsPosix
<1>1. IInv /\ [Next]_vars =>
        [(last'.errno = "OK" /\ ~ShowsThrough(last')) =>
           PosixAllows(View, last') /\ SameView(View', Posix(View, last'))]_vars
  BY NextStep DEF StepOK
<1> QED
  BY <1>1, SpecIInv, PTL DEF Spec, SuccessIsPosix

-----------------------------------------------------------------------------
(* The upper directory after a crash.                                      *)

LEMMA CrashView ==
  ASSUME NEW d
  PROVE  ViewAt(d) = ViewOf(d.up, d.wh, lower)
<1>1. /\ \A u, w : Mounted(u, w)!None = None /\ Mounted(u, w)!Dir = Dir
      /\ \A u, w : Mounted(u, w)!Paths = Paths
  BY DEF Mounted!None, Mounted!Dir, None, Dir, Mounted!Paths, Paths
<1>2. \A u, w, p : Mounted(u, w)!Ancestors(p) = Ancestors(p)
  BY <1>1 DEF Mounted!Ancestors, Mounted!IsBelow, Ancestors, IsBelow
<1> QED
  BY <1>1, <1>2 DEF ViewAt, Mounted!View, Mounted!Visible, Mounted!Stat,
                    ViewOf, VisibleOf, StatOf, WalkOf

\* A directory on disk that differs from the mount's only where the call is
\* about: at c and e, and inside them.
Elsewhere(u, w, c, e) ==
  \A q \in Paths : ~AtOrBelow(q, c) /\ ~AtOrBelow(q, e) =>
                     StatOf(u, w, lower, q) = StatOf(up, wh, lower, q)
Unseen(u, w) ==
  \A q \in Paths : StatOf(u, w, lower, q) = StatOf(up, wh, lower, q)

LEMMA UntouchedView ==
  ASSUME NEW u, NEW w, NEW c \in Paths, NEW e \in Paths, Elsewhere(u, w, c, e),
         NEW p \in Paths, ~AtOrBelow(p, c), ~AtOrBelow(p, e)
  PROVE  VisibleOf(u, w, lower, p) = VisibleOf(up, wh, lower, p)
<1>1. \A q \in Ancestors(p) :
        q \in Paths /\ ~AtOrBelow(q, c) /\ ~AtOrBelow(q, e)
  BY BelowOrder, PathIsSeq DEF Ancestors, AtOrBelow
<1>2. WalkOf(u, w, lower, p) <=> WalkOf(up, wh, lower, p)
  BY <1>1 DEF WalkOf, Elsewhere
<1> QED
  BY <1>2 DEF VisibleOf, Elsewhere

LEMMA TouchedBy ==
  ASSUME NEW call, NEW c \in Paths, NEW e \in Paths, call.path = c,
         call.to = e \/ (call.to = <<>> /\ e = c)
  PROVE  \A p \in Paths : p \in Touched(call) <=> AtOrBelow(p, c) \/ AtOrBelow(p, e)
<1>1. c # <<>> /\ e # <<>>
  BY PathIsSeq
<1> QED
  BY <1>1 DEF Touched, AtOrBelow

\* What the theorems say of one directory d that a crash may leave.
LocalAt(d) ==
  /\ \A p \in Paths \ Touched(last') : ViewAt(d)[p] \in {View[p], View'[p]}
  /\ last'.op \in {"unlink", "rmdir"} => ViewAt(d) \in {View, View'}
KeepsAt(d) ==
  \A p \in Paths :
    up[p] = File("new") =>
      \/ d.up[p] = File("new")
      \/ last'.op = "unlink" /\ p = last'.path
      \/ last'.op = "rename" /\ p = last'.to
      \/ /\ last'.op = "rename" /\ (p = last'.path \/ IsBelow(p, last'.path))
         /\ d.up[Origin(p, last'.to, last'.path)] = File("new")

LEMMA LocalDisk ==
  ASSUME NEW c \in Paths, NEW e \in Paths, NEW d, last'.path = c,
         last'.to = e \/ (last'.to = <<>> /\ e = c),
         Elsewhere(d.up, d.wh, c, e)
  PROVE  \A p \in Paths \ Touched(last') : ViewAt(d)[p] \in {View[p], View'[p]}
<1> SUFFICES ASSUME NEW p \in Paths \ Touched(last')
             PROVE  ViewAt(d)[p] = View[p]
  OBVIOUS
<1>1. ~AtOrBelow(p, c) /\ ~AtOrBelow(p, e)
  BY TouchedBy
<1>2. VisibleOf(d.up, d.wh, lower, p) = VisibleOf(up, wh, lower, p)
  BY <1>1, UntouchedView
<1> QED
  BY <1>2, CrashView, ViewFacts DEF ViewOf, Seen

\* Create, Mkdir and Symlink.
LEMMA NewCrash ==
  ASSUME IInv, NEW op \in {"create", "mkdir", "symlink"}, NEW c \in Paths,
         NEW entry, NEW fail, New(op, c, entry, fail),
         last' = [op |-> op, path |-> c, to |-> <<>>, errno |-> "OK"],
         NEW d \in NewCuts(c, entry)
  PROVE  LocalAt(d) /\ KeepsAt(d)
<1>1. /\ Sound(up, wh) /\ up \in Trees /\ WalkOf(up, wh, lower, c)
      /\ VisibleOf(up, wh, lower, c) = None
  BY StateFacts DEF New
<1>2. up[c] = None
  BY <1>1 DEF VisibleOf, StatOf, Sound
<1>3. PICK made : made = MkdirAll(up, Parent(c))
  OBVIOUS
<1>4. /\ \A q \in Paths : StatOf(made, wh, lower, q) = StatOf(up, wh, lower, q)
      /\ \A q \in Paths : up[q] # None => made[q] = up[q]
  <2>1. Sound(up, wh) /\ WalkOf(up, wh, lower, c)
    BY <1>1
  <2>2. Prepared(made, up, wh, lower, c)
    BY <1>3, <2>1, MakeParents
  <2> QED
    BY <2>2 DEF Prepared
<1>5. PICK put : put = [made EXCEPT ![c] = entry]
  OBVIOUS
<1>6. \A q \in Paths : q # c => put[q] = made[q]
  BY <1>5
<1>7. /\ d.up \in {up, made, put} /\ d.wh \in {wh, wh \ {c}}
  BY <1>3, <1>5 DEF NewCuts, Disk, ClearWhiteout
<1>8. \A q \in Paths : q # c =>
        /\ StatOf(d.up, d.wh, lower, q) = StatOf(up, wh, lower, q)
        /\ up[q] # None => d.up[q] = up[q]
  <2>1. \A q \in Paths : q # c => (q \in d.wh <=> q \in wh)
    BY <1>7
  <2> QED
    BY <1>4, <1>6, <1>7, <2>1 DEF StatOf
<1>9. Elsewhere(d.up, d.wh, c, c)
  BY <1>8 DEF Elsewhere, AtOrBelow
<1>10. KeepsAt(d)
  BY <1>2, <1>8, EntryFacts DEF KeepsAt
<1> QED
  BY <1>9, <1>10, LocalDisk DEF LocalAt

\* Where Unlink or Rmdir succeeds, the marker alone already hides everything
\* that the call is to hide.
LEMMA RemoveCrash ==
  ASSUME IInv, NEW op \in {"unlink", "rmdir"}, NEW c \in Paths,
         NEW dir \in BOOLEAN, dir = (op = "rmdir"),
         NEW fail, Remove(op, c, dir, fail),
         last' = [op |-> op, path |-> c, to |-> <<>>, errno |-> "OK"],
         NEW d \in RemoveCuts(c)
  PROVE  LocalAt(d) /\ KeepsAt(d)
<1> DEFINE whiteout == StatLower(c) # None
<1>1. PICK marked : marked = Mark(wh, c, whiteout)
  OBVIOUS
<1>2. PICK all : all = MkdirAll(up, Parent(c))
  OBVIOUS
<1>3. PICK made : made = IF whiteout THEN all ELSE up
  OBVIOUS
<1>4. PICK cut : cut = [made EXCEPT ![c] = None]
  OBVIOUS
<1>5. /\ Sound(up, wh) /\ up \in Trees /\ WalkOf(up, wh, lower, c)
      /\ Stat(c) = StatOf(up, wh, lower, c)
      /\ Visible(c) = VisibleOf(up, wh, lower, c) /\ lower' = lower
  BY StateFacts DEF Remove, given
<1>6. /\ Stat(c) # None /\ dir = (Stat(c) = Dir)
      /\ dir => DirEntries(c) = {}
      /\ up' = cut /\ wh' = marked
  BY <1>1, <1>2, <1>3, <1>4 DEF Remove, Refuse, Reply
<1>7. /\ Sound(made, wh) /\ made \in Trees
      /\ \A q \in Paths : up[q] # None => made[q] = up[q]
      /\ \A q \in Paths : StatOf(made, wh, lower, q) = StatOf(up, wh, lower, q)
  <2>1. Sound(up, wh) /\ WalkOf(up, wh, lower, c)
    BY <1>5
  <2>2. /\ Sound(all, wh)
        /\ \A q \in Paths : StatOf(all, wh, lower, q) = StatOf(up, wh, lower, q)
        /\ \A q \in Paths : up[q] # None => all[q] = up[q]
    <3>1. Prepared(all, up, wh, lower, c)
      BY <1>2, <2>1, MakeParents
    <3> QED
      BY <3>1 DEF Prepared
  <2>3. Sound(made, wh)
    BY <1>3, <2>1, <2>2
  <2>4. made \in Trees
    BY <2>3 DEF Sound
  <2> QED
    BY <1>3, <2>2, <2>3, <2>4
<1>8. c \notin wh
  BY <1>6 DEF Stat
<1>9. marked = IF whiteout THEN wh \cup {c} ELSE wh
  BY <1>1 DEF Mark, MakeWhiteout
<1>10. \A q \in Paths : cut[q] = IF q = c THEN None ELSE made[q]
  BY <1>4, <1>7 DEF Trees
<1>11. \/ d.wh = wh /\ d.up \in {up, made}
       \/ d.wh = marked /\ d.up \in {made, cut}
  BY <1>1, <1>2, <1>3, <1>4 DEF RemoveCuts, Disk
<1>12. \A q \in Paths : q # c =>
         /\ StatOf(d.up, d.wh, lower, q) = StatOf(up, wh, lower, q)
         /\ StatOf(cut, marked, lower, q) = StatOf(up, wh, lower, q)
         /\ up[q] # None => d.up[q] = up[q]
  <2>1. \A q \in Paths : q # c => (q \in marked <=> q \in wh)
    BY <1>9
  <2>2. \A q \in Paths : q # c => (q \in d.wh <=> q \in wh)
    BY <1>11, <2>1
  <2>3. \A q \in Paths : q # c => StatOf(cut, marked, lower, q) = StatOf(up, wh, lower, q)
    BY <1>7, <1>10, <2>1 DEF StatOf
  <2>4. \A q \in Paths : q # c => StatOf(d.up, d.wh, lower, q) = StatOf(up, wh, lower, q)
    BY <1>7, <1>10, <1>11, <2>2 DEF StatOf
  <2>5. \A q \in Paths : q # c /\ up[q] # None => d.up[q] = up[q]
    BY <1>7, <1>10, <1>11
  <2> QED
    BY <2>3, <2>4, <2>5
<1>13. \/ StatOf(d.up, d.wh, lower, c) = None
       \/ StatOf(d.up, d.wh, lower, c) = StatOf(up, wh, lower, c)
  <2>1. CASE d.wh = wh /\ d.up \in {up, made}
    BY <1>7, <2>1
  <2>2. CASE d.wh = marked /\ d.up \in {made, cut}
    <3>1. CASE whiteout
      BY <1>9, <2>2, <3>1 DEF StatOf
    <3>2. CASE ~whiteout
      <4>1. lower[c] = None /\ marked = wh
        BY <1>8, <1>9, <3>2 DEF StatLower
      <4> QED
        BY <1>7, <1>8, <1>10, <2>2, <4>1 DEF StatOf
    <3> QED
      BY <3>1, <3>2
  <2> QED
    BY <1>11, <2>1, <2>2
<1>14. StatOf(cut, marked, lower, c) = None
  <2>1. CASE whiteout
    BY <1>9, <2>1 DEF StatOf
  <2>2. CASE ~whiteout
    BY <1>8, <1>9, <1>10, <2>2 DEF StatOf, StatLower
  <2> QED
    BY <2>1, <2>2
<1>15. \/ StatOf(up, wh, lower, c) # Dir
       \/ \A q \in Paths : IsBelow(q, c) => VisibleOf(up, wh, lower, q) = None
  <2>1. CASE Stat(c) = Dir
    <3>1. Visible(c) = Dir /\ DirEntries(c) = {}
      BY <1>5, <1>6, <2>1 DEF VisibleOf
    <3> QED
      BY <3>1, EmptyDirectory
  <2> QED
    BY <1>5, <2>1
<1>16. \A q \in Paths :
         VisibleOf(cut, marked, lower, q) =
           IF q = c THEN None ELSE VisibleOf(up, wh, lower, q)
  BY <1>5, <1>12, <1>14, <1>15, EntryFacts, OneChange
<1>17. View' = ViewOf(cut, marked, lower)
  BY <1>5, <1>6 DEF View, Visible, Stat, ViewOf, VisibleOf, WalkOf, StatOf
<1>18. View = ViewOf(up, wh, lower)
  BY DEF View, Visible, Stat, ViewOf, VisibleOf, WalkOf, StatOf
<1>19. ViewAt(d) \in {View, View'}
  <2>1. PICK u, w : u = d.up /\ w = d.wh
    OBVIOUS
  <2>2. CASE StatOf(u, w, lower, c) = None
    <3>1. \A q \in Paths : q # c => StatOf(u, w, lower, q) = StatOf(up, wh, lower, q)
      BY <1>12, <2>1
    <3>2. \A q \in Paths :
            VisibleOf(u, w, lower, q) =
              IF q = c THEN None ELSE VisibleOf(up, wh, lower, q)
      BY <1>5, <1>15, <2>2, <3>1, EntryFacts, OneChange
    <3>3. ViewOf(u, w, lower) = ViewOf(cut, marked, lower)
      BY <1>16, <3>2 DEF ViewOf
    <3> QED
      BY <1>17, <2>1, <3>3, CrashView
  <2>3. CASE StatOf(u, w, lower, c) = StatOf(up, wh, lower, c)
    <3>1. \A q \in Paths : StatOf(u, w, lower, q) = StatOf(up, wh, lower, q)
      BY <1>12, <2>1, <2>3
    <3>2. \A q \in Paths : VisibleOf(u, w, lower, q) = VisibleOf(up, wh, lower, q)
      BY <3>1 DEF VisibleOf, WalkOf, Ancestors
    <3>3. ViewOf(u, w, lower) = ViewOf(up, wh, lower)
      BY <3>2 DEF ViewOf
    <3> QED
      BY <1>18, <2>1, <3>3, CrashView
  <2> QED
    BY <1>13, <2>1, <2>2, <2>3
<1>20. Elsewhere(d.up, d.wh, c, c)
  BY <1>12 DEF Elsewhere, AtOrBelow
<1>21. KeepsAt(d)
  <2>1. op = "rmdir" => up[c] # File("new")
    <3>1. op = "rmdir" => Stat(c) = Dir
      BY <1>6
    <3> QED
      BY <1>8, <3>1, EntryFacts DEF Stat
  <2> QED
    BY <1>12, <2>1, EntryFacts DEF KeepsAt
<1> QED
  BY <1>19, <1>20, <1>21, LocalDisk DEF LocalAt

\* What is cut off in copyUp changes at most the entry it copies.
LEMMA CopyCrash ==
  ASSUME IInv, NEW c \in Paths, NEW e \in Paths, Visible(c) # None,
         NEW d \in CopyCuts(c)
  PROVE  /\ Elsewhere(d.up, d.wh, c, e)
         /\ \A p \in Paths : up[p] = File("new") => d.up[p] = File("new")
<1>1. PICK copied : copied = CopyUp(c)
  OBVIOUS
<1>2. PICK made : made = MkdirAll(up, Parent(c))
  OBVIOUS
<1>3. PICK part : part = [copied EXCEPT ![c] = File("part")]
  OBVIOUS
<1>4. /\ d.wh = wh
      /\ d.up \in {up, copied} \/ (NeedsCopy(c) /\ d.up \in {made, part})
  <2>1. CASE NeedsCopy(c)
    BY <1>1, <1>2, <1>3, <2>1 DEF CopyCuts, Disk
  <2>2. CASE ~NeedsCopy(c)
    <3>1. d \in {Disk(up, wh), Disk(copied, wh)}
      BY <1>1, <2>2 DEF CopyCuts
    <3> QED
      BY <3>1 DEF Disk
  <2> QED
    BY <2>1, <2>2
<1>5. Prepared(made, up, wh, lower, c)
  <2>1. Sound(up, wh) /\ WalkOf(up, wh, lower, c)
    BY StateFacts, CopyUpStep
  <2> QED
    BY <1>2, <2>1, MakeParents
<1>6. \A q \in Paths : q # c => StatOf(copied, wh, lower, q) = StatOf(up, wh, lower, q)
  BY <1>1, CopyUpStep
<1>7. \A q \in Paths : q # c => part[q] = copied[q]
  BY <1>3
<1>8. Elsewhere(d.up, d.wh, c, e)
  <2> SUFFICES ASSUME NEW q \in Paths, q # c
               PROVE  StatOf(d.up, wh, lower, q) = StatOf(up, wh, lower, q)
    BY <1>4 DEF Elsewhere, AtOrBelow
  <2>1. StatOf(part, wh, lower, q) = StatOf(copied, wh, lower, q)
    BY <1>7 DEF StatOf
  <2>2. StatOf(made, wh, lower, q) = StatOf(up, wh, lower, q)
    BY <1>5 DEF Prepared
  <2> QED
    BY <1>4, <1>6, <2>1, <2>2
<1>9. ASSUME NEW p \in Paths, up[p] = File("new")
      PROVE  d.up[p] = File("new")
  <2>1. up[p] # None
    BY <1>9, EntryFacts
  <2>2. made[p] = up[p]
    BY <1>5, <2>1 DEF Prepared
  <2>3. NeedsCopy(c) => p # c
    BY <2>1 DEF NeedsCopy
  <2>4. copied[p] = up[p]
    BY <1>1, <1>2, <2>2, <2>3 DEF CopyUp
  <2> QED
    BY <1>4, <1>7, <1>9, <2>2, <2>3, <2>4
<1> QED
  BY <1>8, <1>9

\* Coming from where it went, an entry is where it was.
LEMMA OriginInverse ==
  ASSUME NEW src \in Paths, NEW dst \in Paths, NEW p \in Paths,
         AtOrBelow(p, src), Len(dst) + (Len(p) - Len(src)) <= MaxDepth
  PROVE  /\ Origin(p, dst, src) \in Paths
         /\ AtOrBelow(Origin(p, dst, src), dst)
         /\ Origin(Origin(p, dst, src), src, dst) = p
<1>1. /\ src \in Seq(Names) /\ dst \in Seq(Names) /\ p \in Seq(Names)
      /\ Len(src) \in Nat /\ Len(dst) \in Nat /\ Len(p) \in Nat
      /\ Len(dst) >= 1 /\ MaxDepth \in Nat
  BY PathIsSeq, DepthAssumption
<1>2. PICK o : o = Origin(p, dst, src)
  OBVIOUS
<1>3. Spells(o, dst, p, src)
  BY <1>2, OriginNames
<1>4. Len(p) >= Len(src) /\ \A i \in 1..Len(src) : p[i] = src[i]
  <2>1. \A i \in 1..Len(src) : p[i] = src[i]
    BY <1>1, BelowByNames DEF AtOrBelow
  <2> QED
    BY <1>1, <2>1 DEF AtOrBelow, IsBelow
<1>5. o \in Paths
  <2>1. o \in Seq(Names) /\ Len(o) \in 1..MaxDepth
    BY <1>1, <1>3, <1>4 DEF Spells
  <2> QED
    BY <2>1, SeqIsPath
<1>6. AtOrBelow(o, dst)
  BY <1>2, OriginOf DEF AtOrBelow
<1>7. PICK n : n = Origin(o, src, dst)
  OBVIOUS
<1>8. Spells(n, src, o, dst)
  BY <1>5, <1>6, <1>7, OriginNames
<1>9. n \in Seq(Names) /\ Len(n) = Len(p)
  BY <1>1, <1>3, <1>4, <1>8 DEF Spells
<1>10. \A i \in 1..Len(p) : n[i] = p[i]
  <2> SUFFICES ASSUME NEW i \in 1..Len(p) PROVE n[i] = p[i]
    OBVIOUS
  <2>1. CASE i <= Len(src)
    BY <1>1, <1>4, <1>8, <2>1 DEF Spells
  <2>2. CASE i > Len(src)
    <3>1. PICK j : j = Len(dst) + (i - Len(src))
      OBVIOUS
    <3>2. /\ j \in 1..Len(o) /\ j > Len(dst) /\ j - Len(dst) = i - Len(src)
          /\ i \in 1..Len(n) /\ i - Len(src) = j - Len(dst)
      BY <1>1, <1>3, <1>4, <1>9, <2>2, <3>1 DEF Spells
    <3>3. o[j] = p[i]
      BY <1>3, <2>2, <3>2 DEF Spells
    <3>4. n[i] = o[j]
      BY <1>8, <2>2, <3>2 DEF Spells
    <3> QED
      BY <3>3, <3>4
  <2> QED
    BY <1>1, <2>1, <2>2
<1>11. n = p
  BY <1>1, <1>9, <1>10, SeqEqual
<1> QED
  BY <1>2, <1>5, <1>6, <1>7, <1>11

\* A rename is on disk before or after it happens, marker by marker.
LEMMA RenameCrash ==
  ASSUME IInv, NEW src \in Paths, NEW dst \in Paths,
         NEW fail \in RenameFailures, Rename(src, dst, fail),
         last' = [op |-> "rename", path |-> src, to |-> dst, errno |-> "OK"],
         NEW d \in RenameCuts(src, dst)
  PROVE  LocalAt(d) /\ KeepsAt(d)
<1> DEFINE srcMarker == StatLower(src) # None
<1>1. PICK copied : copied = CopyUp(src)
  OBVIOUS
<1>2. PICK made : made = MkdirAll(copied, Parent(dst))
  OBVIOUS
<1>3. PICK marked : marked = Mark(wh, src, srcMarker)
  OBVIOUS
<1>4. PICK v, x : v = MoveTree(made, src, dst) /\ x = MoveMarkers(marked \ {dst}, src, dst)
  OBVIOUS
<1>5. /\ Sound(up, wh) /\ WalkOf(up, wh, lower, src) /\ WalkOf(up, wh, lower, dst)
      /\ Visible(src) # None /\ Apart(src, dst) /\ RenameFits(src, dst)
  BY StateFacts DEF Rename, KernelAllowsRename, Apart
<1>6. ~(made[dst] # None /\ ~EmptyUpper(made, wh, dst))
  BY <1>1, <1>2 DEF Rename, Reply
<1>7. /\ Sound(copied, wh)
      /\ \A q \in Paths :
           q # src => StatOf(copied, wh, lower, q) = StatOf(up, wh, lower, q)
      /\ \A q \in Paths :
           Same(StatOf(copied, wh, lower, q), StatOf(up, wh, lower, q))
  BY <1>1, <1>5, CopyUpStep
<1>8. Prepared(made, copied, wh, lower, dst)
  <2>1. \A q \in Paths : StatOf(up, wh, lower, q) = Dir =>
                           StatOf(copied, wh, lower, q) = Dir
    BY <1>7, EntryFacts DEF Same
  <2>2. Sound(copied, wh) /\ WalkOf(copied, wh, lower, dst)
    BY <1>5, <1>7, <2>1 DEF WalkOf, Ancestors
  <2> QED
    BY <1>2, <2>2, MakeParents
<1>9. \A q \in Paths :
        q # src => StatOf(made, wh, lower, q) = StatOf(up, wh, lower, q)
  BY <1>7, <1>8 DEF Prepared
<1>10. \A p \in Paths : up[p] = File("new") => made[p] = File("new")
  <2>1. PICK k : k = Disk(copied, wh)
    OBVIOUS
  <2>2. k \in CopyCuts(src) /\ k.up = copied
    BY <1>1, <2>1 DEF CopyCuts, Disk
  <2>3. \A p \in Paths : up[p] = File("new") => k.up[p] = File("new")
    BY <1>5, <2>2, CopyCrash
  <2> QED
    BY <1>8, <2>2, <2>3, EntryFacts DEF Prepared
<1>11. marked \in {wh, wh \cup {src}}
  BY <1>3 DEF Mark, MakeWhiteout
<1>12. CASE d \in CopyCuts(src)
  <2>1. /\ Elsewhere(d.up, d.wh, src, dst)
        /\ \A p \in Paths : up[p] = File("new") => d.up[p] = File("new")
    BY <1>5, <1>12, CopyCrash
  <2> QED
    BY <2>1, LocalDisk DEF LocalAt, KeepsAt
<1>13. CASE d.up = made /\ d.wh \in {wh, marked, marked \ {dst}}
  <2>1. ASSUME NEW q \in Paths, q # src, q # dst
        PROVE  StatOf(made, d.wh, lower, q) = StatOf(up, wh, lower, q)
    <3>1. q \in d.wh <=> q \in wh
      BY <1>11, <1>13, <2>1
    <3> QED
      BY <1>9, <2>1, <3>1 DEF StatOf
  <2>2. Elsewhere(d.up, d.wh, src, dst)
    BY <1>13, <2>1 DEF Elsewhere, AtOrBelow
  <2> QED
    BY <1>10, <1>13, <2>2, LocalDisk DEF LocalAt, KeepsAt
<1>14. CASE d.up = v /\ d.wh = x
  <2>1. Moved(v, made, src, dst)
    BY <1>4, MovedTree
  <2>2. MovedMarks(x, wh, src, dst)
    BY <1>4, <1>5, <1>11, MovedMarkers
  <2>3. ASSUME NEW q \in Paths, ~AtOrBelow(q, src), ~AtOrBelow(q, dst)
        PROVE  StatOf(v, x, lower, q) = StatOf(up, wh, lower, q)
    <3>1. v[q] = made[q] /\ (q \in x <=> q \in wh) /\ q # src
      BY <2>1, <2>2, <2>3 DEF Moved, MovedMarks, AtOrBelow
    <3> QED
      BY <1>9, <3>1 DEF StatOf
  <2>4. Elsewhere(d.up, d.wh, src, dst)
    BY <1>14, <2>3 DEF Elsewhere
  <2>5. ASSUME NEW p \in Paths, up[p] = File("new"), p # dst
        PROVE  \/ v[p] = File("new")
               \/ /\ p = src \/ IsBelow(p, src)
                  /\ v[Origin(p, dst, src)] = File("new")
    <3>1. made[p] = File("new") /\ up[p] # None /\ made[p] # None
      BY <1>10, <2>5, EntryFacts
    <3>2. ~AtOrBelow(p, dst)
      <4>1. ASSUME IsBelow(p, dst) PROVE FALSE
        <5>1. IsTree(made)
          BY <1>8 DEF Prepared, Sound
        <5>2. made[dst] # None
          BY <3>1, <4>1, <5>1, OnlyDirsHold, EntryFacts
        <5> QED
          BY <1>6, <3>1, <4>1, <5>2 DEF EmptyUpper, Below
      <4> QED
        BY <2>5, <4>1 DEF AtOrBelow
    <3>3. CASE AtOrBelow(p, src)
      <4>1. Len(dst) + (Len(p) - Len(src)) <= MaxDepth
        <5>1. /\ Len(dst) \in Nat /\ Len(p) \in Nat /\ Len(src) \in Nat
              /\ MaxDepth \in Nat /\ Len(dst) <= MaxDepth
          BY PathIsSeq, DepthAssumption
        <5>2. CASE p = src
          BY <5>1, <5>2
        <5>3. CASE IsBelow(p, src)
          <6>1. Len(dst) + Len(p) - Len(src) <= MaxDepth
            BY <1>5, <3>1, <5>3 DEF RenameFits, Below
          <6> QED
            BY <5>1, <6>1
        <5> QED
          BY <3>3, <5>2, <5>3 DEF AtOrBelow
      <4>2. PICK o : o = Origin(p, dst, src)
        OBVIOUS
      <4>3. o \in Paths /\ AtOrBelow(o, dst) /\ Origin(o, src, dst) = p
        BY <3>3, <4>1, <4>2, OriginInverse
      <4>4. v[o] = made[p]
        BY <2>1, <4>3 DEF Moved
      <4> QED
        BY <3>1, <3>3, <4>2, <4>4 DEF AtOrBelow
    <3>4. CASE ~AtOrBelow(p, src)
      BY <2>1, <3>1, <3>2, <3>4 DEF Moved
    <3> QED
      BY <3>3, <3>4
  <2>6. KeepsAt(d)
    BY <1>14, <2>5 DEF KeepsAt
  <2> QED
    BY <2>4, <2>6, LocalDisk DEF LocalAt
<1> QED
  <2>1. \/ d \in CopyCuts(src)
        \/ d \in {Disk(made, wh), Disk(made, marked), Disk(made, marked \ {dst}),
                  Disk(v, x)}
    BY <1>1, <1>2, <1>3, <1>4 DEF RenameCuts, ClearWhiteout
  <2>2. CASE d \in {Disk(made, wh), Disk(made, marked), Disk(made, marked \ {dst}),
                    Disk(v, x)}
    BY <1>13, <1>14, <2>2 DEF Disk
  <2> QED
    BY <1>12, <2>1, <2>2

\* Setattr and Open for writing, whose copies are cut off.
LEMMA CopyingCrash ==
  ASSUME IInv, NEW op \in {"setattr", "truncate", "open"}, NEW c \in Paths,
         Visible(c) # None,
         last' = [op |-> op, path |-> c, to |-> <<>>, errno |-> "OK"],
         NEW d \in CopyCuts(c)
  PROVE  LocalAt(d) /\ KeepsAt(d)
<1>1. /\ Elsewhere(d.up, d.wh, c, c)
      /\ \A p \in Paths : up[p] = File("new") => d.up[p] = File("new")
  BY CopyCrash
<1>2. \A p \in Paths \ Touched(last') : ViewAt(d)[p] \in {View[p], View'[p]}
  BY <1>1, LocalDisk
<1> QED
  BY <1>1, <1>2 DEF LocalAt, KeepsAt

\* One handler after the other.
LEMMA NextCrash ==
  ASSUME IInv, Next, NEW d \in Cuts(last')
  PROVE  LocalAt(d) /\ KeepsAt(d)
<1>1. last'.errno = "OK"
  BY DEF Cuts
<1>2. CASE ReadOnly
  BY <1>1, <1>2 DEF ReadOnly, Refuse, Reply
<1>3. ASSUME NEW op \in {"create", "mkdir", "symlink"}, NEW c \in Paths,
             NEW entry, NEW fail, New(op, c, entry, fail),
             \/ op = "create" /\ entry = File("new")
             \/ op = "mkdir" /\ entry = Dir
             \/ op = "symlink" /\ entry = Link("new")
      PROVE  LocalAt(d) /\ KeepsAt(d)
  <2>1. last' = [op |-> op, path |-> c, to |-> <<>>, errno |-> "OK"]
    BY <1>1, <1>3 DEF New, Refuse, Reply
  <2>2. d \in NewCuts(c, entry)
    BY <1>3, <2>1 DEF Cuts
  <2> QED
    BY <1>3, <2>1, <2>2, NewCrash
<1>4. ASSUME NEW op \in {"unlink", "rmdir"}, NEW c \in Paths,
             NEW dir \in BOOLEAN, dir = (op = "rmdir"),
             NEW fail, Remove(op, c, dir, fail)
      PROVE  LocalAt(d) /\ KeepsAt(d)
  <2>1. last' = [op |-> op, path |-> c, to |-> <<>>, errno |-> "OK"]
    BY <1>1, <1>4 DEF Remove, Refuse, Reply
  <2>2. d \in RemoveCuts(c)
    BY <1>4, <2>1 DEF Cuts
  <2> QED
    BY <1>4, <2>1, <2>2, RemoveCrash
<1>5. ASSUME NEW c \in Paths, NEW fail, OpenWrite(c, fail)
      PROVE  LocalAt(d) /\ KeepsAt(d)
  <2>1. last' = [op |-> "open", path |-> c, to |-> <<>>, errno |-> "OK"]
    BY <1>1, <1>5 DEF OpenWrite, Reply
  <2>2. d \in CopyCuts(c)
    BY <2>1 DEF Cuts
  <2>3. Visible(c) # None
    BY <1>5 DEF OpenWrite, None
  <2> QED
    BY <2>1, <2>2, <2>3, CopyingCrash
<1>6. ASSUME NEW c \in Paths, NEW truncate \in BOOLEAN, NEW fail,
             Setattr(c, truncate, fail)
      PROVE  LocalAt(d) /\ KeepsAt(d)
  <2>1. PICK op \in {"setattr", "truncate"} :
          last' = [op |-> op, path |-> c, to |-> <<>>, errno |-> "OK"]
    BY <1>1, <1>6 DEF Setattr, Refuse, Reply
  <2>2. d \in CopyCuts(c)
    BY <2>1 DEF Cuts
  <2>3. Visible(c) # None
    BY <1>6 DEF Setattr
  <2> QED
    BY <2>1, <2>2, <2>3, CopyingCrash
<1>7. ASSUME NEW c \in Paths, Write(c)
      PROVE  LocalAt(d) /\ KeepsAt(d)
  BY <1>7 DEF Write, Reply, Cuts
<1>8. ASSUME NEW src \in Paths, NEW dst \in Paths, NEW fail \in RenameFailures,
             Rename(src, dst, fail)
      PROVE  LocalAt(d) /\ KeepsAt(d)
  <2>1. last' = [op |-> "rename", path |-> src, to |-> dst, errno |-> "OK"]
    BY <1>1, <1>8 DEF Rename, Reply
  <2>2. d \in RenameCuts(src, dst)
    BY <2>1 DEF Cuts
  <2> QED
    BY <1>8, <2>1, <2>2, RenameCrash
<1> QED
  BY <1>2, <1>3, <1>4, <1>5, <1>6, <1>7, <1>8
     DEF Next, Create, Mkdir, Symlink, Unlink, Rmdir

-----------------------------------------------------------------------------
(* The theorems about crashes.                                             *)

\* The daemon may die between any two system calls of a handler that was to
\* succeed: the next mount shows every path that the call is not about as it
\* was or as it was to be, and an Unlink or Rmdir has happened or has not.
THEOREM CrashesAreLocal == Spec => CrashIsLocal
<1>1. IInv /\ [Next]_vars =>
        [\A d \in Cuts(last') :
           /\ \A p \in Paths \ Touched(last') :
                ViewAt(d)[p] \in {View[p], View'[p]}
           /\ last'.op \in {"unlink", "rmdir"} =>
                ViewAt(d) \in {View, View'}]_vars
  BY NextCrash DEF LocalAt
<1> QED
  BY <1>1, SpecIInv, PTL DEF Spec, CrashIsLocal

\* Wherever a handler is cut off, what was written to the upper directory is
\* there, but for what an Unlink removes and a Rename replaces.
THEOREM CrashesKeepData == Spec => CrashKeepsData
<1>1. IInv /\ [Next]_vars =>
        [\A d \in Cuts(last') : \A p \in Paths :
           up[p] = File("new") =>
             \/ d.up[p] = File("new")
             \/ last'.op = "unlink" /\ p = last'.path
             \/ last'.op = "rename" /\ p = last'.to
             \/ /\ last'.op = "rename" /\ (p = last'.path \/ IsBelow(p, last'.path))
                /\ d.up[Origin(p, last'.to, last'.path)] = File("new")]_vars
  BY NextCrash DEF KeepsAt
<1> QED
  BY <1>1, SpecIInv, PTL DEF Spec, CrashKeepsData

-----------------------------------------------------------------------------
(* The upper directory as a commit: what the library lists of it, in       *)
(* whatever order.                                                         *)

Commits == INSTANCE FoldProofs WITH op <- CommitPath

Records == [path : Paths, entry : Entries \cup {Whiteout}]

\* What is listed at the paths of P.
ListOf(d, P) ==
  {e \in Records : /\ e.path \in P
                   /\ \/ e.path \in d.wh /\ e.entry = Whiteout
                      \/ d.up[e.path] # None /\ e.entry = d.up[e.path]}

LEMMA CommitFold ==
  ASSUME NEW d
  PROVE  CommitOf(d) = Commits!Fold(d, <<>>, CommitOrder)
BY DEF CommitOf, Commits!Fold, Commits!Follows, Commits!Greatest,
   Seqs!FoldLeft, Seqs!MapThenFoldSet, Seqs!Max

LEMMA AppendToSet ==
  ASSUME NEW S, NEW list \in Seq(S), NEW e \in S
  PROVE  /\ Append(list, e) \in Seq(S)
         /\ Seqs!ToSet(Append(list, e)) = Seqs!ToSet(list) \cup {e}
<1>1. PICK n \in Nat : n = Len(list)
  OBVIOUS
<1>2. PICK new : new = Append(list, e) /\ new \in Seq(S)
  <2>1. Append(list, e) \in Seq(S)
    OBVIOUS
  <2> QED
    BY <2>1
<1>3. /\ DOMAIN list = 1..n /\ DOMAIN new = 1..(n + 1)
      /\ new[n + 1] = e /\ \A i \in 1..n : new[i] = list[i]
  BY <1>1, <1>2
<1>4. Seqs!ToSet(new) = Seqs!ToSet(list) \cup {e}
  <2>1. \A i \in 1..(n + 1) : i \in 1..n \/ i = n + 1
    BY <1>1
  <2>2. \A i \in 1..n : i \in 1..(n + 1)
    BY <1>1
  <2>3. n + 1 \in 1..(n + 1)
    BY <1>1
  <2>4. \A x : x \in Seqs!ToSet(new) <=> x \in Seqs!ToSet(list) \/ x = e
    BY <1>3, <2>1, <2>2, <2>3 DEF Seqs!ToSet
  <2> QED
    BY <2>4
<1> QED
  BY <1>2, <1>4

LEMMA WhiteoutIsNoEntry ==
  /\ Whiteout \notin Entries /\ Opaque \notin Entries
  /\ Whiteout # None /\ Whiteout # Opaque
BY DEF Whiteout, Opaque, Entries, None, Dir, File, Link, Fifo

LEMMA CommitPathLists ==
  ASSUME NEW d, d.up \in Trees, d.wh \in SUBSET Paths,
         NEW list \in Seq(Records), NEW p \in Paths
  PROVE  /\ CommitPath(d, list, p) \in Seq(Records)
         /\ Seqs!ToSet(CommitPath(d, list, p)) =
              Seqs!ToSet(list) \cup ListOf(d, {p})
<1> DEFINE w == [path |-> p, entry |-> Whiteout]
           e == [path |-> p, entry |-> d.up[p]]
<1>1. PICK marked : marked = IF p \in d.wh THEN Append(list, w) ELSE list
  OBVIOUS
<1>2. CommitPath(d, list, p) = IF d.up[p] = None THEN marked ELSE Append(marked, e)
  BY <1>1 DEF CommitPath
<1>3. w \in Records /\ (d.up[p] # None => e \in Records)
  BY TreeFacts DEF Records
<1>4. \A x \in Records : x = [path |-> x.path, entry |-> x.entry]
  BY DEF Records
<1>5. \A x : x \in ListOf(d, {p}) <=> \/ p \in d.wh /\ x = w
                                      \/ d.up[p] # None /\ x = e
  BY <1>3, <1>4 DEF ListOf
<1> HIDE DEF w, e
<1>6. /\ marked \in Seq(Records)
      /\ Seqs!ToSet(marked) = Seqs!ToSet(list) \cup (IF p \in d.wh THEN {w} ELSE {})
  BY <1>1, <1>3, AppendToSet
<1>7. /\ CommitPath(d, list, p) \in Seq(Records)
      /\ Seqs!ToSet(CommitPath(d, list, p)) =
           Seqs!ToSet(marked) \cup (IF d.up[p] = None THEN {} ELSE {e})
  BY <1>2, <1>3, <1>6, AppendToSet
<1>8. ListOf(d, {p}) = (IF p \in d.wh THEN {w} ELSE {})
                       \cup (IF d.up[p] = None THEN {} ELSE {e})
  <2>1. PICK A : A = IF p \in d.wh THEN {w} ELSE {}
    OBVIOUS
  <2>2. PICK B : B = IF d.up[p] = None THEN {} ELSE {e}
    OBVIOUS
  <2>3. \A x : x \in ListOf(d, {p}) <=> x \in A \/ x \in B
    BY <1>5, <2>1, <2>2
  <2> HIDE DEF ListOf
  <2>4. ListOf(d, {p}) = A \cup B
    BY <2>3
  <2> QED
    BY <2>1, <2>2, <2>4
<1> QED
  BY <1>6, <1>7, <1>8

LEMMA CommitLists ==
  ASSUME NEW d, d.up \in Trees, d.wh \in SUBSET Paths
  PROVE  /\ CommitOf(d) \in Seq(Records)
         /\ Seqs!ToSet(CommitOf(d)) = ListOf(d, Paths)
<1> DEFINE First(k) == {CommitOrder[i] : i \in 1..k}
           n == Len(CommitOrder)
           T == [k \in 0..n |->
                   {l \in Seq(Records) : Seqs!ToSet(l) = ListOf(d, First(k))}]
<1>1. /\ n \in Nat /\ DOMAIN CommitOrder = 1..n
      /\ \A i \in 1..n : CommitOrder[i] \in Paths
  BY OrderAssumption
<1>2. First(n) = Paths
  BY <1>1, OrderAssumption
<1>3. <<>> \in T[0]
  <2>1. First(0) = {} /\ 0 \in 0..n
    BY <1>1
  <2>2. PICK none : none = <<>> /\ DOMAIN none = {}
    OBVIOUS
  <2>3. none \in Seq(Records) /\ Seqs!ToSet(none) = {}
    BY <2>2 DEF Seqs!ToSet
  <2>4. ListOf(d, First(0)) = {}
    BY <2>1 DEF ListOf
  <2> HIDE DEF First
  <2> QED
    BY <2>1, <2>2, <2>3, <2>4
<1>4. ASSUME NEW k \in 1..n, NEW l \in T[k - 1]
      PROVE  CommitPath(d, l, CommitOrder[k]) \in T[k]
  <2>1. k \in 0..n /\ k - 1 \in 0..n /\ k \in Nat
    BY <1>1
  <2>2. PICK p \in Paths : p = CommitOrder[k]
    BY <1>1
  <2>3. First(k) = First(k - 1) \cup {p}
    BY <2>1, <2>2
  <2> HIDE DEF First
  <2>4. l \in Seq(Records) /\ Seqs!ToSet(l) = ListOf(d, First(k - 1))
    BY <2>1
  <2>5. PICK new : new = CommitPath(d, l, p)
    OBVIOUS
  <2>6. new \in Seq(Records) /\ Seqs!ToSet(new) = Seqs!ToSet(l) \cup ListOf(d, {p})
    BY <2>4, <2>5, CommitPathLists
  <2>7. ListOf(d, First(k)) = ListOf(d, First(k - 1)) \cup ListOf(d, {p})
    BY <2>3 DEF ListOf
  <2>8. Seqs!ToSet(new) = ListOf(d, First(k))
    BY <2>4, <2>6, <2>7
  <2> QED
    BY <2>1, <2>2, <2>5, <2>6, <2>8
<1>5. CommitOf(d) \in T[n]
  <2> HIDE DEF T, n
  <2>1. Commits!Fold(d, <<>>, CommitOrder) \in T[n]
    BY <1>1, <1>3, <1>4, Commits!FoldInduct
  <2> QED
    BY <2>1, CommitFold
<1>6. n \in 0..n
  BY <1>1
<1> HIDE DEF First, n
<1>7. CommitOf(d) \in Seq(Records) /\ Seqs!ToSet(CommitOf(d)) = ListOf(d, First(n))
  BY <1>5, <1>6
<1> QED
  BY <1>2, <1>7

\* The commit of an upper directory in the reference's terms.
LEMMA CommitFacts ==
  ASSUME NEW d, Sound(d.up, d.wh), NEW layer, layer = CommitOf(d)
  PROVE  /\ IsSnapshot(layer)
         /\ \A i \in DOMAIN layer : ~IsMarker(layer[i]) => layer[i].entry \in Entries
         /\ ~Has(layer, <<>>, Opaque)
         /\ \A p \in Paths :
              /\ OwnEntry(layer, p) = d.up[p]
              /\ Has(layer, p, Whiteout) <=> p \in d.wh
              /\ ~Has(layer, p, Opaque)
              /\ HasInside(layer, p) => d.up[p] = Dir
<1>1. /\ layer \in Seq(Records) /\ Seqs!ToSet(layer) = ListOf(d, Paths)
      /\ d.up \in Trees /\ d.wh \in SUBSET Paths /\ IsTree(d.up)
  BY CommitLists DEF Sound
<1>2. \A e \in Seqs!ToSet(layer) :
        /\ e \in Records /\ e = [path |-> e.path, entry |-> e.entry]
        /\ e.path \in Paths /\ e.path # <<>> /\ e.entry \in Entries \cup {Whiteout}
        /\ \/ e.path \in d.wh /\ e.entry = Whiteout
           \/ d.up[e.path] # None /\ e.entry = d.up[e.path]
  BY <1>1, PathIsSeq DEF ListOf, Records
<1>3. \A p \in Paths : d.up[p] \in Entries \cup {None}
  BY <1>1, TreeFacts
<1>4. \A e : e \in Plain(layer) <=>
        /\ e \in Seqs!ToSet(layer)
        /\ d.up[e.path] # None /\ e.entry = d.up[e.path]
  BY <1>2, <1>3, WhiteoutIsNoEntry DEF Plain, IsMarker
<1>5. \A i \in DOMAIN layer : layer[i] \in Seqs!ToSet(layer)
  BY DEF Seqs!ToSet
<1>6. IsSnapshot(layer)
  <2>1. layer \in Seq(Seqs!ToSet(layer))
    <3>1. Len(layer) \in Nat /\ DOMAIN layer = 1..Len(layer)
          /\ layer = [i \in 1..Len(layer) |-> layer[i]]
      BY <1>1
    <3> QED
      BY <1>5, <3>1
  <2>2. \A e \in Seqs!ToSet(layer) :
          /\ e = [path |-> e.path, entry |-> e.entry]
          /\ e.path \in PathsAndRoot /\ e.entry # None
          /\ e.entry = Whiteout => e.path # <<>>
    BY <1>2, EntryFacts, WhiteoutIsNoEntry DEF PathsAndRoot
  <2>3. ASSUME NEW e \in Plain(layer), NEW f \in Plain(layer)
        PROVE  /\ e.path = f.path => e = f
               /\ IsBelow(f.path, e.path) => e.entry = Dir
    <3>1. /\ e.path \in Paths /\ e.entry = d.up[e.path] /\ d.up[e.path] # None
          /\ f.path \in Paths /\ f.entry = d.up[f.path] /\ d.up[f.path] # None
      BY <1>2, <1>4
    <3>2. e.path = f.path => e = f
      <4>1. /\ e = [path |-> e.path, entry |-> e.entry]
            /\ f = [path |-> f.path, entry |-> f.entry]
        BY <1>2, <1>4
      <4> QED
        BY <3>1, <4>1
    <3>3. IsBelow(f.path, e.path) => e.entry = Dir
      BY <1>1, <3>1 DEF IsTree, Ancestors
    <3> QED
      BY <3>2, <3>3
  <2> QED
    BY <2>1, <2>2, <2>3 DEF IsSnapshot
<1>7. \A i \in DOMAIN layer : ~IsMarker(layer[i]) => layer[i].entry \in Entries
  BY <1>2, <1>5 DEF IsMarker
<1>8. \A p, x : Has(layer, p, x) =>
        /\ p \in Paths
        /\ \/ p \in d.wh /\ x = Whiteout
           \/ d.up[p] # None /\ x = d.up[p]
  BY <1>2 DEF Has
<1>9. ~Has(layer, <<>>, Opaque)
  BY <1>8, PathIsSeq
<1>10. ASSUME NEW p \in Paths
       PROVE  /\ OwnEntry(layer, p) = d.up[p]
              /\ Has(layer, p, Whiteout) <=> p \in d.wh
              /\ ~Has(layer, p, Opaque)
              /\ HasInside(layer, p) => d.up[p] = Dir
  <2>1. Has(layer, p, Whiteout) <=> p \in d.wh
    <3>1. p \in d.wh => [path |-> p, entry |-> Whiteout] \in ListOf(d, Paths)
      BY DEF ListOf, Records
    <3> QED
      BY <1>1, <1>3, <1>8, <3>1, WhiteoutIsNoEntry DEF Has
  <2>2. ~Has(layer, p, Opaque)
    BY <1>3, <1>8, WhiteoutIsNoEntry
  <2>3. HasInside(layer, p) => d.up[p] = Dir
    BY <1>1, <1>2, <1>4 DEF HasInside, IsTree, Ancestors
  <2>4. \A i \in DOMAIN layer : IsAt(layer[i], p) => layer[i].entry = d.up[p]
    BY <1>2, <1>5 DEF IsAt, IsMarker
  <2>5. d.up[p] # None => \E i \in DOMAIN layer : IsAt(layer[i], p)
    <3> SUFFICES ASSUME NEW e, e = [path |-> p, entry |-> d.up[p]], d.up[p] # None
                 PROVE  \E i \in DOMAIN layer : IsAt(layer[i], p)
      OBVIOUS
    <3>1. e \in ListOf(d, Paths) /\ e.path = p /\ e.entry \in Entries
      BY <1>3 DEF ListOf, Records
    <3>2. PICK i \in DOMAIN layer : layer[i] = e
      BY <1>1, <3>1 DEF Seqs!ToSet
    <3> QED
      BY <3>1, <3>2, WhiteoutIsNoEntry DEF IsAt, IsMarker
  <2>6. OwnEntry(layer, p) = d.up[p]
    <3>1. CASE \E i \in DOMAIN layer : IsAt(layer[i], p)
      BY <1>6, <2>4, <3>1, ReferenceParts
    <3>2. CASE \A i \in DOMAIN layer : ~IsAt(layer[i], p)
      BY <1>6, <2>5, <3>2, ReferenceParts
    <3> QED
      BY <3>1, <3>2
  <2> QED
    BY <2>1, <2>2, <2>3, <2>6
<1> QED
  BY <1>6, <1>7, <1>9, <1>10

\* The committed layers and the markers, stacked, list what a walk finds.
LEMMA OverlayIsView ==
  ASSUME NEW u, NEW w, Sound(u, w), NEW t \in Trees, IsTree(t), NEW layer,
         \A p \in Paths :
           /\ OwnEntry(layer, p) = u[p]
           /\ Has(layer, p, Whiteout) <=> p \in w
           /\ ~Has(layer, p, Opaque)
           /\ HasInside(layer, p) => u[p] = Dir,
         NEW v, v = Overlay(t, layer)
  PROVE  \A p \in Paths : v[p] = ViewOf(u, w, t)[p] /\ Shown(v)[p] = v[p]
<1>1. \A p \in Paths :
        v[p] = IF u[p] # None THEN u[p]
               ELSE IF Hides(layer, p) THEN None ELSE t[p]
  BY EntryFacts DEF Overlay
<1>2. \A p \in Paths :
        Hides(layer, p) <=> \/ p \in w
                            \/ \E q \in Ancestors(p) : q \in w \/ u[q] \notin {Dir, None}
  BY DEF Hides, Ancestors
<1>3. ASSUME NEW p \in Paths
      PROVE  v[p] = VisibleOf(u, w, t, p)
  <2>1. CASE u[p] # None
    <3>1. p \notin w /\ \A q \in Ancestors(p) : u[q] = Dir /\ q \notin w
      BY <2>1, EntryFacts DEF Sound, IsTree, Ancestors
    <3> QED
      BY <1>1, <2>1, <3>1, EntryFacts DEF VisibleOf, WalkOf, StatOf
  <2>2. CASE u[p] = None /\ Hides(layer, p)
    <3>1. v[p] = None
      BY <1>1, <2>2
    <3>2. CASE p \in w
      BY <3>1, <3>2 DEF VisibleOf, StatOf
    <3>3. CASE p \notin w
      <4>1. PICK q \in Ancestors(p) : q \in w \/ u[q] \notin {Dir, None}
        BY <1>2, <2>2, <3>3
      <4>2. StatOf(u, w, t, q) # Dir
        BY <4>1, EntryFacts DEF StatOf
      <4> QED
        BY <3>1, <4>2 DEF VisibleOf, WalkOf
    <3> QED
      BY <3>2, <3>3
  <2>3. CASE u[p] = None /\ ~Hides(layer, p)
    <3>1. v[p] = t[p] /\ p \notin w /\ StatOf(u, w, t, p) = t[p]
      BY <1>1, <1>2, <2>3 DEF StatOf
    <3>2. t[p] # None => WalkOf(u, w, t, p)
      <4> SUFFICES ASSUME t[p] # None, NEW q \in Ancestors(p)
                   PROVE  StatOf(u, w, t, q) = Dir
        BY DEF WalkOf
      <4>1. q \notin w /\ u[q] \in {Dir, None}
        BY <1>2, <2>3
      <4>2. t[q] = Dir
        BY DEF IsTree
      <4> QED
        BY <4>1, <4>2 DEF StatOf
    <3> QED
      BY <3>1, <3>2 DEF VisibleOf
  <2> QED
    BY <2>1, <2>2, <2>3
<1>4. ASSUME NEW p \in Paths
      PROVE  Shown(v)[p] = v[p]
  <2>1. ASSUME NEW q \in Below(p), v[q] # None
        PROVE  v[p] # None
    <3>1. q \in Paths /\ IsBelow(q, p)
      BY DEF Below
    <3>2. WalkOf(u, w, t, q)
      BY <1>3, <2>1, <3>1 DEF VisibleOf
    <3>3. StatOf(u, w, t, p) = Dir
      BY <3>1, <3>2 DEF WalkOf, Ancestors
    <3>4. WalkOf(u, w, t, p)
      <4>1. \A r \in Ancestors(p) : r \in Ancestors(q)
        BY <3>1, BelowOrder, PathIsSeq DEF Ancestors
      <4> QED
        BY <3>2, <4>1 DEF WalkOf
    <3> QED
      BY <1>3, <3>3, <3>4, EntryFacts DEF VisibleOf
  <2> QED
    BY <2>1 DEF Shown
<1>5. \A p \in Paths : ViewOf(u, w, t)[p] = VisibleOf(u, w, t, p)
  BY DEF ViewOf
<1> QED
  BY <1>3, <1>4, <1>5

\* makeWhiteout, clearWhiteout and copyUp leave in the upper directory what
\* buildMergedTreeFromRepos needs: committed and stacked on the layers below,
\* it shows what the mount showed, for every sequence of calls and failures
\* and whatever the order in which the library lists a directory.
THEOREM CommitsShowView == Spec => []ReadyToCommit
<1>1. ASSUME IInv, ~OverDirectory
      PROVE  Restacked = View
  <2>1. PICK below : below = CommitOf([up |-> lower, wh |-> {}])
    OBVIOUS
  <2>2. PICK above : above = CommitOf([up |-> up, wh |-> wh])
    OBVIOUS
  <2>3. /\ Sound(up, wh) /\ Sound(lower, {}) /\ lower \in Trees /\ IsTree(lower)
    BY <1>1, LowerAssumption DEF IInv, TypeOK, Sound
  <2>4. /\ IsSnapshot(below)
        /\ \A i \in DOMAIN below : ~IsMarker(below[i]) => below[i].entry \in Entries
        /\ ~Has(below, <<>>, Opaque)
        /\ \A p \in Paths : /\ OwnEntry(below, p) = lower[p]
                            /\ HasInside(below, p) => lower[p] = Dir
    <3>1. PICK d : d = [up |-> lower, wh |-> {}]
      OBVIOUS
    <3>2. Sound(d.up, d.wh) /\ d.up = lower /\ below = CommitOf(d)
      BY <2>1, <2>3, <3>1
    <3> QED
      BY <3>2, CommitFacts
  <2>5. /\ IsSnapshot(above)
        /\ \A i \in DOMAIN above : ~IsMarker(above[i]) => above[i].entry \in Entries
        /\ ~Has(above, <<>>, Opaque)
        /\ \A p \in Paths : /\ OwnEntry(above, p) = up[p]
                            /\ Has(above, p, Whiteout) <=> p \in wh
                            /\ ~Has(above, p, Opaque)
                            /\ HasInside(above, p) => up[p] = Dir
    <3>1. PICK d : d = [up |-> up, wh |-> wh]
      OBVIOUS
    <3>2. Sound(d.up, d.wh) /\ d.up = up /\ d.wh = wh /\ above = CommitOf(d)
      BY <2>2, <2>3, <3>1
    <3> QED
      BY <3>2, CommitFacts
  <2>6. PICK m \in Lists(Entries) : m = ApplyLayer(Nothing, below)
    <3>1. Nothing \in Lists(Entries) /\ LayerOK(below, Entries)
      BY <2>4, NothingListed, SnapshotIsLayer
    <3>2. PICK n \in Nat : DOMAIN below = 1..n
      BY <3>1 DEF LayerOK
    <3> QED
      BY <3>1, <3>2, ApplyLayerListed
  <2>7. PICK z \in Lists(Entries) : z = ApplyLayer(m, above)
    <3>1. LayerOK(above, Entries)
      BY <2>5, SnapshotIsLayer
    <3>2. PICK n \in Nat : DOMAIN above = 1..n
      BY <3>1 DEF LayerOK
    <3> QED
      BY <3>1, <3>2, ApplyLayerListed
  <2>8. ListView(m) = lower
    <3>1. PICK v : v = ListView(Nothing) /\ v = [p \in Paths |-> None]
      BY NothingListed
    <3>2. ~Clashes(v, below) /\ Nothing \in Lists(Entries)
      BY <3>1, NothingListed DEF Clashes, Below
    <3>3. \A p \in Paths : v[p] \in {None, Dir}
      BY <3>1
    <3>4. \A p \in Paths :
            ~(/\ v[p] \notin {None, Dir} /\ ~Hides(below, p)
              /\ OwnEntry(below, p) = None /\ HasInside(below, p))
      BY <3>3
    <3>5. ListView(m) = Overlay(v, below)
      <4>1. PICK none : none = Nothing
        OBVIOUS
      <4>2. none \in Lists(Entries) /\ v = ListView(none)
            /\ ~Clashes(v, below) /\ m = ApplyLayer(none, below)
        BY <2>6, <3>1, <3>2, <4>1
      <4> QED
        BY <2>4, <3>4, <4>2, ApplyLayerOverlay
    <3>6. \A p \in Paths : Overlay(v, below)[p] = lower[p]
      BY <2>4, <3>1 DEF Overlay
    <3>7. lower = [p \in Paths |-> lower[p]]
      BY <2>3 DEF Trees
    <3> QED
      BY <3>5, <3>6, <3>7 DEF Overlay
  <2>9. PICK v : v = Overlay(lower, above)
    OBVIOUS
  <2>10. ListView(z) = v
    <3>1. ~Clashes(lower, above)
      BY <1>1, <2>5 DEF Clashes, OverDirectory, Hides
    <3>2. \A p \in Paths : OwnEntry(above, p) = None => ~HasInside(above, p)
      BY <2>5, EntryFacts
    <3> QED
      BY <2>5, <2>7, <2>8, <2>9, <3>1, <3>2, ApplyLayerOverlay
  <2>11. OnDirs(v)
    <3>1. OnDirs(lower)
      BY <2>3 DEF IsTree, OnDirs
    <3> QED
      BY <2>5, <2>9, <3>1, OverlayOnDirs
  <2>12. Restacked = Shown(v)
    <3>1. TreeView(BuildTree(Merged(z))) = Shown(v)
      BY <2>10, <2>11, EntryFacts, BuildTreeShows
    <3> QED
      BY <2>1, <2>2, <2>6, <2>7, <3>1 DEF Restacked
  <2>13. \A p \in Paths : v[p] = ViewOf(up, wh, lower)[p] /\ Shown(v)[p] = v[p]
    BY <2>3, <2>5, <2>9, OverlayIsView
  <2>14. View = [p \in Paths |-> ViewOf(up, wh, lower)[p]]
    BY DEF View, ViewOf, Visible, VisibleOf, WalkOf, Stat, StatOf
  <2>15. Shown(v) = [p \in Paths |-> Shown(v)[p]]
    BY DEF Shown
  <2> QED
    BY <2>12, <2>13, <2>14, <2>15
<1>2. IInv => ReadyToCommit
  BY <1>1 DEF ReadyToCommit
<1> QED
  BY <1>2, SpecIInv, PTL
=============================================================================
