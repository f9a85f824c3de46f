-------------------------- MODULE BlockReadsProofs --------------------------
(***************************************************************************)
(* Proofs about BlockReads: what readAt and readAtVariable give of a file  *)
(* whose blocks are as the library cuts them, for any blocks and any part  *)
(* of the file.                                                            *)
(*                                                                         *)
(* The offsets at which blocks begin and end are sums over lists, and the  *)
(* bytes of a file are lists joined: both are folds, which FoldProofs      *)
(* turns into sequences of partial results (JoinsTo, OffsetsOf).           *)
(***************************************************************************)
EXTENDS BlockReads, SequenceTheorems, FiniteSetTheorems, TLAPS

Joined(c, s, t) == s \o t
Joiner == INSTANCE FoldProofs WITH op <- Joined
Added(c, sum, x) == sum + x
Adder == INSTANCE FoldProofs WITH op <- Added

\* Parts of sequences, from one offset up to another.
LEMMA Part ==
  ASSUME NEW S, NEW s \in Seq(S), NEW a \in Nat, NEW b \in a..Len(s)
  PROVE  /\ SubSeq(s, a + 1, b) \in Seq(S) /\ Len(SubSeq(s, a + 1, b)) = b - a
         /\ \A i \in 1..b - a : SubSeq(s, a + 1, b)[i] = s[a + i]
<1>1. PICK n \in Nat : n = Len(s) /\ b \in a..n /\ \A i \in 1..n : s[i] \in S
  OBVIOUS
<1>2. a + 1 \in Int /\ b \in Int /\ \A i \in a + 1..b : i \in 1..n
  BY <1>1
<1>3. \A i \in a + 1..b : s[i] \in S
  BY <1>1, <1>2
<1>4. /\ SubSeq(s, a + 1, b) \in Seq(S)
      /\ Len(SubSeq(s, a + 1, b)) = IF a + 1 <= b THEN b - (a + 1) + 1 ELSE 0
      /\ \A i \in 1..b - (a + 1) + 1 : SubSeq(s, a + 1, b)[i] = s[(a + 1) + i - 1]
  BY <1>2, <1>3, SubSeqProperties
<1>5. ASSUME NEW i \in 1..b - a
      PROVE  i \in 1..b - (a + 1) + 1 /\ (a + 1) + i - 1 = a + i
  BY <1>2
<1>6. b - a = IF a + 1 <= b THEN b - (a + 1) + 1 ELSE 0
  BY <1>1
<1> QED
  BY <1>4, <1>5, <1>6

LEMMA PartOfPart ==
  ASSUME NEW S, NEW s \in Seq(S), NEW a \in Nat, NEW b \in a..Len(s),
         NEW c \in Nat, NEW d \in c..b - a
  PROVE  SubSeq(SubSeq(s, a + 1, b), c + 1, d) = SubSeq(s, (a + c) + 1, a + d)
<1>1. PICK p : p = SubSeq(s, a + 1, b)
  OBVIOUS
<1>2. PICK n \in Nat : n = Len(s) /\ b \in a..n
  OBVIOUS
<1>3. p \in Seq(S) /\ Len(p) = b - a /\ \A i \in 1..b - a : p[i] = s[a + i]
  BY <1>1, Part
<1>4. PICK q, r : q = SubSeq(p, c + 1, d) /\ r = SubSeq(s, (a + c) + 1, a + d)
  OBVIOUS
<1>5. q \in Seq(S) /\ Len(q) = d - c /\ \A i \in 1..d - c : q[i] = p[c + i]
  <2>1. d \in c..Len(p)
    BY <1>3
  <2> QED
    BY <1>3, <1>4, <2>1, Part
<1>6. r \in Seq(S) /\ Len(r) = d - c /\ \A i \in 1..d - c : r[i] = s[a + c + i]
  <2>1. a + c \in Nat /\ a + d \in (a + c)..Len(s) /\ (a + d) - (a + c) = d - c
    BY <1>2
  <2> QED
    BY <1>4, <2>1, Part
<1>7. \A i \in 1..Len(q) : q[i] = r[i]
  <2> TAKE i \in 1..Len(q)
  <2>1. i \in 1..d - c /\ c + i \in 1..b - a /\ a + c + i = a + (c + i)
    BY <1>2, <1>5
  <2> QED
    BY <1>3, <1>5, <1>6, <2>1
<1> QED
  BY <1>1, <1>4, <1>5, <1>6, <1>7, SeqEqual

LEMMA PartsJoin ==
  ASSUME NEW S, NEW s \in Seq(S), NEW a \in Nat, NEW b \in a..Len(s), NEW c \in b..Len(s)
  PROVE  SubSeq(s, a + 1, b) \o SubSeq(s, b + 1, c) = SubSeq(s, a + 1, c)
<1>1. PICK n \in Nat : n = Len(s) /\ b \in a..n /\ c \in b..n
  OBVIOUS
<1>2. a + 1 \in 1..Len(s) + 1 /\ b \in (a + 1) - 1..Len(s) /\ c \in b..Len(s)
  BY <1>1
<1> QED
  BY <1>2, ConcatAdjacentSubSeq

LEMMA PartOfJoin ==
  ASSUME NEW S, NEW s \in Seq(S), NEW t \in Seq(S), NEW a \in Nat, NEW b \in a..Len(s)
  PROVE  SubSeq(s \o t, a + 1, b) = SubSeq(s, a + 1, b)
<1>1. PICK w : w = s \o t
  OBVIOUS
<1>2. PICK n, m \in Nat : n = Len(s) /\ m = Len(t) /\ b \in a..n
  OBVIOUS
<1>3. w \in Seq(S) /\ Len(w) = n + m /\ \A i \in 1..n : w[i] = s[i]
  <2>1. \A i \in 1..n : i \in 1..n + m
    BY <1>2
  <2>2. /\ w \in Seq(S) /\ Len(w) = n + m
        /\ \A i \in 1..n + m : w[i] = IF i <= n THEN s[i] ELSE t[i - n]
    BY <1>1, <1>2, ConcatProperties
  <2> QED
    BY <1>2, <2>1, <2>2
<1>4. b \in a..Len(w)
  BY <1>2, <1>3
<1>5. PICK q, r : q = SubSeq(w, a + 1, b) /\ r = SubSeq(s, a + 1, b)
  OBVIOUS
<1>6. q \in Seq(S) /\ Len(q) = b - a /\ \A i \in 1..b - a : q[i] = w[a + i]
  BY <1>3, <1>4, <1>5, Part
<1>7. r \in Seq(S) /\ Len(r) = b - a /\ \A i \in 1..b - a : r[i] = s[a + i]
  BY <1>5, Part
<1>8. \A i \in 1..Len(q) : q[i] = r[i]
  <2> TAKE i \in 1..Len(q)
  <2>1. i \in 1..b - a /\ a + i \in 1..n
    BY <1>2, <1>6
  <2> QED
    BY <1>3, <1>6, <1>7, <2>1
<1> QED
  BY <1>1, <1>5, <1>6, <1>7, <1>8, SeqEqual

LEMMA RestOfJoin ==
  ASSUME NEW S, NEW s \in Seq(S), NEW t \in Seq(S)
  PROVE  SubSeq(s \o t, Len(s) + 1, Len(s) + Len(t)) = t
<1>1. PICK w : w = s \o t
  OBVIOUS
<1>2. PICK n, m \in Nat : n = Len(s) /\ m = Len(t)
  OBVIOUS
<1>3. w \in Seq(S) /\ Len(w) = n + m /\ \A i \in 1..m : w[n + i] = t[i]
  <2>1. /\ w \in Seq(S) /\ Len(w) = n + m
        /\ \A i \in 1..n + m : w[i] = IF i <= n THEN s[i] ELSE t[i - n]
    BY <1>1, <1>2, ConcatProperties
  <2>2. \A i \in 1..m : n + i \in 1..n + m /\ ~(n + i <= n) /\ (n + i) - n = i
    BY <1>2
  <2> QED
    BY <2>1, <2>2
<1>4. PICK q : q = SubSeq(w, n + 1, n + m)
  OBVIOUS
<1>5. q \in Seq(S) /\ Len(q) = m /\ \A i \in 1..m : q[i] = w[n + i]
  <2>1. n + m \in n..Len(w) /\ (n + m) - n = m
    BY <1>3
  <2> QED
    BY <1>2, <1>3, <1>4, <2>1, Part
<1>6. \A i \in 1..Len(q) : q[i] = t[i]
  BY <1>3, <1>5
<1> QED
  BY <1>1, <1>2, <1>4, <1>5, <1>6, SeqEqual

\* What the recursive function inside FlattenSeq is.
Flattens(f, seqs, n) ==
  f = [i \in 1..n |-> IF i = 1 THEN seqs[i] ELSE Joined({}, f[i - 1], seqs[i])]

LEMMA FlattensExists ==
  ASSUME NEW seqs, NEW n \in Nat
  PROVE  \E f : Flattens(f, seqs, n)
<1> DEFINE Good(k) == \E f : Flattens(f, seqs, k)
           T == {k \in Nat : Good(k)}
<1>1. Good(0)
  <2> DEFINE f == [i \in 1..0 |-> i]
  <2>1. \A i \in 1..0 : FALSE
    OBVIOUS
  <2>2. Flattens(f, seqs, 0)
    BY <2>1 DEF Flattens
  <2> QED
    BY <2>2
<1>2. ASSUME NEW k \in Nat, Good(k) PROVE Good(k + 1)
  <2>1. PICK f : Flattens(f, seqs, k)
    BY <1>2
  <2> DEFINE last == IF k + 1 = 1 THEN seqs[k + 1] ELSE Joined({}, f[k], seqs[k + 1])
             g == [i \in 1..k + 1 |-> IF i = k + 1 THEN last ELSE f[i]]
  <2>2. ASSUME NEW i \in 1..k + 1
        PROVE  g[i] = IF i = 1 THEN seqs[i] ELSE Joined({}, g[i - 1], seqs[i])
    <3>1. CASE i = k + 1
      <4>1. g[i] = last
        BY <3>1
      <4>2. i # 1 => g[i - 1] = f[k]
        BY <3>1
      <4> QED
        BY <3>1, <4>1, <4>2
    <3>2. CASE i # k + 1
      <4>1. i \in 1..k /\ g[i] = f[i] /\ (i # 1 => g[i - 1] = f[i - 1])
        BY <3>2
      <4>2. f[i] = IF i = 1 THEN seqs[i] ELSE Joined({}, f[i - 1], seqs[i])
        BY <2>1, <4>1 DEF Flattens
      <4> QED
        BY <4>1, <4>2
    <3> QED
      BY <3>1, <3>2
  <2>3. Flattens(g, seqs, k + 1)
    <3>1. g = [i \in 1..k + 1 |-> g[i]]
      OBVIOUS
    <3> HIDE DEF g
    <3> QED
      BY <2>2, <3>1 DEF Flattens
  <2> QED
    BY <2>3
<1>3. 0 \in T /\ \A k \in Nat : k \in T => k + 1 \in T
  <2> HIDE DEF Good
  <2> QED
    BY <1>1, <1>2
<1> HIDE DEF T
<1>4. n \in T
  BY <1>3, Joiner!NatInduct
<1> QED
  BY <1>4 DEF T

LEMMA JoinSteps ==
  ASSUME NEW n \in Nat, NEW seqs, DOMAIN seqs = 1..n, NEW none
  PROVE  \E h : /\ h[0] = none /\ Joiner!Fold({}, none, seqs) = h[n]
                /\ \A k \in 1..n : h[k] = Joined({}, h[k - 1], seqs[k])
BY Joiner!FoldSteps

\* Flattening joins the sequences one by one: h[k] is what the first k give.
JoinsTo(h, S, n, seqs) ==
  /\ h[0] = <<>> /\ h[n] = SeqOps!FlattenSeq(seqs)
  /\ \A k \in 0..n : h[k] \in Seq(S)
  /\ \A k \in 1..n : h[k] = h[k - 1] \o seqs[k]

LEMMA FlattenSteps ==
  ASSUME NEW S, NEW n \in Nat, NEW seqs, Len(seqs) = n,
         seqs \in [1..n -> Seq(S)]
  PROVE  \E h : JoinsTo(h, S, n, seqs)
<1>1. PICK none : none = <<>>
  OBVIOUS
<1>2. PICK h : /\ h[0] = none /\ Joiner!Fold({}, none, seqs) = h[n]
               /\ \A k \in 1..n : h[k] = Joined({}, h[k - 1], seqs[k])
  <2>1. DOMAIN seqs = 1..n
    OBVIOUS
  <2> QED
    BY <2>1, JoinSteps
<1>3. \A k \in 0..n : h[k] \in Seq(S)
  <2> DEFINE T == {k \in 0..n : h[k] \in Seq(S)}
  <2>1. 0 \in T
    <3>1. none \in Seq(S)
      BY <1>1, EmptySeq
    <3> QED
      BY <1>2, <3>1
  <2>2. ASSUME NEW k \in 1..n, k - 1 \in T PROVE k \in T
    <3>1. h[k - 1] \in Seq(S) /\ seqs[k] \in Seq(S)
      BY <2>2
    <3>2. Joined({}, h[k - 1], seqs[k]) \in Seq(S)
      BY <3>1, ConcatProperties DEF Joined
    <3> QED
      BY <1>2, <3>2
  <2> HIDE DEF T
  <2>3. \A k \in 0..n : k \in T
    BY <2>1, <2>2, Joiner!UpTo
  <2> QED
    BY <2>3 DEF T
<1>4. SeqOps!FlattenSeq(seqs) = h[n]
  <2>1. CASE n = 0
    <3>1. SeqOps!FlattenSeq(seqs) = seqs
      BY <2>1 DEF SeqOps!FlattenSeq
    <3>2. seqs = none
      BY <1>1, <2>1
    <3> QED
      BY <1>2, <2>1, <3>1, <3>2
  <2>2. CASE n # 0
    <3> DEFINE f == CHOOSE g : Flattens(g, seqs, n)
    <3>1. Flattens(f, seqs, n)
      BY FlattensExists
    <3>2. SeqOps!FlattenSeq(seqs) = f[n]
      BY <2>2, Zenon DEF SeqOps!FlattenSeq, Flattens, Joined
    <3> HIDE DEF f
    <3>3. \A k \in 1..n : f[k] = IF k = 1 THEN seqs[k] ELSE Joined({}, f[k - 1], seqs[k])
      BY <3>1 DEF Flattens
    <3>4. Joined({}, none, seqs[1]) = seqs[1]
      BY <1>1, <2>2, ConcatEmptySeq DEF Joined
    <3> DEFINE U == {k \in 0..n : k = 0 \/ f[k] = h[k]}
    <3>5. \A k \in 1..n : k - 1 \in U => k \in U
      BY <1>2, <3>3, <3>4
    <3>6. 0 \in U
      OBVIOUS
    <3> HIDE DEF U
    <3>7. \A k \in 0..n : k \in U
      BY <3>5, <3>6, Joiner!UpTo
    <3> QED
      BY <2>2, <3>2, <3>7 DEF U
  <2> QED
    BY <2>1, <2>2
<1>5. \A k \in 1..n : h[k] = h[k - 1] \o seqs[k]
  BY <1>2, Zenon DEF Joined
<1> QED
  BY <1>1, <1>2, <1>3, <1>4, <1>5, Zenon DEF JoinsTo

\* seqs are the n parts of all that lie between the offsets e.
PartsOf(S, all, n, e, seqs) ==
  /\ all \in Seq(S) /\ n \in Nat
  /\ seqs \in [1..n -> Seq(S)] /\ Len(seqs) = n
  /\ \A k \in 0..n : e[k] \in 0..Len(all)
  /\ \A k \in 1..n : e[k - 1] <= e[k] /\ seqs[k] = SubSeq(all, e[k - 1] + 1, e[k])

\* Flattening consecutive parts of a sequence gives the part that they span.
LEMMA FlattenParts ==
  ASSUME NEW S, NEW all, NEW n, NEW e, NEW seqs, PartsOf(S, all, n, e, seqs)
  PROVE  e[0] <= e[n] /\ SeqOps!FlattenSeq(seqs) = SubSeq(all, e[0] + 1, e[n])
<1>0. /\ all \in Seq(S) /\ n \in Nat /\ seqs \in [1..n -> Seq(S)] /\ Len(seqs) = n
      /\ \A k \in 0..n : e[k] \in 0..Len(all)
      /\ \A k \in 1..n : e[k - 1] <= e[k] /\ seqs[k] = SubSeq(all, e[k - 1] + 1, e[k])
  BY Zenon DEF PartsOf
<1>1. PICK none : none = <<>>
  OBVIOUS
<1>2. PICK h : /\ h[0] = none /\ SeqOps!FlattenSeq(seqs) = h[n]
               /\ \A k \in 1..n : h[k] = h[k - 1] \o seqs[k]
  <2>1. PICK h : JoinsTo(h, S, n, seqs)
    BY <1>0, FlattenSteps
  <2> QED
    BY <1>1, <2>1, Zenon DEF JoinsTo
<1>3. PICK len \in Nat : len = Len(all)
  BY <1>0
<1> DEFINE T == {k \in 0..n : e[0] <= e[k] /\ h[k] = SubSeq(all, e[0] + 1, e[k])}
<1>4. 0 \in T
  <2>1. e[0] \in Nat /\ e[0] + 1 \in Int /\ e[0] \in Int /\ e[0] < e[0] + 1
    BY <1>0, <1>3
  <2>2. SubSeq(all, e[0] + 1, e[0]) = <<>>
    BY <2>1, SubSeqEmpty
  <2>3. h[0] = SubSeq(all, e[0] + 1, e[0])
    BY <1>1, <1>2, <2>2, Zenon
  <2>4. 0 \in 0..n /\ e[0] <= e[0]
    BY <1>0, <2>1
  <2> QED
    BY <2>3, <2>4, Zenon
<1>5. ASSUME NEW k \in 1..n, k - 1 \in T PROVE k \in T
  <2>1. PICK a, b, c : a = e[0] /\ b = e[k - 1] /\ c = e[k]
    OBVIOUS
  <2>2. a \in Nat /\ b \in a..len /\ c \in b..len
    <3>1. k \in 0..n /\ k - 1 \in 0..n /\ 0 \in 0..n
      BY <1>0
    <3>2. a \in 0..len /\ b \in 0..len /\ c \in 0..len
      BY <1>0, <1>3, <2>1, <3>1
    <3>3. a <= b /\ b <= c
      BY <1>0, <1>5, <2>1
    <3> QED
      BY <3>2, <3>3
  <2>3. SubSeq(all, a + 1, b) \o SubSeq(all, b + 1, c) = SubSeq(all, a + 1, c)
    BY <1>0, <1>3, <2>2, PartsJoin
  <2>4. h[k] = h[k - 1] \o seqs[k] /\ h[k - 1] = SubSeq(all, a + 1, b)
        /\ seqs[k] = SubSeq(all, b + 1, c)
    BY <1>0, <1>2, <1>5, <2>1, Zenon
  <2>5. h[k] = SubSeq(all, a + 1, c) /\ a <= c
    BY <2>2, <2>3, <2>4
  <2> QED
    BY <2>1, <2>5
<1> HIDE DEF T
<1>6. \A k \in 0..n : k \in T
  BY <1>0, <1>4, <1>5, Joiner!UpTo
<1> QED
  BY <1>0, <1>2, <1>6 DEF T

\* Each of the sequences flattened is a part of the result: h[k] is the offset
\* at which the first k of them end.
OffsetsOf(h, S, n, seqs) ==
  /\ n \in Nat /\ seqs \in [1..n -> Seq(S)]
  /\ h[0] = 0 /\ h[n] = Len(SeqOps!FlattenSeq(seqs))
  /\ SeqOps!FlattenSeq(seqs) \in Seq(S)
  /\ \A k \in 0..n : h[k] \in 0..h[n]
  /\ \A k \in 0..n : \A i \in 0..k : h[i] <= h[k]
  /\ \A k \in 1..n :
       /\ h[k] = h[k - 1] + Len(seqs[k])
       /\ seqs[k] = SubSeq(SeqOps!FlattenSeq(seqs), h[k - 1] + 1, h[k])

LEMMA FlattenOffsets ==
  ASSUME NEW S, NEW n \in Nat, NEW seqs \in [1..n -> Seq(S)], Len(seqs) = n
  PROVE  \E h : OffsetsOf(h, S, n, seqs)
<1>1. PICK none : none = <<>>
  OBVIOUS
<1>2. PICK f : /\ f[0] = none /\ SeqOps!FlattenSeq(seqs) = f[n]
               /\ \A k \in 0..n : f[k] \in Seq(S)
               /\ \A k \in 1..n : f[k] = f[k - 1] \o seqs[k]
  <2>1. PICK h : JoinsTo(h, S, n, seqs)
    BY FlattenSteps
  <2> QED
    BY <1>1, <2>1, Zenon DEF JoinsTo
<1> DEFINE h == [k \in 0..n |-> Len(f[k])]
<1>3. \A k \in 0..n : h[k] = Len(f[k]) /\ h[k] \in Nat
  BY <1>2
<1>4. h[0] = 0
  BY <1>1, <1>2
<1> HIDE DEF h
<1>5. \A k \in 1..n : h[k] = h[k - 1] + Len(seqs[k]) /\ Len(seqs[k]) \in Nat
  <2> TAKE k \in 1..n
  <2>1. k - 1 \in 0..n /\ k \in 0..n
    OBVIOUS
  <2>2. f[k] = f[k - 1] \o seqs[k] /\ f[k - 1] \in Seq(S) /\ seqs[k] \in Seq(S)
    BY <1>2, <2>1
  <2>3. Len(f[k]) = Len(f[k - 1]) + Len(seqs[k]) /\ Len(seqs[k]) \in Nat
    BY <2>2, ConcatProperties, LenProperties
  <2> QED
    BY <1>3, <2>1, <2>3
<1> DEFINE T == {k \in 0..n :
                   /\ \A i \in 0..k : h[i] <= h[k]
                   /\ \A i \in 1..k : seqs[i] = SubSeq(f[k], h[i - 1] + 1, h[i])}
<1>6. 0 \in T
  BY <1>3
<1>7. ASSUME NEW k \in 1..n, k - 1 \in T PROVE k \in T
  <2>1. PICK s, t : s = f[k - 1] /\ t = seqs[k]
    OBVIOUS
  <2>2. s \in Seq(S) /\ t \in Seq(S) /\ f[k] = s \o t
        /\ h[k - 1] = Len(s) /\ h[k] = Len(s) + Len(t) /\ Len(s) \in Nat /\ Len(t) \in Nat
    <3>1. k - 1 \in 0..n /\ k \in 0..n
      OBVIOUS
    <3> QED
      BY <1>2, <1>3, <1>5, <2>1, <3>1
  <2>3. \A i \in 0..k : h[i] <= h[k]
    <3> TAKE i \in 0..k
    <3>1. CASE i = k
      BY <1>3, <3>1
    <3>2. CASE i # k
      <4>1. i \in 0..k - 1 /\ i \in 0..n
        BY <3>2
      <4>2. h[i] <= h[k - 1] /\ h[i] \in Nat
        BY <1>3, <1>7, <4>1
      <4> QED
        BY <2>2, <4>2
    <3> QED
      BY <3>1, <3>2
  <2>4. ASSUME NEW i \in 1..k PROVE seqs[i] = SubSeq(f[k], h[i - 1] + 1, h[i])
    <3>1. CASE i = k
      <4>1. SubSeq(s \o t, Len(s) + 1, Len(s) + Len(t)) = t
        BY <2>2, RestOfJoin
      <4> QED
        BY <2>1, <2>2, <3>1, <4>1
    <3>2. CASE i # k
      <4>1. i \in 1..k - 1 /\ i \in 0..k - 1 /\ i - 1 \in 0..n /\ i \in 0..n /\ i \in 1..n
        BY <3>2
      <4>2. PICK a, b : a = h[i - 1] /\ b = h[i]
        OBVIOUS
      <4>3. a \in Nat /\ b \in a..Len(s)
        <5>1. a \in Nat /\ b \in Nat /\ a <= b
          <6>1. Len(seqs[i]) \in Nat /\ b = a + Len(seqs[i])
            BY <1>5, <4>1, <4>2
          <6>2. a \in Nat
            BY <1>3, <4>1, <4>2
          <6> QED
            BY <6>1, <6>2
        <5>2. b <= Len(s)
          BY <1>7, <2>2, <4>1, <4>2
        <5> QED
          BY <2>2, <5>1, <5>2
      <4>4. seqs[i] = SubSeq(s, a + 1, b)
        BY <1>7, <2>1, <4>1, <4>2
      <4>5. SubSeq(s \o t, a + 1, b) = SubSeq(s, a + 1, b)
        BY <2>2, <4>3, PartOfJoin
      <4> QED
        BY <2>2, <4>2, <4>4, <4>5
    <3> QED
      BY <3>1, <3>2
  <2> QED
    BY <2>3, <2>4
<1> HIDE DEF T
<1>8. \A k \in 0..n : k \in T
  BY <1>6, <1>7, Joiner!UpTo
<1>9. n \in T /\ n \in 0..n
  BY <1>8
<1>10. \A k \in 0..n : h[k] \in 0..h[n]
  <2> TAKE k \in 0..n
  <2>1. h[k] <= h[n]
    BY <1>9 DEF T
  <2> QED
    BY <1>3, <1>9, <2>1
<1>11. \A k \in 1..n : seqs[k] = SubSeq(f[n], h[k - 1] + 1, h[k])
  BY <1>9 DEF T
<1>12. \A k \in 0..n : \A i \in 0..k : h[i] <= h[k]
  BY <1>8 DEF T
<1>13. h[n] = Len(f[n]) /\ f[n] \in Seq(S)
  BY <1>2, <1>3, <1>9
<1> QED
  BY <1>2, <1>4, <1>5, <1>10, <1>11, <1>12, <1>13, Zenon DEF OffsetsOf

LEMMA FlattenFirst ==
  ASSUME NEW S, NEW n, NEW seqs, NEW h, OffsetsOf(h, S, n, seqs), NEW k \in 0..n
  PROVE  Len(SeqOps!FlattenSeq(SubSeq(seqs, 1, k))) = h[k]
<1>1. PICK all : all = SeqOps!FlattenSeq(seqs)
  OBVIOUS
<1>2. /\ n \in Nat /\ seqs \in [1..n -> Seq(S)]
      /\ h[0] = 0 /\ h[n] = Len(all) /\ all \in Seq(S)
      /\ \A i \in 0..n : h[i] \in 0..h[n]
      /\ \A j \in 0..n : \A i \in 0..j : h[i] <= h[j]
      /\ \A i \in 1..n : seqs[i] = SubSeq(all, h[i - 1] + 1, h[i])
  BY <1>1, Zenon DEF OffsetsOf
<1>3. PICK q : q = SubSeq(seqs, 1, k)
  OBVIOUS
<1>4. q = [i \in 1..k |-> seqs[i]] /\ Len(q) = k
  BY <1>2, <1>3
<1>5. /\ k \in Nat /\ \A i \in 1..k : i \in 1..n /\ i \in 0..n /\ i - 1 \in 0..i
      /\ \A i \in 0..k : i \in 0..n
  BY <1>2
<1>6. q \in [1..k -> Seq(S)] /\ \A i \in 1..k : q[i] = seqs[i]
  <2>1. \A i \in 1..k : seqs[i] \in Seq(S)
    BY <1>2, <1>5
  <2> QED
    BY <1>4, <2>1, Zenon
<1>7. \A i \in 0..k : h[i] \in 0..Len(all)
  BY <1>2, <1>5, Zenon
<1>8. \A i \in 1..k : h[i - 1] <= h[i]
  BY <1>2, <1>5, Zenon
<1>9. \A i \in 1..k : q[i] = SubSeq(all, h[i - 1] + 1, h[i])
  BY <1>2, <1>5, <1>6, Zenon
<1>10. SeqOps!FlattenSeq(q) = SubSeq(all, h[0] + 1, h[k])
  <2>1. all \in Seq(S) /\ k \in Nat /\ Len(q) = k /\ q \in [1..k -> Seq(S)]
    BY <1>2, <1>4, <1>5, <1>6
  <2>2. PartsOf(S, all, k, h, q)
    BY <1>7, <1>8, <1>9, <2>1, Zenon DEF PartsOf
  <2> QED
    BY <2>2, FlattenParts
<1>11. PICK a, b : a = h[0] /\ b = h[k]
  OBVIOUS
<1>12. a = 0 /\ a \in Nat /\ b \in a..Len(all) /\ b - a = b
  BY <1>2, <1>7, <1>5, <1>11
<1>13. Len(SubSeq(all, a + 1, b)) = b - a
  BY <1>2, <1>12, Part
<1> QED
  BY <1>3, <1>10, <1>11, <1>12, <1>13

LEMMA OfTwo ==
  ASSUME NEW a \in Int, NEW b \in Int
  PROVE  /\ SeqOps!Max({a, b}) = IF a >= b THEN a ELSE b
         /\ SeqOps!Min({a, b}) = IF a <= b THEN a ELSE b
<1>1. \A x \in {a, b} : (\A y \in {a, b} : x >= y) <=> x = IF a >= b THEN a ELSE b
  OBVIOUS
<1>2. \A x \in {a, b} : (\A y \in {a, b} : x <= y) <=> x = IF a <= b THEN a ELSE b
  OBVIOUS
<1>3. PICK top, low : /\ top = IF a >= b THEN a ELSE b
                      /\ low = IF a <= b THEN a ELSE b
  OBVIOUS
<1>4. SeqOps!Max({a, b}) = top
  <2>1. top \in {a, b} /\ \A x \in {a, b} : (\A y \in {a, b} : x >= y) <=> x = top
    BY <1>1, <1>3
  <2> QED
    BY <2>1 DEF SeqOps!Max
<1>5. SeqOps!Min({a, b}) = low
  <2>1. low \in {a, b} /\ \A x \in {a, b} : (\A y \in {a, b} : x <= y) <=> x = low
    BY <1>2, <1>3
  <2> QED
    BY <2>1 DEF SeqOps!Min
<1> QED
  BY <1>3, <1>4, <1>5

\* The sizes of blocks add up to their offsets.
LEMMA SizesAddUp ==
  ASSUME NEW sizes \in Seq(Nat), NEW h, h[0] = 0,
         \A k \in 1..Len(sizes) : h[k] = h[k - 1] + sizes[k],
         NEW k \in 0..Len(sizes)
  PROVE  SeqOps!FoldLeft(+, 0, SubSeq(sizes, 1, k)) = h[k]
<1>1. PICK q : q = SubSeq(sizes, 1, k)
  OBVIOUS
<1>2. k \in Nat /\ DOMAIN q = 1..k /\ \A i \in 1..k : i \in 1..Len(sizes) /\ q[i] = sizes[i]
  <2>1. PICK len \in Nat : len = Len(sizes) /\ k \in 0..len
    OBVIOUS
  <2>2. 0 + 1 = 1 /\ k \in 0..Len(sizes) /\ k - 0 = k /\ \A i \in 1..k : 0 + i = i /\ i \in 1..len
    BY <2>1
  <2>3. q \in Seq(Nat) /\ Len(q) = k /\ \A i \in 1..k : q[i] = sizes[i]
    BY <1>1, <2>2, Part
  <2> QED
    BY <2>1, <2>2, <2>3
<1> DEFINE T == [i \in 0..k |-> {h[i]}]
<1>3. 0 \in T[0]
  BY <1>2
<1>4. \A i \in 1..k : \A x \in T[i - 1] : Added({}, x, q[i]) \in T[i]
  <2> TAKE i \in 1..k
  <2>1. i - 1 \in 0..k /\ i \in 0..k
    OBVIOUS
  <2>2. T[i - 1] = {h[i - 1]} /\ T[i] = {h[i]}
    BY <2>1
  <2>3. Added({}, h[i - 1], q[i]) = h[i]
    BY <1>2 DEF Added
  <2> QED
    BY <2>2, <2>3
<1>5. T[k] = {h[k]}
  BY <1>2
<1> HIDE DEF T
<1>6. Adder!Fold({}, 0, q) \in T[k]
  BY <1>2, <1>3, <1>4, Adder!FoldInduct
<1>7. SeqOps!FoldLeft(+, 0, q) = Adder!Fold({}, 0, q)
  BY DEF Adder!Fold, Adder!Follows, Adder!Greatest, Added,
         SeqOps!FoldLeft, SeqOps!MapThenFoldSet, SeqOps!Max
<1> QED
  BY <1>1, <1>5, <1>6, <1>7

LEMMA EqualSizes ==
  ASSUME NEW n \in Nat, NEW bs \in Nat, NEW h, h[0] = 0,
         \A k \in 1..n - 1 : h[k] = h[k - 1] + bs
  PROVE  \A k \in 1..n : h[k - 1] = (k - 1) * bs
<1> SUFFICES ASSUME NEW k \in 1..n PROVE h[k - 1] = (k - 1) * bs
  OBVIOUS
<1>1. PICK m \in Nat : m = n - 1
  OBVIOUS
<1> DEFINE T == {i \in 0..m : h[i] = i * bs}
<1>2. 0 \in T
  OBVIOUS
<1>3. ASSUME NEW i \in 1..m, i - 1 \in T PROVE i \in T
  <2>1. h[i] = h[i - 1] + bs /\ h[i - 1] = (i - 1) * bs
    BY <1>1, <1>3
  <2>2. (i - 1) * bs + bs = i * bs
    OBVIOUS
  <2> QED
    BY <2>1, <2>2
<1> HIDE DEF T
<1>4. \A i \in 0..m : i \in T
  BY <1>2, <1>3, Joiner!UpTo
<1> QED
  BY <1>1, <1>4 DEF T

\* How a whole file lies: h[k] is the offset at which its first k blocks end.
Lies(h, n, bs) ==
  /\ Content(n) \in Seq(Nat)
  /\ h[0] = 0 /\ h[Len(n.blocks)] = n.size
  /\ \A k \in 0..Len(n.blocks) :
       /\ h[k] \in 0..n.size /\ \A i \in 0..k : h[i] <= h[k]
       /\ Len(SeqOps!FlattenSeq(SubSeq(n.blocks, 1, k))) = h[k]
  /\ \A k \in 1..Len(n.blocks) :
       /\ h[k] = h[k - 1] + Len(n.blocks[k]) /\ Len(n.blocks[k]) \in Nat \ {0}
       /\ n.blocks[k] = SubSeq(Content(n), h[k - 1] + 1, h[k])
       /\ BlockStart(n, k, bs) = h[k - 1]

LEMMA WholeLies ==
  ASSUME NEW n, NEW blockSize, IsWhole(n, blockSize)
  PROVE  \E h : Lies(h, n, BlockSize(blockSize))
<1>1. PICK len, all, blocks : len = Len(n.blocks) /\ all = Content(n) /\ blocks = n.blocks
  OBVIOUS
<1>2. len \in Nat /\ blocks \in [1..len -> Seq(Nat)] /\ DOMAIN blocks = 1..len
  BY <1>1, LenProperties, Zenon DEF IsWhole
<1>3. \A i \in 1..len : blocks[i] \in Seq(Nat) /\ blocks[i] # <<>> /\ Len(blocks[i]) \in Nat \ {0}
  <2> TAKE i \in 1..len
  <2>1. blocks[i] \in Seq(Nat)
    BY <1>2
  <2>2. blocks[i] # <<>>
    BY <1>1, <1>2, Zenon DEF IsWhole
  <2> QED
    BY <2>1, <2>2, EmptySeq
<1>4. PICK h : OffsetsOf(h, Nat, len, blocks)
  BY <1>1, <1>2, FlattenOffsets, Zenon
<1>5. /\ h[0] = 0 /\ h[len] = Len(all) /\ all \in Seq(Nat)
      /\ \A k \in 0..len : h[k] \in 0..h[len]
      /\ \A k \in 0..len : \A i \in 0..k : h[i] <= h[k]
      /\ \A k \in 1..len :
           /\ h[k] = h[k - 1] + Len(blocks[k])
           /\ blocks[k] = SubSeq(all, h[k - 1] + 1, h[k])
  BY <1>1, <1>4, Zenon DEF Content, OffsetsOf
<1>6. n.size = h[len] /\ n.sizes \in Seq(Nat) /\ BlockSize(blockSize) \in Nat \ {0}
  BY <1>1, <1>5 DEF IsWhole, BlockSize, DefaultBlockSize
<1>7. \A k \in 0..len : Len(SeqOps!FlattenSeq(SubSeq(blocks, 1, k))) = h[k]
  BY <1>2, <1>4, FlattenFirst
<1>8. ASSUME NEW k \in 1..len
      PROVE  BlockStart(n, k, BlockSize(blockSize)) = h[k - 1]
  <2>1. CASE IsVariable(n)
    <3>1. Len(n.sizes) = len /\ k - 1 \in 0..len
      BY <1>1, <2>1 DEF IsVariable
    <3>2. \A i \in 1..len : n.sizes[i] = Len(blocks[i])
      BY <1>1, <1>2, <2>1, Zenon DEF IsWhole
    <3>3. \A i \in 1..len : h[i] = h[i - 1] + n.sizes[i]
      BY <1>5, <3>2, Zenon
    <3>4. SeqOps!FoldLeft(+, 0, SubSeq(n.sizes, 1, k - 1)) = h[k - 1]
      BY <1>5, <1>6, <3>1, <3>3, SizesAddUp, Zenon
    <3> QED
      BY <2>1, <3>4, Zenon DEF BlockStart
  <2>2. CASE ~IsVariable(n)
    <3>1. PICK bs \in Nat : bs = BlockSize(blockSize)
      BY <1>6
    <3>2. \A i \in 1..len - 1 : i \in 1..len /\ i < len
      BY <1>2
    <3>3. \A i \in 1..len - 1 : Len(blocks[i]) = bs
      BY <1>1, <1>2, <2>2, <3>1, <3>2, Zenon DEF IsWhole
    <3>4. \A i \in 1..len - 1 : h[i] = h[i - 1] + bs
      BY <1>5, <3>2, <3>3, Zenon
    <3>5. h[k - 1] = (k - 1) * bs
      BY <1>2, <1>5, <3>4, EqualSizes, Zenon
    <3> QED
      BY <2>2, <3>1, <3>5, Zenon DEF BlockStart
  <2> QED
    BY <2>1, <2>2
<1>9. \A k \in 0..len :
        /\ h[k] \in 0..n.size /\ \A i \in 0..k : h[i] <= h[k]
        /\ Len(SeqOps!FlattenSeq(SubSeq(blocks, 1, k))) = h[k]
  BY <1>5, <1>6, <1>7, Zenon
<1>10. \A k \in 1..len :
         /\ h[k] = h[k - 1] + Len(blocks[k]) /\ Len(blocks[k]) \in Nat \ {0}
         /\ blocks[k] = SubSeq(all, h[k - 1] + 1, h[k])
         /\ BlockStart(n, k, BlockSize(blockSize)) = h[k - 1]
  BY <1>3, <1>5, <1>8, Zenon
<1> QED
  BY <1>1, <1>5, <1>6, <1>9, <1>10, ZenonT(60) DEF Lies

\* Offsets that rise, and the last of them below a bound.
Rises(h, n) == /\ n \in Nat /\ \A k \in 0..n : h[k] \in Nat
               /\ \A k \in 0..n : \A i \in 0..k : h[i] <= h[k]
IsLastBelow(k, h, n, off) == /\ k \in 1..n /\ h[k - 1] < off /\ off <= h[k]
                             /\ \A i \in 1..n : h[i - 1] < off <=> i <= k

LEMMA LastBelow ==
  ASSUME NEW n, NEW h, Rises(h, n), NEW off \in Nat, h[0] < off, off <= h[n]
  PROVE  \E k : IsLastBelow(k, h, n, off)
<1>0. /\ n \in Nat /\ \A k \in 0..n : h[k] \in Nat
      /\ \A k \in 0..n : \A i \in 0..k : h[i] <= h[k]
  BY DEF Rises
<1> DEFINE T == {k \in 0..n : h[k] < off}
<1>1. PICK m \in 0..n : m \in T /\ \A i \in m + 1..n : i \notin T
  <2> DEFINE U == {k \in 0..n : \E m \in 0..k : m \in T /\ \A i \in m + 1..k : i \notin T}
  <2>1. 0 \in U
    BY <1>0 DEF T
  <2>2. ASSUME NEW k \in 1..n, k - 1 \in U PROVE k \in U
    <3> HIDE DEF T
    <3>1. CASE k \in T
      BY <1>0, <3>1
    <3>2. CASE k \notin T
      <4>1. PICK m \in 0..k - 1 : m \in T /\ \A i \in m + 1..k - 1 : i \notin T
        BY <1>0, <2>2
      <4>2. \A i \in m + 1..k : i \notin T
        BY <1>0, <3>2, <4>1
      <4> QED
        BY <1>0, <4>1, <4>2
    <3> QED
      BY <3>1, <3>2
  <2> HIDE DEF U
  <2>3. \A k \in 0..n : k \in U
    BY <1>0, <2>1, <2>2, Joiner!UpTo
  <2>4. n \in U
    BY <1>0, <2>3
  <2> QED
    BY <2>4 DEF U
<1>2. m < n
  BY <1>0, <1>1
<1>3. PICK k \in 1..n : k = m + 1
  BY <1>0, <1>2
<1>4. h[k - 1] < off /\ off <= h[k]
  <2>1. k - 1 = m /\ k \in m + 1..n /\ k \in 0..n
    BY <1>0, <1>3
  <2> QED
    BY <1>0, <1>1, <2>1
<1>5. \A i \in 1..n : h[i - 1] < off <=> i <= k
  <2> TAKE i \in 1..n
  <2>1. i - 1 \in 0..n /\ h[i - 1] \in Nat
    BY <1>0
  <2>2. CASE i <= k
    <3>1. i - 1 \in 0..m /\ m \in 0..n /\ h[m] \in Nat /\ h[m] < off
      BY <1>0, <1>1, <1>3, <2>2
    <3>2. h[i - 1] <= h[m]
      BY <1>0, <3>1
    <3> QED
      BY <1>0, <2>1, <2>2, <3>1, <3>2
  <2>3. CASE ~(i <= k)
    <3>1. i - 1 \in m + 1..n
      BY <1>0, <1>3, <2>3
    <3>2. ~(h[i - 1] < off)
      BY <1>0, <1>1, <2>1, <3>1
    <3> QED
      BY <1>0, <1>3, <2>3, <3>2
  <2> QED
    BY <2>2, <2>3
<1> QED
  BY <1>4, <1>5 DEF IsLastBelow

\* The block that a read begins with has the byte at its offset.
LEMMA FirstBlockIs ==
  ASSUME NEW n, NEW blockSize, IsWhole(n, blockSize), NEW h, Lies(h, n, BlockSize(blockSize)),
         NEW off \in Nat, off < n.size
  PROVE  LET first == FirstBlock(n, off, BlockSize(blockSize))
         IN  first \in 1..Len(n.blocks) /\ h[first - 1] <= off /\ off < h[first]
<1>1. PICK len, bs : len = Len(n.blocks) /\ bs = BlockSize(blockSize)
  OBVIOUS
<1>2. len \in Nat /\ DOMAIN n.blocks = 1..len
  BY <1>1, LenProperties, Zenon DEF IsWhole
<1>3. /\ h[0] = 0 /\ h[len] = n.size
      /\ \A k \in 0..len : h[k] \in 0..n.size /\ \A i \in 0..k : h[i] <= h[k]
      /\ \A k \in 1..len : BlockStart(n, k, bs) = h[k - 1]
      /\ \A k \in 1..len : h[k] = h[k - 1] + Len(n.blocks[k])
  BY <1>1, Zenon DEF Lies
<1>4. n.size \in Nat
  <2>1. Content(n) \in Seq(Nat) /\ n.size = Len(Content(n))
    BY Zenon DEF Lies, IsWhole
  <2> QED
    BY <2>1
<1>5. \A k \in 0..len : h[k] \in Nat
  BY <1>3, <1>4
<1>6. PICK k \in 1..len : /\ h[k - 1] <= off /\ off < h[k]
                          /\ \A i \in 1..len : h[i - 1] <= off <=> i <= k
  <2>1. PICK next \in Nat : next = off + 1
    OBVIOUS
  <2>2. h[0] < next /\ next <= h[len]
    BY <1>3, <1>4, <2>1
  <2>3. Rises(h, len)
    BY <1>2, <1>3, <1>5 DEF Rises
  <2>4. PICK k : IsLastBelow(k, h, len, next)
    BY <2>2, <2>3, LastBelow
  <2>5. \A i \in 1..len : h[i - 1] \in Nat /\ h[i] \in Nat
    BY <1>2, <1>5
  <2> QED
    BY <2>1, <2>4, <2>5 DEF IsLastBelow
<1>7. FirstBlock(n, off, bs) = k
  <2>1. CASE IsVariable(n)
    <3>1. PICK some : some = {i \in DOMAIN n.blocks : BlockStart(n, i, bs) <= off} \cup {1}
      OBVIOUS
    <3>2. some = 1..k
      <4>1. \A i \in 1..len : BlockStart(n, i, bs) <= off <=> i <= k
        BY <1>3, <1>6
      <4> QED
        BY <1>2, <3>1, <4>1
    <3>3. \A x \in 1..k : (\A y \in 1..k : x >= y) <=> x = k
      BY <1>6
    <3>4. k \in 1..k
      BY <1>6
    <3>5. SeqOps!Max(1..k) = k
      BY <3>3, <3>4 DEF SeqOps!Max
    <3> QED
      BY <2>1, <3>1, <3>2, <3>5, Zenon DEF FirstBlock
  <2>2. CASE ~IsVariable(n)
    <3>1. bs \in Nat \ {0}
      BY <1>1 DEF IsWhole, BlockSize, DefaultBlockSize
    <3>2. h[k - 1] = (k - 1) * bs
      BY <1>3, <2>2, Zenon DEF BlockStart
    <3>3. h[k] <= h[k - 1] + bs
      <4>1. Len(n.blocks[k]) <= bs
        BY <1>1, <1>2, <2>2, Zenon DEF IsWhole
      <4>2. h[k] = h[k - 1] + Len(n.blocks[k]) /\ h[k] \in Nat /\ h[k - 1] \in Nat
        <5>1. k \in 0..len /\ k - 1 \in 0..len
          BY <1>2
        <5> QED
          BY <1>3, <1>5, <5>1, Zenon
      <4>3. n.blocks[k] \in Seq(Nat)
        <5>1. n.blocks \in [1..len -> Seq(Nat)]
          BY <1>1, LenProperties, Zenon DEF IsWhole
        <5> QED
          BY <5>1
      <4>4. Len(n.blocks[k]) \in Nat
        BY <4>3
      <4> QED
        BY <3>1, <4>1, <4>2, <4>4
    <3>4. PICK q \in Nat : q = k - 1
      BY <1>6
    <3>5. PICK r \in Nat : r = off - q * bs
      <4>1. h[k - 1] <= off /\ h[k - 1] \in Nat /\ h[k - 1] = q * bs
        BY <1>2, <1>5, <1>6, <3>2, <3>4
      <4>2. off - q * bs \in Nat
        BY <4>1
      <4> QED
        BY <4>2
    <3>6. off = q * bs + r /\ r < bs
      <4>1. q * bs \in Nat /\ off = q * bs + r
        BY <3>1, <3>5
      <4>2. off < q * bs + bs
        <5>1. off < h[k] /\ h[k] \in Nat /\ h[k - 1] = q * bs
          BY <1>2, <1>5, <1>6, <3>2, <3>4
        <5> QED
          BY <3>1, <3>3, <4>1, <5>1
      <4> QED
        BY <3>1, <3>5, <4>1, <4>2
    <3>7. off \div bs = q
      BY <3>1, <3>6
    <3>8. off \div bs + 1 = k
      BY <3>4, <3>7
    <3> QED
      BY <2>2, <3>8, Zenon DEF FirstBlock
  <2> QED
    BY <2>1, <2>2
<1> QED
  BY <1>1, <1>6, <1>7

\* Where the part of the file that lies in block i and in [off, end) begins
\* and ends.
From(h, i, off) == IF h[i - 1] >= off THEN h[i - 1] ELSE off
To(h, i, end) == IF h[i] <= end THEN h[i] ELSE end

\* Of the part of all between a and b, what lies between from and to in it is
\* the part of all between c and d.
Within(all, a, b, from, to, c, d) ==
  /\ all \in Seq(Nat) /\ a \in Nat /\ b \in a..Len(all)
  /\ from \in Nat /\ to \in from..b - a /\ a + from = c /\ a + to = d
IsWithin(all, a, b, from, to, c, d) ==
  SubSeq(SubSeq(all, a + 1, b), from + 1, to) = SubSeq(all, c + 1, d)

LEMMA PartWithin ==
  ASSUME NEW all, NEW a, NEW b, NEW from, NEW to, NEW c, NEW d,
         Within(all, a, b, from, to, c, d)
  PROVE  IsWithin(all, a, b, from, to, c, d)
<1>1. /\ all \in Seq(Nat) /\ a \in Nat /\ b \in a..Len(all)
      /\ from \in Nat /\ to \in from..b - a /\ a + from = c /\ a + to = d
  BY Zenon DEF Within
<1>2. SubSeq(SubSeq(all, a + 1, b), from + 1, to) = SubSeq(all, (a + from) + 1, a + to)
  BY <1>1, PartOfPart, ZenonT(60)
<1> QED
  BY <1>1, <1>2, Zenon DEF IsWithin

\* The part of all between a and b overlaps that between off and end; from and
\* to cut what they share out of the former.
Cut(all, a, b, off, end) ==
  /\ all \in Seq(Nat) /\ a \in Nat /\ b \in a..Len(all)
  /\ off \in Nat /\ end \in Nat /\ off < b /\ a < end /\ off < end
IsCut(all, a, b, off, end, from, to) ==
  /\ ~(from > to)
  /\ SubSeq(SubSeq(all, a + 1, b), from + 1, to) =
       SubSeq(all, (IF a >= off THEN a ELSE off) + 1, IF b <= end THEN b ELSE end)

LEMMA PartInBoth ==
  ASSUME NEW all, NEW a, NEW b, NEW off, NEW end, Cut(all, a, b, off, end),
         NEW from, from = SeqOps!Max({0, off - a}),
         NEW to, to = SeqOps!Min({b - a, end - a})
  PROVE  IsCut(all, a, b, off, end, from, to)
<1>0. /\ all \in Seq(Nat) /\ a \in Nat /\ b \in a..Len(all) /\ Len(all) \in Nat
      /\ off \in Nat /\ end \in Nat /\ off < b /\ a < end /\ off < end
  BY DEF Cut
<1>1. PICK x, y, z \in Int : x = off - a /\ y = b - a /\ z = end - a
  BY <1>0
<1>2. from = IF 0 >= x THEN 0 ELSE x
  <2>1. 0 \in Int /\ x \in Int
    OBVIOUS
  <2>2. SeqOps!Max({0, x}) = IF 0 >= x THEN 0 ELSE x
    BY <2>1, OfTwo, Zenon
  <2> QED
    BY <1>1, <2>2, Zenon
<1>3. to = IF y <= z THEN y ELSE z
  <2>1. SeqOps!Min({y, z}) = IF y <= z THEN y ELSE z
    BY <1>1, OfTwo, Zenon
  <2> QED
    BY <1>1, <2>1, Zenon
<1>4. PICK c, d : c = (IF a >= off THEN a ELSE off) /\ d = (IF b <= end THEN b ELSE end)
  OBVIOUS
<1>5. from \in Nat /\ to \in from..b - a /\ a + from = c /\ a + to = d
  <2>0. b \in Nat /\ a <= b
    BY <1>0
  <2>1. from \in Nat /\ a + from = c
    BY <1>0, <1>1, <1>2, <1>4
  <2>2. to \in Nat /\ a + to = d /\ to <= b - a
    BY <1>0, <1>1, <1>3, <1>4, <2>0
  <2>3. c <= d
    BY <1>0, <1>4, <2>0
  <2> QED
    BY <1>0, <2>0, <2>1, <2>2, <2>3
<1>6. SubSeq(SubSeq(all, a + 1, b), from + 1, to) = SubSeq(all, c + 1, d)
  <2>1. Within(all, a, b, from, to, c, d)
    BY <1>0, <1>5, Zenon DEF Within
  <2> QED
    <3>1. IsWithin(all, a, b, from, to, c, d)
      BY <2>1, PartWithin, Zenon
    <3> QED
      BY <3>1, Zenon DEF IsWithin
<1>7. ~(from > to)
  BY <1>5
<1> QED
  BY <1>4, <1>6, <1>7, Zenon DEF IsCut

\* Block i of a whole file has a byte of [off, end).
Reached(n, bs, h, i, off, end) ==
  /\ Lies(h, n, bs) /\ Len(n.blocks) \in Nat /\ n.size \in Nat
  /\ Len(Content(n)) = n.size /\ i \in 1..Len(n.blocks)
  /\ off \in Nat /\ end \in Nat /\ off < end /\ end <= n.size
  /\ off < h[i] /\ h[i - 1] < end
\* The piece that the loop takes of it is what lies in both.
IsPiece(n, bs, h, i, off, end) ==
  /\ ~(Piece(n, i, off, end, bs).from > Piece(n, i, off, end, bs).to)
  /\ SubSeq(n.blocks[i], Piece(n, i, off, end, bs).from + 1, Piece(n, i, off, end, bs).to) =
       SubSeq(Content(n), From(h, i, off) + 1, To(h, i, end))

LEMMA PieceIs ==
  ASSUME NEW n, NEW bs, NEW h, NEW i, NEW off, NEW end, Reached(n, bs, h, i, off, end)
  PROVE  IsPiece(n, bs, h, i, off, end)
<1>0. /\ Lies(h, n, bs) /\ Len(n.blocks) \in Nat /\ n.size \in Nat
      /\ Len(Content(n)) = n.size /\ i \in 1..Len(n.blocks)
      /\ off \in Nat /\ end \in Nat /\ off < end /\ end <= n.size
      /\ off < h[i] /\ h[i - 1] < end
  BY Zenon DEF Reached
<1>1. PICK a, b, all, block : /\ a = h[i - 1] /\ b = h[i]
                              /\ all = Content(n) /\ block = n.blocks[i]
  OBVIOUS
<1>2. i \in 0..Len(n.blocks) /\ i - 1 \in 0..Len(n.blocks) /\ i - 1 \in 0..i
  BY <1>0
<1>3. a \in 0..n.size /\ b \in 0..n.size /\ a <= b /\ b = a + Len(block) /\ Len(block) \in Nat
  BY <1>0, <1>1, <1>2, Zenon DEF Lies
<1>4. all \in Seq(Nat) /\ block = SubSeq(all, a + 1, b) /\ BlockStart(n, i, bs) = a
  BY <1>0, <1>1, <1>2, Zenon DEF Lies
<1>5. a \in Nat /\ b \in a..n.size /\ Len(block) = b - a
  BY <1>0, <1>3
<1>6. PICK from, to : from = SeqOps!Max({0, off - a}) /\ to = SeqOps!Min({b - a, end - a})
  OBVIOUS
<1>7. Piece(n, i, off, end, bs) = [from |-> from, to |-> to]
  BY <1>1, <1>4, <1>5, <1>6, Zenon DEF Piece
<1>8. Piece(n, i, off, end, bs).from = from /\ Piece(n, i, off, end, bs).to = to
  BY <1>7
<1>9. off < b /\ a < end /\ b \in a..Len(all)
  BY <1>0, <1>1, <1>5, Zenon
<1>10. /\ ~(from > to)
       /\ SubSeq(SubSeq(all, a + 1, b), from + 1, to) =
            SubSeq(all, (IF a >= off THEN a ELSE off) + 1, IF b <= end THEN b ELSE end)
  <2>1. Cut(all, a, b, off, end)
    BY <1>0, <1>4, <1>5, <1>9, Zenon DEF Cut
  <2> QED
    <3>1. IsCut(all, a, b, off, end, from, to)
      BY <1>6, <2>1, PartInBoth, Zenon
    <3> QED
      BY <3>1, Zenon DEF IsCut
<1> QED
  BY <1>1, <1>4, <1>8, <1>10, Zenon DEF IsPiece, From, To

\* A read that begins inside of the file.
LEMMA ReadsInside ==
  ASSUME NEW n, NEW blockSize, NEW stores, IsWhole(n, blockSize),
         NEW off \in Nat, off < n.size, NEW length \in Nat \ {0}
  PROVE  ReadAt(n, off, length, blockSize, stores) =
           IF \A block \in Overlapping(n, off, length) : CanGet(stores, block)
             THEN Data(Slice(n, off, length)) ELSE Error
<1>1. PICK len, bs, all, size : /\ len = Len(n.blocks) /\ bs = BlockSize(blockSize)
                                /\ all = Content(n) /\ size = n.size
  OBVIOUS
<1>2. PICK h : Lies(h, n, bs)
  BY <1>1, WholeLies
<1>3. len \in Nat /\ DOMAIN n.blocks = 1..len
  BY <1>1, LenProperties, Zenon DEF IsWhole
<1>4. /\ all \in Seq(Nat) /\ h[0] = 0 /\ h[len] = size
      /\ \A k \in 0..len : h[k] \in 0..size /\ \A i \in 0..k : h[i] <= h[k]
      /\ \A k \in 0..len : Len(SeqOps!FlattenSeq(SubSeq(n.blocks, 1, k))) = h[k]
      /\ \A k \in 1..len : h[k] = h[k - 1] + Len(n.blocks[k])
      /\ \A k \in 1..len : Len(n.blocks[k]) \in Nat \ {0}
      /\ \A k \in 1..len : BlockStart(n, k, bs) = h[k - 1]
  BY <1>1, <1>2, Zenon DEF Lies
<1>5. size \in Nat /\ Len(all) = size
  <2>1. size = Len(all)
    BY <1>1, Zenon DEF IsWhole
  <2> QED
    BY <1>4, <2>1
<1>6. PICK end \in Nat : /\ end = SeqOps!Min({off + length, n.size})
                         /\ end = IF off + length <= size THEN off + length ELSE size
  <2>1. PICK stop \in Int : stop = off + length
    OBVIOUS
  <2>2. size \in Int
    BY <1>5
  <2>3. SeqOps!Min({stop, size}) = IF stop <= size THEN stop ELSE size
    BY <2>1, <2>2, OfTwo, Zenon
  <2>4. PICK end : end = IF stop <= size THEN stop ELSE size
    OBVIOUS
  <2>5. end \in Nat
    BY <1>5, <2>1, <2>4
  <2> QED
    BY <1>1, <2>1, <2>3, <2>4, <2>5, Zenon
<1>7. off < end /\ end <= size /\ off < size
  <2>1. off < size
    BY <1>1
  <2> QED
    BY <1>5, <1>6, <2>1
<1>8. Rises(h, len)
  BY <1>3, <1>4, <1>5 DEF Rises
<1>9. PICK last : IsLastBelow(last, h, len, end)
  <2>1. h[0] < end /\ end <= h[len]
    BY <1>4, <1>7
  <2> QED
    BY <1>8, <2>1, LastBelow
<1>10. PICK first : /\ first = FirstBlock(n, off, bs)
                    /\ first \in 1..len /\ h[first - 1] <= off /\ off < h[first]
  BY <1>1, <1>2, FirstBlockIs, Zenon
<1>11. /\ last \in 1..len /\ h[last - 1] < end /\ end <= h[last]
       /\ \A i \in 1..len : h[i - 1] < end <=> i <= last
  BY <1>9 DEF IsLastBelow
<1>12. \A i \in 0..len : h[i] \in Nat
  BY <1>4, <1>5
<1>13. first <= last
  <2>1. h[first - 1] < end
    <3>1. first - 1 \in 0..len
      BY <1>3, <1>10
    <3>2. h[first - 1] \in Nat
      BY <1>12, <3>1
    <3> QED
      BY <1>7, <1>10, <3>2
  <2> QED
    BY <1>10, <1>11, <2>1
<1>14. \A i \in 1..len : off < h[i] <=> i >= first
  <2> TAKE i \in 1..len
  <2>1. CASE i >= first
    <3>1. first \in 0..i /\ i \in 0..len /\ first \in 0..len
      BY <1>3, <1>10, <2>1
    <3>2. h[first] <= h[i] /\ h[i] \in Nat /\ h[first] \in Nat
      BY <1>4, <1>12, <3>1
    <3> QED
      BY <1>10, <2>1, <3>2
  <2>2. CASE ~(i >= first)
    <3>1. i \in 0..first - 1 /\ first - 1 \in 0..len /\ i \in 0..len
      BY <1>3, <1>10, <2>2
    <3>2. h[i] <= h[first - 1] /\ h[i] \in Nat /\ h[first - 1] \in Nat
      BY <1>4, <1>12, <3>1
    <3> QED
      BY <1>10, <2>2, <3>2
  <2> QED
    BY <2>1, <2>2
<1>15. PICK used : used = {i \in DOMAIN n.blocks : i >= first /\ BlockStart(n, i, bs) < end}
  OBVIOUS
<1>16. used = first..last
  <2>1. \A i \in 1..len : BlockStart(n, i, bs) < end <=> i <= last
    BY <1>4, <1>11
  <2> QED
    BY <1>3, <1>10, <1>11, <1>15, <2>1
<1>17. PICK count \in Nat \ {0} : count = last - first + 1 /\ Cardinality(used) = count
  <2>1. first \in Int /\ last \in Int /\ last - first + 1 \in Nat \ {0}
    BY <1>3, <1>10, <1>11, <1>13
  <2>2. Cardinality(first..last) = last - first + 1
    BY <1>13, <2>1, FS_Interval
  <2> QED
    BY <1>16, <2>1, <2>2
<1> DEFINE piece(i) == Piece(n, i, off, end, bs)
           bytes(i) == SubSeq(n.blocks[i], piece(i).from + 1, piece(i).to)
<1>18. ASSUME NEW i \in used
       PROVE  /\ ~(piece(i).from > piece(i).to)
              /\ bytes(i) = SubSeq(all, From(h, i, off) + 1, To(h, i, end))
  <2>1. i \in 1..len /\ off < h[i] /\ h[i - 1] < end
    BY <1>3, <1>10, <1>11, <1>14, <1>16
  <2>2. Reached(n, bs, h, i, off, end)
    BY <1>1, <1>2, <1>3, <1>5, <1>7, <2>1, Zenon DEF Reached
  <2> QED
    <3>1. IsPiece(n, bs, h, i, off, end)
      BY <2>2, PieceIs, Zenon
    <3> QED
      BY <1>1, <3>1, Zenon DEF IsPiece
<1> HIDE DEF bytes, piece
<1>19. PICK seqs : seqs = [k \in 1..count |-> bytes(first + k - 1)]
  OBVIOUS
<1>20. PICK e : e = [k \in 0..count |-> IF k = 0 THEN off ELSE To(h, first + k - 1, end)]
  OBVIOUS
<1>21. e[0] = off /\ e[count] = end
  <2>1. count # 0 /\ count \in 0..count /\ first + count - 1 = last
    BY <1>3, <1>10, <1>11, <1>17
  <2>2. h[last] \in Nat
    BY <1>3, <1>11, <1>12
  <2>3. To(h, last, end) = end
    BY <1>11, <2>2 DEF To
  <2> QED
    BY <1>20, <2>1, <2>3
<1>22. PartsOf(Nat, all, count, e, seqs)
  <2>1. ASSUME NEW k \in 1..count
        PROVE  /\ e[k] \in 0..size /\ e[k - 1] <= e[k]
               /\ seqs[k] = SubSeq(all, e[k - 1] + 1, e[k])
    <3>1. PICK i : i = first + k - 1
      OBVIOUS
    <3>2. i \in used /\ i \in 1..len /\ i >= first /\ i <= last
          /\ (k = 1 <=> i = first) /\ k \in 0..count /\ k - 1 \in 0..count
      <4>1. first \in Nat /\ last \in Nat /\ last <= len /\ first >= 1
        BY <1>3, <1>10, <1>11
      <4>2. i \in first..last /\ (k = 1 <=> i = first) /\ k \in 0..count /\ k - 1 \in 0..count
        BY <1>17, <3>1, <4>1
      <4> QED
        BY <1>3, <1>16, <4>1, <4>2
    <3>3. PICK a, b : a = h[i - 1] /\ b = h[i]
      OBVIOUS
    <3>4. a \in Nat /\ b \in Nat /\ a < b /\ b <= size /\ off < b /\ a < end
      <4>1. i - 1 \in 0..len /\ i \in 0..len
        BY <1>3, <3>2
      <4>2. a \in Nat /\ b \in 0..size /\ b = a + Len(n.blocks[i]) /\ Len(n.blocks[i]) \in Nat \ {0}
        BY <1>4, <1>12, <3>2, <3>3, <4>1
      <4>3. off < b /\ a < end
        BY <1>11, <1>14, <3>2, <3>3
      <4> QED
        BY <1>5, <4>2, <4>3
    <3>5. e[k] = To(h, i, end) /\ To(h, i, end) = IF b <= end THEN b ELSE end
      BY <1>20, <3>1, <3>2, <3>3 DEF To
    <3>6. e[k - 1] = From(h, i, off) /\ From(h, i, off) = IF a >= off THEN a ELSE off
      <4>1. From(h, i, off) = IF a >= off THEN a ELSE off
        BY <3>3 DEF From
      <4>2. CASE k = 1
        <5>1. a <= off /\ e[0] = off
          BY <1>10, <1>21, <3>2, <3>3, <4>2
        <5> QED
          BY <3>4, <4>1, <4>2, <5>1
      <4>3. CASE k # 1
        <5>1. i - 1 \in 1..len /\ i - 1 >= first /\ k - 1 # 0 /\ first + (k - 1) - 1 = i - 1
          BY <1>3, <1>10, <3>1, <3>2, <4>3
        <5>2. off < a
          BY <1>14, <3>3, <5>1
        <5>3. e[k - 1] = To(h, i - 1, end)
          BY <1>20, <3>2, <5>1
        <5>4. To(h, i - 1, end) = a
          BY <3>3, <3>4 DEF To
        <5> QED
          BY <3>4, <4>1, <5>2, <5>3, <5>4
      <4> QED
        BY <4>2, <4>3, <4>1
    <3>7. seqs[k] = bytes(i)
      BY <1>19, <3>1
    <3>8. e[k] \in 0..size /\ e[k - 1] <= e[k]
      BY <1>5, <1>7, <3>4, <3>5, <3>6
    <3> QED
      BY <1>18, <3>2, <3>5, <3>6, <3>7, <3>8, Zenon
  <2>2. \A k \in 0..count : e[k] \in 0..Len(all)
    <3> TAKE k \in 0..count
    <3>1. CASE k = 0
      BY <1>5, <1>7, <1>21, <3>1
    <3>2. CASE k # 0
      BY <1>5, <2>1, <3>2
    <3> QED
      BY <3>1, <3>2
  <2>3. Len(seqs) = count /\ DOMAIN seqs = 1..count
    BY <1>17, <1>19
  <2>4. seqs \in [1..count -> Seq(Nat)]
    <3>1. ASSUME NEW k \in 1..count PROVE seqs[k] \in Seq(Nat)
      <4>1. PICK a, b : a = e[k - 1] /\ b = e[k]
        OBVIOUS
      <4>2. a \in Nat /\ b \in a..Len(all) /\ seqs[k] = SubSeq(all, a + 1, b)
        <5>1. k - 1 \in 0..count /\ k \in 0..count
          BY <1>17
        <5>2. a \in 0..Len(all) /\ b \in 0..Len(all) /\ a <= b
          BY <2>1, <2>2, <4>1, <5>1
        <5> QED
          BY <1>5, <2>1, <4>1, <5>2
      <4> QED
        BY <1>4, <4>2, Part
    <3> QED
      BY <1>19, <3>1
  <2>5. count \in Nat
    OBVIOUS
  <2> QED
    BY <1>4, <2>1, <2>2, <2>3, <2>4, <2>5, Zenon DEF PartsOf
<1>23. SeqOps!FlattenSeq(seqs) = Slice(n, off, length)
  <2>1. SeqOps!FlattenSeq(seqs) = SubSeq(all, e[0] + 1, e[count])
    BY <1>22, FlattenParts
  <2> QED
    BY <1>1, <1>6, <1>21, <2>1, Zenon DEF Slice
<1>24. Overlapping(n, off, length) = {n.blocks[i] : i \in used}
  <2> DEFINE begin(i) == Len(SeqOps!FlattenSeq(SubSeq(n.blocks, 1, i - 1)))
             ends(i) == begin(i) + Len(n.blocks[i])
  <2>1. ASSUME NEW i \in 1..len
        PROVE  SeqOps!Max({begin(i), off}) < SeqOps!Min({ends(i), off + length}) <=> i \in used
    <3>1. PICK a, b : a = h[i - 1] /\ b = h[i]
      OBVIOUS
    <3>2. begin(i) = a /\ ends(i) = b
      <4>1. i - 1 \in 0..len
        BY <1>3
      <4> QED
        BY <1>4, <3>1, <4>1
    <3>3. a \in Nat /\ b \in Nat /\ a < b /\ b <= size
          /\ a \in Int /\ b \in Int /\ off \in Int
      <4>1. i - 1 \in 0..len /\ i \in 0..len
        BY <1>3
      <4>2. a \in Nat /\ b \in 0..size /\ b = a + Len(n.blocks[i]) /\ Len(n.blocks[i]) \in Nat \ {0}
        BY <1>4, <1>12, <3>1, <4>1
      <4> QED
        BY <1>5, <4>2
    <3>4. i \in used <=> off < b /\ a < end
      BY <1>3, <1>10, <1>11, <1>14, <1>16, <3>1
    <3>5. PICK stop \in Int : stop = off + length
      OBVIOUS
    <3>6. /\ SeqOps!Max({a, off}) = IF a >= off THEN a ELSE off
          /\ SeqOps!Min({b, stop}) = IF b <= stop THEN b ELSE stop
      BY <3>3, <3>5, OfTwo, Zenon
    <3>7. (IF a >= off THEN a ELSE off) < (IF b <= stop THEN b ELSE stop) <=> off < b /\ a < end
      BY <1>5, <1>6, <3>3, <3>5
    <3> QED
      BY <3>2, <3>4, <3>5, <3>6, <3>7, Zenon
  <2>2. Overlapping(n, off, length) =
          {n.blocks[i] : i \in {j \in DOMAIN n.blocks :
             SeqOps!Max({begin(j), off}) < SeqOps!Min({ends(j), off + length})}}
    BY Zenon DEF Overlapping
  <2> HIDE DEF begin, ends
  <2>3. {j \in DOMAIN n.blocks :
           SeqOps!Max({begin(j), off}) < SeqOps!Min({ends(j), off + length})} = used
    BY <1>3, <1>15, <2>1, Zenon
  <2> QED
    BY <2>2, <2>3, Zenon
<1>25. ReadAt(n, off, length, blockSize, stores) =
         IF \E i \in used : ~CanGet(stores, n.blocks[i]) \/ piece(i).from > piece(i).to THEN Error
         ELSE Data(SeqOps!FlattenSeq(seqs))
  <2>1. ~(off < 0 \/ off >= n.size \/ length <= 0)
    BY <1>1, <1>5, <1>7
  <2>2. ReadAt(n, off, length, blockSize, stores) =
          IF \E i \in used : ~CanGet(stores, n.blocks[i]) \/ piece(i).from > piece(i).to THEN Error
          ELSE Data(SeqOps!FlattenSeq([k \in 1..Cardinality(used) |-> bytes(first + k - 1)]))
    BY <1>1, <1>6, <1>10, <1>15, <2>1, Zenon DEF ReadAt, piece, bytes
  <2> QED
    BY <1>17, <1>19, <2>2, Zenon
<1>26. (\E i \in used : ~CanGet(stores, n.blocks[i]) \/ piece(i).from > piece(i).to)
         <=> ~(\A block \in Overlapping(n, off, length) : CanGet(stores, block))
  <2>1. \A i \in used : ~(piece(i).from > piece(i).to)
    BY <1>18
  <2> QED
    BY <1>24, <2>1, Zenon
<1> QED
  BY <1>23, <1>25, <1>26, Zenon

\* No block has a byte of an empty part.
LEMMA ReadsOutside ==
  ASSUME NEW n, NEW blockSize, NEW stores, IsWhole(n, blockSize),
         NEW off \in Nat, NEW length \in Nat, off >= n.size \/ length = 0
  PROVE  /\ ReadAt(n, off, length, blockSize, stores) = Data(<<>>)
         /\ Slice(n, off, length) = <<>> /\ Overlapping(n, off, length) = {}
<1>1. PICK len, all, size : len = Len(n.blocks) /\ all = Content(n) /\ size = n.size
  OBVIOUS
<1>2. PICK h : Lies(h, n, BlockSize(blockSize))
  BY WholeLies
<1>3. len \in Nat /\ DOMAIN n.blocks = 1..len
  BY <1>1, LenProperties, Zenon DEF IsWhole
<1>4. /\ all \in Seq(Nat) /\ size = Len(all) /\ h[len] = size
      /\ \A k \in 0..len : h[k] \in 0..size
      /\ \A k \in 0..len : Len(SeqOps!FlattenSeq(SubSeq(n.blocks, 1, k))) = h[k]
      /\ \A k \in 1..len : h[k] = h[k - 1] + Len(n.blocks[k])
  BY <1>1, <1>2, Zenon DEF Lies, IsWhole
<1>5. PICK stop \in Int : stop = off + length
  OBVIOUS
<1>6. size \in Int /\ (off >= size \/ stop = off)
  BY <1>1, <1>4, <1>5
<1>7. SeqOps!Min({stop, size}) = IF stop <= size THEN stop ELSE size
  BY <1>6, OfTwo, Zenon
<1>8. Slice(n, off, length) = <<>>
  <2>1. PICK end \in Int : end = IF stop <= size THEN stop ELSE size
    BY <1>6
  <2>2. off + 1 \in Int /\ end < off + 1
    BY <1>6, <2>1
  <2>3. SubSeq(all, off + 1, end) = <<>>
    BY <2>2, SubSeqEmpty
  <2> QED
    BY <1>1, <1>5, <1>7, <2>1, <2>3, Zenon DEF Slice
<1>9. Overlapping(n, off, length) = {}
  <2> DEFINE begin(i) == Len(SeqOps!FlattenSeq(SubSeq(n.blocks, 1, i - 1)))
             ends(i) == begin(i) + Len(n.blocks[i])
  <2>1. ASSUME NEW i \in 1..len
        PROVE  ~(SeqOps!Max({begin(i), off}) < SeqOps!Min({ends(i), off + length}))
    <3>1. i - 1 \in 0..len /\ i \in 0..len
      BY <1>3
    <3>2. PICK a, b : a = h[i - 1] /\ b = h[i]
      OBVIOUS
    <3>3. begin(i) = a /\ ends(i) = b
      BY <1>4, <3>1, <3>2
    <3>4. a \in Int /\ b \in Int /\ off \in Int /\ b <= size
      BY <1>4, <1>6, <3>1, <3>2
    <3>5. /\ SeqOps!Max({a, off}) = IF a >= off THEN a ELSE off
          /\ SeqOps!Min({b, stop}) = IF b <= stop THEN b ELSE stop
      BY <3>4, OfTwo, Zenon
    <3>6. ~((IF a >= off THEN a ELSE off) < (IF b <= stop THEN b ELSE stop))
      BY <1>6, <3>4
    <3> QED
      BY <1>5, <3>3, <3>5, <3>6, Zenon
  <2>2. Overlapping(n, off, length) =
          {n.blocks[i] : i \in {j \in DOMAIN n.blocks :
             SeqOps!Max({begin(j), off}) < SeqOps!Min({ends(j), off + length})}}
    BY Zenon DEF Overlapping
  <2> HIDE DEF begin, ends
  <2> QED
    BY <1>3, <2>1, <2>2, Zenon
<1>10. ReadAt(n, off, length, blockSize, stores) = Data(<<>>)
  <2>1. off < 0 \/ off >= n.size \/ length <= 0
    OBVIOUS
  <2> QED
    BY <2>1, Zenon DEF ReadAt
<1> QED
  BY <1>8, <1>9, <1>10

\* readAt and readAtVariable give exactly the bytes asked for, for blocks of any
\* sizes and reads that begin and end anywhere; and fail just where a block
\* that has one of those bytes is lost.
THEOREM ReadsExactly ==
  ASSUME NEW n, NEW blockSize, NEW stores, IsWhole(n, blockSize),
         NEW off \in Nat, NEW length \in Nat
  PROVE  ReadAt(n, off, length, blockSize, stores) =
           IF \A block \in Overlapping(n, off, length) : CanGet(stores, block)
             THEN Data(Slice(n, off, length)) ELSE Error
<1>1. CASE off >= n.size \/ length = 0
  BY <1>1, ReadsOutside
<1>2. CASE ~(off >= n.size \/ length = 0)
  <2>1. n.size \in Nat
    <3>1. PICK h : Lies(h, n, BlockSize(blockSize))
      BY WholeLies
    <3> QED
      BY <3>1 DEF Lies, IsWhole
  <2>2. off < n.size /\ length \in Nat \ {0}
    BY <1>2, <2>1
  <2> QED
    BY <2>2, ReadsInside
<1> QED
  BY <1>1, <1>2
=============================================================================
