----------------------------- MODULE FoldProofs -----------------------------
(***************************************************************************)
(* Induction over data, without predicates as parameters: induction over   *)
(* the naturals and over the subsets of a finite set, and what a fold over *)
(* a sequence or a set computes, one element at a time.  The operator that *)
(* is folded is a constant of this module: a module that folds             *)
(* instantiates it once for each operator.                                 *)
(*                                                                         *)
(* The folds themselves are those of SequencesExt and FiniteSetsExt, which *)
(* choose a function over the subsets of a set; to use it, one must know   *)
(* that such a function is there (FollowsExists, FoldAdds).                *)
(***************************************************************************)
EXTENDS Integers, Sequences, FiniteSetTheorems, TLAPS

CONSTANT op(_, _, _)

LEMMA NatInduct ==
  ASSUME NEW T, 0 \in T, \A n \in Nat : n \in T => n + 1 \in T
  PROVE  \A n \in Nat : n \in T
<1> DEFINE R == {x \in Nat \X Nat : x[1] < x[2]}
<1>1. IsWellFoundedOn(R, Nat)
  BY NatLessThanWellFounded DEF OpToRel
<1> SUFFICES ASSUME NEW z \in Nat \ T PROVE FALSE
  OBVIOUS
<1>2. PICK x \in Nat \ T : \A y \in Nat \ T : ~ (<<y, x>> \in R)
  <2> HIDE DEF R
  <2>1. PICK U : U = Nat \ T
    OBVIOUS
  <2>2. U \subseteq Nat /\ U # {}
    BY <2>1
  <2>3. \E x \in U : \A y \in U : ~ (<<y, x>> \in R)
    BY <1>1, <2>2, WFMin
  <2> QED
    BY <2>1, <2>3
<1>3. x # 0 /\ x - 1 \in Nat /\ <<x - 1, x>> \in R
  BY <1>2
<1>4. x - 1 \in T
  BY <1>2, <1>3
<1> QED
  BY <1>2, <1>3, <1>4

\* The same for the numbers up to n.
LEMMA UpTo ==
  ASSUME NEW n \in Nat, NEW T, 0 \in T, \A k \in 1..n : k - 1 \in T => k \in T
  PROVE  \A k \in 0..n : k \in T
<1> DEFINE U == {k \in Nat : k <= n => k \in T}
<1>1. 0 \in U
  OBVIOUS
<1>2. ASSUME NEW k \in Nat, k \in U PROVE k + 1 \in U
  <2> SUFFICES ASSUME k + 1 <= n PROVE k + 1 \in T
    OBVIOUS
  <2>1. k \in T /\ k + 1 \in 1..n /\ (k + 1) - 1 = k
    BY <1>2
  <2> QED
    BY <2>1
<1> HIDE DEF U
<1>3. \A k \in Nat : k \in U
  BY <1>1, <1>2, NatInduct
<1> QED
  BY <1>3 DEF U

-----------------------------------------------------------------------------
(* Folds.                                                                  *)

\* How the fold over a sequence picks the element to take last.
Greatest(s) == CHOOSE x \in s : \A y \in s : x >= y

LEMMA GreatestIs ==
  ASSUME NEW k \in Nat, NEW s, s \subseteq 1..k, k \in s
  PROVE  Greatest(s) = k
<1>1. \A y \in s : k >= y
  OBVIOUS
<1>2. \A x \in s : (\A y \in s : x >= y) => x = k
  OBVIOUS
<1> QED
  BY <1>1, <1>2 DEF Greatest

LEMMA GreatestOfFirst ==
  ASSUME NEW k \in Nat, k # 0
  PROVE  /\ 1..k # {} /\ Greatest(1..k) = k
         /\ (1..k) \ {k} = 1..(k - 1)
BY GreatestIs

\* f gives what op makes of base and the elements at each set of indices.
Follows(f, c, base, seq, indices) ==
  f = [s \in SUBSET indices |->
         IF s = {} THEN base
         ELSE op(c, f[s \ {Greatest(s)}], seq[Greatest(s)])]

\* FoldLeft(LAMBDA x, e : op(c, x, e), base, seq), its definition expanded.
Fold(c, base, seq) ==
  (CHOOSE f : Follows(f, c, base, seq, DOMAIN seq))[DOMAIN seq]

LEMMA FollowsExists ==
  ASSUME NEW c, NEW base, NEW seq, NEW n \in Nat
  PROVE  \E f : Follows(f, c, base, seq, 1..n)
<1> DEFINE Good(k) == \E f : Follows(f, c, base, seq, 1..k)
           T == {k \in Nat : Good(k)}
<1>1. Good(0)
  <2> DEFINE f == [s \in SUBSET (1..0) |-> base]
  <2>1. \A s \in SUBSET (1..0) : s = {}
    OBVIOUS
  <2>2. Follows(f, c, base, seq, 1..0)
    BY <2>1 DEF Follows
  <2> QED
    BY <2>2
<1>2. ASSUME NEW k \in Nat, Good(k)
      PROVE  Good(k + 1)
  <2>1. PICK f : Follows(f, c, base, seq, 1..k)
    BY <1>2
  <2>2. \A s \in SUBSET (1..k + 1) :
          /\ s \ {k + 1} \in SUBSET (1..k)
          /\ k + 1 \notin s => s \in SUBSET (1..k)
    OBVIOUS
  <2> DEFINE h == [s \in SUBSET (1..k + 1) |->
                     IF k + 1 \in s THEN op(c, f[s \ {k + 1}], seq[k + 1])
                     ELSE f[s]]
  <2>3. ASSUME NEW s \in SUBSET (1..k + 1)
        PROVE  h[s] = IF s = {} THEN base
                      ELSE op(c, h[s \ {Greatest(s)}], seq[Greatest(s)])
    <3>1. CASE k + 1 \in s
      <4>1. Greatest(s) = k + 1
        <5>1. k + 1 \in Nat /\ s \subseteq 1..k + 1
          OBVIOUS
        <5> QED
          BY <3>1, <5>1, GreatestIs
      <4>2. h[s \ {k + 1}] = f[s \ {k + 1}]
        BY <2>2
      <4> QED
        BY <3>1, <4>1, <4>2
    <3>2. CASE k + 1 \notin s
      <4>1. s \in SUBSET (1..k) /\ h[s] = f[s]
        BY <2>2, <3>2
      <4>2. h[s \ {Greatest(s)}] = f[s \ {Greatest(s)}]
        <5>1. /\ k + 1 \notin s \ {Greatest(s)}
              /\ s \ {Greatest(s)} \in SUBSET (1..k + 1)
          BY <3>2
        <5> QED
          BY <5>1
      <4> QED
        BY <2>1, <4>1, <4>2 DEF Follows
    <3> QED
      BY <3>1, <3>2
  <2>4. Follows(h, c, base, seq, 1..k + 1)
    <3> HIDE DEF h
    <3>1. h = [s \in SUBSET (1..k + 1) |-> h[s]]
      BY DEF h
    <3> QED
      BY <2>3, <3>1 DEF Follows
  <2> QED
    BY <2>4
<1>3. 0 \in T /\ \A k \in Nat : k \in T => k + 1 \in T
  <2> HIDE DEF Good
  <2> QED
    BY <1>1, <1>2
<1> HIDE DEF T
<1>4. n \in T
  BY <1>3, NatInduct
<1> QED
  BY <1>4 DEF T

\* A fold takes the elements one by one.
LEMMA FoldSteps ==
  ASSUME NEW n \in Nat, NEW seq, DOMAIN seq = 1..n, NEW c, NEW base
  PROVE  \E h : /\ h[0] = base /\ Fold(c, base, seq) = h[n]
                /\ \A k \in 1..n : h[k] = op(c, h[k - 1], seq[k])
<1> DEFINE f == CHOOSE g : Follows(g, c, base, seq, 1..n)
           h == [k \in 0..n |-> f[1..k]]
<1>1. Follows(f, c, base, seq, 1..n)
  BY FollowsExists
<1>2. Fold(c, base, seq) = h[n]
  BY DEF Fold
<1> HIDE DEF f
<1>3. h[0] = base
  <2>1. 1..0 = {} /\ {} \in SUBSET (1..n)
    OBVIOUS
  <2>2. f[1..0] = base
    BY <1>1, <2>1 DEF Follows
  <2> QED
    BY <2>2
<1>4. ASSUME NEW k \in 1..n PROVE h[k] = op(c, h[k - 1], seq[k])
  <2>1. 1..k \in SUBSET (1..n) /\ k \in Nat /\ k # 0
    OBVIOUS
  <2>2. 1..k # {} /\ Greatest(1..k) = k /\ (1..k) \ {k} = 1..(k - 1)
    BY <2>1, GreatestOfFirst
  <2>3. f[1..k] = op(c, f[1..(k - 1)], seq[k])
    BY <1>1, <2>1, <2>2 DEF Follows
  <2> QED
    BY <2>3
<1> HIDE DEF h
<1> QED
  BY <1>2, <1>3, <1>4

\* Induction over a fold.  T[k] holds the values that are allowed after k
\* elements, c what the operator depends on beside the value and the element.
LEMMA FoldInduct ==
  ASSUME NEW n \in Nat, NEW seq, DOMAIN seq = 1..n, NEW c, NEW T,
         NEW base \in T[0],
         \A k \in 1..n : \A x \in T[k - 1] : op(c, x, seq[k]) \in T[k]
  PROVE  Fold(c, base, seq) \in T[n]
<1>1. PICK h : /\ h[0] = base /\ Fold(c, base, seq) = h[n]
               /\ \A k \in 1..n : h[k] = op(c, h[k - 1], seq[k])
  BY FoldSteps
<1> DEFINE U == {k \in 0..n : h[k] \in T[k]}
<1>2. 0 \in U /\ \A k \in 1..n : k - 1 \in U => k \in U
  BY <1>1
<1> HIDE DEF U
<1>3. n \in U
  BY <1>2, UpTo
<1> QED
  BY <1>1, <1>3 DEF U

LEMMA FoldEmpty ==
  ASSUME NEW seq, DOMAIN seq = {}, NEW c, NEW base
  PROVE  Fold(c, base, seq) = base
<1> DEFINE T == [k \in 0..0 |-> {base}]
<1>1. 1..0 = {} /\ base \in T[0] /\ T[0] = {base}
  OBVIOUS
<1> HIDE DEF T
<1>2. Fold(c, base, seq) \in T[0]
  BY <1>1, FoldInduct
<1> QED
  BY <1>1, <1>2

\* The last element comes last.
LEMMA FoldLast ==
  ASSUME NEW n \in Nat, n # 0, NEW seq, DOMAIN seq = 1..n,
         NEW front, DOMAIN front = 1..(n - 1),
         \A k \in 1..(n - 1) : front[k] = seq[k], NEW c, NEW base
  PROVE  Fold(c, base, seq) = op(c, Fold(c, base, front), seq[n])
<1>1. PICK h : /\ h[0] = base /\ Fold(c, base, seq) = h[n]
               /\ \A k \in 1..n : h[k] = op(c, h[k - 1], seq[k])
  BY FoldSteps
<1>2. PICK m \in Nat : m = n - 1 /\ \A k \in 1..m : k \in 1..n
  OBVIOUS
<1> DEFINE T == [k \in 0..m |-> {h[k]}]
<1>3. base \in T[0]
  BY <1>1
<1>4. \A k \in 1..m : \A x \in T[k - 1] : op(c, x, front[k]) \in T[k]
  <2> SUFFICES ASSUME NEW k \in 1..m PROVE op(c, h[k - 1], front[k]) = h[k]
    OBVIOUS
  <2> QED
    BY <1>1, <1>2
<1>5. T[m] = {h[m]}
  OBVIOUS
<1> HIDE DEF T
<1>6. Fold(c, base, front) \in T[m]
  BY <1>2, <1>3, <1>4, FoldInduct
<1> QED
  BY <1>1, <1>2, <1>5, <1>6
-----------------------------------------------------------------------------
(* Sums over sets.                                                         *)

LEMMA SetInduct ==
  ASSUME NEW S, IsFiniteSet(S), NEW Good, {} \in Good,
         \A T \in SUBSET S : T # {} /\ (\A x \in T : T \ {x} \in Good) => T \in Good
  PROVE  \A T \in SUBSET S : T \in Good
<1> DEFINE U == {k \in Nat : \A T \in SUBSET S : Cardinality(T) = k => T \in Good}
<1>1. \A T \in SUBSET S : IsFiniteSet(T) /\ Cardinality(T) \in Nat
  BY FS_Subset, FS_CardinalityType
<1>2. 0 \in U
  BY <1>1, FS_EmptySet
<1>3. ASSUME NEW k \in Nat, k \in U PROVE k + 1 \in U
  <2> SUFFICES ASSUME NEW T \in SUBSET S, Cardinality(T) = k + 1 PROVE T \in Good
    OBVIOUS
  <2>1. T # {}
    BY FS_EmptySet
  <2>2. ASSUME NEW x \in T PROVE T \ {x} \in Good
    <3>1. T \ {x} \in SUBSET S
      OBVIOUS
    <3>2. Cardinality(T \ {x}) = k
      BY <1>1, FS_RemoveElement
    <3> QED
      BY <1>3, <3>1, <3>2
  <2> QED
    BY <2>1, <2>2
<1> HIDE DEF U
<1>4. \A k \in Nat : k \in U
  BY <1>2, <1>3, NatInduct
<1> QED
  BY <1>1, <1>4 DEF U

\* The sums of w over the subsets of S: whichever element is taken out first.
Sums(sum, w, S) ==
  /\ sum \in [SUBSET S -> Int] /\ sum[{}] = 0
  /\ \A T \in SUBSET S : \A x \in T : sum[T] = sum[T \ {x}] + w[x]

LEMMA OneMore ==
  ASSUME NEW S, NEW y, y \notin S, NEW w, \A x \in S \cup {y} : w[x] \in Int,
         NEW sum, Sums(sum, w, S)
  PROVE  \E more : Sums(more, w, S \cup {y})
<1>1. PICK all : all = S \cup {y}
  OBVIOUS
<1>2. PICK more : more = [T \in SUBSET all |->
                            IF y \in T THEN sum[T \ {y}] + w[y] ELSE sum[T]]
  OBVIOUS
<1>3. /\ \A T \in SUBSET all : y \notin T => T \in SUBSET S /\ more[T] = sum[T]
      /\ \A T \in SUBSET all : y \in T => T \ {y} \in SUBSET S
                                          /\ more[T] = sum[T \ {y}] + w[y]
  BY <1>1, <1>2
<1>4. sum[{}] = 0 /\ \A T \in SUBSET S : sum[T] \in Int
  BY DEF Sums
<1>5. more \in [SUBSET all -> Int]
  <2>1. ASSUME NEW T \in SUBSET all PROVE more[T] \in Int
    <3>1. w[y] \in Int
      OBVIOUS
    <3>2. CASE y \in T
      <4>1. PICK R, a : R = T \ {y} /\ a = sum[R]
        OBVIOUS
      <4>2. R \in SUBSET S /\ more[T] = a + w[y]
        BY <1>3, <3>2, <4>1
      <4>3. a \in Int
        BY <1>4, <4>1, <4>2
      <4> QED
        BY <3>1, <4>2, <4>3
    <3>3. CASE y \notin T
      BY <1>3, <1>4, <3>3
    <3> QED
      BY <3>2, <3>3
  <2> QED
    BY <1>2, <2>1
<1>6. more[{}] = 0
  BY <1>1, <1>3, <1>4
<1>7. ASSUME NEW T \in SUBSET all, NEW x \in T
      PROVE  more[T] = more[T \ {x}] + w[x]
  <2>1. PICK R : R = T \ {x} /\ R \in SUBSET all
    OBVIOUS
  <2>2. CASE y \notin T
    <3>1. T \in SUBSET S /\ more[T] = sum[T] /\ more[R] = sum[R]
      BY <1>3, <2>1, <2>2
    <3> QED
      BY <2>1, <3>1 DEF Sums
  <2>3. CASE x = y
    <3>1. y \notin R /\ R = T \ {y} /\ more[R] = sum[R]
      BY <1>3, <2>1, <2>3
    <3>2. more[T] = sum[R] + w[y]
      BY <1>3, <2>3, <3>1
    <3> QED
      BY <2>1, <2>3, <3>1, <3>2
  <2>4. CASE y \in T /\ x # y
    <3>1. PICK P, Q : P = T \ {y} /\ Q = P \ {x}
      OBVIOUS
    <3>2. P \in SUBSET S /\ Q \in SUBSET S /\ x \in P /\ y \in R /\ Q = R \ {y}
      BY <1>1, <2>1, <2>4, <3>1
    <3>3. more[T] = sum[P] + w[y] /\ more[R] = sum[Q] + w[y]
      BY <1>3, <2>1, <2>4, <3>1, <3>2
    <3>4. sum[P] = sum[Q] + w[x]
      BY <3>1, <3>2 DEF Sums
    <3>5. PICK a, b, c, d, e : /\ a = more[T] /\ b = more[R] /\ c = sum[P]
                               /\ d = sum[Q] /\ e = w[x]
      OBVIOUS
    <3>6. c \in Int /\ d \in Int
      BY <1>4, <3>2, <3>5
    <3>7. a = c + w[y] /\ b = d + w[y] /\ c = d + e
      BY <3>3, <3>4, <3>5
    <3>8. e \in Int => a = b + e
      BY <3>6, <3>7
    <3>9. e \in Int
      BY <1>1, <3>5
    <3> QED
      BY <2>1, <3>5, <3>8, <3>9
  <2> QED
    BY <2>2, <2>3, <2>4
<1>8. Sums(more, w, all)
  BY <1>5, <1>6, <1>7 DEF Sums
<1> QED
  BY <1>1, <1>8

LEMMA SumsExist ==
  ASSUME NEW S, IsFiniteSet(S), NEW w, \A x \in S : w[x] \in Int
  PROVE  \E sum : Sums(sum, w, S)
<1> DEFINE Good == {T \in SUBSET S : \E sum : Sums(sum, w, T)}
<1>1. {} \in Good
  <2>1. PICK sum : sum = [T \in SUBSET {} |-> 0]
    OBVIOUS
  <2>2. Sums(sum, w, {})
    BY <2>1 DEF Sums
  <2> QED
    BY <2>2
<1>2. ASSUME NEW T \in SUBSET S, T # {}, \A x \in T : T \ {x} \in Good
      PROVE  T \in Good
  <2>1. PICK y \in T : TRUE
    BY <1>2
  <2>2. PICK R : R = T \ {y}
    OBVIOUS
  <2>0. y \notin R /\ T = R \cup {y} /\ R \in Good
    BY <1>2, <2>1, <2>2
  <2>3. PICK sum : Sums(sum, w, R)
    BY <2>0
  <2>4. \A x \in R \cup {y} : w[x] \in Int
    BY <2>0
  <2>5. \E more : Sums(more, w, R \cup {y})
    BY <2>0, <2>3, <2>4, OneMore
  <2> QED
    BY <2>0, <2>5
<1> HIDE DEF Good
<1>3. \A T \in SUBSET S : T \in Good
  BY <1>1, <1>2, SetInduct
<1> QED
  BY <1>3 DEF Good

\* How the fold over a set picks the next element.
Any(s) == CHOOSE x \in s : TRUE

FollowsSet(f, c, base, S) ==
  f = [s \in SUBSET S |->
         IF s = {} THEN base ELSE op(c, f[s \ {Any(s)}], Any(s))]

\* FoldSet(LAMBDA e, x : op(c, x, e), base, S), its definition expanded.
FoldOfSet(c, base, S) == (CHOOSE f : FollowsSet(f, c, base, S))[S]

\* A fold that adds gives the sum.
LEMMA FoldAdds ==
  ASSUME NEW S, IsFiniteSet(S), NEW w, \A x \in S : w[x] \in Int, NEW c,
         \A x \in S : \A n \in Int : op(c, n, x) = n + w[x],
         NEW sum, Sums(sum, w, S)
  PROVE  FoldOfSet(c, 0, S) = sum[S]
<1>1. \A s \in SUBSET S : s # {} => Any(s) \in s /\ s \ {Any(s)} \in SUBSET S
  BY DEF Any
<1>2. \A s \in SUBSET S : sum[s] \in Int
  BY DEF Sums
<1>3. ASSUME NEW s \in SUBSET S, s # {}
      PROVE  sum[s] = op(c, sum[s \ {Any(s)}], Any(s))
  <2>1. PICK x : x = Any(s) /\ x \in s /\ s \ {x} \in SUBSET S
    BY <1>1, <1>3
  <2>2. op(c, sum[s \ {x}], x) = sum[s \ {x}] + w[x]
    BY <1>2, <2>1
  <2>3. sum[s] = sum[s \ {x}] + w[x]
    BY <2>1 DEF Sums
  <2> QED
    BY <2>1, <2>2, <2>3
<1>4. FollowsSet(sum, c, 0, S)
  <2>1. PICK g : g = [s \in SUBSET S |->
                        IF s = {} THEN 0 ELSE op(c, sum[s \ {Any(s)}], Any(s))]
    OBVIOUS
  <2>2. \A s \in SUBSET S : g[s] = sum[s]
    BY <1>3, <2>1 DEF Sums
  <2>3. sum \in [SUBSET S -> Int] /\ DOMAIN g = SUBSET S /\ g = [s \in SUBSET S |-> g[s]]
    BY <2>1 DEF Sums
  <2>4. sum = g
    BY <2>2, <2>3
  <2> QED
    BY <2>1, <2>4 DEF FollowsSet
<1>5. PICK f : f = CHOOSE g : FollowsSet(g, c, 0, S)
  OBVIOUS
<1>6. FollowsSet(f, c, 0, S)
  BY <1>4, <1>5
<1> DEFINE Good == {s \in SUBSET S : f[s] = sum[s]}
<1>7. {} \in Good
  BY <1>6 DEF FollowsSet, Sums
<1>8. ASSUME NEW s \in SUBSET S, s # {}, \A x \in s : s \ {x} \in Good
      PROVE  s \in Good
  <2>1. PICK x : x = Any(s) /\ x \in s /\ s \ {x} \in SUBSET S
    BY <1>1, <1>8
  <2>2. f[s] = op(c, f[s \ {x}], x)
    BY <1>6, <1>8, <2>1 DEF FollowsSet
  <2>3. f[s \ {x}] = sum[s \ {x}]
    BY <1>8, <2>1
  <2> QED
    BY <1>3, <1>8, <2>1, <2>2, <2>3
<1> HIDE DEF Good
<1>9. S \in Good
  BY <1>7, <1>8, SetInduct
<1> QED
  BY <1>5, <1>9 DEF Good, FoldOfSet
=============================================================================
