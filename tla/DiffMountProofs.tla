-------------------------- MODULE DiffMountProofs --------------------------
(***************************************************************************)
(* Proofs about DiffMount: the walk of diffUpperDir among the handlers of  *)
(* the union file system, for any names, any depth, any committed trees    *)
(* and any number of calls.                                                *)
(***************************************************************************)
EXTENDS DiffMount, UnionFSProofs

Frames == [dir : PathsAndRoot, todo : SUBSET Paths]
WalkPCs == {"idle", "readDir", "entries", "compare", "remove", "done", "failed"}

\* The walk is a well-formed recursion: the root below, directories above it.
WalkOK ==
  /\ walk = [pc |-> walk.pc, prune |-> walk.prune, stack |-> walk.stack,
             item |-> walk.item, changes |-> walk.changes]
  /\ walk.pc \in WalkPCs
  /\ walk.pc = "idle" => walk = Idle
  /\ walk.stack \in Seq(Frames)
  /\ \A i \in 1..Len(walk.stack) : walk.stack[i].dir = <<>> <=> i = 1
  /\ walk.pc = "readDir" => (walk.item = <<>> <=> walk.stack = <<>>)
  /\ walk.pc \in {"entries", "compare", "remove"} => walk.stack # <<>>
  /\ walk.pc = "done" => walk.stack = <<>>
  /\ walk.item \in PathsAndRoot
  /\ walk.pc \in {"compare", "remove"} => walk.item \in Paths
  /\ touched \subseteq Paths

\* What the walk knows of the entry it is at: nothing it compares is missing
\* in the commit, and what it removes is as it looked, or changed since.
ItemOK ==
  /\ walk.pc = "compare" => lower[walk.item] \notin {None, Dir}
  /\ raced => walk.item \in touched
  /\ walk.pc = "remove" /\ ~raced =>
       \/ up[walk.item] = Dir
       \/ /\ lower[walk.item] \notin {None, Dir}
          /\ up[walk.item] = CopyOf(lower[walk.item])

-----------------------------------------------------------------------------
(* The steps of the walk, by what they make of it.                         *)

Becomes(pc, stack, item, changes) ==
  walk' = [pc |-> pc, prune |-> walk.prune, stack |-> stack, item |-> item,
           changes |-> changes]

LEMMA GotoEffect ==
  ASSUME WalkOK, NEW pc, Goto(pc)
  PROVE  Becomes(pc, walk.stack, walk.item, walk.changes)
BY DEF WalkOK, Goto, Becomes

LEMMA ReadDirEffect ==
  ASSUME WalkOK, ReadDir
  PROVE  \/ Becomes("failed", walk.stack, walk.item, walk.changes)
         \/ /\ walk.item = <<>> \/ up[walk.item] = Dir
            /\ Becomes("entries",
                 Append(walk.stack,
                        [dir |-> walk.item,
                         todo |-> {q \in Children(walk.item) : up[q] # None}]),
                 walk.item,
                 walk.changes \cup
                   {Change(q, "removed") : q \in Children(walk.item) \cap wh})
<1>1. CASE walk.item # <<>> /\ up[walk.item] # Dir
  BY <1>1, GotoEffect DEF ReadDir
<1>2. CASE walk.item = <<>> \/ up[walk.item] = Dir
  <2>1. PICK s : s = Append(walk.stack,
                        [dir |-> walk.item,
                         todo |-> {q \in Children(walk.item) : up[q] # None}])
    OBVIOUS
  <2>2. PICK c : c = walk.changes \cup
                   {Change(q, "removed") : q \in Children(walk.item) \cap wh}
    OBVIOUS
  <2>3. walk' = [walk EXCEPT !.pc = "entries", !.stack = s, !.changes = c]
    BY <1>2, <2>1, <2>2 DEF ReadDir
  <2>4. Becomes("entries", s, walk.item, c)
    BY <2>3 DEF WalkOK, Becomes
  <2> QED
    BY <1>2, <2>1, <2>2, <2>4
<1> QED
  BY <1>1, <1>2

\* s is the stack once p has been taken from its top.
Taken(s, p) ==
  LET n == Len(walk.stack)
  IN /\ s \in Seq(Frames) /\ Len(s) = n
     /\ \A i \in 1..n :
          /\ s[i].dir = walk.stack[i].dir
          /\ s[i].todo = IF i = n THEN walk.stack[i].todo \ {p}
                         ELSE walk.stack[i].todo

LEMMA LstatEffect ==
  ASSUME WalkOK, Lstat
  PROVE  \E s : \E p \in Top.todo :
           /\ p \in Paths /\ Taken(s, p)
           /\ \/ Becomes("failed", s, p, walk.changes)
              \/ up[p] = Dir /\ Becomes("readDir", s, p, walk.changes)
              \/ /\ up[p] \notin {None, Dir} /\ Comparable(up[p], p)
                 /\ Becomes("compare", s, p, walk.changes)
              \/ /\ up[p] \notin {None, Dir}
                 /\ ~Comparable(up[p], p) \/ up[p] = File("new")
                 /\ Becomes("entries", s, p, walk.changes \cup {Report(p)})
<1>1. walk.stack # <<>> /\ walk.pc = "entries"
  BY DEF WalkOK, Lstat
<1>2. PICK n : n = Len(walk.stack)
  OBVIOUS
<1>3. n \in Nat /\ n >= 1 /\ walk.stack \in Seq(Frames)
  BY <1>1, <1>2, EmptySeq, LenProperties DEF WalkOK
<1>4. Top \in Frames /\ Top = walk.stack[n]
  BY <1>2, <1>3 DEF Top
<1>5. PICK p \in Top.todo :
        \E next :
          /\ next = [walk EXCEPT !.stack[n].todo = @ \ {p}, !.item = p]
          /\ \/ walk' = [next EXCEPT !.pc = "failed"]
             \/ up[p] = Dir /\ walk' = [next EXCEPT !.pc = "readDir"]
             \/ /\ up[p] \notin {None, Dir} /\ Comparable(up[p], p)
                /\ walk' = [next EXCEPT !.pc = "compare"]
             \/ /\ up[p] \notin {None, Dir}
                /\ ~Comparable(up[p], p) \/ up[p] = File("new")
                /\ walk' = [next EXCEPT !.changes = @ \cup {Report(p)}]
  BY <1>2 DEF Lstat
<1>6. PICK next :
        /\ next = [walk EXCEPT !.stack[n].todo = @ \ {p}, !.item = p]
        /\ \/ walk' = [next EXCEPT !.pc = "failed"]
           \/ up[p] = Dir /\ walk' = [next EXCEPT !.pc = "readDir"]
           \/ /\ up[p] \notin {None, Dir} /\ Comparable(up[p], p)
              /\ walk' = [next EXCEPT !.pc = "compare"]
           \/ /\ up[p] \notin {None, Dir}
              /\ ~Comparable(up[p], p) \/ up[p] = File("new")
              /\ walk' = [next EXCEPT !.changes = @ \cup {Report(p)}]
  BY <1>5
<1>7. PICK frame : frame = [Top EXCEPT !.todo = @ \ {p}]
  OBVIOUS
<1>8. PICK s : s = [walk.stack EXCEPT ![n] = frame]
  OBVIOUS
<1>9. next = [walk EXCEPT !.stack = s, !.item = p]
  BY <1>4, <1>6, <1>7, <1>8
<1>10. p \in Paths /\ Taken(s, p)
  <2>1. p \in Paths
    BY <1>4, <1>5 DEF Frames
  <2>2. frame \in Frames /\ frame.dir = Top.dir /\ frame.todo = Top.todo \ {p}
    BY <1>4, <1>7 DEF Frames
  <2>3. /\ s \in Seq(Frames) /\ Len(s) = n
        /\ \A i \in 1..n : s[i] = IF i = n THEN frame ELSE walk.stack[i]
    BY <1>2, <1>3, <1>8, <2>2
  <2> QED
    BY <1>2, <1>4, <2>1, <2>2, <2>3 DEF Taken
<1>11. next = [pc |-> "entries", prune |-> walk.prune, stack |-> s, item |-> p,
              changes |-> walk.changes]
  BY <1>1, <1>9 DEF WalkOK
<1>12. PICK c : c = walk.changes \cup {Report(p)}
  OBVIOUS
<1>13. /\ \A pc : walk' = [next EXCEPT !.pc = pc]
                  => Becomes(pc, s, p, walk.changes)
       /\ walk' = [next EXCEPT !.changes = c] => Becomes("entries", s, p, c)
  BY <1>11 DEF Becomes
<1>14. next.changes = walk.changes
  BY <1>11
<1>15. [next EXCEPT !.changes = @ \cup {Report(p)}] = [next EXCEPT !.changes = c]
  BY <1>12, <1>14
<1> QED
  BY <1>6, <1>10, <1>12, <1>13, <1>15

LEMMA CompareEffect ==
  ASSUME WalkOK, Compare
  PROVE  \/ Becomes("failed", walk.stack, walk.item, walk.changes)
         \/ /\ "same" \in SameContent(walk.item)
            /\ Becomes(IF walk.prune THEN "remove" ELSE "entries", walk.stack,
                       walk.item, walk.changes)
         \/ /\ "differs" \in SameContent(walk.item)
            /\ Becomes("entries", walk.stack, walk.item,
                       walk.changes \cup {Report(walk.item)})
<1>1. PICK found \in SameContent(walk.item) :
        \/ Goto("failed")
        \/ found = "same" /\ Goto(IF walk.prune THEN "remove" ELSE "entries")
        \/ /\ found = "differs"
           /\ walk' = [walk EXCEPT !.pc = "entries",
                                  !.changes = @ \cup {Report(walk.item)}]
  BY DEF Compare
<1>2. PICK c : c = walk.changes \cup {Report(walk.item)}
  OBVIOUS
<1>3. walk' = [walk EXCEPT !.pc = "entries", !.changes = c]
      => Becomes("entries", walk.stack, walk.item, c)
  BY DEF WalkOK, Becomes
<1> QED
  BY <1>1, <1>2, <1>3, GotoEffect

\* s is the stack without its top.
Popped(s) ==
  /\ s \in Seq(Frames) /\ Len(s) = Len(walk.stack) - 1
  /\ \A i \in 1..Len(s) : s[i] = walk.stack[i]

LEMMA LeaveDirEffect ==
  ASSUME WalkOK, LeaveDir
  PROVE  \E s : /\ Popped(s)
               /\ \/ /\ Top.dir = <<>>
                     /\ Becomes("done", s, walk.item, walk.changes)
                  \/ /\ Top.dir # <<>>
                     /\ Becomes("entries", s, walk.item, walk.changes)
                  \/ Becomes("failed", s, walk.item, walk.changes)
                  \/ /\ Top.dir # <<>> /\ up[Top.dir] = Dir
                     /\ Becomes("remove", s, Top.dir, walk.changes)
<1>1. walk.stack # <<>> /\ walk.pc = "entries" /\ walk.stack \in Seq(Frames)
  BY DEF WalkOK, LeaveDir
<1>2. PICK s : s = SubSeq(walk.stack, 1, Len(walk.stack) - 1)
  OBVIOUS
<1>3. Popped(s)
  <2>1. Len(walk.stack) \in Nat /\ Len(walk.stack) >= 1
    BY <1>1
  <2>2. \A i \in 1..Len(walk.stack) - 1 : walk.stack[i] \in Frames
    BY <1>1, <2>1, ElementOfSeq
  <2> QED
    BY <1>2, <2>1, <2>2, SubSeqProperties DEF Popped
<1>4. PICK dir : dir = Top.dir
  OBVIOUS
<1>5. PICK back : back = [walk EXCEPT !.stack = s]
  OBVIOUS
<1>6. back = [pc |-> "entries", prune |-> walk.prune, stack |-> s,
              item |-> walk.item, changes |-> walk.changes]
  BY <1>1, <1>5 DEF WalkOK
<1>7. \/ dir = <<>> /\ walk' = [back EXCEPT !.pc = "done"]
      \/ dir # <<>> /\ walk' = back
      \/ walk' = [back EXCEPT !.pc = "failed"]
      \/ /\ dir # <<>> /\ up[dir] = Dir
         /\ walk' = [back EXCEPT !.pc = "remove", !.item = dir]
  BY <1>2, <1>4, <1>5 DEF LeaveDir
<1>8. \/ dir = <<>> /\ Becomes("done", s, walk.item, walk.changes)
      \/ dir # <<>> /\ Becomes("entries", s, walk.item, walk.changes)
      \/ Becomes("failed", s, walk.item, walk.changes)
      \/ /\ dir # <<>> /\ up[dir] = Dir
         /\ Becomes("remove", s, dir, walk.changes)
  BY <1>6, <1>7 DEF Becomes
<1> QED
  BY <1>3, <1>4, <1>8

LEMMA BecomesOK ==
  ASSUME WalkOK, touched' = touched,
         NEW pc \in WalkPCs \ {"idle"}, NEW stack \in Seq(Frames),
         NEW item \in PathsAndRoot, NEW changes,
         Becomes(pc, stack, item, changes),
         \A i \in 1..Len(stack) : stack[i].dir = <<>> <=> i = 1,
         pc = "readDir" => (item = <<>> <=> stack = <<>>),
         pc \in {"entries", "compare", "remove"} => stack # <<>>,
         pc = "done" => stack = <<>>,
         pc \in {"compare", "remove"} => item \in Paths
  PROVE  WalkOK'
<1>1. /\ walk' = [pc |-> pc, prune |-> walk.prune, stack |-> stack,
                  item |-> item, changes |-> changes]
  BY DEF Becomes
<1>2. /\ walk'.pc = pc /\ walk'.stack = stack /\ walk'.item = item
      /\ walk'.prune = walk.prune /\ walk'.changes = changes
  BY <1>1
<1>3. touched' \subseteq Paths
  BY DEF WalkOK
<1> QED
  BY <1>1, <1>2, <1>3 DEF WalkOK

LEMMA ReadDirOK ==
  ASSUME WalkOK, ReadDir
  PROVE  WalkOK'
<1>1. touched' = touched /\ walk.pc = "readDir"
  BY DEF ReadDir, LeaveDisk
<1>2. /\ walk.stack \in Seq(Frames) /\ walk.item \in PathsAndRoot
      /\ walk.item = <<>> <=> walk.stack = <<>>
      /\ \A i \in 1..Len(walk.stack) : walk.stack[i].dir = <<>> <=> i = 1
  BY <1>1 DEF WalkOK
<1>3. CASE Becomes("failed", walk.stack, walk.item, walk.changes)
  BY <1>1, <1>2, <1>3, BecomesOK DEF WalkPCs
<1>4. ASSUME NEW f, NEW s, NEW c,
             f = [dir |-> walk.item,
                  todo |-> {q \in Children(walk.item) : up[q] # None}],
             s = Append(walk.stack, f), Becomes("entries", s, walk.item, c)
      PROVE  WalkOK'
  <2>1. f \in Frames /\ f.dir = walk.item
    BY <1>2, <1>4 DEF Frames, Children
  <2>2. Len(walk.stack) \in Nat
    BY <1>2
  <2>3. /\ s \in Seq(Frames) /\ Len(s) = Len(walk.stack) + 1
        /\ \A i \in 1..Len(walk.stack) : s[i] = walk.stack[i]
        /\ s[Len(walk.stack) + 1] = f
    BY <1>2, <1>4, <2>1, AppendProperties
  <2>4. walk.stack = <<>> <=> Len(walk.stack) = 0
    BY <1>2, EmptySeq
  <2>5. \A i \in 1..Len(s) : s[i].dir = <<>> <=> i = 1
    BY <1>2, <2>1, <2>2, <2>3, <2>4
  <2>6. s # <<>>
    BY <2>2, <2>3
  <2> QED
    BY <1>1, <1>2, <1>4, <2>3, <2>5, <2>6, BecomesOK DEF WalkPCs
<1> QED
  BY <1>3, <1>4, ReadDirEffect

LEMMA LstatOK ==
  ASSUME WalkOK, Lstat
  PROVE  WalkOK'
<1>1. touched' = touched /\ walk.pc = "entries"
  BY DEF Lstat, LeaveDisk
<1>2. /\ walk.stack \in Seq(Frames) /\ walk.stack # <<>>
      /\ \A i \in 1..Len(walk.stack) : walk.stack[i].dir = <<>> <=> i = 1
  BY <1>1 DEF WalkOK
<1>3. PICK s, p : /\ p \in Paths /\ Taken(s, p)
                  /\ \E pc, c : /\ pc \in {"failed", "readDir", "compare", "entries"}
                                /\ Becomes(pc, s, p, c)
  <2>1. PICK s, p : /\ p \in Paths /\ Taken(s, p)
                    /\ \/ Becomes("failed", s, p, walk.changes)
                       \/ Becomes("readDir", s, p, walk.changes)
                       \/ Becomes("compare", s, p, walk.changes)
                       \/ Becomes("entries", s, p, walk.changes \cup {Report(p)})
    BY LstatEffect
  <2>2. \E pc, c : /\ pc \in {"failed", "readDir", "compare", "entries"}
                   /\ Becomes(pc, s, p, c)
    BY <2>1
  <2> QED
    BY <2>1, <2>2
<1>4. /\ s \in Seq(Frames) /\ s # <<>>
      /\ \A i \in 1..Len(s) : s[i].dir = <<>> <=> i = 1
  <2>1. Len(walk.stack) # 0
    BY <1>2, EmptySeq
  <2> QED
    BY <1>2, <1>3, <2>1 DEF Taken
<1>5. p \in PathsAndRoot /\ p # <<>>
  BY <1>3, PathIsSeq DEF PathsAndRoot
<1> QED
  BY <1>1, <1>3, <1>4, <1>5, BecomesOK DEF WalkPCs

LEMMA CompareOK ==
  ASSUME WalkOK, Compare
  PROVE  WalkOK'
<1>1. /\ touched' = touched /\ walk.item \in Paths /\ walk.item \in PathsAndRoot
      /\ walk.stack \in Seq(Frames) /\ walk.stack # <<>>
      /\ \A i \in 1..Len(walk.stack) : walk.stack[i].dir = <<>> <=> i = 1
  BY DEF WalkOK, Compare, LeaveDisk
<1>2. PICK pc, c : /\ pc \in {"failed", "remove", "entries"}
                   /\ Becomes(pc, walk.stack, walk.item, c)
  BY CompareEffect
<1> QED
  BY <1>1, <1>2, BecomesOK DEF WalkPCs

LEMMA LeaveDirOK ==
  ASSUME WalkOK, LeaveDir
  PROVE  WalkOK'
<1>1. touched' = touched /\ walk.pc = "entries"
  BY DEF LeaveDir, LeaveDisk
<1>2. /\ walk.stack \in Seq(Frames) /\ walk.stack # <<>>
      /\ \A i \in 1..Len(walk.stack) : walk.stack[i].dir = <<>> <=> i = 1
      /\ walk.item \in PathsAndRoot
  BY <1>1 DEF WalkOK
<1>3. PICK n : n = Len(walk.stack) /\ n \in Nat /\ n >= 1 /\ n \in 1..n
  BY <1>2, EmptySeq
<1>4. Top = walk.stack[n] /\ Top.dir \in PathsAndRoot
  <2>1. Top = walk.stack[n]
    BY <1>3 DEF Top
  <2>2. walk.stack[n] \in Frames
    BY <1>2, <1>3, ElementOfSeq
  <2> QED
    BY <2>1, <2>2 DEF Frames
<1>5. PICK s : /\ Popped(s)
               /\ \/ /\ Top.dir = <<>>
                     /\ Becomes("done", s, walk.item, walk.changes)
                  \/ /\ Top.dir # <<>>
                     /\ Becomes("entries", s, walk.item, walk.changes)
                  \/ Becomes("failed", s, walk.item, walk.changes)
                  \/ /\ Top.dir # <<>> /\ up[Top.dir] = Dir
                     /\ Becomes("remove", s, Top.dir, walk.changes)
  BY LeaveDirEffect
<1>6. /\ s \in Seq(Frames) /\ Len(s) = n - 1
      /\ \A i \in 1..Len(s) : s[i].dir = <<>> <=> i = 1
      /\ s = <<>> <=> Top.dir = <<>>
  <2>1. s \in Seq(Frames) /\ Len(s) = n - 1 /\ \A i \in 1..Len(s) : s[i] = walk.stack[i]
    BY <1>3, <1>5 DEF Popped
  <2>2. s = <<>> <=> n = 1
    <3>1. s = <<>> <=> Len(s) = 0
      BY <2>1, EmptySeq
    <3> QED
      BY <1>3, <2>1, <3>1
  <2>3. Top.dir = <<>> <=> n = 1
    <3>1. walk.stack[n].dir = <<>> <=> n = 1
      BY <1>2, <1>3
    <3> QED
      BY <1>4, <3>1
  <2> QED
    BY <1>2, <1>3, <2>1, <2>2, <2>3
<1>7. Top.dir # <<>> => Top.dir \in Paths
  BY <1>4 DEF PathsAndRoot
<1> QED
  BY <1>1, <1>2, <1>4, <1>5, <1>6, <1>7, BecomesOK DEF WalkPCs

\* Whatever step is taken, the walk stays a well-formed recursion.
LEMMA NextWalkOK ==
  ASSUME WalkOK, DiffNext
  PROVE  WalkOK'
<1>1. ASSUME NEW prune, Begin(prune)
      PROVE  WalkOK'
  <2>1. walk = Idle /\ touched' = {}
    BY <1>1 DEF WalkOK, Begin
  <2>2. walk' = [pc |-> IF writable THEN "readDir" ELSE "done", prune |-> prune,
                 stack |-> <<>>, item |-> <<>>, changes |-> {}]
    BY <1>1, <2>1 DEF Begin, Idle
  <2>3. <<>> \in Seq(Frames) /\ Len(<<>>) = 0
    BY EmptySeq
  <2> QED
    BY <2>1, <2>2, <2>3 DEF WalkOK, WalkPCs, PathsAndRoot
<1>2. ASSUME \/ Goto("failed") /\ UNCHANGED touched /\ walk.pc # "idle"
             \/ Prune
      PROVE  WalkOK'
  <2>1. PICK pc : /\ Goto(pc) /\ pc \in {"failed", "entries"}
                  /\ pc = "entries" => walk.stack # <<>>
    BY <1>2 DEF Prune, WalkOK
  <2>2. touched' = touched
    BY <1>2 DEF Prune
  <2>3. Becomes(pc, walk.stack, walk.item, walk.changes)
    BY <2>1, GotoEffect
  <2>4. /\ walk.stack \in Seq(Frames) /\ walk.item \in PathsAndRoot
        /\ \A i \in 1..Len(walk.stack) : walk.stack[i].dir = <<>> <=> i = 1
    BY DEF WalkOK
  <2> QED
    BY <2>1, <2>2, <2>3, <2>4, BecomesOK DEF WalkPCs
<1>3. CASE Handler
  <2>1. walk' = walk /\ touched' \subseteq Paths
    BY <1>3 DEF Handler, WalkOK
  <2> QED
    BY <2>1 DEF WalkOK
<1> QED
  BY <1>1, <1>2, <1>3, ReadDirOK, LstatOK, CompareOK, LeaveDirOK
  DEF DiffNext, Walk, DiskError, LeaveDisk

-----------------------------------------------------------------------------
(* The invariant.                                                          *)

\* What the walk needs to know of the upper directory and of itself.
PInv == IInv /\ WalkOK /\ ItemOK

\* Steps that are not the walk's own leave the commit alone; so does the walk.
LEMMA LowerStays ==
  ASSUME PInv, DiffNext
  PROVE  lower' = lower
<1>1. CASE Handler
  BY <1>1, NextStep DEF PInv, Handler, StepOK, given
<1>2. CASE Walk
  BY <1>2 DEF Walk, Begin, ReadDir, Lstat, Compare, Prune, LeaveDir, DiskError,
              LeaveDisk, vars, given
<1> QED
  BY <1>1, <1>2 DEF DiffNext

\* os.Remove takes an entry with nothing in it.
LEMMA PruneEffect ==
  ASSUME IInv, WalkOK, Prune
  PROVE  /\ wh' = wh /\ UNCHANGED <<given, last>>
         /\ Sound(up', wh')
         /\ \/ up' = up
            \/ /\ up[walk.item] # None /\ EmptyUpper(up, wh, walk.item)
               /\ \A q \in Paths :
                    up'[q] = IF q = walk.item THEN None ELSE up[q]
<1>1. walk.item \in Paths /\ Sound(up, wh) /\ up \in Trees
  BY DEF WalkOK, Prune, IInv, Sound
<1>2. wh' = wh /\ UNCHANGED <<given, last>>
  BY DEF Prune
<1>3. CASE up' = up
  BY <1>1, <1>2, <1>3
<1>4. CASE /\ up[walk.item] # None /\ EmptyUpper(up, wh, walk.item)
           /\ up' = [up EXCEPT ![walk.item] = None]
  <2>1. PICK p, v : p = walk.item /\ v = up' /\ v = [up EXCEPT ![p] = None]
    BY <1>4
  <2>2. Sound(v, wh)
    BY <1>1, <1>4, <2>1, CutEntry
  <2>3. \A q \in Paths : v[q] = IF q = p THEN None ELSE up[q]
    BY <1>1, <2>1 DEF Trees
  <2> QED
    BY <1>2, <1>4, <2>1, <2>2, <2>3
<1> QED
  BY <1>3, <1>4 DEF Prune

LEMMA NextKeepsUnion ==
  ASSUME PInv, DiffNext
  PROVE  IInv'
<1>1. CASE Handler
  BY <1>1, NextIInv DEF PInv, Handler
<1>2. CASE Prune
  <2>1. Sound(up', wh') /\ UNCHANGED <<given, last>>
    BY <1>2, PruneEffect DEF PInv
  <2>2. TypeOK'
    BY <2>1 DEF PInv, IInv, TypeOK, Sound, given
  <2> QED
    BY <2>1, <2>2 DEF IInv
<1>3. CASE UNCHANGED vars
  BY <1>3, NextIInv DEF PInv
<1> QED
  BY <1>1, <1>2, <1>3 DEF DiffNext, Walk, Begin, ReadDir, Lstat, Compare,
                          LeaveDir, DiskError, LeaveDisk

LEMMA NextItemOK ==
  ASSUME PInv, DiffNext
  PROVE  ItemOK'
<1>1. lower' = lower /\ WalkOK /\ ItemOK
  BY LowerStays DEF PInv
<1>2. ASSUME NEW prune, Begin(prune)
      PROVE  ItemOK'
  <2>1. walk.item = <<>> /\ walk' = [walk EXCEPT !.pc = walk'.pc, !.prune = prune]
        /\ walk'.pc \in {"readDir", "done"} /\ raced' = raced
    BY <1>1, <1>2 DEF Begin, WalkOK, Idle
  <2>2. ~raced
    BY <1>1, <2>1, PathIsSeq DEF ItemOK, WalkOK
  <2> QED
    BY <2>1, <2>2 DEF ItemOK
<1>3. ASSUME NEW stack, NEW changes, NEW pc \in {"entries", "failed", "done"},
             Becomes(pc, stack, walk.item, changes),
             raced' => raced, touched' = touched
      PROVE  ItemOK'
  BY <1>1, <1>3 DEF ItemOK, Becomes
<1>4. CASE ReadDir
  BY <1>1, <1>3, <1>4, ReadDirEffect DEF ReadDir, LeaveDisk
<1>5. CASE Lstat
  <2>1. PICK s, p : \/ Becomes("failed", s, p, walk.changes)
                    \/ Becomes("readDir", s, p, walk.changes)
                    \/ /\ Comparable(up[p], p)
                       /\ Becomes("compare", s, p, walk.changes)
                    \/ Becomes("entries", s, p, walk.changes \cup {Report(p)})
    BY <1>1, <1>5, LstatEffect
  <2>2. ~raced'
    BY <1>5 DEF Lstat
  <2> QED
    BY <1>1, <2>1, <2>2 DEF ItemOK, Becomes, Comparable
<1>6. CASE Compare
  <2>1. raced' = raced /\ up' = up /\ touched' = touched /\ walk.pc = "compare"
    BY <1>6 DEF Compare, LeaveDisk, vars
  <2>2. CASE /\ "same" \in SameContent(walk.item)
             /\ Becomes("remove", walk.stack, walk.item, walk.changes)
    <3>1. raced \/ up[walk.item] = CopyOf(lower[walk.item])
      BY <2>2 DEF SameContent
    <3> QED
      BY <1>1, <2>1, <2>2, <3>1 DEF ItemOK, Becomes
  <2>3. CASE Becomes("failed", walk.stack, walk.item, walk.changes)
    BY <1>3, <2>1, <2>3
  <2>4. ASSUME NEW c, Becomes("entries", walk.stack, walk.item, c)
        PROVE  ItemOK'
    BY <1>3, <2>1, <2>4
  <2> QED
    BY <1>1, <1>6, <2>2, <2>3, <2>4, CompareEffect
<1>7. CASE LeaveDir
  <2>1. up' = up /\ ~raced' /\ touched' = touched
    BY <1>7 DEF LeaveDir, LeaveDisk, vars
  <2>2. PICK s : \/ Becomes("done", s, walk.item, walk.changes)
                 \/ Becomes("entries", s, walk.item, walk.changes)
                 \/ Becomes("failed", s, walk.item, walk.changes)
                 \/ /\ up[Top.dir] = Dir
                    /\ Becomes("remove", s, Top.dir, walk.changes)
    BY <1>1, <1>7, LeaveDirEffect
  <2> QED
    BY <2>1, <2>2 DEF ItemOK, Becomes
<1>8. CASE Prune \/ DiskError
  <2>1. PICK pc \in {"entries", "failed"} : Goto(pc)
    BY <1>8 DEF Prune, DiskError
  <2>2. Becomes(pc, walk.stack, walk.item, walk.changes)
    BY <1>1, <2>1, GotoEffect
  <2> QED
    BY <1>3, <1>8, <2>1, <2>2 DEF Prune, DiskError, LeaveDisk
<1>9. CASE Handler
  <2>1. /\ walk' = walk
        /\ touched' = touched \cup
             {p \in Paths : up'[p] # up[p] \/ (p \in wh) # (p \in wh')}
        /\ raced' = (raced \/ (walk.item # <<>> /\ up'[walk.item] # up[walk.item]))
    BY <1>9 DEF Handler
  <2>2. walk.item # <<>> => walk.item \in Paths
    BY <1>1 DEF WalkOK, PathsAndRoot
  <2>3. raced' => walk.item \in touched'
    BY <1>1, <2>1, <2>2 DEF ItemOK
  <2>4. walk.pc = "remove" /\ ~raced' => ~raced /\ up'[walk.item] = up[walk.item]
    BY <1>1, <2>1, PathIsSeq DEF WalkOK
  <2> QED
    BY <1>1, <2>1, <2>3, <2>4 DEF ItemOK
<1> QED
  BY <1>2, <1>4, <1>5, <1>6, <1>7, <1>8, <1>9 DEF DiffNext, Walk

LEMMA InitPInv == DiffInit => PInv
<1> SUFFICES ASSUME DiffInit PROVE PInv
  OBVIOUS
<1>1. <<>> \in Seq(Frames) /\ Len(<<>>) = 0
  BY EmptySeq
<1>2. /\ walk = Idle /\ touched = {} /\ raced = FALSE
      /\ walk.pc = "idle" /\ walk.stack = <<>> /\ walk.item = <<>>
  BY DEF DiffInit, Idle
<1>3. WalkOK
  BY <1>1, <1>2 DEF WalkOK, WalkPCs, PathsAndRoot, Idle
<1>4. ItemOK
  BY <1>2 DEF ItemOK
<1> QED
  BY <1>3, <1>4, InitIInv DEF PInv, DiffInit

LEMMA NextPInv == PInv /\ [DiffNext]_allVars => PInv'
<1>1. ASSUME PInv, UNCHANGED allVars
      PROVE  PInv'
  BY <1>1, NextIInv DEF PInv, WalkOK, ItemOK, allVars, walkVars, vars, given
<1> QED
  BY <1>1, NextWalkOK, NextItemOK, NextKeepsUnion DEF PInv

LEMMA SpecPInv == DiffSpec => []PInv
BY InitPInv, NextPInv, PTL DEF DiffSpec

-----------------------------------------------------------------------------
(* Pruning.                                                                *)

IsFile(e) == e.kind \in {"file", "link", "fifo"}

\* What Prune takes away was an empty directory, or looked as the commit does.
LEMMA PruneShowsTheSame ==
  ASSUME PInv, Prune, ~raced, NEW q \in Paths, IsFile(View[q])
  PROVE  View[q] \in {View'[q], CopyOf(View'[q])}
<1>1. PICK p : p = walk.item /\ p \in Paths
  BY DEF PInv, WalkOK, Prune
<1>2. PICK v : v = up'
  OBVIOUS
<1>3. /\ lower \in Trees /\ IsTree(lower) /\ up \in Trees /\ Sound(up, wh)
      /\ v \in Trees /\ wh' = wh /\ lower' = lower
  BY <1>2, StateFacts, PruneEffect DEF PInv, Sound, given
<1>4. /\ View[q] = VisibleOf(up, wh, lower, q)
      /\ View'[q] = VisibleOf(v, wh, lower, q)
  BY <1>2, <1>3, ViewFacts DEF Seen, SeenNext
<1>5. CASE v = up
  BY <1>4, <1>5
<1>6. CASE /\ up[p] # None /\ EmptyUpper(up, wh, p)
           /\ \A r \in Paths : v[r] = IF r = p THEN None ELSE up[r]
  <2>1. p \notin wh
    BY <1>1, <1>3, <1>6 DEF Sound
  <2>2. \A r \in Paths : r # p => StatOf(v, wh, lower, r) = StatOf(up, wh, lower, r)
    BY <1>6 DEF StatOf
  <2>3. StatOf(v, wh, lower, p) = lower[p] /\ StatOf(up, wh, lower, p) = up[p]
    BY <1>1, <1>6, <2>1 DEF StatOf
  <2>4. CASE up[p] \in {lower[p], CopyOf(lower[p])}
    <3>1. \A r \in Paths :
            Same(StatOf(up, wh, lower, r), StatOf(v, wh, lower, r))
      BY <2>2, <2>3, <2>4 DEF Same
    <3>2. Same(VisibleOf(up, wh, lower, q), VisibleOf(v, wh, lower, q))
      BY <1>3, <3>1, SameStatSameView
    <3> QED
      BY <1>4, <3>2 DEF Same
  <2>5. CASE up[p] = Dir /\ lower[p] # Dir
    <3>1. q # p
      BY <1>4, <2>3, <2>5 DEF IsFile, VisibleOf, Dir, None
    <3>2. ~IsBelow(q, p)
      <4> SUFFICES ASSUME IsBelow(q, p) PROVE FALSE
        OBVIOUS
      <4>1. up[q] = None /\ lower[q] = None
        BY <1>1, <1>3, <1>6, <2>5, OnlyDirsHold DEF EmptyUpper, Below
      <4> QED
        BY <1>4, <4>1 DEF IsFile, VisibleOf, StatOf, None
    <3>3. \A r \in Ancestors(q) : r \in Paths /\ r # p
      BY <3>2 DEF Ancestors
    <3>4. WalkOf(v, wh, lower, q) <=> WalkOf(up, wh, lower, q)
      BY <2>2, <3>3 DEF WalkOf
    <3> QED
      BY <1>4, <2>2, <3>1, <3>4 DEF VisibleOf
  <2>6. \/ up[p] = Dir
        \/ up[p] = CopyOf(lower[p])
    BY <1>1 DEF PInv, ItemOK, Prune
  <2> QED
    BY <2>4, <2>5, <2>6
<1> QED
  BY <1>1, <1>2, <1>5, <1>6, PruneEffect DEF PInv

\* os.Remove of what entryUnchanged took for unchanged, or of a directory
\* that was empty when it was read, among the handlers of the union: whatever
\* they do, a prune hides or reverts no file.
THEOREM PruningKeepsFiles == DiffSpec => PruneKeepsFiles
<1>1. ASSUME PInv, DiffNext, walk.pc = "remove", walk' # walk, ~raced,
             NEW p \in Paths, IsFile(View[p])
      PROVE  View[p] \in {View'[p], CopyOf(View'[p])}
  <2>1. CASE Prune
    BY <1>1, <2>1, PruneShowsTheSame
  <2>2. CASE DiskError
    <3>1. up' = up /\ wh' = wh /\ lower' = lower
      BY <2>2 DEF DiskError, LeaveDisk, vars, given
    <3> QED
      BY <3>1, <1>1, ViewFacts DEF Seen, SeenNext
  <2> QED
    BY <1>1, <2>1, <2>2 DEF DiffNext, Walk, Begin, ReadDir, Lstat, Compare,
                            LeaveDir, Handler
<1>2. PInv /\ [DiffNext]_allVars =>
        [(walk.pc = "remove" /\ walk' # walk /\ ~raced) =>
           \A p \in Paths : View[p].kind \in {"file", "link", "fifo"} =>
             View[p] \in {View'[p], CopyOf(View'[p])}]_allVars
  BY <1>1 DEF IsFile
<1> QED
  BY <1>2, SpecPInv, PTL DEF DiffSpec, PruneKeepsFiles

-----------------------------------------------------------------------------
(* What the handlers never put into the upper directory.                   *)

\* copyUp makes a regular file of a fifo, and no call makes a fifo.
NoFifo(u) ==
  /\ u = [q \in Paths |-> u[q]]
  /\ \A q \in Paths : u[q] # Fifo

\* A read-only mount has no upper directory.
Bare == ~writable => wh = {} /\ \A q \in Paths : up[q] = None

LEMMA FifoPieces ==
  ASSUME NEW u, NoFifo(u)
  PROVE  /\ \A p : NoFifo(MkdirAll(u, p))
         /\ \A p, e : e # Fifo => NoFifo([u EXCEPT ![p] = e])
         /\ \A src, dst : NoFifo(MoveTree(u, src, dst))
<1>1. \A e : e \in {None, Dir} => e # Fifo
  BY DEF None, Dir, Fifo
<1>2. ASSUME NEW p
      PROVE  NoFifo(MkdirAll(u, p))
  BY <1>1 DEF NoFifo, MkdirAll
<1>3. ASSUME NEW p, NEW e, e # Fifo
      PROVE  NoFifo([u EXCEPT ![p] = e])
  BY <1>3 DEF NoFifo
<1>4. ASSUME NEW src, NEW dst
      PROVE  NoFifo(MoveTree(u, src, dst))
  BY <1>1 DEF NoFifo, MoveTree
<1> QED
  BY <1>2, <1>3, <1>4

LEMMA FifoCopy ==
  ASSUME NoFifo(up), NEW p
  PROVE  /\ NoFifo(CopyUp(p))
         /\ CopyUpFails(p) => NoFifo(up')
<1>1. CopyOf(lower[p]) # Fifo
  BY DEF CopyOf, File, Fifo
<1>2. NoFifo(MkdirAll(up, Parent(p)))
  BY FifoPieces
<1>3. NoFifo([MkdirAll(up, Parent(p)) EXCEPT ![p] = CopyOf(lower[p])])
  BY <1>1, <1>2, FifoPieces
<1> QED
  BY <1>2, <1>3 DEF CopyUp, CopyUpFails

LEMMA NextNoFifo ==
  ASSUME NoFifo(up), Next
  PROVE  NoFifo(up')
<1>1. /\ None # Fifo /\ Dir # Fifo
      /\ \A d : File(d) # Fifo /\ Link(d) # Fifo
  BY DEF None, Dir, File, Link, Fifo
<1>2. ASSUME NEW op, NEW p, NEW errno, Refuse(op, p, errno)
      PROVE  NoFifo(up')
  BY <1>2 DEF Refuse
<1>3. ASSUME NEW op, NEW p, NEW entry, entry # Fifo, NEW fail,
             New(op, p, entry, fail)
      PROVE  NoFifo(up')
  <2>1. NoFifo(MkdirAll(up, Parent(p)))
    BY FifoPieces
  <2>2. NoFifo([MkdirAll(up, Parent(p)) EXCEPT ![p] = entry])
    BY <1>3, <2>1, FifoPieces
  <2> QED
    BY <1>2, <1>3, <2>1, <2>2 DEF New
<1>4. ASSUME NEW op, NEW p, NEW dir, NEW fail, Remove(op, p, dir, fail)
      PROVE  NoFifo(up')
  <2>1. PICK made : made = IF StatLower(p) # None THEN MkdirAll(up, Parent(p))
                           ELSE up
    OBVIOUS
  <2>2. NoFifo(made) /\ NoFifo([made EXCEPT ![p] = None])
    BY <1>1, <2>1, FifoPieces
  <2>3. \/ \E errno : Refuse(op, p, errno)
        \/ up' \in {up, made, [made EXCEPT ![p] = None]}
    BY <1>4, <2>1 DEF Remove
  <2> QED
    BY <1>2, <2>2, <2>3
<1>5. ASSUME NEW src, NEW dst, NEW fail, Rename(src, dst, fail)
      PROVE  NoFifo(up')
  <2>1. PICK copied : copied = CopyUp(src)
    OBVIOUS
  <2>2. PICK made : made = MkdirAll(copied, Parent(dst))
    OBVIOUS
  <2>3. NoFifo(copied) /\ NoFifo(made) /\ NoFifo(MoveTree(made, src, dst))
    BY <2>1, <2>2, FifoCopy, FifoPieces
  <2>4. \/ CopyUpFails(src)
        \/ up' \in {up, copied, made, MoveTree(made, src, dst)}
    BY <1>5, <2>1, <2>2 DEF Rename
  <2> QED
    BY <2>3, <2>4, FifoCopy
<1>6. ASSUME NEW p, NEW truncate, NEW fail, Setattr(p, truncate, fail)
      PROVE  NoFifo(up')
  <2>1. NoFifo(CopyUp(p)) /\ NoFifo([CopyUp(p) EXCEPT ![p] = File("new")])
    BY <1>1, FifoCopy, FifoPieces
  <2> QED
    BY <1>2, <1>6, <2>1, FifoCopy DEF Setattr
<1>7. ASSUME NEW p, NEW fail, OpenWrite(p, fail)
      PROVE  NoFifo(up')
  BY <1>7, FifoCopy DEF OpenWrite
<1>8. ASSUME NEW p, Write(p)
      PROVE  NoFifo(up')
  BY <1>1, <1>8, FifoPieces DEF Write
<1>9. CASE ReadOnly
  BY <1>2, <1>9 DEF ReadOnly
<1> QED
  BY <1>1, <1>3, <1>4, <1>5, <1>6, <1>7, <1>8, <1>9
  DEF Next, Create, Mkdir, Symlink, Unlink, Rmdir

LEMMA NextBare ==
  ASSUME IInv, Bare, Next
  PROVE  Bare'
<1>1. writable' = writable
  BY NextStep DEF StepOK, given
<1>2. CASE writable
  BY <1>1, <1>2 DEF Bare
<1>3. CASE ~writable
  <2>1. \A p \in Paths : ~Write(p)
    BY <1>3 DEF Write, Bare, None
  <2>2. UNCHANGED <<up, wh>>
    BY <1>3, <2>1 DEF Next, ReadOnly, Refuse, Create, Mkdir, Symlink, New,
                      Unlink, Rmdir, Remove, Rename, Setattr, OpenWrite
  <2> QED
    BY <1>1, <2>2 DEF Bare
<1> QED
  BY <1>2, <1>3

-----------------------------------------------------------------------------
(* What is reported, and what is still to come.                            *)

\* The upper file or link is not what the commit has.
Differs(p) == up[p] \notin {None, Dir, lower[p], CopyOf(lower[p])}

\* The entries that ReadDir found and Lstat has not been asked about.
Left(stack) == UNION {stack[i].todo : i \in 1..Len(stack)}

\* The directory p is in, or the entry p itself, is still to be looked at.
Coming(p) == \/ walk.pc = "readDir" /\ IsBelow(p, walk.item)
             \/ \E q \in Left(walk.stack) : IsBelow(p, q)
Ahead(p)  == \/ Coming(p)
             \/ p \in Left(walk.stack)
             \/ walk.pc = "compare" /\ walk.item = p

\* At every step: no false report, and nothing missed that is not ahead.
ReportOK ==
  walk.pc \notin {"idle", "failed"} => \A p \in Paths \ touched :
    /\ Report(p) \in walk.changes => Differs(p)
    /\ Differs(p) => Report(p) \in walk.changes \/ Ahead(p)
    /\ p \in wh => Change(p, "removed") \in walk.changes \/ Coming(p)

EInv == PInv /\ NoFifo(up) /\ Bare /\ ReportOK

LEMMA ReportFacts ==
  \A p, q : /\ Report(p) = Report(q) => p = q
            /\ Report(p) # Change(q, "removed")
            /\ Change(p, "removed") = Change(q, "removed") => p = q
BY DEF Report, Change

\* Two entries differ if they cannot be compared, or if one is new.
LEMMA DiffersFacts ==
  ASSUME IInv, NoFifo(up), NEW p \in Paths, up[p] \notin {None, Dir}
  PROVE  /\ ~Comparable(up[p], p) => Differs(p)
         /\ up[p] = File("new") => Differs(p)
         /\ up[p] # CopyOf(lower[p]) => Differs(p)
<1>1. lower \in LowerTrees /\ lower[p] \in Entries \cup {None}
  BY StateFacts, TreeFacts DEF IInv, TypeOK
<1>2. lower[p].data # "new"
  BY <1>1, CommittedAssumption
<1>3. up[p] # Fifo
  BY DEF NoFifo
<1>4. CASE lower[p] \in {None, Dir}
  BY <1>4, EntryFacts DEF Differs, CopyOf, None, Dir, Fifo
<1>5. CASE lower[p] = Fifo
  BY <1>3, <1>5 DEF Differs, CopyOf, Comparable, None, Dir, Fifo, File
<1>6. CASE lower[p] \notin {None, Dir, Fifo}
  <2>1. CopyOf(lower[p]) = lower[p]
    BY <1>6 DEF CopyOf
  <2> QED
    BY <1>2, <1>6, <2>1 DEF Differs, Comparable, File
<1> QED
  BY <1>4, <1>5, <1>6

LEMMA ReadDirReports ==
  ASSUME EInv, ReadDir
  PROVE  ReportOK'
<1>1. /\ up' = up /\ wh' = wh /\ lower' = lower /\ touched' = touched
      /\ walk.pc = "readDir" /\ WalkOK /\ Sound(up, wh)
  BY DEF ReadDir, LeaveDisk, vars, given, EInv, PInv, IInv
<1>2. walk.item \in PathsAndRoot /\ walk.stack \in Seq(Frames)
  BY <1>1 DEF WalkOK
<1>3. CASE Becomes("failed", walk.stack, walk.item, walk.changes)
  BY <1>3 DEF Becomes, ReportOK
<1>4. ASSUME NEW todo, NEW s, NEW c,
             todo = {q \in Children(walk.item) : up[q] # None},
             s = Append(walk.stack, [dir |-> walk.item, todo |-> todo]),
             c = walk.changes \cup
                   {Change(q, "removed") : q \in Children(walk.item) \cap wh},
             Becomes("entries", s, walk.item, c)
      PROVE  ReportOK'
  <2>1. Left(walk.stack) \subseteq Left(s) /\ todo \subseteq Left(s)
    <3>1. PICK n : n = Len(walk.stack) /\ n \in Nat
      BY <1>2
    <3>2. PICK f : f = [dir |-> walk.item, todo |-> todo]
      OBVIOUS
    <3>3. f \in Frames /\ f.todo = todo
      BY <1>2, <1>4, <3>2 DEF Frames, Children
    <3>4. /\ Len(s) = n + 1 /\ s[n + 1].todo = todo
          /\ \A i \in 1..n : s[i] = walk.stack[i]
      BY <1>2, <1>4, <3>1, <3>2, <3>3, AppendProperties
    <3> QED
      BY <3>1, <3>4 DEF Left
  <2>2. walk'.pc = "entries" /\ walk'.stack = s /\ walk'.changes = c
    BY <1>4 DEF Becomes
  <2>3. ASSUME NEW p \in Paths, IsBelow(p, walk.item), p \notin Children(walk.item),
               up[p] # None \/ p \in wh
        PROVE  \E q \in todo : IsBelow(p, q)
    <3>1. PICK r \in Children(walk.item) : r = p \/ r \in Ancestors(p)
      BY <1>2, <2>3, ChildTowards
    <3>2. r \in Ancestors(p) /\ IsBelow(p, r)
      BY <2>3, <3>1 DEF Ancestors
    <3>3. up[r] = Dir
      BY <1>1, <2>3, <3>2 DEF Sound, IsTree
    <3> QED
      BY <1>4, <3>1, <3>2, <3>3, EntryFacts
  <2>4. ASSUME NEW p \in Paths, p \notin touched
        PROVE  /\ Report(p) \in c => Differs(p)
               /\ Differs(p) => Report(p) \in c \/ p \in Left(s)
                                \/ \E q \in Left(s) : IsBelow(p, q)
               /\ p \in wh => Change(p, "removed") \in c
                              \/ \E q \in Left(s) : IsBelow(p, q)
    <3>1. /\ Report(p) \in walk.changes => Differs(p)
          /\ Differs(p) => Report(p) \in walk.changes \/ Ahead(p)
          /\ p \in wh => Change(p, "removed") \in walk.changes \/ Coming(p)
      BY <1>1, <2>4 DEF EInv, ReportOK
    <3>2. Report(p) \in c => Report(p) \in walk.changes
      BY <1>4, ReportFacts
    <3>3. ASSUME Coming(p), up[p] # None \/ p \in wh
          PROVE  \/ \E q \in Left(s) : IsBelow(p, q)
                 \/ p \in Children(walk.item)
      BY <2>1, <2>3, <3>3 DEF Coming
    <3>4. p \in Children(walk.item) =>
            /\ up[p] # None => p \in Left(s)
            /\ p \in wh => Change(p, "removed") \in c
      BY <1>4, <2>1
    <3>5. Differs(p) => up[p] # None
      BY DEF Differs
    <3>6. walk.changes \subseteq c
      BY <1>4
    <3>7. Ahead(p) => Coming(p) \/ p \in Left(s)
      BY <1>1, <2>1 DEF Ahead
    <3> QED
      BY <3>1, <3>2, <3>3, <3>4, <3>5, <3>6, <3>7
  <2> QED
    BY <1>1, <2>2, <2>4 DEF ReportOK, Differs, Report, Ahead, Coming
<1> QED
  BY <1>1, <1>3, <1>4, ReadDirEffect

LEMMA LstatReports ==
  ASSUME EInv, Lstat
  PROVE  ReportOK'
<1>1. /\ up' = up /\ wh' = wh /\ lower' = lower /\ touched' = touched
      /\ walk.pc = "entries" /\ WalkOK /\ Sound(up, wh) /\ IInv
  BY DEF Lstat, LeaveDisk, vars, given, EInv, PInv, IInv
<1>2. PICK s, p :
        /\ p \in Paths /\ Taken(s, p)
        /\ \/ Becomes("failed", s, p, walk.changes)
           \/ up[p] = Dir /\ Becomes("readDir", s, p, walk.changes)
           \/ /\ up[p] \notin {None, Dir}
              /\ Becomes("compare", s, p, walk.changes)
           \/ /\ up[p] \notin {None, Dir}
              /\ ~Comparable(up[p], p) \/ up[p] = File("new")
              /\ Becomes("entries", s, p, walk.changes \cup {Report(p)})
  BY <1>1, LstatEffect
<1>3. \A q \in Left(walk.stack) : q = p \/ q \in Left(s)
  <2>1. /\ Len(s) = Len(walk.stack)
        /\ \A i \in 1..Len(walk.stack) :
             \A q \in walk.stack[i].todo : q = p \/ q \in s[i].todo
    BY <1>2 DEF Taken
  <2> QED
    BY <2>1 DEF Left
<1>4. \A q \in Paths \ touched :
        /\ Report(q) \in walk.changes => Differs(q)
        /\ Differs(q) => \/ Report(q) \in walk.changes
                         \/ q = p \/ IsBelow(q, p) \/ q \in Left(s)
                         \/ \E r \in Left(s) : IsBelow(q, r)
        /\ q \in wh => \/ Change(q, "removed") \in walk.changes
                       \/ IsBelow(q, p)
                       \/ \E r \in Left(s) : IsBelow(q, r)
  BY <1>1, <1>3 DEF EInv, ReportOK, Ahead, Coming
<1>5. CASE up[p] = Dir /\ Becomes("readDir", s, p, walk.changes)
  <2>1. /\ walk'.pc = "readDir" /\ walk'.stack = s /\ walk'.item = p
        /\ walk'.changes = walk.changes
    BY <1>5 DEF Becomes
  <2>2. ~Differs(p)
    BY <1>5 DEF Differs
  <2> QED
    BY <1>1, <1>4, <2>1, <2>2 DEF ReportOK, Differs, Report, Ahead, Coming
<1>6. ASSUME up[p] \notin {None, Dir}, NEW q \in Paths, IsBelow(q, p)
      PROVE  ~Differs(q) /\ q \notin wh
  BY <1>1, <1>2, <1>6, OnlyDirsHold, NoMarkerBelowFile DEF Differs, Sound
<1>7. CASE up[p] \notin {None, Dir} /\ Becomes("compare", s, p, walk.changes)
  <2>1. /\ walk'.pc = "compare" /\ walk'.stack = s /\ walk'.item = p
        /\ walk'.changes = walk.changes
    BY <1>7 DEF Becomes
  <2> QED
    BY <1>1, <1>4, <1>6, <1>7, <2>1 DEF ReportOK, Differs, Report, Ahead, Coming
<1>8. CASE /\ up[p] \notin {None, Dir}
           /\ ~Comparable(up[p], p) \/ up[p] = File("new")
           /\ Becomes("entries", s, p, walk.changes \cup {Report(p)})
  <2>1. PICK c : c = walk.changes \cup {Report(p)}
    OBVIOUS
  <2>2. walk'.pc = "entries" /\ walk'.stack = s /\ walk'.changes = c
    BY <1>8, <2>1 DEF Becomes
  <2>3. Differs(p)
    BY <1>1, <1>2, <1>8, DiffersFacts DEF EInv
  <2>4. ASSUME NEW q \in Paths, q \notin touched
        PROVE  /\ Report(q) \in c => Differs(q)
               /\ Differs(q) => \/ Report(q) \in c \/ q \in Left(s)
                                \/ \E r \in Left(s) : IsBelow(q, r)
               /\ q \in wh => \/ Change(q, "removed") \in c
                              \/ \E r \in Left(s) : IsBelow(q, r)
    BY <1>4, <1>6, <1>8, <2>1, <2>3, <2>4, ReportFacts
  <2> QED
    BY <1>1, <2>2, <2>4 DEF ReportOK, Differs, Report, Ahead, Coming
<1>9. CASE Becomes("failed", s, p, walk.changes)
  BY <1>9 DEF Becomes, ReportOK
<1> QED
  BY <1>2, <1>5, <1>7, <1>8, <1>9

LEMMA CompareReports ==
  ASSUME EInv, Compare
  PROVE  ReportOK'
<1>1. /\ up' = up /\ wh' = wh /\ lower' = lower /\ touched' = touched
      /\ walk.pc = "compare" /\ WalkOK /\ IInv
  BY DEF Compare, LeaveDisk, vars, given, EInv, PInv
<1>2. PICK p : p = walk.item /\ p \in Paths
  BY <1>1 DEF WalkOK
<1>3. p \notin touched => ~raced
  BY <1>2 DEF EInv, PInv, ItemOK
<1>4. \A q \in Paths \ touched :
        /\ Report(q) \in walk.changes => Differs(q)
        /\ Differs(q) => \/ Report(q) \in walk.changes
                         \/ q = p \/ q \in Left(walk.stack)
                         \/ \E r \in Left(walk.stack) : IsBelow(q, r)
        /\ q \in wh => \/ Change(q, "removed") \in walk.changes
                       \/ \E r \in Left(walk.stack) : IsBelow(q, r)
  BY <1>1, <1>2 DEF EInv, ReportOK, Ahead, Coming
<1>5. ASSUME NEW pc \in {"remove", "entries"}, "same" \in SameContent(p),
             Becomes(pc, walk.stack, p, walk.changes)
      PROVE  ReportOK'
  <2>1. p \notin touched => ~Differs(p)
    BY <1>3, <1>5 DEF SameContent, Differs
  <2>2. /\ walk'.pc = pc /\ walk'.stack = walk.stack
        /\ walk'.changes = walk.changes
    BY <1>5 DEF Becomes
  <2> QED
    BY <1>1, <1>4, <2>1, <2>2 DEF ReportOK, Differs, Report, Ahead, Coming
<1>6. CASE /\ "differs" \in SameContent(p)
           /\ Becomes("entries", walk.stack, p, walk.changes \cup {Report(p)})
  <2>1. PICK c : c = walk.changes \cup {Report(p)}
    OBVIOUS
  <2>2. /\ walk'.pc = "entries" /\ walk'.stack = walk.stack
        /\ walk'.changes = c
    BY <1>6, <2>1 DEF Becomes
  <2>3. p \notin touched => Differs(p)
    <3>1. /\ up[p] \notin {None, Dir}
          /\ up[p] # CopyOf(lower[p])
      BY <1>6 DEF SameContent
    <3> QED
      BY <1>1, <1>2, <3>1, DiffersFacts DEF EInv
  <2>4. ASSUME NEW q \in Paths, q \notin touched
        PROVE  /\ Report(q) \in c => Differs(q)
               /\ Differs(q) => \/ Report(q) \in c \/ q \in Left(walk.stack)
                                \/ \E r \in Left(walk.stack) : IsBelow(q, r)
               /\ q \in wh => \/ Change(q, "removed") \in c
                              \/ \E r \in Left(walk.stack) : IsBelow(q, r)
    BY <1>4, <2>1, <2>3, <2>4, ReportFacts
  <2> QED
    BY <1>1, <2>2, <2>4 DEF ReportOK, Differs, Report, Ahead, Coming
<1>7. CASE Becomes("failed", walk.stack, p, walk.changes)
  BY <1>7 DEF Becomes, ReportOK
<1> QED
  BY <1>1, <1>2, <1>5, <1>6, <1>7, CompareEffect

\* Prune removes nothing that differs, or something that changed meanwhile.
LEMMA PruneReports ==
  ASSUME EInv, Prune
  PROVE  ReportOK'
<1>1. /\ wh' = wh /\ lower' = lower /\ touched' = touched
      /\ walk.pc = "remove" /\ WalkOK /\ IInv
  BY PruneEffect DEF Prune, given, EInv, PInv
<1>2. PICK p : p = walk.item /\ p \in Paths
  BY <1>1 DEF WalkOK
<1>3. PICK pc \in {"failed", "entries"} :
        Becomes(pc, walk.stack, walk.item, walk.changes)
  BY <1>1, GotoEffect DEF Prune
<1>4. walk'.pc = pc /\ walk'.stack = walk.stack /\ walk'.changes = walk.changes
  BY <1>3 DEF Becomes
<1>5. ASSUME NEW q \in Paths, q \notin touched
      PROVE  Differs(q)' <=> Differs(q)
  <2>1. CASE up' = up
    BY <1>1, <2>1 DEF Differs
  <2>2. CASE \A r \in Paths : up'[r] = IF r = p THEN None ELSE up[r]
    <3>1. q = p => up[p] \in {Dir, CopyOf(lower[p])}
      BY <1>1, <1>2, <1>5 DEF EInv, PInv, ItemOK
    <3> QED
      BY <1>1, <2>2, <3>1 DEF Differs
  <2> QED
    BY <1>1, <1>2, <2>1, <2>2, PruneEffect
<1> QED
  BY <1>1, <1>4, <1>5 DEF EInv, ReportOK, Report, Ahead, Coming

LEMMA LeaveDirReports ==
  ASSUME EInv, LeaveDir
  PROVE  ReportOK'
<1>1. /\ up' = up /\ wh' = wh /\ lower' = lower /\ touched' = touched
      /\ walk.pc = "entries" /\ Top.todo = {} /\ WalkOK
  BY DEF LeaveDir, LeaveDisk, vars, given, EInv, PInv
<1>2. PICK s : /\ Popped(s)
               /\ \E pc \in {"done", "entries", "failed", "remove"} : \E item :
                    Becomes(pc, s, item, walk.changes)
  <2>1. PICK s : /\ Popped(s)
                 /\ \/ Becomes("done", s, walk.item, walk.changes)
                    \/ Becomes("entries", s, walk.item, walk.changes)
                    \/ Becomes("failed", s, walk.item, walk.changes)
                    \/ Becomes("remove", s, Top.dir, walk.changes)
    BY <1>1, LeaveDirEffect
  <2>2. \E pc \in {"done", "entries", "failed", "remove"} : \E item :
          Becomes(pc, s, item, walk.changes)
    BY <2>1
  <2> QED
    BY <2>1, <2>2
<1>3. /\ walk'.pc \in {"done", "entries", "failed", "remove"}
      /\ walk'.stack = s /\ walk'.changes = walk.changes
  BY <1>2 DEF Becomes
<1>4. Left(walk.stack) = Left(s)
  <2>1. PICK n : n = Len(walk.stack) /\ n \in Nat
    BY <1>1 DEF WalkOK
  <2>2. /\ Len(s) = n - 1 /\ \A i \in 1..n - 1 : s[i] = walk.stack[i]
        /\ walk.stack[n].todo = {}
    BY <1>1, <1>2, <2>1 DEF Popped, Top
  <2>3. \A q : q \in Left(walk.stack) <=>
                 \E i \in 1..n : q \in walk.stack[i].todo
    BY <2>1 DEF Left
  <2>4. \A q : q \in Left(s) <=>
                 \E i \in 1..n - 1 : q \in walk.stack[i].todo
    BY <2>1, <2>2 DEF Left
  <2>5. \A i : i \in 1..n <=> i \in 1..n - 1 \/ (i = n /\ n # 0)
    BY <2>1
  <2>6. \A q : q \in Left(walk.stack) <=> q \in Left(s)
    BY <2>2, <2>3, <2>4, <2>5
  <2> QED
    BY <2>6
<1> QED
  BY <1>1, <1>3, <1>4
  DEF EInv, ReportOK, Differs, Report, Ahead, Coming

LEMMA BeginReports ==
  ASSUME EInv, NEW prune, Begin(prune)
  PROVE  ReportOK'
<1>1. /\ up' = up /\ wh' = wh /\ lower' = lower /\ walk = Idle
  BY DEF Begin, vars, given, EInv, PInv, WalkOK
<1>2. /\ walk'.pc = IF writable THEN "readDir" ELSE "done"
      /\ walk'.stack = <<>> /\ walk'.item = <<>> /\ walk'.changes = {}
  BY <1>1 DEF Begin, Idle
<1>3. CASE writable
  BY <1>1, <1>2, <1>3, RootIsAboveAll DEF ReportOK, Ahead, Coming
<1>4. CASE ~writable
  <2>1. wh = {} /\ \A p \in Paths : ~Differs(p)
    BY <1>4 DEF EInv, Bare, Differs
  <2> QED
    BY <1>1, <1>2, <2>1 DEF ReportOK, Differs
<1> QED
  BY <1>3, <1>4

\* A call may change what the walk has seen, or has still to see, but then
\* the path is touched.
LEMMA HandlerReports ==
  ASSUME EInv, Handler
  PROVE  ReportOK'
<1>1. /\ walk' = walk
      /\ touched' = touched \cup
           {p \in Paths : up'[p] # up[p] \/ (p \in wh) # (p \in wh')}
  BY DEF Handler
<1>2. lower' = lower
  BY LowerStays DEF DiffNext, EInv
<1>3. \A p \in Paths : p \notin touched' =>
        /\ p \notin touched
        /\ up'[p] = up[p] /\ (p \in wh') = (p \in wh)
  BY <1>1
<1> QED
  BY <1>1, <1>2, <1>3 DEF EInv, ReportOK, Differs, Report, Ahead, Coming

LEMMA NextReports ==
  ASSUME EInv, DiffNext
  PROVE  ReportOK'
<1>1. CASE DiskError
  <2>1. walk'.pc = "failed"
    BY <1>1, GotoEffect DEF DiskError, Becomes, EInv, PInv
  <2> QED
    BY <2>1 DEF ReportOK
<1> QED
  BY <1>1, BeginReports, ReadDirReports, LstatReports, CompareReports,
     PruneReports, LeaveDirReports, HandlerReports DEF DiffNext, Walk

LEMMA InitEInv == DiffInit => EInv
<1> SUFFICES ASSUME DiffInit PROVE EInv
  OBVIOUS
<1>1. walk.pc = "idle" /\ wh = {} /\ up = [p \in Paths |-> None]
  BY DEF DiffInit, Init, Idle
<1>2. NoFifo(up) /\ Bare
  BY <1>1 DEF NoFifo, Bare, None, Fifo
<1> QED
  BY <1>1, <1>2, InitPInv DEF EInv, ReportOK

LEMMA NextEInv == EInv /\ [DiffNext]_allVars => EInv'
<1>1. ASSUME EInv, UNCHANGED allVars
      PROVE  EInv'
  <2>1. PInv'
    BY <1>1, NextPInv DEF EInv
  <2> QED
    BY <1>1, <2>1 DEF EInv, Bare, ReportOK, Differs, Report, Ahead, Coming,
                      allVars, walkVars, vars, given
<1>2. ASSUME EInv, DiffNext
      PROVE  NoFifo(up') /\ Bare'
  <2>1. CASE Handler
    BY <1>2, <2>1, NextNoFifo, NextBare DEF Handler, EInv, PInv
  <2>2. CASE Prune
    <3>1. wh' = wh /\ writable' = writable
      BY <2>2 DEF Prune, given
    <3>2. walk.item \in Paths
      BY <1>2, <2>2 DEF Prune, EInv, PInv, WalkOK
    <3>3. NoFifo(up')
      BY <1>2, <2>2, FifoPieces, SMTT(40) DEF Prune, EInv, None, Fifo
    <3>4. Bare'
      BY <1>2, <2>2, <3>1, PruneEffect DEF EInv, PInv, Bare
    <3> QED
      BY <3>3, <3>4
  <2>3. CASE UNCHANGED vars
    BY <1>2, <2>3 DEF EInv, Bare, vars, given
  <2> QED
    BY <1>2, <2>1, <2>2, <2>3 DEF DiffNext, Walk, Begin, ReadDir, Lstat,
                                  Compare, LeaveDir, DiskError, LeaveDisk
<1> QED
  BY <1>1, <1>2, NextPInv, NextReports DEF EInv

LEMMA SpecEInv == DiffSpec => []EInv
BY InitEInv, NextEInv, PTL DEF DiffSpec

\* What users see of a path that differs is its upper entry.
LEMMA DiffersIsChanged ==
  ASSUME IInv, NEW p \in Paths
  PROVE  /\ Changed(p) <=> Differs(p)
         /\ Gone(p) => p \in wh
<1>1. /\ View[p] = VisibleOf(up, wh, lower, p) /\ Sound(up, wh)
      /\ up[p] \in Entries \cup {None}
      /\ IsDir(Parent(p)) <=> WalkOf(up, wh, lower, p)
  BY StateFacts, TreeFacts, ViewFacts DEF Seen
<1>2. Differs(p) => WalkOf(up, wh, lower, p) /\ p \notin wh
  <2>1. ASSUME Differs(p), NEW q \in Ancestors(p)
        PROVE  StatOf(up, wh, lower, q) = Dir
    <3>1. up[q] = Dir /\ q \notin wh
      BY <1>1, <2>1, EntryFacts DEF Differs, Sound, IsTree, Ancestors
    <3> QED
      BY <3>1, EntryFacts DEF StatOf
  <2> QED
    BY <1>1, <2>1 DEF WalkOf, Differs, Sound
<1>3. Differs(p) => Changed(p)
  <2>1. Differs(p) => View[p] = up[p]
    BY <1>1, <1>2 DEF VisibleOf, StatOf, Differs
  <2>2. \A e \in Entries : e # Dir => e.kind \in {"file", "link", "fifo"}
    BY DEF Entries, Dir, File, Link, Fifo
  <2> QED
    BY <1>1, <2>1, <2>2 DEF Differs, Changed
<1>4. Changed(p) => Differs(p)
  <2>1. /\ View[p] \in {None, lower[p], up[p]}
        /\ View[p].kind \in {"file", "link", "fifo"} => View[p] \notin {None, Dir}
    BY <1>1 DEF VisibleOf, StatOf, None, Dir
  <2> QED
    BY <2>1 DEF Changed, Differs
<1>5. Gone(p) => p \in wh
  BY <1>1, EntryFacts DEF Gone, VisibleOf, StatOf
<1> QED
  BY <1>3, <1>4, <1>5

\* diffUpperDir, taking no lock, among the handlers of the union: when it
\* answers OK, it is right about every path that no handler touched.
THEOREM DiffsAreExact == DiffSpec => []DiffIsExact
<1>1. EInv => DiffIsExact
  <2> SUFFICES ASSUME EInv, walk.pc = "done", NEW p \in Paths \ touched
               PROVE  /\ Report(p) \in walk.changes <=> Changed(p)
                      /\ Gone(p) => Change(p, "removed") \in walk.changes
    BY DEF DiffIsExact
  <2>1. walk.stack = <<>>
    BY DEF EInv, PInv, WalkOK
  <2>2. Left(walk.stack) = {}
    BY <2>1 DEF Left
  <2>3. /\ Report(p) \in walk.changes <=> Differs(p)
        /\ p \in wh => Change(p, "removed") \in walk.changes
    BY <2>2 DEF EInv, ReportOK, Ahead, Coming
  <2> QED
    BY <2>3, DiffersIsChanged DEF EInv, PInv
<1> QED
  BY <1>1, SpecEInv, PTL
=============================================================================
