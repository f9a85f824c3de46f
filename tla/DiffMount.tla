----------------------------- MODULE DiffMount -----------------------------
(***************************************************************************)
(* DiffMount (cmd/fvs2d/manager.go): a walk of a mount's upper directory   *)
(* that reports what differs from the committed tree and, with             *)
(* prune_unchanged, removes what does not.  It takes the registry's lock   *)
(* to find the mount and no lock after that, so the handlers of UnionFS    *)
(* run between any two of its system calls.                                *)
(*                                                                         *)
(* A step is one system call with what the code decides by its answer.     *)
(* os.ReadDir sorts; here a directory's entries come in any order.  The    *)
(* reports carry no sizes.  Modes are left out, as in UnionFS, so chmod is *)
(* no change.                                                              *)
(***************************************************************************)
EXTENDS UnionFS

CONSTANT MaxCalls   \* bound: calls of UnionFS in a run

ASSUME CallsAssumption == MaxCalls \in Nat

\* "new" is what was written since the commit.
ASSUME CommittedAssumption ==
  \A t \in LowerTrees : \A p \in Paths : t[p].data # "new"

VARIABLES walk,     \* the call of DiffMount
          calls,    \* calls of UnionFS so far
          touched,  \* paths whose upper entry or marker changed since it began
          raced     \* whether its current entry changed since Lstat

walkVars == <<walk, touched, raced>>
allVars  == <<vars, calls, walkVars>>

Change(p, kind) == [path |-> p, kind |-> kind]
Idle == [pc |-> "idle", prune |-> FALSE, stack |-> <<>>, item |-> <<>>,
         changes |-> {}]

DiffInit == Init /\ calls = 0 /\ walk = Idle /\ touched = {} /\ raced = FALSE

-----------------------------------------------------------------------------
(* diffUpperDir.                                                           *)

Top == walk.stack[Len(walk.stack)]
Goto(pc) == walk' = [walk EXCEPT !.pc = pc]
LeaveDisk == UNCHANGED <<vars, calls, touched>>

\* mountView, then the walk if the mount is writable.
Begin(prune) ==
  /\ walk.pc = "idle"
  /\ walk' = [walk EXCEPT !.pc = IF writable THEN "readDir" ELSE "done",
                          !.prune = prune]
  /\ touched' = {}
  /\ UNCHANGED <<vars, calls, raced>>

\* os.ReadDir of item.  Markers are reported from their names alone.
ReadDir ==
  /\ walk.pc = "readDir"
  /\ LET dir == walk.item
     IN IF dir # <<>> /\ up[dir] # Dir
          THEN Goto("failed")
          ELSE walk' = [walk EXCEPT !.pc = "entries",
                 !.stack = Append(@, [dir |-> dir,
                                      todo |-> {q \in Children(dir) : up[q] # None}]),
                 !.changes = @ \cup {Change(q, "removed") : q \in Children(dir) \cap wh}]
  /\ LeaveDisk /\ UNCHANGED raced

\* What is reported of an entry that is not as the commit has it.
Report(p) == Change(p, IF lower[p] = None THEN "added" ELSE "modified")

\* entryUnchanged, as far as Lstat's answer e decides: the two can be the
\* same when both are links, or neither is.
Comparable(e, p) ==
  /\ lower[p] \notin {None, Dir}
  /\ (e.kind = "link") = (lower[p].kind = "link")

\* os.Lstat of the next entry.  New data may have the size of the old.
Lstat ==
  /\ walk.pc = "entries" /\ Top.todo # {}
  /\ \E p \in Top.todo :
       LET next == [walk EXCEPT !.stack[Len(walk.stack)].todo = @ \ {p},
                                !.item = p]
           e == up[p]
       IN walk' \in
            IF e = None THEN {[next EXCEPT !.pc = "failed"]}
            ELSE IF e = Dir THEN {[next EXCEPT !.pc = "readDir"]}
            ELSE (IF Comparable(e, p) THEN {[next EXCEPT !.pc = "compare"]} ELSE {})
                 \cup (IF ~Comparable(e, p) \/ e = File("new")
                       THEN {[next EXCEPT !.changes = @ \cup {Report(p)}]} ELSE {})
  /\ raced' = FALSE
  /\ LeaveDisk

\* Mutant: what has the size of the committed file counts as unchanged.
SameContent_BySize(p) == {"same"}
\* Readlink, or sameContent: what the comparison can find.  It reads as much
\* as the committed file has, so it takes data appended since Lstat for no
\* change; a file cut short since, or gone, is an error ("failed").
SameContent(p) ==
  IF up[p] = None \/ up[p] = Dir \/ (up[p].kind # "link" /\ lower[p].kind = "link")
    THEN {"failed"}
  ELSE IF up[p] = CopyOf(lower[p]) THEN {"same"}
  ELSE IF raced /\ lower[p].kind # "link" THEN {"same", "differs", "failed"}
  ELSE {"differs"}

Compare ==
  /\ walk.pc = "compare"
  /\ \E found \in SameContent(walk.item) :
       \/ found = "failed" /\ Goto("failed")
       \/ found = "same" /\ Goto(IF walk.prune THEN "remove" ELSE "entries")
       \/ /\ found = "differs"
          /\ walk' = [walk EXCEPT !.pc = "entries",
                                  !.changes = @ \cup {Report(walk.item)}]
  /\ LeaveDisk /\ UNCHANGED raced

\* Mutant: os.RemoveAll, which a directory with entries does not stop.
Prune_RemoveAll ==
  /\ walk.pc = "remove"
  /\ Goto("entries")
  /\ up' = [p \in Paths |-> IF p = walk.item \/ IsBelow(p, walk.item)
                            THEN None ELSE up[p]]
  /\ UNCHANGED <<given, wh, last, calls, touched, raced>>
\* os.Remove of item, an unchanged file or an empty directory: it takes
\* whatever is there by now, and fails for a directory with entries.
Prune ==
  /\ walk.pc = "remove"
  /\ LET p == walk.item
     IN IF up[p] = None \/ ~EmptyUpper(up, wh, p)
          THEN Goto("failed") /\ UNCHANGED up
          ELSE Goto("entries") /\ up' = [up EXCEPT ![p] = None]
  /\ UNCHANGED <<given, wh, last, calls, touched, raced>>

\* The end of a directory: the walk is over, or goes back one level and,
\* when pruning, reads the directory again and removes it if it is empty.
LeaveDir ==
  /\ walk.pc = "entries" /\ Top.todo = {}
  /\ LET back == [walk EXCEPT !.stack = SubSeq(@, 1, Len(@) - 1)]
         dir == Top.dir
     IN walk' = IF dir = <<>> THEN [back EXCEPT !.pc = "done"]
                ELSE IF ~walk.prune THEN back
                ELSE IF up[dir] # Dir THEN [back EXCEPT !.pc = "failed"]
                ELSE IF EmptyUpper(up, wh, dir)
                  THEN [back EXCEPT !.pc = "remove", !.item = dir]
                ELSE back
  /\ raced' = FALSE
  /\ LeaveDisk

\* Any of the system calls fails.
DiskError ==
  /\ walk.pc \notin {"idle", "done", "failed"}
  /\ Goto("failed")
  /\ LeaveDisk /\ UNCHANGED raced

Walk == \/ \E prune \in BOOLEAN : Begin(prune)
        \/ ReadDir \/ Lstat \/ Compare \/ Prune \/ LeaveDir \/ DiskError

\* A call of the union file system, at any time.
Handler ==
  /\ calls < MaxCalls
  /\ Next
  /\ calls' = calls + 1
  /\ touched' = touched \cup
       {p \in Paths : up'[p] # up[p] \/ (p \in wh) # (p \in wh')}
  /\ raced' = (raced \/ (walk.item # <<>> /\ up'[walk.item] # up[walk.item]))
  /\ UNCHANGED walk

DiffNext == Walk \/ Handler
DiffSpec == DiffInit /\ [][DiffNext]_allVars

-----------------------------------------------------------------------------
(* Properties.                                                             *)

Changed(p) == /\ View[p].kind \in {"file", "link", "fifo"}
              /\ View[p] \notin {lower[p], CopyOf(lower[p])}
Gone(p)    == View[p] = None /\ lower[p] # None /\ IsDir(Parent(p))

\* A DiffMount that answers OK is right about every path that nobody touched
\* while it ran, whatever happened elsewhere, on the way to the path too, and
\* pruned or not: a file or link is reported exactly when users see something
\* else than the commit, and everything deleted from the commit is reported.
DiffIsExact ==
  walk.pc = "done" => \A p \in Paths \ touched :
    /\ Report(p) \in walk.changes <=> Changed(p)
    /\ Gone(p) => Change(p, "removed") \in walk.changes

\* Pruning hides or reverts no file: unless the entry it removes changed since
\* the walk looked at it, users see every file and link they saw.
PruneKeepsFiles ==
  [][(walk.pc = "remove" /\ walk' # walk /\ ~raced) =>
       \A p \in Paths : View[p].kind \in {"file", "link", "fifo"} =>
         View[p] \in {View'[p], CopyOf(View'[p])}]_allVars
=============================================================================
