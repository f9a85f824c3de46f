----------------------------- MODULE UnionCrash -----------------------------
(***************************************************************************)
(* The daemon dies inside a handler (cmd/fvs2d/fuse.go).  The upper        *)
(* directory outlives it, as it was after some of the handler's system     *)
(* calls, and a later mount of the same layers starts from it.             *)
(*                                                                         *)
(* Cuts(call) is the set of those directories for the call that a step of  *)
(* UnionFS makes; the properties compare what each of them would show with *)
(* what users saw before the call and see after it.                        *)
(***************************************************************************)
EXTENDS UnionFS

\* The union file system on another upper directory.
Mounted(u, w) == INSTANCE UnionFS WITH up <- u, wh <- w

Disk(u, w) == [up |-> u, wh |-> w]

\* Create, Mkdir, Symlink: directories, marker away, entry.
NewCuts(p, entry) ==
  LET made == MkdirAll(up, Parent(p))
      cleared == ClearWhiteout(wh, p)
  IN {Disk(up, wh), Disk(made, wh), Disk(made, cleared),
      Disk([made EXCEPT ![p] = entry], cleared)}

\* Mutant: the upper entry goes before the marker is made.
RemoveCuts_EntryFirst(p) ==
  LET whiteout == StatLower(p) # None
      made == IF whiteout THEN MkdirAll(up, Parent(p)) ELSE up
  IN {Disk(up, wh), Disk(made, wh), Disk([made EXCEPT ![p] = None], wh),
      Disk([made EXCEPT ![p] = None], Mark(wh, p, whiteout))}
\* Unlink, Rmdir: directories, marker, entry away.
RemoveCuts(p) ==
  LET whiteout == StatLower(p) # None
      made == IF whiteout THEN MkdirAll(up, Parent(p)) ELSE up
      marked == Mark(wh, p, whiteout)
  IN {Disk(up, wh), Disk(made, wh), Disk(made, marked),
      Disk([made EXCEPT ![p] = None], marked)}

\* copyUp: directories, then a file with some of the data, then all of it.
CopyCuts(p) ==
  {Disk(up, wh), Disk(CopyUp(p), wh)} \cup
  (IF NeedsCopy(p)
     THEN {Disk(MkdirAll(up, Parent(p)), wh)} \cup
          (IF lower[p].kind = "link" THEN {}
           ELSE {Disk([CopyUp(p) EXCEPT ![p] = File("part")], wh)})
     ELSE {})

\* Mutant: the entry leaves its old place before it is in the new one.
RenameCuts_Unlink(src, dst) ==
  CopyCuts(src) \cup
  {Disk([CopyUp(src) EXCEPT ![src] = None], Mark(wh, src, StatLower(src) # None))}
\* Rename: copyUp, directories, marker of the source, marker of the target
\* away, os.Rename.
RenameCuts(src, dst) ==
  LET copied == CopyUp(src)
      made == MkdirAll(copied, Parent(dst))
      marked == Mark(wh, src, StatLower(src) # None)
      swapped == ClearWhiteout(marked, dst)
  IN CopyCuts(src) \cup
     (IF copied[src] = None THEN {}
      ELSE {Disk(made, wh), Disk(made, marked), Disk(made, swapped),
            Disk(MoveTree(made, src, dst), MoveMarkers(swapped, src, dst))})

\* Calls that fail before their end make some of the same system calls.
Cuts(call) ==
  IF call.errno # "OK" THEN {} ELSE
  CASE call.op = "create"  -> NewCuts(call.path, File("new"))
    [] call.op = "mkdir"   -> NewCuts(call.path, Dir)
    [] call.op = "symlink" -> NewCuts(call.path, Link("new"))
    [] call.op \in {"unlink", "rmdir"} -> RemoveCuts(call.path)
    [] call.op = "rename"  -> RenameCuts(call.path, call.to)
    [] call.op \in {"setattr", "truncate", "open"} -> CopyCuts(call.path)
    [] OTHER -> {}

-----------------------------------------------------------------------------
\* The paths a call is about, and what is inside them.
Touched(call) ==
  {p \in Paths : \E q \in {call.path, call.to} \ {<<>>} : p = q \/ IsBelow(p, q)}

ViewAt(d) == Mounted(d.up, d.wh)!View

\* Wherever in a handler the daemon dies, a later mount shows every path the
\* call was not about as it was; and a dying Unlink or Rmdir has either
\* happened or not.
CrashIsLocal ==
  [][\A d \in Cuts(last') :
       /\ \A p \in Paths \ Touched(last') :
            ViewAt(d)[p] \in {View[p], View'[p]}
       /\ last'.op \in {"unlink", "rmdir"} =>
            ViewAt(d) \in {View, View'}]_vars

\* What was written to the upper directory is in it after a crash, though a
\* marker may hide it: at its path, or where a rename was taking it.  Only
\* what the call removes or replaces is gone.
CrashKeepsData ==
  [][\A d \in Cuts(last') : \A p \in Paths :
       up[p] = File("new") =>
         \/ d.up[p] = File("new")
         \/ last'.op = "unlink" /\ p = last'.path
         \/ last'.op = "rename" /\ p = last'.to
         \/ /\ last'.op = "rename" /\ (p = last'.path \/ IsBelow(p, last'.path))
            /\ d.up[Origin(p, last'.to, last'.path)] = File("new")]_vars
=============================================================================
