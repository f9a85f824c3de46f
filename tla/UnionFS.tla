------------------------------ MODULE UnionFS ------------------------------
(***************************************************************************)
(* The writable union file system: cmd/fvs2d/fuse.go.  A mount shows the   *)
(* committed tree (lower, never written) under an upper directory on disk, *)
(* where every change lands and a file .wh.<name> hides <name>.            *)
(*                                                                         *)
(* Every handler runs under fuseState.mu, so a handler is one action.  Its *)
(* system calls on the upper directory can fail (disk full, I/O error):    *)
(* `fail' names the one that does, and the handler undoes what came before *)
(* it.  At most one call of a handler fails, so the undoing itself works.  *)
(*                                                                         *)
(* The data of files and the targets of links are abstracted to "base",    *)
(* what the commit holds, and "new", anything written since; permissions,  *)
(* owners and times are left out.                                          *)
(***************************************************************************)
EXTENDS FileTree

CONSTANT LowerTrees   \* committed trees a mount may be made of

Entries == {Dir, File("base"), File("new"), Link("base"), Link("new"), Fifo}
Trees   == [Paths -> Entries \cup {None}]

ASSUME LowerAssumption ==
  /\ LowerTrees \subseteq Trees
  /\ \A t \in LowerTrees : IsTree(t)

VARIABLES writable, \* whether the mount has an upper directory
          lower,  \* the committed tree
          up,     \* the upper directory, markers apart
          wh,     \* the paths whose .wh. marker is in the upper directory
          last    \* the last call: handler, path, second path, errno

given == <<writable, lower>>
vars == <<given, up, wh, last>>

Ops    == {"none", "create", "mkdir", "symlink", "unlink", "rmdir", "rename",
           "setattr", "truncate", "open", "write"}
Errnos == {"OK", "EROFS", "EIO", "ENOENT", "EISDIR", "ENOTDIR", "ENOTEMPTY", "EXDEV"}

\* Every variable holds a value of its kind.
TypeOK ==
  /\ writable \in BOOLEAN
  /\ lower \in LowerTrees
  /\ up \in Trees
  /\ wh \in SUBSET Paths
  /\ last \in [op : Ops, path : Paths \cup {<<>>}, to : Paths \cup {<<>>},
               errno : Errnos]

Init ==
  /\ writable \in BOOLEAN
  /\ lower \in LowerTrees
  /\ up = [p \in Paths |-> None]
  /\ wh = {}
  /\ last = [op |-> "none", path |-> <<>>, to |-> <<>>, errno |-> "OK"]

-----------------------------------------------------------------------------
(* Looking things up.                                                      *)

\* stat: the upper entry, else the lower one, unless a marker hides both.
Stat(p) == IF p \in wh THEN None ELSE IF up[p] # None THEN up[p] ELSE lower[p]
\* Mutant: the lower half is looked up only where the upper has nothing.
StatLower_UpperWins(p) ==
  IF p \in wh \/ up[p] # None THEN None ELSE lower[p]
\* stat's lower half, which remove and Rename go by.
StatLower(p) == IF p \in wh THEN None ELSE lower[p]

\* Mutant: the upper directory is listed only where there is no lower one.
DirEntries_EitherOr(p) ==
  {q \in Children(p) :
     /\ IF p = <<>> \/ StatLower(p) = Dir THEN lower[q] # None ELSE up[q] # None
     /\ Stat(q) # None}
\* dirEntries: the children of a directory that Readdir returns.
DirEntries(p) ==
  {q \in Children(p) :
     /\ \/ /\ p = <<>> \/ StatLower(p) = Dir
           /\ lower[q] # None /\ q \notin wh
        \/ up[q] # None
     /\ Stat(q) # None}

\* What a walk from the root finds at p: Lookup, component by component.
Visible(p) == IF \A q \in Ancestors(p) : Stat(q) = Dir THEN Stat(p) ELSE None
View == [p \in Paths |-> Visible(p)]
IsDir(p) == p = <<>> \/ (p \in Paths /\ Visible(p) = Dir)

-----------------------------------------------------------------------------
(* Pieces of the handlers, on an upper directory u and markers w.          *)

\* os.MkdirAll of the upper directory's counterpart of p.
MkdirAll(u, p) ==
  [q \in Paths |-> IF u[q] = None /\ (q = p \/ q \in Ancestors(p))
                   THEN Dir ELSE u[q]]

\* Mutants: the marker is not removed; it is made for the parent; it is not
\* put back.
ClearWhiteout_Keep(w, p) == w
MakeWhiteout_Parent(w, p) == w \cup {Parent(p)}
Restore_Skip(w, p, had) == w

ClearWhiteout(w, p) == w \ {p}
MakeWhiteout(w, p)  == w \cup {p}
\* Undoing after a failure: the marker comes back, or goes again.
Restore(w, p, had)  == IF had THEN MakeWhiteout(w, p) ELSE w
Unmark(w, p, made)  == IF made THEN ClearWhiteout(w, p) ELSE w
Mark(w, p, needed)  == IF needed THEN MakeWhiteout(w, p) ELSE w

\* copyUp: files and links move up unless they are there; directories do
\* not, and whatever is no link becomes a regular file.
NeedsCopy(p) == up[p] = None /\ lower[p] \notin {None, Dir}
CopyOf(e)    == IF e = Fifo THEN File("base") ELSE e
\* Mutant: the copy is made without the directories that lead to it.
CopyUp_NoParents(p) ==
  IF NeedsCopy(p) THEN [up EXCEPT ![p] = CopyOf(lower[p])] ELSE up
CopyUp(p)    == IF NeedsCopy(p)
                THEN [MkdirAll(up, Parent(p)) EXCEPT ![p] = CopyOf(lower[p])]
                ELSE up
\* copyUp fails: it removes the file it began, its directories stay.
CopyUpFails(p) == /\ NeedsCopy(p)
                  /\ up' \in {up, MkdirAll(up, Parent(p))}
                  /\ UNCHANGED wh

\* An upper directory os.Remove or os.Rename would find empty.
EmptyUpper(u, w, p) == \A q \in Below(p) : u[q] = None /\ q \notin w

\* os.Rename of src to dst: the entry and what is inside it move.  The
\* markers inside move along, those of src and dst lie outside.
Origin(q, src, dst) == src \o SubSeq(q, Len(dst) + 1, Len(q))
MoveTree(t, src, dst) ==
  [q \in Paths |->
     IF q = dst \/ IsBelow(q, dst)
       THEN IF Origin(q, src, dst) \in Paths THEN t[Origin(q, src, dst)]
            ELSE None
     ELSE IF q = src \/ IsBelow(q, src) THEN None
     ELSE t[q]]
MoveMarkers(w, src, dst) ==
  {q \in Paths : IF IsBelow(q, dst) THEN Origin(q, src, dst) \in w
                 ELSE ~IsBelow(q, src) /\ q \in w}

Reply(op, p, q, errno) ==
  last' = [op |-> op, path |-> p, to |-> q, errno |-> errno]

Refuse(op, p, errno) == UNCHANGED <<up, wh>> /\ Reply(op, p, <<>>, errno)

-----------------------------------------------------------------------------
(* Create, Mkdir and Symlink.  The kernel calls them for a name it just    *)
(* failed to look up in a directory.                                       *)

New(op, p, entry, fail) ==
  LET made    == MkdirAll(up, Parent(p))
      cleared == ClearWhiteout(wh, p)
  IN /\ writable
     /\ IsDir(Parent(p)) /\ Visible(p) = None
     /\ UNCHANGED given
     /\ \/ /\ fail = "mkdirAll"
           /\ Refuse(op, p, "EIO")
        \/ /\ fail = "clearWhiteout" /\ p \in wh
           /\ up' = made /\ wh' = wh
           /\ Reply(op, p, <<>>, "EIO")
        \/ /\ fail = "make"
           /\ up' = made /\ wh' = Restore(cleared, p, p \in wh)
           /\ Reply(op, p, <<>>, "EIO")
        \/ /\ fail = "no"
           /\ up' = [made EXCEPT ![p] = entry] /\ wh' = cleared
           /\ Reply(op, p, <<>>, "OK")

NewFailures == {"no", "mkdirAll", "clearWhiteout", "make"}

Create(p, fail)  == New("create", p, File("new"), fail)
Mkdir(p, fail)   == New("mkdir", p, Dir, fail)
Symlink(p, fail) == New("symlink", p, Link("new"), fail)

-----------------------------------------------------------------------------
(* Unlink and Rmdir.                                                       *)

Remove(op, p, dir, fail) ==
  LET whiteout == StatLower(p) # None
      marked   == Mark(wh, p, whiteout)
      made     == IF whiteout THEN MkdirAll(up, Parent(p)) ELSE up
  IN /\ writable
     /\ IsDir(Parent(p))
     /\ UNCHANGED given
     /\ \/ Stat(p) = None /\ Refuse(op, p, "ENOENT")
        \/ Stat(p) # None /\ dir /\ Stat(p) # Dir /\ Refuse(op, p, "ENOTDIR")
        \/ Stat(p) = Dir /\ ~dir /\ Refuse(op, p, "EISDIR")
        \/ Stat(p) = Dir /\ dir /\ DirEntries(p) # {}
           /\ Refuse(op, p, "ENOTEMPTY")
        \/ /\ Stat(p) # None /\ dir = (Stat(p) = Dir)
           /\ dir => DirEntries(p) = {}
           /\ \/ /\ fail = "makeWhiteout" /\ whiteout
                 /\ up' \in {up, made} /\ UNCHANGED wh
                 /\ Reply(op, p, <<>>, "EIO")
              \/ /\ fail = "remove" /\ up[p] # None
                 /\ up' = made /\ wh' = Unmark(marked, p, whiteout)
                 /\ Reply(op, p, <<>>, "EIO")
              \/ /\ fail = "no" /\ up[p] # None /\ ~EmptyUpper(up, wh, p)
                 /\ up' = made /\ wh' = Unmark(marked, p, whiteout)
                 /\ Reply(op, p, <<>>, "ENOTEMPTY")
              \/ /\ fail = "no" /\ (up[p] # None => EmptyUpper(up, wh, p))
                 /\ up' = [made EXCEPT ![p] = None] /\ wh' = marked
                 /\ Reply(op, p, <<>>, "OK")

RemoveFailures == {"no", "makeWhiteout", "remove"}

Unlink(p, fail) == Remove("unlink", p, FALSE, fail)
Rmdir(p, fail)  == Remove("rmdir", p, TRUE, fail)

-----------------------------------------------------------------------------
(* Rename, without flags.  The kernel has looked both names up: it refuses *)
(* to move a directory into itself, to replace an ancestor, and to replace *)
(* a directory by something else or the other way round.                   *)

KernelAllowsRename(src, dst) ==
  /\ IsDir(Parent(src)) /\ IsDir(Parent(dst))
  /\ Visible(src) # None
  /\ src # dst /\ ~IsBelow(dst, src) /\ ~IsBelow(src, dst)
  /\ Visible(dst) # None => (Visible(src) = Dir <=> Visible(dst) = Dir)

\* Bound: what moves stays within MaxDepth.
RenameFits(src, dst) ==
  \A q \in Below(src) :
    (up[q] # None \/ q \in wh) => Len(dst) + Len(q) - Len(src) <= MaxDepth

Rename(src, dst, fail) ==
  LET copied    == CopyUp(src)
      made      == MkdirAll(copied, Parent(dst))
      srcMarker == StatLower(src) # None
      dstMarker == dst \in wh
      marked    == Mark(wh, src, srcMarker)
      swapped   == ClearWhiteout(marked, dst)
      busy      == made[dst] # None /\ ~EmptyUpper(made, wh, dst)
  IN /\ writable
     /\ KernelAllowsRename(src, dst) /\ RenameFits(src, dst)
     /\ UNCHANGED given
     /\ \/ /\ fail = "copyUp" /\ CopyUpFails(src)
           /\ Reply("rename", src, dst, "EIO")
        \/ /\ fail # "copyUp" /\ copied[src] = None \* a lower directory
           /\ UNCHANGED <<up, wh>>
           /\ Reply("rename", src, dst, "EXDEV")
        \/ /\ fail = "mkdirAll" /\ copied[src] # None
           /\ up' = copied /\ UNCHANGED wh
           /\ Reply("rename", src, dst, "EIO")
        \/ /\ fail = "makeWhiteout" /\ copied[src] # None /\ srcMarker
           /\ up' = made /\ UNCHANGED wh
           /\ Reply("rename", src, dst, "EIO")
        \/ /\ fail = "clearWhiteout" /\ copied[src] # None /\ dstMarker
           /\ up' = made
           /\ wh' = Unmark(marked, src, srcMarker)
           /\ Reply("rename", src, dst, "EIO")
        \/ /\ \/ fail = "rename" /\ copied[src] # None
              \/ fail = "no" /\ copied[src] # None /\ busy
           /\ up' = made
           /\ wh' = Restore(Unmark(swapped, src, srcMarker), dst, dstMarker)
           /\ Reply("rename", src, dst, IF fail = "no" THEN "ENOTEMPTY" ELSE "EIO")
        \/ /\ fail = "no" /\ copied[src] # None /\ ~busy
           /\ up' = MoveTree(made, src, dst)
           /\ wh' = MoveMarkers(swapped, src, dst)
           /\ Reply("rename", src, dst, "OK")

RenameFailures == {"no", "copyUp", "mkdirAll", "makeWhiteout",
                   "clearWhiteout", "rename"}

-----------------------------------------------------------------------------
(* Setattr and Open for writing copy up; the data then goes to the upper   *)
(* file, through a handle and without the lock.                            *)

\* Setattr, with (truncate) or without a size: after copyUp the attributes
\* are set on the upper path, which a lower directory does not have.
Setattr(p, truncate, fail) ==
  LET op == IF truncate THEN "truncate" ELSE "setattr"
  IN /\ writable
     /\ Visible(p) # None
     /\ truncate => Visible(p).kind = "file"
     /\ UNCHANGED given
     /\ \/ /\ fail = "copyUp" /\ CopyUpFails(p)
           /\ Reply(op, p, <<>>, "EIO")
        \/ /\ fail # "copyUp" /\ CopyUp(p)[p] = None
           /\ Refuse(op, p, "ENOENT")
        \/ /\ fail = "set" /\ CopyUp(p)[p] # None
           /\ up' = CopyUp(p) /\ UNCHANGED wh
           /\ Reply(op, p, <<>>, "EIO")
        \/ /\ fail = "no" /\ CopyUp(p)[p] # None
           /\ up' = IF truncate THEN [CopyUp(p) EXCEPT ![p] = File("new")]
                    ELSE CopyUp(p)
           /\ UNCHANGED wh
           /\ Reply(op, p, <<>>, "OK")

\* Open for writing; the handle is a descriptor of the upper file.
OpenWrite(p, fail) ==
  /\ writable
  /\ Visible(p).kind = "file"
  /\ UNCHANGED <<given, wh>>
  /\ \/ /\ fail = "copyUp" /\ CopyUpFails(p)
        /\ Reply("open", p, <<>>, "EIO")
     \/ /\ fail = "set"
        /\ up' = CopyUp(p)
        /\ Reply("open", p, <<>>, "EIO")
     \/ /\ fail = "no"
        /\ up' = CopyUp(p)
        /\ Reply("open", p, <<>>, "OK")

AttrFailures == {"no", "copyUp", "set"}

\* A write through such a handle.
Write(p) ==
  /\ up[p].kind = "file"
  /\ up' = [up EXCEPT ![p] = File("new")]
  /\ UNCHANGED <<given, wh>>
  /\ Reply("write", p, <<>>, "OK")

-----------------------------------------------------------------------------
\* Without an upper directory every handler that would write refuses to.
ReadOnly ==
  /\ ~writable
  /\ UNCHANGED given
  /\ \E op \in Ops \ {"none", "write"}, p \in Paths : Refuse(op, p, "EROFS")

Next ==
  \/ ReadOnly
  \/ \E p \in Paths :
       \/ \E fail \in NewFailures :
            Create(p, fail) \/ Mkdir(p, fail) \/ Symlink(p, fail)
       \/ \E fail \in RemoveFailures : Unlink(p, fail) \/ Rmdir(p, fail)
       \/ \E fail \in AttrFailures :
            \/ OpenWrite(p, fail)
            \/ \E truncate \in BOOLEAN : Setattr(p, truncate, fail)
       \/ Write(p)
  \/ \E src, dst \in Paths, fail \in RenameFailures : Rename(src, dst, fail)

Spec == Init /\ [][Next]_vars

-----------------------------------------------------------------------------
(* Properties.                                                             *)

\* The upper directory is one: everything in it, markers included, is inside
\* directories of it.
UpperIsTree ==
  /\ IsTree(up)
  /\ \A p \in wh : \A q \in Ancestors(p) : up[q] = Dir

\* A marker never hides an entry of the upper directory itself, after any
\* sequence of calls, failures and undone steps: what was written there is
\* not lost behind a leftover marker, nor committed beside it.
NoShadow == \A p \in wh : up[p] = None

\* Readdir and Lookup agree: a directory lists exactly the names under which
\* a lookup in it finds something.
ReaddirIsLookup ==
  \A p \in Paths \cup {<<>>} :
    IsDir(p) => DirEntries(p) = {q \in Children(p) : Visible(q) # None}

\* View v shows what w shows, up to what copyUp does to a fifo of the commit.
SameView(v, w) == \A p \in Paths : v[p] \in {w[p], CopyOf(w[p])}

\* A call that fails leaves what users see as it was: the handlers undo the
\* markers they made or cleared, and what they copied up looks the same.
ErrorLeavesView ==
  [][last'.errno # "OK" => SameView(View', View)]_vars

\* What a POSIX file system shows after a call that succeeds.
Posix(v, call) ==
  CASE call.op = "create"  -> [v EXCEPT ![call.path] = File("new")]
    [] call.op = "mkdir"   -> [v EXCEPT ![call.path] = Dir]
    [] call.op = "symlink" -> [v EXCEPT ![call.path] = Link("new")]
    [] call.op \in {"unlink", "rmdir"} -> [v EXCEPT ![call.path] = None]
    [] call.op = "rename"  -> MoveTree(v, call.path, call.to)
    [] call.op \in {"setattr", "open"} -> v
    [] call.op = "truncate" -> [v EXCEPT ![call.path] = File("new")]
    [] call.op = "write"   -> [v EXCEPT ![call.path] =
                                IF @ = None THEN None ELSE File("new")]

\* The calls after which the union differs from POSIX: a directory is made
\* or moved where the commit has one, whose entries show through; or a
\* directory of the commit is moved, whose entries stay behind.
ShowsThrough(call) ==
  \/ call.op \in {"mkdir", "rename"} /\ \E p \in {call.path, call.to} :
       p # <<>> /\ lower[p] = Dir
  \/ call.op = "rename" /\ \E p \in Below(call.to) : lower[p] # None

\* A POSIX file system removes or replaces a directory only if it is empty.
PosixAllows(v, call) ==
  LET gone == IF call.op = "rename" THEN call.to ELSE call.path
  IN call.op \in {"rmdir", "rename"} => \A q \in Below(gone) : v[q] = None

\* Every other call that succeeds is one that POSIX allows, and changes what
\* users see exactly as it would there, and nothing else.
SuccessIsPosix ==
  [][(last'.errno = "OK" /\ ~ShowsThrough(last')) =>
       PosixAllows(View, last') /\ SameView(View', Posix(View, last'))]_vars

\* "a .wh.<name> whiteout marker removes it" (README.md): what a user cannot
\* see appears only when a call makes it, or moves it there.
DeletedStaysDeleted ==
  [][\A p \in Paths :
       (View[p] = None /\ View'[p] # None) =>
         \/ p \in {last'.path, last'.to}
         \/ last'.op = "rename" /\ IsBelow(p, last'.to)]_vars

\* "deletes ... are recorded in the upper directory" (README.md): Rmdir of a
\* directory that looks empty does not answer ENOTEMPTY.
EmptyCanBeRemoved ==
  [][(last'.op = "rmdir" /\ last'.errno = "ENOTEMPTY") =>
       DirEntries(last'.path) # {}]_vars
=============================================================================
