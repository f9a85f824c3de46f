------------------------------ MODULE Control ------------------------------
(***************************************************************************)
(* Who may call and on what: the control server's start                    *)
(* (startManagerServer, cmd/fvs2d/manager.go), the token check (auth.go),  *)
(* the path guard (pathguard.go) and the codes of errors (errors.go).      *)
(*                                                                         *)
(* Addresses, tokens and errors are the cases the code tells apart.  A     *)
(* path is a sequence of names; FileSystem says what is where.             *)
(***************************************************************************)
EXTENDS Naturals, Sequences
Seqs == INSTANCE SequencesExt

CONSTANT FileSystem  \* [dirs, files : sets of paths, links : path -> path]

\* Everything lies in directories; no link leads to another, every target
\* exists.
ASSUME FileSystemAssumption ==
  LET real  == FileSystem.dirs \cup FileSystem.files
      links == FileSystem.links
  IN /\ real \cup DOMAIN links \subseteq Seq(STRING) /\ <<>> \in FileSystem.dirs
     /\ real \cap DOMAIN links = {} /\ FileSystem.dirs \cap FileSystem.files = {}
     /\ \A p \in real \cup DOMAIN links :
          \A i \in 1..Len(p) : SubSeq(p, 1, i - 1) \in FileSystem.dirs
     /\ \A p \in DOMAIN links : links[p] \in real

-----------------------------------------------------------------------------
(* The control address.                                                    *)

Hosts     == {"localhost", "127.0.0.1", "::1", "192.168.0.2", "example.org", ""}
Addresses == [prefix : {"unix:", "tcp:", "/", ""}, host : Hosts]

\* parseControlAddr.
Network(addr) == IF addr.prefix \in {"unix:", "/"} THEN "unix"
                 ELSE IF addr.prefix = "" /\ addr.host = "" THEN "error" ELSE "tcp"

\* isLoopbackAddr: a name other than localhost is not looked up.
IsLoopback(addr) == addr.host \in {"localhost", "127.0.0.1", "::1"}

\* Mutant: a token, or --insecure-tcp, is enough.
MayListen_Either(c) ==
  \/ Network(c.addr) = "unix"
  \/ Network(c.addr) = "tcp" /\ (IsLoopback(c.addr) \/ c.insecure \/ c.token # "")
\* What startManagerServer agrees to listen on.
MayListen(c) ==
  \/ Network(c.addr) = "unix"
  \/ Network(c.addr) = "tcp" /\ (IsLoopback(c.addr) \/ (c.insecure /\ c.token # ""))

\* Whether it installs the token interceptors.
AsksToken(c) == Network(c.addr) = "tcp" /\ c.token # ""

\* checkToken: x-fvs2d-token first, then authorization.
TokenOk(md, want) ==
  LET got == IF md.token # "" THEN md.token ELSE md.bearer
  IN got # "" /\ got = want

-----------------------------------------------------------------------------
(* Paths.                                                                  *)

\* filepath.EvalSymlinks: where p is; or it is missing; or an error, where
\* the way leads through a file.
Found(p) == [is |-> "found", path |-> p]
Failed(why) == [is |-> why, path |-> <<>>]
Walk(at, name) ==
  LET q == Append(at.path, name)
  IN IF at.is # "found" THEN at
     ELSE IF at.path \in FileSystem.files THEN Failed("error")
     ELSE IF q \in DOMAIN FileSystem.links THEN Found(FileSystem.links[q])
     ELSE IF q \in FileSystem.dirs \cup FileSystem.files THEN Found(q)
     ELSE Failed("missing")
EvalSymlinks(p) == Seqs!FoldLeft(Walk, Found(<<>>), p)

\* canonicalizePath: the longest prefix that exists, resolved, and the rest.
Canonical(p) ==
  LET at(k) == EvalSymlinks(SubSeq(p, 1, k))
      k == Seqs!Max({i \in 0..Len(p) : at(i).is # "missing"})
  IN IF at(k).is = "error" THEN at(k)
     ELSE Found(at(k).path \o SubSeq(p, k + 1, Len(p)))

\* roots is {} without --root, else the one canonical root.
Inside(roots, p) == \A r \in roots : Seqs!IsPrefix(r, p)

\* Mutant: the guard compares, and hands on, the path as it came.
Guard_Raw(roots, p) == IF Inside(roots, p) THEN Found(p) ELSE Failed("escape")
\* pathGuard.check.
Guard(roots, p) ==
  LET canon == Canonical(p)
  IN IF canon.is = "found" /\ ~Inside(roots, canon.path) THEN Failed("escape")
     ELSE canon

-----------------------------------------------------------------------------
\* mapError, by the kind of error.
MapError(err) ==
  CASE err = "escape"        -> "PermissionDenied"
    [] err = "canceled"      -> "Canceled"
    [] err = "deadline"      -> "DeadlineExceeded"
    [] err = "stateNotFound" -> "NotFound"
    [] err = "lockTimeout"   -> "Aborted"
    [] OTHER                 -> "FailedPrecondition"
=============================================================================
