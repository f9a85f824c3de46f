---------------------------- MODULE MountManager ----------------------------
(***************************************************************************)
(* The mount manager: cmd/fvs2d/manager.go (mountManager and the mount     *)
(* RPCs) and runManager of cmd/fvs2d/main.go.                              *)
(*                                                                         *)
(* gRPC runs every call in its own goroutine, so each CreateMount and each *)
(* Unmount call is a process with a program counter; a step is what the    *)
(* code does in one critical section of mgr.mu or in one call out of the   *)
(* manager (building a tree, mkdir, fs.Mount, unmounting).  The main       *)
(* goroutine serves until a signal or a Shutdown request, sweeps the       *)
(* registry and stops the server.                                          *)
(*                                                                         *)
(* A CreateMount call, the mount it makes, the mount's random id and the   *)
(* tree the call builds all go by the name of the call.                    *)
(***************************************************************************)
EXTENDS Naturals, Sequences, FiniteSets

CONSTANTS Creates,   \* CreateMount calls
          Unmounts,  \* Unmount calls
          Keys,      \* tree-cache keys: one per sequence of resolved layers
          Points,    \* mount points
          PointOf,   \* PointOf[c]: the mount point call c asks for
          Nil

ASSUME CreatesFinite == IsFiniteSet(Creates)
ASSUME PointOfType   == PointOf \in [Creates -> Points]
ASSUME NilIsNoCall   == Nil \notin Creates
ASSUME NilIsNoRecord == Nil \notin [tree : Creates, refs : Nat]

VARIABLES
  trees,     \* mgr.trees: key -> [tree, refs], Nil when absent
  mounts,    \* mgr.mounts: the registered mounts
  cpc,       \* program counter of each CreateMount call
  ckey,      \* treeKey of each CreateMount call
  ctree,     \* tree handed to the call (kept in its mount)
  upc,       \* program counter of each Unmount call
  utarget,   \* the mount the call took out of the registry
  ulazy,     \* whether the call asks for UNMOUNT_MODE_LAZY
  stack,     \* the kernel: mounts stacked on each point, topmost first
  mpc,       \* program counter of the main goroutine
  left,      \* unmountAll: mounts taken and not yet handled
  cur,       \* unmountAll: the mount being detached
  lazy,      \* unmountAll's argument
  graceful,  \* whether GracefulStop (not Stop) ends the run
  logged,    \* mounts whose detach failure unmountAll logged
  sig,       \* a signal is pending in sigCh
  req        \* shutdownReq: a channel of capacity 1

cacheVars  == <<trees>>
createVars == <<cpc, ckey, ctree>>
unmountVars == <<upc, utarget, ulazy>>
sweepVars  == <<left, cur, lazy, graceful, logged>>
mainVars   == <<mpc, sweepVars>>
inputVars  == <<sig, req>>
vars == <<trees, mounts, createVars, unmountVars, stack, mainVars, inputVars>>

-----------------------------------------------------------------------------
(* Types and initial state.                                                *)

\* A create that runs holds its tree from "upper" to "release" (treeHeld).
CreateHeldPCs == {"upper", "mount", "id", "undo", "register", "release"}
CreateRunPCs  == {"acquire", "build", "insert"} \cup CreateHeldPCs
CreatePCs     == {"new", "ok", "failed"} \cup CreateRunPCs
\* "releaseOk" and "releaseErr": the deferred release, after detach.
UnmountRunPCs == {"detach", "wait", "releaseOk", "releaseErr"}
UnmountPCs    == {"new", "ok", "internal", "notFound"} \cup UnmountRunPCs
MainPCs       == {"serve", "sweep", "detach", "wait", "stop", "exited"}

\* Every variable holds a value of its kind.
TypeOK ==
  /\ trees \in [Keys -> [tree : Creates, refs : Nat] \cup {Nil}]
  /\ mounts \in SUBSET Creates
  /\ cpc \in [Creates -> CreatePCs]
  /\ ckey \in [Creates -> Keys \cup {Nil}]
  /\ ctree \in [Creates -> Creates \cup {Nil}]
  /\ upc \in [Unmounts -> UnmountPCs]
  /\ utarget \in [Unmounts -> Creates \cup {Nil}]
  /\ ulazy \in [Unmounts -> BOOLEAN]
  /\ stack \in [Points -> Seq(Creates)]
  /\ mpc \in MainPCs
  /\ left \in SUBSET Creates
  /\ cur \in Creates \cup {Nil}
  /\ lazy \in BOOLEAN
  /\ graceful \in BOOLEAN
  /\ logged \in SUBSET Creates
  /\ sig \in BOOLEAN
  /\ req \in {"none", "lazy", "normal"}

Init ==
  /\ trees = [k \in Keys |-> Nil]
  /\ mounts = {}
  /\ cpc = [c \in Creates |-> "new"]
  /\ ckey = [c \in Creates |-> Nil]
  /\ ctree = [c \in Creates |-> Nil]
  /\ upc = [u \in Unmounts |-> "new"]
  /\ utarget = [u \in Unmounts |-> Nil]
  /\ ulazy = [u \in Unmounts |-> FALSE]
  /\ stack = [p \in Points |-> <<>>]
  /\ mpc = "serve"
  /\ left = {}
  /\ cur = Nil
  /\ lazy = FALSE
  /\ graceful = FALSE
  /\ logged = {}
  /\ sig = FALSE
  /\ req = "none"

\* The process runs; the server accepts calls until Stop or GracefulStop.
Running   == mpc # "exited"
Accepting == mpc \notin {"stop", "exited"}

GotoC(c, from, to) == cpc[c] = from /\ cpc' = [cpc EXCEPT ![c] = to]
GotoU(u, from, to) == upc[u] = from /\ upc' = [upc EXCEPT ![u] = to]

-----------------------------------------------------------------------------
(* The tree cache.                                                         *)

\* A call takes a reference on the entry it finds under the lock.
ShareTree(c, k) ==
  /\ trees[k] # Nil
  /\ trees' = [trees EXCEPT ![k] = [tree |-> @.tree, refs |-> @.refs + 1]]
  /\ ctree' = [ctree EXCEPT ![c] = trees[k].tree]

\* Mutants of InsertTree: the entry starts without a reference; the entry
\* found on the second look is overwritten; it is counted but not returned.
InsertTree_NoFirstRef(c, k) ==
  \/ ShareTree(c, k)
  \/ /\ trees[k] = Nil
     /\ trees' = [trees EXCEPT ![k] = [tree |-> c, refs |-> 0]]
     /\ ctree' = [ctree EXCEPT ![c] = c]
InsertTree_NoRecheck(c, k) ==
  /\ trees' = [trees EXCEPT ![k] = [tree |-> c, refs |-> 1]]
  /\ ctree' = [ctree EXCEPT ![c] = c]
InsertTree_KeepOwn(c, k) ==
  /\ trees' = [trees EXCEPT ![k] =
                 IF @ = Nil THEN [tree |-> c, refs |-> 1]
                 ELSE [tree |-> @.tree, refs |-> @.refs + 1]]
  /\ ctree' = [ctree EXCEPT ![c] = c]

\* acquireTree's second critical section: the entry may have appeared while
\* this call was building, and then the tree just built is dropped.
InsertTree(c, k) ==
  \/ ShareTree(c, k)
  \/ /\ trees[k] = Nil
     /\ trees' = [trees EXCEPT ![k] = [tree |-> c, refs |-> 1]]
     /\ ctree' = [ctree EXCEPT ![c] = c]

ReleaseTree(k) ==
  trees' = [trees EXCEPT ![k] =
              IF @ = Nil \/ @.refs = 1 THEN Nil
              ELSE [tree |-> @.tree, refs |-> @.refs - 1]]

-----------------------------------------------------------------------------
(* The kernel's mount table and go-fuse, as the manager uses them.  Both   *)
(* ways to unmount name the mount point, so they take off what is topmost  *)
(* there; server.Unmount then waits for the event loops of its own server, *)
(* which end when its own mount is gone.                                   *)

Live(c) == \E i \in DOMAIN stack[PointOf[c]] : stack[PointOf[c]][i] = c

KernelMount(c) ==
  stack' = [stack EXCEPT ![PointOf[c]] = <<c>> \o @]

Pop(p) ==
  /\ stack[p] # <<>>
  /\ stack' = [stack EXCEPT ![p] = Tail(@)]

\* lazyUnmount: fusermount -uz of the mount point.
LazyUnmount(c) == Pop(PointOf[c])
\* server.Unmount: the unmount goes through, or fails (busy, not mounted).
ServerUnmount(c) == Pop(PointOf[c])
UnmountFails(c)  == UNCHANGED stack
\* Whether server.Unmount must still wait after unmounting the point.
MustWait(c) == Head(stack[PointOf[c]]) # c

\* detach, by outcome: done, failed, or waiting for the event loops.  With
\* the lazy flag lazyUnmount comes first, and server.Unmount if that fails.
DetachDone(c, lz) == \/ lz /\ LazyUnmount(c)
                     \/ ServerUnmount(c) /\ ~MustWait(c)
DetachWait(c)     == ServerUnmount(c) /\ MustWait(c)

-----------------------------------------------------------------------------
(* CreateMount.                                                            *)

\* A spec, mount point, layer or path check fails, or a layer does not
\* resolve: the call returns before it touches the manager.
CreateReject(c) ==
  /\ Accepting
  /\ GotoC(c, "new", "failed")
  /\ UNCHANGED <<trees, mounts, ckey, ctree, unmountVars, stack, mainVars,
                 inputVars>>

\* The checks pass and every layer resolves to a state: the key is known.
CreateResolve(c, k) ==
  /\ Accepting
  /\ GotoC(c, "new", "acquire")
  /\ ckey' = [ckey EXCEPT ![c] = k]
  /\ UNCHANGED <<trees, mounts, ctree, unmountVars, stack, mainVars,
                 inputVars>>

CreateHit(c) ==
  /\ Running
  /\ GotoC(c, "acquire", "upper")
  /\ ShareTree(c, ckey[c])
  /\ UNCHANGED <<mounts, ckey, unmountVars, stack, mainVars, inputVars>>

CreateMiss(c) ==
  /\ Running
  /\ GotoC(c, "acquire", "build")
  /\ trees[ckey[c]] = Nil
  /\ UNCHANGED <<trees, mounts, ckey, ctree, unmountVars, stack, mainVars,
                 inputVars>>

\* buildMergedTreeFromRepos, without the lock.
CreateBuild(c) ==
  /\ Running
  /\ GotoC(c, "build", "insert") \/ GotoC(c, "build", "failed")
  /\ UNCHANGED <<trees, mounts, ckey, ctree, unmountVars, stack, mainVars,
                 inputVars>>

CreateInsert(c) ==
  /\ Running
  /\ GotoC(c, "insert", "upper")
  /\ InsertTree(c, ckey[c])
  /\ UNCHANGED <<mounts, ckey, unmountVars, stack, mainVars, inputVars>>

\* The upper directory, if any, is checked and made.
CreateUpper(c) ==
  /\ Running
  /\ GotoC(c, "upper", "mount") \/ GotoC(c, "upper", "release")
  /\ UNCHANGED <<trees, mounts, ckey, ctree, unmountVars, stack, mainVars,
                 inputVars>>

\* fs.Mount.
CreateFuseMount(c) ==
  /\ Running
  /\ \/ GotoC(c, "mount", "id") /\ KernelMount(c)
     \/ GotoC(c, "mount", "release") /\ UNCHANGED stack
  /\ UNCHANGED <<trees, mounts, ckey, ctree, unmountVars, mainVars,
                 inputVars>>

\* newMountID; when it fails the mount is undone and the error of that
\* Unmount is dropped.
CreateID(c) ==
  /\ Running
  /\ \/ GotoC(c, "id", "register") /\ UNCHANGED stack
     \/ GotoC(c, "id", "release") /\ (DetachDone(c, FALSE) \/ UnmountFails(c))
     \/ GotoC(c, "id", "undo") /\ DetachWait(c)
  /\ UNCHANGED <<trees, mounts, ckey, ctree, unmountVars, mainVars,
                 inputVars>>

CreateUndo(c) ==
  /\ Running
  /\ GotoC(c, "undo", "release")
  /\ ~Live(c)
  /\ UNCHANGED <<trees, mounts, ckey, ctree, unmountVars, stack, mainVars,
                 inputVars>>

\* Mutant: treeHeld stays true, so the deferred release still runs.
CreateRegister_StillHeld(c) ==
  /\ Running
  /\ GotoC(c, "register", "release")
  /\ mounts' = mounts \cup {c}
  /\ UNCHANGED <<trees, ckey, ctree, unmountVars, stack, mainVars, inputVars>>

\* Registration hands the tree over from the call to the mount.
CreateRegister(c) ==
  /\ Running
  /\ GotoC(c, "register", "ok")
  /\ mounts' = mounts \cup {c}
  /\ UNCHANGED <<trees, ckey, ctree, unmountVars, stack, mainVars, inputVars>>

\* The deferred releaseTree of a call that fails.
CreateRelease(c) ==
  /\ Running
  /\ GotoC(c, "release", "failed")
  /\ ReleaseTree(ckey[c])
  /\ UNCHANGED <<mounts, ckey, ctree, unmountVars, stack, mainVars, inputVars>>

-----------------------------------------------------------------------------
(* Unmount.                                                                *)

\* The registry's answer to an id that is not, or no longer, registered.
UnmountNotFound(u) ==
  /\ Accepting
  /\ GotoU(u, "new", "notFound")
  /\ UNCHANGED <<trees, mounts, createVars, utarget, ulazy, stack, mainVars,
                 inputVars>>

\* Mutant: the mount is looked up but not deleted under the lock.
UnmountTake_NoDelete(u, c, lz) ==
  /\ Accepting
  /\ c \in mounts
  /\ GotoU(u, "new", "detach")
  /\ utarget' = [utarget EXCEPT ![u] = c]
  /\ ulazy' = [ulazy EXCEPT ![u] = lz]
  /\ UNCHANGED <<trees, mounts, createVars, stack, mainVars, inputVars>>

\* The call takes the mount out of the registry before it detaches it.
UnmountTake(u, c, lz) ==
  /\ Accepting
  /\ c \in mounts
  /\ GotoU(u, "new", "detach")
  /\ mounts' = mounts \ {c}
  /\ utarget' = [utarget EXCEPT ![u] = c]
  /\ ulazy' = [ulazy EXCEPT ![u] = lz]
  /\ UNCHANGED <<trees, createVars, stack, mainVars, inputVars>>

\* Mutants: the error of detach is dropped; detach is retried until it works.
UnmountDetach_DropError(u) ==
  /\ Running
  /\ \/ GotoU(u, "detach", "releaseOk") /\ DetachDone(utarget[u], ulazy[u])
     \/ GotoU(u, "detach", "wait") /\ DetachWait(utarget[u])
     \/ GotoU(u, "detach", "releaseOk") /\ UnmountFails(utarget[u])
  /\ UNCHANGED <<trees, mounts, createVars, utarget, ulazy, mainVars,
                 inputVars>>
UnmountDetach_Retry(u) ==
  /\ Running
  /\ \/ GotoU(u, "detach", "releaseOk") /\ DetachDone(utarget[u], ulazy[u])
     \/ GotoU(u, "detach", "wait") /\ DetachWait(utarget[u])
  /\ UNCHANGED <<trees, mounts, createVars, utarget, ulazy, mainVars,
                 inputVars>>

UnmountDetach(u) ==
  /\ Running
  /\ \/ GotoU(u, "detach", "releaseOk") /\ DetachDone(utarget[u], ulazy[u])
     \/ GotoU(u, "detach", "wait") /\ DetachWait(utarget[u])
     \/ GotoU(u, "detach", "releaseErr") /\ UnmountFails(utarget[u])
  /\ UNCHANGED <<trees, mounts, createVars, utarget, ulazy, mainVars,
                 inputVars>>

UnmountWait(u) ==
  /\ Running
  /\ GotoU(u, "wait", "releaseOk")
  /\ ~Live(utarget[u])
  /\ UNCHANGED <<trees, mounts, createVars, utarget, ulazy, stack, mainVars,
                 inputVars>>

\* The deferred releaseMountCaches, then the reply.
UnmountRelease(u) ==
  /\ Running
  /\ GotoU(u, "releaseOk", "ok") \/ GotoU(u, "releaseErr", "internal")
  /\ ReleaseTree(ckey[utarget[u]])
  /\ UNCHANGED <<mounts, createVars, utarget, ulazy, stack, mainVars,
                 inputVars>>

-----------------------------------------------------------------------------
(* Shutdown, signals and the main goroutine.                               *)

\* A Shutdown call: a send that does not block.
Shutdown(mode) ==
  /\ Accepting
  /\ req' = IF req = "none" THEN mode ELSE req
  /\ UNCHANGED <<trees, mounts, createVars, unmountVars, stack, mainVars, sig>>

Signal ==
  /\ mpc = "serve"
  /\ sig' = TRUE
  /\ UNCHANGED <<trees, mounts, createVars, unmountVars, stack, mainVars, req>>

\* unmountAll's critical section: the whole registry is taken.
TakeAll(lz) ==
  /\ mpc = "serve"
  /\ mpc' = "sweep"
  /\ left' = mounts
  /\ mounts' = {}
  /\ lazy' = lz
  /\ UNCHANGED <<trees, createVars, unmountVars, stack, cur, logged>>

MainSignal ==
  /\ sig
  /\ sig' = FALSE
  /\ graceful' = FALSE
  /\ TakeAll(FALSE)
  /\ UNCHANGED req

MainShutdown ==
  /\ req # "none"
  /\ req' = "none"
  /\ graceful' = TRUE
  /\ TakeAll(req = "lazy")
  /\ UNCHANGED sig

\* unmountAll's loop: release the next mount's tree, then detach it.
SweepRelease(c) ==
  /\ mpc = "sweep"
  /\ mpc' = "detach"
  /\ c \in left
  /\ left' = left \ {c}
  /\ cur' = c
  /\ ReleaseTree(ckey[c])
  /\ UNCHANGED <<mounts, createVars, unmountVars, stack, lazy, graceful,
                 logged, inputVars>>

\* Mutants: a failure is not logged; a failure is retried until it works.
SweepDetach_Silent ==
  /\ mpc = "detach"
  /\ \/ mpc' = "sweep" /\ DetachDone(cur, lazy)
     \/ mpc' = "wait" /\ DetachWait(cur)
     \/ mpc' = "sweep" /\ UnmountFails(cur)
  /\ UNCHANGED <<trees, mounts, createVars, unmountVars, left, cur, lazy,
                 graceful, logged, inputVars>>
SweepDetach_Retry ==
  /\ mpc = "detach"
  /\ \/ mpc' = "sweep" /\ DetachDone(cur, lazy)
     \/ mpc' = "wait" /\ DetachWait(cur)
  /\ UNCHANGED <<trees, mounts, createVars, unmountVars, left, cur, lazy,
                 graceful, logged, inputVars>>

SweepDetach ==
  /\ mpc = "detach"
  /\ \/ mpc' = "sweep" /\ DetachDone(cur, lazy) /\ UNCHANGED logged
     \/ mpc' = "wait" /\ DetachWait(cur) /\ UNCHANGED logged
     \/ mpc' = "sweep" /\ UnmountFails(cur) /\ logged' = logged \cup {cur}
  /\ UNCHANGED <<trees, mounts, createVars, unmountVars, left, cur, lazy,
                 graceful, inputVars>>

SweepWait ==
  /\ mpc = "wait"
  /\ mpc' = "sweep"
  /\ ~Live(cur)
  /\ UNCHANGED <<trees, mounts, createVars, unmountVars, stack, sweepVars,
                 inputVars>>

\* The sweep is over: Stop or GracefulStop closes the listener.
StopServer ==
  /\ mpc = "sweep"
  /\ mpc' = "stop"
  /\ left = {}
  /\ UNCHANGED <<trees, mounts, createVars, unmountVars, stack, sweepVars,
                 inputVars>>

InFlight == \/ \E c \in Creates : cpc[c] \in CreateRunPCs
            \/ \E u \in Unmounts : upc[u] \in UnmountRunPCs

\* GracefulStop waits for the calls in flight, Stop does not; then runManager
\* returns and the process ends with whatever goroutines are left.
Exit ==
  /\ mpc = "stop"
  /\ mpc' = "exited"
  /\ graceful => ~InFlight
  /\ UNCHANGED <<trees, mounts, createVars, unmountVars, stack, sweepVars,
                 inputVars>>

\* Anyone may run fusermount -u on a mount point.
ExternalUnmount(p) ==
  /\ Pop(p)
  /\ UNCHANGED <<trees, mounts, createVars, unmountVars, mainVars, inputVars>>

-----------------------------------------------------------------------------
CreateStep(c) ==
  \/ CreateHit(c) \/ CreateMiss(c) \/ CreateBuild(c) \/ CreateInsert(c)
  \/ CreateUpper(c) \/ CreateFuseMount(c) \/ CreateID(c) \/ CreateUndo(c)
  \/ CreateRegister(c) \/ CreateRelease(c)

UnmountStep(u) == UnmountDetach(u) \/ UnmountWait(u) \/ UnmountRelease(u)

MainStep ==
  \/ MainSignal \/ MainShutdown
  \/ \E c \in Creates : SweepRelease(c)
  \/ SweepDetach \/ SweepWait \/ StopServer \/ Exit

Request ==
  \/ \E c \in Creates : CreateReject(c) \/ \E k \in Keys : CreateResolve(c, k)
  \/ \E u \in Unmounts :
       \/ UnmountNotFound(u)
       \/ \E c \in Creates, lz \in BOOLEAN : UnmountTake(u, c, lz)
  \/ \E mode \in {"lazy", "normal"} : Shutdown(mode)

\* The process is gone; only its mounts may still be cleaned up by hand.
Exited == mpc = "exited" /\ UNCHANGED vars

Next ==
  \/ Request
  \/ \E c \in Creates : CreateStep(c)
  \/ \E u \in Unmounts : UnmountStep(u)
  \/ MainStep
  \/ Signal
  \/ \E p \in Points : ExternalUnmount(p)
  \/ Exited

Spec == Init /\ [][Next]_vars

\* Goroutines that can run do run; nothing is assumed of clients, signals or
\* the operator.
Fairness ==
  /\ \A c \in Creates : WF_vars(CreateStep(c))
  /\ \A u \in Unmounts : WF_vars(UnmountStep(u))
  /\ WF_vars(MainStep)

FairSpec == Spec /\ Fairness

-----------------------------------------------------------------------------
(* Who answers for a mount: the call that makes it, the registry, the      *)
(* Unmount call that took it, or the sweep.                                *)

Taken(u, c)  == utarget[u] = c /\ upc[u] \in UnmountRunPCs
Holding(c)   == \/ cpc[c] \in CreateHeldPCs
                \/ c \in mounts
                \/ c \in left
                \/ \E u \in Unmounts : Taken(u, c)
Sweeping(c)  == cur = c /\ mpc \in {"detach", "wait"}
\* What get and list answer from.
Registered(c) == c \in mounts
Holders(k)   == {c \in Creates : ckey[c] = k /\ Holding(c)}
\* No other call asks for c's mount point.
SoleUser(c)  == \A d \in Creates : PointOf[d] = PointOf[c] => d = c

\* Reference counts are exact: an entry of mgr.trees exists exactly while
\* its key is held, and refs is the number of creates in flight, registered
\* mounts and mounts being unmounted that hold it.  A count too low drops a
\* tree that mounts still share, one too high leaks it for ever.
RefsExact ==
  \A k \in Keys :
    IF Holders(k) = {}
      THEN trees[k] = Nil
      ELSE trees[k] # Nil /\ trees[k].refs = Cardinality(Holders(k))

\* Mounts of the same resolved layers share one tree, whatever builds raced:
\* whoever holds a key was handed the tree that is in the cache now.
OneTreePerKey ==
  \A c \in Creates :
    Holding(c) => /\ ckey[c] \in Keys
                  /\ trees[ckey[c]] # Nil
                  /\ ctree[c] = trees[ckey[c]].tree

\* A mount has one owner at a time, so that it is detached, and its tree
\* released, once: unmount and unmountAll both take it out of the registry
\* under the lock before they detach it without the lock.
SingleOwner ==
  /\ \A c \in mounts : c \notin left /\ ~Sweeping(c) /\ cpc[c] = "ok"
  /\ \A c \in left : ~Sweeping(c) /\ cpc[c] = "ok"
  /\ \A u \in Unmounts, c \in Creates :
       Taken(u, c) => /\ c \notin mounts \cup left
                      /\ ~Sweeping(c)
                      /\ cpc[c] = "ok"
                      /\ \A v \in Unmounts : Taken(v, c) => v = u

\* A live mount that nobody answers for any more was given up openly: its
\* create returned an error, its Unmount answered Internal, or the sweep
\* logged the failure.  (Of mounts with a mount point of their own.)
NoSilentOrphan ==
  \A c \in Creates :
    (Live(c) /\ SoleUser(c) /\ ~Holding(c) /\ ~Sweeping(c)) =>
      \/ cpc[c] = "failed"
      \/ \E u \in Unmounts : utarget[u] = c /\ upc[u] = "internal"
      \/ c \in logged

\* An Unmount that answers OK has unmounted the mount it was asked for, when
\* no other mount was made on the same point.
OkMeansGone ==
  \A u \in Unmounts :
    (upc[u] \in {"releaseOk", "ok"} /\ SoleUser(utarget[u])) =>
      ~Live(utarget[u])

\* The cache implements its abstract specification: the counts, the lock and
\* the builds without the lock together behave like a set of holders.
Cache == INSTANCE TreeCache WITH
  Clients <- Creates,
  NoTree  <- Nil,
  holders <- [k \in Keys |-> Holders(k)],
  tree    <- [k \in Keys |-> IF trees[k] = Nil THEN Nil ELSE trees[k].tree],
  got     <- [c \in Creates |-> IF Holding(c) THEN ctree[c] ELSE Nil]

CacheSpec == Cache!Spec

\* Every accepted call returns, unless the process ends first.
CallsReturn ==
  /\ \A c \in Creates :
       cpc[c] \in CreateRunPCs ~> cpc[c] \in {"ok", "failed"} \/ ~Running
  /\ \A u \in Unmounts :
       upc[u] \in UnmountRunPCs ~> upc[u] \in {"ok", "internal"} \/ ~Running

\* A signal or a Shutdown request ends the daemon, whatever calls are in
\* flight and whichever mounts fail to detach.
ShutdownEnds == sig \/ req # "none" ~> ~Running

\* "unmountAll detaches every mount; used on shutdown" (manager.go): when the
\* daemon has exited no mount is left in its registry.
ExitLeavesNoMount == ~Running => mounts = {}

\* "a stuck mount must not prevent the daemon from unwinding the rest"
\* (manager.go, unmountAll): the sweep gets round to every mount it took.
SweepGoesOn == \A c \in Creates : c \in left ~> c \notin left

\* "Manager-owned mounts are created, inspected and unmounted through the
\* fvs2d.v1.Fvs2d gRPC API" (README.md): while the daemon serves, a mount
\* that was created and is live is one GetMount, ListMounts and Unmount know
\* of, unless an Unmount call is working on it.
LiveIsListed ==
  \A c \in Creates :
    (mpc = "serve" /\ cpc[c] = "ok" /\ Live(c)) =>
      Registered(c) \/ \E u \in Unmounts : Taken(u, c)
=============================================================================
