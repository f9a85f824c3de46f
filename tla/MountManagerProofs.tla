------------------------- MODULE MountManagerProofs -------------------------
(***************************************************************************)
(* Proofs about MountManager, for any number of calls, keys and points.    *)
(*                                                                         *)
(* The argument has two layers.  Ownership (OwnInv) needs no arithmetic: a *)
(* mount is in at most one of the places that answer for it.  From it,     *)
(* every step is one of three kinds as far as the cache is concerned: it   *)
(* keeps all holders, it adds one, or it removes one (StepKinds).  The     *)
(* reference counts follow from these three kinds alone, and so does the   *)
(* refinement of TreeCache.                                                *)
(***************************************************************************)
EXTENDS MountManager, FiniteSetTheorems, TLAPS

\* The types of all variables but trees, whose counts stay natural numbers
\* only because they are exact.
TypeRest ==
  /\ mounts \in SUBSET Creates
  /\ cpc \in [Creates -> CreatePCs]
  /\ ckey \in [Creates -> Keys \cup {Nil}]
  /\ ctree \in [Creates -> Creates \cup {Nil}]
  /\ upc \in [Unmounts -> UnmountPCs]
  /\ utarget \in [Unmounts -> Creates \cup {Nil}]
  /\ ulazy \in [Unmounts -> BOOLEAN]
  /\ stack \in [Points -> Seq(Creates)]
  /\ mpc \in MainPCs
  /\ left \in SUBSET Creates
  /\ cur \in Creates \cup {Nil}
  /\ lazy \in BOOLEAN
  /\ graceful \in BOOLEAN
  /\ logged \in SUBSET Creates
  /\ sig \in BOOLEAN
  /\ req \in {"none", "lazy", "normal"}

TreesType == trees \in [Keys -> [tree : Creates, refs : Nat] \cup {Nil}]

\* Ownership, strengthened: what a call works on is set before it works on
\* it, and the sweep's set is empty while the daemon serves.
OwnInv ==
  /\ SingleOwner
  /\ \A c \in Creates : cpc[c] \in CreateRunPCs \cup {"ok"} => ckey[c] \in Keys
  /\ \A u \in Unmounts : upc[u] \in UnmountRunPCs => utarget[u] \in Creates
  /\ mpc \in {"detach", "wait"} => cur \in Creates /\ cpc[cur] = "ok"
  /\ left # {} => mpc \in {"sweep", "detach", "wait"}

LEMMA TypeParts == TypeOK <=> TreesType /\ TypeRest
  BY DEF TypeOK, TreesType, TypeRest

\* Mounting and unmounting keep the mount table a table of sequences.
LEMMA StackType ==
  ASSUME TypeOK
  PROVE  /\ \A c \in Creates : KernelMount(c) => stack' \in [Points -> Seq(Creates)]
         /\ \A p \in Points : Pop(p) => stack' \in [Points -> Seq(Creates)]
         /\ \A c \in Creates, lz \in BOOLEAN :
              DetachDone(c, lz) \/ DetachWait(c) \/ UnmountFails(c)
                => stack' \in [Points -> Seq(Creates)]
<1>1. ASSUME NEW p \in Points, Pop(p)
      PROVE  stack' \in [Points -> Seq(Creates)]
  <2>1. stack[p] \in Seq(Creates) /\ stack[p] # <<>>
    BY <1>1 DEF Pop, TypeOK
  <2>2. Tail(stack[p]) \in Seq(Creates)
    BY <2>1
  <2> QED
    BY <1>1, <2>2 DEF Pop, TypeOK
<1>2. ASSUME NEW c \in Creates, KernelMount(c)
      PROVE  stack' \in [Points -> Seq(Creates)]
  <2>1. PointOf[c] \in Points /\ stack[PointOf[c]] \in Seq(Creates)
    BY PointOfType DEF TypeOK
  <2>2. <<c>> \o stack[PointOf[c]] \in Seq(Creates)
    BY <2>1
  <2> QED
    BY <1>2, <2>2 DEF KernelMount, TypeOK
<1>3. ASSUME NEW c \in Creates, NEW lz \in BOOLEAN,
             DetachDone(c, lz) \/ DetachWait(c) \/ UnmountFails(c)
      PROVE  stack' \in [Points -> Seq(Creates)]
  <2>1. CASE UnmountFails(c)
    BY <2>1 DEF UnmountFails, TypeOK
  <2>2. PointOf[c] \in Points
    BY PointOfType
  <2> QED
    BY <1>1, <1>3, <2>1, <2>2 DEF DetachDone, DetachWait,
       ServerUnmount, LazyUnmount
<1> QED
  BY <1>1, <1>2, <1>3

LEMMA TypeRestNext ==
  ASSUME TypeOK, OwnInv, [Next]_vars
  PROVE  TypeRest'
<1> USE DEF TypeOK, TypeRest, createVars, unmountVars, sweepVars, mainVars,
        inputVars, CreateRunPCs, CreateHeldPCs, CreatePCs, UnmountRunPCs,
        UnmountPCs, MainPCs
<1>1. CASE UNCHANGED vars
  BY <1>1 DEF vars
<1>2. CASE Request
  <2>1. ASSUME NEW c \in Creates, NEW k \in Keys, CreateResolve(c, k)
        PROVE  TypeRest'
    <3>1. ckey' \in [Creates -> Keys \cup {Nil}]
      BY <2>1 DEF CreateResolve
    <3> QED
      BY <2>1, <3>1 DEF CreateResolve, GotoC
  <2>2. ASSUME NEW u \in Unmounts, NEW c \in Creates, NEW lz \in BOOLEAN,
               UnmountTake(u, c, lz)
        PROVE  TypeRest'
    BY <2>2 DEF UnmountTake, GotoU
  <2>3. ASSUME NEW u \in Unmounts, UnmountNotFound(u)
        PROVE  TypeRest'
    BY <2>3 DEF UnmountNotFound, GotoU
  <2>4. ASSUME NEW c \in Creates, CreateReject(c)
        PROVE  TypeRest'
    BY <2>4 DEF CreateReject, GotoC
  <2>5. ASSUME NEW mode \in {"lazy", "normal"}, Shutdown(mode)
        PROVE  TypeRest'
    BY <2>5 DEF Shutdown
  <2> QED
    BY <1>2, <2>1, <2>2, <2>3, <2>4, <2>5 DEF Request
<1>3. ASSUME NEW c \in Creates, CreateStep(c)
      PROVE  TypeRest'
  <2>1. CASE CreateHit(c)
    BY <2>1 DEF CreateHit, ShareTree, GotoC, OwnInv
  <2>2. CASE CreateInsert(c)
    <3>1. ckey[c] \in Keys
      BY <2>2 DEF CreateInsert, GotoC, OwnInv
    <3>2. ctree' \in [Creates -> Creates \cup {Nil}]
      BY <2>2, <3>1 DEF CreateInsert, InsertTree, ShareTree
    <3> QED
      BY <2>2, <3>2 DEF CreateInsert, GotoC
  <2>3. CASE CreateMiss(c) \/ CreateBuild(c) \/ CreateUpper(c)
             \/ CreateUndo(c) \/ CreateRegister(c) \/ CreateRelease(c)
    <3>1. CASE CreateMiss(c) \/ CreateBuild(c)
      BY <3>1 DEF CreateMiss, CreateBuild, GotoC
    <3>2. CASE CreateUpper(c) \/ CreateUndo(c)
      BY <3>2 DEF CreateUpper, CreateUndo, GotoC
    <3>3. CASE CreateRegister(c) \/ CreateRelease(c)
      BY <3>3 DEF CreateRegister, CreateRelease, GotoC
    <3> QED
      BY <2>3, <3>1, <3>2, <3>3
  <2>4. CASE CreateFuseMount(c)
    <3>1. stack' \in [Points -> Seq(Creates)]
      BY <2>4, StackType DEF CreateFuseMount
    <3> QED
      BY <2>4, <3>1 DEF CreateFuseMount, GotoC
  <2>5. CASE CreateID(c)
    <3>1. stack' \in [Points -> Seq(Creates)]
      BY <2>5, StackType DEF CreateID
    <3> QED
      BY <2>5, <3>1 DEF CreateID, GotoC
  <2> QED
    BY <1>3, <2>1, <2>2, <2>3, <2>4, <2>5 DEF CreateStep
<1>4. ASSUME NEW u \in Unmounts, UnmountStep(u)
      PROVE  TypeRest'
  <2>1. CASE UnmountDetach(u)
    <3>1. utarget[u] \in Creates /\ ulazy[u] \in BOOLEAN
      BY <2>1 DEF UnmountDetach, GotoU, OwnInv
    <3>2. stack' \in [Points -> Seq(Creates)]
      BY <2>1, <3>1, StackType DEF UnmountDetach
    <3> QED
      BY <2>1, <3>2 DEF UnmountDetach, GotoU
  <2>2. CASE UnmountWait(u)
    BY <2>2 DEF UnmountWait, GotoU
  <2>3. CASE UnmountRelease(u)
    BY <2>3 DEF UnmountRelease, GotoU
  <2> QED
    BY <1>4, <2>1, <2>2, <2>3 DEF UnmountStep
<1>5. CASE MainStep
  <2>1. CASE MainSignal \/ MainShutdown
    BY <2>1 DEF MainSignal, MainShutdown, TakeAll
  <2>2. CASE SweepDetach
    <3>1. cur \in Creates
      BY <2>2 DEF SweepDetach, OwnInv
    <3>2. stack' \in [Points -> Seq(Creates)]
      BY <2>2, <3>1, StackType DEF SweepDetach
    <3> QED
      BY <2>2, <3>1, <3>2 DEF SweepDetach
  <2> QED
    BY <1>5, <2>1, <2>2 DEF MainStep, SweepRelease, SweepWait, StopServer,
       Exit
<1>6. CASE \E p \in Points : ExternalUnmount(p)
  <2>1. stack' \in [Points -> Seq(Creates)]
    BY <1>6, StackType DEF ExternalUnmount
  <2> QED
    BY <1>6, <2>1 DEF ExternalUnmount
<1>7. CASE Signal \/ Exited
  BY <1>7 DEF Signal, Exited, vars
<1> QED
  BY <1>1, <1>2, <1>3, <1>4, <1>5, <1>6, <1>7 DEF Next

-----------------------------------------------------------------------------
(* Ownership.                                                              *)

\* Every step keeps ownership: a mount moves from its create to the registry
\* and from there to one Unmount call or to the sweep.
LEMMA OwnInvNext ==
  ASSUME TypeOK, OwnInv, [Next]_vars
  PROVE  OwnInv'
<1> USE DEF TypeOK, createVars, unmountVars, sweepVars, mainVars,
        inputVars, CreateRunPCs, CreateHeldPCs, UnmountRunPCs, MainPCs,
        OwnInv, SingleOwner, Taken, Sweeping
<1>1. CASE UNCHANGED vars
  BY <1>1 DEF vars
<1>2. CASE Request
  <2>1. ASSUME NEW c \in Creates, CreateReject(c)
        PROVE  OwnInv'
    BY <2>1 DEF CreateReject, GotoC
  <2>2. ASSUME NEW c \in Creates, NEW k \in Keys, CreateResolve(c, k)
        PROVE  OwnInv'
    BY <2>2 DEF CreateResolve, GotoC
  <2>3. ASSUME NEW u \in Unmounts, UnmountNotFound(u)
        PROVE  OwnInv'
    BY <2>3 DEF UnmountNotFound, GotoU
  <2>4. ASSUME NEW u \in Unmounts, NEW c \in Creates, NEW lz \in BOOLEAN,
               UnmountTake(u, c, lz)
        PROVE  OwnInv'
    BY <2>4 DEF UnmountTake, GotoU
  <2>5. ASSUME NEW mode \in {"lazy", "normal"}, Shutdown(mode)
        PROVE  OwnInv'
    BY <2>5 DEF Shutdown
  <2> QED
    BY <1>2, <2>1, <2>2, <2>3, <2>4, <2>5 DEF Request
<1>3. ASSUME NEW c \in Creates, CreateStep(c)
      PROVE  OwnInv'
  <2>1. CASE CreateRegister(c)
    BY <2>1 DEF CreateRegister, GotoC
  <2>2. CASE CreateHit(c) \/ CreateInsert(c)
    BY <2>2 DEF CreateHit, CreateInsert, GotoC
  <2>3. CASE CreateMiss(c) \/ CreateBuild(c) \/ CreateUpper(c)
    BY <2>3 DEF CreateMiss, CreateBuild, CreateUpper, GotoC
  <2>4. CASE CreateFuseMount(c)
    BY <2>4 DEF CreateFuseMount, GotoC
  <2>5. CASE CreateID(c)
    BY <2>5 DEF CreateID, GotoC, DetachDone
  <2>6. CASE CreateUndo(c) \/ CreateRelease(c)
    BY <2>6 DEF CreateUndo, CreateRelease, GotoC
  <2> QED
    BY <1>3, <2>1, <2>2, <2>3, <2>4, <2>5, <2>6 DEF CreateStep
<1>4. ASSUME NEW u \in Unmounts, UnmountStep(u)
      PROVE  OwnInv'
  BY <1>4 DEF UnmountStep, UnmountDetach, UnmountWait, UnmountRelease, GotoU
<1>5. CASE MainStep
  <2>1. CASE MainSignal \/ MainShutdown
    BY <2>1 DEF MainSignal, MainShutdown, TakeAll
  <2>2. ASSUME NEW c \in Creates, SweepRelease(c)
        PROVE  OwnInv'
    BY <2>2 DEF SweepRelease
  <2>3. CASE SweepDetach
    BY <2>3 DEF SweepDetach
  <2>4. CASE SweepWait \/ StopServer \/ Exit
    BY <2>4 DEF SweepWait, StopServer, Exit
  <2> QED
    BY <1>5, <2>1, <2>2, <2>3, <2>4 DEF MainStep
<1>6. CASE Signal \/ Exited \/ \E p \in Points : ExternalUnmount(p)
  BY <1>6 DEF Signal, Exited, ExternalUnmount, vars
<1> QED
  BY <1>1, <1>2, <1>3, <1>4, <1>5, <1>6 DEF Next

-----------------------------------------------------------------------------
(* The three kinds of step.                                                *)

\* Nobody comes to hold a tree or gives one up.
KeepStep ==
  /\ trees' = trees
  /\ \A d \in Creates :
       /\ Holding(d)' <=> Holding(d)
       /\ Holding(d) => ckey'[d] = ckey[d] /\ ctree'[d] = ctree[d]

\* c comes to hold the tree of its key.
AcquireStep(c) ==
  /\ ckey[c] \in Keys
  /\ InsertTree(c, ckey[c])
  /\ ckey' = ckey
  /\ ~Holding(c)
  /\ Holding(c)'
  /\ \A d \in Creates \ {c} : Holding(d)' <=> Holding(d)

\* c, or its mount, gives its tree up.
ReleaseStep(c) ==
  /\ ckey[c] \in Keys
  /\ ReleaseTree(ckey[c])
  /\ ckey' = ckey /\ ctree' = ctree
  /\ Holding(c)
  /\ ~Holding(c)'
  /\ \A d \in Creates \ {c} : Holding(d)' <=> Holding(d)

LEMMA StepKinds ==
  ASSUME TypeOK, OwnInv, [Next]_vars
  PROVE  KeepStep \/ \E c \in Creates : AcquireStep(c) \/ ReleaseStep(c)
<1> USE DEF TypeOK, createVars, unmountVars, sweepVars, mainVars,
        inputVars, CreateRunPCs, CreateHeldPCs, UnmountRunPCs,
        OwnInv, SingleOwner, Taken, Sweeping, Holding
<1>1. CASE UNCHANGED vars
  BY <1>1 DEF vars, KeepStep
<1>2. CASE Request
  <2>1. ASSUME NEW c \in Creates, CreateReject(c)
        PROVE  KeepStep
    BY <2>1 DEF CreateReject, GotoC, KeepStep
  <2>2. ASSUME NEW c \in Creates, NEW k \in Keys, CreateResolve(c, k)
        PROVE  KeepStep
    BY <2>2 DEF CreateResolve, GotoC, KeepStep
  <2>3. ASSUME NEW u \in Unmounts, UnmountNotFound(u)
        PROVE  KeepStep
    BY <2>3 DEF UnmountNotFound, GotoU, KeepStep
  <2>4. ASSUME NEW u \in Unmounts, NEW c \in Creates, NEW lz \in BOOLEAN,
               UnmountTake(u, c, lz)
        PROVE  KeepStep
    BY <2>4 DEF UnmountTake, GotoU, KeepStep
  <2>5. ASSUME NEW mode \in {"lazy", "normal"}, Shutdown(mode)
        PROVE  KeepStep
    BY <2>5 DEF Shutdown, KeepStep
  <2> QED
    BY <1>2, <2>1, <2>2, <2>3, <2>4, <2>5 DEF Request
<1>3. ASSUME NEW c \in Creates, CreateStep(c)
      PROVE  KeepStep \/ AcquireStep(c) \/ ReleaseStep(c)
  <2>1. CASE CreateRegister(c)
    BY <2>1 DEF CreateRegister, GotoC, KeepStep
  <2>2. CASE CreateHit(c) \/ CreateInsert(c)
    BY <2>2 DEF CreateHit, CreateInsert, GotoC, InsertTree, AcquireStep
  <2>3. CASE CreateRelease(c)
    BY <2>3 DEF CreateRelease, GotoC, ReleaseStep
  <2>4. CASE CreateMiss(c) \/ CreateBuild(c) \/ CreateUpper(c)
    BY <2>4 DEF CreateMiss, CreateBuild, CreateUpper, GotoC, KeepStep
  <2>5. CASE CreateFuseMount(c)
    BY <2>5 DEF CreateFuseMount, GotoC, KeepStep
  <2>6. CASE CreateID(c)
    BY <2>6 DEF CreateID, GotoC, DetachDone, KeepStep
  <2>7. CASE CreateUndo(c)
    BY <2>7 DEF CreateUndo, GotoC, KeepStep
  <2> QED
    BY <1>3, <2>1, <2>2, <2>3, <2>4, <2>5, <2>6, <2>7 DEF CreateStep
<1>4. ASSUME NEW u \in Unmounts, UnmountStep(u)
      PROVE  KeepStep \/ \E c \in Creates : ReleaseStep(c)
  <2>1. CASE UnmountDetach(u) \/ UnmountWait(u)
    BY <2>1 DEF UnmountDetach, UnmountWait, GotoU, KeepStep
  <2>2. CASE UnmountRelease(u)
    <3>1. PICK c \in Creates : c = utarget[u] /\ Taken(u, c)
      BY <2>2 DEF UnmountRelease, GotoU
    <3>2. ReleaseStep(c)
      BY <2>2, <3>1 DEF UnmountRelease, GotoU, ReleaseStep
    <3> QED
      BY <3>1, <3>2
  <2> QED
    BY <1>4, <2>1, <2>2 DEF UnmountStep
<1>5. CASE MainStep
  <2>1. CASE MainSignal \/ MainShutdown
    BY <2>1 DEF MainSignal, MainShutdown, TakeAll, KeepStep
  <2>2. ASSUME NEW c \in Creates, SweepRelease(c)
        PROVE  ReleaseStep(c)
    BY <2>2 DEF SweepRelease, ReleaseStep
  <2>3. CASE SweepDetach
    BY <2>3 DEF SweepDetach, KeepStep
  <2>4. CASE SweepWait \/ StopServer \/ Exit
    BY <2>4 DEF SweepWait, StopServer, Exit, KeepStep
  <2> QED
    BY <1>5, <2>1, <2>2, <2>3, <2>4 DEF MainStep
<1>6. CASE Signal \/ Exited \/ \E p \in Points : ExternalUnmount(p)
  BY <1>6 DEF Signal, Exited, ExternalUnmount, vars, KeepStep
<1> QED
  BY <1>1, <1>2, <1>3, <1>4, <1>5, <1>6 DEF Next

-----------------------------------------------------------------------------
(* The reference counts.                                                   *)

LEMMA HoldersFinite ==
  ASSUME NEW k \in Keys
  PROVE  IsFiniteSet(Holders(k))
  BY CreatesFinite, FS_Subset DEF Holders

LEMMA KeepCache ==
  ASSUME TypeOK, RefsExact, OneTreePerKey, KeepStep
  PROVE  TreesType' /\ RefsExact' /\ OneTreePerKey'
<1>1. \A k \in Keys : Holders(k)' = Holders(k)
  BY DEF KeepStep, Holders
<1>2. TreesType'
  BY DEF KeepStep, TypeOK, TreesType
<1>3. RefsExact'
  BY <1>1 DEF KeepStep, RefsExact
<1>4. OneTreePerKey'
  BY DEF KeepStep, OneTreePerKey
<1> QED
  BY <1>2, <1>3, <1>4

\* The holders of every key after c came to hold its own.
LEMMA AcquireHolders ==
  ASSUME NEW c \in Creates, AcquireStep(c), NEW key \in Keys, key = ckey[c]
  PROVE  /\ Holders(key)' = Holders(key) \cup {c}
         /\ c \notin Holders(key)
         /\ \A k \in Keys \ {key} : Holders(k)' = Holders(k)
  BY DEF AcquireStep, Holders

LEMMA AcquireCache ==
  ASSUME TypeOK, RefsExact, OneTreePerKey, NEW c \in Creates, AcquireStep(c)
  PROVE  TreesType' /\ RefsExact' /\ OneTreePerKey'
<1>0. PICK key \in Keys : key = ckey[c]
  BY DEF AcquireStep
<1>1. /\ Holders(key)' = Holders(key) \cup {c}
      /\ c \notin Holders(key)
      /\ \A k \in Keys \ {key} : Holders(k)' = Holders(k)
  BY <1>0, AcquireHolders
<1>2. /\ IsFiniteSet(Holders(key))
      /\ Cardinality(Holders(key)) \in Nat
      /\ Cardinality(Holders(key) \cup {c}) = Cardinality(Holders(key)) + 1
  BY <1>0, <1>1, HoldersFinite, FS_AddElement, FS_CardinalityType
<1>3. Cardinality({}) = 0
  BY FS_EmptySet
<1>4. TreesType'
  BY <1>0 DEF AcquireStep, InsertTree, ShareTree, TypeOK, TreesType
<1>5. trees'[key] # Nil /\ trees'[key].refs = Cardinality(Holders(key)')
  <2>1. CASE trees[key] = Nil
    <3>1. Holders(key) = {}
      BY <1>0, <2>1 DEF RefsExact
    <3>2. trees'[key] = [tree |-> c, refs |-> 1]
      BY <1>0, <2>1 DEF AcquireStep, InsertTree, ShareTree, TypeOK
    <3>3. [tree |-> c, refs |-> 1] # Nil
      BY <1>4, <1>0, <3>2, <2>1, NilIsNoRecord
    <3> QED
      BY <1>1, <1>2, <1>3, <3>1, <3>2, <3>3
  <2>2. CASE trees[key] # Nil
    <3>1. trees[key].refs = Cardinality(Holders(key))
      BY <1>0, <2>2 DEF RefsExact
    <3>2. trees'[key] = [tree |-> trees[key].tree, refs |-> trees[key].refs + 1]
      BY <1>0, <2>2 DEF AcquireStep, InsertTree, ShareTree, TypeOK
    <3> QED
      BY <1>0, <1>1, <1>2, <2>2, <3>1, <3>2, NilIsNoRecord DEF TypeOK
  <2> QED
    BY <2>1, <2>2
<1>6. \A k \in Keys \ {key} : trees'[k] = trees[k]
  BY <1>0 DEF AcquireStep, InsertTree, ShareTree, TypeOK
<1>7. RefsExact'
  <2>1. ASSUME NEW k \in Keys
        PROVE  (IF Holders(k) = {} THEN trees[k] = Nil
                ELSE trees[k] # Nil /\ trees[k].refs = Cardinality(Holders(k)))'
    <3>1. CASE k = key
      <4>1. Holders(k)' # {}
        BY <1>1, <3>1
      <4> QED
        BY <4>1, <1>5, <3>1
    <3>2. CASE k # key
      BY <1>1, <1>6, <3>2 DEF RefsExact
    <3> QED
      BY <3>1, <3>2
  <2> QED
    BY <2>1 DEF RefsExact
<1>8. OneTreePerKey'
  <2>1. ctree'[c] = trees'[key].tree
    BY <1>0, <1>5 DEF AcquireStep, InsertTree, ShareTree, TypeOK
  <2>2. \A d \in Creates \ {c} : ctree'[d] = ctree[d]
    BY DEF AcquireStep, InsertTree, ShareTree, TypeOK
  <2>3. trees[key] # Nil => trees'[key].tree = trees[key].tree
    BY <1>0 DEF AcquireStep, InsertTree, ShareTree, TypeOK
  <2> QED
    BY <1>0, <1>5, <1>6, <2>1, <2>2, <2>3 DEF OneTreePerKey, AcquireStep
<1> QED
  BY <1>4, <1>7, <1>8

\* The holders of every key after c gave its own up.
LEMMA ReleaseHolders ==
  ASSUME NEW c \in Creates, ReleaseStep(c), NEW key \in Keys, key = ckey[c]
  PROVE  /\ Holders(key)' = Holders(key) \ {c}
         /\ c \in Holders(key)
         /\ \A k \in Keys \ {key} : Holders(k)' = Holders(k)
  BY DEF ReleaseStep, Holders

LEMMA ReleaseCache ==
  ASSUME TypeOK, RefsExact, OneTreePerKey, NEW c \in Creates, ReleaseStep(c)
  PROVE  TreesType' /\ RefsExact' /\ OneTreePerKey'
<1>0. PICK key \in Keys : key = ckey[c]
  BY DEF ReleaseStep
<1>1. /\ Holders(key)' = Holders(key) \ {c}
      /\ c \in Holders(key)
      /\ \A k \in Keys \ {key} : Holders(k)' = Holders(k)
  BY <1>0, ReleaseHolders
<1>2. /\ IsFiniteSet(Holders(key) \ {c})
      /\ Cardinality(Holders(key)) \in Nat
      /\ Cardinality(Holders(key) \ {c}) \in Nat
      /\ Cardinality(Holders(key) \ {c}) = Cardinality(Holders(key)) - 1
  BY <1>1, HoldersFinite, FS_RemoveElement, FS_CardinalityType
<1>3. Cardinality(Holders(key) \ {c}) = 0 <=> Holders(key) \ {c} = {}
  BY <1>2, FS_EmptySet
<1>4. trees[key] # Nil /\ trees[key].refs = Cardinality(Holders(key))
  BY <1>0, <1>1 DEF RefsExact
<1>5. trees'[key] = IF trees[key].refs = 1 THEN Nil
                    ELSE [tree |-> trees[key].tree, refs |-> trees[key].refs - 1]
  BY <1>0, <1>4 DEF ReleaseStep, ReleaseTree, TypeOK
<1>6. \A k \in Keys \ {key} : trees'[k] = trees[k]
  BY <1>0 DEF ReleaseStep, ReleaseTree, TypeOK
<1>7. trees[key].tree \in Creates /\ trees[key].refs - 1 \in Nat
  BY <1>2, <1>4 DEF TypeOK
<1>8. [tree |-> trees[key].tree, refs |-> trees[key].refs - 1] # Nil
  BY <1>7, NilIsNoRecord
<1>9. TreesType'
  <2>1. trees'[key] \in [tree : Creates, refs : Nat] \cup {Nil}
    BY <1>5, <1>7
  <2>2. trees' = [k \in Keys |-> trees'[k]]
    BY DEF ReleaseStep, ReleaseTree, TypeOK
  <2> QED
    BY <1>6, <2>1, <2>2 DEF TypeOK, TreesType
<1>10. RefsExact'
  <2>1. ASSUME NEW k \in Keys
        PROVE  (IF Holders(k) = {} THEN trees[k] = Nil
                ELSE trees[k] # Nil /\ trees[k].refs = Cardinality(Holders(k)))'
    <3>1. CASE k = key
      <4>1. CASE Holders(key) \ {c} = {}
        BY <1>1, <1>2, <1>3, <1>4, <1>5, <3>1, <4>1
      <4>2. CASE Holders(key) \ {c} # {}
        <5>1. trees[key].refs # 1
          BY <1>2, <1>3, <1>4, <4>2
        <5>2. trees'[key] # Nil /\ trees'[key].refs = Cardinality(Holders(key) \ {c})
          BY <1>2, <1>4, <1>5, <1>8, <5>1
        <5> QED
          BY <1>1, <3>1, <4>2, <5>2
      <4> QED
        BY <4>1, <4>2
    <3>2. CASE k # key
      BY <1>1, <1>6, <3>2 DEF RefsExact
    <3> QED
      BY <3>1, <3>2
  <2> QED
    BY <2>1 DEF RefsExact
<1>11. OneTreePerKey'
  <2>1. ASSUME NEW d \in Creates, Holding(d)'
        PROVE  (/\ ckey[d] \in Keys
                /\ trees[ckey[d]] # Nil
                /\ ctree[d] = trees[ckey[d]].tree)'
    <3>1. /\ Holding(d) /\ d # c
          /\ ckey'[d] = ckey[d] /\ ctree'[d] = ctree[d]
      BY <2>1 DEF ReleaseStep
    <3>2. /\ ckey[d] \in Keys
          /\ trees[ckey[d]] # Nil
          /\ ctree[d] = trees[ckey[d]].tree
      BY <3>1 DEF OneTreePerKey
    <3>3. CASE ckey[d] = key
      <4>1. d \in Holders(key) \ {c}
        BY <3>1, <3>3 DEF Holders
      <4>2. Cardinality(Holders(key) \ {c}) # 0
        BY <1>3, <4>1
      <4>3. trees[key].refs # 1
        BY <1>2, <1>4, <4>2
      <4> QED
        BY <1>5, <1>8, <3>1, <3>2, <3>3, <4>3
    <3>4. CASE ckey[d] # key
      BY <1>6, <3>1, <3>2, <3>4
    <3> QED
      BY <3>3, <3>4
  <2> QED
    BY <2>1 DEF OneTreePerKey
<1> QED
  BY <1>9, <1>10, <1>11

-----------------------------------------------------------------------------
(* The inductive invariant and the theorems.                               *)

IInv == TypeOK /\ OwnInv /\ RefsExact /\ OneTreePerKey

LEMMA InitIInv == Init => IInv
<1> SUFFICES ASSUME Init PROVE IInv
  OBVIOUS
<1>1. TypeOK
  <2>1. stack \in [Points -> Seq(Creates)]
    BY DEF Init
  <2> QED
    BY <2>1 DEF Init, TypeOK, CreatePCs, UnmountPCs, MainPCs
<1>2. \A c \in Creates : ~Holding(c)
  BY DEF Init, Holding, Taken, CreateHeldPCs, UnmountRunPCs
<1>3. OwnInv
  BY DEF Init, OwnInv, SingleOwner, Taken, Sweeping, CreateRunPCs,
     CreateHeldPCs, UnmountRunPCs
<1>4. RefsExact
  <2>1. \A k \in Keys : Holders(k) = {} /\ trees[k] = Nil
    BY <1>2 DEF Init, Holders
  <2> QED
    BY <2>1 DEF RefsExact
<1>5. OneTreePerKey
  BY <1>2 DEF OneTreePerKey
<1> QED
  BY <1>1, <1>3, <1>4, <1>5 DEF IInv

LEMMA NextIInv == IInv /\ [Next]_vars => IInv'
<1> SUFFICES ASSUME IInv, [Next]_vars PROVE IInv'
  OBVIOUS
<1>1. TypeRest' /\ OwnInv'
  BY TypeRestNext, OwnInvNext DEF IInv
<1>2. TreesType' /\ RefsExact' /\ OneTreePerKey'
  <2>1. CASE KeepStep
    BY <2>1, KeepCache DEF IInv
  <2>2. ASSUME NEW c \in Creates, AcquireStep(c)
        PROVE  TreesType' /\ RefsExact' /\ OneTreePerKey'
    BY <2>2, AcquireCache DEF IInv
  <2>3. ASSUME NEW c \in Creates, ReleaseStep(c)
        PROVE  TreesType' /\ RefsExact' /\ OneTreePerKey'
    BY <2>3, ReleaseCache DEF IInv
  <2> QED
    BY <2>1, <2>2, <2>3, StepKinds DEF IInv
<1>3. TypeOK'
  BY <1>1, <1>2 DEF TypeOK, TypeRest, TreesType
<1> QED
  BY <1>1, <1>2, <1>3 DEF IInv

LEMMA SpecIInv == Spec => []IInv
  BY InitIInv, NextIInv, PTL DEF Spec

\* Every variable keeps its type; in particular no reference count of
\* mgr.trees goes below zero, whatever calls interleave.
THEOREM TypeCorrect == Spec => []TypeOK
  BY SpecIInv, PTL DEF IInv

\* The reference counts of acquireTree and releaseTree are exact, for any
\* number of CreateMount and Unmount calls racing with a shutdown.
THEOREM RefsAlwaysExact == Spec => []RefsExact
  BY SpecIInv, PTL DEF IInv

\* All mounts of one key share the tree in the cache, even when several
\* calls built it at once in acquireTree.
THEOREM TreeAlwaysShared == Spec => []OneTreePerKey
  BY SpecIInv, PTL DEF IInv

\* unmount, unmountAll and create never own one mount at the same time.
THEOREM OneOwnerAtATime == Spec => []SingleOwner
<1>1. IInv => SingleOwner
  BY DEF IInv, OwnInv
<1> QED
  BY <1>1, SpecIInv, PTL

-----------------------------------------------------------------------------
(* The refinement of TreeCache.  The refinement mapping is named so that   *)
(* its primed values can be computed first.                                *)

AbsHolders == [k \in Keys |-> Holders(k)]
AbsTree == [k \in Keys |-> IF trees[k] = Nil THEN Nil ELSE trees[k].tree]
AbsGot == [c \in Creates |-> IF Holding(c) THEN ctree[c] ELSE Nil]

LEMMA KeepMaps ==
  ASSUME TypeOK, KeepStep
  PROVE  UNCHANGED <<AbsHolders, AbsTree, AbsGot>>
<1>1. \A k \in Keys : Holders(k)' = Holders(k)
  BY DEF KeepStep, Holders
<1>2. AbsHolders' = AbsHolders
  BY <1>1 DEF AbsHolders
<1>3. AbsTree' = AbsTree
  BY DEF KeepStep, AbsTree
<1>4. AbsGot' = AbsGot
  BY DEF KeepStep, AbsGot
<1> QED
  BY <1>2, <1>3, <1>4

LEMMA AcquireMaps ==
  ASSUME TypeOK, RefsExact, RefsExact', OneTreePerKey', NEW c \in Creates,
         AcquireStep(c), NEW key \in Keys, key = ckey[c]
  PROVE  /\ \A k \in Keys : c \notin AbsHolders[k]
         /\ AbsHolders' = [AbsHolders EXCEPT ![key] = @ \cup {c}]
         /\ AbsTree' = [AbsTree EXCEPT ![key] =
                          IF AbsHolders[key] = {} THEN c ELSE @]
         /\ AbsGot' = [AbsGot EXCEPT ![c] = AbsTree'[key]]
<1>1. /\ Holders(key)' = Holders(key) \cup {c}
      /\ c \notin Holders(key)
      /\ \A k \in Keys \ {key} : Holders(k)' = Holders(k)
  BY AcquireHolders
<1>2. \A k \in Keys : c \notin AbsHolders[k]
  BY DEF AbsHolders, Holders, AcquireStep
<1>3. AbsHolders' = [AbsHolders EXCEPT ![key] = @ \cup {c}]
  BY <1>1 DEF AbsHolders
<1>4. AbsTree' = [AbsTree EXCEPT ![key] =
                    IF AbsHolders[key] = {} THEN c ELSE @]
  <2>1. \A k \in Keys \ {key} : trees'[k] = trees[k]
    BY DEF AcquireStep, InsertTree, ShareTree, TypeOK
  <2>2. AbsHolders[key] = {} <=> trees[key] = Nil
    BY DEF AbsHolders, RefsExact
  <2>3. trees'[key] # Nil
    BY <1>1 DEF RefsExact
  <2>4. trees'[key].tree = IF trees[key] = Nil THEN c ELSE trees[key].tree
    BY DEF AcquireStep, InsertTree, ShareTree, TypeOK
  <2> QED
    BY <2>1, <2>2, <2>3, <2>4 DEF AbsTree
<1>5. AbsGot' = [AbsGot EXCEPT ![c] = AbsTree'[key]]
  <2>1. /\ Holding(c)'
        /\ \A d \in Creates \ {c} : Holding(d)' <=> Holding(d)
        /\ \A d \in Creates \ {c} : ctree'[d] = ctree[d]
    BY DEF AcquireStep, InsertTree, ShareTree, TypeOK
  <2>2. ckey'[c] = key
    BY DEF AcquireStep
  <2>3. trees'[key] # Nil /\ ctree'[c] = trees'[key].tree
    BY <2>1, <2>2 DEF OneTreePerKey
  <2>4. AbsTree'[key] = ctree'[c]
    BY <2>3 DEF AbsTree
  <2> QED
    BY <2>1, <2>4 DEF AbsGot
<1> QED
  BY <1>2, <1>3, <1>4, <1>5

LEMMA ReleaseMaps ==
  ASSUME TypeOK, RefsExact, RefsExact', NEW c \in Creates, ReleaseStep(c),
         NEW key \in Keys, key = ckey[c]
  PROVE  /\ c \in AbsHolders[key]
         /\ AbsHolders' = [AbsHolders EXCEPT ![key] = @ \ {c}]
         /\ AbsTree' = [AbsTree EXCEPT ![key] =
                          IF AbsHolders[key] = {c} THEN Nil ELSE @]
         /\ AbsGot' = [AbsGot EXCEPT ![c] = Nil]
<1>1. /\ Holders(key)' = Holders(key) \ {c}
      /\ c \in Holders(key)
      /\ \A k \in Keys \ {key} : Holders(k)' = Holders(k)
  BY ReleaseHolders
<1>2. c \in AbsHolders[key]
  BY <1>1 DEF AbsHolders
<1>3. AbsHolders' = [AbsHolders EXCEPT ![key] = @ \ {c}]
  BY <1>1 DEF AbsHolders
<1>4. AbsTree' = [AbsTree EXCEPT ![key] =
                    IF AbsHolders[key] = {c} THEN Nil ELSE @]
  <2>1. \A k \in Keys \ {key} : trees'[k] = trees[k]
    BY DEF ReleaseStep, ReleaseTree, TypeOK
  <2>2. AbsHolders[key] = {c} <=> trees'[key] = Nil
    BY <1>1 DEF AbsHolders, RefsExact
  <2>3. trees'[key] # Nil => trees'[key].tree = trees[key].tree /\ trees[key] # Nil
    BY DEF ReleaseStep, ReleaseTree, TypeOK
  <2> QED
    BY <2>1, <2>2, <2>3 DEF AbsTree
<1>5. AbsGot' = [AbsGot EXCEPT ![c] = Nil]
  BY DEF ReleaseStep, AbsGot
<1> QED
  BY <1>2, <1>3, <1>4, <1>5

\* The manager's cache implements TreeCache: in every behaviour of the
\* manager the holders, the shared trees and the trees handed out change only
\* as an atomic Acquire or Release allows.
THEOREM CacheRefines == Spec => CacheSpec
<1>1. Init => Cache!Init
  <2>1. ASSUME Init PROVE \A c \in Creates : ~Holding(c)
    BY <2>1 DEF Init, Holding, Taken, CreateHeldPCs, UnmountRunPCs
  <2> QED
    BY <2>1 DEF Init, Cache!Init, Holders
<1>2. IInv /\ IInv' /\ [Next]_vars => [Cache!Next]_(Cache!vars)
  <2> SUFFICES ASSUME IInv, IInv', [Next]_vars
               PROVE  [Cache!Next]_(Cache!vars)
    OBVIOUS
  <2>1. CASE KeepStep
    BY <2>1, KeepMaps DEF IInv, Cache!vars, AbsHolders, AbsTree, AbsGot
  <2>2. ASSUME NEW c \in Creates, AcquireStep(c)
        PROVE  Cache!Next
    <3>1. PICK key \in Keys : key = ckey[c]
      BY <2>2 DEF AcquireStep
    <3>2. Cache!Acquire(key, c)
      BY <2>2, <3>1, AcquireMaps
         DEF IInv, Cache!Acquire, AbsHolders, AbsTree, AbsGot
    <3> QED
      BY <3>2 DEF Cache!Next
  <2>3. ASSUME NEW c \in Creates, ReleaseStep(c)
        PROVE  Cache!Next
    <3>1. PICK key \in Keys : key = ckey[c]
      BY <2>3 DEF ReleaseStep
    <3>2. Cache!Release(key, c)
      BY <2>3, <3>1, ReleaseMaps
         DEF IInv, Cache!Release, AbsHolders, AbsTree, AbsGot
    <3> QED
      BY <3>2 DEF Cache!Next
  <2> QED
    BY <2>1, <2>2, <2>3, StepKinds DEF IInv
<1> QED
  BY <1>1, <1>2, SpecIInv, PTL DEF Spec, CacheSpec, Cache!Spec

-----------------------------------------------------------------------------
(* The kernel's mount table: which mounts are still there after the calls  *)
(* and the sweep have given them up.  Both properties speak of mounts with *)
(* a point of their own (SoleUser).  The table of such a point holds that  *)
(* mount or nothing (TableInv), so unmounting the point takes off this     *)
(* mount and no other.                                                     *)

\* The program counters of a CreateMount call that has not mounted yet.
BeforeMountPCs == {"new", "acquire", "build", "insert", "upper", "mount"}

\* The mount table of a point that one call alone asks for.
TableInv ==
  \A c \in Creates : SoleUser(c) =>
    \/ stack[PointOf[c]] = <<>>
    \/ stack[PointOf[c]] = <<c>> /\ cpc[c] \notin BeforeMountPCs

\* A mount that a call took was created, and stays so after the call.
TargetInv ==
  \A u \in Unmounts : upc[u] \notin {"new", "notFound"} =>
    utarget[u] \in Creates /\ cpc[utarget[u]] = "ok"

TableIInv == TableInv /\ TargetInv /\ OkMeansGone /\ NoSilentOrphan

\* What a step may do to the mount table: mount one more, or take off the
\* topmost of one point, or nothing.
TableStep ==
  \/ \E c \in Creates : KernelMount(c) /\ cpc[c] = "mount" /\ cpc'[c] = "id"
  \/ \E p \in Points : Pop(p)
  \/ UNCHANGED stack

LEMMA TableSteps ==
  ASSUME TypeOK, OwnInv, [Next]_vars
  PROVE  TableStep
<1> USE DEF createVars, unmountVars, sweepVars, mainVars, inputVars
<1>1. ASSUME NEW c \in Creates, NEW lz \in BOOLEAN,
             DetachDone(c, lz) \/ DetachWait(c) \/ UnmountFails(c)
      PROVE  TableStep
  <2>1. PointOf[c] \in Points
    BY PointOfType
  <2> QED
    BY <1>1, <2>1 DEF TableStep, DetachDone, DetachWait, UnmountFails,
       ServerUnmount, LazyUnmount
<1>2. CASE UNCHANGED vars \/ Request \/ Signal \/ Exited
  BY <1>2 DEF vars, TableStep, Request, CreateReject, CreateResolve,
     UnmountTake, UnmountNotFound, Shutdown, Signal, Exited
<1>3. ASSUME NEW c \in Creates, CreateStep(c)
      PROVE  TableStep
  <2>1. CASE CreateID(c)
    BY <2>1, <1>1 DEF CreateID, TableStep
  <2>2. CASE CreateFuseMount(c)
    BY <2>2 DEF CreateFuseMount, TableStep, GotoC, TypeOK
  <2> QED
    BY <1>3, <2>1, <2>2 DEF CreateStep, TableStep, CreateHit, CreateMiss,
       CreateBuild, CreateInsert, CreateUpper, CreateUndo, CreateRegister,
       CreateRelease
<1>4. ASSUME NEW u \in Unmounts, UnmountStep(u)
      PROVE  TableStep
  <2>1. CASE UnmountDetach(u)
    <3>1. utarget[u] \in Creates /\ ulazy[u] \in BOOLEAN
      BY <2>1 DEF UnmountDetach, GotoU, OwnInv, TypeOK, UnmountRunPCs
    <3> QED
      BY <2>1, <3>1, <1>1 DEF UnmountDetach
  <2> QED
    BY <1>4, <2>1 DEF UnmountStep, UnmountWait, UnmountRelease, TableStep
<1>5. CASE MainStep
  <2>1. CASE SweepDetach
    BY <2>1, <1>1 DEF SweepDetach, OwnInv, TypeOK
  <2> QED
    BY <1>5, <2>1 DEF MainStep, MainSignal, MainShutdown, TakeAll,
       SweepRelease, SweepWait, StopServer, Exit, TableStep
<1>6. CASE \E p \in Points : ExternalUnmount(p)
  BY <1>6 DEF ExternalUnmount, TableStep
<1> QED
  BY <1>2, <1>3, <1>4, <1>5, <1>6 DEF Next
\* What was done stays done: a call that mounted never mounts again, a mount
\* that was created or given up openly stays so.
LEMMA PCsAdvance ==
  ASSUME TypeOK, OwnInv, [Next]_vars, NEW c \in Creates
  PROVE  /\ cpc[c] \notin BeforeMountPCs => cpc'[c] \notin BeforeMountPCs
         /\ cpc[c] \in {"ok", "failed"} => cpc'[c] = cpc[c]
         /\ cpc[c] = "mount" => cpc'[c] \in {"mount", "id", "release"}
<1> USE DEF TypeOK, createVars, unmountVars, sweepVars, mainVars, inputVars,
        BeforeMountPCs, GotoC, CreateRunPCs, CreateHeldPCs, CreatePCs
<1>1. ASSUME NEW d \in Creates, CreateStep(d)
      PROVE  /\ cpc[c] \notin BeforeMountPCs => cpc'[c] \notin BeforeMountPCs
             /\ cpc[c] \in {"ok", "failed"} => cpc'[c] = cpc[c]
             /\ cpc[c] = "mount" => cpc'[c] \in {"mount", "id", "release"}
  <2>1. CASE CreateHit(d) \/ CreateMiss(d) \/ CreateBuild(d)
    BY <2>1 DEF CreateHit, CreateMiss, CreateBuild
  <2>2. CASE CreateInsert(d) \/ CreateUpper(d)
    BY <2>2 DEF CreateInsert, CreateUpper
  <2>3. CASE CreateFuseMount(d) \/ CreateID(d)
    BY <2>3 DEF CreateFuseMount, CreateID
  <2>4. CASE CreateUndo(d) \/ CreateRegister(d) \/ CreateRelease(d)
    BY <2>4 DEF CreateUndo, CreateRegister, CreateRelease
  <2> QED
    BY <1>1, <2>1, <2>2, <2>3, <2>4 DEF CreateStep
<1>2. CASE Request
  BY <1>2 DEF Request, CreateReject, CreateResolve, UnmountNotFound,
     UnmountTake, Shutdown
<1>3. CASE UNCHANGED cpc
  BY <1>3
<1>4. CASE UNCHANGED vars \/ Signal \/ Exited
  BY <1>4 DEF vars, Signal, Exited
<1>5. CASE MainStep
  BY <1>5, <1>3 DEF MainStep, MainSignal, MainShutdown, TakeAll, SweepRelease,
     SweepDetach, SweepWait, StopServer, Exit
<1>6. CASE \E u \in Unmounts : UnmountStep(u)
  BY <1>6, <1>3 DEF UnmountStep, UnmountDetach, UnmountWait, UnmountRelease
<1>7. CASE \E p \in Points : ExternalUnmount(p)
  BY <1>7, <1>3 DEF ExternalUnmount
<1> QED
  BY <1>1, <1>2, <1>4, <1>5, <1>6, <1>7 DEF Next

LEMMA TableInvNext ==
  ASSUME TypeOK, OwnInv, TableInv, [Next]_vars
  PROVE  TableInv'
<1> SUFFICES ASSUME NEW c \in Creates, SoleUser(c)
             PROVE  (\/ stack[PointOf[c]] = <<>>
                     \/ stack[PointOf[c]] = <<c>> /\ cpc[c] \notin BeforeMountPCs)'
  BY DEF TableInv, SoleUser
<1>1. PointOf[c] \in Points
  BY PointOfType
<1>2. \/ stack[PointOf[c]] = <<>>
      \/ stack[PointOf[c]] = <<c>> /\ cpc[c] \notin BeforeMountPCs
  BY DEF TableInv
<1>3. cpc[c] \notin BeforeMountPCs => cpc'[c] \notin BeforeMountPCs
  BY PCsAdvance
<1>4. CASE UNCHANGED stack
  BY <1>2, <1>3, <1>4
<1>5. ASSUME NEW p \in Points, Pop(p)
      PROVE  stack'[PointOf[c]] \in {stack[PointOf[c]], <<>>}
  <2>1. CASE p = PointOf[c]
    <3>1. stack[p] = <<c>> /\ Tail(<<c>>) = <<>>
      BY <1>2, <1>5, <2>1 DEF Pop
    <3> QED
      BY <1>1, <1>5, <2>1, <3>1 DEF Pop, TypeOK
  <2>2. CASE p # PointOf[c]
    BY <1>1, <1>5, <2>2 DEF Pop, TypeOK
  <2> QED
    BY <2>1, <2>2
<1>6. ASSUME NEW d \in Creates, KernelMount(d), cpc[d] = "mount", cpc'[d] = "id"
      PROVE  \/ stack'[PointOf[c]] = stack[PointOf[c]]
             \/ stack'[PointOf[c]] = <<c>> /\ cpc'[c] \notin BeforeMountPCs
  <2>1. CASE PointOf[d] = PointOf[c]
    <3>1. d = c
      BY <2>1 DEF SoleUser
    <3>2. stack[PointOf[c]] = <<>>
      BY <1>2, <1>6, <3>1 DEF BeforeMountPCs
    <3>3. <<c>> \o <<>> = <<c>>
      OBVIOUS
    <3>4. stack'[PointOf[c]] = <<c>> \o stack[PointOf[c]]
      BY <1>1, <1>6, <3>1 DEF KernelMount, TypeOK
    <3> QED
      BY <1>6, <3>1, <3>2, <3>3, <3>4 DEF BeforeMountPCs
  <2>2. CASE PointOf[d] # PointOf[c]
    BY <1>1, <1>6, <2>2 DEF KernelMount, TypeOK
  <2> QED
    BY <2>1, <2>2
<1> QED
  BY <1>2, <1>3, <1>4, <1>5, <1>6, TableSteps DEF TableStep

-----------------------------------------------------------------------------
(* The mounts that calls took.                                             *)

\* What a step does to an Unmount call.
UnmountMoves(u) ==
  \/ upc'[u] = upc[u] /\ utarget'[u] = utarget[u]
  \/ upc[u] = "new" /\ upc'[u] = "notFound"
  \/ upc[u] = "new" /\ upc'[u] = "detach" /\ utarget'[u] \in mounts
  \/ /\ utarget'[u] = utarget[u]
     /\ \/ upc[u] = "detach" /\ upc'[u] \in {"wait", "releaseErr"}
        \/ /\ upc[u] = "detach" /\ upc'[u] = "releaseOk"
           /\ DetachDone(utarget[u], ulazy[u])
        \/ /\ upc[u] = "wait" /\ upc'[u] = "releaseOk"
           /\ ~Live(utarget[u]) /\ UNCHANGED stack
        \/ upc[u] = "releaseOk" /\ upc'[u] = "ok"
        \/ upc[u] = "releaseErr" /\ upc'[u] = "internal"

LEMMA UnmountSteps ==
  ASSUME TypeOK, [Next]_vars, NEW u \in Unmounts
  PROVE  UnmountMoves(u)
<1> USE DEF TypeOK, createVars, unmountVars, sweepVars, mainVars, inputVars,
        UnmountMoves
<1>1. ASSUME NEW v \in Unmounts, UnmountStep(v)
      PROVE  UnmountMoves(u)
  <2>1. CASE UnmountDetach(v)
    BY <2>1 DEF UnmountDetach, GotoU
  <2>2. CASE UnmountWait(v) \/ UnmountRelease(v)
    BY <2>2 DEF UnmountWait, UnmountRelease, GotoU
  <2> QED
    BY <1>1, <2>1, <2>2 DEF UnmountStep
<1>2. CASE Request
  BY <1>2 DEF Request, CreateReject, CreateResolve, UnmountNotFound,
     UnmountTake, Shutdown, GotoU
<1>3. CASE UNCHANGED <<upc, utarget>>
  BY <1>3
<1>4. CASE UNCHANGED vars \/ Signal \/ Exited
  BY <1>4 DEF vars, Signal, Exited
<1>5. CASE MainStep
  BY <1>5, <1>3 DEF MainStep, MainSignal, MainShutdown, TakeAll, SweepRelease,
     SweepDetach, SweepWait, StopServer, Exit
<1>6. CASE \E c \in Creates : CreateStep(c)
  BY <1>6, <1>3 DEF CreateStep, CreateHit, CreateMiss, CreateBuild,
     CreateInsert, CreateUpper, CreateFuseMount, CreateID, CreateUndo,
     CreateRegister, CreateRelease
<1>7. CASE \E p \in Points : ExternalUnmount(p)
  BY <1>7, <1>3 DEF ExternalUnmount
<1> QED
  BY <1>1, <1>2, <1>4, <1>5, <1>6, <1>7 DEF Next

LEMMA TargetInvNext ==
  ASSUME TypeOK, OwnInv, TargetInv, [Next]_vars
  PROVE  TargetInv'
<1> SUFFICES ASSUME NEW u \in Unmounts, upc'[u] \notin {"new", "notFound"}
             PROVE  utarget'[u] \in Creates /\ cpc'[utarget'[u]] = "ok"
  BY DEF TargetInv
<1>1. UnmountMoves(u)
  BY UnmountSteps
<1>2. utarget'[u] \in Creates /\ cpc[utarget'[u]] = "ok"
  BY <1>1 DEF UnmountMoves, TargetInv, OwnInv, SingleOwner, TypeOK
<1> QED
  BY <1>2, PCsAdvance

-----------------------------------------------------------------------------
(* Mounts that are gone stay gone.                                         *)

\* A table with at most c in it has c exactly if it is not empty.
LEMMA OnlyEntry ==
  ASSUME NEW c, NEW table, table = <<>> \/ table = <<c>>
  PROVE  (\E i \in DOMAIN table : table[i] = c) <=> table # <<>>
<1>1. DOMAIN <<>> = {}
  OBVIOUS
<1>2. 1 \in DOMAIN <<c>> /\ <<c>>[1] = c
  OBVIOUS
<1> QED
  BY <1>1, <1>2

LEMMA LiveTable ==
  TableInv => \A c \in Creates :
                SoleUser(c) => (Live(c) <=> stack[PointOf[c]] # <<>>)
  BY OnlyEntry DEF Live, TableInv

LEMMA GoneStaysGone ==
  ASSUME TypeOK, TypeOK', OwnInv, TableInv, TableInv', [Next]_vars,
         NEW c \in Creates, SoleUser(c), cpc[c] # "mount", ~Live(c)
  PROVE  ~Live(c)'
<1>1. PointOf[c] \in Points /\ stack[PointOf[c]] = <<>>
  BY LiveTable, PointOfType
<1>2. Live(c)' <=> stack'[PointOf[c]] # <<>>
  BY OnlyEntry DEF Live, TableInv, SoleUser
<1>3. stack'[PointOf[c]] = <<>>
  <2>1. ASSUME NEW p \in Points, Pop(p)
        PROVE  stack'[PointOf[c]] = <<>>
    BY <1>1, <2>1 DEF Pop, TypeOK
  <2>2. ASSUME NEW d \in Creates, KernelMount(d), cpc[d] = "mount"
        PROVE  stack'[PointOf[c]] = <<>>
    <3>1. PointOf[d] # PointOf[c]
      BY <2>2 DEF SoleUser
    <3> QED
      BY <1>1, <2>2, <3>1 DEF KernelMount, TypeOK
  <2> QED
    BY <1>1, <2>1, <2>2, TableSteps DEF TableStep
<1> QED
  BY <1>2, <1>3

\* A detach that is done has taken the mount off its point.
LEMMA DetachGone ==
  ASSUME TypeOK, TableInv, TableInv', NEW c \in Creates, SoleUser(c),
         NEW lz \in BOOLEAN, DetachDone(c, lz)
  PROVE  ~Live(c)'
<1>1. Pop(PointOf[c])
  BY DEF DetachDone, LazyUnmount, ServerUnmount
<1>2. stack[PointOf[c]] = <<c>> /\ Tail(<<c>>) = <<>>
  BY <1>1 DEF TableInv, Pop
<1>3. stack'[PointOf[c]] = <<>>
  BY <1>1, <1>2, PointOfType DEF Pop, TypeOK
<1> QED
  BY <1>3, OnlyEntry DEF Live, TableInv, SoleUser

LEMMA OkMeansGoneNext ==
  ASSUME TypeOK, TypeOK', OwnInv, TableInv, TableInv', TargetInv, TargetInv',
         OkMeansGone, [Next]_vars
  PROVE  OkMeansGone'
<1> SUFFICES ASSUME NEW u \in Unmounts, upc'[u] \in {"releaseOk", "ok"},
                    NEW c \in Creates, c = utarget'[u], SoleUser(c)
             PROVE  ~Live(c)'
  BY DEF OkMeansGone, TargetInv, Live, SoleUser
<1>1. UnmountMoves(u)
  BY UnmountSteps
<1>2. utarget[u] = c /\ cpc[c] # "mount"
  BY <1>1 DEF UnmountMoves, TargetInv
<1>3. CASE ~Live(c)
  BY <1>2, <1>3, GoneStaysGone
<1>4. CASE DetachDone(c, ulazy[u])
  BY <1>4, DetachGone DEF TypeOK
<1> QED
  BY <1>1, <1>2, <1>3, <1>4 DEF UnmountMoves, OkMeansGone

-----------------------------------------------------------------------------
(* Mounts that nobody answers for.                                         *)

\* A mount that was given up openly.
Disowned(c) ==
  \/ cpc[c] = "failed"
  \/ \E u \in Unmounts : utarget[u] = c /\ upc[u] = "internal"
  \/ c \in logged

LEMMA DisownedStays ==
  ASSUME TypeOK, OwnInv, TargetInv, [Next]_vars, NEW c \in Creates, Disowned(c)
  PROVE  Disowned(c)'
<1>1. CASE cpc[c] = "failed"
  BY <1>1, PCsAdvance DEF Disowned
<1>2. ASSUME NEW u \in Unmounts, utarget[u] = c, upc[u] = "internal"
      PROVE  Disowned(c)'
  BY <1>2, UnmountSteps DEF UnmountMoves, Disowned
<1>3. logged \subseteq logged'
  BY DEF Next, vars, createVars, unmountVars, sweepVars, mainVars, inputVars,
     Request, CreateReject, CreateResolve, UnmountNotFound, UnmountTake,
     Shutdown, CreateStep, CreateHit, CreateMiss, CreateBuild, CreateInsert,
     CreateUpper, CreateFuseMount, CreateID, CreateUndo, CreateRegister,
     CreateRelease, UnmountStep, UnmountDetach, UnmountWait, UnmountRelease,
     MainStep, MainSignal, MainShutdown, TakeAll, SweepRelease, SweepDetach,
     SweepWait, StopServer, Exit, Signal, ExternalUnmount, Exited
<1> QED
  BY <1>1, <1>2, <1>3 DEF Disowned

\* Whoever gives a tree up for a mount leaves the mount to the sweep, or says
\* so, or has unmounted it.
LEMMA HoldingEnds ==
  ASSUME TypeOK, OwnInv, [Next]_vars, NEW c \in Creates, Holding(c), ~Holding(c)'
  PROVE  \/ Disowned(c)'
         \/ Sweeping(c)'
         \/ \E u \in Unmounts : utarget[u] = c /\ upc[u] = "releaseOk"
<1> USE DEF TypeOK, createVars, unmountVars, sweepVars, mainVars,
        inputVars, CreateRunPCs, CreateHeldPCs, UnmountRunPCs,
        OwnInv, SingleOwner, Taken, Sweeping, Holding, Disowned
<1>1. CASE UNCHANGED vars
  BY <1>1 DEF vars
<1>2. CASE Request
  <2>1. ASSUME NEW d \in Creates, NEW k \in Keys, CreateResolve(d, k)
        PROVE  FALSE
    BY <2>1 DEF CreateResolve, GotoC
  <2>2. ASSUME NEW u \in Unmounts, NEW d \in Creates, NEW lz \in BOOLEAN,
               UnmountTake(u, d, lz)
        PROVE  FALSE
    BY <2>2 DEF UnmountTake, GotoU
  <2>3. ASSUME NEW d \in Creates, CreateReject(d)
        PROVE  FALSE
    BY <2>3 DEF CreateReject, GotoC
  <2>4. ASSUME NEW u \in Unmounts, UnmountNotFound(u)
        PROVE  FALSE
    BY <2>4 DEF UnmountNotFound, GotoU
  <2>5. ASSUME NEW mode \in {"lazy", "normal"}, Shutdown(mode)
        PROVE  FALSE
    BY <2>5 DEF Shutdown
  <2> QED
    BY <1>2, <2>1, <2>2, <2>3, <2>4, <2>5 DEF Request
<1>3. ASSUME NEW d \in Creates, CreateStep(d)
      PROVE  Disowned(c)'
  <2>1. CASE CreateRelease(d)
    BY <2>1 DEF CreateRelease, GotoC
  <2>2. CASE CreateID(d)
    <3>1. cpc[c] \in CreateHeldPCs => cpc'[c] \in CreateHeldPCs
      <4>1. cpc \in [Creates -> CreatePCs]
        OBVIOUS
      <4>2. PICK to \in {"register", "undo", "release"} : cpc' = [cpc EXCEPT ![d] = to]
        BY <2>2, Zenon DEF CreateID, GotoC
      <4> QED
        BY <4>1, <4>2
    <3>2. UNCHANGED <<mounts, left, upc, utarget>>
      BY <2>2 DEF CreateID
    <3> HIDE DEF TypeOK, OwnInv, SingleOwner
    <3> QED
      BY <3>1, <3>2
  <2>3. CASE CreateRegister(d)
    <3>1. c \in mounts \/ d = c => c \in mounts'
      BY <2>3 DEF CreateRegister
    <3>2. d # c => cpc'[c] = cpc[c]
      BY <2>3 DEF CreateRegister, GotoC
    <3>3. UNCHANGED <<upc, utarget, mpc, cur, left>>
      BY <2>3 DEF CreateRegister
    <3> HIDE DEF TypeOK, OwnInv, SingleOwner
    <3>4. d = c => Holding(c)'
      BY <3>1
    <3>5. d # c => Holding(c)'
      BY <3>1, <3>2, <3>3
    <3> QED
      BY <3>4, <3>5
  <2>4. CASE CreateHit(d) \/ CreateMiss(d) \/ CreateBuild(d) \/ CreateInsert(d)
    BY <2>4 DEF CreateHit, CreateMiss, CreateBuild, CreateInsert, GotoC
  <2>5. CASE CreateUpper(d) \/ CreateFuseMount(d) \/ CreateUndo(d)
    BY <2>5 DEF CreateUpper, CreateFuseMount, CreateUndo, GotoC
  <2> QED
    BY <1>3, <2>1, <2>2, <2>3, <2>4, <2>5 DEF CreateStep
<1>4. ASSUME NEW u \in Unmounts, UnmountStep(u)
      PROVE  \/ Disowned(c)'
             \/ utarget[u] = c /\ upc[u] = "releaseOk"
  BY <1>4 DEF UnmountStep, UnmountDetach, UnmountWait, UnmountRelease, GotoU
<1>5. CASE MainStep
  BY <1>5 DEF MainStep, MainSignal, MainShutdown, TakeAll, SweepRelease,
     SweepDetach, SweepWait, StopServer, Exit
<1>6. CASE Signal \/ Exited \/ \E p \in Points : ExternalUnmount(p)
  BY <1>6 DEF Signal, Exited, ExternalUnmount, vars
<1> QED
  BY <1>1, <1>2, <1>3, <1>4, <1>5, <1>6 DEF Next

\* The sweep goes on from a mount once it is gone or its failure is logged.
LEMMA SweepingEnds ==
  ASSUME TypeOK, OwnInv, TableInv, TableInv', [Next]_vars, NEW c \in Creates,
         SoleUser(c), Live(c)', Sweeping(c), ~Sweeping(c)'
  PROVE  c \in logged'
<1> USE DEF createVars, unmountVars, sweepVars, mainVars, inputVars, Sweeping
<1>1. SweepDetach \/ SweepWait
  BY DEF Next, vars, Request, CreateReject, CreateResolve, UnmountNotFound,
     UnmountTake, Shutdown, CreateStep, CreateHit, CreateMiss, CreateBuild,
     CreateInsert, CreateUpper, CreateFuseMount, CreateID, CreateUndo,
     CreateRegister, CreateRelease, UnmountStep, UnmountDetach, UnmountWait,
     UnmountRelease, MainStep, MainSignal, MainShutdown, TakeAll, SweepRelease,
     StopServer, Exit, Signal, ExternalUnmount, Exited
<1>2. CASE SweepWait
  BY <1>2 DEF SweepWait, Live
<1>3. CASE SweepDetach
  <2>1. ~DetachDone(c, lazy)
    BY DetachGone DEF TypeOK
  <2> QED
    BY <1>3, <2>1 DEF SweepDetach
<1> QED
  BY <1>1, <1>2, <1>3

LEMMA NoSilentOrphanNext ==
  ASSUME TypeOK, TypeOK', OwnInv, TableInv, TableInv', TargetInv, OkMeansGone,
         NoSilentOrphan, [Next]_vars
  PROVE  NoSilentOrphan'
<1> SUFFICES ASSUME NEW c \in Creates, Live(c)', SoleUser(c), ~Holding(c)',
                    ~Sweeping(c)'
             PROVE  Disowned(c)'
  BY DEF NoSilentOrphan, Disowned, SoleUser
<1>1. Live(c)
  <2>1. cpc[c] # "mount"
    BY PCsAdvance DEF Holding, CreateHeldPCs
  <2> QED
    BY <2>1, GoneStaysGone
<1>2. CASE Holding(c)
  BY <1>1, <1>2, HoldingEnds DEF OkMeansGone
<1>3. CASE Sweeping(c)
  BY <1>3, SweepingEnds DEF Disowned
<1>4. CASE ~Holding(c) /\ ~Sweeping(c)
  BY <1>1, <1>4, DisownedStays DEF NoSilentOrphan, Disowned
<1> QED
  BY <1>2, <1>3, <1>4

-----------------------------------------------------------------------------
(* The inductive invariant and the theorems.                               *)

LEMMA InitTableIInv == Init => TableIInv
<1> SUFFICES ASSUME Init PROVE TableIInv
  OBVIOUS
<1>1. \A c \in Creates : stack[PointOf[c]] = <<>>
  BY PointOfType DEF Init
<1>2. TableInv
  BY <1>1 DEF TableInv
<1>3. \A u \in Unmounts : upc[u] = "new"
  BY DEF Init
<1>4. TargetInv /\ OkMeansGone
  BY <1>3 DEF TargetInv, OkMeansGone
<1>5. NoSilentOrphan
  BY <1>1, <1>2, LiveTable DEF NoSilentOrphan
<1> QED
  BY <1>2, <1>4, <1>5 DEF TableIInv

LEMMA NextTableIInv == IInv /\ IInv' /\ TableIInv /\ [Next]_vars => TableIInv'
<1> SUFFICES ASSUME IInv, IInv', TableIInv, [Next]_vars PROVE TableIInv'
  OBVIOUS
<1>1. TypeOK /\ TypeOK' /\ OwnInv
  BY DEF IInv
<1>2. TableInv' /\ TargetInv'
  BY <1>1, TableInvNext, TargetInvNext DEF TableIInv
<1>3. OkMeansGone' /\ NoSilentOrphan'
  BY <1>1, <1>2, OkMeansGoneNext, NoSilentOrphanNext DEF TableIInv
<1> QED
  BY <1>2, <1>3 DEF TableIInv

LEMMA SpecTableIInv == Spec => []TableIInv
  BY SpecIInv, InitTableIInv, NextTableIInv, PTL DEF Spec

\* An Unmount call (manager.go, unmount and detach) that answers OK leaves
\* nothing of its mount on a point that no other call uses, lazily or not,
\* whatever users unmount by hand meanwhile.
THEOREM OkAlwaysGone == Spec => []OkMeansGone
  BY SpecTableIInv, PTL DEF TableIInv

\* No interleaving of creates, unmounts and the sweep of unmountAll loses a
\* live mount without an error, an Internal answer or a line in the log.
THEOREM OrphansAreTold == Spec => []NoSilentOrphan
  BY SpecTableIInv, PTL DEF TableIInv
=============================================================================
