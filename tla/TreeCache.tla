----------------------------- MODULE TreeCache -----------------------------
(***************************************************************************)
(* What the mount manager's tree cache promises (manager.go, acquireTree   *)
(* and releaseTree), without its lock, its reference counts or the builds  *)
(* that race: a key has a tree exactly while somebody holds it, and all    *)
(* its holders were handed the same one.  A tree is named after the client *)
(* whose call built it.                                                    *)
(***************************************************************************)
CONSTANTS Keys,      \* cache keys: one per sequence of (repository, state id)
          Clients,   \* calls that acquire a tree, each at most once at a time
          NoTree

VARIABLES holders,   \* holders[k]: the clients that hold key k
          tree,      \* tree[k]: the shared tree of k, NoTree while unheld
          got        \* got[c]: the tree handed to c, NoTree while c holds none

vars == <<holders, tree, got>>

Init ==
  /\ holders = [k \in Keys |-> {}]
  /\ tree = [k \in Keys |-> NoTree]
  /\ got = [c \in Clients |-> NoTree]

\* c acquires key k: it shares the present tree, or brings its own as the
\* first holder.
Acquire(k, c) ==
  /\ \A l \in Keys : c \notin holders[l]
  /\ holders' = [holders EXCEPT ![k] = @ \cup {c}]
  /\ tree' = [tree EXCEPT ![k] = IF holders[k] = {} THEN c ELSE @]
  /\ got' = [got EXCEPT ![c] = tree'[k]]

\* c gives key k up; the last holder drops the tree.
Release(k, c) ==
  /\ c \in holders[k]
  /\ holders' = [holders EXCEPT ![k] = @ \ {c}]
  /\ tree' = [tree EXCEPT ![k] = IF holders[k] = {c} THEN NoTree ELSE @]
  /\ got' = [got EXCEPT ![c] = NoTree]

Next == \E k \in Keys, c \in Clients : Acquire(k, c) \/ Release(k, c)

Spec == Init /\ [][Next]_vars
=============================================================================
