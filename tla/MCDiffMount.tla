---------------------------- MODULE MCDiffMount ----------------------------
(* DiffMount for TLC: two names, paths of one or two of them.              *)
EXTENDS DiffMount, TLC

CONSTANTS a, b

\* A directory with a file and a fifo beside a file; a link beside a file.
Tree(entries) == entries @@ [p \in Paths |-> None]
DirTree  == Tree(<<a>> :> Dir @@ <<a, a>> :> File("base") @@ <<a, b>> :> Fifo
                 @@ <<b>> :> File("base"))
LinkTree == Tree(<<a>> :> Link("base") @@ <<b>> :> File("base"))

SomeTrees == {DirTree, LinkTree}

\* last only records the call.
Mount == <<given, up, wh, calls, walkVars>>
=============================================================================
