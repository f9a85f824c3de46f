--------------------------- MODULE MCLayerStack ---------------------------
(* LayerStack for TLC: two names, paths of one or two of them.             *)
EXTENDS LayerStack

CONSTANTS a, b

At(p, entry) == [path |-> p, entry |-> entry]

\* What a layer can have at <<a>> and inside it, and at <<b>>.  A marker
\* inside a directory, or a file, may come without the directory's entry.
Tops    == {<<>>, <<Whiteout>>, <<Dir>>, <<Dir, Opaque>>, <<Opaque>>,
            <<Whiteout, Dir>>}
NonDirs == {<<File(0)>>, <<Whiteout, File(0)>>, <<Link("base")>>}
Insides == {<<>>, <<File(0)>>, <<Whiteout>>}
Sides   == {<<>>, <<File(0)>>, <<Dir>>, <<Fifo>>}

Here(p, entries) == [i \in DOMAIN entries |-> At(p, entries[i])]

Lists ==
  {Here(<<a>>, top) \o Here(<<a, b>>, inside) \o Here(<<b>>, side) :
     top \in Tops, inside \in Insides, side \in Sides}
  \cup {Here(<<a>>, top) \o Here(<<b>>, side) : top \in NonDirs, side \in Sides}

\* Most commits have blocks of two bytes; some of one, of the default size, or
\* of any size.
Fixed(bs, s)     == [entries |-> s, blockSize |-> bs, variable |-> FALSE]
AnySize(bs, s)   == [entries |-> s, blockSize |-> bs, variable |-> TRUE]
OnlyFile         == <<At(<<b>>, File(0))>>

Backwards(s) == [i \in DOMAIN s |-> s[Len(s) + 1 - i]]

\* Directories listed before what is in them, and after.
SomeLayers ==
  {Fixed(2, s) : s \in Lists} \cup {AnySize(2, Backwards(s)) : s \in Lists}
  \cup {Fixed(2, <<At(<<>>, Opaque), At(<<a>>, File(0))>>),
        Fixed(0, OnlyFile), Fixed(1, OnlyFile), AnySize(0, OnlyFile), AnySize(1, OnlyFile)}
=============================================================================
