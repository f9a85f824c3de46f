----------------------------- MODULE MCService -----------------------------
(* Service for TLC: a root with a repository, a link out of it and one     *)
(* back into it; two contents of the working directory.                    *)
EXTENDS Service, TLC

Repo == <<"root", "repo">>
Disk == [dirs  |-> {<<>>, <<"root">>, Repo, <<"other">>},
         files |-> {<<"root", "file">>},
         links |-> [p \in {<<"root", "out">>, <<"in">>} |->
                      IF p = <<"in">> THEN Repo ELSE <<"other">>]]

\* A Unix socket; loopback without a token; beyond loopback with all, and with
\* half, of what that needs; no address.
Config(prefix, host, insecure, token, roots, newestFirst) ==
  [addr |-> [prefix |-> prefix, host |-> host], insecure |-> insecure,
   token |-> token, roots |-> roots, newestFirst |-> newestFirst]
SomeConfigs ==
  {Config("unix:", "", FALSE, "t", {<<"root">>}, TRUE),
   Config("", "127.0.0.1", FALSE, "", {<<"root">>}, FALSE),
   Config("tcp:", "192.168.0.2", TRUE, "t", {}, FALSE),
   Config("tcp:", "192.168.0.2", TRUE, "", {}, FALSE),
   Config("tcp:", "192.168.0.2", FALSE, "t", {}, FALSE),
   Config("", "", FALSE, "", {}, FALSE)}

\* A fixed-size and a variable-size file, a link, and a file that only the
\* second content has.
Entry(size, blocks, sizes, link) ==
  [size |-> size, blocks |-> blocks, sizes |-> sizes, mode |-> 1, link |-> link]
One == [blockSize |-> 2,
        files |-> [f |-> Entry(3, <<<<1, 2>>, <<3>>>>, <<>>, <<>>),
                   l |-> Entry(1, <<>>, <<>>, <<8>>)]]
Two == [blockSize |-> 2,
        files |-> [f |-> Entry(4, <<<<1>>, <<2, 3>>, <<4>>>>, <<1, 2, 1>>, <<>>),
                   l |-> Entry(1, <<>>, <<>>, <<9>>),
                   g |-> Entry(1, <<<<3>>>>, <<1>>, <<>>)]]
SomeContents == {One, Two}

\* A call of each kind with a good token and path; some without.
NoMd == [token |-> "", bearer |-> ""]
Good == [token |-> "", bearer |-> "t"]
Call(rpc) == [rpc |-> rpc, path |-> Repo, dest |-> <<>>, md |-> Good, incomplete |-> FALSE]
Commits  == {Call("Commit") @@ [msg |-> "asked", allowEmpty |-> TRUE],
             Call("CommitStream") @@ [msg |-> "asked", allowEmpty |-> FALSE]}
Restores == {Call(r) @@ [state |-> 1, reset |-> r = "Restore"] :
               r \in {"Restore", "RestoreStream"}}
Elsewhere(to) == [Call("Restore") EXCEPT !.dest = to] @@ [state |-> 1, reset |-> FALSE]
Reads ==
  {Call("ListCommits") @@ [size |-> 1, badToken |-> b] : b \in BOOLEAN}
  \cup {Call("GetCommit") @@ [state |-> 1], Call("ListFiles")}
  \cup {Call("GetFile") @@ [file |-> f, chunk |-> c] : f \in {"f", "g"}, c \in {2}}
  \cup {Call("GetFile") @@ [file |-> f, chunk |-> 0] : f \in {"f", "l"}}
  \cup {Call("Diff") @@ [from |-> 1, to |-> t] : t \in {2, 3}}
Init1(path) == [Call("InitRepository") EXCEPT !.path = path]
Inits == {Init1(<<"in", "new">>), Init1(<<"root", "out", "new">>), Init1(<<"root", "file", "x">>),
          [Init1(<<"other">>) EXCEPT !.md = NoMd], [Init1(Repo) EXCEPT !.incomplete = TRUE]}
SomeRequests ==
  Commits \cup Restores \cup Reads \cup Inits
  \cup {Elsewhere(<<"in">>), Elsewhere(<<"root", "out">>), Call("Probe")}
=============================================================================
