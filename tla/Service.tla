------------------------------ MODULE Service ------------------------------
(***************************************************************************)
(* The daemon's repository calls (fvs2dService, cmd/fvs2d/manager.go):     *)
(* from the start of the control server, over admission and the handler    *)
(* with its streams, to the answer.  One client's call at a time is        *)
(* followed step by step; another client commits meanwhile, and the daemon *)
(* may crash and start again.                                              *)
(*                                                                         *)
(* The repository is the fvs2 library's, external: it keeps a list of      *)
(* immutable states, its calls take effect at once or fail.                *)
(***************************************************************************)
EXTENDS Control, BlockReads, FiniteSets

CONSTANTS Configs,    \* [addr, insecure, token, roots, newestFirst]
          Requests,   \* what a client may send
          Contents,   \* directory contents: [files, by name; blockSize]
          RepoAt,     \* where the repository is
          MaxStates   \* bound: states in the repository

ASSUME ServiceAssumption == MaxStates \in Nat

\* Paths are sequences of names; a commit carries its request's message, told
\* apart from those of others; page_size and chunk_size are integers.
ASSUME RequestsAssumption ==
  \A req \in Requests :
    /\ req.path \in Seq(STRING) /\ req.dest \in Seq(STRING)
    /\ req.rpc \in {"Commit", "CommitStream"} => req.msg = "asked"
    /\ req.rpc = "ListCommits" => req.size \in Int
    /\ req.rpc = "GetFile" => req.chunk \in Int

\* A directory has finitely many files.
ASSUME ContentsAssumption == \A c \in Contents : IsFiniteSet(DOMAIN c.files)

VARIABLES config,   \* the command line
          boot,     \* how far startManagerServer is
          socket,   \* the file of the Unix socket
          states,   \* the committed states, oldest first: [content, msg]
          head,     \* the state HEAD names, 0 before the first
          work,     \* content of the working directory
          call,     \* the call in progress, or the last one
          listing   \* the client's run through the pages of ListCommits

disk == <<states, head, work>>
vars == <<config, boot, socket, disk, call, listing>>

NoCall == [pc |-> "idle"]
NoListing == [want |-> {}, seen |-> {}, token |-> 0, open |-> FALSE]
Left(l) == IF l.open THEN l ELSE NoListing

\* Every variable holds a value of its kind; HEAD names a state, and the page
\* token that ListCommits hands out a place in the list of states.
TypeOK ==
  /\ config \in Configs
  /\ boot \in {"off", "remove", "listen", "chmod", "serving", "refused"}
  /\ socket \in {"none", "open", "private", "stale"}
  /\ states \in Seq([content : Contents, msg : {"asked", "other"}])
  /\ Len(states) <= MaxStates
  /\ head \in 0..Len(states)
  /\ work \in Contents
  /\ call.pc \in {"idle", "arrived", "ready", "working", "reading", "reply", "done"}
  /\ listing.seen \subseteq 1..Len(states)
  /\ listing.token \in 0..Len(states)

Init ==
  /\ config \in Configs
  /\ boot = "off"
  /\ socket \in {"none", "stale"}
  /\ states = <<>> /\ head = 0
  /\ work \in Contents
  /\ call = NoCall
  /\ listing = NoListing

-----------------------------------------------------------------------------
(* startManagerServer.                                                     *)

IsUnix == Network(config.addr) = "unix"

Start ==
  /\ boot = "off"
  /\ boot' = IF ~MayListen(config) THEN "refused"
             ELSE IF IsUnix THEN "remove" ELSE "listen"
  /\ UNCHANGED <<config, socket, disk, call, listing>>

\* Mutant: a socket file is left where it is.
RemoveSocket_Skip ==
  /\ boot = "remove"
  /\ boot' = "listen" /\ socket' = socket
  /\ UNCHANGED <<config, disk, call, listing>>
\* os.Remove of the address; a missing file is fine.
RemoveSocket ==
  /\ boot = "remove"
  /\ \/ boot' = "listen" /\ socket' = "none"
     \/ boot' = "off" /\ socket # "none" /\ socket' = socket
  /\ UNCHANGED <<config, disk, call, listing>>

\* net.Listen; a socket file in the way is an error, as is an address in use.
Listen ==
  /\ boot = "listen"
  /\ \/ ~IsUnix /\ boot' = "serving" /\ socket' = socket
     \/ IsUnix /\ socket = "none" /\ boot' = "chmod" /\ socket' = "open"
     \/ boot' = "off" /\ socket' = socket
  /\ UNCHANGED <<config, disk, call, listing>>

\* os.Chmod of the socket; closing the listener takes the file away.
Chmod ==
  /\ boot = "chmod"
  /\ \/ boot' = "serving" /\ socket' = "private"
     \/ boot' = "off" /\ socket' = "none"
  /\ UNCHANGED <<config, disk, call, listing>>

\* The daemon dies: its socket file stays, the call is never answered.
Crash ==
  /\ boot = "serving"
  /\ boot' = "off"
  /\ socket' = IF IsUnix THEN "stale" ELSE socket
  /\ call' = NoCall
  /\ listing' = Left(listing)
  /\ UNCHANGED <<config, disk>>

-----------------------------------------------------------------------------
(* A call arrives, passes the token interceptor, then the handler's checks *)
(* of its arguments and paths.                                             *)

Fresh(req) ==
  [req |-> req, pc |-> "arrived", code |-> "none", loc |-> <<>>, dest |-> <<>>,
   sent |-> <<>>, gone |-> FALSE, text |-> <<>>, buf |-> <<>>, n |-> 0,
   off |-> 0, wrote |-> {}, reply |-> <<>>]

Receive(req) ==
  /\ boot = "serving" /\ call.pc = "idle"
  /\ req.rpc # "ListCommits" /\ ~listing.open
  /\ call' = Fresh(req)
  /\ UNCHANGED <<config, boot, socket, disk, listing>>

Done(c) == [c EXCEPT !.pc = "done", !.code = "OK"]
Finish(code) == call' = [call EXCEPT !.pc = "done", !.code = code]
FinishWith(reply) == call' = [Done(call) EXCEPT !.reply = reply]

\* The code of a call that is turned away, or "OK".
Admission(c, req) ==
  LET loc  == Guard(c.roots, req.path)
      dest == Guard(c.roots, req.dest)
  IN IF AsksToken(c) /\ ~TokenOk(req.md, c.token) THEN "Unauthenticated"
     ELSE IF req.rpc = "Probe" THEN "OK"
     ELSE IF req.incomplete THEN "InvalidArgument"
     ELSE IF loc.is # "found" THEN MapError(loc.is)
     ELSE IF req.dest # <<>> /\ dest.is # "found" THEN MapError(dest.is)
     ELSE "OK"

Admit ==
  /\ call.pc = "arrived"
  /\ LET code == Admission(config, call.req)
     IN IF code # "OK" THEN Finish(code)
        ELSE call' = [call EXCEPT !.pc = "ready",
               !.loc = Guard(config.roots, call.req.path).path,
               !.dest = IF call.req.dest = <<>> THEN <<>>
                        ELSE Guard(config.roots, call.req.dest).path]
  /\ UNCHANGED <<config, boot, socket, disk, listing>>

Ready(rpc) == call.pc = "ready" /\ call.req.rpc = rpc
LeaveDisk == UNCHANGED <<config, boot, socket, disk, listing>>

\* The library refuses: the client's context is over, the lock is held, there
\* is no such state; no repository, a broken file.
Writing == {"Commit", "CommitStream", "Restore", "RestoreStream"}
Listing == {"InitRepository", "ListCommits"}
Refusals(rpc) ==
  (IF rpc \in Writing THEN {"canceled", "deadline", "lockTimeout"} ELSE {})
  \cup (IF rpc \notin Listing THEN {"stateNotFound"} ELSE {})
  \cup {"other"}
LibraryFails ==
  /\ call.pc \in {"ready", "working"} /\ call.req.rpc # "Probe"
  /\ \E err \in Refusals(call.req.rpc) : Finish(MapError(err))
  /\ LeaveDisk

Probe == Ready("Probe") /\ FinishWith([workDir |-> config.roots]) /\ LeaveDisk

\* fvsrepo.Init, at any path.
InitRepository ==
  /\ Ready("InitRepository")
  /\ call' = [Done(call) EXCEPT !.wrote = {call.loc}]
  /\ LeaveDisk

AtRepo == call.loc = RepoAt

-----------------------------------------------------------------------------
(* Commit and Restore, plain and with a stream of progress.                *)

\* fvsrepo.CommitContext (external): nothing new is no new state, unless
\* the request allows an empty one.
IsNew(allowEmpty) == ~allowEmpty /\ head # 0 => states[head].content # work

\* Mutant: the message is always the one of the request.
CommitResponse_Asked(id, created, asked, described) == [id |-> id, created |-> created, msg |-> asked, described |-> described]
\* commitResponse; `described' is whether DescribeState succeeds.
CommitResponse(id, created, asked, described) ==
  [id |-> id, created |-> created, described |-> described,
   msg |-> IF ~created /\ described THEN states[id].msg ELSE asked]

\* The library's part of Commit(Stream): what it does and what it answers.
CommitLibrary(next) ==
  LET req == call.req
      created == IsNew(req.allowEmpty)
      id == IF created THEN Len(states) + 1 ELSE head
  IN /\ created => Len(states) < MaxStates
     /\ states' = IF created THEN Append(states, [content |-> work, msg |-> req.msg])
                  ELSE states
     /\ head' = id
     /\ \E described \in BOOLEAN :
          call' = [next EXCEPT
                     !.wrote = {call.loc},
                     !.reply = CommitResponse(id, created, req.msg, described)]
     /\ UNCHANGED <<config, boot, socket, work, listing>>

\* Without a destination the library restores into the repository.
RestoreDest == IF call.dest = <<>> THEN call.loc ELSE call.dest
\* ... and of Restore(Stream): to the working directory or elsewhere; reset
\* moves HEAD.
RestoreLibrary(next) ==
  LET id == call.req.state
  IN /\ id \in DOMAIN states
     /\ work' = IF RestoreDest = RepoAt THEN states[id].content ELSE work
     /\ head' = IF call.req.reset THEN id ELSE head
     /\ call' = [next EXCEPT !.wrote = {RestoreDest}, !.reply = [id |-> id, dest |-> RestoreDest]]
     /\ UNCHANGED <<config, boot, socket, states, listing>>

Commit  == Ready("Commit") /\ AtRepo /\ CommitLibrary(Done(call))
Restore == Ready("Restore") /\ AtRepo /\ RestoreLibrary(Done(call))

IsStream(rpc) == rpc \in {"CommitStream", "RestoreStream"}

\* stream.Send of a message: it arrives, or the client is gone for good.
Send(c, msg) ==
  (IF c.gone THEN {} ELSE {[c EXCEPT !.sent = Append(@, msg)]})
  \cup {[c EXCEPT !.gone = TRUE]}
Progress(n, line) == [done |-> FALSE, current |-> n, line |-> line]

\* The library writes a line for each file of what it commits or restores:
\* here the number of the line and the newline, 0.
Lines(req) ==
  LET content == IF req.rpc = "CommitStream" THEN work
                 ELSE IF req.state \in DOMAIN states THEN states[req.state].content
                 ELSE [files |-> <<>>]
  IN [i \in 1..2 * Cardinality(DOMAIN content.files) |->
        IF i % 2 = 0 THEN 0 ELSE (i + 1) \div 2]

StreamStart ==
  /\ call.pc = "ready" /\ IsStream(call.req.rpc) /\ AtRepo
  /\ \E c \in Send(call, Progress(0, <<>>)) :
       call' = IF c.gone THEN [c EXCEPT !.pc = "done", !.code = "Unavailable"]
               ELSE [c EXCEPT !.pc = "working", !.text = Lines(c.req)]
  /\ LeaveDisk

\* Mutant: what follows a line in the same Write is dropped.
LineWriter_Drop(buf, p) ==
  LET s == buf \o p
      ends == {i \in DOMAIN s : s[i] = 0}
  IN IF ends = {} THEN [buf |-> s, lines |-> <<>>]
     ELSE [buf |-> <<>>, lines |-> <<SubSeq(s, 1, Seqs!Min(ends) - 1)>>]
\* lineWriter.Write: the complete lines, and what is left over.
WritePiece(w, t) == IF t = 0 THEN [buf |-> <<>>, lines |-> Append(w.lines, w.buf)]
                    ELSE [w EXCEPT !.buf = Append(@, t)]
LineWriter(buf, p) == Seqs!FoldLeft(WritePiece, [buf |-> buf, lines |-> <<>>], p)

\* A Write of the next k pieces of output: a Progress for each line, until a
\* Send fails; then those that follow fail too, and nothing else changes.
\* What it leaves of the call when the first m lines are sent.
WrittenLines(k) == LineWriter(call.buf, SubSeq(call.text, 1, k))
Written(k, m) ==
  LET w == WrittenLines(k)
  IN [call EXCEPT !.buf = w.buf,
                  !.text = SubSeq(@, k + 1, Len(@)),
                  !.n = @ + Len(w.lines),
                  !.sent = @ \o [i \in 1..m |-> Progress(call.n + i, w.lines[i])],
                  !.gone = @ \/ m < Len(w.lines)]

Output ==
  /\ call.pc = "working"
  /\ \E k \in 1..Len(call.text) :
       \E m \in IF call.gone THEN {0} ELSE 0..Len(WrittenLines(k).lines) :
         call' = Written(k, m)
  /\ LeaveDisk

StreamResult ==
  /\ call.pc = "working" /\ call.text = <<>>
  /\ LET next == [call EXCEPT !.pc = "reply"]
     IN IF call.req.rpc = "CommitStream" THEN CommitLibrary(next)
        ELSE RestoreLibrary(next)

\* Mutant: the last message is sent again until the client has it.
StreamDone_Retry ==
  /\ call.pc = "reply"
  /\ \E c \in Send(call, [done |-> TRUE, current |-> 0, line |-> <<>>]) :
       call' = IF c.gone THEN c ELSE Done(c)
  /\ LeaveDisk
\* The last message; a failing Send is the call's error.
StreamDone ==
  /\ call.pc = "reply"
  /\ \E c \in Send(call, [done |-> TRUE, current |-> 0, line |-> <<>>]) :
       call' = [c EXCEPT !.pc = "done",
                         !.code = IF c.gone THEN "Unavailable" ELSE "OK"]
  /\ LeaveDisk

-----------------------------------------------------------------------------
(* Reading calls.                                                          *)

\* fvsrepo.States: the library's order is one or the other.
StateList == LET n == Len(states)
             IN [i \in 1..n |-> IF config.newestFirst THEN n + 1 - i ELSE i]

\* The client asks for the first page, or with the last page's token.
ListPage(req) ==
  /\ boot = "serving" /\ call.pc = "idle"
  /\ req.rpc = "ListCommits"
  /\ call' = Fresh(req)
  /\ listing' = IF listing.open THEN listing
                ELSE [NoListing EXCEPT !.want = DOMAIN states, !.open = TRUE]
  /\ UNCHANGED <<config, boot, socket, disk>>

\* Mutant: the token names the entry after the next.
NextToken_Skip(start, size, len) ==
  IF size > 0 /\ start + size < len THEN start + size + 1 ELSE 0
\* Mutant: there is always a next page.
NextToken_Always(start, size, len) == IF size > 0 THEN start + size ELSE 0
\* next_page_token; 0 stands for none.
NextToken(start, size, len) ==
  IF size > 0 /\ start + size < len THEN start + size ELSE 0

ListCommits ==
  /\ Ready("ListCommits") /\ AtRepo
  /\ LET start == listing.token
         size  == call.req.size
         next  == NextToken(start, size, Len(states))
         end   == IF size > 0 /\ start + size < Len(states) THEN start + size
                  ELSE Len(states)
         page  == {StateList[i] : i \in start + 1..end}
     IN IF call.req.badToken \/ start > Len(states)
          THEN Finish("InvalidArgument") /\ UNCHANGED listing
          ELSE /\ FinishWith([page |-> page])
               /\ listing' = [listing EXCEPT !.seen = @ \cup page, !.token = next,
                                             !.open = (next # 0)]
  /\ UNCHANGED <<config, boot, socket, disk>>

GetCommit ==
  /\ Ready("GetCommit") /\ AtRepo /\ call.req.state \in DOMAIN states
  /\ FinishWith([id |-> call.req.state, msg |-> states[call.req.state].msg])
  /\ LeaveDisk

\* The commit that an empty selector names is HEAD's.
ListFiles ==
  /\ Ready("ListFiles") /\ AtRepo
  /\ IF head = 0 THEN Finish("NotFound")
     ELSE FinishWith([files |-> DOMAIN states[head].content.files])
  /\ LeaveDisk

\* buildTree's node of a file: the size of a link is that of its target.
Node(content, name) ==
  LET f == content.files[name]
  IN [size |-> IF f.link # <<>> THEN Len(f.link) ELSE f.size,
      blocks |-> f.blocks, sizes |-> f.sizes, blockSize |-> content.blockSize]

\* The library lists the blocks of whole files, and none of a link.
ASSUME FilesAssumption ==
  \A c \in Contents : \A name \in DOMAIN c.files :
    Node(c, name).blocks = <<>> \/ IsWhole(Node(c, name), c.blockSize)

\* GetFile: the commit resolved, its tree built, the file found.
DefaultChunk == 256 * 1024
GetFile ==
  /\ Ready("GetFile") /\ AtRepo
  /\ IF head = 0 THEN Finish("FailedPrecondition")
     ELSE LET content == states[head].content
          IN IF call.req.file \notin DOMAIN content.files THEN Finish("NotFound")
             ELSE call' = [call EXCEPT !.pc = "reading",
                                       !.reply = Node(content, call.req.file)]
  /\ LeaveDisk

\* One round of the loop: context, readAt, Send.  A link has a size and no
\* blocks, and gives no data.
GetChunk(stores) ==
  /\ call.pc = "reading"
  /\ LET node == call.reply
         size == IF call.req.chunk <= 0 THEN DefaultChunk ELSE call.req.chunk
         n    == IF size > node.size - call.off THEN node.size - call.off ELSE size
         got  == ReadAt(node, call.off, n, node.blockSize, stores)
         sent == Send(call, [off |-> call.off, data |-> got.data])
     IN IF call.off >= node.size THEN Finish("OK")
        ELSE \/ Finish("Canceled")
             \/ got.err /\ Finish("FailedPrecondition")
             \/ ~got.err /\ got.data = <<>> /\ Finish("OK")
             \/ /\ ~got.err /\ got.data # <<>>
                /\ \E c \in sent :
                     call' = IF c.gone
                               THEN [c EXCEPT !.pc = "done", !.code = "Unavailable"]
                               ELSE [c EXCEPT !.off = @ + Len(got.data)]
  /\ LeaveDisk

\* Mutant: the targets of links are not compared.
SameFileEntry_NoLink(x, y) ==
  x.size = y.size /\ x.mode = y.mode /\ x.blocks = y.blocks
SameFileEntry(x, y) ==
  x.size = y.size /\ x.mode = y.mode /\ x.link = y.link /\ x.blocks = y.blocks

\* An entry has a size; and the blocks of a file, each named by the hash of its
\* bytes, say how long each of them is.
ASSUME EntriesAssumption ==
  \A c \in Contents : \A f \in DOMAIN c.files :
    LET e == c.files[f]
    IN /\ e = [size |-> e.size, blocks |-> e.blocks, sizes |-> e.sizes,
               mode |-> e.mode, link |-> e.link]
       /\ e.size \in Int
       /\ \A d \in Contents :
            f \in DOMAIN d.files /\ d.files[f].blocks = e.blocks
              => d.files[f].sizes = e.sizes

\* Diff's loops over the two maps.
FileChanges(from, to) ==
  {[path |-> p, kind |-> "modified", delta |-> to[p].size - from[p].size] :
     p \in {q \in DOMAIN from \cap DOMAIN to : ~SameFileEntry(from[q], to[q])}}
  \cup {[path |-> p, kind |-> "added", delta |-> to[p].size] :
          p \in DOMAIN to \ DOMAIN from}
  \cup {[path |-> p, kind |-> "removed", delta |-> -from[p].size] :
          p \in DOMAIN from \ DOMAIN to}
Diff ==
  /\ Ready("Diff") /\ AtRepo
  /\ {call.req.from, call.req.to} \subseteq DOMAIN states
  /\ FinishWith([changes |-> FileChanges(states[call.req.from].content.files,
                                         states[call.req.to].content.files)])
  /\ LeaveDisk

-----------------------------------------------------------------------------
\* The client has its answer.
Return ==
  /\ call.pc = "done"
  /\ call' = NoCall
  /\ listing' = Left(listing)
  /\ UNCHANGED <<config, boot, socket, disk>>

\* Someone edits the working directory; another client commits it.
Edit ==
  /\ work' \in Contents
  /\ UNCHANGED <<config, boot, socket, states, head, call, listing>>
OtherCommit ==
  /\ IsNew(FALSE) /\ Len(states) < MaxStates
  /\ states' = Append(states, [content |-> work, msg |-> "other"])
  /\ head' = Len(states) + 1
  /\ UNCHANGED <<config, boot, socket, work, call, listing>>

\* The block store a read may find: everything, or all but one block.
BlocksOf(c) ==
  UNION {{c.files[f].blocks[i] : i \in DOMAIN c.files[f].blocks} : f \in DOMAIN c.files}
Stores == LET all == UNION {BlocksOf(c) : c \in Contents}
          IN {<<all>>} \cup {<<all \ {x}>> : x \in all}

Handle ==
  \/ LibraryFails \/ Probe \/ InitRepository \/ Commit \/ Restore
  \/ StreamStart \/ Output \/ StreamResult \/ StreamDone
  \/ ListCommits \/ GetCommit \/ ListFiles \/ GetFile \/ Diff
  \/ \E stores \in Stores : GetChunk(stores)

Next ==
  \/ Start \/ RemoveSocket \/ Listen \/ Chmod \/ Crash
  \/ \E req \in Requests : Receive(req) \/ ListPage(req)
  \/ Admit \/ Handle \/ Return
  \/ Edit \/ OtherCommit

Spec == Init /\ [][Next]_vars /\ WF_vars(Handle)

-----------------------------------------------------------------------------
(* Properties.                                                             *)

Finished(rpcs) == call.pc = "done" /\ call.req.rpc \in rpcs
Admitted == call.pc \notin {"idle", "arrived"} /\ call.code # "Unauthenticated"

\* No handler runs for a call over TCP from beyond the loopback interface,
\* or to a server with a token, without that token: startManagerServer's
\* refusals and the interceptors together leave no way around.
CallsAreAllowed ==
  Admitted =>
    \/ IsUnix
    \/ TokenOk(call.req.md, config.token)
    \/ IsLoopback(config.addr) /\ config.token = ""

\* With --root, what a handler has the library write to is inside that
\* directory once links are followed: repositories and destinations.
WritesStayInRoot ==
  call.pc # "idle" =>
    \A p \in call.wrote : Inside(config.roots, Canonical(p).path)

\* A socket file left by a crash never keeps the daemon from starting, and
\* it serves a Unix socket only once its owner alone may use it.
SocketIsOwn ==
  IsUnix => /\ boot = "listen" => socket = "none"
            /\ boot = "serving" => socket = "private"

\* What Commit and CommitStream answer is true of the repository although
\* others commit to it: the state named has the message given, also where
\* nothing was new and an earlier state is named -- unless that state could
\* not be read back.
CommitTellsTruth ==
  /\ Finished({"Commit", "CommitStream"}) /\ call.code = "OK"
  /\ call.reply.created \/ call.reply.described
  => states[call.reply.id].msg = call.reply.msg

\* A stream's client sees whole lines, each with its number, however the
\* library's writes cut them; and the message that ends the stream last,
\* exactly if the call succeeds.
StreamIsFaithful ==
  (call.pc # "idle" /\ IsStream(call.req.rpc)) =>
    /\ \A i \in DOMAIN call.sent :
         call.sent[i].current > 0 => call.sent[i].line = <<call.sent[i].current>>
    /\ \A i, j \in DOMAIN call.sent :
         i < j => /\ call.sent[i].current <= call.sent[j].current
                       \/ call.sent[j].done
                  /\ ~call.sent[i].done
    /\ call.pc = "done" =>
         (call.code = "OK" <=> \E i \in DOMAIN call.sent : call.sent[i].done)

\* GetFile sends the file's bytes in order without gap or overlap; all of
\* them if it answers OK, whatever the sizes of chunks and blocks.
GetFileIsWhole ==
  (call.pc \in {"reading", "done"} /\ call.req.rpc = "GetFile" /\ call.sent # <<>>) =>
    LET sent == call.sent
        got  == SeqOps!FlattenSeq([i \in DOMAIN sent |-> sent[i].data])
        all  == Content(call.reply)
    IN /\ Seqs!IsPrefix(got, all)
       /\ \A i \in DOMAIN sent :
            sent[i].off = Len(SeqOps!FlattenSeq([j \in 1..i - 1 |-> sent[j].data]))
       /\ call.code = "OK" => got = all

\* A client that follows the page tokens to the end has seen every state
\* there was when it began, in either order of the list, whatever was
\* committed between two pages.
NoCommitSkipped == ~listing.open => listing.want \subseteq listing.seen

\* Diff names every path that differs, once, and its size_deltas add up to the
\* difference in size of the two states.
Total(c) == Seqs!FoldSet(LAMBDA f, sum : sum + c[f].size, 0, DOMAIN c)
DiffAddsUp ==
  Finished({"Diff"}) /\ call.code = "OK" =>
    LET from == states[call.req.from].content.files
        to == states[call.req.to].content.files
        changes == call.reply.changes
    IN /\ {c.path : c \in changes} =
            {f \in DOMAIN from \cup DOMAIN to :
               f \in DOMAIN from \cap DOMAIN to => from[f] # to[f]}
       /\ Cardinality({c.path : c \in changes}) = Cardinality(changes)
       /\ Seqs!FoldSet(LAMBDA c, sum : sum + c.delta, 0, changes) = Total(to) - Total(from)

\* Every call that is admitted is answered, unless the daemon dies: the loops
\* over chunks and lines end, and a client that went away holds nothing up.
CallsEnd == (call.pc = "ready") ~> (call.pc \in {"done", "idle"})
=============================================================================
