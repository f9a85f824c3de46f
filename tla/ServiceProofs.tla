---------------------------- MODULE ServiceProofs ----------------------------
(***************************************************************************)
(* Proofs about Service: what holds of the control server and its calls    *)
(* for every command line, every set of requests and any number of states. *)
(*                                                                         *)
(* What depends on folds over data is proved with FoldProofs: canonical    *)
(* paths, the lines of the progress writer and the sum of a diff; the      *)
(* bytes of a file with BlockReadsProofs.                                  *)
(***************************************************************************)
EXTENDS Service, BlockReadsProofs

Pcs == {"idle", "arrived", "ready", "working", "reading", "reply", "done"}
StateSet == [content : Contents, msg : {"asked", "other"}]

\* The fields a call has from its arrival on.
IsCall(c) ==
  c = [req |-> c.req, pc |-> c.pc, code |-> c.code, loc |-> c.loc,
       dest |-> c.dest, sent |-> c.sent, gone |-> c.gone, text |-> c.text,
       buf |-> c.buf, n |-> c.n, off |-> c.off, wrote |-> c.wrote,
       reply |-> c.reply]

CallOK ==
  /\ call.pc \in Pcs
  /\ call.pc = "idle" => call = NoCall
  /\ call.pc # "idle" => IsCall(call) /\ call.req \in Requests
  /\ call.pc \in {"working", "reply"} => IsStream(call.req.rpc)
  /\ call.pc = "reading" => call.req.rpc = "GetFile"

\* The list of states grows at its end only.
DiskOK ==
  /\ states \in Seq(StateSet) /\ Len(states) <= MaxStates
  /\ head \in 0..Len(states)
  /\ work \in Contents

\* The daemon gets as far as listening only on an address that it may listen
\* on, and it takes the socket file away before.
BootOK ==
  /\ config \in Configs
  /\ boot \in {"off", "remove", "listen", "chmod", "serving", "refused"}
  /\ socket \in {"none", "open", "private", "stale"}
  /\ boot \notin {"off", "refused"} => MayListen(config)
  /\ boot = "remove" => IsUnix
  /\ SocketIsOwn

\* Whose calls the interceptors let through.
Allowed ==
  \/ IsUnix
  \/ TokenOk(call.req.md, config.token)
  \/ IsLoopback(config.addr) /\ config.token = ""
AdmissionOK ==
  /\ call.pc # "idle" => MayListen(config)
  /\ call.pc \notin {"idle", "arrived"} =>
       Allowed \/ (call.pc = "done" /\ call.code = "Unauthenticated")

\* What a Commit is to answer, from the library's return on.
TrueReply ==
  /\ call.reply.id \in 1..Len(states)
  /\ call.reply.created \/ call.reply.described =>
       states[call.reply.id].msg = call.reply.msg
Answering ==
  /\ call.pc \in {"reply", "done"}
  /\ call.pc = "done" => call.code = "OK"
  /\ call.req.rpc \in {"Commit", "CommitStream"}
CommitOK == Answering => TrueReply

\* The pages so far hold everything that comes before the token.  A commit
\* between two pages moves old states on in a list that starts with the new,
\* never back.
Passed(id) == IF config.newestFirst THEN id > Len(states) - listing.token
              ELSE id <= listing.token
PagesOK ==
  /\ listing = [want |-> listing.want, seen |-> listing.seen,
                token |-> listing.token, open |-> listing.open]
  /\ listing.open \in BOOLEAN
  /\ listing.want \subseteq 1..Len(states)
  /\ listing.seen \subseteq 1..Len(states)
  /\ listing.token \in 0..Len(states)
  /\ \A id \in listing.want :
       (listing.open => Passed(id)) => id \in listing.seen

\* The inductive invariant, one part for each piece of the state.
IInv == BootOK /\ DiskOK /\ CallOK /\ AdmissionOK /\ CommitOK /\ PagesOK

-----------------------------------------------------------------------------
(* The parts, each under the steps that could disturb it.                  *)

\* No error has the code of a success.
LEMMA ErrorCodes ==
  ASSUME NEW err
  PROVE  MapError(err) # "OK"
BY DEF MapError

LEMMA InitIInv == Init => IInv
<1> SUFFICES ASSUME Init PROVE IInv
  OBVIOUS
<1>1. BootOK
  BY DEF Init, BootOK, SocketIsOwn
<1>2. DiskOK
  BY ServiceAssumption DEF Init, DiskOK
<1>3. CallOK /\ AdmissionOK /\ CommitOK
  BY DEF Init, CallOK, AdmissionOK, CommitOK, Answering, NoCall, Pcs
<1>4. PagesOK
  BY DEF Init, PagesOK, NoListing
<1> QED
  BY <1>1, <1>2, <1>3, <1>4 DEF IInv

\* startManagerServer, step by step.
LEMMA BootStep ==
  ASSUME BootOK, Next
  PROVE  BootOK' /\ config' = config
<1>1. config' = config
  BY DEF Next, Start, RemoveSocket, Listen, Chmod, Crash, Receive, ListPage,
         Admit, Handle, LibraryFails, Probe, InitRepository, Commit, Restore,
         StreamStart, Output, StreamResult, StreamDone, ListCommits, GetCommit,
         ListFiles, GetFile, Diff, GetChunk, Return, Edit, OtherCommit,
         CommitLibrary, RestoreLibrary, LeaveDisk
<1>2. (IsUnix' <=> IsUnix) /\ (MayListen(config)' <=> MayListen(config))
  BY <1>1 DEF IsUnix
<1>3. CASE Start
  BY <1>1, <1>2, <1>3 DEF Start, BootOK, SocketIsOwn
<1>4. CASE RemoveSocket
  BY <1>1, <1>2, <1>4 DEF RemoveSocket, BootOK, SocketIsOwn
<1>5. CASE Listen
  BY <1>1, <1>2, <1>5 DEF Listen, BootOK, SocketIsOwn
<1>6. CASE Chmod
  BY <1>1, <1>2, <1>6 DEF Chmod, BootOK, SocketIsOwn
<1>7. CASE Crash
  BY <1>1, <1>2, <1>7 DEF Crash, BootOK, SocketIsOwn
<1>8. CASE UNCHANGED <<boot, socket>>
  BY <1>1, <1>2, <1>8 DEF BootOK, SocketIsOwn
<1>9. \/ Start \/ RemoveSocket \/ Listen \/ Chmod \/ Crash
      \/ UNCHANGED <<boot, socket>>
  BY DEF Next, Receive, ListPage,
         Admit, Handle, LibraryFails, Probe, InitRepository, Commit, Restore,
         StreamStart, Output, StreamResult, StreamDone, ListCommits, GetCommit,
         ListFiles, GetFile, Diff, GetChunk, Return, Edit, OtherCommit,
         CommitLibrary, RestoreLibrary, LeaveDisk
<1> QED
  BY <1>1, <1>3, <1>4, <1>5, <1>6, <1>7, <1>8, <1>9

\* The list of states only grows.
Grown ==
  /\ Len(states') \in Nat /\ Len(states') >= Len(states)
  /\ \A i \in 1..Len(states) : states'[i] = states[i]

LEMMA AppendState ==
  ASSUME DiskOK, NEW s \in StateSet, Len(states) < MaxStates,
         states' = Append(states, s)
  PROVE  /\ states' \in Seq(StateSet) /\ Len(states') = Len(states) + 1
         /\ Len(states') <= MaxStates
         /\ Grown /\ states'[Len(states) + 1] = s
BY ServiceAssumption DEF DiskOK, Grown

\* The library's commit: a new state at the end of the list, and HEAD on it;
\* or the state that HEAD names already.
LEMMA CommitEffect ==
  ASSUME DiskOK, call.req \in Requests,
         call.req.rpc \in {"Commit", "CommitStream"},
         NEW next, IsCall(next), next.req = call.req, CommitLibrary(next)
  PROVE  /\ DiskOK' /\ IsCall(call') /\ TrueReply'
         /\ call'.req = call.req /\ call'.pc = next.pc /\ call'.code = next.code
         /\ Grown
<1> DEFINE created == IsNew(call.req.allowEmpty)
           id == IF created THEN Len(states) + 1 ELSE head
<1>1. /\ states \in Seq(StateSet) /\ head \in 0..Len(states) /\ work \in Contents
      /\ Len(states) \in Nat /\ Len(states) <= MaxStates /\ work' = work
  BY DEF DiskOK, CommitLibrary
<1>2. /\ DiskOK' /\ Grown /\ id \in 1..Len(states')
      /\ created => states'[id].msg = call.req.msg
      /\ ~created => states'[id].msg = states[id].msg
  <2>1. CASE created
    <3>1. PICK s : s = [content |-> work, msg |-> call.req.msg]
      OBVIOUS
    <3>2. s \in StateSet /\ s.msg = call.req.msg
      BY <1>1, <3>1, RequestsAssumption DEF StateSet
    <3>3. states' = Append(states, s) /\ Len(states) < MaxStates /\ head' = id
      BY <2>1, <3>1 DEF CommitLibrary
    <3> QED
      BY <1>1, <2>1, <3>2, <3>3, AppendState DEF DiskOK
  <2>2. CASE ~created
    <3>1. states' = states /\ head' = head
      BY <2>2 DEF CommitLibrary
    <3>2. head # 0
      BY <2>2 DEF IsNew
    <3> QED
      BY <1>1, <2>2, <3>1, <3>2 DEF DiskOK, Grown
  <2> QED
    BY <2>1, <2>2
<1>3. PICK described \in BOOLEAN :
        call' = [next EXCEPT
                   !.wrote = {call.loc},
                   !.reply = CommitResponse(id, created, call.req.msg, described)]
  BY DEF CommitLibrary
<1>4. /\ IsCall(call') /\ call'.req = call.req
      /\ call'.pc = next.pc /\ call'.code = next.code
      /\ call'.reply = CommitResponse(id, created, call.req.msg, described)
  <2>1. PICK wrote, reply :
          /\ wrote = {call.loc}
          /\ reply = CommitResponse(id, created, call.req.msg, described)
          /\ call' = [next EXCEPT !.wrote = wrote, !.reply = reply]
    BY <1>3
  <2> QED
    BY <2>1 DEF IsCall
<1>5. TrueReply'
  BY <1>2, <1>4 DEF TrueReply, CommitResponse
<1> QED
  BY <1>2, <1>4, <1>5

\* The library's restore: HEAD and the working directory, of a state there is.
LEMMA RestoreEffect ==
  ASSUME DiskOK, NEW next, IsCall(next), next.req = call.req,
         RestoreLibrary(next)
  PROVE  /\ DiskOK' /\ IsCall(call')
         /\ call'.req = call.req /\ call'.pc = next.pc /\ call'.code = next.code
         /\ Grown
<1>1. /\ states \in Seq(StateSet) /\ head \in 0..Len(states) /\ work \in Contents
      /\ Len(states) \in Nat /\ states' = states
      /\ call.req.state \in 1..Len(states)
      /\ work' \in {work, states[call.req.state].content}
      /\ head' \in {head, call.req.state}
  BY DEF DiskOK, RestoreLibrary
<1>2. states[call.req.state].content \in Contents
  <2>1. states[call.req.state] \in StateSet
    BY <1>1
  <2> QED
    BY <2>1 DEF StateSet
<1>3. PICK wrote, reply : call' = [next EXCEPT !.wrote = wrote, !.reply = reply]
  BY DEF RestoreLibrary
<1>4. /\ IsCall(call') /\ call'.req = call.req
      /\ call'.pc = next.pc /\ call'.code = next.code
  BY <1>3 DEF IsCall
<1> QED
  BY <1>1, <1>2, <1>4 DEF DiskOK, Grown

\* What a step of a handler does to its call: it is served on, or done.
Serves ==
  /\ IsCall(call') /\ call'.req = call.req
  /\ call'.pc \in {"working", "reading", "reply", "done"}
  /\ call'.pc \in {"working", "reply"} => IsStream(call.req.rpc)
  /\ call'.pc = "reading" => call.req.rpc = "GetFile"
  /\ CommitOK'

\* A handler that does not commit leaves the repository as it is, and it is
\* done with something else, or with an error, or keeps its reply.
LEMMA ReadStep ==
  ASSUME CallOK, CommitOK, states' = states, IsCall(call'), call'.req = call.req,
         call'.pc \in {"working", "reading", "reply", "done"},
         call'.pc \in {"working", "reply"} => IsStream(call.req.rpc),
         call'.pc = "reading" => call.req.rpc = "GetFile",
         \/ call'.pc \in {"working", "reading"}
         \/ call'.pc = "done" /\ call'.code # "OK"
         \/ call.req.rpc \notin {"Commit", "CommitStream"}
         \/ call.pc = "reply" /\ call'.reply = call.reply
  PROVE  Serves
<1>1. Answering' => Answering /\ call'.reply = call.reply
  BY DEF Answering
<1>2. CommitOK'
  BY <1>1 DEF CommitOK, TrueReply
<1> QED
  BY <1>2 DEF Serves

\* Sending, or failing to, changes nothing else about the call.
LEMMA SendKeeps ==
  ASSUME NEW c, IsCall(c), NEW msg, NEW d \in Send(c, msg)
  PROVE  /\ IsCall(d) /\ d.req = c.req /\ d.pc = c.pc
         /\ d.code = c.code /\ d.reply = c.reply
         /\ d.loc = c.loc /\ d.dest = c.dest /\ d.wrote = c.wrote
<1>1. PICK sent, gone : d = [[c EXCEPT !.sent = sent] EXCEPT !.gone = gone]
  <2>1. \/ d = [c EXCEPT !.sent = Append(c.sent, msg)]
        \/ d = [c EXCEPT !.gone = TRUE]
    BY DEF Send
  <2>2. CASE d = [c EXCEPT !.sent = Append(c.sent, msg)]
    <3>1. PICK sent : sent = Append(c.sent, msg)
      OBVIOUS
    <3>2. d = [[c EXCEPT !.sent = sent] EXCEPT !.gone = c.gone]
      BY <2>2, <3>1 DEF IsCall
    <3> QED
      BY <3>2
  <2>3. CASE d = [c EXCEPT !.gone = TRUE]
    <3>1. d = [[c EXCEPT !.sent = c.sent] EXCEPT !.gone = TRUE]
      BY <2>3 DEF IsCall
    <3> QED
      BY <3>1
  <2> QED
    BY <2>1, <2>2, <2>3
<1> QED
  BY <1>1 DEF IsCall

\* The handlers, one after the other.
LEMMA HandleStep ==
  ASSUME DiskOK, CallOK, CommitOK, Handle
  PROVE  /\ Serves /\ DiskOK' /\ Grown
         /\ call.pc \in {"ready", "working", "reading", "reply"}
         /\ UNCHANGED <<config, boot, socket>>
<1> DEFINE Active == call.pc \in {"ready", "working", "reading", "reply"}
           Goal == /\ Serves /\ DiskOK' /\ Grown /\ Active
                   /\ UNCHANGED <<config, boot, socket>>
<1> SUFFICES Goal
  OBVIOUS
<1>1. ASSUME Active, UNCHANGED <<config, boot, socket, disk>>, Serves
      PROVE  Goal
  <2>1. states' = states /\ head' = head /\ work' = work
    BY <1>1 DEF disk
  <2> QED
    BY <1>1, <2>1 DEF DiskOK, Grown
<1>2. Active => IsCall(call) /\ call.req \in Requests
  BY DEF CallOK
<1>3. ASSUME NEW code, Finish(code), code # "OK", Active, states' = states
      PROVE  Serves
  <2>1. /\ IsCall(call') /\ call'.req = call.req
        /\ call'.pc = "done" /\ call'.code # "OK"
    BY <1>2, <1>3 DEF Finish, IsCall
  <2> QED
    BY <1>3, <2>1, ReadStep
<1>4. ASSUME NEW reply, FinishWith(reply), Active, states' = states,
             call.req.rpc \notin {"Commit", "CommitStream"}
      PROVE  Serves
  <2>1. IsCall(call') /\ call'.req = call.req /\ call'.pc = "done"
    BY <1>2, <1>4 DEF FinishWith, Done, IsCall
  <2> QED
    BY <1>4, <2>1, ReadStep
<1>5. CASE LibraryFails
  <2>1. PICK err : Finish(MapError(err))
    BY <1>5 DEF LibraryFails
  <2>2. Active /\ UNCHANGED <<config, boot, socket, disk>> /\ states' = states
    BY <1>5 DEF LibraryFails, LeaveDisk, disk
  <2> QED
    BY <1>1, <1>3, <2>1, <2>2, ErrorCodes
<1>6. CASE Probe \/ GetCommit \/ Diff
  <2>1. PICK reply : FinishWith(reply)
    BY <1>6 DEF Probe, GetCommit, Diff
  <2>2. /\ Active /\ call.req.rpc \notin {"Commit", "CommitStream"}
        /\ UNCHANGED <<config, boot, socket, disk>> /\ states' = states
    BY <1>6 DEF Probe, GetCommit, Diff, Ready, LeaveDisk, disk
  <2> QED
    BY <1>1, <1>4, <2>1, <2>2
<1>7. CASE InitRepository
  <2>1. /\ Active /\ call.req.rpc = "InitRepository"
        /\ UNCHANGED <<config, boot, socket, disk>> /\ states' = states
    BY <1>7 DEF InitRepository, Ready, LeaveDisk, disk
  <2>2. IsCall(call') /\ call'.req = call.req /\ call'.pc = "done"
    BY <1>2, <1>7, <2>1 DEF InitRepository, Done, IsCall
  <2>3. Serves
    BY <2>1, <2>2, ReadStep
  <2> QED
    BY <1>1, <2>1, <2>3
<1>8. CASE ListCommits \/ ListFiles
  <2>1. /\ Active /\ call.req.rpc \in {"ListCommits", "ListFiles"}
        /\ UNCHANGED <<config, boot, socket, disk>> /\ states' = states
    BY <1>8 DEF ListCommits, ListFiles, Ready, LeaveDisk, disk
  <2>2. \/ \E code \in {"InvalidArgument", "NotFound"} : Finish(code)
        \/ \E reply : FinishWith(reply)
    BY <1>8 DEF ListCommits, ListFiles
  <2> QED
    BY <1>1, <1>3, <1>4, <2>1, <2>2
<1>9. CASE GetFile
  <2>1. /\ Active /\ call.req.rpc = "GetFile"
        /\ UNCHANGED <<config, boot, socket, disk>> /\ states' = states
    BY <1>9 DEF GetFile, Ready, LeaveDisk, disk
  <2>2. \/ \E code \in {"FailedPrecondition", "NotFound"} : Finish(code)
        \/ \E node : call' = [call EXCEPT !.pc = "reading", !.reply = node]
    BY <1>9 DEF GetFile
  <2>3. ASSUME NEW node, call' = [call EXCEPT !.pc = "reading", !.reply = node]
        PROVE  Serves
    <3>1. IsCall(call') /\ call'.req = call.req /\ call'.pc = "reading"
      BY <1>2, <2>1, <2>3 DEF IsCall
    <3> QED
      BY <2>1, <3>1, ReadStep
  <2> QED
    BY <1>1, <1>3, <2>1, <2>2, <2>3
<1>10. ASSUME NEW stores, GetChunk(stores)
       PROVE  Goal
  <2>1. /\ Active /\ call.pc = "reading"
        /\ UNCHANGED <<config, boot, socket, disk>> /\ states' = states
    BY <1>10 DEF GetChunk, LeaveDisk, disk
  <2>2. call.req.rpc = "GetFile"
    BY <2>1 DEF CallOK
  <2>3. \/ \E code : Finish(code)
        \/ \E msg : \E c \in Send(call, msg) :
             \/ call' = [c EXCEPT !.pc = "done", !.code = "Unavailable"]
             \/ \E off : call' = [c EXCEPT !.off = off]
    BY <1>10 DEF GetChunk
  <2>4. IsCall(call') /\ call'.req = call.req /\ call'.pc \in {"reading", "done"}
    <3>1. ASSUME NEW code, Finish(code)
          PROVE  IsCall(call') /\ call'.req = call.req /\ call'.pc = "done"
      BY <1>2, <2>1, <3>1 DEF Finish, IsCall
    <3>2. ASSUME NEW msg, NEW c \in Send(call, msg)
          PROVE  IsCall(c) /\ c.req = call.req /\ c.pc = "reading"
      BY <1>2, <2>1, SendKeeps
    <3>3. ASSUME NEW c, IsCall(c), c.req = call.req, c.pc = "reading", NEW off,
                 \/ call' = [c EXCEPT !.pc = "done", !.code = "Unavailable"]
                 \/ call' = [c EXCEPT !.off = off]
          PROVE  /\ IsCall(call') /\ call'.req = call.req
                 /\ call'.pc \in {"reading", "done"}
      BY <3>3 DEF IsCall
    <3> QED
      BY <2>3, <3>1, <3>2, <3>3
  <2>5. Serves
    BY <2>1, <2>2, <2>4, ReadStep
  <2> QED
    BY <1>1, <2>1, <2>5
<1>11. CASE StreamStart
  <2>1. /\ Active /\ call.pc = "ready" /\ IsStream(call.req.rpc)
        /\ UNCHANGED <<config, boot, socket, disk>> /\ states' = states
    BY <1>11 DEF StreamStart, LeaveDisk, disk
  <2>2. PICK msg, c :
          /\ c \in Send(call, msg)
          /\ \/ call' = [c EXCEPT !.pc = "done", !.code = "Unavailable"]
             \/ \E text : call' = [c EXCEPT !.pc = "working", !.text = text]
    BY <1>11 DEF StreamStart
  <2>3. IsCall(c) /\ c.req = call.req
    BY <1>2, <2>1, <2>2, SendKeeps
  <2>4. /\ IsCall(call') /\ call'.req = call.req
        /\ \/ call'.pc = "done" /\ call'.code = "Unavailable"
           \/ call'.pc = "working"
    BY <2>2, <2>3 DEF IsCall
  <2>5. Serves
    BY <2>1, <2>4, ReadStep
  <2> QED
    BY <1>1, <2>1, <2>5
<1>12. CASE Output
  <2>1. /\ Active /\ call.pc = "working"
        /\ UNCHANGED <<config, boot, socket, disk>> /\ states' = states
    BY <1>12 DEF Output, LeaveDisk, disk
  <2>2. PICK buf, text, n, sent, gone :
          call' = [call EXCEPT !.buf = buf, !.text = text, !.n = n,
                               !.sent = sent, !.gone = gone]
    <3>1. PICK k, m : call' = Written(k, m)
      BY <1>12 DEF Output
    <3> QED
      BY <3>1, Zenon DEF Written
  <2>3. IsCall(call') /\ call'.req = call.req /\ call'.pc = "working"
    BY <1>2, <2>1, <2>2 DEF IsCall
  <2>4. Serves
    BY <2>1, <2>3, ReadStep DEF CallOK
  <2> QED
    BY <1>1, <2>1, <2>4
<1>13. CASE StreamDone
  <2>1. /\ Active /\ call.pc = "reply" /\ IsStream(call.req.rpc)
        /\ UNCHANGED <<config, boot, socket, disk>> /\ states' = states
    BY <1>13 DEF StreamDone, LeaveDisk, disk, CallOK
  <2>2. PICK msg, c, code :
          /\ c \in Send(call, msg)
          /\ call' = [c EXCEPT !.pc = "done", !.code = code]
    BY <1>13, Zenon DEF StreamDone
  <2>3. IsCall(c) /\ c.req = call.req /\ c.reply = call.reply
    BY <1>2, <2>1, <2>2, SendKeeps
  <2>4. /\ IsCall(call') /\ call'.req = call.req /\ call'.pc = "done"
        /\ call'.reply = call.reply
    BY <2>2, <2>3 DEF IsCall
  <2>5. Serves
    BY <2>1, <2>4, ReadStep
  <2> QED
    BY <1>1, <2>1, <2>5
<1>14. ASSUME NEW next, IsCall(next), next.req = call.req,
              \/ next.pc = "done"
              \/ next.pc = "reply" /\ IsStream(call.req.rpc),
              Active,
              \/ CommitLibrary(next) /\ call.req.rpc \in {"Commit", "CommitStream"}
              \/ /\ RestoreLibrary(next)
                 /\ call.req.rpc \notin {"Commit", "CommitStream"}
       PROVE  Goal
  <2>1. UNCHANGED <<config, boot, socket>>
    BY <1>14 DEF CommitLibrary, RestoreLibrary
  <2>2. /\ DiskOK' /\ IsCall(call') /\ call'.req = call.req
        /\ call'.pc = next.pc /\ Grown
        /\ call.req.rpc \in {"Commit", "CommitStream"} => TrueReply'
    BY <1>2, <1>14, CommitEffect, RestoreEffect
  <2>3. CommitOK'
    BY <2>2 DEF CommitOK, Answering
  <2> QED
    BY <1>14, <2>1, <2>2, <2>3 DEF Serves
<1>15. CASE Commit \/ Restore
  <2>1. PICK next : next = Done(call)
    OBVIOUS
  <2>2. /\ Active
        /\ \/ call.req.rpc = "Commit" /\ CommitLibrary(next)
           \/ call.req.rpc = "Restore" /\ RestoreLibrary(next)
    BY <1>15, <2>1 DEF Commit, Restore, Ready
  <2>3. IsCall(next) /\ next.req = call.req /\ next.pc = "done"
    BY <1>2, <2>1, <2>2 DEF Done, IsCall
  <2> QED
    BY <1>14, <2>2, <2>3
<1>16. CASE StreamResult
  <2>1. PICK next : next = [call EXCEPT !.pc = "reply"]
    OBVIOUS
  <2>2. /\ Active /\ IsStream(call.req.rpc)
        /\ \/ call.req.rpc = "CommitStream" /\ CommitLibrary(next)
           \/ call.req.rpc # "CommitStream" /\ RestoreLibrary(next)
    BY <1>16, <2>1 DEF StreamResult, CallOK
  <2>3. IsCall(next) /\ next.req = call.req /\ next.pc = "reply"
    BY <1>2, <2>1, <2>2 DEF IsCall
  <2> QED
    BY <1>14, <2>2, <2>3 DEF IsStream
<1> QED
  BY <1>5, <1>6, <1>7, <1>8, <1>9, <1>10, <1>11, <1>12, <1>13, <1>15, <1>16
     DEF Handle

\* The interceptor and the handler's checks.  A server that may listen and
\* asks for no token is one that only this host's users reach.
LEMMA AdmitStep ==
  ASSUME CallOK, AdmissionOK, CommitOK, config' = config, states' = states, Admit
  PROVE  CallOK' /\ AdmissionOK' /\ CommitOK'
<1>1. PICK code : code = Admission(config, call.req)
  OBVIOUS
<1>2. /\ call.pc = "arrived" /\ IsCall(call) /\ call.req \in Requests
      /\ MayListen(config)
  BY DEF Admit, CallOK, AdmissionOK
<1>3. \/ Finish(code) /\ code # "OK"
      \/ /\ code = "OK"
         /\ \E loc, dest : call' = [call EXCEPT !.pc = "ready", !.loc = loc,
                                                !.dest = dest]
  BY <1>1 DEF Admit
<1>4. /\ IsCall(call') /\ call'.req = call.req
      /\ \/ call'.pc = "done" /\ call'.code = code /\ code # "OK"
         \/ call'.pc = "ready" /\ code = "OK"
  <2>1. CASE Finish(code) /\ code # "OK"
    BY <1>2, <2>1 DEF Finish, IsCall
  <2>2. ASSUME NEW loc, NEW dest,
               call' = [call EXCEPT !.pc = "ready", !.loc = loc, !.dest = dest]
        PROVE  IsCall(call') /\ call'.req = call.req /\ call'.pc = "ready"
    BY <1>2, <2>2 DEF IsCall
  <2> QED
    BY <1>3, <2>1, <2>2
<1>5. code = "Unauthenticated" \/ Allowed
  <2>1. CASE AsksToken(config) /\ ~TokenOk(call.req.md, config.token)
    BY <1>1, <2>1 DEF Admission
  <2>2. CASE TokenOk(call.req.md, config.token)
    BY <2>2 DEF Allowed
  <2>3. CASE ~AsksToken(config)
    BY <1>2, <2>3 DEF AsksToken, MayListen, Allowed, IsUnix
  <2> QED
    BY <2>1, <2>2, <2>3
<1>6. AdmissionOK'
  <2>1. Allowed' <=> Allowed
    BY <1>4 DEF Allowed, IsUnix
  <2>2. MayListen(config)'
    BY <1>2
  <2> QED
    BY <1>2, <1>4, <1>5, <2>1, <2>2 DEF AdmissionOK
<1>7. CallOK'
  BY <1>2, <1>4 DEF CallOK, Pcs
<1>8. CommitOK'
  BY <1>4 DEF CommitOK, Answering
<1> QED
  BY <1>6, <1>7, <1>8

\* What was true of a state is true of it after others have committed.
LEMMA TruthLasts ==
  ASSUME DiskOK, CommitOK, Grown, call' = call
  PROVE  CommitOK'
<1>1. Len(states) \in Nat
  BY DEF DiskOK
<1>2. TrueReply => TrueReply'
  BY <1>1 DEF TrueReply, Grown
<1> QED
  BY <1>1, <1>2 DEF CommitOK, Answering

\* The calls and the repository, under every step.
LEMMA CallStep ==
  ASSUME IInv, Next, config' = config
  PROVE  CallOK' /\ AdmissionOK' /\ CommitOK' /\ DiskOK' /\ Grown
<1> DEFINE Goal == CallOK' /\ AdmissionOK' /\ CommitOK' /\ DiskOK' /\ Grown
<1> SUFFICES Goal
  OBVIOUS
<1>1. CallOK /\ AdmissionOK /\ CommitOK /\ DiskOK /\ BootOK
  BY DEF IInv
<1>2. ASSUME UNCHANGED disk PROVE DiskOK' /\ Grown /\ states' = states
  BY <1>1, <1>2 DEF disk, DiskOK, Grown
<1>3. ASSUME call' = call, DiskOK', Grown PROVE Goal
  <2>1. CallOK' /\ AdmissionOK'
    BY <1>1, <1>3 DEF CallOK, AdmissionOK, Allowed, IsUnix
  <2> QED
    BY <1>1, <1>3, <2>1, TruthLasts
<1>4. ASSUME call' = NoCall, UNCHANGED disk PROVE Goal
  <2>1. CallOK' /\ AdmissionOK' /\ CommitOK'
    BY <1>4 DEF CallOK, AdmissionOK, CommitOK, Answering, NoCall, Pcs
  <2> QED
    BY <1>2, <1>4, <2>1
<1>5. ASSUME NEW req \in Requests, call' = Fresh(req), UNCHANGED disk,
             boot = "serving"
      PROVE  Goal
  <2>1. MayListen(config)
    BY <1>1, <1>5 DEF BootOK
  <2>2. IsCall(call') /\ call'.req = req /\ call'.pc = "arrived"
    BY <1>5 DEF Fresh, IsCall
  <2>3. CallOK' /\ AdmissionOK' /\ CommitOK'
    BY <2>1, <2>2 DEF CallOK, AdmissionOK, CommitOK, Answering, Pcs
  <2> QED
    BY <1>2, <1>5, <2>3
<1>6. CASE Start \/ RemoveSocket \/ Listen \/ Chmod
  <2>1. call' = call /\ UNCHANGED disk
    BY <1>6 DEF Start, RemoveSocket, Listen, Chmod
  <2> QED
    BY <1>2, <1>3, <2>1
<1>7. CASE Crash \/ Return
  BY <1>4, <1>7 DEF Crash, Return
<1>8. ASSUME NEW req \in Requests, Receive(req) \/ ListPage(req) PROVE Goal
  BY <1>5, <1>8 DEF Receive, ListPage
<1>9. CASE Admit
  <2>1. UNCHANGED disk
    BY <1>9 DEF Admit
  <2> QED
    BY <1>1, <1>2, <1>9, <2>1, AdmitStep
<1>10. CASE Handle
  <2>1. /\ Serves /\ DiskOK' /\ Grown
        /\ call.pc \in {"ready", "working", "reading", "reply"}
    BY <1>1, <1>10, HandleStep
  <2>2. /\ IsCall(call') /\ call'.req = call.req /\ CommitOK'
        /\ call'.pc \in {"working", "reading", "reply", "done"}
    BY <2>1 DEF Serves
  <2>3. CallOK'
    BY <1>1, <2>1 DEF CallOK, Serves, Pcs
  <2>4. Allowed' /\ MayListen(config)
    BY <1>1, <2>1, <2>2 DEF AdmissionOK, Allowed, IsUnix
  <2>5. AdmissionOK'
    BY <2>4 DEF AdmissionOK
  <2> QED
    BY <2>1, <2>2, <2>3, <2>5
<1>11. CASE Edit
  <2>1. /\ call' = call /\ states' = states /\ head' = head /\ work' \in Contents
    BY <1>11 DEF Edit
  <2>2. DiskOK' /\ Grown
    BY <1>1, <2>1 DEF DiskOK, Grown
  <2> QED
    BY <1>3, <2>1, <2>2
<1>12. CASE OtherCommit
  <2>1. PICK s : s = [content |-> work, msg |-> "other"]
    OBVIOUS
  <2>2. /\ states' = Append(states, s) /\ Len(states) < MaxStates
        /\ head' = Len(states) + 1 /\ work' = work /\ call' = call
    BY <1>12, <2>1 DEF OtherCommit
  <2>3. s \in StateSet
    BY <1>1, <2>1 DEF DiskOK, StateSet
  <2>4. DiskOK' /\ Grown
    BY <1>1, <2>2, <2>3, AppendState DEF DiskOK
  <2> QED
    BY <1>3, <2>2, <2>4
<1> QED
  BY <1>6, <1>7, <1>8, <1>9, <1>10, <1>11, <1>12 DEF Next

-----------------------------------------------------------------------------
(* The pages of ListCommits.                                               *)

\* Commits between two pages leave what the client has seen of the states it
\* wants where it has seen it.
LEMMA PagesLast ==
  ASSUME DiskOK, PagesOK, Grown, config' = config, listing' = listing
  PROVE  PagesOK'
<1>1. Len(states) \in Nat
  BY DEF DiskOK
<1>2. listing.token \in Nat /\ listing.token <= Len(states')
  BY <1>1 DEF PagesOK, Grown
<1>3. \A id \in listing.want : Passed(id)' => Passed(id)
  BY <1>1, <1>2 DEF Passed, Grown, PagesOK
<1> QED
  BY <1>1, <1>2, <1>3 DEF PagesOK, Grown

\* One page: what it skips was on the pages before.
LEMMA PageStep ==
  ASSUME DiskOK, PagesOK, CallOK, config' = config, ListCommits
  PROVE  PagesOK'
<1>1. PICK n : n = Len(states)
  OBVIOUS
<1>2. PICK start : start = listing.token
  OBVIOUS
<1>3. PICK size : size = call.req.size
  OBVIOUS
<1>4. PICK end : end = IF size > 0 /\ start + size < n THEN start + size ELSE n
  OBVIOUS
<1>5. PICK next : next = NextToken(start, size, n)
  OBVIOUS
<1>6. PICK page : page = {StateList[i] : i \in start + 1..end}
  OBVIOUS
<1>7. n \in Nat /\ start \in 0..n /\ size \in Int
  <2>1. call.req \in Requests /\ call.req.rpc = "ListCommits"
    BY DEF ListCommits, Ready, CallOK
  <2> QED
    BY <1>1, <1>2, <1>3, <2>1, RequestsAssumption DEF DiskOK, PagesOK
<1>8. /\ end \in start..n
      /\ \/ next = 0 /\ end = n
         \/ next # 0 /\ next = end
      /\ next \in 0..n
  BY <1>4, <1>5, <1>7 DEF NextToken
<1>9. \A id \in 1..n :
        id \in page <=> IF config.newestFirst
                       THEN n + 1 - id \in start + 1..end
                       ELSE id \in start + 1..end
  <2>1. \A i \in start + 1..end :
          StateList[i] = IF config.newestFirst THEN n + 1 - i ELSE i
    BY <1>1, <1>7, <1>8 DEF StateList
  <2>2. CASE config.newestFirst
    <3>1. ASSUME NEW id \in 1..n, n + 1 - id \in start + 1..end
          PROVE  id \in page
      <4>1. StateList[n + 1 - id] = id
        BY <1>7, <2>1, <2>2, <3>1
      <4> QED
        BY <1>6, <3>1, <4>1
    <3>2. ASSUME NEW id \in page PROVE n + 1 - id \in start + 1..end
      BY <1>6, <1>7, <1>8, <2>1, <2>2
    <3> QED
      BY <2>2, <3>1, <3>2
  <2>3. CASE ~config.newestFirst
    BY <1>6, <2>1, <2>3
  <2> QED
    BY <2>2, <2>3
<1>10. page \subseteq 1..n
  <2>1. \A i \in start + 1..end : StateList[i] \in 1..n
    BY <1>1, <1>7, <1>8 DEF StateList
  <2> QED
    BY <1>6, <2>1
<1>11. states' = states
  BY DEF ListCommits, disk
<1>12. CASE UNCHANGED listing
  BY <1>11, <1>12 DEF PagesOK, Passed
<1>13. CASE listing' = [listing EXCEPT !.seen = @ \cup page, !.token = next,
                                       !.open = (next # 0)]
  <2>1. /\ listing'.want = listing.want /\ listing'.seen = listing.seen \cup page
        /\ listing'.token = next /\ listing'.open = (next # 0)
        /\ listing' = [want |-> listing'.want, seen |-> listing'.seen,
                       token |-> listing'.token, open |-> listing'.open]
    BY <1>13 DEF PagesOK
  <2>2. ASSUME NEW id \in listing.want, listing'.open => Passed(id)'
        PROVE  id \in listing.seen \cup page
    <3>1. id \in 1..n
      BY <1>1 DEF PagesOK
    <3>2. IF config.newestFirst THEN n + 1 - id <= end ELSE id <= end
      <4>1. CASE next = 0
        BY <1>7, <1>8, <3>1, <4>1
      <4>2. CASE next # 0
        <5>1. Passed(id)' /\ listing'.token = end
          BY <1>8, <2>1, <2>2, <4>2
        <5>2. IF config.newestFirst THEN id > n - end ELSE id <= end
          BY <1>1, <1>11, <5>1 DEF Passed
        <5> QED
          BY <1>7, <1>8, <3>1, <5>2
      <4> QED
        BY <4>1, <4>2
    <3>3. Passed(id) => id \in listing.seen
      BY DEF PagesOK
    <3>4. Passed(id) \/ id \in page
      BY <1>1, <1>2, <1>7, <1>8, <1>9, <3>1, <3>2, SMTT(40) DEF Passed
    <3> QED
      BY <3>3, <3>4
  <2> QED
    BY <1>1, <1>8, <1>10, <1>11, <2>1, <2>2 DEF PagesOK
<1> QED
  BY <1>1, <1>2, <1>3, <1>4, <1>5, <1>6, <1>12, <1>13 DEF ListCommits

LEMMA PagesStep ==
  ASSUME IInv, Next, config' = config, Grown
  PROVE  PagesOK'
<1>1. DiskOK /\ CallOK /\ PagesOK
  BY DEF IInv
<1>2. CASE ListCommits
  BY <1>1, <1>2, PageStep
<1>3. CASE UNCHANGED listing
  BY <1>1, <1>3, PagesLast
<1>4. CASE Crash \/ Return
  <2>1. listing' \in {listing, NoListing} /\ states' = states
    BY <1>4 DEF Crash, Return, Left, disk
  <2>2. CASE listing' = NoListing
    BY <1>1, <2>1, <2>2 DEF PagesOK, NoListing, DiskOK
  <2> QED
    BY <1>3, <2>1, <2>2
<1>5. ASSUME NEW req, ListPage(req) PROVE PagesOK'
  <2>1. states' = states
    BY <1>5 DEF ListPage, disk
  <2>2. CASE listing' = [NoListing EXCEPT !.want = DOMAIN states, !.open = TRUE]
    <3>1. listing' = [want |-> 1..Len(states), seen |-> {}, token |-> 0,
                      open |-> TRUE]
      <4>1. PICK want : want = DOMAIN states
        OBVIOUS
      <4>2. want = 1..Len(states)
        BY <1>1, <4>1 DEF DiskOK
      <4>3. listing' = [[NoListing EXCEPT !.want = want] EXCEPT !.open = TRUE]
        BY <2>2, <4>1, Zenon
      <4> QED
        BY <4>2, <4>3 DEF NoListing
    <3> QED
      BY <1>1, <2>1, <3>1 DEF PagesOK, Passed, DiskOK
  <2> QED
    BY <1>3, <1>5, <2>2 DEF ListPage
<1>6. ListCommits \/ UNCHANGED listing \/ Crash \/ Return
      \/ \E req \in Requests : ListPage(req)
  BY DEF Next, Start, RemoveSocket, Listen, Chmod, Receive, Admit, Handle,
         LibraryFails, Probe, InitRepository, Commit, Restore, StreamStart,
         Output, StreamResult, StreamDone, GetCommit, ListFiles, GetFile, Diff,
         GetChunk, Edit, OtherCommit, CommitLibrary, RestoreLibrary, LeaveDisk
<1> QED
  BY <1>2, <1>3, <1>4, <1>5, <1>6

-----------------------------------------------------------------------------
(* What a handler has the library write to.                                *)

\* p is where a path of the request is once links are followed, and the guard
\* let it pass.
Guarded(p) ==
  \E q \in {call.req.path, call.req.dest} :
    /\ Guard(config.roots, q).is = "found"
    /\ p = Guard(config.roots, q).path
GuardOK ==
  /\ call.pc \notin {"idle", "arrived", "done"} /\ call.req.rpc # "Probe" =>
       Guarded(call.loc) /\ (call.dest = <<>> \/ Guarded(call.dest))
  /\ call.pc = "arrived" => call.wrote = {}
  /\ call.pc # "idle" => \A p \in call.wrote : Guarded(p)

\* The guard lets nothing pass that is outside of the root.
LEMMA GuardIsInside ==
  ASSUME NEW p, Guarded(p)
  PROVE  Inside(config.roots, p)
BY DEF Guarded, Guard, Failed

\* A handler keeps to the places that were checked.
KeepsPlaces(c) ==
  c.req = call.req /\ c.loc = call.loc /\ c.dest = call.dest /\ c.wrote = call.wrote
Writes == /\ call'.req = call.req /\ call'.loc = call.loc
          /\ call'.dest = call.dest
          /\ call'.wrote \in {{call.loc}, {RestoreDest}}
          /\ call.req.rpc # "Probe"

LEMMA HandlePlaces ==
  ASSUME CallOK, Handle
  PROVE  KeepsPlaces(call') \/ Writes
<1>1. IsCall(call) /\ KeepsPlaces(call)
  BY DEF CallOK, KeepsPlaces, Handle, LibraryFails, Probe, InitRepository, Commit,
         Restore, StreamStart, Output, StreamResult, StreamDone, ListCommits,
         GetCommit, ListFiles, GetFile, Diff, GetChunk, Ready
<1>2. ASSUME NEW c, IsCall(c), KeepsPlaces(c),
             \/ \E pc, code : call' = [c EXCEPT !.pc = pc, !.code = code]
             \/ \E reply : call' = [[c EXCEPT !.pc = "done", !.code = "OK"]
                                      EXCEPT !.reply = reply]
             \/ \E pc, reply : call' = [c EXCEPT !.pc = pc, !.reply = reply]
             \/ \E pc, text : call' = [c EXCEPT !.pc = pc, !.text = text]
             \/ \E off : call' = [c EXCEPT !.off = off]
      PROVE  KeepsPlaces(call')
  BY <1>2 DEF IsCall, KeepsPlaces
<1>3. ASSUME NEW msg, NEW c \in Send(call, msg)
      PROVE  IsCall(c) /\ KeepsPlaces(c)
  BY <1>1, <1>3, SendKeeps DEF KeepsPlaces
<1>4. CASE LibraryFails \/ Probe \/ ListCommits \/ GetCommit \/ ListFiles \/ Diff
  <2>1. (\E code : Finish(code)) \/ (\E reply : FinishWith(reply))
    BY <1>4 DEF LibraryFails, Probe, ListCommits, GetCommit, ListFiles, Diff
  <2>2. \/ \E code : call' = [call EXCEPT !.pc = "done", !.code = code]
        \/ \E reply : call' = [[call EXCEPT !.pc = "done", !.code = "OK"]
                                 EXCEPT !.reply = reply]
    BY <2>1, Zenon DEF Finish, FinishWith, Done
  <2> QED
    BY <1>1, <1>2, <2>2
<1>5. CASE GetFile
  <2>1. \/ \E code : Finish(code)
        \/ \E node : call' = [call EXCEPT !.pc = "reading", !.reply = node]
    BY <1>5 DEF GetFile
  <2>2. \/ \E code : call' = [call EXCEPT !.pc = "done", !.code = code]
        \/ \E pc, reply : call' = [call EXCEPT !.pc = pc, !.reply = reply]
    BY <2>1, Zenon DEF Finish
  <2> QED
    BY <1>1, <1>2, <2>2
<1>6. ASSUME NEW stores, GetChunk(stores)
      PROVE  KeepsPlaces(call')
  <2>1. \/ \E code : Finish(code)
        \/ \E msg : \E c \in Send(call, msg) :
             \/ call' = [c EXCEPT !.pc = "done", !.code = "Unavailable"]
             \/ \E off : call' = [c EXCEPT !.off = off]
    BY <1>6 DEF GetChunk
  <2>2. \E c : /\ IsCall(c) /\ KeepsPlaces(c)
              /\ \/ \E pc, code : call' = [c EXCEPT !.pc = pc, !.code = code]
                 \/ \E off : call' = [c EXCEPT !.off = off]
    BY <1>1, <1>3, <2>1, Zenon DEF Finish
  <2> QED
    BY <1>2, <2>2
<1>7. CASE StreamStart
  <2>1. \E msg : \E c \in Send(call, msg) :
          \/ call' = [c EXCEPT !.pc = "done", !.code = "Unavailable"]
          \/ \E text : call' = [c EXCEPT !.pc = "working", !.text = text]
    BY <1>7 DEF StreamStart
  <2>2. \E c : /\ IsCall(c) /\ KeepsPlaces(c)
              /\ \/ \E pc, code : call' = [c EXCEPT !.pc = pc, !.code = code]
                 \/ \E pc, text : call' = [c EXCEPT !.pc = pc, !.text = text]
    BY <1>3, <2>1, Zenon
  <2> QED
    BY <1>2, <2>2
<1>8. CASE StreamDone
  <2>1. \E msg, code : \E c \in Send(call, msg) :
          call' = [c EXCEPT !.pc = "done", !.code = code]
    BY <1>8, Zenon DEF StreamDone
  <2>2. \E c : /\ IsCall(c) /\ KeepsPlaces(c)
              /\ \E pc, code : call' = [c EXCEPT !.pc = pc, !.code = code]
    BY <1>3, <2>1, Zenon
  <2> QED
    BY <1>2, <2>2
<1>9. CASE Output
  <2>1. PICK buf, text, n, sent, gone :
          call' = [call EXCEPT !.buf = buf, !.text = text, !.n = n,
                               !.sent = sent, !.gone = gone]
    <3>1. PICK k, m : call' = Written(k, m)
      BY <1>9 DEF Output
    <3> QED
      BY <3>1, Zenon DEF Written
  <2> QED
    BY <1>1, <2>1 DEF IsCall, KeepsPlaces
<1>10. ASSUME NEW next, IsCall(next), KeepsPlaces(next), NEW wrote, NEW reply,
              call' = [next EXCEPT !.wrote = wrote, !.reply = reply],
              wrote \in {{call.loc}, {RestoreDest}}, call.req.rpc # "Probe"
       PROVE  Writes
  BY <1>10 DEF IsCall, KeepsPlaces, Writes
<1>11. ASSUME NEW next, IsCall(next), KeepsPlaces(next), call.req.rpc # "Probe",
              CommitLibrary(next) \/ RestoreLibrary(next)
       PROVE  Writes
  BY <1>10, <1>11 DEF CommitLibrary, RestoreLibrary
<1>12. /\ IsCall(Done(call)) /\ KeepsPlaces(Done(call))
       /\ IsCall([call EXCEPT !.pc = "reply"])
       /\ KeepsPlaces([call EXCEPT !.pc = "reply"])
  <2>1. PICK c, d : c = Done(call) /\ d = [call EXCEPT !.pc = "reply"]
    OBVIOUS
  <2>2. IsCall(c) /\ KeepsPlaces(c)
    BY <1>1, <2>1 DEF Done, IsCall, KeepsPlaces
  <2>3. IsCall(d) /\ KeepsPlaces(d)
    BY <1>1, <2>1 DEF IsCall, KeepsPlaces
  <2> QED
    BY <2>1, <2>2, <2>3
<1>13. CASE Commit \/ Restore
  BY <1>11, <1>12, <1>13 DEF Commit, Restore, Ready
<1>14. CASE StreamResult
  <2>1. call.req.rpc # "Probe"
    BY <1>14 DEF StreamResult, CallOK, IsStream
  <2> QED
    BY <1>11, <1>12, <1>14, <2>1 DEF StreamResult
<1>15. CASE InitRepository
  <2>1. PICK wrote : /\ wrote = {call.loc}
                     /\ call' = [Done(call) EXCEPT !.wrote = wrote]
    BY <1>15 DEF InitRepository
  <2> QED
    BY <1>12, <1>15, <2>1 DEF InitRepository, Ready, IsCall, KeepsPlaces, Writes
<1> QED
  BY <1>4, <1>5, <1>6, <1>7, <1>8, <1>9, <1>13, <1>14, <1>15 DEF Handle

LEMMA GuardStep ==
  ASSUME IInv, GuardOK, Next
  PROVE  GuardOK'
<1>1. config' = config /\ CallOK
  BY BootStep DEF IInv
<1>2. ASSUME call'.req = call.req
      PROVE  \A p : Guarded(p)' <=> Guarded(p)
  BY <1>1, <1>2 DEF Guarded
<1>3. CASE call' = call
  BY <1>1, <1>3 DEF GuardOK, Guarded
<1>4. CASE call' = NoCall
  BY <1>4 DEF GuardOK, NoCall
<1>5. ASSUME NEW req, call' = Fresh(req)
      PROVE  GuardOK'
  BY <1>5 DEF GuardOK, Fresh
<1>6. CASE Admit
  <2>1. PICK code : code = Admission(config, call.req)
    OBVIOUS
  <2>2. IsCall(call) /\ call.wrote = {}
    BY <1>1, <1>6 DEF Admit, CallOK, GuardOK
  <2>3. CASE Finish(code) /\ code # "OK"
    <3>1. call'.pc = "done" /\ call'.wrote = {}
      BY <2>2, <2>3 DEF Finish, IsCall
    <3> QED
      BY <3>1 DEF GuardOK
  <2>4. ASSUME code = "OK", NEW loc, NEW dest,
               loc = Guard(config.roots, call.req.path).path,
               dest = IF call.req.dest = <<>> THEN <<>>
                      ELSE Guard(config.roots, call.req.dest).path,
               call' = [call EXCEPT !.pc = "ready", !.loc = loc, !.dest = dest]
        PROVE  GuardOK'
    <3>1. /\ call'.req = call.req /\ call'.pc = "ready" /\ call'.wrote = {}
          /\ call'.loc = loc /\ call'.dest = dest
      BY <2>2, <2>4 DEF IsCall
    <3>2. call.req.rpc # "Probe" =>
            /\ Guard(config.roots, call.req.path).is = "found"
            /\ call.req.dest # <<>> =>
                 Guard(config.roots, call.req.dest).is = "found"
      BY <2>1, <2>4, ErrorCodes DEF Admission
    <3>3. call.req.rpc # "Probe" =>
            Guarded(loc) /\ (dest = <<>> \/ Guarded(dest))
      BY <2>4, <3>2 DEF Guarded
    <3> QED
      BY <1>2, <3>1, <3>3 DEF GuardOK
  <2> QED
    BY <1>6, <2>1, <2>3, <2>4 DEF Admit
<1>7. CASE Handle
  <2>1. KeepsPlaces(call') \/ Writes
    BY <1>1, <1>7, HandlePlaces
  <2>2. call.pc \in {"ready", "working", "reading", "reply"} /\ call'.pc # "arrived"
    <3>1. Serves /\ call.pc \in {"ready", "working", "reading", "reply"}
      BY <1>7, HandleStep DEF IInv
    <3> QED
      BY <3>1 DEF Serves
  <2>3. call'.req = call.req /\ call'.loc = call.loc /\ call'.dest = call.dest
    BY <2>1 DEF KeepsPlaces, Writes
  <2>4. \A p \in call'.wrote : Guarded(p)
    BY <2>1, <2>2 DEF KeepsPlaces, Writes, RestoreDest, GuardOK
  <2> QED
    BY <1>2, <2>2, <2>3, <2>4 DEF GuardOK
<1> QED
  BY <1>3, <1>4, <1>5, <1>6, <1>7
  DEF Next, Start, RemoveSocket, Listen, Chmod, Crash, Receive, ListPage,
      Return, Edit, OtherCommit

-----------------------------------------------------------------------------
(* Canonical paths.                                                        *)

Walked(c, at, name) == Walk(at, name)
Ways == INSTANCE FoldProofs WITH op <- Walked

Present == FileSystem.dirs \cup FileSystem.files
Links == DOMAIN FileSystem.links

LEMMA WayIsFold ==
  ASSUME NEW p
  PROVE  EvalSymlinks(p) = Ways!Fold("", Found(<<>>), p)
BY DEF EvalSymlinks, Ways!Fold, Ways!Follows, Ways!Greatest, Walked,
       Seqs!FoldLeft, Seqs!MapThenFoldSet, Seqs!Max

LEMMA FirstOf ==
  ASSUME NEW S, NEW p \in Seq(S), NEW k \in 0..Len(p)
  PROVE  /\ Len(p) \in Nat /\ SubSeq(p, 1, k) \in Seq(S)
         /\ Len(SubSeq(p, 1, k)) = k /\ DOMAIN SubSeq(p, 1, k) = 1..k
         /\ \A i \in 1..k : SubSeq(p, 1, k)[i] = p[i]
<1>1. Len(p) \in Nat /\ k \in Nat /\ DOMAIN p = 1..Len(p)
  OBVIOUS
<1>2. \A i \in 1..k : i \in DOMAIN p /\ p[i] \in S
  BY <1>1
<1>3. SubSeq(p, 1, k) = [i \in 1..k |-> p[i]]
  <2>1. \A i \in 1..k : SubSeq(p, 1, k)[i] = p[i]
    BY <1>1
  <2>2. SubSeq(p, 1, k) = [i \in 1..((k - 1) + 1) |-> p[(i + 1) - 1]]
    BY <1>1
  <2> QED
    BY <1>1, <2>2
<1> QED
  BY <1>1, <1>2, <1>3

\* The walk goes name by name.
LEMMA WaySteps ==
  ASSUME NEW p \in Seq(STRING)
  PROVE  /\ EvalSymlinks(SubSeq(p, 1, 0)) = Found(<<>>)
         /\ \A k \in 1..Len(p) :
              EvalSymlinks(SubSeq(p, 1, k)) =
                Walk(EvalSymlinks(SubSeq(p, 1, k - 1)), p[k])
<1>1. EvalSymlinks(SubSeq(p, 1, 0)) = Found(<<>>)
  <2>1. PICK q : q = SubSeq(p, 1, 0)
    OBVIOUS
  <2>2. DOMAIN q = {}
    BY <2>1, FirstOf
  <2> QED
    BY <2>1, <2>2, WayIsFold, Ways!FoldEmpty
<1>2. ASSUME NEW k \in 1..Len(p)
      PROVE  EvalSymlinks(SubSeq(p, 1, k)) =
               Walk(EvalSymlinks(SubSeq(p, 1, k - 1)), p[k])
  <2>1. PICK q, r : q = SubSeq(p, 1, k) /\ r = SubSeq(p, 1, k - 1)
    OBVIOUS
  <2>2. k \in Nat /\ k # 0 /\ k \in 0..Len(p) /\ k - 1 \in 0..Len(p)
    OBVIOUS
  <2>3. DOMAIN q = 1..k /\ DOMAIN r = 1..(k - 1) /\ q[k] = p[k]
        /\ \A i \in 1..(k - 1) : r[i] = q[i]
    BY <2>1, <2>2, FirstOf
  <2>4. Ways!Fold("", Found(<<>>), q) =
          Walked("", Ways!Fold("", Found(<<>>), r), q[k])
    BY <2>2, <2>3, Ways!FoldLast
  <2> QED
    BY <2>1, <2>3, <2>4, WayIsFold DEF Walked
<1> QED
  BY <1>1, <1>2

\* What is in the way of the walk.
LEMMA Things ==
  /\ Present \cup Links \subseteq Seq(STRING) /\ <<>> \in FileSystem.dirs
  /\ Present \cap Links = {} /\ FileSystem.dirs \cap FileSystem.files = {}
  /\ \A p \in Present \cup Links : \A i \in 1..Len(p) :
       SubSeq(p, 1, i - 1) \in FileSystem.dirs
  /\ \A p \in Links : FileSystem.links[p] \in Present
BY FileSystemAssumption DEF Present, Links

\* It stands at something, is lost, or runs into a file.
At(p, k) == EvalSymlinks(SubSeq(p, 1, k))
LEMMA WayOK ==
  ASSUME NEW p \in Seq(STRING), NEW k \in 0..Len(p)
  PROVE  \/ At(p, k) = Failed("missing") \/ At(p, k) = Failed("error")
         \/ At(p, k).is = "found" /\ At(p, k).path \in Present
<1> DEFINE Fine(a) == \/ a = Failed("missing") \/ a = Failed("error")
                      \/ a.is = "found" /\ a.path \in Present
           T == {i \in 0..Len(p) : Fine(At(p, i))}
<1>1. 0 \in T
  BY WaySteps, Things DEF At, Found, Present
<1>2. ASSUME NEW i \in 1..Len(p), i - 1 \in T PROVE i \in T
  <2>1. PICK a : a = At(p, i - 1) /\ Fine(a)
    BY <1>2
  <2>2. At(p, i) = Walk(a, p[i])
    BY <2>1, WaySteps DEF At
  <2>3. Fine(Walk(a, p[i]))
    <3>1. PICK q : q = Append(a.path, p[i])
      OBVIOUS
    <3>2. PICK fail, lost : fail = Failed("error") /\ lost = Failed("missing")
      OBVIOUS
    <3>3. fail.is = "error" /\ lost.is = "missing"
      BY <3>2 DEF Failed
    <3>4. \A x : Found(x).is = "found" /\ Found(x).path = x
      BY DEF Found
    <3>5. CASE a.is # "found"
      BY <2>1, <3>5 DEF Walk
    <3>6. CASE a.is = "found"
      <4>1. \/ Walk(a, p[i]) = fail \/ Walk(a, p[i]) = lost
            \/ q \in Links /\ Walk(a, p[i]) = Found(FileSystem.links[q])
            \/ q \in Present /\ Walk(a, p[i]) = Found(q)
        BY <3>1, <3>2, <3>6 DEF Walk, Links, Present
      <4>2. q \in Links => FileSystem.links[q] \in Present
        BY Things
      <4> QED
        BY <3>2, <3>3, <3>4, <4>1, <4>2
    <3> QED
      BY <3>5, <3>6
  <2> HIDE DEF Fine
  <2> QED
    BY <2>2, <2>3
<1>3. Len(p) \in Nat
  OBVIOUS
<1> HIDE DEF T
<1>4. k \in T
  BY <1>1, <1>2, <1>3, Ways!UpTo
<1> QED
  BY <1>4 DEF T

\* A path all of whose first m names lead to things that are no links, and
\* whose next leads nowhere, is canonical.
Settled(p, m) ==
  /\ \A k \in 0..m : SubSeq(p, 1, k) \in Present
  /\ \A k \in 1..m : SubSeq(p, 1, k - 1) \in FileSystem.dirs
  /\ m < Len(p) => /\ SubSeq(p, 1, m) \in FileSystem.dirs
                   /\ SubSeq(p, 1, m + 1) \notin Present \cup Links

\* The last step of the walk, of a path with one name more.
LEMMA NextName ==
  ASSUME NEW p \in Seq(STRING), NEW k \in 1..Len(p)
  PROVE  Append(SubSeq(p, 1, k - 1), p[k]) = SubSeq(p, 1, k)
OBVIOUS

LEMMA SettledWay ==
  ASSUME NEW p \in Seq(STRING), NEW m \in 0..Len(p), Settled(p, m)
  PROVE  \A k \in 0..Len(p) :
           At(p, k) = IF k <= m THEN Found(SubSeq(p, 1, k)) ELSE Failed("missing")
<1> DEFINE Is(k) == IF k <= m THEN Found(SubSeq(p, 1, k)) ELSE Failed("missing")
           T == {k \in 0..Len(p) : At(p, k) = Is(k)}
<1>1. Len(p) \in Nat
  OBVIOUS
<1>2. 0 \in T
  <2>1. SubSeq(p, 1, 0) = <<>>
    OBVIOUS
  <2>2. At(p, 0) = Found(<<>>)
    BY WaySteps DEF At
  <2>3. At(p, 0) = Found(SubSeq(p, 1, 0))
    BY <2>1, <2>2
  <2> QED
    BY <1>1, <2>3
<1>3. ASSUME NEW k \in 1..Len(p), k - 1 \in T PROVE k \in T
  <2>1. PICK q, r : q = SubSeq(p, 1, k - 1) /\ r = SubSeq(p, 1, k)
    OBVIOUS
  <2>2. At(p, k) = Walk(At(p, k - 1), p[k]) /\ Append(q, p[k]) = r
    BY <2>1, WaySteps, NextName DEF At
  <2>3. /\ Found(q).is = "found" /\ Found(q).path = q
        /\ Failed("missing").is = "missing"
    BY DEF Found, Failed
  <2>4. CASE k <= m
    <3>1. At(p, k - 1) = Found(q)
      BY <1>3, <2>1, <2>4
    <3>2. q \in FileSystem.dirs /\ r \in Present
      BY <2>1, <2>4 DEF Settled
    <3>3. q \notin FileSystem.files /\ r \notin Links
      BY <3>2, Things
    <3>4. Walk(Found(q), p[k]) = Found(r)
      BY <2>2, <2>3, <3>2, <3>3 DEF Walk, Links, Present
    <3> QED
      BY <2>1, <2>2, <2>4, <3>1, <3>4
  <2>5. CASE k = m + 1
    <3>1. At(p, k - 1) = Found(q)
      BY <1>3, <2>1, <2>5
    <3>2. q \in FileSystem.dirs /\ r \notin Present \cup Links
      BY <2>1, <2>5 DEF Settled
    <3>3. q \notin FileSystem.files
      BY <3>2, Things
    <3>4. Walk(Found(q), p[k]) = Failed("missing")
      BY <2>2, <2>3, <3>2, <3>3 DEF Walk, Links, Present
    <3> QED
      BY <2>2, <2>5, <3>1, <3>4
  <2>6. CASE k > m + 1
    <3>1. At(p, k - 1) = Failed("missing")
      BY <1>3, <2>6
    <3>2. Walk(Failed("missing"), p[k]) = Failed("missing")
      BY <2>3 DEF Walk
    <3> QED
      BY <2>2, <2>6, <3>1, <3>2
  <2> QED
    BY <2>4, <2>5, <2>6
<1> HIDE DEF T
<1>4. \A k \in 0..Len(p) : k \in T
  BY <1>1, <1>2, <1>3, Ways!UpTo
<1> QED
  BY <1>4 DEF T

\* Where canonicalizePath resolves, and what it appends.
LEMMA Longest ==
  ASSUME NEW p \in Seq(STRING), NEW k \in 0..Len(p), At(p, k).is # "missing",
         \A i \in 0..Len(p) : At(p, i).is # "missing" => i <= k
  PROVE  Canonical(p) = IF At(p, k).is = "error" THEN At(p, k)
                        ELSE Found(At(p, k).path \o SubSeq(p, k + 1, Len(p)))
<1>1. PICK S : S = {i \in 0..Len(p) : At(p, i).is # "missing"}
  OBVIOUS
<1>2. S = {i \in 0..Len(p) : EvalSymlinks(SubSeq(p, 1, i)).is # "missing"}
  BY <1>1 DEF At
<1>3. Seqs!Max(S) = k
  <2>1. k \in S /\ \A i \in S : k >= i
    BY <1>1
  <2>2. \A x \in S : (\A y \in S : x >= y) => x = k
    BY <1>1, <2>1
  <2> QED
    BY <2>1, <2>2 DEF Seqs!Max
<1> QED
  BY <1>2, <1>3 DEF Canonical, At

LEMMA SettledCanonical ==
  ASSUME NEW p \in Seq(STRING), NEW m \in 0..Len(p), Settled(p, m)
  PROVE  Canonical(p) = Found(p)
<1>1. PICK q, r : q = SubSeq(p, 1, m) /\ r = SubSeq(p, m + 1, Len(p))
  OBVIOUS
<1>2. q \o r = p
  <2>1. 1 \in 1..Len(p) + 1 /\ m \in 1 - 1..Len(p) /\ Len(p) \in m..Len(p)
    OBVIOUS
  <2> QED
    BY <1>1, <2>1, ConcatAdjacentSubSeq, SubSeqFull
<1>3. /\ Found(q).is = "found" /\ Found(q).path = q
      /\ Failed("missing").is = "missing"
  BY DEF Found, Failed
<1>4. At(p, m) = Found(q)
  BY <1>1, SettledWay
<1>5. \A i \in 0..Len(p) : At(p, i).is # "missing" => i <= m
  BY <1>3, SettledWay
<1> QED
  BY <1>1, <1>2, <1>3, <1>4, <1>5, Longest

LEMMA LastMet ==
  ASSUME NEW n \in Nat, NEW S, 0 \in S
  PROVE  \E k \in 0..n : k \in S /\ \A i \in 0..n : i \in S => i <= k
<1> DEFINE T == {j \in 0..n : \E k \in 0..j : /\ k \in S
                                            /\ \A i \in 0..j : i \in S => i <= k}
<1>1. 0 \in T
  OBVIOUS
<1>2. ASSUME NEW j \in 1..n, j - 1 \in T PROVE j \in T
  <2>1. PICK k \in 0..j - 1 : k \in S /\ \A i \in 0..j - 1 : i \in S => i <= k
    BY <1>2
  <2>2. CASE j \in S
    BY <2>2
  <2>3. CASE j \notin S
    <3>1. k \in 0..j /\ \A i \in 0..j : i \in S => i <= k
      BY <2>1, <2>3
    <3> QED
      BY <2>1, <3>1
  <2> QED
    BY <2>2, <2>3
<1> HIDE DEF T
<1>3. n \in T
  BY <1>1, <1>2, Ways!UpTo
<1> QED
  BY <1>3 DEF T

\* What canonicalizePath answers is settled: the part that exists by what is
\* in the file system, the rest by what is not.
LEMMA CanonicalSettles ==
  ASSUME NEW p \in Seq(STRING), Canonical(p).is = "found"
  PROVE  \E c \in Seq(STRING) : \E m \in 0..Len(c) :
           c = Canonical(p).path /\ Settled(c, m)
<1>1. PICK n \in Nat : n = Len(p)
  OBVIOUS
<1>2. PICK k \in 0..n : /\ At(p, k).is # "missing"
                        /\ \A i \in 0..n : At(p, i).is # "missing" => i <= k
  <2>1. PICK S : S = {i \in 0..n : At(p, i).is # "missing"}
    OBVIOUS
  <2>2. At(p, 0).is # "missing"
    BY WaySteps DEF At, Found
  <2>3. 0 \in S
    BY <2>1, <2>2
  <2>4. PICK k \in 0..n : k \in S /\ \A i \in 0..n : i \in S => i <= k
    BY <2>3, LastMet
  <2> QED
    BY <2>1, <2>4
<1>3. PICK r, rest : r = At(p, k).path /\ rest = SubSeq(p, k + 1, n)
  OBVIOUS
<1>4. At(p, k).is = "found" /\ Canonical(p) = Found(r \o rest)
  <2>1. Canonical(p) = IF At(p, k).is = "error" THEN At(p, k) ELSE Found(r \o rest)
    BY <1>1, <1>2, <1>3, Longest
  <2>2. At(p, k).is # "error"
    BY <2>1
  <2>3. Failed("missing").is = "missing" /\ Failed("error").is = "error"
    BY DEF Failed
  <2> QED
    BY <1>1, <1>2, <2>1, <2>2, <2>3, WayOK
<1>5. r \in Present /\ r \in Seq(STRING)
  <2>1. Failed("missing").is = "missing" /\ Failed("error").is = "error"
    BY DEF Failed
  <2> QED
    BY <1>1, <1>3, <1>4, <2>1, WayOK, Things
<1>6. /\ rest \in Seq(STRING) /\ Len(rest) = n - k
      /\ k < n => rest[1] = p[k + 1]
  <2>1. k + 1 \in Int /\ n \in Int /\ \A i \in k + 1..n : p[i] \in STRING
    BY <1>1
  <2>2. /\ Len(rest) = IF k + 1 <= n THEN n - (k + 1) + 1 ELSE 0
        /\ \A i \in 1..n - (k + 1) + 1 : rest[i] = p[(k + 1) + i - 1]
        /\ rest \in Seq(STRING)
    BY <1>3, <2>1, SubSeqProperties
  <2> QED
    BY <2>2
<1>7. PICK c : c = r \o rest
  OBVIOUS
<1>8. PICK m \in Nat : m = Len(r)
  BY <1>5
<1>9. /\ c \in Seq(STRING) /\ Len(c) = m + (n - k) /\ m \in 0..Len(c)
      /\ \A i \in 1..m : c[i] = r[i]
      /\ k < n => c[m + 1] = p[k + 1]
  <2>1. PICK d \in Nat : d = n - k /\ d = Len(rest)
    BY <1>6
  <2>2. /\ r \o rest \in Seq(STRING) /\ Len(r \o rest) = Len(r) + Len(rest)
        /\ \A i \in 1..Len(r) + Len(rest) :
             (r \o rest)[i] = IF i <= Len(r) THEN r[i] ELSE rest[i - Len(r)]
    BY <1>5, <1>6, ConcatProperties
  <2>3. /\ c \in Seq(STRING) /\ Len(c) = m + d
        /\ \A i \in 1..m + d : c[i] = IF i <= m THEN r[i] ELSE rest[i - m]
    BY <1>7, <1>8, <2>1, <2>2
  <2>4. \A i \in 1..m : i \in 1..m + d /\ i <= m
    OBVIOUS
  <2>5. ASSUME k < n PROVE c[m + 1] = p[k + 1]
    <3>1. m + 1 \in 1..m + d /\ ~(m + 1 <= m) /\ (m + 1) - m = 1
      BY <2>1, <2>5
    <3>2. c[m + 1] = rest[1]
      BY <2>3, <3>1
    <3> QED
      BY <1>6, <2>5, <3>2
  <2>6. m \in 0..m + d
    OBVIOUS
  <2> QED
    BY <2>1, <2>3, <2>4, <2>5, <2>6
<1>10. \A i \in 0..m : SubSeq(c, 1, i) = SubSeq(r, 1, i)
  <2> TAKE i \in 0..m
  <2>1. i \in 0..Len(c) /\ i \in 0..Len(r)
    BY <1>8, <1>9
  <2>2. PICK x, y : x = SubSeq(c, 1, i) /\ y = SubSeq(r, 1, i)
    OBVIOUS
  <2>3. /\ x \in Seq(STRING) /\ Len(x) = i /\ \A j \in 1..i : x[j] = c[j]
        /\ y \in Seq(STRING) /\ Len(y) = i /\ \A j \in 1..i : y[j] = r[j]
    BY <1>5, <1>9, <2>1, <2>2, FirstOf
  <2>4. \A j \in 1..Len(x) : x[j] = y[j]
    BY <1>9, <2>3
  <2> QED
    BY <2>2, <2>3, <2>4, SeqEqual
<1>11. SubSeq(r, 1, m) = r
  BY <1>5, <1>8, SubSeqFull
<1>12. \A i \in 1..m : SubSeq(r, 1, i - 1) \in FileSystem.dirs
  BY <1>5, <1>8, Things
<1>13. ASSUME m < Len(c)
       PROVE  r \in FileSystem.dirs /\ SubSeq(c, 1, m + 1) \notin Present \cup Links
  <2>1. k < n /\ k + 1 \in 1..n
    BY <1>9, <1>13
  <2>2. PICK a, b, name : a = At(p, k) /\ b = At(p, k + 1) /\ name = p[k + 1]
    OBVIOUS
  <2>3. b.is = "missing"
    BY <1>2, <2>1, <2>2
  <2>4. b = Walk(a, name)
    <3>1. EvalSymlinks(SubSeq(p, 1, k + 1))
            = Walk(EvalSymlinks(SubSeq(p, 1, (k + 1) - 1)), p[k + 1])
      BY <1>1, <2>1, WaySteps
    <3>2. (k + 1) - 1 = k
      OBVIOUS
    <3> QED
      BY <2>2, <3>1, <3>2 DEF At
  <2>5. PICK q : q = Append(r, name)
    OBVIOUS
  <2>6. Failed("error").is = "error" /\ \A x : Found(x).is = "found"
    BY DEF Found, Failed
  <2>7. r \notin FileSystem.files /\ q \notin Present \cup Links
    BY <1>3, <1>4, <2>2, <2>3, <2>4, <2>5, <2>6 DEF Walk, Present, Links
  <2>8. SubSeq(c, 1, m + 1) = q
    <3>1. m + 1 \in 1..Len(c) /\ (m + 1) - 1 = m /\ c[m + 1] = name
      <4>1. c[m + 1] = name
        BY <1>9, <2>1, <2>2
      <4>2. Len(c) \in Nat
        BY <1>9
      <4> QED
        BY <1>13, <4>1, <4>2
    <3>2. Append(SubSeq(c, 1, m), c[m + 1]) = SubSeq(c, 1, m + 1)
      BY <3>1, NextName
    <3>3. SubSeq(c, 1, m) = r
      BY <1>10, <1>11
    <3> QED
      BY <2>5, <3>1, <3>2, <3>3
  <2> QED
    BY <1>5, <2>7, <2>8 DEF Present
<1>14. Settled(c, m)
  <2>1. \A i \in 0..m : SubSeq(c, 1, i) \in Present
    <3> TAKE i \in 0..m
    <3>1. CASE i = m
      BY <1>5, <1>10, <1>11, <3>1
    <3>2. CASE i < m
      <4>1. i + 1 \in 1..m /\ (i + 1) - 1 = i
        BY <3>2
      <4> QED
        BY <1>10, <1>12, <4>1 DEF Present
    <3> QED
      BY <3>1, <3>2
  <2>2. \A i \in 1..m : SubSeq(c, 1, i - 1) \in FileSystem.dirs
    <3> TAKE i \in 1..m
    <3>1. i - 1 \in 0..m
      OBVIOUS
    <3> QED
      BY <1>10, <1>12, <3>1
  <2>3. m < Len(c) => SubSeq(c, 1, m) = r
    BY <1>10, <1>11
  <2> QED
    BY <1>13, <2>1, <2>2, <2>3 DEF Settled
<1>15. Canonical(p).path = c
  BY <1>4, <1>7 DEF Found
<1> QED
  BY <1>9, <1>14, <1>15

\* Canonicalizing twice is canonicalizing once: what the guard compared with
\* the root is where the library will be.
LEMMA CanonicalStays ==
  ASSUME NEW p \in Seq(STRING), Canonical(p).is = "found"
  PROVE  Canonical(Canonical(p).path) = Found(Canonical(p).path)
BY CanonicalSettles, SettledCanonical

-----------------------------------------------------------------------------
(* The progress of a stream.                                               *)

WriteStep(c, w, t) == WritePiece(w, t)
Writer == INSTANCE FoldProofs WITH op <- WriteStep

\* The i-th piece of output after n lines, and how that output lies in the
\* line writer's buffer and in what the library has still to write.
PieceOf(n, i) == IF i % 2 = 0 THEN 0 ELSE n + (i + 1) \div 2
Pending(n, buf, text) ==
  /\ n \in Nat /\ buf \in {<<>>, <<n + 1>>} /\ text \in Seq(Nat)
  /\ \A i \in 1..Len(text) : text[i] = PieceOf(n, Len(buf) + i)

\* The line writer after m pieces since the start of a line.
AfterPieces(n, m) ==
  [buf   |-> IF m % 2 = 0 THEN <<>> ELSE <<n + (m + 1) \div 2>>,
   lines |-> [i \in 1..m \div 2 |-> <<n + i>>]]

LEMMA Halves ==
  ASSUME NEW m \in Nat
  PROVE  \E j \in Nat : \/ /\ m = 2 * j /\ m % 2 = 0 /\ m \div 2 = j
                           /\ (m + 1) % 2 = 1 /\ (m + 1) \div 2 = j /\ (m + 2) \div 2 = j + 1
                        \/ /\ m = 2 * j + 1 /\ m % 2 = 1 /\ m \div 2 = j
                           /\ (m + 1) % 2 = 0 /\ (m + 1) \div 2 = j + 1
<1>1. PICK j \in Nat : j = m \div 2
  OBVIOUS
<1>2. m = 2 * j \/ m = 2 * j + 1
  BY <1>1
<1>3. CASE m = 2 * j
  BY <1>1, <1>3
<1>4. CASE m = 2 * j + 1
  BY <1>1, <1>4
<1> QED
  BY <1>2, <1>3, <1>4

LEMMA OnePiece ==
  ASSUME NEW n \in Nat, NEW m \in Nat
  PROVE  WritePiece(AfterPieces(n, m), PieceOf(n, m + 1)) = AfterPieces(n, m + 1)
<1>1. PICK w : w = AfterPieces(n, m)
  OBVIOUS
<1>2. PICK lines : lines = [i \in 1..m \div 2 |-> <<n + i>>]
  OBVIOUS
<1>3. PICK j \in Nat :
        \/ /\ m = 2 * j /\ m % 2 = 0 /\ m \div 2 = j
           /\ (m + 1) % 2 = 1 /\ (m + 1) \div 2 = j /\ (m + 2) \div 2 = j + 1
        \/ /\ m = 2 * j + 1 /\ m % 2 = 1 /\ m \div 2 = j
           /\ (m + 1) % 2 = 0 /\ (m + 1) \div 2 = j + 1
  BY Halves
<1>4. (m + 1) + 1 = m + 2
  OBVIOUS
<1>5. CASE m = 2 * j /\ m % 2 = 0
  <2>1. m \div 2 = j /\ (m + 1) % 2 = 1 /\ (m + 1) \div 2 = j /\ (m + 2) \div 2 = j + 1
    BY <1>3, <1>5
  <2>2. PieceOf(n, m + 1) = n + (j + 1) /\ n + (j + 1) # 0
    BY <1>4, <2>1 DEF PieceOf
  <2>3. w = [buf |-> <<>>, lines |-> lines]
    BY <1>1, <1>2, <1>5 DEF AfterPieces
  <2>4. WritePiece(w, n + (j + 1)) = [buf |-> <<n + (j + 1)>>, lines |-> lines]
    <3>1. PICK none, one : none = <<>> /\ one = <<n + (j + 1)>>
      OBVIOUS
    <3>2. Append(none, n + (j + 1)) = one
      BY <3>1
    <3>3. w = [buf |-> none, lines |-> lines]
      BY <2>3, <3>1
    <3>4. [w EXCEPT !.buf = Append(@, n + (j + 1))] = [buf |-> one, lines |-> lines]
      BY <3>2, <3>3
    <3> QED
      BY <2>2, <3>1, <3>4 DEF WritePiece
  <2>5. AfterPieces(n, m + 1) = [buf |-> <<n + (j + 1)>>, lines |-> lines]
    BY <1>2, <1>4, <2>1 DEF AfterPieces
  <2> QED
    BY <1>1, <2>2, <2>4, <2>5
<1>6. CASE m = 2 * j + 1 /\ m % 2 = 1
  <2>1. m \div 2 = j /\ (m + 1) % 2 = 0 /\ (m + 1) \div 2 = j + 1
    BY <1>3, <1>6
  <2>2. PieceOf(n, m + 1) = 0
    BY <2>1 DEF PieceOf
  <2>3. w.buf = <<n + (j + 1)>> /\ w.lines = lines
    BY <1>1, <1>2, <1>6, <2>1 DEF AfterPieces
  <2>4. PICK line, more : line = <<n + (j + 1)>> /\ more = [i \in 1..j + 1 |-> <<n + i>>]
    OBVIOUS
  <2>5. Append(lines, line) = more
    <3>1. PICK S : S = {<<n + i>> : i \in 1..j + 1}
      OBVIOUS
    <3>2. lines \in Seq(S) /\ Len(lines) = j /\ \A i \in 1..j : lines[i] = <<n + i>>
      <4>1. lines = [i \in 1..j |-> <<n + i>>]
        BY <1>2, <2>1
      <4>2. \A i \in 1..j : i \in 1..j + 1
        OBVIOUS
      <4>3. \A i \in 1..j : <<n + i>> \in S
        BY <3>1, <4>2
      <4>4. PICK f : f = [i \in 1..j |-> <<n + i>>]
        OBVIOUS
      <4>5. f \in [1..j -> S] /\ \A i \in 1..j : f[i] = <<n + i>>
        BY <4>3, <4>4
      <4>6. f \in Seq(S) /\ Len(f) = j
        BY <4>5
      <4> QED
        BY <4>1, <4>4, <4>5, <4>6
    <3>3. line \in S
      BY <2>4, <3>1
    <3>4. more \in Seq(S) /\ Len(more) = j + 1 /\ \A i \in 1..j + 1 : more[i] = <<n + i>>
      BY <2>4, <3>1
    <3>5. /\ Append(lines, line) \in Seq(S) /\ Len(Append(lines, line)) = j + 1
          /\ \A i \in 1..j : Append(lines, line)[i] = lines[i]
          /\ Append(lines, line)[j + 1] = line
      BY <3>2, <3>3, AppendProperties
    <3>6. \A i \in 1..j + 1 : Append(lines, line)[i] = more[i]
      <4> TAKE i \in 1..j + 1
      <4>1. i \in 1..j \/ i = j + 1
        OBVIOUS
      <4> QED
        BY <2>4, <3>2, <3>4, <3>5, <4>1
    <3> QED
      BY <3>4, <3>5, <3>6, SeqEqual
  <2>6. WritePiece(w, 0) = [buf |-> <<>>, lines |-> more]
    BY <2>3, <2>4, <2>5 DEF WritePiece
  <2>7. AfterPieces(n, m + 1) = [buf |-> <<>>, lines |-> more]
    BY <2>1, <2>4 DEF AfterPieces
  <2> QED
    BY <1>1, <2>2, <2>6, <2>7
<1> QED
  BY <1>3, <1>5, <1>6

LEMMA WriterIs ==
  ASSUME NEW n, NEW buf, NEW text, Pending(n, buf, text), NEW k \in 0..Len(text)
  PROVE  LineWriter(buf, SubSeq(text, 1, k)) = AfterPieces(n, Len(buf) + k)
<1>1. PICK p : p = SubSeq(text, 1, k)
  OBVIOUS
<1>2. /\ n \in Nat
      /\ \/ Len(buf) = 0 /\ buf = <<>>
         \/ Len(buf) = 1 /\ buf = <<n + 1>>
  BY DEF Pending
<1>3. PICK b \in {0, 1} : b = Len(buf)
  BY <1>2
<1>4. /\ k \in Nat /\ DOMAIN p = 1..k
      /\ \A i \in 1..k : p[i] = PieceOf(n, b + i)
  <2>1. text \in Seq(Nat) /\ \A i \in 1..Len(text) : text[i] = PieceOf(n, b + i)
    BY <1>2, <1>3 DEF Pending
  <2>2. PICK len \in Nat : len = Len(text) /\ k \in 0..len
    BY <2>1
  <2>3. DOMAIN p = 1..k /\ \A i \in 1..k : p[i] = text[i]
    BY <1>1, <2>1, FirstOf
  <2>4. k \in Nat /\ \A i \in 1..k : i \in 1..len
    BY <2>2
  <2> QED
    BY <2>1, <2>2, <2>3, <2>4
<1>5. PICK base : base = [buf |-> buf, lines |-> <<>>]
  OBVIOUS
<1>6. base = AfterPieces(n, b)
  <2>1. PICK none : none = <<>>
    OBVIOUS
  <2>2. [i \in 1..0 |-> <<n + i>>] = none
    BY <2>1
  <2>3. base = [buf |-> buf, lines |-> none]
    BY <1>5, <2>1
  <2>4. CASE b = 0
    <3>1. buf = none
      BY <1>2, <1>3, <2>1, <2>4
    <3>2. b % 2 = 0 /\ b \div 2 = 0
      BY <2>4
    <3> QED
      BY <2>1, <2>2, <2>3, <3>1, <3>2 DEF AfterPieces
  <2>5. CASE b = 1
    <3>1. buf = <<n + 1>>
      BY <1>2, <1>3, <2>5
    <3>2. b % 2 = 1 /\ b \div 2 = 0 /\ (b + 1) \div 2 = 1
      BY <2>5
    <3> QED
      BY <2>2, <2>3, <3>1, <3>2 DEF AfterPieces
  <2> QED
    BY <1>2, <1>3, <2>4, <2>5
<1> DEFINE T == [i \in 0..k |-> {AfterPieces(n, b + i)}]
<1>7. base \in T[0]
  BY <1>2, <1>3, <1>4, <1>6
<1>8. \A i \in 1..k : \A x \in T[i - 1] : WriteStep("", x, p[i]) \in T[i]
  <2> SUFFICES ASSUME NEW i \in 1..k
               PROVE  WritePiece(AfterPieces(n, b + (i - 1)), p[i]) = AfterPieces(n, b + i)
    BY DEF WriteStep
  <2>1. PICK m : m = b + (i - 1)
    OBVIOUS
  <2>2. m \in Nat /\ m + 1 = b + i
    BY <1>4, <2>1
  <2> QED
    BY <1>4, <2>1, <2>2, OnePiece DEF Pending
<1>9. T[k] = {AfterPieces(n, b + k)}
  BY <1>4
<1> HIDE DEF T
<1>10. Writer!Fold("", base, p) \in T[k]
  BY <1>4, <1>7, <1>8, Writer!FoldInduct
<1>11. LineWriter(buf, p) = Writer!Fold("", base, p)
  BY <1>5 DEF LineWriter, Writer!Fold, Writer!Follows, Writer!Greatest, WriteStep,
              Seqs!FoldLeft, Seqs!MapThenFoldSet, Seqs!Max
<1> QED
  BY <1>1, <1>3, <1>9, <1>10, <1>11

\* A line more moves the count.
LEMMA PieceShift ==
  ASSUME NEW n \in Nat, NEW q \in Nat, NEW i \in Nat
  PROVE  PieceOf(n, 2 * q + i) = PieceOf(n + q, i)
<1>1. PICK x \in Nat : x = 2 * q + i
  OBVIOUS
<1>2. x % 2 = i % 2 /\ (x + 1) \div 2 = q + (i + 1) \div 2
  BY <1>1
<1>3. (i + 1) \div 2 \in Nat
  OBVIOUS
<1> QED
  BY <1>1, <1>2, <1>3 DEF PieceOf

\* What a Write leaves pending, and the lines that it completes.
LEMMA WriteFacts ==
  ASSUME NEW n, NEW buf, NEW text, Pending(n, buf, text), NEW k \in 0..Len(text)
  PROVE  \E w : \E q \in Nat :
           /\ w = LineWriter(buf, SubSeq(text, 1, k))
           /\ Len(w.lines) = q /\ \A i \in 1..q : w.lines[i] = <<n + i>>
           /\ Pending(n + q, w.buf, SubSeq(text, k + 1, Len(text)))
<1>1. PICK b \in {0, 1} : b = Len(buf)
  BY DEF Pending
<1>2. /\ n \in Nat /\ text \in Seq(Nat)
      /\ \A i \in 1..Len(text) : text[i] = PieceOf(n, b + i)
  BY <1>1 DEF Pending
<1>3. PICK len \in Nat : len = Len(text)
  BY <1>2
<1>4. PICK m \in Nat : m = b + k
  BY <1>1, <1>3
<1>5. PICK q, r \in Nat : m = 2 * q + r /\ q = m \div 2 /\ r = m % 2 /\ r \in {0, 1}
  OBVIOUS
<1>6. PICK w : w = LineWriter(buf, SubSeq(text, 1, k))
  OBVIOUS
<1>7. w = AfterPieces(n, m)
  BY <1>1, <1>4, <1>6, WriterIs
<1>8. Len(w.lines) = q /\ \A i \in 1..q : w.lines[i] = <<n + i>>
  <2>1. PICK lines : lines = [i \in 1..q |-> <<n + i>>]
    OBVIOUS
  <2>2. w.lines = lines
    BY <1>5, <1>7, <2>1 DEF AfterPieces
  <2> QED
    BY <2>1, <2>2
<1>9. w.buf = IF r = 0 THEN <<>> ELSE <<(n + q) + 1>>
  <2>1. w.buf = IF r = 0 THEN <<>> ELSE <<n + (m + 1) \div 2>>
    BY <1>5, <1>7 DEF AfterPieces
  <2>2. r = 1 => n + (m + 1) \div 2 = (n + q) + 1
    BY <1>2, <1>5
  <2> QED
    BY <1>5, <2>1, <2>2
<1>10. w.buf \in {<<>>, <<(n + q) + 1>>} /\ Len(w.buf) = r
  BY <1>5, <1>9
<1>11. PICK t : t = SubSeq(text, k + 1, len)
  OBVIOUS
<1>12. /\ t \in Seq(Nat) /\ Len(t) = len - k
       /\ \A i \in 1..len - k : t[i] = text[k + i]
  <2>1. k + 1 \in Int /\ len \in Int /\ \A i \in k + 1..len : text[i] \in Nat
    BY <1>2, <1>3
  <2>2. /\ t \in Seq(Nat)
        /\ Len(t) = IF k + 1 <= len THEN len - (k + 1) + 1 ELSE 0
        /\ \A i \in 1..len - (k + 1) + 1 : t[i] = text[(k + 1) + i - 1]
    BY <1>11, <2>1, SubSeqProperties
  <2>3. len - (k + 1) + 1 = len - k /\ \A i \in Int : (k + 1) + i - 1 = k + i
    BY <1>3
  <2> QED
    BY <1>3, <2>2, <2>3
<1>13. \A i \in 1..Len(t) : t[i] = PieceOf(n + q, r + i)
  <2> TAKE i \in 1..Len(t)
  <2>1. k \in 0..len /\ Len(t) = len - k /\ i \in 1..len - k
    BY <1>3, <1>12
  <2>2. k + i \in 1..len /\ i \in Nat
    BY <2>1
  <2>3. r + i \in Nat
    BY <1>5, <2>2
  <2>4. b + (k + i) = 2 * q + (r + i)
    BY <1>1, <1>4, <1>5, <2>1
  <2>5. t[i] = PieceOf(n, b + (k + i))
    BY <1>2, <1>3, <1>12, <2>1, <2>2
  <2>6. PieceOf(n, 2 * q + (r + i)) = PieceOf(n + q, r + i)
    BY <1>2, <2>3, PieceShift, ZenonT(60)
  <2> QED
    BY <2>4, <2>5, <2>6
<1>14. Pending(n + q, w.buf, t)
  <2>1. n + q \in Nat
    BY <1>2
  <2> QED
    BY <1>10, <1>12, <1>13, <2>1 DEF Pending
<1> QED
  BY <1>3, <1>6, <1>8, <1>11, <1>14

\* What was sent after n lines: each line with its number, in order, and
\* nothing after the last message.
Message == [done : BOOLEAN, current : Nat, line : Seq(Nat)]
NoneDone(sent) == \A i \in DOMAIN sent : ~sent[i].done
SentOK(sent, n) ==
  /\ sent \in Seq(Message)
  /\ \A i \in DOMAIN sent :
       IF sent[i].done THEN sent[i].current = 0
       ELSE /\ sent[i].current <= n
            /\ sent[i].current > 0 => sent[i].line = <<sent[i].current>>
  /\ \A i, j \in DOMAIN sent :
       i < j => /\ ~sent[i].done
                /\ sent[i].current <= sent[j].current \/ sent[j].done

\* What holds of a stream's call from its arrival to its answer.
StreamOK(c) ==
  /\ c.n \in Nat /\ SentOK(c.sent, c.n)
  /\ c.pc # "done" => NoneDone(c.sent)
  /\ c.pc = "done" => (c.code = "OK" <=> ~NoneDone(c.sent))
  /\ c.pc \in {"arrived", "ready"} => c.sent = <<>> /\ c.n = 0 /\ c.buf = <<>>
  /\ c.pc = "working" => Pending(c.n, c.buf, c.text)
StreamInv == call.pc # "idle" /\ IsStream(call.req.rpc) => StreamOK(call)

LEMMA NothingSent ==
  ASSUME NEW sent, sent = <<>>, NEW n
  PROVE  SentOK(sent, n) /\ NoneDone(sent)
<1>1. sent \in Seq(Message) /\ DOMAIN sent = {}
  OBVIOUS
<1> QED
  BY <1>1 DEF SentOK, NoneDone

\* Messages sent after others.
LEMMA MoreSent ==
  ASSUME NEW n \in Nat, NEW N \in Nat, n <= N,
         NEW sent, SentOK(sent, n), NoneDone(sent),
         NEW more, SentOK(more, N),
         \A i \in DOMAIN more : more[i].done \/ n <= more[i].current
  PROVE  /\ SentOK(sent \o more, N)
         /\ NoneDone(sent \o more) <=> NoneDone(more)
<1>1. PICK x : x = sent \o more
  OBVIOUS
<1>2. sent \in Seq(Message) /\ more \in Seq(Message)
  BY DEF SentOK
<1>3. PICK a, b \in Nat : a = Len(sent) /\ b = Len(more)
  BY <1>2
<1>4. /\ x \in Seq(Message) /\ DOMAIN x = 1..a + b
      /\ DOMAIN sent = 1..a /\ DOMAIN more = 1..b
      /\ \A i \in 1..a + b : x[i] = IF i <= a THEN sent[i] ELSE more[i - a]
  <2>1. /\ sent \o more \in Seq(Message) /\ Len(sent \o more) = Len(sent) + Len(more)
        /\ \A i \in 1..Len(sent) + Len(more) :
             (sent \o more)[i] = IF i <= Len(sent) THEN sent[i] ELSE more[i - Len(sent)]
    BY <1>2, ConcatProperties
  <2>2. /\ x \in Seq(Message) /\ Len(x) = a + b
        /\ \A i \in 1..a + b : x[i] = IF i <= a THEN sent[i] ELSE more[i - a]
    BY <1>1, <1>3, <2>1
  <2> QED
    BY <1>2, <1>3, <2>2
<1>5. \A i \in 1..a + b : \/ i \in 1..a /\ x[i] = sent[i]
                          \/ i - a \in 1..b /\ x[i] = more[i - a]
  BY <1>4
<1>6. \A i \in 1..b : i + a \in 1..a + b /\ x[i + a] = more[i]
  <2> TAKE i \in 1..b
  <2>1. i + a \in 1..a + b /\ ~(i + a <= a) /\ (i + a) - a = i
    OBVIOUS
  <2> QED
    BY <1>4, <2>1
<1>7. \A i \in 1..a : sent[i].current \in Nat
  <2>1. \A i \in 1..a : sent[i] \in Message
    BY <1>2, <1>4
  <2> QED
    BY <2>1 DEF Message
<1>8. \A i \in 1..b : more[i].current \in Nat
  <2>1. \A i \in 1..b : more[i] \in Message
    BY <1>2, <1>4
  <2> QED
    BY <2>1 DEF Message
<1>9. ASSUME NEW i \in 1..a + b
      PROVE  IF x[i].done THEN x[i].current = 0
             ELSE /\ x[i].current <= N
                  /\ x[i].current > 0 => x[i].line = <<x[i].current>>
  <2>1. CASE i \in 1..a /\ x[i] = sent[i]
    <3>1. /\ ~sent[i].done /\ sent[i].current <= n
          /\ sent[i].current > 0 => sent[i].line = <<sent[i].current>>
      BY <1>4, <2>1 DEF SentOK, NoneDone
    <3>2. sent[i].current <= N
      BY <1>7, <2>1, <3>1
    <3> QED
      BY <2>1, <3>1, <3>2
  <2>2. CASE i - a \in 1..b /\ x[i] = more[i - a]
    BY <1>4, <2>2 DEF SentOK
  <2> QED
    BY <1>5, <2>1, <2>2
<1>10. ASSUME NEW i \in 1..a + b, NEW j \in 1..a + b, i < j
       PROVE  /\ ~x[i].done
              /\ x[i].current <= x[j].current \/ x[j].done
  <2>1. CASE j \in 1..a /\ x[j] = sent[j]
    <3>1. i \in 1..a /\ x[i] = sent[i]
      BY <1>4, <1>10, <2>1
    <3> QED
      BY <1>4, <1>10, <2>1, <3>1 DEF SentOK
  <2>2. CASE j - a \in 1..b /\ x[j] = more[j - a]
    <3>1. CASE i \in 1..a /\ x[i] = sent[i]
      <4>1. ~sent[i].done /\ sent[i].current <= n
        BY <1>4, <3>1 DEF SentOK, NoneDone
      <4>2. more[j - a].done \/ n <= more[j - a].current
        BY <1>4, <2>2
      <4>3. sent[i].current \in Nat /\ more[j - a].current \in Nat
        BY <1>7, <1>8, <2>2, <3>1
      <4>4. more[j - a].done \/ sent[i].current <= more[j - a].current
        BY <4>1, <4>2, <4>3
      <4> QED
        BY <2>2, <3>1, <4>1, <4>4
    <3>2. CASE i - a \in 1..b /\ x[i] = more[i - a]
      <4>1. i - a < j - a
        BY <1>10
      <4> QED
        BY <1>4, <2>2, <3>2, <4>1 DEF SentOK
    <3> QED
      BY <1>5, <3>1, <3>2
  <2> QED
    BY <1>5, <2>1, <2>2
<1>11. SentOK(x, N)
  BY <1>4, <1>9, <1>10 DEF SentOK
<1>12. NoneDone(x) <=> NoneDone(more)
  <2>1. \A i \in 1..a : ~sent[i].done
    BY <1>4 DEF NoneDone
  <2> QED
    BY <1>4, <1>5, <1>6, <2>1 DEF NoneDone
<1> QED
  BY <1>1, <1>11, <1>12

\* A stream's call that ends with an error has not sent its last message.
LEMMA StreamFails ==
  ASSUME IsCall(call), StreamOK(call), call.pc # "done", NEW code, code # "OK",
         call' = [call EXCEPT !.pc = "done", !.code = code]
  PROVE  StreamOK(call')
<1>1. /\ call'.n = call.n /\ call'.sent = call.sent
      /\ call'.pc = "done" /\ call'.code = code
  BY DEF IsCall
<1> QED
  BY <1>1 DEF StreamOK

LEMMA LinesPend ==
  ASSUME DiskOK, NEW req
  PROVE  Pending(0, <<>>, Lines(req))
<1>1. PICK content :
        content = IF req.rpc = "CommitStream" THEN work
                  ELSE IF req.state \in DOMAIN states THEN states[req.state].content
                  ELSE [files |-> <<>>]
  OBVIOUS
<1>2. IsFiniteSet(DOMAIN content.files)
  <2>1. CASE content = work
    BY <2>1, ContentsAssumption DEF DiskOK
  <2>2. CASE req.state \in DOMAIN states /\ content = states[req.state].content
    <3>1. states[req.state] \in StateSet
      BY <2>2 DEF DiskOK
    <3> QED
      BY <2>2, <3>1, ContentsAssumption DEF StateSet
  <2>3. CASE content = [files |-> <<>>]
    <3>1. PICK none : none = <<>>
      OBVIOUS
    <3>2. content.files = none
      BY <2>3, <3>1
    <3>3. DOMAIN none = {}
      BY <3>1
    <3>4. PICK names : names = DOMAIN content.files
      OBVIOUS
    <3>5. names = {}
      BY <3>2, <3>3, <3>4
    <3>6. IsFiniteSet(names)
      BY <3>5, FS_EmptySet
    <3> QED
      BY <3>4, <3>6
  <2> QED
    BY <1>1, <2>1, <2>2, <2>3
<1>3. PICK N \in Nat : N = Cardinality(DOMAIN content.files)
  <2>1. PICK names : names = DOMAIN content.files
    OBVIOUS
  <2>2. IsFiniteSet(names)
    BY <1>2, <2>1
  <2>3. Cardinality(names) \in Nat
    BY <2>2, FS_CardinalityType
  <2> QED
    BY <2>1, <2>3
<1>4. PICK text : text = Lines(req)
  OBVIOUS
<1>5. text = [i \in 1..2 * N |-> IF i % 2 = 0 THEN 0 ELSE (i + 1) \div 2]
  BY <1>1, <1>3, <1>4 DEF Lines
<1>6. \A i \in 1..2 * N : (IF i % 2 = 0 THEN 0 ELSE (i + 1) \div 2) \in Nat
  OBVIOUS
<1>7. text \in Seq(Nat) /\ Len(text) = 2 * N
  BY <1>5, <1>6
<1>8. PICK none : none = <<>> /\ Len(none) = 0
  OBVIOUS
<1>9. \A i \in 1..2 * N : text[i] = PieceOf(0, Len(none) + i)
  BY <1>5, <1>8 DEF PieceOf
<1> QED
  BY <1>4, <1>7, <1>8, <1>9 DEF Pending

\* One message sent.
LEMMA OneSent ==
  ASSUME NEW n \in Nat, NEW sent, SentOK(sent, n), NoneDone(sent),
         NEW msg \in Message, msg.current = 0, msg.done \/ n = 0
  PROVE  /\ SentOK(Append(sent, msg), n)
         /\ NoneDone(Append(sent, msg)) <=> ~msg.done
<1>1. PICK one : one = <<msg>>
  OBVIOUS
<1>2. one \in Seq(Message) /\ DOMAIN one = {1} /\ one[1] = msg
  BY <1>1
<1>3. SentOK(one, n) /\ (NoneDone(one) <=> ~msg.done)
  BY <1>2 DEF SentOK, NoneDone
<1>4. \A i \in DOMAIN one : one[i].done \/ n <= one[i].current
  BY <1>2
<1>5. SentOK(sent \o one, n) /\ (NoneDone(sent \o one) <=> ~msg.done)
  BY <1>3, <1>4, MoreSent
<1>6. sent \o one = Append(sent, msg)
  BY <1>1 DEF SentOK
<1> QED
  BY <1>5, <1>6

LEMMA Sending ==
  ASSUME IsCall(call), NEW msg, NEW c \in Send(call, msg)
  PROVE  /\ c.n = call.n /\ c.buf = call.buf /\ IsCall(c)
         /\ \/ c.gone /\ c.sent = call.sent
            \/ ~c.gone /\ c.sent = Append(call.sent, msg)
<1>1. CASE c = [call EXCEPT !.gone = TRUE]
  BY <1>1 DEF IsCall
<1>2. CASE ~call.gone /\ c = [call EXCEPT !.sent = Append(call.sent, msg)]
  <2>1. PICK sent : sent = Append(call.sent, msg)
    OBVIOUS
  <2>2. c = [call EXCEPT !.sent = sent]
    BY <1>2, <2>1
  <2> QED
    BY <1>2, <2>1, <2>2 DEF IsCall
<1> QED
  BY <1>1, <1>2 DEF Send

LEMMA StreamStarts ==
  ASSUME DiskOK, IsCall(call), StreamOK(call), StreamStart
  PROVE  StreamOK(call')
<1>1. PICK msg, text, c :
        /\ msg = Progress(0, <<>>)
        /\ call.pc = "ready" /\ c \in Send(call, msg)
        /\ text = Lines(c.req)
        /\ call' = IF c.gone THEN [c EXCEPT !.pc = "done", !.code = "Unavailable"]
                   ELSE [c EXCEPT !.pc = "working", !.text = text]
  BY DEF StreamStart
<1>2. /\ call.n \in Nat /\ SentOK(call.sent, call.n) /\ NoneDone(call.sent)
      /\ call.n = 0 /\ call.buf = <<>>
  BY <1>1 DEF StreamOK
<1>3. msg \in Message /\ ~msg.done /\ msg.current = 0
  BY <1>1 DEF Progress, Message
<1>4. /\ c.n = call.n /\ c.buf = call.buf /\ IsCall(c)
      /\ \/ c.gone /\ c.sent = call.sent
         \/ ~c.gone /\ c.sent = Append(call.sent, msg)
  BY <1>1, Sending
<1>5. CASE c.gone
  <2>1. /\ call'.n = call.n /\ call'.sent = call.sent
        /\ call'.pc = "done" /\ call'.code = "Unavailable"
    BY <1>1, <1>4, <1>5 DEF IsCall
  <2> QED
    BY <1>2, <2>1 DEF StreamOK
<1>6. CASE ~c.gone
  <2>1. /\ call'.n = call.n /\ call'.sent = c.sent /\ call'.buf = call.buf
        /\ call'.pc = "working" /\ call'.text = text
    BY <1>1, <1>4, <1>6 DEF IsCall
  <2>2. c.sent = Append(call.sent, msg)
    BY <1>4, <1>6
  <2>3. SentOK(c.sent, call.n) /\ NoneDone(c.sent)
    BY <1>2, <1>3, <2>2, OneSent
  <2>4. Pending(call.n, call.buf, text)
    BY <1>1, <1>2, LinesPend
  <2> QED
    BY <1>2, <2>1, <2>3, <2>4 DEF StreamOK
<1> QED
  BY <1>5, <1>6

\* The lines of a Write: those that arrive are the first ones.
LEMMA StreamOutput ==
  ASSUME IsCall(call), StreamOK(call), Output
  PROVE  StreamOK(call')
<1>1. PICK k \in 1..Len(call.text) :
        /\ call.pc = "working"
        /\ \E m \in IF call.gone THEN {0} ELSE 0..Len(WrittenLines(k).lines) :
             call' = Written(k, m)
  BY DEF Output
<1>2. PICK m : /\ m \in IF call.gone THEN {0} ELSE 0..Len(WrittenLines(k).lines)
               /\ call' = Written(k, m)
  BY <1>1
<1>3. PICK n, buf, text, sent : /\ n = call.n /\ buf = call.buf
                               /\ text = call.text /\ sent = call.sent
  OBVIOUS
<1>4. n \in Nat /\ SentOK(sent, n) /\ NoneDone(sent) /\ Pending(n, buf, text)
  BY <1>1, <1>3 DEF StreamOK
<1>5. PICK w : \E q \in Nat :
        /\ w = LineWriter(buf, SubSeq(text, 1, k))
        /\ Len(w.lines) = q /\ \A i \in 1..q : w.lines[i] = <<n + i>>
        /\ Pending(n + q, w.buf, SubSeq(text, k + 1, Len(text)))
  <2>1. k \in 0..Len(text)
    BY <1>1, <1>3, <1>4 DEF Pending
  <2> QED
    BY <1>4, <2>1, WriteFacts
<1>6. PICK q \in Nat :
        /\ w = LineWriter(buf, SubSeq(text, 1, k))
        /\ Len(w.lines) = q /\ \A i \in 1..q : w.lines[i] = <<n + i>>
        /\ Pending(n + q, w.buf, SubSeq(text, k + 1, Len(text)))
  BY <1>5
<1>7. w = WrittenLines(k)
  BY <1>3, <1>6 DEF WrittenLines
<1>8. m \in 0..q
  BY <1>2, <1>6, <1>7
<1>9. PICK rest, more, gone :
        /\ rest = SubSeq(text, k + 1, Len(text))
        /\ more = [i \in 1..m |-> Progress(n + i, w.lines[i])]
        /\ call' = [call EXCEPT !.buf = w.buf, !.text = rest, !.n = n + Len(w.lines),
                                !.sent = sent \o more, !.gone = gone]
  BY <1>2, <1>3, <1>7, ZenonT(60) DEF Written
<1>10. /\ call'.n = n + q /\ call'.buf = w.buf /\ call'.text = rest
       /\ call'.sent = sent \o more /\ call'.pc = "working"
  BY <1>1, <1>6, <1>9 DEF IsCall
<1>11. /\ more \in Seq(Message) /\ DOMAIN more = 1..m
       /\ \A i \in 1..m : /\ more[i].done = FALSE /\ more[i].current = n + i
                          /\ more[i].line = <<n + i>>
  <2>1. \A i \in 1..m : w.lines[i] = <<n + i>> /\ i \in Nat
    BY <1>6, <1>8
  <2>2. \A i \in 1..m : /\ Progress(n + i, <<n + i>>) \in Message
                        /\ Progress(n + i, <<n + i>>).done = FALSE
                        /\ Progress(n + i, <<n + i>>).current = n + i
                        /\ Progress(n + i, <<n + i>>).line = <<n + i>>
    BY <1>4, <2>1 DEF Progress, Message
  <2>3. /\ DOMAIN more = 1..m /\ \A i \in 1..m : more[i] = Progress(n + i, <<n + i>>)
    BY <1>9, <2>1
  <2>4. m \in Nat
    BY <1>8
  <2>5. \A i \in 1..m : more[i] \in Message
    BY <2>2, <2>3
  <2>6. more = [i \in 1..m |-> more[i]]
    BY <1>9
  <2>7. more \in Seq(Message)
    BY <2>4, <2>5, <2>6
  <2> QED
    BY <2>2, <2>3, <2>7
<1>12. SentOK(more, n + q) /\ NoneDone(more)
  <2>1. \A i \in 1..m : n + i <= n + q /\ n + i > 0
    BY <1>4, <1>8
  <2>2. \A i, j \in 1..m : i < j => n + i <= n + j
    BY <1>4, <1>8
  <2> QED
    BY <1>11, <2>1, <2>2 DEF SentOK, NoneDone
<1>13. \A i \in DOMAIN more : n <= more[i].current
  BY <1>4, <1>8, <1>11
<1>14. n + q \in Nat /\ n <= n + q
  BY <1>4
<1>15. SentOK(sent \o more, n + q) /\ NoneDone(sent \o more)
  BY <1>4, <1>12, <1>13, <1>14, MoreSent
<1>16. Pending(n + q, w.buf, rest)
  BY <1>6, <1>9
<1> QED
  BY <1>10, <1>14, <1>15, <1>16 DEF StreamOK

LEMMA StreamEnds ==
  ASSUME IsCall(call), StreamOK(call), StreamDone
  PROVE  StreamOK(call')
<1>1. PICK msg, c, code :
        /\ msg = [done |-> TRUE, current |-> 0, line |-> <<>>]
        /\ call.pc = "reply" /\ c \in Send(call, msg)
        /\ code = IF c.gone THEN "Unavailable" ELSE "OK"
        /\ call' = [c EXCEPT !.pc = "done", !.code = code]
  BY Zenon DEF StreamDone
<1>2. call.n \in Nat /\ SentOK(call.sent, call.n) /\ NoneDone(call.sent)
  BY <1>1 DEF StreamOK
<1>3. msg \in Message /\ msg.done /\ msg.current = 0
  <2>1. PICK none : none = <<>>
    OBVIOUS
  <2>2. none \in Seq(Nat)
    BY <2>1
  <2>3. msg = [done |-> TRUE, current |-> 0, line |-> none]
    BY <1>1, <2>1
  <2> QED
    BY <2>2, <2>3 DEF Message
<1>4. /\ c.n = call.n /\ IsCall(c)
      /\ \/ c.gone /\ c.sent = call.sent
         \/ ~c.gone /\ c.sent = Append(call.sent, msg)
  BY <1>1, Sending
<1>5. /\ call'.n = call.n /\ call'.sent = c.sent
      /\ call'.pc = "done" /\ call'.code = code
  BY <1>1, <1>4 DEF IsCall
<1>6. SentOK(c.sent, call.n) /\ (NoneDone(c.sent) <=> c.gone)
  BY <1>2, <1>3, <1>4, OneSent
<1> QED
  BY <1>1, <1>2, <1>5, <1>6 DEF StreamOK

LEMMA StreamResults ==
  ASSUME IsCall(call), StreamOK(call), StreamResult
  PROVE  StreamOK(call')
<1>1. PICK next : /\ next = [call EXCEPT !.pc = "reply"] /\ call.pc = "working"
                  /\ CommitLibrary(next) \/ RestoreLibrary(next)
  BY DEF StreamResult
<1>2. ASSUME NEW wrote, NEW reply, call' = [next EXCEPT !.wrote = wrote, !.reply = reply]
      PROVE  StreamOK(call')
  <2>1. call'.n = call.n /\ call'.sent = call.sent /\ call'.pc = "reply"
    BY <1>1, <1>2 DEF IsCall
  <2> QED
    BY <1>1, <2>1 DEF StreamOK
<1> QED
  BY <1>1, <1>2 DEF CommitLibrary, RestoreLibrary

LEMMA StreamStep ==
  ASSUME IInv, StreamInv, Next
  PROVE  StreamInv'
<1>1. DiskOK /\ CallOK
  BY DEF IInv
<1>2. CASE call' = call
  BY <1>2 DEF StreamInv, StreamOK
<1>3. CASE call' = NoCall
  BY <1>3 DEF StreamInv, NoCall
<1>4. ASSUME NEW req, call' = Fresh(req)
      PROVE  StreamInv'
  <2>1. PICK none : none = <<>>
    OBVIOUS
  <2>2. /\ call'.n = 0 /\ call'.sent = none /\ call'.pc = "arrived" /\ call'.buf = none
    BY <1>4, <2>1 DEF Fresh
  <2>3. SentOK(none, 0) /\ NoneDone(none)
    BY <2>1, NothingSent
  <2> QED
    BY <2>1, <2>2, <2>3 DEF StreamInv, StreamOK
<1>5. CASE Admit
  <2>1. PICK code : code = Admission(config, call.req)
    OBVIOUS
  <2>2. IsCall(call) /\ call.pc = "arrived"
    BY <1>1, <1>5 DEF Admit, CallOK
  <2>3. CASE Finish(code) /\ code # "OK"
    <3>1. call' = [call EXCEPT !.pc = "done", !.code = code]
      BY <2>3, Zenon DEF Finish
    <3>2. call'.req = call.req
      BY <2>2, <3>1 DEF IsCall
    <3> QED
      BY <2>2, <2>3, <3>1, <3>2, StreamFails DEF StreamInv
  <2>4. ASSUME NEW loc, NEW dest,
               call' = [call EXCEPT !.pc = "ready", !.loc = loc, !.dest = dest]
        PROVE  StreamInv'
    <3>1. /\ call'.req = call.req /\ call'.pc = "ready" /\ call'.n = call.n
          /\ call'.sent = call.sent /\ call'.buf = call.buf
      BY <2>2, <2>4 DEF IsCall
    <3> QED
      BY <2>2, <3>1 DEF StreamInv, StreamOK
  <2> QED
    BY <1>5, <2>1, <2>3, <2>4 DEF Admit
<1>6. CASE Handle
  <2>1. /\ IsCall(call) /\ call'.req = call.req
        /\ call.pc \in {"ready", "working", "reading", "reply"}
    <3>1. Serves /\ call.pc \in {"ready", "working", "reading", "reply"}
      BY <1>6, HandleStep DEF IInv
    <3> QED
      BY <1>1, <3>1 DEF Serves, CallOK
  <2>2. SUFFICES ASSUME IsStream(call.req.rpc), StreamOK(call)
                 PROVE  StreamOK(call')
    BY <2>1 DEF StreamInv
  <2>3. CASE LibraryFails
    <3>1. PICK code : code # "OK" /\ Finish(code)
      BY <2>3, ErrorCodes DEF LibraryFails
    <3>2. call' = [call EXCEPT !.pc = "done", !.code = code]
      BY <3>1, Zenon DEF Finish
    <3> QED
      BY <2>1, <2>2, <3>1, <3>2, StreamFails
  <2>4. \/ LibraryFails \/ StreamStart \/ Output \/ StreamResult \/ StreamDone
    BY <1>1, <1>6, <2>2 DEF Handle, Ready, IsStream, Probe, InitRepository, Commit, Restore,
       ListCommits, GetCommit, ListFiles, GetFile, Diff, GetChunk, CallOK
  <2> QED
    BY <1>1, <2>1, <2>2, <2>3, <2>4, StreamStarts, StreamOutput, StreamResults, StreamEnds
<1> QED
  BY <1>2, <1>3, <1>4, <1>5, <1>6
  DEF Next, Start, RemoveSocket, Listen, Chmod, Crash, Receive, ListPage,
      Return, Edit, OtherCommit

-----------------------------------------------------------------------------
(* The chunks of GetFile.                                                  *)

\* What a chunk carries, and chunks that follow each other from the start of
\* all on, chunk k from offset e[k - 1] up to e[k].
Chunk == [off : Nat, data : Seq(Nat)]
Chunks(sent, all, m, e, off) ==
  /\ all \in Seq(Nat) /\ m \in Nat
  /\ sent \in Seq(Chunk) /\ Len(sent) = m
  /\ e[0] = 0 /\ e[m] = off
  /\ \A k \in 0..m : e[k] \in 0..Len(all)
  /\ \A k \in 1..m : /\ e[k - 1] <= e[k] /\ sent[k].off = e[k - 1]
                     /\ sent[k].data = SubSeq(all, e[k - 1] + 1, e[k])
InOrder(sent, all, off) == \E m, e : Chunks(sent, all, m, e, off)

LEMMA NoChunk ==
  ASSUME NEW all \in Seq(Nat), NEW sent, sent = <<>>
  PROVE  InOrder(sent, all, 0)
<1>1. PICK e : e = [k \in 0..0 |-> 0]
  OBVIOUS
<1>2. PICK n \in Nat : n = Len(all)
  OBVIOUS
<1>3. e[0] = 0 /\ \A k \in 0..0 : e[k] = 0
  BY <1>1
<1>4. sent \in Seq(Chunk) /\ Len(sent) = 0 /\ \A k \in 1..0 : FALSE
  OBVIOUS
<1>5. \A k \in 0..0 : e[k] \in 0..Len(all)
  BY <1>2, <1>3
<1>6. Chunks(sent, all, 0, e, 0)
  BY <1>3, <1>4, <1>5 DEF Chunks
<1> QED
  BY <1>6 DEF InOrder

LEMMA ChunkOf ==
  ASSUME NEW off \in Nat, NEW part \in Seq(Nat), NEW chunk,
         chunk = [off |-> off, data |-> part]
  PROVE  chunk \in Chunk /\ chunk.off = off /\ chunk.data = part
BY DEF Chunk

LEMMA MoreChunk ==
  ASSUME NEW sent, NEW all, NEW off, InOrder(sent, all, off),
         NEW stop \in off..Len(all), NEW chunk,
         chunk = [off |-> off, data |-> SubSeq(all, off + 1, stop)]
  PROVE  InOrder(Append(sent, chunk), all, stop)
<1>1. PICK m, e : Chunks(sent, all, m, e, off)
  BY DEF InOrder
<1>2. /\ all \in Seq(Nat) /\ m \in Nat /\ sent \in Seq(Chunk) /\ Len(sent) = m
      /\ e[0] = 0 /\ e[m] = off
      /\ \A k \in 0..m : e[k] \in 0..Len(all)
      /\ \A k \in 1..m : /\ e[k - 1] <= e[k] /\ sent[k].off = e[k - 1]
                         /\ sent[k].data = SubSeq(all, e[k - 1] + 1, e[k])
  BY <1>1, Zenon DEF Chunks
<1>3. PICK n \in Nat : n = Len(all)
  BY <1>2
<1>4. off \in 0..n /\ stop \in off..n /\ stop \in Nat /\ off \in Nat
  BY <1>2, <1>3
<1>5. PICK part : part = SubSeq(all, off + 1, stop)
  OBVIOUS
<1>6. part \in Seq(Nat)
  BY <1>2, <1>3, <1>4, <1>5, Part
<1>7. chunk \in Chunk /\ chunk.off = off /\ chunk.data = part
  <2>1. chunk = [off |-> off, data |-> part]
    BY <1>5
  <2> QED
    BY <1>4, <1>6, <2>1, ChunkOf, ZenonT(60)
<1>8. PICK next : next = Append(sent, chunk)
  OBVIOUS
<1>9. /\ next \in Seq(Chunk) /\ Len(next) = m + 1 /\ next[m + 1] = chunk
      /\ \A k \in 1..m : next[k] = sent[k]
  BY <1>2, <1>7, <1>8, AppendProperties
<1>10. PICK f : f = [k \in 0..m + 1 |-> IF k = m + 1 THEN stop ELSE e[k]]
  OBVIOUS
<1>11. f[m + 1] = stop /\ \A k \in 0..m : f[k] = e[k]
  BY <1>2, <1>10
<1>12. \A k \in 0..m + 1 : f[k] \in 0..n
  <2> TAKE k \in 0..m + 1
  <2>1. CASE k = m + 1
    BY <1>4, <1>11, <2>1
  <2>2. CASE k # m + 1
    <3>1. k \in 0..m
      BY <1>2, <2>2
    <3> QED
      BY <1>2, <1>3, <1>11, <3>1
  <2> QED
    BY <2>1, <2>2
<1>13. ASSUME NEW k \in 1..m + 1
       PROVE  /\ f[k - 1] <= f[k] /\ next[k].off = f[k - 1]
              /\ next[k].data = SubSeq(all, f[k - 1] + 1, f[k])
  <2>1. CASE k = m + 1
    <3>1. k - 1 = m /\ m \in 0..m
      BY <1>2, <2>1
    <3>2. f[k - 1] = off /\ f[k] = stop /\ next[k] = chunk
      BY <1>2, <1>9, <1>11, <2>1, <3>1
    <3>3. off <= stop
      BY <1>4
    <3> QED
      BY <1>5, <1>7, <3>2, <3>3, Zenon
  <2>2. CASE k # m + 1
    <3>1. k \in 1..m /\ k \in 0..m /\ k - 1 \in 0..m
      BY <1>2, <2>2
    <3>2. f[k - 1] = e[k - 1] /\ f[k] = e[k] /\ next[k] = sent[k]
      BY <1>9, <1>11, <3>1
    <3> QED
      BY <1>2, <3>1, <3>2, Zenon
  <2> QED
    BY <2>1, <2>2
<1>14. m + 1 \in Nat /\ f[0] = 0
  BY <1>2, <1>11
<1>15. Chunks(next, all, m + 1, f, stop)
  BY <1>2, <1>3, <1>9, <1>11, <1>12, <1>13, <1>14, Zenon DEF Chunks
<1> QED
  BY <1>8, <1>15, Zenon DEF InOrder

\* The data of the first k chunks is what the file has up to their end.
UpTo(sent, all, e, k) ==
  /\ SeqOps!FlattenSeq([i \in 1..k |-> sent[i].data]) = SubSeq(all, 1, e[k])
  /\ Len(SeqOps!FlattenSeq([i \in 1..k |-> sent[i].data])) = e[k]
LEMMA ChunksJoin ==
  ASSUME NEW sent, NEW all, NEW m, NEW e, NEW off, Chunks(sent, all, m, e, off),
         NEW k \in 0..m
  PROVE  UpTo(sent, all, e, k)
<1>1. /\ all \in Seq(Nat) /\ m \in Nat /\ sent \in Seq(Chunk) /\ Len(sent) = m
      /\ e[0] = 0 /\ e[m] = off
      /\ \A i \in 0..m : e[i] \in 0..Len(all)
      /\ \A i \in 1..m : /\ e[i - 1] <= e[i]
                         /\ sent[i].data = SubSeq(all, e[i - 1] + 1, e[i])
  BY Zenon DEF Chunks
<1>2. PICK seqs : seqs = [i \in 1..k |-> sent[i].data]
  OBVIOUS
<1>3. k \in Nat /\ \A i \in 1..k : i \in 1..m
  BY <1>1
<1>4. \A i \in 1..k : seqs[i] = sent[i].data /\ seqs[i] \in Seq(Nat)
  <2> TAKE i \in 1..k
  <2>1. sent[i] \in Chunk
    BY <1>1, <1>3
  <2> QED
    BY <1>2, <2>1 DEF Chunk
<1>5. seqs \in [1..k -> Seq(Nat)] /\ Len(seqs) = k
  BY <1>2, <1>3, <1>4
<1>6. \A i \in 0..k : i \in 0..m
  BY <1>1, <1>3
<1>7. PartsOf(Nat, all, k, e, seqs)
  BY <1>1, <1>3, <1>4, <1>5, <1>6, Zenon DEF PartsOf
<1>8. SeqOps!FlattenSeq(seqs) = SubSeq(all, e[0] + 1, e[k])
  BY <1>7, FlattenParts
<1>9. SeqOps!FlattenSeq(seqs) = SubSeq(all, 0 + 1, e[k])
  BY <1>1, <1>8, Zenon
<1>10. Len(SubSeq(all, 0 + 1, e[k])) = e[k]
  <2>1. e[k] \in 0..Len(all) /\ 0 \in Nat
    BY <1>1
  <2>2. e[k] \in Int /\ e[k] - 0 = e[k]
    BY <1>1, <2>1
  <2> QED
    BY <1>1, <2>1, <2>2, Part
<1>11. 0 + 1 = 1
  OBVIOUS
<1> QED
  BY <1>2, <1>9, <1>10, <1>11, Zenon DEF UpTo

\* A read that does not fail gives the bytes asked for, of a file that has any.
Given(n, off, length, got) ==
  /\ Content(n) \in Seq(Nat) /\ off + length \in off..Len(Content(n))
  /\ got.data = SubSeq(Content(n), off + 1, off + length)
  /\ Len(got.data) = length /\ got.data # <<>>
LEMMA ReadGives ==
  ASSUME NEW n, NEW blockSize, NEW stores, IsWhole(n, blockSize),
         NEW off \in Nat, off < n.size, NEW length \in 1..n.size - off,
         NEW got, got = ReadAt(n, off, length, blockSize, stores), ~got.err
  PROVE  Given(n, off, length, got)
<1>1. PICK h : Lies(h, n, BlockSize(blockSize))
  BY WholeLies
<1>2. PICK all, size : all = Content(n) /\ size = n.size
  OBVIOUS
<1>3. all \in Seq(Nat) /\ size = Len(all)
  BY <1>1, <1>2, Zenon DEF Lies, IsWhole
<1>4. size \in Nat
  BY <1>3
<1>5. length \in Nat \ {0} /\ off + length \in off..size /\ off + length <= size
      /\ off + length \in Int /\ size \in Int /\ (off + length) - off = length
  BY <1>2, <1>4
<1>6. Error.err = TRUE /\ \A d : Data(d).err = FALSE /\ Data(d).data = d
  BY DEF Error, Data
<1>7. got.data = Slice(n, off, length)
  <2>1. ReadAt(n, off, length, blockSize, stores) =
          IF \A block \in Overlapping(n, off, length) : CanGet(stores, block)
            THEN Data(Slice(n, off, length)) ELSE Error
    BY <1>5, ReadsExactly
  <2> QED
    BY <1>6, <2>1
<1>8. Slice(n, off, length) = SubSeq(all, off + 1, off + length)
  <2>1. PICK stop \in Int : stop = off + length
    BY <1>5
  <2>2. SeqOps!Min({stop, size}) = IF stop <= size THEN stop ELSE size
    BY <1>5, <2>1, OfTwo, Zenon
  <2> QED
    BY <1>2, <1>5, <2>1, <2>2, Zenon DEF Slice
<1>9. Len(SubSeq(all, off + 1, off + length)) = length
  BY <1>3, <1>5, Part
<1>10. PICK data : data = SubSeq(all, off + 1, off + length)
  OBVIOUS
<1>11. data # <<>>
  BY <1>5, <1>9, <1>10
<1> QED
  BY <1>2, <1>3, <1>5, <1>7, <1>8, <1>9, <1>10, <1>11, Zenon DEF Given

LEMMA NothingToRead ==
  ASSUME NEW n, NEW blockSize, NEW stores, n.blocks = <<>>, NEW off, NEW length
  PROVE  ReadAt(n, off, length, blockSize, stores) = Data(<<>>)
<1>1. \A end, bs, first : {i \in DOMAIN n.blocks : i >= first /\ BlockStart(n, i, bs) < end} = {}
  OBVIOUS
<1>2. PICK none : none = {}
  OBVIOUS
<1>3. Cardinality(none) = 0
  BY <1>2, FS_EmptySet
<1>4. ASSUME NEW seqs, DOMAIN seqs = {}, seqs = [k \in {} |-> seqs[k]]
      PROVE  SeqOps!FlattenSeq(seqs) = <<>>
  <2>1. seqs = <<>>
    BY <1>4
  <2>2. Len(seqs) = 0 /\ seqs \in [1..0 -> Seq(Nat)] /\ 0 \in Nat
    BY <2>1
  <2>3. PICK h : JoinsTo(h, Nat, 0, seqs)
    BY <2>2, FlattenSteps, Zenon
  <2> QED
    BY <2>3, Zenon DEF JoinsTo
<1> DEFINE used(end, bs, first) == {i \in DOMAIN n.blocks : i >= first /\ BlockStart(n, i, bs) < end}
           end == SeqOps!Min({off + length, n.size})
           bs == BlockSize(blockSize)
           first == FirstBlock(n, off, bs)
           bytes(i) == SubSeq(n.blocks[i], Piece(n, i, off, end, bs).from + 1,
                              Piece(n, i, off, end, bs).to)
<1>5. PICK seqs : seqs = [k \in 1..Cardinality(none) |-> bytes(first + k - 1)]
  OBVIOUS
<1>6. SeqOps!FlattenSeq(seqs) = <<>>
  <2>1. 1..Cardinality(none) = {}
    BY <1>3
  <2>2. DOMAIN seqs = {} /\ seqs = [k \in {} |-> bytes(first + k - 1)]
    BY <1>5, <2>1, Zenon
  <2> HIDE DEF bytes, end, bs, first
  <2>3. seqs = [k \in {} |-> seqs[k]]
    BY <2>2
  <2> QED
    BY <1>4, <2>2, <2>3
<1>7. used(end, bs, first) = none
  BY <1>1, <1>2, Zenon
<1> QED
  BY <1>2, <1>5, <1>6, <1>7, Zenon DEF ReadAt

IsFile(n) == n.blocks = <<>> \/ IsWhole(n, n.blockSize)
Ordered(c) == IsWhole(c.reply, c.reply.blockSize) /\ InOrder(c.sent, Content(c.reply), c.off)

\* What holds of a GetFile from its arrival to its answer.
FileOK(c) ==
  /\ c.pc # "done" => c.code # "OK"
  /\ c.pc \in {"arrived", "ready"} => c.sent = <<>> /\ c.off = 0
  /\ c.pc = "reading" => /\ IsFile(c.reply)
                         /\ (c.sent = <<>> /\ c.off = 0) \/ Ordered(c)
  /\ c.pc = "done" => \/ c.sent = <<>>
                      \/ Ordered(c) /\ (c.code = "OK" => c.off = Len(Content(c.reply)))
FileInv == call.pc # "idle" /\ call.req.rpc = "GetFile" => FileOK(call)

\* A call that ends keeps what it sent.
LEMMA FileEnds ==
  ASSUME NEW c, IsCall(c), NEW d, NEW code, d = [c EXCEPT !.pc = "done", !.code = code],
         \/ c.sent = <<>>
         \/ Ordered(c) /\ (code = "OK" => c.off = Len(Content(c.reply)))
  PROVE  FileOK(d)
<1>1. /\ d.pc = "done" /\ d.code = code /\ d.sent = c.sent /\ d.off = c.off
      /\ d.reply = c.reply
  BY DEF IsCall
<1> QED
  BY <1>1 DEF FileOK, Ordered

LEMMA WholeSize ==
  ASSUME NEW n, IsWhole(n, n.blockSize)
  PROVE  Content(n) \in Seq(Nat) /\ n.size = Len(Content(n)) /\ n.size \in Nat
<1>1. PICK h : Lies(h, n, BlockSize(n.blockSize))
  BY WholeLies
<1>2. Content(n) \in Seq(Nat)
  BY <1>1, Zenon DEF Lies
<1>3. n.size = Len(Content(n))
  BY Zenon DEF IsWhole
<1> QED
  BY <1>2, <1>3

LEMMA FileFound ==
  ASSUME DiskOK, IsCall(call), FileOK(call), call.req \in Requests, GetFile
  PROVE  FileOK(call')
<1>1. call.pc = "ready" /\ call.sent = <<>> /\ call.off = 0
  BY DEF GetFile, Ready, FileOK
<1>2. ASSUME NEW code, Finish(code)
      PROVE  FileOK(call')
  <2>1. call' = [call EXCEPT !.pc = "done", !.code = code]
    BY <1>2, Zenon DEF Finish
  <2> QED
    BY <1>1, <2>1, FileEnds
<1>3. CASE head # 0
  <2>1. PICK content : content = states[head].content
    OBVIOUS
  <2>2. content \in Contents
    <3>1. head \in DOMAIN states
      BY <1>3 DEF DiskOK
    <3>2. states[head] \in StateSet
      BY <3>1 DEF DiskOK
    <3> QED
      BY <2>1, <3>2 DEF StateSet
  <2>3. CASE call.req.file \in DOMAIN content.files
    <3>1. PICK node : node = Node(content, call.req.file)
      OBVIOUS
    <3>2. IsFile(node)
      <4>1. node.blocks = <<>> \/ IsWhole(node, content.blockSize)
        BY <2>2, <2>3, <3>1, FilesAssumption
      <4>2. node.blockSize = content.blockSize
        BY <3>1 DEF Node
      <4> QED
        BY <4>1, <4>2, Zenon DEF IsFile
    <3>3. call' = [call EXCEPT !.pc = "reading", !.reply = node]
      BY <1>3, <2>1, <2>3, <3>1 DEF GetFile
    <3>4. /\ call'.pc = "reading" /\ call'.sent = call.sent /\ call'.off = call.off
          /\ call'.reply = node /\ call'.code = call.code
      BY <3>3 DEF IsCall
    <3> QED
      BY <1>1, <3>2, <3>4 DEF FileOK
  <2> QED
    BY <1>2, <1>3, <2>1, <2>3 DEF GetFile
<1> QED
  BY <1>2, <1>3 DEF GetFile

\* A round that sends a chunk: it begins where the one before ended.
LEMMA ChunkFollows ==
  ASSUME IsCall(call), NEW all, InOrder(call.sent, all, call.off),
         NEW stop \in call.off..Len(all), NEW data,
         data = SubSeq(all, call.off + 1, stop), Len(data) = stop - call.off,
         NEW c \in Send(call, [off |-> call.off, data |-> data]), ~c.gone,
         call' = [c EXCEPT !.off = c.off + Len(data)]
  PROVE  /\ InOrder(call'.sent, all, call'.off)
         /\ call'.reply = call.reply /\ call'.pc = call.pc /\ call'.code = call.code
<1>1. PICK chunk : chunk = [off |-> call.off, data |-> data]
  OBVIOUS
<1>2. InOrder(Append(call.sent, chunk), all, stop)
  <2>1. chunk = [off |-> call.off, data |-> SubSeq(all, call.off + 1, stop)]
    BY <1>1, Zenon
  <2> QED
    BY <2>1, MoreChunk
<1>3. PICK sent : sent = Append(call.sent, chunk)
  OBVIOUS
<1>4. c = [call EXCEPT !.sent = sent]
  <2>1. c \in Send(call, chunk)
    BY <1>1, Zenon
  <2> QED
    BY <1>3, <2>1 DEF Send, IsCall
<1>5. c.off + Len(data) = stop
  <2>1. call.off \in 0..Len(all)
    BY DEF InOrder, Chunks
  <2>2. c.off = call.off
    BY <1>4 DEF IsCall
  <2>3. stop \in Int /\ call.off \in Int
    BY <2>1
  <2>4. call.off + (stop - call.off) = stop
    BY <2>3
  <2> QED
    BY <2>2, <2>4, Zenon
<1>6. call' = [c EXCEPT !.off = stop]
  BY <1>5, Zenon
<1>7. /\ call'.sent = sent /\ call'.off = stop
      /\ call'.reply = call.reply /\ call'.pc = call.pc /\ call'.code = call.code
  BY <1>4, <1>6 DEF IsCall
<1> QED
  BY <1>2, <1>3, <1>7, Zenon

LEMMA FileReads ==
  ASSUME IsCall(call), FileOK(call), call.req \in Requests, call.req.rpc = "GetFile",
         NEW stores, GetChunk(stores)
  PROVE  FileOK(call')
<1>1. PICK node : node = call.reply
  OBVIOUS
<1>2. call.pc = "reading" /\ IsFile(node)
  BY <1>1 DEF GetChunk, FileOK
<1>3. /\ (call.sent = <<>> /\ call.off = 0) \/ Ordered(call)
  BY <1>2 DEF FileOK
<1>4. PICK size \in Nat \ {0} :
        size = IF call.req.chunk <= 0 THEN DefaultChunk ELSE call.req.chunk
  <2>1. call.req.chunk \in Int
    BY RequestsAssumption
  <2>2. PICK size : size = IF call.req.chunk <= 0 THEN DefaultChunk ELSE call.req.chunk
    OBVIOUS
  <2>3. size \in Nat \ {0}
    BY <2>1, <2>2 DEF DefaultChunk
  <2> QED
    BY <2>2, <2>3
<1>5. PICK n : n = IF size > node.size - call.off THEN node.size - call.off ELSE size
  OBVIOUS
<1>6. PICK got : got = ReadAt(node, call.off, n, node.blockSize, stores)
  OBVIOUS
<1>7. \/ call.off >= node.size /\ Finish("OK")
      \/ Finish("Canceled") \/ Finish("FailedPrecondition")
      \/ ~(call.off >= node.size) /\ ~got.err /\ got.data = <<>> /\ Finish("OK")
      \/ /\ ~(call.off >= node.size) /\ ~got.err /\ got.data # <<>>
         /\ \E c \in Send(call, [off |-> call.off, data |-> got.data]) :
              call' = IF c.gone
                        THEN [c EXCEPT !.pc = "done", !.code = "Unavailable"]
                        ELSE [c EXCEPT !.off = c.off + Len(got.data)]
  BY <1>1, <1>4, <1>5, <1>6, Zenon DEF GetChunk
<1>8. ASSUME NEW code, Finish(code), \/ call.sent = <<>> \/ code # "OK"
                                     \/ call.off = Len(Content(node))
      PROVE  FileOK(call')
  <2>1. call' = [call EXCEPT !.pc = "done", !.code = code]
    BY <1>8, Zenon DEF Finish
  <2> QED
    BY <1>1, <1>3, <1>8, <2>1, FileEnds
<1>9. CASE IsWhole(node, node.blockSize)
  <2>1. Content(node) \in Seq(Nat) /\ node.size = Len(Content(node)) /\ node.size \in Nat
    BY <1>9, WholeSize
  <2>2. InOrder(call.sent, Content(node), call.off)
    BY <1>1, <1>3, <2>1, NoChunk DEF Ordered
  <2>3. call.off \in 0..node.size
    <3>1. call.off \in 0..Len(Content(node))
      BY <2>2 DEF InOrder, Chunks
    <3> QED
      BY <2>1, <3>1
  <2>4. CASE call.off >= node.size /\ Finish("OK")
    BY <1>8, <2>1, <2>3, <2>4
  <2>5. ASSUME ~(call.off >= node.size), ~got.err
        PROVE  /\ call.off + n \in call.off..Len(Content(node)) /\ got.data # <<>>
               /\ got.data = SubSeq(Content(node), call.off + 1, call.off + n)
               /\ Len(got.data) = n /\ n \in Nat /\ call.off \in Nat
    <3>1. n \in 1..node.size - call.off /\ call.off < node.size /\ call.off \in Nat
      BY <1>4, <1>5, <2>1, <2>3, <2>5
    <3>2. /\ call.off + n \in call.off..Len(Content(node)) /\ got.data # <<>>
          /\ got.data = SubSeq(Content(node), call.off + 1, call.off + n)
          /\ Len(got.data) = n
      <4>1. Given(node, call.off, n, got)
        BY <1>6, <1>9, <2>5, <3>1, ReadGives
      <4> QED
        BY <4>1, Zenon DEF Given
    <3> QED
      BY <3>1, <3>2
  <2>6. ASSUME ~(call.off >= node.size), ~got.err,
               NEW c \in Send(call, [off |-> call.off, data |-> got.data]),
               call' = IF c.gone
                         THEN [c EXCEPT !.pc = "done", !.code = "Unavailable"]
                         ELSE [c EXCEPT !.off = c.off + Len(got.data)]
        PROVE  FileOK(call')
    <3>1. CASE c.gone
      <4>1. \/ c = [call EXCEPT !.gone = TRUE]
            \/ /\ ~call.gone
               /\ c = [call EXCEPT !.sent = Append(call.sent, [off |-> call.off, data |-> got.data])]
        BY <2>6, Zenon DEF Send
      <4>2. c = [call EXCEPT !.gone = TRUE]
        BY <3>1, <4>1 DEF IsCall
      <4>3. IsCall(c) /\ c.sent = call.sent /\ c.off = call.off /\ c.reply = call.reply
        BY <4>2 DEF IsCall
      <4>4. Ordered(c)
        BY <1>1, <1>9, <2>2, <4>3 DEF Ordered
      <4>5. call' = [c EXCEPT !.pc = "done", !.code = "Unavailable"]
        BY <2>6, <3>1
      <4> QED
        BY <4>3, <4>4, <4>5, FileEnds
    <3>2. CASE ~c.gone
      <4>1. call' = [c EXCEPT !.off = c.off + Len(got.data)]
        BY <2>6, <3>2
      <4>2. PICK stop, data, all : /\ stop = call.off + n /\ data = got.data
                                   /\ all = Content(node)
        OBVIOUS
      <4>3. /\ stop \in call.off..Len(all) /\ data = SubSeq(all, call.off + 1, stop)
            /\ Len(data) = stop - call.off
        <5>1. /\ call.off + n \in call.off..Len(Content(node)) /\ Len(got.data) = n
              /\ got.data = SubSeq(Content(node), call.off + 1, call.off + n)
              /\ n \in Nat /\ call.off \in Nat
          BY <2>5, <2>6
        <5>2. (call.off + n) - call.off = n
          BY <5>1
        <5> QED
          BY <4>2, <5>1, <5>2, Zenon
      <4>4. /\ c \in Send(call, [off |-> call.off, data |-> data])
            /\ call' = [c EXCEPT !.off = c.off + Len(data)]
            /\ InOrder(call.sent, all, call.off)
        BY <2>2, <2>6, <4>1, <4>2, Zenon
      <4>5. /\ InOrder(call'.sent, all, call'.off)
            /\ call'.reply = call.reply /\ call'.pc = call.pc /\ call'.code = call.code
        BY <3>2, <4>3, <4>4, ChunkFollows
      <4>6. call'.reply = node /\ InOrder(call'.sent, Content(call'.reply), call'.off)
        BY <1>1, <4>2, <4>5, Zenon
      <4>7. Ordered(call') /\ IsFile(call'.reply)
        BY <1>2, <1>9, <4>6, Zenon DEF Ordered
      <4> QED
        BY <1>2, <4>5, <4>7 DEF FileOK
    <3> QED
      BY <3>1, <3>2
  <2> QED
    BY <1>7, <1>8, <2>4, <2>5, <2>6
<1>10. CASE ~IsWhole(node, node.blockSize)
  <2>1. node.blocks = <<>> /\ call.sent = <<>>
    BY <1>1, <1>2, <1>3, <1>10 DEF IsFile, Ordered
  <2>2. got.data = <<>>
    BY <1>6, <2>1, NothingToRead DEF Data
  <2> QED
    BY <1>7, <1>8, <2>1, <2>2
<1> QED
  BY <1>9, <1>10

LEMMA FileStep ==
  ASSUME IInv, FileInv, Next
  PROVE  FileInv'
<1>1. DiskOK /\ CallOK
  BY DEF IInv
<1>2. CASE call' = call
  BY <1>2 DEF FileInv, FileOK, Ordered
<1>3. CASE call' = NoCall
  BY <1>3 DEF FileInv, NoCall
<1>4. ASSUME NEW req, call' = Fresh(req)
      PROVE  FileInv'
  BY <1>4 DEF Fresh, FileInv, FileOK
<1>5. CASE Admit
  <2>1. IsCall(call) /\ call.pc = "arrived"
    BY <1>1, <1>5 DEF Admit, CallOK
  <2>2. \/ \E code : Finish(code)
        \/ \E loc, dest : call' = [call EXCEPT !.pc = "ready", !.loc = loc, !.dest = dest]
    BY <1>5, Zenon DEF Admit
  <2>3. \/ \E code : call' = [call EXCEPT !.pc = "done", !.code = code]
        \/ \E loc, dest : call' = [call EXCEPT !.pc = "ready", !.loc = loc, !.dest = dest]
    BY <2>2, Zenon DEF Finish
  <2>4. /\ call'.req = call.req /\ call'.sent = call.sent /\ call'.off = call.off
        /\ call'.pc = "done" \/ (call'.pc = "ready" /\ call'.code = call.code)
    BY <2>1, <2>3 DEF IsCall
  <2> QED
    BY <2>1, <2>4 DEF FileInv, FileOK
<1>6. CASE Handle
  <2>1. /\ IsCall(call) /\ call'.req = call.req /\ call.req \in Requests
        /\ call.pc \in {"ready", "working", "reading", "reply"}
    <3>1. Serves /\ call.pc \in {"ready", "working", "reading", "reply"}
      BY <1>6, HandleStep DEF IInv
    <3> QED
      BY <1>1, <3>1 DEF Serves, CallOK
  <2>2. SUFFICES ASSUME call.req.rpc = "GetFile", FileOK(call)
                 PROVE  FileOK(call')
    BY <2>1 DEF FileInv
  <2>3. CASE LibraryFails
    <3>1. PICK code : Finish(code)
      BY <2>3 DEF LibraryFails
    <3>2. call' = [call EXCEPT !.pc = "done", !.code = code]
      BY <3>1, Zenon DEF Finish
    <3>3. call.sent = <<>>
      BY <1>1, <2>2, <2>3 DEF LibraryFails, CallOK, IsStream, FileOK
    <3> QED
      BY <2>1, <3>2, <3>3, FileEnds
  <2>4. LibraryFails \/ GetFile \/ \E stores : GetChunk(stores)
    BY <1>1, <1>6, <2>2 DEF Handle, Ready, IsStream, Probe, InitRepository, Commit, Restore,
       StreamStart, Output, StreamResult, StreamDone, ListCommits, GetCommit, ListFiles,
       Diff, CallOK
  <2> QED
    BY <1>1, <2>1, <2>2, <2>3, <2>4, FileFound, FileReads
<1> QED
  BY <1>2, <1>3, <1>4, <1>5, <1>6
  DEF Next, Start, RemoveSocket, Listen, Chmod, Crash, Receive, ListPage,
      Return, Edit, OtherCommit

-----------------------------------------------------------------------------
(* The sizes that a diff adds up.                                          *)

SizeStep(c, n, f) == n + c[f].size
Sizes == INSTANCE FoldProofs WITH op <- SizeStep
DeltaStep(c, n, change) == n + change.delta
Deltas == INSTANCE FoldProofs WITH op <- DeltaStep

\* The sums of w over the subsets of S.
IsSum(sum, w, S) ==
  /\ sum \in [SUBSET S -> Int] /\ sum[{}] = 0
  /\ \A T \in SUBSET S : \A x \in T : sum[T] = sum[T \ {x}] + w[x]

LEMMA SumStep ==
  ASSUME NEW sum, NEW w, NEW S, IsSum(sum, w, S), NEW R \in SUBSET S, NEW x \in R
  PROVE  sum[R] = sum[R \ {x}] + w[x]
BY DEF IsSum

LEMMA SameFinite ==
  ASSUME NEW S, IsFiniteSet(S)
  PROVE  Sizes!IsFiniteSet(S) /\ Deltas!IsFiniteSet(S)
BY DEF IsFiniteSet, Sizes!IsFiniteSet, Deltas!IsFiniteSet

LEMMA TotalIsSum ==
  ASSUME NEW c, IsFiniteSet(DOMAIN c), \A f \in DOMAIN c : c[f].size \in Int
  PROVE  \E sum : IsSum(sum, [f \in DOMAIN c |-> c[f].size], DOMAIN c)
                  /\ Total(c) = sum[DOMAIN c]
<1>1. PICK w, S : S = DOMAIN c /\ w = [f \in S |-> c[f].size]
  OBVIOUS
<1>2. /\ IsFiniteSet(S) /\ \A f \in S : w[f] \in Int
      /\ \A f \in S : \A n \in Int : SizeStep(c, n, f) = n + w[f]
  BY <1>1 DEF SizeStep
<1>3. PICK sum : Sizes!Sums(sum, w, S)
  BY <1>2, SameFinite, Sizes!SumsExist
<1>4. Sizes!FoldOfSet(c, 0, S) = sum[S]
  BY <1>2, <1>3, SameFinite, Sizes!FoldAdds
<1>5. Total(c) = Sizes!FoldOfSet(c, 0, DOMAIN c)
  BY DEF Total, Sizes!FoldOfSet, Sizes!FollowsSet, Sizes!Any, SizeStep,
         Seqs!FoldSet, Seqs!MapThenFoldSet
<1>6. IsSum(sum, w, S)
  BY <1>3 DEF Sizes!Sums, IsSum
<1> QED
  BY <1>1, <1>4, <1>5, <1>6

TotalDelta(changes) == Seqs!FoldSet(LAMBDA c, sum : sum + c.delta, 0, changes)

LEMMA DeltasAreSum ==
  ASSUME NEW changes, IsFiniteSet(changes), \A c \in changes : c.delta \in Int
  PROVE  \E sum : IsSum(sum, [c \in changes |-> c.delta], changes)
                  /\ TotalDelta(changes) = sum[changes]
<1>1. PICK w : w = [c \in changes |-> c.delta]
  OBVIOUS
<1>2. /\ \A c \in changes : w[c] \in Int
      /\ \A c \in changes : \A n \in Int : DeltaStep({}, n, c) = n + w[c]
  BY <1>1 DEF DeltaStep
<1>3. PICK sum : Deltas!Sums(sum, w, changes)
  BY <1>2, SameFinite, Deltas!SumsExist
<1>4. Deltas!FoldOfSet({}, 0, changes) = sum[changes]
  BY <1>2, <1>3, SameFinite, Deltas!FoldAdds
<1>5. TotalDelta(changes) = Deltas!FoldOfSet({}, 0, changes)
  BY DEF TotalDelta, Deltas!FoldOfSet, Deltas!FollowsSet, Deltas!Any, DeltaStep,
         Seqs!FoldSet, Seqs!MapThenFoldSet
<1>6. IsSum(sum, w, changes)
  BY <1>3 DEF Deltas!Sums, IsSum
<1> QED
  BY <1>1, <1>4, <1>5, <1>6

\* What a state's files weigh at a path.
SizeAt(files, p) == IF p \in DOMAIN files THEN files[p].size ELSE 0

\* Two maps of entries as commits of one repository have them.
Comparable(from, to) ==
  /\ IsFiniteSet(DOMAIN from) /\ IsFiniteSet(DOMAIN to)
  /\ \A p \in DOMAIN from : from[p].size \in Int
  /\ \A p \in DOMAIN to : to[p].size \in Int
  /\ \A p \in DOMAIN from \cap DOMAIN to :
       SameFileEntry(from[p], to[p]) <=> from[p] = to[p]
Differing(from, to) ==
  {p \in DOMAIN from \cup DOMAIN to :
     p \in DOMAIN from \cap DOMAIN to => from[p] # to[p]}

\* A change for each path that differs, with what its size changes by.
LEMMA ChangesAre ==
  ASSUME NEW from, NEW to, Comparable(from, to),
         NEW changes, changes = FileChanges(from, to)
  PROVE  /\ \A c \in changes : /\ c.path \in Differing(from, to)
                               /\ c.delta = SizeAt(to, c.path) - SizeAt(from, c.path)
                               /\ c.delta \in Int
         /\ \A c \in changes : \A d \in changes : c.path = d.path => c = d
         /\ \A p \in Differing(from, to) : \E c \in changes : c.path = p
<1>1. PICK F, T : F = DOMAIN from /\ T = DOMAIN to
  OBVIOUS
<1> DEFINE Change(p) ==
      [path  |-> p,
       kind  |-> IF p \in F /\ p \in T THEN "modified" ELSE IF p \in T THEN "added" ELSE "removed",
       delta |-> IF p \in F /\ p \in T THEN to[p].size - from[p].size
                 ELSE IF p \in T THEN to[p].size ELSE -from[p].size]
<1>2. /\ \A p \in F : from[p].size \in Int
      /\ \A p \in T : to[p].size \in Int
      /\ \A p \in F \cap T : SameFileEntry(from[p], to[p]) <=> from[p] = to[p]
  BY <1>1, Zenon DEF Comparable
<1>3. changes = {Change(p) : p \in Differing(from, to)}
  <2>1. changes =
          {[path |-> p, kind |-> "modified", delta |-> to[p].size - from[p].size] :
             p \in {q \in F \cap T : ~SameFileEntry(from[q], to[q])}}
          \cup {[path |-> p, kind |-> "added", delta |-> to[p].size] : p \in T \ F}
          \cup {[path |-> p, kind |-> "removed", delta |-> -from[p].size] : p \in F \ T}
    BY <1>1, Zenon DEF FileChanges
  <2>2. {q \in F \cap T : ~SameFileEntry(from[q], to[q])} = {q \in F \cap T : from[q] # to[q]}
    BY <1>2
  <2>3. Differing(from, to) = {q \in F \cap T : from[q] # to[q]} \cup (T \ F) \cup (F \ T)
    BY <1>1 DEF Differing
  <2> QED
    BY <2>1, <2>2, <2>3
<1>4. ASSUME NEW p \in Differing(from, to)
      PROVE  Change(p).path = p /\ Change(p).delta = SizeAt(to, p) - SizeAt(from, p)
             /\ Change(p).delta \in Int
  BY <1>1, <1>2 DEF Differing, SizeAt
<1> HIDE DEF Change
<1> QED
  BY <1>3, <1>4

\* The sums of two states, and of the changes between them.
AreSums(from, to, changes, sf, st, sd) ==
  /\ Comparable(from, to) /\ changes = FileChanges(from, to) /\ IsFiniteSet(changes)
  /\ IsSum(sf, [p \in DOMAIN from |-> from[p].size], DOMAIN from)
  /\ IsSum(st, [p \in DOMAIN to |-> to[p].size], DOMAIN to)
  /\ IsSum(sd, [c \in changes |-> c.delta], changes)

\* The difference of two sums is the sum of the changes, path by path.
LEMMA ChangesAddUp ==
  ASSUME NEW from, NEW to, NEW changes, NEW sf, NEW st, NEW sd,
         AreSums(from, to, changes, sf, st, sd)
  PROVE  sd[changes] = st[DOMAIN to] - sf[DOMAIN from]
<1>0. /\ Comparable(from, to) /\ changes = FileChanges(from, to) /\ IsFiniteSet(changes)
      /\ IsSum(sf, [p \in DOMAIN from |-> from[p].size], DOMAIN from)
      /\ IsSum(st, [p \in DOMAIN to |-> to[p].size], DOMAIN to)
      /\ IsSum(sd, [c \in changes |-> c.delta], changes)
  BY Zenon DEF AreSums
<1>1. PICK F, T, all : F = DOMAIN from /\ T = DOMAIN to /\ all = F \cup T
  OBVIOUS
<1>2. /\ sf[{}] = 0 /\ st[{}] = 0 /\ sd[{}] = 0
      /\ \A R \in SUBSET F : sf[R] \in Int
      /\ \A R \in SUBSET T : st[R] \in Int
      /\ \A R \in SUBSET changes : sd[R] \in Int
  BY <1>0, <1>1 DEF IsSum
<1>3. /\ \A R \in SUBSET F : \A x \in R : sf[R] = sf[R \ {x}] + from[x].size
      /\ \A R \in SUBSET T : \A x \in R : st[R] = st[R \ {x}] + to[x].size
      /\ \A R \in SUBSET changes : \A c \in R : sd[R] = sd[R \ {c}] + c.delta
  <2>1. ASSUME NEW R \in SUBSET F, NEW x \in R
        PROVE  sf[R] = sf[R \ {x}] + from[x].size
    <3>1. R \in SUBSET DOMAIN from /\ x \in DOMAIN from
      BY <1>1, <2>1
    <3>2. PICK w, S : w = [p \in DOMAIN from |-> from[p].size] /\ S = DOMAIN from
      OBVIOUS
    <3>3. IsSum(sf, w, S) /\ R \in SUBSET S /\ x \in R
      BY <1>0, <2>1, <3>1, <3>2, Zenon
    <3>4. sf[R] = sf[R \ {x}] + w[x]
      BY <3>3, SumStep
    <3> QED
      BY <3>1, <3>2, <3>4
  <2>2. ASSUME NEW R \in SUBSET T, NEW x \in R
        PROVE  st[R] = st[R \ {x}] + to[x].size
    <3>1. R \in SUBSET DOMAIN to /\ x \in DOMAIN to
      BY <1>1, <2>2
    <3>2. PICK w, S : w = [p \in DOMAIN to |-> to[p].size] /\ S = DOMAIN to
      OBVIOUS
    <3>3. IsSum(st, w, S) /\ R \in SUBSET S /\ x \in R
      BY <1>0, <2>2, <3>1, <3>2, Zenon
    <3>4. st[R] = st[R \ {x}] + w[x]
      BY <3>3, SumStep
    <3> QED
      BY <3>1, <3>2, <3>4
  <2>3. ASSUME NEW R \in SUBSET changes, NEW x \in R
        PROVE  sd[R] = sd[R \ {x}] + x.delta
    <3>1. PICK w : w = [c \in changes |-> c.delta]
      OBVIOUS
    <3>2. IsSum(sd, w, changes) /\ R \in SUBSET changes /\ x \in R
      BY <1>0, <2>3, <3>1, Zenon
    <3>3. sd[R] = sd[R \ {x}] + w[x]
      BY <3>2, SumStep
    <3> QED
      BY <2>3, <3>1, <3>3
  <2> QED
    BY <2>1, <2>2, <2>3, Zenon
<1>4. /\ \A c \in changes : /\ c.path \in Differing(from, to)
                            /\ c.delta = SizeAt(to, c.path) - SizeAt(from, c.path)
      /\ \A c \in changes : \A d \in changes : c.path = d.path => c = d
      /\ \A p \in Differing(from, to) : \E c \in changes : c.path = p
  BY <1>0, ChangesAre
<1>5. \A p \in all : SizeAt(from, p) \in Int /\ SizeAt(to, p) \in Int
  BY <1>0, <1>1 DEF Comparable, SizeAt
<1>6. \A p \in all : p \notin Differing(from, to) => SizeAt(to, p) = SizeAt(from, p)
  BY <1>1 DEF Differing, SizeAt
<1>7. Differing(from, to) \subseteq all
  BY <1>1 DEF Differing
<1> DEFINE ChangesIn(R) == {c \in changes : c.path \in R}
           Good == {R \in SUBSET all : sd[ChangesIn(R)] = st[R \cap T] - sf[R \cap F]}
<1>8. {} \in Good
  <2>1. ChangesIn({}) = {} /\ {} \cap T = {} /\ {} \cap F = {} /\ {} \in SUBSET all /\ 0 = 0 - 0
    OBVIOUS
  <2>2. sd[ChangesIn({})] = st[{} \cap T] - sf[{} \cap F]
    BY <1>2, <2>1, Zenon
  <2> QED
    BY <2>1, <2>2, Zenon
<1>9. ASSUME NEW R \in SUBSET all, R # {}, \A p \in R : R \ {p} \in Good
      PROVE  R \in Good
  <2>1. PICK p \in R : p \in R
    BY <1>9
  <2>2. PICK Q : Q = R \ {p}
    OBVIOUS
  <2>3. Q \in SUBSET all /\ p \in all /\ sd[ChangesIn(Q)] = st[Q \cap T] - sf[Q \cap F]
    BY <1>9, <2>1, <2>2
  <2>4. st[R \cap T] = st[Q \cap T] + SizeAt(to, p)
    <3>1. CASE p \in T
      <4>1. R \cap T \in SUBSET T /\ p \in R \cap T /\ (R \cap T) \ {p} = Q \cap T
        BY <2>1, <2>2, <3>1
      <4>2. SizeAt(to, p) = to[p].size
        BY <1>1, <3>1 DEF SizeAt
      <4>3. st[R \cap T] = st[(R \cap T) \ {p}] + to[p].size
        BY <1>3, <4>1, Zenon
      <4> QED
        BY <4>1, <4>2, <4>3, Zenon
    <3>2. CASE p \notin T
      <4>1. R \cap T = Q \cap T /\ Q \cap T \in SUBSET T
        BY <2>2, <3>2
      <4>2. SizeAt(to, p) = 0
        BY <1>1, <3>2 DEF SizeAt
      <4> QED
        <5>1. PICK n \in Int : n = st[Q \cap T]
          BY <1>2, <4>1
        <5>2. n + 0 = n
          OBVIOUS
        <5> QED
          BY <4>1, <4>2, <5>1, <5>2, Zenon
    <3> QED
      BY <3>1, <3>2
  <2>5. sf[R \cap F] = sf[Q \cap F] + SizeAt(from, p)
    <3>1. CASE p \in F
      <4>1. R \cap F \in SUBSET F /\ p \in R \cap F /\ (R \cap F) \ {p} = Q \cap F
        BY <2>1, <2>2, <3>1
      <4>2. SizeAt(from, p) = from[p].size
        BY <1>1, <3>1 DEF SizeAt
      <4>3. sf[R \cap F] = sf[(R \cap F) \ {p}] + from[p].size
        BY <1>3, <4>1, Zenon
      <4> QED
        BY <4>1, <4>2, <4>3, Zenon
    <3>2. CASE p \notin F
      <4>1. R \cap F = Q \cap F /\ Q \cap F \in SUBSET F
        BY <2>2, <3>2
      <4>2. SizeAt(from, p) = 0
        BY <1>1, <3>2 DEF SizeAt
      <4> QED
        <5>1. PICK n \in Int : n = sf[Q \cap F]
          BY <1>2, <4>1
        <5>2. n + 0 = n
          OBVIOUS
        <5> QED
          BY <4>1, <4>2, <5>1, <5>2, Zenon
    <3> QED
      BY <3>1, <3>2
  <2>6. sd[ChangesIn(R)] = sd[ChangesIn(Q)] + (SizeAt(to, p) - SizeAt(from, p))
    <3>1. CASE p \in Differing(from, to)
      <4>1. PICK c \in changes : c.path = p
        BY <1>4, <3>1
      <4>2. /\ ChangesIn(R) \in SUBSET changes /\ c \in ChangesIn(R)
            /\ ChangesIn(R) \ {c} = ChangesIn(Q)
        BY <1>4, <2>1, <2>2, <4>1
      <4>3. c.delta = SizeAt(to, p) - SizeAt(from, p)
        BY <1>4, <4>1
      <4> HIDE DEF ChangesIn
      <4> QED
        BY <1>3, <4>2, <4>3
    <3>2. CASE p \notin Differing(from, to)
      <4>1. ChangesIn(R) = ChangesIn(Q) /\ ChangesIn(Q) \in SUBSET changes
        BY <1>4, <2>2, <3>2
      <4>2. SizeAt(to, p) = SizeAt(from, p) /\ SizeAt(from, p) \in Int
        BY <1>5, <1>6, <2>3, <3>2
      <4> HIDE DEF ChangesIn
      <4>3. sd[ChangesIn(Q)] \in Int
        BY <1>2, <4>1
      <4> QED
        BY <4>1, <4>2, <4>3
    <3> QED
      BY <3>1, <3>2
  <2>7. PICK a, b, c, x, y \in Int :
          /\ a = sd[ChangesIn(Q)] /\ b = st[Q \cap T] /\ c = sf[Q \cap F]
          /\ x = SizeAt(to, p) /\ y = SizeAt(from, p)
    <3>1. ChangesIn(Q) \in SUBSET changes /\ Q \cap T \in SUBSET T /\ Q \cap F \in SUBSET F
      OBVIOUS
    <3> HIDE DEF ChangesIn
    <3> QED
      BY <1>2, <1>5, <2>3, <3>1
  <2>8. sd[ChangesIn(R)] = st[R \cap T] - sf[R \cap F]
    <3>1. sd[ChangesIn(R)] = a + (x - y) /\ st[R \cap T] = b + x /\ sf[R \cap F] = c + y /\ a = b - c
      BY <2>3, <2>4, <2>5, <2>6, <2>7, Zenon
    <3> HIDE DEF ChangesIn
    <3> QED
      BY <3>1
  <2> QED
    BY <2>8
<1>10. IsFiniteSet(all)
  BY <1>0, <1>1, FS_Union DEF Comparable
<1> HIDE DEF Good
<1>11. all \in Good
  <2>1. \A R \in SUBSET all : R # {} /\ (\A p \in R : R \ {p} \in Good) => R \in Good
    BY <1>9
  <2>2. Sizes!IsFiniteSet(all)
    BY <1>10, SameFinite
  <2>3. \A R \in SUBSET all : R \in Good
    BY <1>8, <2>1, <2>2, Sizes!SetInduct
  <2> QED
    BY <2>3
<1>12. all \cap T = T /\ all \cap F = F /\ ChangesIn(all) = changes
  BY <1>1, <1>4, <1>7
<1>13. sd[ChangesIn(all)] = st[all \cap T] - sf[all \cap F]
  BY <1>11 DEF Good
<1> HIDE DEF ChangesIn
<1> QED
  BY <1>1, <1>12, <1>13

\* All that DiffAddsUp asks of the changes.
LEMMA DiffSums ==
  ASSUME NEW from, NEW to, Comparable(from, to),
         NEW changes, changes = FileChanges(from, to)
  PROVE  /\ {c.path : c \in changes} = Differing(from, to)
         /\ Cardinality({c.path : c \in changes}) = Cardinality(changes)
         /\ TotalDelta(changes) = Total(to) - Total(from)
<1>1. /\ \A c \in changes : c.path \in Differing(from, to) /\ c.delta \in Int
      /\ \A c \in changes : \A d \in changes : c.path = d.path => c = d
      /\ \A p \in Differing(from, to) : \E c \in changes : c.path = p
  BY ChangesAre
<1>2. PICK paths : paths = {c.path : c \in changes}
  OBVIOUS
<1>3. paths = Differing(from, to)
  BY <1>1, <1>2
<1>4. IsFiniteSet(paths)
  <2>1. IsFiniteSet(DOMAIN from \cup DOMAIN to)
    BY FS_Union DEF Comparable
  <2>2. paths \in SUBSET (DOMAIN from \cup DOMAIN to)
    BY <1>3 DEF Differing
  <2> QED
    BY <2>1, <2>2, FS_Subset
<1>5. PICK f : f = [c \in changes |-> c.path]
  OBVIOUS
<1>6. f \in Injection(changes, paths) /\ f \in Surjection(changes, paths)
  BY <1>1, <1>2, <1>5 DEF Injection, Surjection, IsInjective
<1>7. IsFiniteSet(changes) /\ Cardinality(paths) = Cardinality(changes)
  BY <1>4, <1>6, FS_Injection
<1>8. PICK sf : IsSum(sf, [p \in DOMAIN from |-> from[p].size], DOMAIN from)
                /\ Total(from) = sf[DOMAIN from]
  BY TotalIsSum DEF Comparable
<1>9. PICK st : IsSum(st, [p \in DOMAIN to |-> to[p].size], DOMAIN to)
                /\ Total(to) = st[DOMAIN to]
  BY TotalIsSum DEF Comparable
<1>10. PICK sd : IsSum(sd, [c \in changes |-> c.delta], changes)
                 /\ TotalDelta(changes) = sd[changes]
  <2>1. \A c \in changes : c.delta \in Int
    BY <1>1
  <2> QED
    BY <1>7, <2>1, DeltasAreSum, Zenon
<1>11. sd[changes] = st[DOMAIN to] - sf[DOMAIN from]
  <2>1. AreSums(from, to, changes, sf, st, sd)
    BY <1>7, <1>8, <1>9, <1>10, Zenon DEF AreSums
  <2> QED
    BY <2>1, ChangesAddUp
<1>12. TotalDelta(changes) = Total(to) - Total(from)
  BY <1>8, <1>9, <1>10, <1>11
<1> QED
  BY <1>2, <1>3, <1>7, <1>12

\* An answered diff is that of two states there are.
Answers ==
  LET from == states[call.req.from].content.files
      to   == states[call.req.to].content.files
  IN /\ {call.req.from, call.req.to} \subseteq DOMAIN states
     /\ call.reply.changes = FileChanges(from, to)
DiffInv == Finished({"Diff"}) /\ call.code = "OK" => Answers

\* What the states hold can be told apart by what Diff compares.
LEMMA StatesCompare ==
  ASSUME DiskOK, NEW i \in DOMAIN states, NEW j \in DOMAIN states
  PROVE  Comparable(states[i].content.files, states[j].content.files)
<1>1. PICK c \in Contents, d \in Contents :
        c = states[i].content /\ d = states[j].content
  <2>1. states[i] \in StateSet /\ states[j] \in StateSet
    BY DEF DiskOK
  <2> QED
    BY <2>1 DEF StateSet
<1>2. PICK from, to : from = c.files /\ to = d.files
  OBVIOUS
<1>3. IsFiniteSet(DOMAIN from) /\ IsFiniteSet(DOMAIN to)
  BY <1>2, ContentsAssumption
<1>4. /\ \A p \in DOMAIN from : from[p].size \in Int
      /\ \A p \in DOMAIN to : to[p].size \in Int
  BY <1>2, EntriesAssumption
<1>5. ASSUME NEW p \in DOMAIN from \cap DOMAIN to
      PROVE  SameFileEntry(from[p], to[p]) <=> from[p] = to[p]
  <2>1. PICK x, y : x = from[p] /\ y = to[p]
    OBVIOUS
  <2>2. /\ x = [size |-> x.size, blocks |-> x.blocks, sizes |-> x.sizes,
                mode |-> x.mode, link |-> x.link]
        /\ y = [size |-> y.size, blocks |-> y.blocks, sizes |-> y.sizes,
                mode |-> y.mode, link |-> y.link]
        /\ x.blocks = y.blocks => x.sizes = y.sizes
    BY <1>2, <2>1, EntriesAssumption
  <2> QED
    BY <2>1, <2>2 DEF SameFileEntry
<1>6. Comparable(from, to)
  BY <1>3, <1>4, <1>5 DEF Comparable
<1> QED
  BY <1>1, <1>2, <1>6

LEMMA DiffStep ==
  ASSUME IInv, DiffInv, Next
  PROVE  DiffInv'
<1>1. DiskOK /\ CallOK /\ Grown
  <2>1. config' = config
    BY BootStep DEF IInv
  <2> QED
    BY <2>1, CallStep DEF IInv
<1>2. CASE call' = call
  <2> SUFFICES ASSUME Answers PROVE Answers'
    BY <1>2 DEF DiffInv, Finished
  <2>1. \A i \in DOMAIN states : i \in DOMAIN states' /\ states'[i] = states[i]
    <3>1. states \in Seq(StateSet) /\ states' \in Seq(StateSet)
      <4>1. config' = config
        BY BootStep DEF IInv
      <4> QED
        BY <1>1, <4>1, CallStep DEF DiskOK
    <3> QED
      BY <1>1, <3>1 DEF Grown
  <2> QED
    BY <1>2, <2>1 DEF Answers
<1>3. CASE call' = NoCall
  BY <1>3 DEF DiffInv, Finished, NoCall
<1>4. ASSUME NEW req, call' = Fresh(req)
      PROVE  DiffInv'
  BY <1>4 DEF Fresh, DiffInv, Finished
<1>5. CASE Admit
  <2>1. IsCall(call) /\ call.pc = "arrived"
    BY <1>1, <1>5 DEF Admit, CallOK
  <2>2. \/ \E code : code # "OK" /\ Finish(code)
        \/ \E loc, dest : call' = [call EXCEPT !.pc = "ready", !.loc = loc, !.dest = dest]
    BY <1>5, Zenon DEF Admit
  <2>3. \/ \E code : code # "OK" /\ call' = [call EXCEPT !.pc = "done", !.code = code]
        \/ \E loc, dest : call' = [call EXCEPT !.pc = "ready", !.loc = loc, !.dest = dest]
    BY <2>2, Zenon DEF Finish
  <2>4. call'.pc = "ready" \/ call'.code # "OK"
    BY <2>1, <2>3 DEF IsCall
  <2> QED
    BY <2>4 DEF DiffInv, Finished
<1>6. CASE Handle
  <2>1. /\ IsCall(call) /\ call'.req = call.req
        /\ call.pc \in {"ready", "working", "reading", "reply"}
    <3>1. Serves /\ call.pc \in {"ready", "working", "reading", "reply"}
      BY <1>6, HandleStep DEF IInv
    <3> QED
      BY <1>1, <3>1 DEF Serves, CallOK
  <2>2. SUFFICES ASSUME call.req.rpc = "Diff" PROVE DiffInv'
    BY <2>1 DEF DiffInv, Finished
  <2>3. CASE LibraryFails
    <3>1. PICK err : Finish(MapError(err))
      BY <2>3 DEF LibraryFails
    <3>2. PICK code : code # "OK" /\ code = MapError(err)
      BY ErrorCodes
    <3>3. call' = [call EXCEPT !.pc = "done", !.code = code]
      BY <3>1, <3>2, Zenon DEF Finish
    <3>4. call'.code = code
      BY <2>1, <3>3 DEF IsCall
    <3> QED
      BY <3>2, <3>4 DEF DiffInv
  <2>4. CASE Diff
    <3>1. PICK changes :
            changes = FileChanges(states[call.req.from].content.files,
                                  states[call.req.to].content.files)
      OBVIOUS
    <3>2. /\ {call.req.from, call.req.to} \subseteq DOMAIN states /\ states' = states
          /\ call' = [call EXCEPT !.pc = "done", !.code = "OK",
                                  !.reply = [changes |-> changes]]
      BY <2>4, <3>1 DEF Diff, LeaveDisk, disk, FinishWith, Done
    <3>3. call'.reply.changes = changes
      BY <2>1, <3>2 DEF IsCall
    <3> QED
      BY <2>1, <3>1, <3>2, <3>3 DEF DiffInv, Answers
  <2>5. LibraryFails \/ Diff
    BY <1>1, <1>6, <2>2 DEF Handle, Ready, IsStream, Probe, InitRepository, Commit, Restore,
       StreamStart, Output, StreamResult, StreamDone, ListCommits, GetCommit, ListFiles,
       GetFile, GetChunk, CallOK
  <2> QED
    BY <2>3, <2>4, <2>5
<1> QED
  BY <1>2, <1>3, <1>4, <1>5, <1>6
  DEF Next, Start, RemoveSocket, Listen, Chmod, Crash, Receive, ListPage,
      Return, Edit, OtherCommit

-----------------------------------------------------------------------------
(* The theorems.                                                           *)

LEMMA StutterIInv == IInv /\ UNCHANGED vars => IInv'
<1> SUFFICES ASSUME IInv, UNCHANGED vars PROVE IInv'
  OBVIOUS
<1>1. /\ config' = config /\ boot' = boot /\ socket' = socket
      /\ states' = states /\ head' = head /\ work' = work
      /\ call' = call /\ listing' = listing
  BY DEF vars, disk
<1>2. BootOK' /\ DiskOK'
  BY <1>1 DEF IInv, BootOK, SocketIsOwn, IsUnix, DiskOK
<1>3. CallOK' /\ AdmissionOK'
  BY <1>1 DEF IInv, CallOK, AdmissionOK, Allowed, IsUnix
<1>4. DiskOK /\ Grown
  BY <1>1 DEF IInv, DiskOK, Grown
<1>5. CommitOK' /\ PagesOK'
  BY <1>1, <1>4, TruthLasts, PagesLast DEF IInv
<1> QED
  BY <1>2, <1>3, <1>5 DEF IInv

LEMMA NextIInv == IInv /\ [Next]_vars => IInv'
<1>1. ASSUME IInv, Next PROVE IInv'
  <2>1. BootOK' /\ config' = config
    BY <1>1, BootStep DEF IInv
  <2>2. CallOK' /\ AdmissionOK' /\ CommitOK' /\ DiskOK' /\ Grown
    BY <1>1, <2>1, CallStep
  <2>3. PagesOK'
    BY <1>1, <2>1, <2>2, PagesStep
  <2> QED
    BY <2>1, <2>2, <2>3 DEF IInv
<1> QED
  BY <1>1, StutterIInv

LEMMA SpecIInv == Spec => []IInv
BY InitIInv, NextIInv, PTL DEF Spec

\* Every variable of the service keeps to its kind; HEAD and the page tokens
\* never point outside the list of states, whoever commits.
THEOREM TypeCorrect == Spec => []TypeOK
<1>1. IInv => TypeOK
  BY DEF IInv, BootOK, DiskOK, CallOK, PagesOK, TypeOK, StateSet, Pcs
<1> QED
  BY <1>1, SpecIInv, PTL

\* startManagerServer's choice of address and token and the interceptors: no
\* handler runs for anyone else, on any command line.
THEOREM OnlyAllowedCalls == Spec => []CallsAreAllowed
<1>1. IInv => CallsAreAllowed
  BY DEF IInv, AdmissionOK, CallsAreAllowed, Admitted, Allowed
<1> QED
  BY <1>1, SpecIInv, PTL

\* startManagerServer removes a stale socket before it listens, and changes
\* the new one's mode before it serves, wherever it was cut short before.
THEOREM SocketStaysOwn == Spec => []SocketIsOwn
<1>1. IInv => SocketIsOwn
  BY DEF IInv, BootOK
<1> QED
  BY <1>1, SpecIInv, PTL

\* commitResponse's message is that of the state it names, with any number of
\* commits by others before and after the library's.
THEOREM CommitAnswersTruly == Spec => []CommitTellsTruth
<1>1. IInv => CommitTellsTruth
  BY DEF IInv, CommitOK, Answering, TrueReply, CommitTellsTruth, Finished
<1> QED
  BY <1>1, SpecIInv, PTL

\* Following next_page_token through ListCommits misses no state, for pages of
\* any size and lists in either order, whatever is committed meanwhile.
THEOREM PagesCoverAll == Spec => []NoCommitSkipped
<1>1. IInv => NoCommitSkipped
  BY DEF IInv, PagesOK, NoCommitSkipped
<1> QED
  BY <1>1, SpecIInv, PTL

LEMMA SpecGuardOK == Spec => []GuardOK
<1>1. Init => GuardOK
  BY DEF Init, GuardOK, NoCall
<1>2. IInv /\ GuardOK /\ [Next]_vars => GuardOK'
  <2>1. ASSUME GuardOK, UNCHANGED vars PROVE GuardOK'
    BY <2>1 DEF GuardOK, Guarded, vars
  <2> QED
    BY <2>1, GuardStep
<1> QED
  BY <1>1, <1>2, SpecIInv, PTL DEF Spec

\* Handlers write only where the path guard has found a path of the request,
\* links followed, to be inside --root.
WritesAreGuarded ==
  call.pc # "idle" =>
    \A p \in call.wrote : Guarded(p) /\ Inside(config.roots, p)

\* InitRepository, Commit and Restore hand the library the path that
\* pathGuard.check answered with, never the one that came, whether the
\* destination is the repository or another, plain or streamed.
THEOREM OnlyGuardedWrites == Spec => []WritesAreGuarded
<1>1. GuardOK => WritesAreGuarded
  BY GuardIsInside DEF GuardOK, WritesAreGuarded
<1> QED
  BY <1>1, SpecGuardOK, PTL

\* What pathGuard.check compared with the root is where the library goes: the
\* path it answers with leads to itself, through whatever links, so nothing is
\* written beyond the root (and under no other name, as OnlyGuardedWrites says).
THEOREM WritesInRoot == Spec => []WritesStayInRoot
<1>1. ASSUME IInv, GuardOK PROVE WritesStayInRoot
  <2> SUFFICES ASSUME call.pc # "idle", NEW p \in call.wrote
               PROVE  Inside(config.roots, Canonical(p).path)
    BY DEF WritesStayInRoot
  <2>1. call.req \in Requests /\ Guarded(p)
    BY <1>1 DEF IInv, CallOK, GuardOK
  <2>2. PICK q \in Seq(STRING) : Guard(config.roots, q).is = "found"
                                /\ p = Guard(config.roots, q).path
    BY <2>1, RequestsAssumption DEF Guarded
  <2>3. Canonical(q).is = "found" /\ p = Canonical(q).path
    BY <2>2 DEF Guard, Failed
  <2>4. Canonical(p).path = p
    <3>1. Canonical(p) = Found(p)
      BY <2>2, <2>3, CanonicalStays
    <3> QED
      BY <3>1 DEF Found
  <2> QED
    BY <2>1, <2>4, GuardIsInside
<1> QED
  BY <1>1, SpecIInv, SpecGuardOK, PTL

\* However the library's writes cut its lines, and wherever a Send fails, the
\* client gets each line whole, under its number and in order, and the last
\* message exactly if the call succeeds.
THEOREM StreamsAreFaithful == Spec => []StreamIsFaithful
<1>1. Init => StreamInv
  BY DEF Init, StreamInv, NoCall
<1>2. IInv /\ StreamInv /\ [Next]_vars => StreamInv'
  <2>1. ASSUME StreamInv, UNCHANGED vars PROVE StreamInv'
    BY <2>1 DEF StreamInv, StreamOK, vars
  <2> QED
    BY <2>1, StreamStep
<1>3. ASSUME StreamInv PROVE StreamIsFaithful
  <2> SUFFICES ASSUME call.pc # "idle", IsStream(call.req.rpc)
               PROVE  StreamIsFaithful
    BY DEF StreamIsFaithful
  <2>1. PICK sent : /\ sent = call.sent /\ SentOK(sent, call.n)
                    /\ call.pc = "done" => (call.code = "OK" <=> ~NoneDone(sent))
    BY <1>3 DEF StreamInv, StreamOK
  <2>2. \A i \in DOMAIN sent :
          sent[i].current > 0 => sent[i].line = <<sent[i].current>>
    BY <2>1 DEF SentOK
  <2> QED
    BY <2>1, <2>2 DEF SentOK, NoneDone, StreamIsFaithful
<1> QED
  BY <1>1, <1>2, <1>3, SpecIInv, PTL DEF Spec

\* Whatever the sizes of chunks and blocks, of a fixed size or listed: the
\* chunks a client has are the file from its start on, each where it says; and
\* the whole of it when the answer is OK.
THEOREM FilesAreWhole == Spec => []GetFileIsWhole
<1>1. Init => FileInv
  BY DEF Init, FileInv, NoCall
<1>2. IInv /\ FileInv /\ [Next]_vars => FileInv'
  <2>1. ASSUME FileInv, UNCHANGED vars PROVE FileInv'
    BY <2>1 DEF FileInv, FileOK, Ordered, vars
  <2> QED
    BY <2>1, FileStep
<1>3. ASSUME FileInv PROVE GetFileIsWhole
  <2> SUFFICES ASSUME call.pc \in {"reading", "done"}, call.req.rpc = "GetFile",
                      call.sent # <<>>
               PROVE  GetFileIsWhole
    BY DEF GetFileIsWhole
  <2>1. /\ InOrder(call.sent, Content(call.reply), call.off)
        /\ call.code = "OK" => call.off = Len(Content(call.reply))
    BY <1>3 DEF FileInv, FileOK, Ordered
  <2>2. PICK sent, all, off : sent = call.sent /\ all = Content(call.reply) /\ off = call.off
    OBVIOUS
  <2>3. PICK m, e : Chunks(sent, all, m, e, off)
    BY <2>1, <2>2, Zenon DEF InOrder
  <2>4. /\ all \in Seq(Nat) /\ m \in Nat /\ DOMAIN sent = 1..m /\ e[m] = off
        /\ \A k \in 0..m : e[k] \in 0..Len(all)
        /\ \A k \in 1..m : sent[k].off = e[k - 1]
    BY <2>3 DEF Chunks
  <2>5. PICK got : got = SeqOps!FlattenSeq([i \in DOMAIN sent |-> sent[i].data])
    OBVIOUS
  <2>6. got = SubSeq(all, 1, off) /\ Len(got) = off /\ off <= Len(all)
    <3>1. m \in 0..m
      BY <2>4
    <3>2. got = SubSeq(all, 1, e[m]) /\ Len(got) = e[m]
      <4>1. UpTo(sent, all, e, m)
        BY <2>3, <3>1, ChunksJoin, Zenon
      <4> QED
        BY <2>4, <2>5, <4>1, Zenon DEF UpTo
    <3>3. e[m] <= Len(all)
      BY <2>4, <3>1
    <3> QED
      BY <2>4, <3>2, <3>3, Zenon
  <2>7. Seqs!IsPrefix(got, all)
    <3>1. SubSeq(got, 1, Len(got)) = got
      <4>1. off \in 0..Len(all)
        BY <2>4
      <4>2. got \in Seq(Nat)
        BY <2>4, <2>6, <4>1
      <4> QED
        BY <4>2
    <3> QED
      BY <2>6, <3>1, Zenon DEF Seqs!IsPrefix
  <2>8. ASSUME NEW i \in DOMAIN sent
        PROVE  sent[i].off = Len(SeqOps!FlattenSeq([j \in 1..i - 1 |-> sent[j].data]))
    <3>1. i \in 1..m /\ i - 1 \in 0..m
      BY <2>4
    <3>2. Len(SeqOps!FlattenSeq([j \in 1..i - 1 |-> sent[j].data])) = e[i - 1]
      <4>1. UpTo(sent, all, e, i - 1)
        BY <2>3, <3>1, ChunksJoin, Zenon
      <4> QED
        BY <4>1, Zenon DEF UpTo
    <3> QED
      BY <2>4, <3>1, <3>2, Zenon
  <2>9. call.code = "OK" => got = all
    BY <2>1, <2>2, <2>4, <2>6
  <2> QED
    BY <2>2, <2>5, <2>7, <2>8, <2>9, Zenon DEF GetFileIsWhole
<1> QED
  BY <1>1, <1>2, <1>3, SpecIInv, PTL DEF Spec
\* Diff's answer names every path at which two states differ, once, and its
\* size_deltas add up to the difference of their sizes, whatever the states
\* hold and whoever commits meanwhile.
THEOREM DiffsAddUp == Spec => []DiffAddsUp
<1>1. Init => DiffInv
  BY DEF Init, DiffInv, Finished, NoCall
<1>2. IInv /\ DiffInv /\ [Next]_vars => DiffInv'
  <2>1. ASSUME DiffInv, UNCHANGED vars PROVE DiffInv'
    BY <2>1 DEF DiffInv, Answers, Finished, vars, disk
  <2> QED
    BY <2>1, DiffStep
<1>3. ASSUME IInv, DiffInv PROVE DiffAddsUp
  <2> SUFFICES ASSUME Finished({"Diff"}), call.code = "OK" PROVE DiffAddsUp
    BY DEF DiffAddsUp
  <2>1. PICK from, to, changes :
          /\ from = states[call.req.from].content.files
          /\ to = states[call.req.to].content.files
          /\ changes = call.reply.changes
    OBVIOUS
  <2>2. Comparable(from, to) /\ changes = FileChanges(from, to)
    <3>1. Answers
      BY <1>3 DEF DiffInv
    <3> QED
      BY <1>3, <2>1, <3>1, StatesCompare DEF Answers, IInv
  <2>3. /\ {c.path : c \in changes} = Differing(from, to)
        /\ Cardinality({c.path : c \in changes}) = Cardinality(changes)
        /\ TotalDelta(changes) = Total(to) - Total(from)
    BY <2>2, DiffSums
  <2> QED
    BY <2>1, <2>3, Zenon DEF DiffAddsUp, Differing, TotalDelta
<1> QED
  BY <1>1, <1>2, <1>3, SpecIInv, PTL DEF Spec
=============================================================================
