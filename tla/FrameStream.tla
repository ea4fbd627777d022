---------------------------- MODULE FrameStream ----------------------------
(***************************************************************************)
(* The streaming path of the simulator: runs publish frames into a spool   *)
(* directory (frame.cpp), servers stream that directory to one client at a *)
(* time and remove a frame once it is acknowledged, clients store frames   *)
(* (network.cpp, the two stream programs).                                 *)
(*                                                                         *)
(* Every process may crash at any step.  A TCP connection has two ends: a  *)
(* client's end is its `link' and `wire' (what the server sent and the     *)
(* client has not read); a server's end is its `line' and `ack' (an        *)
(* acknowledgement not read yet).  An end is "open", "closed" (the kernel  *)
(* reports the loss once the data received before it is read) or "dead"    *)
(* (the path was lost and nothing tells this end).                         *)
(*                                                                         *)
(* A frame is the pair <<run, sequence number>>: frame names sort by       *)
(* session id and then by the zero-padded sequence number.                 *)
(***************************************************************************)
EXTENDS Integers, Sequences, FiniteSets

CONSTANTS
  NumRuns,        \* bound: simulator runs over the life of the spool
  MaxFrames,      \* bound: frames one run publishes
  Chunks,         \* I/O buffers of file content in one frame
  Servers,        \* server processes that watch the spool directory
  Clients,        \* clients, each with an output directory of its own
  FollowClients,  \* the clients run without --once
  Unreadable,     \* frames the client's readFrameHeader rejects (another build's version)
  Backlog,        \* connections a listening socket queues
  MaxFaults,      \* bound: crashes, lost connections and premature timeouts
  SilentLoss,     \* whether a path may be lost without either end being told
  NoServer, NoClient, NoFrame

Runs == 1 .. NumRuns
Frames == Runs \X (0 .. MaxFrames - 1)

ASSUME StreamAssumption ==
  /\ NumRuns \in Nat /\ MaxFrames \in Nat /\ MaxFaults \in Nat
  /\ Chunks \in Nat \ {0} /\ Backlog \in Nat \ {0}
  /\ FollowClients \subseteq Clients /\ Unreadable \subseteq Frames
  /\ SilentLoss \in BOOLEAN
  /\ NoServer \notin Servers /\ NoClient \notin Clients /\ NoFrame \notin Frames

VARIABLES
  sim,       \* run -> "new", "running", "ended"
  produced,  \* run -> number of frames it has published
  spool,     \* the .nbsnap files in the spool directory
  pending,   \* server -> connections its listening socket has queued
  server,    \* server -> state of runServer and serveClient
  client,    \* client -> state of downloadFrames and its connection
  out,       \* client -> frame -> I/O buffers under its final name, 0: no file
  faults,    \* faults so far
  late,      \* server -> frames renamed into the spool while it reads the directory
  abreast,   \* history variable: pairs of frames, the older one first, published during one listing
  skipped    \* history variable: queued frames that a server failed to look at

listingVars == <<late, abreast, skipped>>
vars == <<sim, produced, spool, pending, server, client, out, faults, listingVars>>

\* The states in which a server reads the spool directory: for the first time, and again.
Listing == {"list", "relist"}
ServerState == Listing \cup {"down", "accept", "choose", "idle", "offer", "stream", "ack", "remove"}
ClientState == {"off", "idle", "await", "receiving", "stored", "validated", "done"}
End == {"open", "closed", "dead"}

NoFile == [name |-> NoFrame, chunks |-> 0]
EndMessage == [kind |-> "end", name |-> NoFrame]
FrameMessage(f) == [kind |-> "frame", name |-> f]
Data(f) == [kind |-> "data", name |-> f]
Message == {FrameMessage(f) : f \in Frames} \cup {Data(f) : f \in Frames} \cup {EndMessage}

ServerRecord ==
  [state : ServerState, peer : Clients \cup {NoClient}, line : End, todo : SUBSET Frames,
   cur : Frames \cup {NoFrame}, sent : 0 .. Chunks, ack : Frames \cup {NoFrame}]
ClientRecord ==
  [state : ClientState, host : Servers \cup {NoServer}, link : End, wire : Seq(Message),
   file : [name : Frames \cup {NoFrame}, chunks : 0 .. Chunks], backlog : SUBSET Frames]

\* A server that holds no client's connection.
Unoccupied(state) ==
  [state |-> state, peer |-> NoClient, line |-> "closed", todo |-> {},
   cur |-> NoFrame, sent |-> 0, ack |-> NoFrame]

\* A server that has accepted client c's connection and begun to list the frames `todo'.
Serving(c, todo) ==
  [state |-> "list", peer |-> c, line |-> "open", todo |-> todo,
   cur |-> NoFrame, sent |-> 0, ack |-> NoFrame]

\* A client that holds no connection.
Disconnected(state) ==
  [state |-> state, host |-> NoServer, link |-> "closed", wire |-> <<>>,
   file |-> NoFile, backlog |-> {}]

\* A client connected to server s; a --once client remembers the backlog there was (of
\* which StatFails strikes what the server could not look at).
Connected(s, backlog) ==
  [state |-> "await", host |-> s, link |-> "open", wire |-> <<>>,
   file |-> NoFile, backlog |-> backlog]

\* A client whose --once session ended regularly.
Finished(backlog) ==
  [state |-> "done", host |-> NoServer, link |-> "closed", wire |-> <<>>,
   file |-> NoFile, backlog |-> backlog]

Init ==
  /\ sim = [r \in Runs |-> "new"]
  /\ produced = [r \in Runs |-> 0]
  /\ spool = {}
  /\ pending = [s \in Servers |-> <<>>]
  /\ server = [s \in Servers |-> Unoccupied("down")]
  /\ client = [c \in Clients |-> Disconnected("idle")]
  /\ out = [c \in Clients |-> [f \in Frames |-> 0]]
  /\ faults = 0
  /\ late = [s \in Servers |-> {}]
  /\ abreast = {}
  /\ skipped = {}

----------------------------------------------------------------------------
(* Shared notions *)

Precedes(f, g) == f[1] < g[1] \/ (f[1] = g[1] /\ f[2] < g[2])

\* Mutant: the newest file is left out, as if it might still be written.
AllButNewest == {f \in spool : \E g \in spool : Precedes(f, g)}
\* The .nbsnap files in the spool directory when listCompletedFrames opens it.
CompletedFrames == spool

\* Mutant: the listing is not sorted.
AnyListed(f, todo) == f \in todo
\* The sorted listing continues with f.
NextListed(f, todo) == f \in todo /\ \A g \in todo \ {f} : Precedes(f, g)

Published == {f \in Frames : f[2] < produced[f[1]]}

\* Frames some client holds whole under their final name and can read.
Delivered == {f \in Frames \ Unreadable : \E c \in Clients : out[c][f] = Chunks}

\* Server s and client c are the two ends of one accepted connection.
Attached(s, c) == server[s].peer = c /\ server[s].line = "open"

Fault == faults < MaxFaults /\ faults' = faults + 1

\* The connection of client c ends; the server learns of it as `line'.  A queued
\* connection stays queued although nobody is at its other end any more.
PeerLeaves(c, line) ==
  /\ server' = [s \in Servers |->
       IF Attached(s, c) THEN [server[s] EXCEPT !.line = line] ELSE server[s]]
  /\ pending' = [s \in Servers |->
       [i \in DOMAIN pending[s] |-> IF pending[s][i] = c THEN NoClient ELSE pending[s][i]]]

\* The clients, with server s's end of the accepted connection closed.
ClosedBy(s) ==
  [c \in Clients |-> IF Attached(s, c) THEN [client[c] EXCEPT !.link = "closed"] ELSE client[c]]

\* The clients, with a message from server s on its way to the attached client.
Sent(s, message) ==
  [c \in Clients |->
     IF Attached(s, c) THEN [client[c] EXCEPT !.wire = Append(@, message)] ELSE client[c]]

----------------------------------------------------------------------------
(* The simulator's side of the spool *)

\* A FrameSpool takes a session id later than every earlier one.
StartRun(r) ==
  /\ sim[r] = "new"
  /\ \A q \in 1 .. r - 1 : sim[q] # "new"
  /\ sim' = [sim EXCEPT ![r] = "running"]
  /\ UNCHANGED <<produced, spool, pending, server, client, out, faults, listingVars>>

\* The rename that publishes a frame.  Until then the file has the extension
\* .part, which nobody else opens.
PublishFrame(r) ==
  /\ sim[r] = "running"
  /\ produced[r] < MaxFrames
  /\ <<r, produced[r]>> \notin spool
  /\ spool' = spool \cup {<<r, produced[r]>>}
  /\ produced' = [produced EXCEPT ![r] = @ + 1]
  /\ late' = [s \in Servers |->
       IF server[s].state \in Listing THEN late[s] \cup {<<r, produced[r]>>} ELSE late[s]]
  /\ UNCHANGED <<sim, pending, server, client, out, faults, abreast, skipped>>

\* The run completes, fails or is killed, between any two frames.
EndRun(r) ==
  /\ sim[r] = "running"
  /\ sim' = [sim EXCEPT ![r] = "ended"]
  /\ UNCHANGED <<produced, spool, pending, server, client, out, faults, listingVars>>

----------------------------------------------------------------------------
(* runServer and serveClient *)

StartServer(s) ==
  /\ server[s].state = "down"
  /\ server' = [server EXCEPT ![s] = Unoccupied("accept")]
  /\ UNCHANGED <<sim, produced, spool, pending, client, out, faults, listingVars>>

\* accept, receiveHello, and the spool directory is opened for the first listing.
Accept(s) ==
  /\ server[s].state = "accept"
  /\ pending[s] # <<>>
  /\ Head(pending[s]) # NoClient
  /\ pending' = [pending EXCEPT ![s] = Tail(@)]
  /\ server' = [server EXCEPT ![s] = Serving(Head(pending[s]), CompletedFrames)]
  /\ UNCHANGED <<sim, produced, spool, client, out, faults, listingVars>>

\* The iteration over the directory ends.  It has found what was there from the start (if
\* another server has removed it since, it is skipped like any frame that is gone), and
\* any of the frames renamed in meanwhile.
EndListing(s) ==
  /\ server[s].state \in Listing
  /\ \E found \in SUBSET late[s] :
       server' = [server EXCEPT ![s].todo = @ \cup found,
                    ![s].state = IF @ = "relist" /\ server[s].todo \cup found = {} THEN "idle" ELSE "choose"]
  /\ late' = [late EXCEPT ![s] = {}]
  /\ abreast' = abreast \cup {p \in late[s] \X late[s] : Precedes(p[1], p[2])}
  /\ UNCHANGED <<sim, produced, spool, pending, client, out, faults, skipped>>

\* A queued connection whose client has left: a read or a send fails, no file changes.
AcceptAbandoned(s) ==
  /\ server[s].state = "accept"
  /\ pending[s] # <<>>
  /\ Head(pending[s]) = NoClient
  /\ pending' = [pending EXCEPT ![s] = Tail(@)]
  /\ UNCHANGED <<sim, produced, spool, server, client, out, faults, listingVars>>

\* The loop takes the next frame of the sorted listing, and skips it if it is gone.
ChooseFrame(s) ==
  /\ server[s].state = "choose"
  /\ \E f \in server[s].todo :
       /\ NextListed(f, server[s].todo)
       /\ server' = IF f \in spool
                    THEN [server EXCEPT ![s].todo = @ \ {f}, ![s].cur = f, ![s].state = "offer"]
                    ELSE [server EXCEPT ![s].todo = @ \ {f}]
  /\ UNCHANGED <<sim, produced, spool, pending, client, out, faults, listingVars>>

\* is_regular_file or exists fails on a frame that is there, so it is passed over.
StatFails(s) ==
  /\ \E f \in server[s].todo \cap spool :
       /\ \/ server[s].state \in Listing
          \/ server[s].state = "choose" /\ NextListed(f, server[s].todo)
       /\ server' = [server EXCEPT ![s].todo = @ \ {f}]
       /\ client' = [c \in Clients |->
            IF Attached(s, c) THEN [client[c] EXCEPT !.backlog = @ \ {f}] ELSE client[c]]
       /\ skipped' = skipped \cup {f}
  /\ Fault
  /\ UNCHANGED <<sim, produced, spool, pending, out, late, abreast>>

\* sendFrame opens the file, which another server may have removed, and sends its header.
OfferFrame(s) ==
  /\ server[s].state = "offer"
  /\ server[s].cur \in spool
  /\ server' = [server EXCEPT ![s].state = "stream", ![s].sent = 0]
  /\ client' = Sent(s, FrameMessage(server[s].cur))
  /\ UNCHANGED <<sim, produced, spool, pending, out, faults, listingVars>>

\* Mutant: off by one, an I/O buffer too many.
PastLastBuffer(sent) == sent = Chunks
LastBuffer(sent) == sent + 1 = Chunks

SendData(s) ==
  /\ server[s].state = "stream"
  /\ server' = [server EXCEPT ![s].sent = @ + 1,
                              ![s].state = IF LastBuffer(server[s].sent) THEN "ack" ELSE @]
  /\ client' = Sent(s, Data(server[s].cur))
  /\ UNCHANGED <<sim, produced, spool, pending, out, faults, listingVars>>

\* receiveAck accepts only the name of the frame just sent.
ReadAck(s) ==
  /\ server[s].state = "ack"
  /\ server[s].ack = server[s].cur
  /\ server' = [server EXCEPT ![s].state = "remove", ![s].ack = NoFrame]
  /\ UNCHANGED <<sim, produced, spool, pending, client, out, faults, listingVars>>

\* Removing a file that is already gone is no error.
RemoveFrame(s) ==
  /\ server[s].state = "remove"
  /\ spool' = spool \ {server[s].cur}
  /\ server' = [server EXCEPT ![s].state = "choose", ![s].cur = NoFrame, ![s].sent = 0]
  /\ UNCHANGED <<sim, produced, pending, client, out, faults, listingVars>>

\* Backlog mode: the listing is exhausted.
EndBacklog(s) ==
  /\ server[s].state = "choose"
  /\ server[s].todo = {}
  /\ server[s].peer \notin FollowClients
  /\ client' = [c \in Clients |->
       IF Attached(s, c)
       THEN [client[c] EXCEPT !.wire = Append(@, EndMessage), !.link = "closed"]
       ELSE client[c]]
  /\ server' = [server EXCEPT ![s] = Unoccupied("accept")]
  /\ UNCHANGED <<sim, produced, spool, pending, out, faults, listingVars>>

\* Follow mode: the listing is exhausted, or was empty and the idle poll has seen nothing on
\* the socket; the directory is opened again.
Rescan(s) ==
  /\ \/ /\ server[s].state = "choose"
        /\ server[s].todo = {}
        /\ server[s].peer \in FollowClients
     \/ server[s].state = "idle" /\ server[s].line # "closed"
  /\ server' = [server EXCEPT ![s].todo = CompletedFrames, ![s].state = "relist"]
  /\ UNCHANGED <<sim, produced, spool, pending, client, out, faults, listingVars>>

\* Mutant: the idle loop does not look at the socket.
FailsUnlessIdle(s) ==
  \/ /\ server[s].state = "offer"
     /\ server[s].cur \notin spool \/ server[s].line # "open"
  \/ server[s].state = "stream" /\ server[s].line # "open"
  \/ server[s].state = "ack" /\ server[s].ack = NoFrame /\ server[s].line # "open"

\* Mutant: the wait for the acknowledgement has no timeout and ignores end of file.
FailsUnlessWaiting(s) ==
  \/ server[s].state = "idle" /\ server[s].line = "closed"
  \/ /\ server[s].state = "offer"
     /\ server[s].cur \notin spool \/ server[s].line # "open"
  \/ server[s].state = "stream" /\ server[s].line # "open"

\* serveClient throws: the idle poll reads end of file, the file cannot be opened, a
\* send fails, the wait for the acknowledgement ends without one, or it names
\* another frame.
ServingFails(s) ==
  \/ server[s].state = "idle" /\ server[s].line = "closed"
  \/ /\ server[s].state = "offer"
     /\ server[s].cur \notin spool \/ server[s].line # "open"
  \/ server[s].state = "stream" /\ server[s].line # "open"
  \/ server[s].state = "ack" /\ server[s].ack = NoFrame /\ server[s].line # "open"
  \/ server[s].state = "ack" /\ server[s].ack \notin {NoFrame, server[s].cur}

\* Mutant: a failed frame is skipped and the connection kept.
SkipFailedFrame(s) ==
  /\ server' = [server EXCEPT ![s].state = "choose", ![s].cur = NoFrame, ![s].sent = 0]
  /\ UNCHANGED <<sim, produced, spool, pending, client, out, listingVars>>

\* runServer catches the exception, closes the connection and accepts again.
DropClient(s) ==
  /\ server' = [server EXCEPT ![s] = Unoccupied("accept")]
  /\ client' = ClosedBy(s)
  /\ late' = [late EXCEPT ![s] = {}]
  /\ UNCHANGED <<sim, produced, spool, pending, out, abreast, skipped>>

AbandonClient(s) == ServingFails(s) /\ DropClient(s) /\ UNCHANGED faults

\* Two seconds pass in a send, or without the acknowledgement, of a client that is only
\* slow; or the directory cannot be read, or the acknowledged file not removed.
ServingInterrupted(s) ==
  /\ \/ /\ server[s].state \in {"offer", "stream", "ack"}
        /\ server[s].ack = NoFrame /\ server[s].line = "open"
     \/ server[s].state \in Listing \cup {"remove"}
  /\ Fault
  /\ DropClient(s)

\* The process exits on a signal between frames, is killed, or ends with the
\* simulator that started it; its sockets close.
CrashServer(s) ==
  /\ server[s].state # "down"
  /\ Fault
  /\ server' = [server EXCEPT ![s] = Unoccupied("down")]
  /\ pending' = [pending EXCEPT ![s] = <<>>]
  /\ client' = [c \in Clients |->
       IF Attached(s, c) \/ \E i \in DOMAIN pending[s] : pending[s][i] = c
       THEN [client[c] EXCEPT !.link = "closed"] ELSE client[c]]
  /\ late' = [late EXCEPT ![s] = {}]
  /\ UNCHANGED <<sim, produced, spool, out, abreast, skipped>>

----------------------------------------------------------------------------
(* downloadFrames, and the loop around it in stream_client/main.cpp *)

\* Follow mode reconnects after a failure, --once exits.
AfterFailure(c) == IF c \in FollowClients THEN "idle" ELSE "off"

\* Connecting queues the connection at the listener; the hello is sent at once.
Connect(c, s) ==
  /\ client[c].state = "idle"
  /\ server[s].state # "down"
  /\ Len(pending[s]) < Backlog
  /\ pending' = [pending EXCEPT ![s] = Append(@, c)]
  /\ client' = [client EXCEPT ![c] =
       Connected(s, IF c \in FollowClients THEN {} ELSE spool)]
  /\ UNCHANGED <<sim, produced, spool, server, out, faults, listingVars>>

\* The kind of the message a client in `state' reads next.
Reading(c, state, kind) ==
  /\ client[c].state = state
  /\ client[c].wire # <<>>
  /\ Head(client[c].wire).kind = kind

\* A frame header: receiveFrame truncates the .part file.
BeginReceive(c) ==
  /\ Reading(c, "await", "frame")
  /\ client' = [client EXCEPT ![c].state = "receiving", ![c].wire = Tail(@),
                  ![c].file = [name |-> Head(client[c].wire).name, chunks |-> 0]]
  /\ UNCHANGED <<sim, produced, spool, pending, server, out, faults, listingVars>>

ReceiveData(c) ==
  /\ Reading(c, "receiving", "data")
  /\ client[c].file.chunks < Chunks
  /\ client' = [client EXCEPT ![c].wire = Tail(@), ![c].file.chunks = @ + 1]
  /\ UNCHANGED <<sim, produced, spool, pending, server, out, faults, listingVars>>

\* Mutant: the .part file is renamed as soon as it holds anything.
Begun(c) == client[c].file.chunks > 0
Whole(c) == client[c].file.chunks = Chunks

\* The whole content is there: the .part file is renamed over the final name.
StoreFrame(c) ==
  /\ client[c].state = "receiving"
  /\ Whole(c)
  /\ out' = [out EXCEPT ![c][client[c].file.name] = client[c].file.chunks]
  /\ client' = [client EXCEPT ![c].state = "stored"]
  /\ UNCHANGED <<sim, produced, spool, pending, server, faults, listingVars>>

\* Mutant: the renamed file is acknowledged unread.
AnythingGoes(c) == TRUE
\* readFrameHeader on the renamed file accepts a known version of the right size.
Readable(c) ==
  /\ client[c].file.name \notin Unreadable
  /\ out[c][client[c].file.name] = Chunks

ValidateFrame(c) ==
  /\ client[c].state = "stored"
  /\ Readable(c)
  /\ client' = [client EXCEPT ![c].state = "validated"]
  /\ UNCHANGED <<sim, produced, spool, pending, server, out, faults, listingVars>>

\* An acknowledgement into a lost connection never arrives, but unlike an idle
\* connection it makes the client's kernel notice the loss.
SendAck(c) ==
  /\ client[c].state = "validated"
  /\ server' = [s \in Servers |->
       IF Attached(s, c) THEN [server[s] EXCEPT !.ack = client[c].file.name] ELSE server[s]]
  /\ client' = [client EXCEPT ![c].state = "await", ![c].file = NoFile,
                              ![c].link = IF @ = "dead" THEN "closed" ELSE @]
  /\ UNCHANGED <<sim, produced, spool, pending, out, faults, listingVars>>

\* The end message: downloadFrames returns.
ReadEnd(c) ==
  /\ Reading(c, "await", "end")
  /\ client' = [client EXCEPT ![c] = Finished(client[c].backlog)]
  /\ PeerLeaves(c, "closed")
  /\ UNCHANGED <<sim, produced, spool, out, faults, listingVars>>

\* downloadFrames throws: end of file, a receive timeout inside a frame, or a stored
\* frame that does not validate.  Waiting for a header has no timeout.
DownloadFails(c) ==
  \/ client[c].state = "await" /\ client[c].wire = <<>> /\ client[c].link = "closed"
  \/ /\ client[c].state = "receiving" /\ ~Whole(c)
     /\ client[c].wire = <<>> /\ client[c].link # "open"
  \/ client[c].state = "stored" /\ ~Readable(c)

\* The connection is closed and an unfinished .part file removed.
CloseConnection(c, state) ==
  /\ client' = [client EXCEPT ![c] = Disconnected(state)]
  /\ PeerLeaves(c, "closed")
  /\ UNCHANGED <<sim, produced, spool, out, listingVars>>

FailDownload(c) ==
  DownloadFails(c) /\ CloseConnection(c, AfterFailure(c)) /\ UNCHANGED faults

\* Two seconds pass without data from a server that is only slow, or the .part file
\* cannot be written or renamed.
ReceiveInterrupted(c) ==
  /\ client[c].state = "receiving"
  /\ Fault
  /\ CloseConnection(c, AfterFailure(c))

\* The client is stopped or killed; what is stored stays.
CrashClient(c) ==
  /\ client[c].state \notin {"off", "done"}
  /\ Fault
  /\ CloseConnection(c, "off")

\* The user runs the client again.
StartClient(c) ==
  /\ client[c].state \in {"off", "done"}
  /\ client' = [client EXCEPT ![c] = Disconnected("idle")]
  /\ UNCHANGED <<sim, produced, spool, pending, server, out, faults, listingVars>>

\* The path between a client and its server is lost, with some of what was on it;
\* both ends are told, or (SilentLoss) neither.  An acknowledgement lost on its way is
\* one sent after the loss.
LoseConnection(c) ==
  /\ client[c].link = "open"
  /\ Fault
  /\ \E how \in IF SilentLoss THEN {"closed", "dead"} ELSE {"closed"},
        n \in 0 .. Len(client[c].wire) :
       /\ client' = [client EXCEPT ![c].link = how, ![c].wire = SubSeq(@, 1, n)]
       /\ PeerLeaves(c, how)
  /\ UNCHANGED <<sim, produced, spool, out, listingVars>>

----------------------------------------------------------------------------
SimStep(r) == StartRun(r) \/ PublishFrame(r) \/ EndRun(r)

ServerStep(s) ==
  \/ Accept(s) \/ AcceptAbandoned(s) \/ EndListing(s) \/ ChooseFrame(s) \/ OfferFrame(s) \/ SendData(s)
  \/ ReadAck(s) \/ RemoveFrame(s) \/ EndBacklog(s) \/ Rescan(s) \/ AbandonClient(s)

ClientStep(c) ==
  \/ \E s \in Servers : Connect(c, s)
  \/ BeginReceive(c) \/ ReceiveData(c) \/ StoreFrame(c) \/ ValidateFrame(c)
  \/ SendAck(c) \/ ReadEnd(c) \/ FailDownload(c)

ServerFault(s) == StatFails(s) \/ ServingInterrupted(s) \/ CrashServer(s)
ClientFault(c) == ReceiveInterrupted(c) \/ CrashClient(c) \/ LoseConnection(c)

Next ==
  \/ \E r \in Runs : SimStep(r)
  \/ \E s \in Servers : ServerStep(s) \/ StartServer(s) \/ ServerFault(s)
  \/ \E c \in Clients : ClientStep(c) \/ StartClient(c) \/ ClientFault(c)

Spec == Init /\ [][Next]_vars

\* Servers and clients are scheduled, and run again after a crash; nothing obliges a
\* run to start, to publish or to end, and nothing obliges a fault.
FairSpec ==
  /\ Spec
  /\ \A s \in Servers : WF_vars(ServerStep(s)) /\ WF_vars(StartServer(s))
  /\ \A c \in Clients : WF_vars(ClientStep(c)) /\ WF_vars(StartClient(c))

----------------------------------------------------------------------------
(* Properties *)

TypeOK ==
  /\ sim \in [Runs -> {"new", "running", "ended"}]
  /\ produced \in [Runs -> 0 .. MaxFrames]
  /\ spool \subseteq Frames
  /\ pending \in [Servers -> Seq(Clients \cup {NoClient})]
  /\ server \in [Servers -> ServerRecord]
  /\ client \in [Clients -> ClientRecord]
  /\ out \in [Clients -> [Frames -> 0 .. Chunks]]
  /\ faults \in 0 .. MaxFaults
  /\ late \in [Servers -> SUBSET Frames]
  /\ abreast \subseteq Frames \X Frames
  /\ skipped \subseteq Frames

\* No published frame is ever lost: until some client holds it whole and readable it is
\* still in the spool, whatever crashed, timed out or was sent twice.
NoFrameLost == Published \subseteq spool \cup Delivered

\* The two ways in which the order of a run's frames can be lost: listCompletedFrames may
\* find f and not the older g if both are published while it reads the directory, and a
\* frame whose stat fails is left for a later listing.
MayOvertake(f, g) == <<g, f>> \in abreast \/ g \in skipped

\* Frames are streamed in order but for these two: once a client holds a frame, no older
\* frame of the same run is left in the spool, even when several servers watch it.
InOrder ==
  \A c \in Clients, f \in Frames :
    out[c][f] > 0 =>
      \A k \in 0 .. f[2] - 1 : <<f[1], k>> \in spool => MayOvertake(f, <<f[1], k>>)

\* "Backlog mode is a snapshot of the queue at connection time": a --once client holds no
\* frame that has overtaken one still in the spool.
BacklogInOrder ==
  \A c \in Clients \ FollowClients, f \in Frames :
    out[c][f] > 0 => \A k \in 0 .. f[2] - 1 : <<f[1], k>> \notin spool

\* The framing never slips: a client that waits for a header finds a header or the end
\* message, a client inside a frame finds that frame's content.
FramingInSync ==
  \A c \in Clients :
    client[c].wire # <<>> =>
      LET m == Head(client[c].wire) IN
      /\ client[c].state = "await" => m.kind \in {"frame", "end"}
      /\ client[c].state = "receiving" => m = Data(client[c].file.name)
      /\ client[c].state \in {"await", "receiving"}

\* An acknowledgement that reaches a server answers the frame it is waiting on: a late
\* one, after a timeout and a new connection, is never taken for another frame's.
AckMatchesFrame ==
  \A s \in Servers :
    server[s].ack # NoFrame => server[s].state = "ack" /\ server[s].ack = server[s].cur

\* A --once session that ends regularly leaves nothing of the backlog that existed when
\* it connected and that its server could look at: every such frame is delivered and gone
\* from the spool.
OnceDrainsBacklog ==
  \A c \in Clients :
    client[c].state = "done" => client[c].backlog \cap spool = {} /\ client[c].backlog \subseteq Delivered

(***************************************************************************)
(* The inductive invariant behind NoFrameLost and InOrder.  A frame is     *)
(* Clear when it has been published and no older frame of its run is left  *)
(* in the spool, but for those it may overtake; every copy of a frame on   *)
(* its way is Clear, a listing is missing no other older frame of what it  *)
(* lists, and what justifies a removal (a validated file, an               *)
(* acknowledgement) is Delivered.                                          *)
(***************************************************************************)
Clear(f) ==
  f \in Published /\ \A k \in 0 .. f[2] - 1 : <<f[1], k>> \in spool => MayOvertake(f, <<f[1], k>>)

\* A server in the middle of sendFrame has a Clear frame in hand, one that waits has none.
ServingInv ==
  \A s \in Servers :
    /\ server[s].state \in {"offer", "stream", "ack", "remove"} => Clear(server[s].cur)
    /\ server[s].state \notin {"offer", "stream", "ack", "remove"} => server[s].cur = NoFrame
    /\ server[s].state = "stream" => server[s].sent < Chunks

\* A listing holds published frames, and of each every older frame still in the spool that
\* it may not overtake.
ListingInv ==
  \A s \in Servers : \A f \in server[s].todo :
    /\ f \in Published
    /\ \A k \in 0 .. f[2] - 1 :
         <<f[1], k>> \in spool =>
           <<f[1], k>> \in server[s].todo \cup {server[s].cur} \/ MayOvertake(f, <<f[1], k>>)

\* While a server reads the directory, all that is in the spool was there when it began or
\* has come since.
LateInv ==
  \A s \in Servers :
    /\ late[s] \subseteq Published
    /\ server[s].state \in Listing => spool \subseteq server[s].todo \cup late[s] \cup skipped
    /\ server[s].state \notin Listing => late[s] = {}

\* Whatever is on a wire, in a .part file or in an output directory is Clear.
CopiesInv ==
  \A c \in Clients :
    /\ \A i \in 1 .. Len(client[c].wire) :
         client[c].wire[i] # EndMessage => Clear(client[c].wire[i].name)
    /\ client[c].state \in {"receiving", "stored", "validated"} => Clear(client[c].file.name)
    /\ \A f \in Frames : out[c][f] > 0 => Clear(f)

\* Validated files, acknowledgements and frames about to be removed are Delivered.
EvidenceInv ==
  /\ \A c \in Clients : client[c].state = "validated" => client[c].file.name \in Delivered
  /\ \A s \in Servers : server[s].ack # NoFrame => server[s].ack \in Delivered
  /\ \A s \in Servers : server[s].state = "remove" => server[s].cur \in Delivered

IInv ==
  /\ TypeOK
  /\ spool \subseteq Published
  /\ ServingInv
  /\ ListingInv
  /\ LateInv
  /\ CopiesInv
  /\ EvidenceInv
  /\ NoFrameLost

\* With the spool as its queue and Delivered as the receiving side, the protocol
\* implements at-least-once delivery.
Delivery == INSTANCE FrameDelivery WITH queued <- spool, delivered <- Delivered
DeliverySpec == Delivery!Spec

\* After finitely many faults every queued frame is delivered and removed.
EventuallyDelivered == \A f \in Frames : f \in spool ~> f \in Delivered /\ f \notin spool

\* A server whose client is gone does not stay with it for ever.
SlotFreed ==
  \A s \in Servers : (server[s].peer # NoClient /\ server[s].line = "closed") ~> server[s].peer = NoClient

\* "Follow mode reconnects after a network interruption."
FollowReconnects ==
  \A c \in FollowClients :
    client[c].link = "dead" ~> client[c].link # "dead"
=============================================================================
