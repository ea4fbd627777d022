------------------------- MODULE FrameStreamProofs ------------------------
(***************************************************************************)
(* FrameStream for every number of runs, frames, servers, clients,         *)
(* buffers and faults. IInv is an inductive invariant, so no frame is      *)
(* lost, a frame is overtaken only by one published during the same        *)
(* listing or when its stat has failed, and FrameStream implements         *)
(* FrameDelivery. The second half is about one connection: its two ends    *)
(* stay in step, so the framing never slips, an acknowledgement always     *)
(* answers the frame its server waits on, and a --once session that ends   *)
(* regularly leaves nothing of its backlog.                                *)
(***************************************************************************)
EXTENDS FrameStream, TLAPS

---------------------------------------------------------------------------
(* No frame is lost: the directories and the records of both ends *)

(* The initial state satisfies the invariant. *)
LEMMA InitInv == Init => IInv
<1> SUFFICES ASSUME Init PROVE IInv
  OBVIOUS
<1>1. TypeOK
  BY StreamAssumption DEF Init, TypeOK, Runs, Unoccupied, Disconnected, NoFile, ServerRecord, ClientRecord, ServerState, ClientState, End
<1>2. Published = {}
  BY StreamAssumption DEF Init, Published, Frames, Runs
<1>3. ServingInv /\ ListingInv /\ LateInv /\ CopiesInv /\ EvidenceInv
  BY DEF Init, ServingInv, ListingInv, LateInv, Listing, CopiesInv, EvidenceInv, Unoccupied, Disconnected
<1> QED
  BY <1>1, <1>2, <1>3 DEF IInv, NoFrameLost, Init

(* How a step can touch the spool: a run publishes its next frame or a server removes *)
(* the frame in its hand; every other step leaves it alone. *)
LEMMA SpoolChange ==
  ASSUME Next
  PROVE  \/ UNCHANGED <<spool, produced>>
         \/ \E r \in Runs : PublishFrame(r)
         \/ \E s \in Servers : RemoveFrame(s)
BY DEF Next, SimStep, StartRun, EndRun, ServerStep, StartServer, Accept, AcceptAbandoned,
  EndListing, ChooseFrame, OfferFrame, SendData, ReadAck, EndBacklog, Rescan, AbandonClient, DropClient,
  ServerFault, StatFails, ServingInterrupted, CrashServer, ClientStep, StartClient, Connect, BeginReceive,
  ReceiveData, StoreFrame, ValidateFrame, SendAck, ReadEnd, FailDownload, CloseConnection,
  ClientFault, ReceiveInterrupted, CrashClient, LoseConnection

(* The output directories change only where a client renames a whole .part file. *)
LEMMA OutChange ==
  ASSUME Next
  PROVE  UNCHANGED out \/ \E c \in Clients : StoreFrame(c)
BY DEF Next, SimStep, StartRun, PublishFrame, EndRun, ServerStep, StartServer, Accept,
  AcceptAbandoned, EndListing, ChooseFrame, OfferFrame, SendData, ReadAck, RemoveFrame, EndBacklog, Rescan,
  AbandonClient, DropClient, ServerFault, StatFails, ServingInterrupted, CrashServer, ClientStep, StartClient,
  Connect, BeginReceive, ReceiveData, ValidateFrame, SendAck, ReadEnd, FailDownload,
  CloseConnection, ClientFault, ReceiveInterrupted, CrashClient, LoseConnection

(* The two records of how order may be lost only grow: pairs by the end of a listing, *)
(* frames by a stat that fails. *)
LEMMA HistoryGrows ==
  ASSUME Next
  PROVE  \A f, g : MayOvertake(f, g) => MayOvertake(f, g)'
<1>1. abreast \subseteq abreast' /\ skipped \subseteq skipped'
  BY DEF Next, SimStep, StartRun, PublishFrame, EndRun, ServerStep, StartServer, Accept,
    AcceptAbandoned, EndListing, ChooseFrame, OfferFrame, SendData, ReadAck, RemoveFrame, EndBacklog, Rescan,
    AbandonClient, DropClient, ServerFault, StatFails, ServingInterrupted, CrashServer, ClientStep, StartClient,
    Connect, BeginReceive, ReceiveData, StoreFrame, ValidateFrame, SendAck, ReadEnd, FailDownload,
    CloseConnection, ClientFault, ReceiveInterrupted, CrashClient, LoseConnection, listingVars
<1> QED
  BY <1>1 DEF MayOvertake

(* What has been published stays published. *)
LEMMA PublishedGrows ==
  ASSUME TypeOK, Next
  PROVE  Published \subseteq Published'
<1>1. CASE UNCHANGED <<spool, produced>>
  BY <1>1 DEF Published
<1>2. ASSUME NEW r \in Runs, PublishFrame(r) PROVE Published \subseteq Published'
  BY <1>2, StreamAssumption DEF TypeOK, PublishFrame, Published, Frames, Runs
<1>3. ASSUME NEW s \in Servers, RemoveFrame(s) PROVE Published \subseteq Published'
  BY <1>3 DEF RemoveFrame, Published
<1> QED
  BY <1>1, <1>2, <1>3, SpoolChange

(* A Clear frame stays Clear: a run publishes only behind what it has published. *)
LEMMA ClearStable ==
  ASSUME TypeOK, Next, NEW f, Clear(f)
  PROVE  Clear(f)'
<1>0. \A k \in 0 .. f[2] - 1 : MayOvertake(f, <<f[1], k>>) => MayOvertake(f, <<f[1], k>>)'
  BY HistoryGrows
<1>1. f \in Published'
  BY PublishedGrows DEF Clear
<1>2. CASE UNCHANGED <<spool, produced>>
  BY <1>0, <1>1, <1>2 DEF Clear
<1>3. ASSUME NEW r \in Runs, PublishFrame(r)
      PROVE  \A k \in 0 .. f[2] - 1 : <<f[1], k>> \in spool' => <<f[1], k>> \in spool
  BY <1>3, StreamAssumption DEF TypeOK, PublishFrame, Published, Clear, Frames, Runs
<1>4. ASSUME NEW s \in Servers, RemoveFrame(s)
      PROVE  \A k \in 0 .. f[2] - 1 : <<f[1], k>> \in spool' => <<f[1], k>> \in spool
  BY <1>4 DEF RemoveFrame
<1> QED
  BY <1>0, <1>1, <1>2, <1>3, <1>4, SpoolChange DEF Clear

(* A delivered frame stays delivered, even when it is stored a second time. *)
LEMMA DeliveredGrows ==
  ASSUME TypeOK, Next
  PROVE  Delivered \subseteq Delivered'
<1>1. CASE UNCHANGED out
  BY <1>1 DEF Delivered
<1>2. ASSUME NEW c \in Clients, StoreFrame(c) PROVE Delivered \subseteq Delivered'
  BY <1>2 DEF TypeOK, StoreFrame, Whole, Delivered
<1> QED
  BY <1>1, <1>2, OutChange

(* A published frame is in the spool or delivered, and the spool holds published frames. *)
LEMMA NoFrameLostStep ==
  ASSUME IInv, Next
  PROVE  spool' \subseteq Published' /\ NoFrameLost'
<1>0. Published \subseteq Published' /\ Delivered \subseteq Delivered'
  BY PublishedGrows, DeliveredGrows DEF IInv
<1>1. CASE UNCHANGED <<spool, produced>>
  BY <1>0, <1>1 DEF IInv, NoFrameLost, Published
<1>2. ASSUME NEW r \in Runs, PublishFrame(r) PROVE spool' \subseteq Published' /\ NoFrameLost'
  <2>1. Published' = Published \cup {<<r, produced[r]>>}
    BY <1>2, StreamAssumption DEF IInv, TypeOK, PublishFrame, Published, Frames, Runs
  <2> QED
    BY <1>0, <1>2, <2>1 DEF IInv, NoFrameLost, PublishFrame
<1>3. ASSUME NEW s \in Servers, RemoveFrame(s) PROVE spool' \subseteq Published' /\ NoFrameLost'
  <2>1. server[s].cur \in Delivered /\ Published' = Published
    BY <1>3 DEF IInv, EvidenceInv, RemoveFrame, Published
  <2> QED
    BY <1>0, <1>3, <2>1 DEF IInv, NoFrameLost, RemoveFrame
<1> QED
  BY <1>1, <1>2, <1>3, SpoolChange

(* The frame a server chooses is Clear: an older frame still in the spool that it may not *)
(* overtake would be in the listing, and sort before it. *)
LEMMA ChosenIsClear ==
  ASSUME IInv, NEW s \in Servers, server[s].state = "choose",
         NEW f \in server[s].todo, NextListed(f, server[s].todo)
  PROVE  Clear(f)
<1>1. f \in Published /\ server[s].cur = NoFrame
  BY DEF IInv, ServingInv, ListingInv
<1>2. f \in Frames
  BY <1>1 DEF Published
<1>3. f[1] \in Int /\ f[2] \in Int
  BY <1>2, StreamAssumption DEF Frames, Runs
<1>4. ASSUME NEW k \in 0 .. f[2] - 1, <<f[1], k>> \in spool, ~MayOvertake(f, <<f[1], k>>) PROVE FALSE
  <2>1. <<f[1], k>> \in server[s].todo \cup {server[s].cur}
    BY <1>4 DEF IInv, ListingInv
  <2>2. <<f[1], k>> \in Frames
    BY <1>4 DEF IInv, TypeOK
  <2>3. <<f[1], k>> \in server[s].todo
    BY <1>1, <2>1, <2>2, StreamAssumption
  <2>4. <<f[1], k>> # f
    BY <1>3
  <2>5. Precedes(f, <<f[1], k>>)
    BY <2>3, <2>4 DEF NextListed
  <2> QED
    BY <1>3, <2>5 DEF Precedes
<1> QED
  BY <1>1, <1>4 DEF Clear

(* The server's part of the invariant, step by step of the server ... *)
LEMMA ServingStepServer ==
  ASSUME IInv, Next, NEW s \in Servers, ServerStep(s) \/ StartServer(s) \/ ServerFault(s)
  PROVE  ServingInv'
<1>0. \A f : Clear(f) => Clear(f)'
  BY ClearStable DEF IInv
<1> USE StreamAssumption DEF IInv, TypeOK, ServerRecord, ServingInv, Unoccupied
<1>1. CASE Accept(s)
  BY <1>0, <1>1 DEF Accept, Serving
<1>2. CASE AcceptAbandoned(s)
  BY <1>0, <1>2 DEF AcceptAbandoned
<1>3. CASE ChooseFrame(s)
  <2>1. PICK f \in server[s].todo : 
          /\ NextListed(f, server[s].todo)
          /\ server' = IF f \in spool
                       THEN [server EXCEPT ![s].todo = @ \ {f}, ![s].cur = f, ![s].state = "offer"]
                       ELSE [server EXCEPT ![s].todo = @ \ {f}]
    BY <1>3 DEF ChooseFrame
  <2>2. Clear(f)
    BY <1>3, <2>1, ChosenIsClear DEF ChooseFrame
  <2>3. Clear(f)'
    BY <1>0, <2>2
  <2>4. CASE f \in spool
    <3>1. server' = [server EXCEPT ![s].todo = @ \ {f}, ![s].cur = f, ![s].state = "offer"]
      BY <2>1, <2>4
    <3> QED
      BY <1>0, <2>3, <3>1
  <2>5. CASE f \notin spool
    <3>1. server' = [server EXCEPT ![s].todo = @ \ {f}]
      BY <2>1, <2>5
    <3> QED
      BY <1>0, <3>1
  <2> QED
    BY <2>4, <2>5
<1>4. CASE OfferFrame(s)
  BY <1>0, <1>4 DEF OfferFrame
<1>5. CASE SendData(s)
  BY <1>0, <1>5 DEF SendData, LastBuffer
<1>6. CASE ReadAck(s)
  BY <1>0, <1>6 DEF ReadAck
<1>7. CASE RemoveFrame(s)
  BY <1>0, <1>7 DEF RemoveFrame
<1>8. CASE EndBacklog(s)
  BY <1>0, <1>8 DEF EndBacklog
<1>9. CASE Rescan(s)
  <2>1. server[s].cur = NoFrame
    BY <1>9 DEF Rescan
  <2>2. server' = [server EXCEPT ![s].todo = CompletedFrames, ![s].state = "relist"]
    BY <1>9 DEF Rescan
  <2> QED
    BY <1>0, <2>1, <2>2
<1>10. CASE AbandonClient(s)
  BY <1>0, <1>10 DEF AbandonClient, DropClient
<1>11. CASE StartServer(s)
  BY <1>0, <1>11 DEF StartServer
<1>12. CASE ServingInterrupted(s)
  BY <1>0, <1>12 DEF ServingInterrupted, DropClient
<1>13. CASE CrashServer(s)
  BY <1>0, <1>13 DEF CrashServer
<1>14. CASE EndListing(s)
  <2>1. PICK found \in SUBSET late[s], state \in {"idle", "choose"} :
          server' = [server EXCEPT ![s].todo = @ \cup found, ![s].state = state]
    BY <1>14 DEF EndListing
  <2>2. server[s].state \in Listing
    BY <1>14 DEF EndListing
  <2> QED
    BY <1>0, <2>1, <2>2 DEF Listing
<1>15. CASE StatFails(s)
  <2>1. PICK f : server' = [server EXCEPT ![s].todo = @ \ {f}]
    BY <1>15 DEF StatFails
  <2> QED
    BY <1>0, <2>1
<1> QED
  BY <1>1, <1>2, <1>3, <1>4, <1>5, <1>6, <1>7, <1>8, <1>9, <1>10, <1>11, <1>12, <1>13, <1>14, <1>15
  DEF ServerStep, ServerFault

(* A listing that only loses frames keeps its part of the invariant, as long as none of *)
(* those it loses is in the spool, unless it is now the frame in the server's hand or one *)
(* that the server failed to look at. *)
LEMMA ListingKept ==
  ASSUME IInv, Next, Published \subseteq Published', spool' \subseteq spool,
         \A q \in Servers :
           /\ server'[q].todo \subseteq server[q].todo
           /\ (server[q].todo \cup {server[q].cur}) \cap spool'
                \subseteq server'[q].todo \cup {server'[q].cur} \cup skipped'
  PROVE  ListingInv'
<1> SUFFICES ASSUME NEW q \in Servers, NEW f \in server'[q].todo
             PROVE  /\ f \in Published'
                    /\ \A k \in 0 .. f[2] - 1 :
                         <<f[1], k>> \in spool' =>
                           <<f[1], k>> \in server'[q].todo \cup {server'[q].cur} \/ MayOvertake(f, <<f[1], k>>)'
  BY DEF ListingInv
<1>1. f \in server[q].todo
  OBVIOUS
<1>2. \A g : MayOvertake(f, g) => MayOvertake(f, g)'
  BY HistoryGrows
<1>3. \A g \in skipped' : MayOvertake(f, g)'
  BY DEF MayOvertake
<1> QED
  BY <1>1, <1>2, <1>3 DEF IInv, ListingInv

(* ... and the listing's part of it. *)
LEMMA ListingStepServer ==
  ASSUME IInv, Next, NEW s \in Servers, ServerStep(s) \/ StartServer(s) \/ ServerFault(s)
  PROVE  ListingInv'
<1>0. Published \subseteq Published'
  BY PublishedGrows DEF IInv
<1>a. server \in [Servers -> ServerRecord] /\ spool \subseteq Frames /\ spool \subseteq Published
  BY DEF IInv, TypeOK
<1>b. NoFrame \notin spool
  BY <1>a, StreamAssumption
<1>c. \A f, g : MayOvertake(f, g) => MayOvertake(f, g)'
  BY HistoryGrows
<1>1. CASE Accept(s) \/ Rescan(s)
  <2>1. spool' = spool /\ server'[s].todo = spool
    BY <1>1, <1>a DEF Accept, Rescan, Serving, CompletedFrames, ServerRecord
  <2>2. \A q \in Servers \ {s} : server'[q] = server[q]
    BY <1>1, <1>a DEF Accept, Rescan
  <2> QED
    BY <1>0, <1>a, <1>c, <2>1, <2>2 DEF IInv, ListingInv
<1>2. CASE EndListing(s)
  <2>1. PICK found \in SUBSET late[s], state \in {"idle", "choose"} :
          server' = [server EXCEPT ![s].todo = @ \cup found, ![s].state = state]
    BY <1>2 DEF EndListing
  <2>2. \A q \in Servers \ {s} : server'[q] = server[q]
    BY <2>1, <1>a
  <2>3. server'[s].todo = server[s].todo \cup found /\ server'[s].cur = server[s].cur /\ spool' = spool
    BY <1>2, <2>1, <1>a DEF ServerRecord, EndListing
  <2>4. /\ spool \subseteq server[s].todo \cup late[s] \cup skipped /\ late[s] \subseteq Published
    BY <1>2 DEF EndListing, IInv, LateInv
  <2>5. ASSUME NEW f \in found, NEW k \in 0 .. f[2] - 1, <<f[1], k>> \in spool, <<f[1], k>> \notin server[s].todo
        PROVE  MayOvertake(f, <<f[1], k>>)'
    <3>1. CASE <<f[1], k>> \in skipped
      BY <1>c, <3>1 DEF MayOvertake
    <3>2. CASE <<f[1], k>> \in late[s]
      <4>1. f \in late[s] /\ f \in Frames
        BY <2>4 DEF Published
      <4>2. Precedes(<<f[1], k>>, f)
        BY <4>1, StreamAssumption DEF Precedes, Frames, Runs
      <4>3. <<<<f[1], k>>, f>> \in abreast'
        BY <1>2, <3>2, <4>1, <4>2 DEF EndListing
      <4> QED
        BY <4>3 DEF MayOvertake
    <3> QED
      BY <2>4, <2>5, <3>1, <3>2
  <2>6. ASSUME NEW f \in server'[s].todo
        PROVE  /\ f \in Published'
               /\ \A k \in 0 .. f[2] - 1 :
                    <<f[1], k>> \in spool' =>
                      <<f[1], k>> \in server'[s].todo \cup {server'[s].cur} \/ MayOvertake(f, <<f[1], k>>)'
    <3>1. CASE f \in server[s].todo
      BY <1>0, <1>c, <2>3, <3>1 DEF IInv, ListingInv
    <3>2. CASE f \in found
      BY <1>0, <2>3, <2>4, <2>5, <3>2
    <3> QED
      BY <2>3, <3>1, <3>2
  <2> QED
    BY <1>0, <1>c, <2>2, <2>3, <2>6 DEF IInv, ListingInv
<1>6. CASE StatFails(s)
  <2>1. PICK f : server' = [server EXCEPT ![s].todo = @ \ {f}] /\ skipped' = skipped \cup {f}
    BY <1>6 DEF StatFails
  <2>2. \A q \in Servers \ {s} : server'[q] = server[q]
    BY <2>1, <1>a
  <2>3. server'[s].todo = server[s].todo \ {f} /\ server'[s].cur = server[s].cur
    BY <2>1, <1>a DEF ServerRecord
  <2>4. spool' = spool
    BY <1>6 DEF StatFails
  <2> QED
    BY <1>0, <2>1, <2>2, <2>3, <2>4, ListingKept
<1>3. CASE ChooseFrame(s)
  <2>1. PICK f \in server[s].todo :
          server' = IF f \in spool
                    THEN [server EXCEPT ![s].todo = @ \ {f}, ![s].cur = f, ![s].state = "offer"]
                    ELSE [server EXCEPT ![s].todo = @ \ {f}]
    BY <1>3 DEF ChooseFrame
  <2>2. server[s].cur = NoFrame /\ spool' = spool
    BY <1>3 DEF ChooseFrame, IInv, ServingInv
  <2>3. \A q \in Servers \ {s} : server'[q] = server[q]
    BY <2>1, <1>a
  <2>4. server'[s].todo = server[s].todo \ {f} /\ (f \in spool => server'[s].cur = f)
    BY <2>1, <1>a DEF ServerRecord
  <2>5. /\ server'[s].todo \subseteq server[s].todo
        /\ (server[s].todo \cup {server[s].cur}) \cap spool' \subseteq server'[s].todo \cup {server'[s].cur}
    BY <1>b, <2>2, <2>4
  <2> QED
    BY <1>0, <2>2, <2>3, <2>5, ListingKept
<1>4. CASE RemoveFrame(s)
  <2>1. \A q \in Servers \ {s} : server'[q] = server[q]
    BY <1>4, <1>a DEF RemoveFrame
  <2>2. server'[s].todo = server[s].todo /\ spool' = spool \ {server[s].cur}
    BY <1>4, <1>a DEF RemoveFrame, ServerRecord
  <2> QED
    BY <1>0, <2>1, <2>2, ListingKept
<1>5. ASSUME \/ OfferFrame(s) \/ SendData(s) \/ ReadAck(s) \/ AcceptAbandoned(s)
             \/ DropClient(s) \/ EndBacklog(s) \/ StartServer(s) \/ CrashServer(s)
      PROVE  ListingInv'
  <2>1. \A q \in Servers \ {s} : server'[q] = server[q]
    BY <1>5, <1>a DEF OfferFrame, SendData, ReadAck, AcceptAbandoned, DropClient, EndBacklog, StartServer, CrashServer
  <2>2. spool' = spool
    BY <1>5 DEF OfferFrame, SendData, ReadAck, AcceptAbandoned, DropClient, EndBacklog, StartServer, CrashServer
  <2>3. \/ server'[s].todo = server[s].todo /\ server'[s].cur = server[s].cur
        \/ server'[s].todo = {}
    <3>1. CASE OfferFrame(s) \/ SendData(s) \/ ReadAck(s) \/ AcceptAbandoned(s)
      BY <1>a, <3>1 DEF OfferFrame, SendData, ReadAck, AcceptAbandoned, ServerRecord
    <3>2. CASE DropClient(s) \/ EndBacklog(s) \/ StartServer(s) \/ CrashServer(s)
      <4>1. \E state : server' = [server EXCEPT ![s] = Unoccupied(state)]
        BY <3>2 DEF DropClient, EndBacklog, StartServer, CrashServer
      <4>2. \E state : server'[s] = Unoccupied(state)
        BY <1>a, <4>1
      <4> QED
        BY <4>2 DEF Unoccupied
    <3> QED
      BY <1>5, <3>1, <3>2
  <2>4. CASE server'[s].todo = server[s].todo /\ server'[s].cur = server[s].cur
    BY <1>0, <2>1, <2>2, <2>4, ListingKept
  <2>5. CASE server'[s].todo = {}
    BY <1>0, <1>c, <2>1, <2>2, <2>5 DEF IInv, ListingInv
  <2> QED
    BY <2>3, <2>4, <2>5
<1> QED
  BY <1>1, <1>2, <1>3, <1>4, <1>5, <1>6 DEF ServerStep, ServerFault, AbandonClient, ServingInterrupted

(* ... and the part about a listing that is still under way. *)
LEMMA LateStepServer ==
  ASSUME IInv, Next, NEW s \in Servers, ServerStep(s) \/ StartServer(s) \/ ServerFault(s)
  PROVE  LateInv'
<1>0. Published \subseteq Published'
  BY PublishedGrows DEF IInv
<1>a. server \in [Servers -> ServerRecord] /\ late \in [Servers -> SUBSET Frames]
  BY DEF IInv, TypeOK
<1>b. spool' \subseteq spool /\ skipped \subseteq skipped'
  BY DEF ServerStep, StartServer, ServerFault, Accept, AcceptAbandoned, EndListing, ChooseFrame, OfferFrame,
    SendData, ReadAck, RemoveFrame, EndBacklog, Rescan, AbandonClient, DropClient, StatFails, ServingInterrupted,
    CrashServer, listingVars
<1>c. \A q \in Servers \ {s} : server'[q] = server[q] /\ late'[q] = late[q]
  BY <1>a DEF ServerStep, StartServer, ServerFault, Accept, AcceptAbandoned, EndListing, ChooseFrame, OfferFrame,
    SendData, ReadAck, RemoveFrame, EndBacklog, Rescan, AbandonClient, DropClient, StatFails, ServingInterrupted,
    CrashServer, listingVars
<1>1. ASSUME /\ late'[s] \subseteq late[s]
             /\ server'[s].state \in Listing => spool \subseteq server'[s].todo \cup late'[s] \cup skipped'
             /\ server'[s].state \notin Listing => late'[s] = {}
      PROVE  LateInv'
  BY <1>0, <1>b, <1>c, <1>1 DEF IInv, LateInv
<1>2. CASE Accept(s) \/ Rescan(s)
  <2>1. server[s].state \notin Listing /\ late' = late
    BY <1>2 DEF Accept, Rescan, Listing, listingVars
  <2>2. server'[s].todo = spool /\ server'[s].state \in Listing
    <3>1. CASE Accept(s)
      BY <1>a, <3>1 DEF Accept, Serving, CompletedFrames, Listing
    <3>2. CASE Rescan(s)
      BY <1>a, <3>2 DEF Rescan, CompletedFrames, ServerRecord, Listing
    <3> QED
      BY <1>2, <3>1, <3>2
  <2> QED
    BY <1>1, <2>1, <2>2 DEF IInv, LateInv
<1>3. CASE EndListing(s)
  <2>1. late'[s] = {}
    BY <1>3, <1>a DEF EndListing
  <2>2. PICK found \in SUBSET late[s], state \in {"idle", "choose"} :
          server' = [server EXCEPT ![s].todo = @ \cup found, ![s].state = state]
    BY <1>3 DEF EndListing
  <2>3. server'[s].state \notin Listing
    BY <2>2, <1>a DEF ServerRecord, Listing
  <2> QED
    BY <1>1, <2>1, <2>3
<1>4. CASE StatFails(s)
  <2>1. PICK f : server' = [server EXCEPT ![s].todo = @ \ {f}] /\ skipped' = skipped \cup {f}
    BY <1>4 DEF StatFails
  <2>2. server'[s].todo = server[s].todo \ {f} /\ server'[s].state = server[s].state
    BY <2>1, <1>a DEF ServerRecord
  <2>3. late' = late
    BY <1>4 DEF StatFails
  <2> QED
    BY <1>1, <2>1, <2>2, <2>3 DEF IInv, LateInv
<1>5. CASE DropClient(s) \/ CrashServer(s)
  <2>1. late'[s] = {} /\ server'[s].state \notin Listing
    BY <1>5, <1>a DEF DropClient, CrashServer, Unoccupied, Listing
  <2> QED
    BY <1>1, <2>1
<1>6. CASE StartServer(s) \/ EndBacklog(s)
  <2>2. server' = [server EXCEPT ![s] = Unoccupied("accept")]
    BY <1>6 DEF StartServer, EndBacklog
  <2>3. server'[s].state = "accept"
    BY <1>a, <2>2 DEF Unoccupied
  <2>1. late' = late /\ server[s].state \notin Listing /\ server'[s].state \notin Listing
    BY <1>6, <2>3 DEF StartServer, EndBacklog, Listing, listingVars
  <2> QED
    BY <1>1, <2>1 DEF IInv, LateInv
<1>7. CASE AcceptAbandoned(s)
  BY <1>1, <1>7 DEF AcceptAbandoned, listingVars, IInv, LateInv
<1>8. CASE OfferFrame(s) \/ SendData(s) \/ ReadAck(s) \/ RemoveFrame(s)
  <2>1. late' = late /\ server[s].state \notin Listing /\ server'[s].state \notin Listing
    BY <1>8, <1>a DEF OfferFrame, SendData, ReadAck, RemoveFrame, ServerRecord, Listing, listingVars
  <2> QED
    BY <1>1, <2>1 DEF IInv, LateInv
<1>9. CASE ChooseFrame(s)
  <2>1. PICK f :
          \/ server' = [server EXCEPT ![s].todo = @ \ {f}, ![s].cur = f, ![s].state = "offer"]
          \/ server' = [server EXCEPT ![s].todo = @ \ {f}]
    BY <1>9 DEF ChooseFrame
  <2>2. late' = late /\ server[s].state \notin Listing /\ server'[s].state \notin Listing
    BY <1>9, <2>1, <1>a DEF ChooseFrame, ServerRecord, Listing, listingVars
  <2> QED
    BY <1>1, <2>2 DEF IInv, LateInv
<1> QED
  BY <1>2, <1>3, <1>4, <1>5, <1>6, <1>7, <1>8, <1>9 DEF ServerStep, ServerFault, AbandonClient, ServingInterrupted

(* A step of a run or of a client leaves the servers' own state alone: only what a *)
(* server hears from its peer changes. *)
LEMMA ServersUntouched ==
  ASSUME TypeOK,
         \/ \E r \in Runs : SimStep(r)
         \/ \E c \in Clients : ClientStep(c) \/ StartClient(c) \/ ClientFault(c)
  PROVE  \A q \in Servers :
           /\ server'[q].state = server[q].state /\ server'[q].todo = server[q].todo
           /\ server'[q].cur = server[q].cur /\ server'[q].sent = server[q].sent
<1>1. server \in [Servers -> ServerRecord]
  BY DEF TypeOK
<1>2. ASSUME NEW r \in Runs, SimStep(r) PROVE server' = server
  BY <1>2 DEF SimStep, StartRun, PublishFrame, EndRun
<1>3. ASSUME NEW c \in Clients, SendAck(c) \/ \E line \in End : PeerLeaves(c, line), NEW q \in Servers
      PROVE  /\ server'[q].state = server[q].state /\ server'[q].todo = server[q].todo
             /\ server'[q].cur = server[q].cur /\ server'[q].sent = server[q].sent
  BY <1>1, <1>3 DEF SendAck, PeerLeaves, ServerRecord
<1>4. ASSUME NEW c \in Clients, ClientStep(c) \/ StartClient(c) \/ ClientFault(c)
      PROVE  server' = server \/ SendAck(c) \/ \E line \in End : PeerLeaves(c, line)
  BY <1>4 DEF ClientStep, StartClient, ClientFault, Connect, BeginReceive, ReceiveData, StoreFrame,
    ValidateFrame, ReadEnd, FailDownload, CloseConnection, ReceiveInterrupted, CrashClient, LoseConnection, End
<1> QED
  BY <1>2, <1>3, <1>4

(* The servers' parts of the invariant survive the steps of runs and clients. *)
LEMMA ServingListingStepOthers ==
  ASSUME IInv, Next,
         \/ \E r \in Runs : SimStep(r)
         \/ \E c \in Clients : ClientStep(c) \/ StartClient(c) \/ ClientFault(c)
  PROVE  ServingInv' /\ ListingInv' /\ LateInv'
<1>1. \A q \in Servers :
        /\ server'[q].state = server[q].state /\ server'[q].todo = server[q].todo
        /\ server'[q].cur = server[q].cur /\ server'[q].sent = server[q].sent
  BY ServersUntouched DEF IInv
<1>2. \A f : Clear(f) => Clear(f)'
  BY ClearStable DEF IInv
<1>3. ServingInv'
  BY <1>1, <1>2 DEF IInv, ServingInv
<1>4. Published \subseteq Published'
  BY PublishedGrows DEF IInv
<1>5. ASSUME spool' \subseteq spool PROVE ListingInv'
  <2>1. \A q \in Servers :
          /\ server'[q].todo \subseteq server[q].todo
          /\ (server[q].todo \cup {server[q].cur}) \cap spool'
               \subseteq server'[q].todo \cup {server'[q].cur} \cup skipped'
    BY <1>1
  <2> QED
    BY <1>4, <1>5, <2>1, ListingKept
<1>6. ASSUME NEW r \in Runs, PublishFrame(r) PROVE ListingInv'
  <2>1. ASSUME NEW q \in Servers, NEW f \in server[q].todo, NEW k \in 0 .. f[2] - 1
        PROVE  <<f[1], k>> # <<r, produced[r]>>
    <3>1. f \in Frames /\ f[2] < produced[f[1]]
      BY <2>1 DEF IInv, ListingInv, Published
    <3>2. f[1] \in Runs /\ f[2] \in Int /\ produced[f[1]] \in Int
      BY <3>1, StreamAssumption DEF Frames, IInv, TypeOK
    <3> QED
      BY <3>1, <3>2
  <2>2. spool' = spool \cup {<<r, produced[r]>>}
    BY <1>6 DEF PublishFrame
  <2>3. \A f, g : MayOvertake(f, g) => MayOvertake(f, g)'
    BY HistoryGrows
  <2> QED
    BY <1>1, <1>4, <2>1, <2>2, <2>3 DEF IInv, ListingInv
<1>7. ASSUME UNCHANGED <<spool, late, skipped>> PROVE LateInv'
  <2> SUFFICES ASSUME NEW q \in Servers
               PROVE  /\ late'[q] \subseteq Published'
                      /\ server'[q].state \in Listing => spool' \subseteq server'[q].todo \cup late'[q] \cup skipped'
                      /\ server'[q].state \notin Listing => late'[q] = {}
    BY DEF LateInv
  <2> QED
    BY <1>1, <1>4, <1>7 DEF IInv, LateInv
<1>8. ASSUME NEW r \in Runs, PublishFrame(r) PROVE LateInv'
  <2>1. \A q \in Servers :
          late'[q] = IF server[q].state \in Listing THEN late[q] \cup {<<r, produced[r]>>} ELSE late[q]
    BY <1>8 DEF PublishFrame
  <2>2. spool' = spool \cup {<<r, produced[r]>>} /\ skipped' = skipped
    BY <1>8 DEF PublishFrame
  <2>3. <<r, produced[r]>> \in Published'
    BY <1>8, StreamAssumption DEF IInv, TypeOK, PublishFrame, Published, Frames, Runs
  <2>4. ASSUME NEW q \in Servers
        PROVE  /\ late'[q] \subseteq Published'
               /\ server'[q].state \in Listing => spool' \subseteq server'[q].todo \cup late'[q] \cup skipped'
               /\ server'[q].state \notin Listing => late'[q] = {}
    <3>1. /\ late[q] \subseteq Published
          /\ server[q].state \in Listing => spool \subseteq server[q].todo \cup late[q] \cup skipped
          /\ server[q].state \notin Listing => late[q] = {}
      BY DEF IInv, LateInv
    <3>2. server'[q].state = server[q].state /\ server'[q].todo = server[q].todo
      BY <1>1
    <3> QED
      BY <1>4, <2>1, <2>2, <2>3, <3>1, <3>2
  <2> QED
    BY <2>4 DEF LateInv
<1>9. ASSUME NEW r \in Runs, SimStep(r) PROVE PublishFrame(r) \/ UNCHANGED <<spool, late, skipped>>
  BY <1>9 DEF SimStep, StartRun, EndRun, listingVars
<1>10. ASSUME NEW c \in Clients, ClientStep(c) \/ StartClient(c) \/ ClientFault(c)
       PROVE  UNCHANGED <<spool, late, skipped>>
  BY <1>10 DEF ClientStep, StartClient, ClientFault, Connect, BeginReceive, ReceiveData, StoreFrame,
    ValidateFrame, SendAck, ReadEnd, FailDownload, CloseConnection, ReceiveInterrupted, CrashClient, LoseConnection,
    listingVars
<1> QED
  BY <1>3, <1>5, <1>6, <1>7, <1>8, <1>9, <1>10

(* A server's step shows a client at most one message more on its wire, the end message *)
(* or one about the Clear frame in the server's hand. *)
LEMMA ServerSends ==
  ASSUME IInv, NEW s \in Servers, ServerStep(s) \/ StartServer(s) \/ ServerFault(s), NEW c \in Clients
  PROVE  /\ client'[c].state = client[c].state /\ client'[c].file = client[c].file
         /\ \/ client'[c].wire = client[c].wire
            \/ \E m : /\ client'[c].wire = Append(client[c].wire, m)
                      /\ m # EndMessage => Clear(m.name)
<1>a. client \in [Clients -> ClientRecord]
  BY DEF IInv, TypeOK
<1>1. CASE client' = client
  BY <1>1
<1>2. ASSUME NEW m, client' = Sent(s, m), m # EndMessage => Clear(m.name)
      PROVE  /\ client'[c].state = client[c].state /\ client'[c].file = client[c].file
             /\ \/ client'[c].wire = client[c].wire
                \/ \E n : /\ client'[c].wire = Append(client[c].wire, n)
                          /\ n # EndMessage => Clear(n.name)
  <2>1. \/ client'[c] = client[c]
        \/ client'[c] = [client[c] EXCEPT !.wire = Append(@, m)]
    BY <1>2 DEF Sent
  <2> QED
    BY <1>a, <1>2, <2>1 DEF ClientRecord
<1>3. CASE OfferFrame(s)
  <2>1. Clear(FrameMessage(server[s].cur).name)
    BY <1>3 DEF OfferFrame, IInv, ServingInv, FrameMessage
  <2> QED
    BY <1>2, <1>3, <2>1 DEF OfferFrame
<1>4. CASE SendData(s)
  <2>1. Clear(Data(server[s].cur).name)
    BY <1>4 DEF SendData, IInv, ServingInv, Data
  <2> QED
    BY <1>2, <1>4, <2>1 DEF SendData
<1>5. CASE EndBacklog(s)
  <2>1. \/ client'[c] = client[c]
        \/ client'[c] = [client[c] EXCEPT !.wire = Append(@, EndMessage), !.link = "closed"]
    BY <1>5 DEF EndBacklog
  <2> QED
    BY <1>a, <2>1 DEF ClientRecord
<1>6. CASE DropClient(s) \/ CrashServer(s)
  <2>1. client'[c] = client[c] \/ client'[c] = [client[c] EXCEPT !.link = "closed"]
    BY <1>6 DEF DropClient, ClosedBy, CrashServer
  <2> QED
    BY <1>a, <2>1 DEF ClientRecord
<1>7. CASE StatFails(s)
  <2>1. client'[c] = client[c] \/ \E f : client'[c] = [client[c] EXCEPT !.backlog = @ \ {f}]
    BY <1>7 DEF StatFails
  <2> QED
    BY <1>a, <2>1 DEF ClientRecord
<1> QED
  BY <1>1, <1>3, <1>4, <1>5, <1>6, <1>7 DEF ServerStep, StartServer, ServerFault, Accept, AcceptAbandoned,
    EndListing, ChooseFrame, ReadAck, RemoveFrame, Rescan, AbandonClient, ServingInterrupted

(* Everything on its way to a client stays Clear: in the steps of the servers ... *)
LEMMA CopiesStepServer ==
  ASSUME IInv, Next, NEW s \in Servers, ServerStep(s) \/ StartServer(s) \/ ServerFault(s)
  PROVE  CopiesInv'
<1>1. \A f : Clear(f) => Clear(f)'
  BY ClearStable DEF IInv
<1>2. out' = out
  BY DEF ServerStep, StartServer, ServerFault, Accept, AcceptAbandoned, EndListing, ChooseFrame, OfferFrame, SendData,
    ReadAck, RemoveFrame, EndBacklog, Rescan, AbandonClient, DropClient, StatFails, ServingInterrupted, CrashServer
<1>3. ASSUME NEW c \in Clients, NEW i \in 1 .. Len(client'[c].wire), client'[c].wire[i] # EndMessage
      PROVE  Clear(client'[c].wire[i].name)
  <2>1. client[c].wire \in Seq(Message)
    BY DEF IInv, TypeOK, ClientRecord
  <2>2. CASE client'[c].wire = client[c].wire
    BY <1>3, <2>2 DEF IInv, CopiesInv
  <2>3. ASSUME NEW m, client'[c].wire = Append(client[c].wire, m), m # EndMessage => Clear(m.name)
        PROVE  Clear(client'[c].wire[i].name)
    <3>1. CASE i = Len(client[c].wire) + 1
      BY <1>3, <2>1, <2>3, <3>1
    <3>2. CASE i # Len(client[c].wire) + 1
      <4>1. i \in 1 .. Len(client[c].wire) /\ client'[c].wire[i] = client[c].wire[i]
        BY <2>1, <2>3, <3>2
      <4> QED
        BY <1>3, <4>1 DEF IInv, CopiesInv
    <3> QED
      BY <3>1, <3>2
  <2> QED
    BY <2>2, <2>3, ServerSends
<1>4. \A c \in Clients : client'[c].state = client[c].state /\ client'[c].file = client[c].file
  BY ServerSends
<1> QED
  BY <1>1, <1>2, <1>3, <1>4 DEF IInv, CopiesInv

(* ... of the runs ... *)
LEMMA CopiesStepSim ==
  ASSUME IInv, Next, NEW r \in Runs, SimStep(r)
  PROVE  CopiesInv'
<1>1. \A f : Clear(f) => Clear(f)'
  BY ClearStable DEF IInv
<1>2. out' = out /\ client' = client
  BY DEF SimStep, StartRun, PublishFrame, EndRun
<1> QED
  BY <1>1, <1>2 DEF IInv, CopiesInv

(* ... and of the clients, which read the front of the wire and store what it names. *)
LEMMA CopiesStepClient ==
  ASSUME IInv, Next, NEW c \in Clients, ClientStep(c) \/ StartClient(c) \/ ClientFault(c)
  PROVE  CopiesInv'
<1>1. \A f : Clear(f) => Clear(f)'
  BY ClearStable DEF IInv
<1>a. client \in [Clients -> ClientRecord] /\ client[c].wire \in Seq(Message)
  BY DEF IInv, TypeOK, ClientRecord
<1>2. \A d \in Clients \ {c} : client'[d] = client[d]
  BY <1>a DEF ClientStep, StartClient, ClientFault, Connect, BeginReceive, ReceiveData, StoreFrame,
    ValidateFrame, SendAck, ReadEnd, FailDownload, CloseConnection, ReceiveInterrupted, CrashClient, LoseConnection
<1>3. ASSUME \A i \in 1 .. Len(client'[c].wire) :
               client'[c].wire[i] # EndMessage => Clear(client'[c].wire[i].name),
             client'[c].state \in {"receiving", "stored", "validated"} => Clear(client'[c].file.name),
             out' = out
      PROVE  CopiesInv'
  BY <1>1, <1>2, <1>3 DEF IInv, CopiesInv
<1>4. ASSUME client'[c].wire = <<>>, client'[c].state \notin {"receiving", "stored", "validated"}, out' = out
      PROVE  CopiesInv'
  BY <1>3, <1>4
<1>5. ASSUME NEW s \in Servers, Connect(c, s) PROVE CopiesInv'
  BY <1>4, <1>5, <1>a DEF Connect, Connected
<1>6. CASE ReadEnd(c)
  BY <1>4, <1>6, <1>a DEF ReadEnd, Finished
<1>7. ASSUME NEW state \in {"off", "idle"}, client'[c] = Disconnected(state), out' = out PROVE CopiesInv'
  BY <1>4, <1>7 DEF Disconnected
<1>8. CASE StartClient(c)
  BY <1>7, <1>8, <1>a DEF StartClient
<1>9. CASE FailDownload(c) \/ ReceiveInterrupted(c) \/ CrashClient(c)
  BY <1>7, <1>9, <1>a DEF FailDownload, ReceiveInterrupted, CrashClient, CloseConnection, AfterFailure
<1>10. ASSUME client[c].wire # <<>>
       PROVE  /\ \A i \in 1 .. Len(Tail(client[c].wire)) :
                   Tail(client[c].wire)[i] # EndMessage => Clear(Tail(client[c].wire)[i].name)
              /\ Head(client[c].wire) # EndMessage => Clear(Head(client[c].wire).name)
  <2>1. \A i \in 1 .. Len(Tail(client[c].wire)) :
          i + 1 \in 1 .. Len(client[c].wire) /\ Tail(client[c].wire)[i] = client[c].wire[i + 1]
    BY <1>10, <1>a
  <2>2. 1 \in 1 .. Len(client[c].wire) /\ Head(client[c].wire) = client[c].wire[1]
    BY <1>10, <1>a
  <2> QED
    BY <2>1, <2>2 DEF IInv, CopiesInv
<1>11. CASE BeginReceive(c)
  <2>1. client'[c] = [client[c] EXCEPT !.state = "receiving", !.wire = Tail(@),
                        !.file = [name |-> Head(client[c].wire).name, chunks |-> 0]]
    BY <1>11, <1>a DEF BeginReceive
  <2>2. client'[c].wire = Tail(client[c].wire) /\ client'[c].file.name = Head(client[c].wire).name
    BY <2>1, <1>a DEF ClientRecord
  <2>3. Head(client[c].wire) # EndMessage /\ client[c].wire # <<>> /\ out' = out
    BY <1>11 DEF BeginReceive, Reading, EndMessage
  <2> QED
    BY <1>3, <1>10, <2>2, <2>3
<1>12. CASE ReceiveData(c)
  <2>1. client'[c].wire = Tail(client[c].wire) /\ client'[c].file.name = client[c].file.name
    BY <1>12, <1>a DEF ReceiveData, ClientRecord
  <2>2. client[c].state = "receiving" /\ client[c].wire # <<>> /\ out' = out
    BY <1>12 DEF ReceiveData, Reading
  <2> QED
    BY <1>3, <1>10, <2>1, <2>2 DEF IInv, CopiesInv
<1>13. CASE ValidateFrame(c) \/ SendAck(c)
  <2>1. client'[c].wire = client[c].wire /\ out' = out
    BY <1>13, <1>a DEF ValidateFrame, SendAck, ClientRecord
  <2>2. client'[c].state = "await" \/ (client[c].state = "stored" /\ client'[c].file = client[c].file)
    BY <1>13, <1>a DEF ValidateFrame, SendAck, ClientRecord
  <2> QED
    BY <1>3, <2>1, <2>2 DEF IInv, CopiesInv
<1>14. CASE LoseConnection(c)
  <2>1. PICK how \in {"closed", "dead"}, n \in 0 .. Len(client[c].wire) :
          client' = [client EXCEPT ![c].link = how, ![c].wire = SubSeq(@, 1, n)]
    BY <1>14 DEF LoseConnection
  <2>2. /\ client'[c].wire = SubSeq(client[c].wire, 1, n) /\ client'[c].state = client[c].state
        /\ client'[c].file = client[c].file /\ out' = out
    BY <1>14, <2>1, <1>a DEF LoseConnection, ClientRecord
  <2>3. \A i \in 1 .. Len(client'[c].wire) :
          i \in 1 .. Len(client[c].wire) /\ client'[c].wire[i] = client[c].wire[i]
    BY <1>a, <2>2
  <2> QED
    BY <1>3, <2>2, <2>3 DEF IInv, CopiesInv
<1>15. CASE StoreFrame(c)
  <2>1. Clear(client[c].file.name) /\ client[c].file.name = client'[c].file.name /\ client'[c].wire = client[c].wire
    BY <1>15, <1>a DEF StoreFrame, ClientRecord, IInv, CopiesInv
  <2>2. \A d \in Clients, f \in Frames : out'[d][f] = out[d][f] \/ f = client[c].file.name
    BY <1>15 DEF StoreFrame, IInv, TypeOK
  <2> QED
    BY <1>1, <1>2, <2>1, <2>2 DEF IInv, CopiesInv
<1> QED
  BY <1>5, <1>6, <1>8, <1>9, <1>11, <1>12, <1>13, <1>14, <1>15 DEF ClientStep, ClientFault

(* What justifies a removal stays Delivered: in the steps of the servers ... *)
LEMMA EvidenceStepServer ==
  ASSUME IInv, Next, NEW s \in Servers, ServerStep(s) \/ StartServer(s) \/ ServerFault(s)
  PROVE  EvidenceInv'
<1>1. Delivered \subseteq Delivered'
  BY DeliveredGrows DEF IInv
<1>2. \A c \in Clients : client'[c].state = client[c].state /\ client'[c].file = client[c].file
  BY ServerSends
<1>a. server \in [Servers -> ServerRecord]
  BY DEF IInv, TypeOK
<1>3. \A q \in Servers \ {s} : server'[q] = server[q]
  BY <1>a DEF ServerStep, StartServer, ServerFault, Accept, AcceptAbandoned, EndListing, ChooseFrame, OfferFrame, SendData,
    ReadAck, RemoveFrame, EndBacklog, Rescan, AbandonClient, DropClient, StatFails, ServingInterrupted, CrashServer
<1>4. ASSUME server'[s].ack \in {server[s].ack, NoFrame},
             server'[s].state = "remove" => server[s].cur \in Delivered /\ server'[s].cur = server[s].cur
      PROVE  EvidenceInv'
  BY <1>1, <1>2, <1>3, <1>4 DEF IInv, EvidenceInv
<1>5. ASSUME NEW state \in ServerState \ {"remove"}, server'[s] = Unoccupied(state) PROVE EvidenceInv'
  BY <1>4, <1>5 DEF Unoccupied
<1>6. CASE StartServer(s) \/ EndBacklog(s) \/ DropClient(s)
  BY <1>5, <1>6, <1>a DEF StartServer, EndBacklog, DropClient, ServerState
<1>7. CASE CrashServer(s)
  BY <1>5, <1>7, <1>a DEF CrashServer, ServerState
<1>8. CASE Accept(s)
  BY <1>4, <1>8, <1>a DEF Accept, Serving
<1>9. CASE AcceptAbandoned(s)
  BY <1>1, <1>2, <1>9 DEF AcceptAbandoned, IInv, EvidenceInv
<1>10. CASE ChooseFrame(s)
  <2>1. PICK f \in server[s].todo :
          \/ server' = [server EXCEPT ![s].todo = @ \ {f}, ![s].cur = f, ![s].state = "offer"]
          \/ server' = [server EXCEPT ![s].todo = @ \ {f}]
    BY <1>10 DEF ChooseFrame
  <2>2. server'[s].ack = server[s].ack /\ server'[s].state \in {"offer", server[s].state}
    BY <2>1, <1>a DEF ServerRecord
  <2> QED
    BY <1>4, <1>10, <2>2 DEF ChooseFrame
<1>14. CASE EndListing(s)
  <2>1. PICK found \in SUBSET late[s], state \in {"idle", "choose"} :
          server' = [server EXCEPT ![s].todo = @ \cup found, ![s].state = state]
    BY <1>14 DEF EndListing
  <2>2. server'[s].ack = server[s].ack /\ server'[s].state # "remove"
    BY <2>1, <1>a DEF ServerRecord
  <2> QED
    BY <1>4, <2>2
<1>15. CASE StatFails(s)
  <2>1. PICK f : server' = [server EXCEPT ![s].todo = @ \ {f}]
    BY <1>15 DEF StatFails
  <2>2. server[s].state # "remove"
    BY <1>15 DEF StatFails, Listing
  <2>3. server'[s].ack = server[s].ack /\ server'[s].state # "remove"
    BY <2>1, <2>2, <1>a DEF ServerRecord
  <2> QED
    BY <1>4, <2>3
<1>12. CASE Rescan(s) \/ OfferFrame(s)
  <2>1. server'[s].ack = server[s].ack /\ server'[s].state # "remove"
    BY <1>12, <1>a DEF Rescan, OfferFrame, ServerRecord
  <2> QED
    BY <1>4, <2>1
<1>13. CASE SendData(s) \/ RemoveFrame(s)
  <2>1. server'[s].ack = server[s].ack /\ server'[s].state # "remove"
    BY <1>13, <1>a DEF SendData, RemoveFrame, ServerRecord
  <2> QED
    BY <1>4, <2>1
<1>11. CASE ReadAck(s)
  <2>1. server'[s].ack = NoFrame /\ server'[s].cur = server[s].cur
    BY <1>11, <1>a DEF ReadAck, ServerRecord
  <2>2. server[s].cur \in Frames
    BY <1>11 DEF ReadAck, IInv, ServingInv, Clear, Published
  <2>3. server[s].cur \in Delivered
    BY <1>11, <2>2, StreamAssumption DEF ReadAck, IInv, EvidenceInv
  <2> QED
    BY <1>4, <2>1, <2>3
<1> QED
  BY <1>6, <1>7, <1>8, <1>9, <1>10, <1>11, <1>12, <1>13, <1>14, <1>15 DEF ServerStep, ServerFault, AbandonClient, ServingInterrupted

(* ... and of the runs and the clients. *)
LEMMA EvidenceStepOthers ==
  ASSUME IInv, Next,
         \/ \E r \in Runs : SimStep(r)
         \/ \E c \in Clients : ClientStep(c) \/ StartClient(c) \/ ClientFault(c)
  PROVE  EvidenceInv'
<1>1. Delivered \subseteq Delivered'
  BY DeliveredGrows DEF IInv
<1>a. server \in [Servers -> ServerRecord] /\ client \in [Clients -> ClientRecord]
  BY DEF IInv, TypeOK
<1>2. \A q \in Servers : server'[q].state = server[q].state /\ server'[q].cur = server[q].cur
  BY ServersUntouched DEF IInv
<1>3. ASSUME \A q \in Servers : server'[q].ack = server[q].ack,
             \A c \in Clients : client'[c].state = "validated" => client'[c].file.name \in Delivered
      PROVE  EvidenceInv'
  BY <1>1, <1>2, <1>3 DEF IInv, EvidenceInv
<1>4. ASSUME NEW r \in Runs, SimStep(r) PROVE EvidenceInv'
  BY <1>3, <1>4 DEF SimStep, StartRun, PublishFrame, EndRun, IInv, EvidenceInv
<1>5. ASSUME NEW c \in Clients, SendAck(c) PROVE EvidenceInv'
  <2>1. client[c].file.name \in Delivered
    BY <1>5 DEF SendAck, IInv, EvidenceInv
  <2>2. \A q \in Servers : server'[q].ack \in {server[q].ack, client[c].file.name}
    BY <1>5, <1>a DEF SendAck, ServerRecord
  <2>3. \A d \in Clients : client'[d] = client[d] \/ client'[d].state = "await"
    BY <1>5, <1>a DEF SendAck, ClientRecord
  <2> QED
    BY <1>1, <1>2, <2>1, <2>2, <2>3 DEF IInv, EvidenceInv
<1>6. ASSUME NEW c \in Clients, ClientStep(c) \/ StartClient(c) \/ ClientFault(c), ~SendAck(c)
      PROVE  EvidenceInv'
  <2>1. server' = server \/ \E line \in End : PeerLeaves(c, line)
    BY <1>6 DEF ClientStep, StartClient, ClientFault, Connect, BeginReceive, ReceiveData, StoreFrame,
      ValidateFrame, ReadEnd, FailDownload, CloseConnection, ReceiveInterrupted, CrashClient, LoseConnection, End
  <2>2. \A q \in Servers : server'[q].ack = server[q].ack
    BY <1>a, <2>1 DEF PeerLeaves, ServerRecord
  <2>3. \A d \in Clients \ {c} : client'[d] = client[d]
    BY <1>6, <1>a DEF ClientStep, StartClient, ClientFault, Connect, BeginReceive, ReceiveData, StoreFrame,
      ValidateFrame, ReadEnd, FailDownload, CloseConnection, ReceiveInterrupted, CrashClient, LoseConnection
  <2>4. ASSUME client'[c].state = "validated" => client'[c].file.name \in Delivered PROVE EvidenceInv'
    BY <1>3, <2>2, <2>3, <2>4 DEF IInv, EvidenceInv
  <2>5. CASE ValidateFrame(c)
    <3>1. client'[c].file = client[c].file
      BY <1>a, <2>5 DEF ValidateFrame, ClientRecord
    <3>2. client[c].file.name \in Frames
      BY <2>5 DEF ValidateFrame, IInv, CopiesInv, Clear, Published
    <3> QED
      BY <2>4, <2>5, <3>1, <3>2 DEF ValidateFrame, Readable, Delivered
  <2>6. CASE LoseConnection(c)
    <3>1. client'[c].state = client[c].state /\ client'[c].file = client[c].file
      BY <1>a, <2>6 DEF LoseConnection, ClientRecord
    <3> QED
      BY <2>4, <3>1 DEF IInv, EvidenceInv
  <2>7. CASE ReceiveData(c)
    <3>1. client'[c].state = "receiving"
      BY <1>a, <2>7 DEF ReceiveData, Reading, ClientRecord
    <3> QED
      BY <2>4, <3>1
  <2>8. CASE (\E q \in Servers : Connect(c, q)) \/ ReadEnd(c) \/ BeginReceive(c) \/ StoreFrame(c)
    <3>1. client'[c].state # "validated"
      BY <1>a, <2>8 DEF Connect, Connected, ReadEnd, Finished, BeginReceive, StoreFrame, ClientRecord
    <3> QED
      BY <2>4, <3>1
  <2>9. CASE StartClient(c) \/ FailDownload(c) \/ ReceiveInterrupted(c) \/ CrashClient(c)
    <3>1. client'[c].state # "validated"
      BY <1>a, <2>9 DEF StartClient, FailDownload, ReceiveInterrupted, CrashClient, CloseConnection,
        AfterFailure, Disconnected
    <3> QED
      BY <2>4, <3>1
  <2> QED
    BY <1>6, <2>5, <2>6, <2>7, <2>8, <2>9 DEF ClientStep, ClientFault
<1> QED
  BY <1>4, <1>5, <1>6

(* Type correctness: the operators that make up the actions ... *)
LEMMA RecordTypes ==
  /\ \A state \in ServerState : Unoccupied(state) \in ServerRecord
  /\ \A c \in Clients, todo \in SUBSET Frames : Serving(c, todo) \in ServerRecord
  /\ \A state \in ClientState : Disconnected(state) \in ClientRecord
  /\ \A s \in Servers, b \in SUBSET Frames : Connected(s, b) \in ClientRecord
  /\ \A b \in SUBSET Frames : Finished(b) \in ClientRecord
  /\ EndMessage \in Message
  /\ \A f \in Frames : FrameMessage(f) \in Message /\ Data(f) \in Message
<1>1. /\ \A state \in ServerState : Unoccupied(state) \in ServerRecord
      /\ \A c \in Clients, todo \in SUBSET Frames : Serving(c, todo) \in ServerRecord
  BY StreamAssumption DEF Unoccupied, Serving, ServerRecord, ServerState, Listing, End
<1>2. /\ \A state \in ClientState : Disconnected(state) \in ClientRecord
      /\ \A s \in Servers, b \in SUBSET Frames : Connected(s, b) \in ClientRecord
      /\ \A b \in SUBSET Frames : Finished(b) \in ClientRecord
  BY StreamAssumption DEF Disconnected, Connected, Finished, ClientRecord, ClientState, End, NoFile
<1>3. EndMessage \in Message /\ \A f \in Frames : FrameMessage(f) \in Message /\ Data(f) \in Message
  BY DEF Message
<1> QED
  BY <1>1, <1>2, <1>3

LEMMA ConnectionTypes ==
  ASSUME TypeOK
  PROVE  /\ \A s \in Servers : ClosedBy(s) \in [Clients -> ClientRecord]
         /\ \A s \in Servers, m \in Message : Sent(s, m) \in [Clients -> ClientRecord]
         /\ \A c \in Clients, line \in End : PeerLeaves(c, line) =>
              /\ server' \in [Servers -> ServerRecord]
              /\ pending' \in [Servers -> Seq(Clients \cup {NoClient})]
<1>a. /\ client \in [Clients -> ClientRecord] /\ server \in [Servers -> ServerRecord]
      /\ pending \in [Servers -> Seq(Clients \cup {NoClient})]
  BY DEF TypeOK
<1>1. ASSUME NEW s \in Servers PROVE ClosedBy(s) \in [Clients -> ClientRecord]
  <2>1. \A c \in Clients : [client[c] EXCEPT !.link = "closed"] \in ClientRecord
    BY <1>a DEF ClientRecord, End
  <2> QED
    BY <1>a, <2>1 DEF ClosedBy
<1>2. ASSUME NEW s \in Servers, NEW m \in Message PROVE Sent(s, m) \in [Clients -> ClientRecord]
  <2>1. ASSUME NEW c \in Clients PROVE [client[c] EXCEPT !.wire = Append(@, m)] \in ClientRecord
    <3>1. Append(client[c].wire, m) \in Seq(Message)
      BY <1>a DEF ClientRecord
    <3> QED
      BY <1>a, <3>1 DEF ClientRecord
  <2> QED
    BY <1>a, <2>1 DEF Sent
<1>3. ASSUME NEW c \in Clients, NEW line \in End, PeerLeaves(c, line)
      PROVE  /\ server' \in [Servers -> ServerRecord]
             /\ pending' \in [Servers -> Seq(Clients \cup {NoClient})]
  <2>1. \A q \in Servers : [server[q] EXCEPT !.line = line] \in ServerRecord
    BY <1>a DEF ServerRecord
  <2>2. ASSUME NEW q \in Servers
        PROVE  [i \in DOMAIN pending[q] |-> IF pending[q][i] = c THEN NoClient ELSE pending[q][i]]
                 \in Seq(Clients \cup {NoClient})
    <3>1. pending[q] \in Seq(Clients \cup {NoClient})
      BY <1>a
    <3>2. \A i \in 1 .. Len(pending[q]) : pending[q][i] \in Clients \cup {NoClient}
      BY <3>1
    <3>3. DOMAIN pending[q] = 1 .. Len(pending[q]) /\ Len(pending[q]) \in Nat
      BY <3>1
    <3>4. [i \in DOMAIN pending[q] |-> IF pending[q][i] = c THEN NoClient ELSE pending[q][i]]
            \in [1 .. Len(pending[q]) -> Clients \cup {NoClient}]
      BY <3>2, <3>3
    <3> QED
      BY <3>3, <3>4
  <2> QED
    BY <1>3, <1>a, <2>1, <2>2 DEF PeerLeaves
<1> QED
  BY <1>1, <1>2, <1>3

(* ... the steps of runs ... *)
LEMMA TypeStepSim ==
  ASSUME TypeOK, NEW r \in Runs, SimStep(r)
  PROVE  TypeOK'
<1>1. CASE StartRun(r)
  BY <1>1 DEF TypeOK, StartRun, listingVars
<1>2. CASE PublishFrame(r)
  <2>1. produced[r] \in 0 .. MaxFrames - 1 /\ produced[r] + 1 \in 0 .. MaxFrames
    BY <1>2, StreamAssumption DEF TypeOK, PublishFrame
  <2>2. <<r, produced[r]>> \in Frames
    BY <2>1 DEF Frames
  <2>3. late' \in [Servers -> SUBSET Frames]
    BY <1>2, <2>2 DEF TypeOK, PublishFrame
  <2> QED
    BY <1>2, <2>1, <2>2, <2>3 DEF TypeOK, PublishFrame
<1>3. CASE EndRun(r)
  BY <1>3 DEF TypeOK, EndRun, listingVars
<1> QED
  BY <1>1, <1>2, <1>3 DEF SimStep

(* ... of servers ... *)
LEMMA TypeStepServer ==
  ASSUME IInv, NEW s \in Servers, ServerStep(s) \/ StartServer(s) \/ ServerFault(s)
  PROVE  TypeOK'
<1>0. TypeOK /\ ServingInv /\ ListingInv /\ LateInv
  BY DEF IInv
<1>a. /\ client \in [Clients -> ClientRecord] /\ server \in [Servers -> ServerRecord]
      /\ pending \in [Servers -> Seq(Clients \cup {NoClient})] /\ spool \subseteq Frames
  BY <1>0 DEF TypeOK
<1>b. UNCHANGED <<sim, produced, out>> /\ (faults' = faults \/ Fault) /\ spool' \subseteq spool
  BY DEF ServerStep, StartServer, ServerFault, Accept, AcceptAbandoned, EndListing, ChooseFrame, OfferFrame, SendData,
    ReadAck, RemoveFrame, EndBacklog, Rescan, AbandonClient, DropClient, StatFails, ServingInterrupted, CrashServer
<1>d. 0 \in 0 .. Chunks
  BY StreamAssumption
<1>c. faults' \in 0 .. MaxFaults
  BY <1>0, <1>b, StreamAssumption DEF TypeOK, Fault
<1>e. late \in [Servers -> SUBSET Frames] /\ abreast \subseteq Frames \X Frames /\ skipped \subseteq Frames
  BY <1>0 DEF TypeOK
<1>f. late' \in [Servers -> SUBSET Frames] /\ abreast' \subseteq Frames \X Frames /\ skipped' \subseteq Frames
  <2>1. CASE EndListing(s)
    BY <1>e, <2>1 DEF EndListing
  <2>2. CASE StatFails(s)
    BY <1>a, <1>e, <2>2 DEF StatFails
  <2>3. CASE DropClient(s) \/ CrashServer(s)
    BY <1>e, <2>3 DEF DropClient, CrashServer
  <2>4. CASE UNCHANGED listingVars
    BY <1>e, <2>4 DEF listingVars
  <2> QED
    BY <2>1, <2>2, <2>3, <2>4 DEF ServerStep, StartServer, ServerFault, Accept, AcceptAbandoned, ChooseFrame, OfferFrame,
      SendData, ReadAck, RemoveFrame, EndBacklog, Rescan, AbandonClient, ServingInterrupted, listingVars
<1>1. ASSUME server' \in [Servers -> ServerRecord], client' \in [Clients -> ClientRecord],
             pending' \in [Servers -> Seq(Clients \cup {NoClient})]
      PROVE  TypeOK'
  BY <1>0, <1>1, <1>b, <1>c, <1>f DEF TypeOK
<1>2. CASE StartServer(s)
  BY <1>1, <1>2, <1>a, RecordTypes DEF StartServer, ServerState
<1>3. ASSUME pending[s] # <<>>
      PROVE  Head(pending[s]) \in Clients \cup {NoClient} /\ Tail(pending[s]) \in Seq(Clients \cup {NoClient})
  BY <1>3, <1>a
<1>4. CASE Accept(s)
  <2>1. Serving(Head(pending[s]), CompletedFrames) \in ServerRecord
    BY <1>3, <1>4, <1>a, RecordTypes DEF Accept, CompletedFrames
  <2> QED
    BY <1>1, <1>3, <1>4, <1>a, <2>1 DEF Accept
<1>5. CASE AcceptAbandoned(s)
  BY <1>1, <1>3, <1>5, <1>a DEF AcceptAbandoned
<1>6. CASE ChooseFrame(s)
  <2>1. PICK f \in server[s].todo :
          \/ server' = [server EXCEPT ![s].todo = @ \ {f}, ![s].cur = f, ![s].state = "offer"]
          \/ server' = [server EXCEPT ![s].todo = @ \ {f}]
    BY <1>6 DEF ChooseFrame
  <2>2. f \in Frames
    BY <1>a DEF ServerRecord
  <2>3. CASE server' = [server EXCEPT ![s].todo = @ \ {f}, ![s].cur = f, ![s].state = "offer"]
    <3>1. server' = [server EXCEPT ![s] = [server[s] EXCEPT !.todo = @ \ {f}, !.cur = f, !.state = "offer"]]
      BY <1>a, <2>3
    <3>2. [server[s] EXCEPT !.todo = @ \ {f}, !.cur = f, !.state = "offer"] \in ServerRecord
      BY <1>a, <2>2 DEF ServerRecord, ServerState
    <3> QED
      BY <1>1, <1>6, <1>a, <3>1, <3>2 DEF ChooseFrame
  <2>4. CASE server' = [server EXCEPT ![s].todo = @ \ {f}]
    <3>1. [server[s] EXCEPT !.todo = @ \ {f}] \in ServerRecord
      BY <1>a DEF ServerRecord
    <3> QED
      BY <1>1, <1>6, <1>a, <2>4, <3>1 DEF ChooseFrame
  <2> QED
    BY <2>1, <2>3, <2>4
<1>7. CASE OfferFrame(s)
  <2>1. server' \in [Servers -> ServerRecord]
    <3>1. server' = [server EXCEPT ![s] = [server[s] EXCEPT !.state = "stream", !.sent = 0]]
      BY <1>7, <1>a DEF OfferFrame
    <3>2. [server[s] EXCEPT !.state = "stream", !.sent = 0] \in ServerRecord
      BY <1>a, <1>d DEF ServerRecord, ServerState
    <3> QED
      BY <1>a, <3>1, <3>2
  <2>2. client' \in [Clients -> ClientRecord]
    BY <1>0, <1>7, <1>a, ConnectionTypes, RecordTypes DEF OfferFrame
  <2> QED
    BY <1>1, <1>7, <1>a, <2>1, <2>2 DEF OfferFrame
<1>8. CASE SendData(s)
  <2>1. server[s].sent + 1 \in 0 .. Chunks
    BY <1>0, <1>8, <1>a, StreamAssumption DEF SendData, ServingInv, ServerRecord
  <2>2. server' \in [Servers -> ServerRecord]
    <3>1. PICK state \in ServerState :
            server' = [server EXCEPT ![s] = [server[s] EXCEPT !.sent = @ + 1, !.state = state]]
      BY <1>8, <1>a DEF SendData, ServerRecord, ServerState
    <3>2. [server[s] EXCEPT !.sent = @ + 1, !.state = state] \in ServerRecord
      BY <1>a, <2>1 DEF ServerRecord
    <3> QED
      BY <1>a, <3>1, <3>2
  <2>3. server[s].cur \in Frames
    BY <1>0, <1>8 DEF SendData, ServingInv, Clear, Published
  <2>4. client' \in [Clients -> ClientRecord]
    BY <1>0, <1>8, <2>3, ConnectionTypes, RecordTypes DEF SendData
  <2> QED
    BY <1>1, <1>8, <1>a, <2>2, <2>4 DEF SendData
<1>9. CASE ReadAck(s)
  <2>1. server' = [server EXCEPT ![s] = [server[s] EXCEPT !.state = "remove", !.ack = NoFrame]]
    BY <1>9, <1>a DEF ReadAck
  <2>2. [server[s] EXCEPT !.state = "remove", !.ack = NoFrame] \in ServerRecord
    BY <1>a DEF ServerRecord, ServerState
  <2> QED
    BY <1>1, <1>9, <1>a, <2>1, <2>2 DEF ReadAck
<1>13. CASE RemoveFrame(s)
  <2>1. server' = [server EXCEPT ![s] = [server[s] EXCEPT !.state = "choose", !.cur = NoFrame, !.sent = 0]]
    BY <1>13, <1>a DEF RemoveFrame
  <2>2. [server[s] EXCEPT !.state = "choose", !.cur = NoFrame, !.sent = 0] \in ServerRecord
    BY <1>a, <1>d DEF ServerRecord, ServerState
  <2> QED
    BY <1>1, <1>13, <1>a, <2>1, <2>2 DEF RemoveFrame
<1>14. CASE Rescan(s)
  <2>1. server' = [server EXCEPT ![s] = [server[s] EXCEPT !.todo = CompletedFrames, !.state = "relist"]]
    BY <1>14, <1>a DEF Rescan
  <2>2. [server[s] EXCEPT !.todo = CompletedFrames, !.state = "relist"] \in ServerRecord
    BY <1>a DEF ServerRecord, CompletedFrames, ServerState, Listing
  <2> QED
    BY <1>1, <1>14, <1>a, <2>1, <2>2 DEF Rescan
<1>15. CASE EndListing(s)
  <2>1. PICK found \in SUBSET late[s], state \in {"idle", "choose"} :
          server' = [server EXCEPT ![s].todo = @ \cup found, ![s].state = state]
    BY <1>15 DEF EndListing
  <2>2. server' = [server EXCEPT ![s] = [server[s] EXCEPT !.todo = @ \cup found, !.state = state]]
    BY <1>a, <2>1
  <2>3. found \subseteq Frames
    BY <1>e
  <2>4. [server[s] EXCEPT !.todo = @ \cup found, !.state = state] \in ServerRecord
    BY <1>a, <2>3 DEF ServerRecord, ServerState
  <2> QED
    BY <1>1, <1>15, <1>a, <2>2, <2>4 DEF EndListing
<1>16. CASE StatFails(s)
  <2>1. PICK f :
          /\ server' = [server EXCEPT ![s].todo = @ \ {f}]
          /\ client' = [c \in Clients |->
               IF Attached(s, c) THEN [client[c] EXCEPT !.backlog = @ \ {f}] ELSE client[c]]
    BY <1>16 DEF StatFails
  <2>2. [server[s] EXCEPT !.todo = @ \ {f}] \in ServerRecord
    BY <1>a DEF ServerRecord
  <2>3. \A c \in Clients : [client[c] EXCEPT !.backlog = @ \ {f}] \in ClientRecord
    BY <1>a DEF ClientRecord
  <2>4. client' \in [Clients -> ClientRecord]
    BY <1>a, <2>1, <2>3
  <2>5. server' \in [Servers -> ServerRecord]
    BY <1>a, <2>1, <2>2
  <2> QED
    BY <1>1, <1>16, <1>a, <2>4, <2>5 DEF StatFails
<1>10. CASE EndBacklog(s)
  <2>1. server' \in [Servers -> ServerRecord]
    BY <1>10, <1>a, RecordTypes DEF EndBacklog, ServerState
  <2>2. ASSUME NEW c \in Clients
        PROVE  [client[c] EXCEPT !.wire = Append(@, EndMessage), !.link = "closed"] \in ClientRecord
    <3>1. Append(client[c].wire, EndMessage) \in Seq(Message)
      BY <1>a, RecordTypes DEF ClientRecord
    <3> QED
      BY <1>a, <3>1 DEF ClientRecord, End
  <2>3. client' \in [Clients -> ClientRecord]
    BY <1>10, <1>a, <2>2 DEF EndBacklog
  <2> QED
    BY <1>1, <1>10, <1>a, <2>1, <2>3 DEF EndBacklog
<1>11. CASE DropClient(s)
  BY <1>0, <1>1, <1>11, <1>a, ConnectionTypes, RecordTypes DEF DropClient, ServerState
<1>12. CASE CrashServer(s)
  <2>1. \A c \in Clients : [client[c] EXCEPT !.link = "closed"] \in ClientRecord
    BY <1>a DEF ClientRecord, End
  <2>2. client' \in [Clients -> ClientRecord]
    BY <1>12, <1>a, <2>1 DEF CrashServer
  <2>3. server' \in [Servers -> ServerRecord] /\ pending' \in [Servers -> Seq(Clients \cup {NoClient})]
    BY <1>12, <1>a, RecordTypes DEF CrashServer, ServerState
  <2> QED
    BY <1>1, <2>2, <2>3
<1> QED
  BY <1>2, <1>4, <1>5, <1>6, <1>7, <1>8, <1>9, <1>10, <1>11, <1>12, <1>13, <1>14, <1>15, <1>16
  DEF ServerStep, ServerFault, AbandonClient, ServingInterrupted

(* ... and of clients. *)
LEMMA TypeStepClient ==
  ASSUME IInv, NEW c \in Clients, ClientStep(c) \/ StartClient(c) \/ ClientFault(c)
  PROVE  TypeOK'
<1>0. TypeOK
  BY DEF IInv
<1>a. /\ client \in [Clients -> ClientRecord] /\ server \in [Servers -> ServerRecord]
      /\ pending \in [Servers -> Seq(Clients \cup {NoClient})] /\ spool \subseteq Frames
      /\ client[c].wire \in Seq(Message)
  BY <1>0 DEF TypeOK, ClientRecord
<1>b. faults' \in 0 .. MaxFaults /\ UNCHANGED <<sim, produced, spool, late, abreast, skipped>>
  BY <1>0, StreamAssumption DEF TypeOK, Fault, ClientStep, StartClient, ClientFault, Connect, BeginReceive,
    ReceiveData, StoreFrame, ValidateFrame, SendAck, ReadEnd, FailDownload, CloseConnection, ReceiveInterrupted,
    CrashClient, LoseConnection, listingVars
<1>1. ASSUME server' \in [Servers -> ServerRecord], client' \in [Clients -> ClientRecord],
             pending' \in [Servers -> Seq(Clients \cup {NoClient})], out' = out
      PROVE  TypeOK'
  BY <1>0, <1>1, <1>b DEF TypeOK
<1>2. ASSUME NEW s \in Servers, Connect(c, s) PROVE TypeOK'
  <2>1. Append(pending[s], c) \in Seq(Clients \cup {NoClient})
    BY <1>a
  <2>2. pending' \in [Servers -> Seq(Clients \cup {NoClient})]
    BY <1>2, <1>a, <2>1 DEF Connect
  <2>3. client' \in [Clients -> ClientRecord]
    BY <1>2, <1>a, RecordTypes DEF Connect
  <2> QED
    BY <1>1, <1>2, <1>a, <2>2, <2>3 DEF Connect
<1>3. ASSUME client[c].wire # <<>>
      PROVE  Head(client[c].wire) \in Message /\ Tail(client[c].wire) \in Seq(Message)
  BY <1>3, <1>a
<1>4. CASE BeginReceive(c)
  <2>1. Head(client[c].wire).name \in Frames
    BY <1>3, <1>4 DEF BeginReceive, Reading, Message, FrameMessage, Data, EndMessage
  <2>2. [name |-> Head(client[c].wire).name, chunks |-> 0] \in [name : Frames \cup {NoFrame}, chunks : 0 .. Chunks]
    BY <2>1, StreamAssumption
  <2>4. client[c].wire # <<>>
    BY <1>4 DEF BeginReceive, Reading
  <2>5. client' = [client EXCEPT ![c] = [client[c] EXCEPT !.state = "receiving", !.wire = Tail(@),
                     !.file = [name |-> Head(client[c].wire).name, chunks |-> 0]]]
    BY <1>4, <1>a DEF BeginReceive
  <2>6. [client[c] EXCEPT !.state = "receiving", !.wire = Tail(@),
           !.file = [name |-> Head(client[c].wire).name, chunks |-> 0]] \in ClientRecord
    BY <1>3, <1>a, <2>2, <2>4 DEF ClientRecord, ClientState
  <2>3. client' \in [Clients -> ClientRecord]
    BY <1>a, <2>5, <2>6
  <2> QED
    BY <1>1, <1>4, <1>a, <2>3 DEF BeginReceive
<1>5. CASE ReceiveData(c)
  <2>1. client[c].file \in [name : Frames \cup {NoFrame}, chunks : 0 .. Chunks]
    BY <1>a DEF ClientRecord
  <2>2. [client[c].file EXCEPT !.chunks = @ + 1] \in [name : Frames \cup {NoFrame}, chunks : 0 .. Chunks]
    BY <1>5, <2>1, StreamAssumption DEF ReceiveData
  <2>3. client' = [client EXCEPT ![c] = [client[c] EXCEPT !.wire = Tail(client[c].wire),
                                           !.file = [client[c].file EXCEPT !.chunks = @ + 1]]]
    BY <1>5, <1>a, <2>1 DEF ReceiveData, ClientRecord
  <2>4. [client[c] EXCEPT !.wire = Tail(client[c].wire),
           !.file = [client[c].file EXCEPT !.chunks = @ + 1]] \in ClientRecord
    BY <1>3, <1>5, <1>a, <2>2 DEF ReceiveData, Reading, ClientRecord
  <2>5. client' \in [Clients -> ClientRecord]
    BY <1>a, <2>3, <2>4
  <2> QED
    BY <1>1, <1>5, <1>a, <2>5 DEF ReceiveData
<1>6. CASE StoreFrame(c)
  <2>1. client' \in [Clients -> ClientRecord]
    BY <1>6, <1>a DEF StoreFrame, ClientRecord, ClientState
  <2>2. client[c].file.chunks \in 0 .. Chunks
    BY <1>a DEF ClientRecord
  <2>3. out' \in [Clients -> [Frames -> 0 .. Chunks]]
    BY <1>0, <1>6, <2>2 DEF StoreFrame, TypeOK
  <2> QED
    BY <1>0, <1>6, <1>b, <2>1, <2>3 DEF StoreFrame, TypeOK
<1>7. CASE ValidateFrame(c)
  <2>1. client' \in [Clients -> ClientRecord]
    BY <1>7, <1>a DEF ValidateFrame, ClientRecord, ClientState
  <2> QED
    BY <1>1, <1>7, <1>a, <2>1 DEF ValidateFrame
<1>8. CASE SendAck(c)
  <2>1. NoFile \in [name : Frames \cup {NoFrame}, chunks : 0 .. Chunks]
    BY StreamAssumption DEF NoFile
  <2>2. client' \in [Clients -> ClientRecord]
    <3>1. PICK link \in End :
            client' = [client EXCEPT ![c] = [client[c] EXCEPT !.state = "await", !.file = NoFile, !.link = link]]
      BY <1>8, <1>a DEF SendAck, ClientRecord, End
    <3>2. [client[c] EXCEPT !.state = "await", !.file = NoFile, !.link = link] \in ClientRecord
      BY <1>a, <2>1 DEF ClientRecord, ClientState
    <3> QED
      BY <1>a, <3>1, <3>2
  <2>3. client[c].file.name \in Frames \cup {NoFrame}
    BY <1>a DEF ClientRecord
  <2>4. \A q \in Servers : [server[q] EXCEPT !.ack = client[c].file.name] \in ServerRecord
    BY <1>a, <2>3 DEF ServerRecord
  <2>5. server' \in [Servers -> ServerRecord]
    BY <1>8, <1>a, <2>4 DEF SendAck
  <2> QED
    BY <1>1, <1>8, <1>a, <2>2, <2>5 DEF SendAck
<1>9. CASE ReadEnd(c)
  <2>1. client[c].backlog \in SUBSET Frames
    BY <1>a DEF ClientRecord
  <2>2. client' \in [Clients -> ClientRecord]
    BY <1>9, <1>a, <2>1, RecordTypes DEF ReadEnd
  <2> QED
    BY <1>0, <1>1, <1>9, <2>2, ConnectionTypes DEF ReadEnd, End
<1>10. ASSUME NEW state \in ClientState, CloseConnection(c, state) PROVE TypeOK'
  <2>1. client' \in [Clients -> ClientRecord]
    BY <1>10, <1>a, RecordTypes DEF CloseConnection
  <2> QED
    BY <1>0, <1>1, <1>10, <2>1, ConnectionTypes DEF CloseConnection, End
<1>11. CASE FailDownload(c) \/ ReceiveInterrupted(c) \/ CrashClient(c)
  BY <1>10, <1>11 DEF FailDownload, ReceiveInterrupted, CrashClient, AfterFailure, ClientState
<1>12. CASE StartClient(c)
  BY <1>1, <1>12, <1>a, RecordTypes DEF StartClient, ClientState
<1>13. CASE LoseConnection(c)
  <2>1. PICK how \in {"closed", "dead"}, n \in 0 .. Len(client[c].wire) :
          client' = [client EXCEPT ![c].link = how, ![c].wire = SubSeq(@, 1, n)] /\ PeerLeaves(c, how)
    BY <1>13 DEF LoseConnection
  <2>2. SubSeq(client[c].wire, 1, n) \in Seq(Message)
    BY <1>a
  <2>3. client' \in [Clients -> ClientRecord]
    <3>1. client' = [client EXCEPT ![c] = [client[c] EXCEPT !.link = how, !.wire = SubSeq(@, 1, n)]]
      BY <1>a, <2>1
    <3>2. [client[c] EXCEPT !.link = how, !.wire = SubSeq(@, 1, n)] \in ClientRecord
      BY <1>a, <2>1, <2>2 DEF ClientRecord, End
    <3> QED
      BY <1>a, <3>1, <3>2
  <2> QED
    BY <1>0, <1>1, <1>13, <2>1, <2>3, ConnectionTypes DEF LoseConnection, End
<1> QED
  BY <1>2, <1>4, <1>5, <1>6, <1>7, <1>8, <1>9, <1>11, <1>12, <1>13 DEF ClientStep, ClientFault

(* Every step preserves the invariant. *)
LEMMA NextInv ==
  ASSUME IInv, Next
  PROVE  IInv'
<1>1. CASE \E r \in Runs : SimStep(r)
  BY <1>1, TypeStepSim, NoFrameLostStep, ServingListingStepOthers, CopiesStepSim, EvidenceStepOthers DEF IInv
<1>2. CASE \E s \in Servers : ServerStep(s) \/ StartServer(s) \/ ServerFault(s)
  BY <1>2, TypeStepServer, NoFrameLostStep, ServingStepServer, ListingStepServer, LateStepServer, CopiesStepServer,
    EvidenceStepServer DEF IInv
<1>3. CASE \E c \in Clients : ClientStep(c) \/ StartClient(c) \/ ClientFault(c)
  BY <1>3, TypeStepClient, NoFrameLostStep, ServingListingStepOthers, CopiesStepClient, EvidenceStepOthers DEF IInv
<1> QED
  BY <1>1, <1>2, <1>3 DEF Next

(* A stuttering step changes no variable the invariant is about. *)
LEMMA StutterInv ==
  ASSUME IInv, UNCHANGED vars
  PROVE  IInv'
BY DEF vars, listingVars, IInv, TypeOK, ServingInv, ListingInv, LateInv, MayOvertake, CopiesInv, EvidenceInv,
  NoFrameLost, Clear, Published, Delivered

(* IInv holds in every reachable state, however many runs, frames, servers, clients and *)
(* faults there are. *)
THEOREM InductiveInvariant == Spec => []IInv
<1>1. IInv /\ [Next]_vars => IInv'
  BY NextInv, StutterInv
<1> QED
  BY InitInv, <1>1, PTL DEF Spec

(* The records of servers, clients and connections stay within their types. *)
THEOREM TypeCorrect == Spec => []TypeOK
<1>1. IInv => TypeOK
  BY DEF IInv
<1> QED
  BY InductiveInvariant, <1>1, PTL

(* sendFrame removes a file only after a client has stored and validated it, so no *)
(* published frame is ever lost. *)
THEOREM NoLoss == Spec => []NoFrameLost
<1>1. IInv => NoFrameLost
  BY DEF IInv
<1> QED
  BY InductiveInvariant, <1>1, PTL

(* The sorted listing and the removal after each acknowledgement keep the frames of a *)
(* run in order, whichever server and client carry them: a frame is overtaken only by *)
(* one that was published during the same listing, or after its stat has failed. *)
THEOREM Ordered == Spec => []InOrder
<1>1. IInv => InOrder
  BY DEF IInv, CopiesInv, InOrder, Clear
<1> QED
  BY InductiveInvariant, <1>1, PTL

(* Nothing is delivered before it is published or comes from nowhere: every step of the *)
(* protocol is a step of FrameDelivery or a stutter. *)
LEMMA DeliveryStep ==
  ASSUME IInv, Next
  PROVE  [Delivery!Next]_(Delivery!abstractVars)
<1>a. /\ out \in [Clients -> [Frames -> 0 .. Chunks]]
      /\ spool \subseteq Published /\ Published \subseteq spool \cup Delivered
  BY DEF IInv, TypeOK, NoFrameLost
<1>1. ASSUME NEW r \in Runs, PublishFrame(r) PROVE Delivery!Next
  <2>1. Delivered' = Delivered
    BY <1>1 DEF PublishFrame, Delivered
  <2>2. Delivery!Publish(r)
    BY <1>1, <2>1 DEF PublishFrame, Delivery!Publish
  <2> QED
    BY <2>2 DEF Delivery!Next
<1>2. ASSUME NEW s \in Servers, RemoveFrame(s) PROVE [Delivery!Next]_(Delivery!abstractVars)
  <2>1. Delivered' = Delivered /\ server[s].cur \in Delivered
    BY <1>2 DEF RemoveFrame, Delivered, IInv, EvidenceInv
  <2>2. CASE server[s].cur \in spool
    <3>1. Delivery!Remove(server[s].cur)
      BY <1>2, <2>1, <2>2 DEF RemoveFrame, Delivery!Remove
    <3> QED
      BY <2>2, <3>1 DEF Delivery!Next
  <2>3. CASE server[s].cur \notin spool
    BY <1>2, <2>1, <2>3 DEF RemoveFrame, Delivery!abstractVars
  <2> QED
    BY <2>2, <2>3
<1>3. ASSUME NEW c \in Clients, StoreFrame(c) PROVE [Delivery!Next]_(Delivery!abstractVars)
  <2> DEFINE f == client[c].file.name
  <2>1. Clear(f) /\ f \in Frames
    BY <1>3 DEF StoreFrame, IInv, CopiesInv, Clear, Published
  <2>2. UNCHANGED <<spool, produced>>
    BY <1>3 DEF StoreFrame
  <2>3. out' = [out EXCEPT ![c][f] = Chunks]
    BY <1>3 DEF StoreFrame, Whole
  <2>4. out'[c][f] = Chunks
    BY <1>a, <2>1, <2>3
  <2>5. \A d \in Clients, g \in Frames : out'[d][g] = out[d][g] \/ (g = f /\ out'[d][g] = Chunks)
    BY <1>a, <2>3
  <2>6. Delivered \subseteq Delivered' /\ Delivered' \subseteq Delivered \cup {f}
    BY <2>5 DEF Delivered
  <2>7. CASE f \in Delivered'
    <3>1. Delivered' = Delivered \cup {f}
      BY <2>6, <2>7
    <3>2. CASE f \in Delivered
      BY <2>2, <3>1, <3>2 DEF Delivery!abstractVars
    <3>3. CASE f \notin Delivered
      <4>1. f \in spool
        BY <1>a, <2>1, <3>3 DEF Clear
      <4>2. Delivery!Deliver(f)
        BY <2>2, <3>1, <4>1 DEF Delivery!Deliver
      <4> QED
        BY <4>1, <4>2 DEF Delivery!Next
    <3> QED
      BY <3>2, <3>3
  <2>8. CASE f \notin Delivered'
    <3>1. Delivered' = Delivered
      BY <2>6, <2>8
    <3> QED
      BY <2>2, <3>1 DEF Delivery!abstractVars
  <2> QED
    BY <2>7, <2>8
<1>4. CASE UNCHANGED <<spool, produced, out>>
  BY <1>4 DEF Delivery!abstractVars, Delivered
<1>5. ASSUME NEW c \in Clients, StoreFrame(c) PROVE UNCHANGED <<spool, produced>>
  BY <1>5 DEF StoreFrame
<1>6. ASSUME UNCHANGED <<spool, produced>> PROVE [Delivery!Next]_(Delivery!abstractVars)
  BY <1>3, <1>4, <1>6, OutChange
<1> QED
  BY <1>1, <1>2, <1>6, SpoolChange

(* The protocol implements at-least-once delivery. *)
THEOREM Refinement == Spec => DeliverySpec
<1>1. Init => Delivery!Init
  <2> SUFFICES ASSUME Init PROVE Delivery!Init
    OBVIOUS
  <2>1. Delivered = {}
    BY StreamAssumption DEF Init, Delivered
  <2> QED
    BY <2>1 DEF Init, Delivery!Init
<1>2. IInv /\ [Next]_vars => [Delivery!Next]_(Delivery!abstractVars)
  <2>1. ASSUME UNCHANGED vars PROVE UNCHANGED Delivery!abstractVars
    BY <2>1 DEF vars, Delivery!abstractVars, Delivered
  <2> QED
    BY <2>1, DeliveryStep
<1> QED
  BY <1>1, <1>2, InductiveInvariant, PTL DEF Spec, DeliverySpec, Delivery!Spec

---------------------------------------------------------------------------
(* One connection: the wire between a server and its client *)

(* What a client may find on its wire: between frames one frame's header and some of its *)
(* buffers, or the end message; inside a frame no more than the buffers it lacks. *)
HeaderFirst(k, f) ==
  /\ k.wire # <<>> /\ k.wire[1] = FrameMessage(f)
  /\ \A i \in 2 .. Len(k.wire) : k.wire[i] = Data(f)
OnlyData(k, f) == \A i \in 1 .. Len(k.wire) : k.wire[i] = Data(f)

ClientLocal(k) ==
  /\ k.state = "await" =>
       \/ k.wire = <<>>
       \/ k.wire = <<EndMessage>>
       \/ \E f \in Frames : HeaderFirst(k, f) /\ Len(k.wire) <= Chunks + 1
  /\ k.state = "receiving" =>
       OnlyData(k, k.file.name) /\ k.file.chunks + Len(k.wire) <= Chunks
  /\ k.state \notin {"await", "receiving"} => k.wire = <<>>

(* What a server's own record says of the frame it is sending. *)
ServerLocal(v) ==
  /\ v.state \in {"down", "accept"} => v.peer = NoClient /\ v.ack = NoFrame
  /\ v.state = "stream" => v.sent < Chunks
  /\ v.state = "ack" => v.sent = Chunks
  /\ v.ack # NoFrame => v.state = "ack" /\ v.ack = v.cur

(* Where the client is when its server is somewhere: before and after a frame it waits *)
(* with an empty wire; in between it has read, has on its wire or holds just what the  *)
(* server has sent, or has acknowledged it.                                            *)
Between(v, k) ==
  v.state \notin {"stream", "ack"} \/ v.ack # NoFrame => k.state = "await" /\ k.wire = <<>>
Within(v, k) ==
  v.state \in {"stream", "ack"} /\ v.ack = NoFrame =>
    \/ k.state = "await" /\ HeaderFirst(k, v.cur) /\ Len(k.wire) = v.sent + 1
    \/ /\ k.state = "receiving" /\ k.file.name = v.cur
       /\ OnlyData(k, v.cur) /\ k.file.chunks + Len(k.wire) = v.sent
    \/ /\ k.state \in {"stored", "validated"} /\ k.file.name = v.cur
       /\ k.wire = <<>> /\ v.sent = Chunks
InStep(v, k) == k.link = "open" /\ Between(v, k) /\ Within(v, k)

AttachedInv ==
  \A s \in Servers, c \in Clients :
    Attached(s, c) => client[c].host = s /\ InStep(server[s], client[c])

(* A queued connection is its client's only one, and nothing has been sent on it. *)
PendingInv ==
  \A s \in Servers, c \in Clients : \A i \in 1 .. Len(pending[s]) :
    pending[s][i] = c =>
      /\ client[c].host = s /\ client[c].link = "open"
      /\ client[c].state = "await" /\ client[c].wire = <<>>
      /\ ~Attached(s, c)
      /\ \A j \in 1 .. Len(pending[s]) : pending[s][j] = c => j = i

SessionInv ==
  /\ \A s \in Servers : ServerLocal(server[s])
  /\ \A c \in Clients : ClientLocal(client[c])
  /\ AttachedInv
  /\ PendingInv

(* A --once client's backlog is published; what is left of it in the spool is still in *)
(* its server's listing or hand, and nothing is left once the end message is sent.     *)
BacklogInv ==
  /\ \A c \in Clients :
       /\ client[c].backlog \subseteq Published
       /\ c \in FollowClients => client[c].backlog = {}
       /\ client[c].state = "done" \/ client[c].wire = <<EndMessage>> => client[c].backlog \cap spool = {}
  /\ \A s \in Servers, c \in Clients :
       Attached(s, c) => client[c].backlog \cap spool \subseteq server[s].todo \cup {server[s].cur}

----------------------------------------------------------------------------
(* Nothing is connected in the beginning. *)
LEMMA SessionInit == Init => SessionInv /\ BacklogInv
<1> SUFFICES ASSUME Init PROVE SessionInv /\ BacklogInv
  OBVIOUS
<1>1. \A s \in Servers : server[s] = Unoccupied("down") /\ pending[s] = <<>>
  BY DEF Init
<1>2. \A c \in Clients : client[c] = Disconnected("idle")
  BY DEF Init
<1>3. \A s \in Servers, c \in Clients : ~Attached(s, c)
  BY <1>1 DEF Attached, Unoccupied
<1> QED
  BY <1>1, <1>2, <1>3 DEF SessionInv, ServerLocal, ClientLocal, AttachedInv, PendingInv, BacklogInv, Unoccupied, Disconnected

(* The types of one server's and one client's records. *)
LEMMA Records ==
  ASSUME TypeOK
  PROVE  /\ server \in [Servers -> ServerRecord] /\ client \in [Clients -> ClientRecord]
         /\ pending \in [Servers -> Seq(Clients \cup {NoClient})]
         /\ \A c \in Clients : client[c].wire \in Seq(Message) /\ client[c].file.chunks \in Nat
         /\ \A s \in Servers : server[s].sent \in Nat
BY StreamAssumption DEF TypeOK, ServerRecord, ClientRecord

(* A client is attached to at most one server, and not while it is queued. *)
LEMMA OneConnection ==
  ASSUME SessionInv, NEW c \in Clients, NEW s \in Servers, Attached(s, c)
  PROVE  /\ \A q \in Servers \ {s} : ~Attached(q, c)
         /\ \A q \in Servers : \A i \in 1 .. Len(pending[q]) : pending[q][i] # c
BY DEF SessionInv, AttachedInv, PendingInv

(* A server's step that leaves the queues alone, and all clients but the one attached to *)
(* it, preserves the invariant if the two of them stay in step or part. *)
LEMMA ServerMoves ==
  ASSUME SessionInv, NEW s \in Servers, pending' = pending,
         \A q \in Servers \ {s} : server'[q] = server[q],
         ServerLocal(server'[s]),
         \A c \in Clients : ~Attached(s, c) => client'[c] = client[c],
         \A c \in Clients : Attached(s, c) => ClientLocal(client'[c]) /\ client'[c].host = client[c].host,
         \A c \in Clients : Attached(s, c)' => Attached(s, c) /\ InStep(server'[s], client'[c])
  PROVE  SessionInv'
<1>1. \A q \in Servers : ServerLocal(server'[q])
  BY DEF SessionInv
<1>2. \A c \in Clients : ClientLocal(client'[c])
  BY DEF SessionInv
<1>3. \A q \in Servers \ {s}, c \in Clients : Attached(q, c)' => Attached(q, c)
  BY DEF Attached
<1>4. AttachedInv'
  <2> SUFFICES ASSUME NEW q \in Servers, NEW c \in Clients, Attached(q, c)'
               PROVE  client'[c].host = q /\ InStep(server'[q], client'[c])
    BY DEF AttachedInv
  <2>1. CASE q = s
    BY <2>1 DEF SessionInv, AttachedInv
  <2>2. CASE q # s
    <3>1. Attached(q, c) /\ ~Attached(s, c)
      BY <1>3, <2>2, OneConnection
    <3> QED
      BY <2>2, <3>1 DEF SessionInv, AttachedInv
  <2> QED
    BY <2>1, <2>2
<1>5. PendingInv'
  <2> SUFFICES ASSUME NEW q \in Servers, NEW c \in Clients, NEW i \in 1 .. Len(pending[q]), pending[q][i] = c
               PROVE  /\ client'[c].host = q /\ client'[c].link = "open"
                      /\ client'[c].state = "await" /\ client'[c].wire = <<>>
                      /\ ~Attached(q, c)'
                      /\ \A j \in 1 .. Len(pending[q]) : pending[q][j] = c => j = i
    BY DEF PendingInv
  <2>1. ~Attached(s, c) /\ ~Attached(q, c)
    BY OneConnection
  <2>2. ~Attached(q, c)'
    BY <1>3, <2>1
  <2> QED
    BY <2>1, <2>2 DEF SessionInv, PendingInv
<1> QED
  BY <1>1, <1>2, <1>4, <1>5 DEF SessionInv

(* A client that leaves, or whose connection is lost, takes both ends out of step. *)
LEMMA ClientLeaves ==
  ASSUME TypeOK, SessionInv, NEW c \in Clients, NEW line \in {"closed", "dead"}, PeerLeaves(c, line),
         \A d \in Clients \ {c} : client'[d] = client[d], ClientLocal(client'[c])
  PROVE  SessionInv'
<1>a. server \in [Servers -> ServerRecord] /\ pending \in [Servers -> Seq(Clients \cup {NoClient})]
  BY Records
<1>1. \A s \in Servers : server'[s] = IF Attached(s, c) THEN [server[s] EXCEPT !.line = line] ELSE server[s]
  BY DEF PeerLeaves
<1>2. \A s \in Servers : ServerLocal(server'[s])
  BY <1>a, <1>1 DEF SessionInv, ServerLocal, ServerRecord
<1>3. \A s \in Servers : ~Attached(s, c)'
  BY <1>a, <1>1 DEF Attached, ServerRecord
<1>4. \A s \in Servers, d \in Clients \ {c} :
        /\ Attached(s, d)' => Attached(s, d)
        /\ Attached(s, d)' => server'[s] = server[s]
  BY <1>a, <1>1 DEF Attached, ServerRecord
<1>5. \A s \in Servers :
        /\ Len(pending'[s]) = Len(pending[s])
        /\ \A i \in 1 .. Len(pending[s]) : pending'[s][i] = IF pending[s][i] = c THEN NoClient ELSE pending[s][i]
  <2> SUFFICES ASSUME NEW s \in Servers
               PROVE  /\ Len(pending'[s]) = Len(pending[s])
                      /\ \A i \in 1 .. Len(pending[s]) :
                           pending'[s][i] = IF pending[s][i] = c THEN NoClient ELSE pending[s][i]
    OBVIOUS
  <2>1. pending'[s] = [i \in DOMAIN pending[s] |-> IF pending[s][i] = c THEN NoClient ELSE pending[s][i]]
    BY DEF PeerLeaves
  <2>2. DOMAIN pending[s] = 1 .. Len(pending[s]) /\ Len(pending[s]) \in Nat
    BY <1>a
  <2>3. pending'[s] \in Seq(Clients \cup {NoClient}) /\ Len(pending'[s]) = Len(pending[s])
    BY <1>a, <2>1, <2>2
  <2> QED
    BY <2>1, <2>2, <2>3
<1>6. c # NoClient
  BY StreamAssumption
<1>7. AttachedInv'
  BY <1>3, <1>4 DEF SessionInv, AttachedInv
<1>8. PendingInv'
  <2> SUFFICES ASSUME NEW s \in Servers, NEW d \in Clients, NEW i \in 1 .. Len(pending'[s]), pending'[s][i] = d
               PROVE  /\ client'[d].host = s /\ client'[d].link = "open"
                      /\ client'[d].state = "await" /\ client'[d].wire = <<>>
                      /\ ~Attached(s, d)'
                      /\ \A j \in 1 .. Len(pending'[s]) : pending'[s][j] = d => j = i
    BY DEF PendingInv
  <2>1. d # NoClient
    BY StreamAssumption
  <2>2. d # c /\ i \in 1 .. Len(pending[s]) /\ pending[s][i] = d
    BY <1>5, <2>1
  <2>3. \A j \in 1 .. Len(pending'[s]) : pending'[s][j] = d => pending[s][j] = d
    BY <1>5, <2>1
  <2> QED
    BY <1>4, <1>5, <2>2, <2>3 DEF SessionInv, PendingInv
<1> QED
  BY <1>2, <1>7, <1>8 DEF SessionInv

(* A client's step of its own, while it is not queued, if it stays in step. *)
LEMMA ClientMoves ==
  ASSUME SessionInv, NEW c \in Clients, UNCHANGED <<server, pending>>,
         client[c].state # "await" \/ client[c].wire # <<>>,
         \A d \in Clients \ {c} : client'[d] = client[d],
         ClientLocal(client'[c]),
         \A s \in Servers : Attached(s, c) => client'[c].host = client[c].host /\ InStep(server[s], client'[c])
  PROVE  SessionInv'
<1>1. \A s \in Servers, d \in Clients : Attached(s, d)' <=> Attached(s, d)
  BY DEF Attached
<1>2. \A s \in Servers : \A i \in 1 .. Len(pending[s]) : pending[s][i] # c
  BY DEF SessionInv, PendingInv
<1>3. AttachedInv'
  BY <1>1 DEF SessionInv, AttachedInv
<1>4. PendingInv'
  BY <1>1, <1>2 DEF SessionInv, PendingInv
<1> QED
  BY <1>3, <1>4 DEF SessionInv

----------------------------------------------------------------------------
(* A server's record, and its client's, after it has sent a header ... *)
LEMMA InStepOffered ==
  ASSUME TypeOK, NEW s \in Servers, NEW c \in Clients, Attached(s, c),
         InStep(server[s], client[c]), server[s].state = "offer", server[s].cur \in Frames, server[s].ack = NoFrame,
         server'[s] = [server[s] EXCEPT !.state = "stream", !.sent = 0],
         client'[c] = [client[c] EXCEPT !.wire = Append(@, FrameMessage(server[s].cur))]
  PROVE  InStep(server'[s], client'[c]) /\ ClientLocal(client'[c]) /\ client'[c].host = client[c].host
<1>a. server[s] \in ServerRecord /\ client[c] \in ClientRecord
  BY Records
<1>1. server'[s].state = "stream" /\ server'[s].sent = 0 /\ server'[s].ack = server[s].ack /\ server'[s].cur = server[s].cur
  BY <1>a DEF ServerRecord
<1>2. client[c].state = "await" /\ client[c].wire = <<>> /\ client[c].link = "open"
  BY DEF InStep, Between
<1>3. /\ client'[c].state = "await" /\ client'[c].link = "open" /\ client'[c].host = client[c].host
      /\ client'[c].wire = <<FrameMessage(server[s].cur)>>
  BY <1>a, <1>2 DEF ClientRecord
<1>4. Len(client'[c].wire) = 1 /\ client'[c].wire[1] = FrameMessage(server[s].cur) /\ client'[c].wire # <<>>
  <2>1. \A m : Len(<<m>>) = 1 /\ <<m>>[1] = m /\ <<m>> # <<>>
    OBVIOUS
  <2> QED
    BY <1>3, <2>1
<1>5. HeaderFirst(client'[c], server[s].cur)
  <2>1. 2 .. 1 = {}
    OBVIOUS
  <2> QED
    BY <1>4, <2>1 DEF HeaderFirst
<1>6. Within(server'[s], client'[c])
  BY <1>1, <1>3, <1>4, <1>5 DEF Within
<1>7. Between(server'[s], client'[c])
  BY <1>1, <1>3 DEF InStep, Between
<1>8. 1 <= Chunks + 1
  BY StreamAssumption
<1>9. ClientLocal(client'[c])
  BY <1>3, <1>4, <1>5, <1>8 DEF ClientLocal
<1> QED
  BY <1>3, <1>6, <1>7, <1>9 DEF InStep

(* ... and after it has sent a buffer. *)
LEMMA InStepStreamed ==
  ASSUME TypeOK, NEW s \in Servers, NEW c \in Clients, Attached(s, c), SessionInv,
         server[s].state = "stream", server[s].cur \in Frames,
         server'[s] = [server[s] EXCEPT !.sent = @ + 1, !.state = IF LastBuffer(server[s].sent) THEN "ack" ELSE @],
         client'[c] = [client[c] EXCEPT !.wire = Append(@, Data(server[s].cur))]
  PROVE  InStep(server'[s], client'[c]) /\ ClientLocal(client'[c]) /\ client'[c].host = client[c].host
<1> DEFINE f == server[s].cur
<1>a. server[s] \in ServerRecord /\ client[c] \in ClientRecord
  BY Records
<1>b. client[c].wire \in Seq(Message) /\ client[c].file.chunks \in Nat /\ server[s].sent \in Nat /\ Chunks \in Nat
  BY Records, StreamAssumption
<1>c. InStep(server[s], client[c]) /\ server[s].ack = NoFrame /\ server[s].sent < Chunks
  BY DEF SessionInv, AttachedInv, ServerLocal
<1>1. /\ server'[s].state \in {"stream", "ack"} /\ server'[s].sent = server[s].sent + 1
      /\ server'[s].ack = NoFrame /\ server'[s].cur = f
  BY <1>a, <1>c DEF ServerRecord
<1>2. /\ client'[c].state = client[c].state /\ client'[c].link = "open" /\ client'[c].host = client[c].host
      /\ client'[c].file = client[c].file /\ client'[c].wire = Append(client[c].wire, Data(f))
  BY <1>a, <1>c DEF ClientRecord, InStep
<1>3. /\ Len(client'[c].wire) = Len(client[c].wire) + 1 /\ Len(client[c].wire) \in Nat
      /\ client'[c].wire[Len(client[c].wire) + 1] = Data(f)
      /\ \A i \in 1 .. Len(client[c].wire) : client'[c].wire[i] = client[c].wire[i]
  BY <1>b, <1>2
<1>4. CASE client[c].state = "await"
  <2>1. HeaderFirst(client[c], f) /\ Len(client[c].wire) = server[s].sent + 1
    BY <1>c, <1>4 DEF InStep, Within
  <2>2. HeaderFirst(client'[c], f) /\ Len(client'[c].wire) = server[s].sent + 2
    BY <1>b, <1>2, <1>3, <2>1 DEF HeaderFirst
  <2>3. Len(client'[c].wire) <= Chunks + 1 /\ Len(client'[c].wire) = server'[s].sent + 1
    BY <1>b, <1>c, <1>1, <2>2
  <2>4. ClientLocal(client'[c])
    BY <1>2, <1>4, <2>2, <2>3 DEF ClientLocal
  <2>5. Between(server'[s], client'[c]) /\ Within(server'[s], client'[c])
    BY <1>1, <1>2, <1>4, <2>2, <2>3 DEF Between, Within
  <2> QED
    BY <1>2, <2>4, <2>5 DEF InStep
<1>5. CASE client[c].state # "await"
  <2>1. /\ client[c].state = "receiving" /\ client[c].file.name = f
        /\ OnlyData(client[c], f) /\ client[c].file.chunks + Len(client[c].wire) = server[s].sent
    BY <1>b, <1>c, <1>5 DEF InStep, Within
  <2>2. OnlyData(client'[c], f)
    <3> SUFFICES ASSUME NEW i \in 1 .. Len(client[c].wire) + 1 PROVE client'[c].wire[i] = Data(f)
      BY <1>3 DEF OnlyData
    <3>1. CASE i \in 1 .. Len(client[c].wire)
      BY <1>3, <2>1, <3>1 DEF OnlyData
    <3>2. CASE i = Len(client[c].wire) + 1
      BY <1>3, <3>2
    <3> QED
      BY <1>3, <3>1, <3>2
  <2> DEFINE n == Len(client[c].wire)
             have == client[c].file.chunks
  <2>3. have + (n + 1) = server[s].sent + 1 /\ have + (n + 1) <= Chunks
    <3>1. n \in Nat /\ have \in Nat /\ have + n = server[s].sent
      BY <1>b, <1>3, <2>1
    <3>2. server[s].sent \in Nat /\ Chunks \in Nat /\ server[s].sent < Chunks
      BY <1>b, <1>c
    <3> HIDE DEF n, have
    <3> QED
      BY <3>1, <3>2
  <2>4. client'[c].file.chunks + Len(client'[c].wire) = server[s].sent + 1
    BY <1>2, <1>3, <2>3
  <2>5. client'[c].file.chunks + Len(client'[c].wire) <= Chunks
    BY <1>2, <1>3, <2>3
  <2> QED
    BY <1>1, <1>2, <2>1, <2>2, <2>4, <2>5 DEF InStep, Between, Within, ClientLocal
<1> QED
  BY <1>4, <1>5

(* The servers' steps preserve the invariant: those of a session ... *)
LEMMA SessionStepServing ==
  ASSUME IInv, SessionInv, NEW s \in Servers,
         \/ StartServer(s) \/ ChooseFrame(s) \/ OfferFrame(s) \/ SendData(s) \/ ReadAck(s) \/ RemoveFrame(s)
         \/ Rescan(s) \/ EndBacklog(s) \/ DropClient(s) \/ EndListing(s) \/ StatFails(s)
  PROVE  SessionInv'
<1>0. TypeOK
  BY DEF IInv
<1>a. /\ server \in [Servers -> ServerRecord] /\ client \in [Clients -> ClientRecord]
      /\ server[s].sent \in Nat /\ Chunks \in Nat
  BY <1>0, Records, StreamAssumption
<1>b. ServerLocal(server[s]) /\ \A c \in Clients : ClientLocal(client[c])
  BY DEF SessionInv
<1>c. \A c \in Clients : Attached(s, c) => InStep(server[s], client[c])
  BY DEF SessionInv, AttachedInv
<1>d. NoClient \notin Clients
  BY StreamAssumption
<1>1. ASSUME NEW state \in {"down", "accept"}, server' = [server EXCEPT ![s] = Unoccupied(state)], pending' = pending,
             \A c \in Clients : ~Attached(s, c) => client'[c] = client[c],
             \A c \in Clients : Attached(s, c) => ClientLocal(client'[c]) /\ client'[c].host = client[c].host
      PROVE  SessionInv'
  <2>1. server'[s] = Unoccupied(state) /\ \A q \in Servers \ {s} : server'[q] = server[q]
    BY <1>1, <1>a
  <2>2. ServerLocal(server'[s]) /\ \A c \in Clients : ~Attached(s, c)'
    BY <1>d, <2>1 DEF ServerLocal, Attached, Unoccupied
  <2> QED
    BY <1>1, <2>1, <2>2, ServerMoves
<1>2. CASE StartServer(s)
  <2>1. \A c \in Clients : ~Attached(s, c)
    BY <1>2, <1>b, <1>d DEF StartServer, ServerLocal, Attached
  <2> QED
    BY <1>1, <1>2, <2>1 DEF StartServer
<1>3. CASE DropClient(s)
  <2>1. \A c \in Clients : client'[c] = IF Attached(s, c) THEN [client[c] EXCEPT !.link = "closed"] ELSE client[c]
    BY <1>3 DEF DropClient, ClosedBy
  <2>2. \A c \in Clients : /\ client'[c].host = client[c].host /\ client'[c].state = client[c].state
                          /\ client'[c].wire = client[c].wire /\ client'[c].file = client[c].file
    BY <1>a, <2>1 DEF ClientRecord
  <2>3. \A c \in Clients : ClientLocal(client'[c])
    BY <1>b, <2>2 DEF ClientLocal, HeaderFirst, OnlyData
  <2> QED
    BY <1>1, <1>3, <2>1, <2>2, <2>3 DEF DropClient
<1>4. CASE EndBacklog(s)
  <2>1. \A c \in Clients : client'[c] = IF Attached(s, c)
          THEN [client[c] EXCEPT !.wire = Append(@, EndMessage), !.link = "closed"] ELSE client[c]
    BY <1>4 DEF EndBacklog
  <2>2. ASSUME NEW c \in Clients, Attached(s, c) PROVE ClientLocal(client'[c]) /\ client'[c].host = client[c].host
    <3>1. client[c].state = "await" /\ client[c].wire = <<>>
      BY <1>4, <1>c, <2>2 DEF EndBacklog, InStep, Between
    <3>2. client'[c].state = "await" /\ client'[c].wire = <<EndMessage>> /\ client'[c].host = client[c].host
      <4>1. client'[c] = [client[c] EXCEPT !.wire = Append(@, EndMessage), !.link = "closed"]
        BY <2>1, <2>2
      <4>2. /\ client'[c].state = client[c].state /\ client'[c].host = client[c].host
            /\ client'[c].wire = Append(client[c].wire, EndMessage)
        BY <1>a, <4>1 DEF ClientRecord
      <4> QED
        BY <3>1, <4>2
    <3> QED
      BY <3>2 DEF ClientLocal
  <2> QED
    BY <1>1, <1>4, <2>1, <2>2 DEF EndBacklog
<1>5. ASSUME client' = client, pending' = pending, NEW v, server' = [server EXCEPT ![s] = v],
             v.peer = server[s].peer, v.line = server[s].line, ServerLocal(v),
             \A k : InStep(server[s], k) => InStep(v, k)
      PROVE  SessionInv'
  <2>1. server'[s] = v /\ \A q \in Servers \ {s} : server'[q] = server[q]
    BY <1>5, <1>a
  <2>2. \A c \in Clients : Attached(s, c)' => Attached(s, c) /\ InStep(v, client'[c])
    BY <1>5, <1>c, <2>1 DEF Attached
  <2> QED
    BY <1>5, <1>b, <2>1, <2>2, ServerMoves
<1>6. CASE ChooseFrame(s)
  <2>1. PICK f \in server[s].todo :
          server' = IF f \in spool
                    THEN [server EXCEPT ![s].todo = @ \ {f}, ![s].cur = f, ![s].state = "offer"]
                    ELSE [server EXCEPT ![s].todo = @ \ {f}]
    BY <1>6 DEF ChooseFrame
  <2> DEFINE v == IF f \in spool THEN [server[s] EXCEPT !.todo = @ \ {f}, !.cur = f, !.state = "offer"]
                  ELSE [server[s] EXCEPT !.todo = @ \ {f}]
  <2>2. server' = [server EXCEPT ![s] = v]
    BY <1>a, <2>1
  <2>3. /\ v.peer = server[s].peer /\ v.line = server[s].line
        /\ v.state \in {"choose", "offer"} /\ v.ack = server[s].ack /\ server[s].state = "choose"
    BY <1>6, <1>a DEF ChooseFrame, ServerRecord, ServerState
  <2>4. ServerLocal(v) /\ \A k : InStep(server[s], k) => InStep(v, k)
    BY <1>b, <2>3 DEF ServerLocal, InStep, Between, Within
  <2> QED
    BY <1>5, <1>6, <2>2, <2>3, <2>4 DEF ChooseFrame
<1>7. CASE Rescan(s)
  <2> DEFINE v == [server[s] EXCEPT !.todo = CompletedFrames, !.state = "relist"]
  <2>1. server' = [server EXCEPT ![s] = v]
    BY <1>7, <1>a DEF Rescan
  <2>2. /\ v.peer = server[s].peer /\ v.line = server[s].line
        /\ v.state = "relist" /\ v.ack = server[s].ack /\ server[s].state \in {"choose", "idle"}
    BY <1>0, <1>7, <1>a DEF Rescan, ServerRecord, CompletedFrames, TypeOK
  <2>3. ServerLocal(v) /\ \A k : InStep(server[s], k) => InStep(v, k)
    BY <1>b, <2>2 DEF ServerLocal, InStep, Between, Within
  <2> QED
    BY <1>5, <1>7, <2>1, <2>2, <2>3 DEF Rescan
<1>14. CASE EndListing(s)
  <2>1. PICK found \in SUBSET late[s], state \in {"idle", "choose"} :
          server' = [server EXCEPT ![s].todo = @ \cup found, ![s].state = state]
    BY <1>14 DEF EndListing
  <2> DEFINE v == [server[s] EXCEPT !.todo = @ \cup found, !.state = state]
  <2>2. server' = [server EXCEPT ![s] = v]
    BY <1>a, <2>1
  <2>3. /\ v.peer = server[s].peer /\ v.line = server[s].line
        /\ v.state = state /\ v.ack = server[s].ack
    BY <1>a DEF ServerRecord
  <2>5. server[s].state \in Listing
    BY <1>14 DEF EndListing
  <2>4. ServerLocal(v) /\ \A k : InStep(server[s], k) => InStep(v, k)
    BY <1>b, <2>3, <2>5 DEF ServerLocal, InStep, Between, Within, Listing
  <2> QED
    BY <1>5, <1>14, <2>2, <2>3, <2>4 DEF EndListing, listingVars
<1>15. CASE StatFails(s)
  <2>1. PICK f :
          /\ server' = [server EXCEPT ![s].todo = @ \ {f}]
          /\ client' = [c \in Clients |->
               IF Attached(s, c) THEN [client[c] EXCEPT !.backlog = @ \ {f}] ELSE client[c]]
    BY <1>15 DEF StatFails
  <2> DEFINE v == server'[s]
  <2>2. /\ v.peer = server[s].peer /\ v.line = server[s].line /\ v.state = server[s].state
        /\ v.ack = server[s].ack /\ v.sent = server[s].sent /\ v.cur = server[s].cur
        /\ \A q \in Servers \ {s} : server'[q] = server[q]
    BY <1>a, <2>1 DEF ServerRecord
  <2>3. \A c \in Clients : Attached(s, c)' => Attached(s, c)
    BY <2>2 DEF Attached
  <2>4. \A c \in Clients : /\ client'[c].host = client[c].host /\ client'[c].state = client[c].state
                          /\ client'[c].wire = client[c].wire /\ client'[c].file = client[c].file
                          /\ client'[c].link = client[c].link
    BY <1>a, <2>1 DEF ClientRecord
  <2>5. \A c \in Clients : ~Attached(s, c) => client'[c] = client[c]
    BY <2>1
  <2>6. ServerLocal(v) /\ \A c \in Clients : ClientLocal(client'[c])
    BY <1>b, <2>2, <2>4 DEF ServerLocal, ClientLocal, HeaderFirst, OnlyData
  <2>7. \A c \in Clients : Attached(s, c)' => Attached(s, c) /\ InStep(v, client'[c])
    BY <1>c, <2>2, <2>3, <2>4 DEF InStep, Between, Within, HeaderFirst, OnlyData
  <2>8. pending' = pending
    BY <1>15 DEF StatFails
  <2> QED
    BY <2>2, <2>4, <2>5, <2>6, <2>7, <2>8, ServerMoves
<1>8. CASE ReadAck(s)
  <2> DEFINE v == [server[s] EXCEPT !.state = "remove", !.ack = NoFrame]
  <2>1. server' = [server EXCEPT ![s] = v]
    BY <1>8, <1>a DEF ReadAck
  <2>2. /\ v.peer = server[s].peer /\ v.line = server[s].line
        /\ v.state = "remove" /\ v.ack = NoFrame
    BY <1>a DEF ServerRecord, ServerState
  <2>3. server[s].ack # NoFrame
    BY <1>8, StreamAssumption DEF ReadAck, IInv, ServingInv, Clear, Published
  <2>4. ServerLocal(v) /\ \A k : InStep(server[s], k) => InStep(v, k)
    BY <1>b, <2>2, <2>3 DEF ServerLocal, InStep, Between, Within
  <2> QED
    BY <1>5, <1>8, <2>1, <2>2, <2>4 DEF ReadAck
<1>9. CASE RemoveFrame(s)
  <2> DEFINE v == [server[s] EXCEPT !.state = "choose", !.cur = NoFrame, !.sent = 0]
  <2>1. server' = [server EXCEPT ![s] = v]
    BY <1>9, <1>a DEF RemoveFrame
  <2>2. /\ v.peer = server[s].peer /\ v.line = server[s].line
        /\ v.state = "choose" /\ v.ack = server[s].ack /\ server[s].state = "remove"
    BY <1>9, <1>a DEF RemoveFrame, ServerRecord, ServerState
  <2>3. ServerLocal(v) /\ \A k : InStep(server[s], k) => InStep(v, k)
    BY <1>b, <2>2 DEF ServerLocal, InStep, Between, Within
  <2> QED
    BY <1>5, <1>9, <2>1, <2>2, <2>3 DEF RemoveFrame
<1>10. ASSUME NEW message, client' = Sent(s, message), pending' = pending, NEW v,
              server' = [server EXCEPT ![s] = v], v.peer = server[s].peer, v.line = server[s].line, ServerLocal(v),
              \A c \in Clients : Attached(s, c) =>
                InStep(v, client'[c]) /\ ClientLocal(client'[c]) /\ client'[c].host = client[c].host
       PROVE  SessionInv'
  <2>1. server'[s] = v /\ \A q \in Servers \ {s} : server'[q] = server[q]
    BY <1>10, <1>a
  <2>2. \A c \in Clients : ~Attached(s, c) => client'[c] = client[c]
    BY <1>10 DEF Sent
  <2>3. \A c \in Clients : Attached(s, c)' => Attached(s, c)
    BY <1>10, <2>1 DEF Attached
  <2> QED
    BY <1>10, <2>1, <2>2, <2>3, ServerMoves
<1>11. server[s].state \in {"offer", "stream"} => server[s].cur \in Frames
  BY DEF IInv, ServingInv, Clear, Published
<1>12. CASE OfferFrame(s)
  <2> DEFINE v == [server[s] EXCEPT !.state = "stream", !.sent = 0]
  <2>1. server' = [server EXCEPT ![s] = v] /\ client' = Sent(s, FrameMessage(server[s].cur))
    BY <1>12, <1>a DEF OfferFrame
  <2>2. /\ v.peer = server[s].peer /\ v.line = server[s].line
        /\ v.state = "stream" /\ v.sent = 0 /\ v.ack = server[s].ack /\ v.cur = server[s].cur
    BY <1>a DEF ServerRecord, ServerState
  <2>3. ServerLocal(v)
    BY <1>12, <1>b, <2>2, StreamAssumption DEF OfferFrame, ServerLocal
  <2>4. ASSUME NEW c \in Clients, Attached(s, c)
        PROVE  InStep(v, client'[c]) /\ ClientLocal(client'[c]) /\ client'[c].host = client[c].host
    <3>1. client'[c] = [client[c] EXCEPT !.wire = Append(@, FrameMessage(server[s].cur))] /\ server'[s] = v
      BY <1>a, <2>1, <2>4 DEF Sent
    <3> QED
      BY <1>0, <1>11, <1>12, <1>b, <1>c, <2>4, <3>1, InStepOffered DEF OfferFrame, ServerLocal
  <2> QED
    BY <1>10, <1>12, <2>1, <2>2, <2>3, <2>4 DEF OfferFrame
<1>13. CASE SendData(s)
  <2> DEFINE v == [server[s] EXCEPT !.sent = @ + 1, !.state = IF LastBuffer(server[s].sent) THEN "ack" ELSE @]
  <2>1. server' = [server EXCEPT ![s] = v] /\ client' = Sent(s, Data(server[s].cur))
    BY <1>13, <1>a DEF SendData
  <2>2. /\ v.peer = server[s].peer /\ v.line = server[s].line
        /\ v.state = (IF server[s].sent + 1 = Chunks THEN "ack" ELSE "stream") /\ v.sent = server[s].sent + 1
        /\ v.ack = server[s].ack /\ v.cur = server[s].cur
    BY <1>13, <1>a DEF SendData, ServerRecord, LastBuffer
  <2>3. server[s].sent < Chunks
    BY <1>13, <1>b DEF SendData, ServerLocal
  <2>5. ServerLocal(v)
    BY <1>13, <1>a, <1>b, <2>2, <2>3 DEF SendData, ServerLocal
  <2>6. ASSUME NEW c \in Clients, Attached(s, c)
        PROVE  InStep(v, client'[c]) /\ ClientLocal(client'[c]) /\ client'[c].host = client[c].host
    <3>1. client'[c] = [client[c] EXCEPT !.wire = Append(@, Data(server[s].cur))] /\ server'[s] = v
      BY <1>a, <2>1, <2>6 DEF Sent
    <3> QED
      BY <1>0, <1>11, <1>13, <2>6, <3>1, InStepStreamed DEF SendData
  <2> QED
    BY <1>10, <1>13, <2>1, <2>2, <2>5, <2>6 DEF SendData
<1> QED
  BY <1>2, <1>3, <1>4, <1>6, <1>7, <1>8, <1>9, <1>12, <1>13, <1>14, <1>15
(* ... those that take a connection from the queue or lose the whole queue ... *)
LEMMA SessionStepQueue ==
  ASSUME TypeOK, SessionInv, NEW s \in Servers, Accept(s) \/ AcceptAbandoned(s) \/ CrashServer(s)
  PROVE  SessionInv'
<1>a. /\ server \in [Servers -> ServerRecord] /\ client \in [Clients -> ClientRecord]
      /\ pending \in [Servers -> Seq(Clients \cup {NoClient})]
  BY Records
<1>d. NoClient \notin Clients
  BY StreamAssumption
<1>1. ASSUME pending[s] # <<>>, pending' = [pending EXCEPT ![s] = Tail(@)],
             \A q \in Servers : \A i \in 1 .. Len(pending'[q]) : \A c \in Clients :
               Attached(q, c)' /\ pending'[q][i] = c => Attached(q, c),
             client' = client
      PROVE  PendingInv'
  <2>1. \A i \in 1 .. Len(pending'[s]) :
          i + 1 \in 1 .. Len(pending[s]) /\ pending'[s][i] = pending[s][i + 1]
    BY <1>1, <1>a
  <2>2. \A q \in Servers \ {s} : pending'[q] = pending[q]
    BY <1>1, <1>a
  <2> SUFFICES ASSUME NEW q \in Servers, NEW c \in Clients, NEW i \in 1 .. Len(pending'[q]), pending'[q][i] = c
               PROVE  /\ client'[c].host = q /\ client'[c].link = "open"
                      /\ client'[c].state = "await" /\ client'[c].wire = <<>>
                      /\ ~Attached(q, c)'
                      /\ \A j \in 1 .. Len(pending'[q]) : pending'[q][j] = c => j = i
    BY DEF PendingInv
  <2>3. CASE q = s
    <3>1. i + 1 \in 1 .. Len(pending[s]) /\ pending[s][i + 1] = c
      BY <2>1, <2>3
    <3>2. /\ client[c].host = s /\ client[c].link = "open" /\ client[c].state = "await"
          /\ client[c].wire = <<>> /\ ~Attached(s, c)
          /\ \A j \in 1 .. Len(pending[s]) : pending[s][j] = c => j = i + 1
      BY <3>1 DEF SessionInv, PendingInv
    <3>3. ASSUME NEW j \in 1 .. Len(pending'[s]), pending'[s][j] = c
          PROVE  j = i
      <4>1. j + 1 \in 1 .. Len(pending[s]) /\ pending[s][j + 1] = c
        BY <2>1, <3>3
      <4>2. j + 1 = i + 1
        BY <3>2, <4>1
      <4>3. i \in Int /\ j \in Int
        OBVIOUS
      <4> QED
        BY <4>2, <4>3
    <3> QED
      BY <1>1, <2>3, <3>2, <3>3
  <2>4. CASE q # s
    BY <1>1, <2>2, <2>4 DEF SessionInv, PendingInv
  <2> QED
    BY <2>3, <2>4
<1>2. CASE Accept(s)
  <2> DEFINE d == Head(pending[s])
  <2>1. d \in Clients /\ d = pending[s][1] /\ 1 \in 1 .. Len(pending[s])
    BY <1>2, <1>a DEF Accept
  <2>2. server'[s] = Serving(d, CompletedFrames) /\ \A q \in Servers \ {s} : server'[q] = server[q]
    BY <1>2, <1>a DEF Accept
  <2>3. client' = client /\ client[d].host = s /\ InStep(server'[s], client[d])
    <3>1. /\ client[d].host = s /\ client[d].link = "open"
          /\ client[d].state = "await" /\ client[d].wire = <<>>
      BY <2>1 DEF SessionInv, PendingInv
    <3>2. server'[s].state = "list"
      BY <2>2 DEF Serving
    <3> QED
      BY <1>2, <3>1, <3>2 DEF InStep, Between, Within, Accept
  <2>4. \A c \in Clients : Attached(s, c)' => c = d
    BY <2>2 DEF Attached, Serving
  <2>5. \A q \in Servers \ {s}, c \in Clients : Attached(q, c)' => Attached(q, c)
    BY <2>2 DEF Attached
  <2>6. AttachedInv'
    BY <2>2, <2>3, <2>4, <2>5 DEF SessionInv, AttachedInv
  <2>7. \A i \in 1 .. Len(pending'[s]) : pending'[s][i] # d
    <3>1. \A i \in 1 .. Len(pending'[s]) :
            i + 1 \in 1 .. Len(pending[s]) /\ pending'[s][i] = pending[s][i + 1] /\ i + 1 # 1
      BY <1>2, <1>a DEF Accept
    <3>2. \A i, j \in 1 .. Len(pending[s]) : pending[s][i] = d /\ pending[s][j] = d => j = i
      BY <2>1 DEF SessionInv, PendingInv
    <3>3. ASSUME NEW i \in 1 .. Len(pending'[s]), pending'[s][i] = d
          PROVE  FALSE
      <4>1. i + 1 \in 1 .. Len(pending[s]) /\ pending[s][i + 1] = d /\ i + 1 # 1
        BY <3>1, <3>3
      <4> QED
        BY <2>1, <3>2, <4>1
    <3> QED
      BY <3>3
  <2>8. PendingInv'
    BY <1>1, <1>2, <2>4, <2>5, <2>7 DEF Accept
  <2>9. \A q \in Servers : ServerLocal(server'[q])
    BY <2>2 DEF SessionInv, ServerLocal, Serving
  <2> QED
    BY <2>3, <2>6, <2>8, <2>9 DEF SessionInv
<1>3. CASE AcceptAbandoned(s)
  <2>1. \A q \in Servers, c \in Clients : Attached(q, c)' <=> Attached(q, c)
    BY <1>3 DEF AcceptAbandoned, Attached
  <2>2. PendingInv'
    BY <1>1, <1>3, <2>1 DEF AcceptAbandoned
  <2>3. AttachedInv'
    BY <1>3, <2>1 DEF AcceptAbandoned, SessionInv, AttachedInv
  <2> QED
    BY <1>3, <2>2, <2>3 DEF SessionInv, AcceptAbandoned
<1>4. CASE CrashServer(s)
  <2>1. server'[s] = Unoccupied("down") /\ \A q \in Servers \ {s} : server'[q] = server[q]
    BY <1>4, <1>a DEF CrashServer
  <2>2. pending'[s] = <<>> /\ \A q \in Servers \ {s} : pending'[q] = pending[q]
    BY <1>4, <1>a DEF CrashServer
  <2>3. \A c \in Clients : client'[c] = client[c] \/ client'[c] = [client[c] EXCEPT !.link = "closed"]
    BY <1>4 DEF CrashServer
  <2>4. \A c \in Clients : client[c].host # s => client'[c] = client[c]
    <3> SUFFICES ASSUME NEW c \in Clients, client[c].host # s PROVE client'[c] = client[c]
      OBVIOUS
    <3>1. ~Attached(s, c)
      BY DEF SessionInv, AttachedInv
    <3>2. ~\E i \in DOMAIN pending[s] : pending[s][i] = c
      <4>1. DOMAIN pending[s] = 1 .. Len(pending[s])
        BY <1>a
      <4> QED
        BY <4>1 DEF SessionInv, PendingInv
    <3> QED
      BY <1>4, <3>1, <3>2 DEF CrashServer
  <2>5. \A q \in Servers, c \in Clients : Attached(q, c)' => q # s /\ Attached(q, c)
    BY <1>d, <2>1 DEF Attached, Unoccupied
  <2>6. AttachedInv'
    BY <2>1, <2>4, <2>5 DEF SessionInv, AttachedInv
  <2>7. \A q \in Servers : \A i \in 1 .. Len(pending'[q]) : q # s
    BY <2>2
  <2>8. PendingInv'
    BY <2>2, <2>4, <2>5, <2>7 DEF SessionInv, PendingInv
  <2>9. \A q \in Servers : ServerLocal(server'[q])
    BY <2>1 DEF SessionInv, ServerLocal, Unoccupied
  <2>10. \A c \in Clients : ClientLocal(client'[c])
    <3>1. \A c \in Clients : /\ client'[c].state = client[c].state /\ client'[c].wire = client[c].wire
                            /\ client'[c].file = client[c].file
      BY <1>a, <2>3 DEF ClientRecord
    <3> QED
      BY <3>1 DEF SessionInv, ClientLocal, HeaderFirst, OnlyData
  <2> QED
    BY <2>6, <2>8, <2>9, <2>10 DEF SessionInv
<1> QED
  BY <1>2, <1>3, <1>4
(* The clients' steps preserve it: a new connection goes to the end of the queue ... *)
LEMMA SessionStepConnect ==
  ASSUME TypeOK, SessionInv, NEW c \in Clients, NEW s \in Servers, Connect(c, s)
  PROVE  SessionInv'
<1>a. client \in [Clients -> ClientRecord] /\ pending \in [Servers -> Seq(Clients \cup {NoClient})]
  BY Records
<1>1. PICK backlog : client'[c] = Connected(s, backlog)
  BY <1>a DEF Connect
<1>2. \A d \in Clients \ {c} : client'[d] = client[d]
  BY <1>a DEF Connect
<1>3. \A q \in Servers, d \in Clients : Attached(q, d)' <=> Attached(q, d)
  BY DEF Connect, Attached
<1>4. \A q \in Servers : ~Attached(q, c)
  <2>1. \A q \in Servers : ~InStep(server[q], client[c])
    BY DEF Connect, InStep, Between, Within
  <2> QED
    BY <2>1 DEF SessionInv, AttachedInv
<1>5. \A q \in Servers : \A i \in 1 .. Len(pending[q]) : pending[q][i] # c
  BY DEF Connect, SessionInv, PendingInv
<1>6. \A q \in Servers \ {s} : pending'[q] = pending[q]
  BY <1>a DEF Connect
<1>7. /\ Len(pending[s]) \in Nat /\ Len(pending'[s]) = Len(pending[s]) + 1
      /\ pending'[s][Len(pending[s]) + 1] = c
      /\ \A i \in 1 .. Len(pending[s]) : pending'[s][i] = pending[s][i]
  BY <1>a DEF Connect
<1>8. ClientLocal(client'[c])
  BY <1>1 DEF ClientLocal, Connected
<1>9. AttachedInv'
  BY <1>2, <1>3, <1>4 DEF SessionInv, AttachedInv, Connect
<1>10. PendingInv'
  <2> SUFFICES ASSUME NEW q \in Servers, NEW d \in Clients, NEW i \in 1 .. Len(pending'[q]), pending'[q][i] = d
               PROVE  /\ client'[d].host = q /\ client'[d].link = "open"
                      /\ client'[d].state = "await" /\ client'[d].wire = <<>>
                      /\ ~Attached(q, d)'
                      /\ \A j \in 1 .. Len(pending'[q]) : pending'[q][j] = d => j = i
    BY DEF PendingInv
  <2>1. CASE d = c
    <3>1. q = s /\ i = Len(pending[s]) + 1
      BY <1>5, <1>6, <1>7, <2>1
    <3>2. \A j \in 1 .. Len(pending'[s]) : pending'[s][j] = c => j = i
      BY <1>5, <1>7, <3>1
    <3> QED
      BY <1>1, <1>3, <1>4, <2>1, <3>1, <3>2 DEF Connected
  <2>2. CASE d # c
    <3>1. i \in 1 .. Len(pending[q]) /\ pending[q][i] = d
      BY <1>6, <1>7, <2>2
    <3>2. \A j \in 1 .. Len(pending'[q]) : pending'[q][j] = d => j \in 1 .. Len(pending[q]) /\ pending[q][j] = d
      BY <1>6, <1>7, <2>2
    <3> QED
      BY <1>2, <1>3, <2>2, <3>1, <3>2 DEF SessionInv, PendingInv
  <2> QED
    BY <2>1, <2>2
<1> QED
  BY <1>2, <1>8, <1>9, <1>10 DEF SessionInv, Connect

(* ... an acknowledgement is sent for the frame the server waits on ... *)
LEMMA SessionStepAck ==
  ASSUME IInv, SessionInv, NEW c \in Clients, SendAck(c)
  PROVE  SessionInv'
<1>0. TypeOK
  BY DEF IInv
<1>a. server \in [Servers -> ServerRecord] /\ client \in [Clients -> ClientRecord]
  BY <1>0, Records
<1>1. \A d \in Clients \ {c} : client'[d] = client[d]
  BY <1>a DEF SendAck
<1>2. /\ client'[c].state = "await" /\ client'[c].wire = <<>> /\ client'[c].host = client[c].host
      /\ client[c].link = "open" => client'[c].link = "open"
  BY <1>a DEF SendAck, ClientRecord, SessionInv, ClientLocal
<1>3. ClientLocal(client'[c])
  BY <1>2 DEF ClientLocal
<1>4. CASE \A s \in Servers : ~Attached(s, c)
  <2>1. server' = server /\ pending' = pending
    BY <1>4, <1>a DEF SendAck
  <2>2. client[c].state = "validated"
    BY DEF SendAck
  <2> QED
    BY <1>1, <1>3, <1>4, <2>1, <2>2, ClientMoves
<1>5. ASSUME NEW s \in Servers, Attached(s, c) PROVE SessionInv'
  <2>1. InStep(server[s], client[c]) /\ client[c].host = s /\ ServerLocal(server[s])
    BY <1>5 DEF SessionInv, AttachedInv
  <2>2. server[s].state \in {"stream", "ack"} /\ server[s].ack = NoFrame
    BY <2>1 DEF SendAck, InStep, Between
  <2>3. client[c].file.name = server[s].cur /\ server[s].sent = Chunks
    BY <2>1, <2>2 DEF SendAck, InStep, Within
  <2>4. server[s].state = "ack"
    BY <2>1, <2>2, <2>3, StreamAssumption DEF ServerLocal
  <2>5. server[s].cur # NoFrame
    BY <2>4, StreamAssumption DEF IInv, ServingInv, Clear, Published
  <2>6. server'[s] = [server[s] EXCEPT !.ack = client[c].file.name]
    BY <1>5 DEF SendAck
  <2>7. /\ server'[s].state = "ack" /\ server'[s].ack = server[s].cur /\ server'[s].cur = server[s].cur
        /\ server'[s].sent = server[s].sent
    BY <1>a, <2>3, <2>4, <2>6 DEF ServerRecord
  <2>8. \A q \in Servers \ {s} : server'[q] = server[q]
    BY <1>5, OneConnection DEF SendAck
  <2>9. ServerLocal(server'[s]) /\ InStep(server'[s], client'[c])
    BY <1>2, <2>1, <2>3, <2>5, <2>7 DEF ServerLocal, InStep, Between, Within
  <2>10. pending' = pending
    BY DEF SendAck
  <2>11. \A d \in Clients : Attached(s, d) => d = c
    BY <1>5 DEF Attached
  <2>12. \A d \in Clients : Attached(s, d)' => Attached(s, d)
    BY <1>a, <2>6 DEF Attached, ServerRecord
  <2> QED
    BY <1>1, <1>2, <1>3, <1>5, <2>1, <2>8, <2>9, <2>10, <2>11, <2>12, ServerMoves
<1> QED
  BY <1>4, <1>5
(* ... what a client finds when it reads its wire ... *)
LEMMA FrameRead ==
  ASSUME TypeOK, SessionInv, NEW c \in Clients, BeginReceive(c)
  PROVE  /\ Head(client[c].wire).name \in Frames
         /\ \A f \in Frames : HeaderFirst(client[c], f) => f = Head(client[c].wire).name
         /\ \A i \in 1 .. Len(Tail(client[c].wire)) :
              Tail(client[c].wire)[i] = Data(Head(client[c].wire).name)
         /\ Len(Tail(client[c].wire)) = Len(client[c].wire) - 1
         /\ Len(Tail(client[c].wire)) \in 0 .. Chunks
<1>a. client[c].wire \in Seq(Message) /\ client[c].wire # <<>> /\ client[c].state = "await" /\ Chunks \in Nat
  BY Records, StreamAssumption DEF BeginReceive, Reading
<1>1. client[c].wire[1].kind = "frame" /\ Head(client[c].wire) = client[c].wire[1]
  BY <1>a DEF BeginReceive, Reading
<1>2. \A f : FrameMessage(f).name = f
  BY DEF FrameMessage
<1>3. client[c].wire # <<EndMessage>>
  BY <1>1 DEF EndMessage
<1>4. PICK f \in Frames : HeaderFirst(client[c], f) /\ Len(client[c].wire) <= Chunks + 1
  BY <1>a, <1>3 DEF SessionInv, ClientLocal
<1>5. f = Head(client[c].wire).name
  BY <1>1, <1>2, <1>4 DEF HeaderFirst
<1>6. /\ Len(Tail(client[c].wire)) = Len(client[c].wire) - 1
      /\ \A i \in 1 .. Len(Tail(client[c].wire)) :
           i + 1 \in 2 .. Len(client[c].wire) /\ Tail(client[c].wire)[i] = client[c].wire[i + 1]
  BY <1>a
<1>7. Len(client[c].wire) \in Nat \ {0}
  BY <1>a
<1> QED
  BY <1>a, <1>1, <1>2, <1>4, <1>5, <1>6, <1>7 DEF HeaderFirst

LEMMA DataRead ==
  ASSUME TypeOK, NEW c \in Clients, NEW f, OnlyData(client[c], f), client[c].wire # <<>>
  PROVE  /\ \A i \in 1 .. Len(Tail(client[c].wire)) : Tail(client[c].wire)[i] = Data(f)
         /\ Len(Tail(client[c].wire)) = Len(client[c].wire) - 1
<1>a. client[c].wire \in Seq(Message)
  BY Records
<1>1. /\ Len(Tail(client[c].wire)) = Len(client[c].wire) - 1
      /\ \A i \in 1 .. Len(Tail(client[c].wire)) :
           i + 1 \in 1 .. Len(client[c].wire) /\ Tail(client[c].wire)[i] = client[c].wire[i + 1]
  BY <1>a
<1> QED
  BY <1>1 DEF OnlyData

(* ... and the steps of receiving and storing a frame. *)
LEMMA SessionStepReceive ==
  ASSUME TypeOK, SessionInv, NEW c \in Clients,
         BeginReceive(c) \/ ReceiveData(c) \/ StoreFrame(c) \/ ValidateFrame(c)
  PROVE  SessionInv'
<1>a. /\ client \in [Clients -> ClientRecord] /\ client[c].wire \in Seq(Message) /\ Chunks \in Nat
      /\ client[c].file.chunks \in Nat /\ \A s \in Servers : server[s].sent \in Nat
  BY Records, StreamAssumption
<1>1. \A d \in Clients \ {c} : client'[d] = client[d]
  BY <1>a DEF BeginReceive, ReceiveData, StoreFrame, ValidateFrame
<1>2. UNCHANGED <<server, pending>>
  BY DEF BeginReceive, ReceiveData, StoreFrame, ValidateFrame
<1>3. ASSUME ClientLocal(client'[c]), client'[c].host = client[c].host, client'[c].link = client[c].link,
             client[c].state # "await" \/ client[c].wire # <<>>,
             \A s \in Servers : Attached(s, c) /\ InStep(server[s], client[c]) =>
               Between(server[s], client'[c]) /\ Within(server[s], client'[c])
      PROVE  SessionInv'
  <2>1. \A s \in Servers : Attached(s, c) => client'[c].host = client[c].host /\ InStep(server[s], client'[c])
    BY <1>3 DEF SessionInv, AttachedInv, InStep
  <2> QED
    BY <1>1, <1>2, <1>3, <2>1, ClientMoves
<1>4. CASE BeginReceive(c)
  <2> DEFINE f == Head(client[c].wire).name
             n == Len(Tail(client[c].wire))
  <2>1. /\ f \in Frames /\ n \in 0 .. Chunks /\ n = Len(client[c].wire) - 1
        /\ \A g \in Frames : HeaderFirst(client[c], g) => g = f
        /\ \A i \in 1 .. n : Tail(client[c].wire)[i] = Data(f)
    BY <1>4, FrameRead
  <2>2. /\ client'[c].state = "receiving" /\ client'[c].wire = Tail(client[c].wire)
        /\ client'[c].file = [name |-> f, chunks |-> 0]
        /\ client'[c].host = client[c].host /\ client'[c].link = client[c].link
    BY <1>4, <1>a DEF BeginReceive, ClientRecord
  <2>3. client'[c].file.name = f /\ client'[c].file.chunks = 0 /\ Len(client'[c].wire) = n
    BY <2>2
  <2>4. OnlyData(client'[c], f)
    BY <2>1, <2>2 DEF OnlyData
  <2>5. client[c].state = "await" /\ client[c].wire # <<>> /\ Len(client[c].wire) \in Nat
    BY <1>4, <1>a DEF BeginReceive, Reading
  <2> HIDE DEF f, n
  <2>6. ClientLocal(client'[c])
    <3>1. 0 + n <= Chunks
      BY <1>a, <2>1
    <3> QED
      BY <2>2, <2>3, <2>4, <3>1 DEF ClientLocal
  <2>7. ASSUME NEW s \in Servers, InStep(server[s], client[c])
        PROVE  Between(server[s], client'[c]) /\ Within(server[s], client'[c])
    <3>1. server[s].state \in {"stream", "ack"} /\ server[s].ack = NoFrame
      BY <2>5, <2>7 DEF InStep, Between
    <3>2. HeaderFirst(client[c], server[s].cur) /\ Len(client[c].wire) = server[s].sent + 1
      BY <2>5, <2>7, <3>1 DEF InStep, Within
    <3>3. client[c].wire[1].name = server[s].cur /\ f = client[c].wire[1].name
      BY <1>a, <2>5, <3>2 DEF HeaderFirst, FrameMessage, f
    <3>4. 0 + n = server[s].sent
      BY <1>a, <2>1, <2>5, <3>2
    <3> QED
      BY <2>2, <2>3, <2>4, <3>1, <3>3, <3>4 DEF Between, Within
  <2> QED
    BY <1>3, <2>2, <2>5, <2>6, <2>7
<1>5. CASE ReceiveData(c)
  <2> DEFINE f == client[c].file.name
             n == Len(client[c].wire)
             have == client[c].file.chunks
  <2>1. client[c].state = "receiving" /\ client[c].wire # <<>>
    BY <1>5 DEF ReceiveData, Reading
  <2>2. OnlyData(client[c], f) /\ have + n <= Chunks
    BY <2>1 DEF SessionInv, ClientLocal
  <2>3. client[c].file \in [name : Frames \cup {NoFrame}, chunks : 0 .. Chunks]
    BY <1>a DEF ClientRecord
  <2>4. /\ client'[c].state = "receiving" /\ client'[c].wire = Tail(client[c].wire)
        /\ client'[c].file = [client[c].file EXCEPT !.chunks = @ + 1]
        /\ client'[c].host = client[c].host /\ client'[c].link = client[c].link
    BY <1>5, <1>a, <2>1 DEF ReceiveData, ClientRecord
  <2>5. client'[c].file.name = f /\ client'[c].file.chunks = have + 1
    BY <2>3, <2>4
  <2>6. OnlyData(client'[c], f) /\ Len(client'[c].wire) = n - 1
    BY <2>1, <2>2, <2>4, DataRead DEF OnlyData
  <2>7. n \in Nat /\ have \in Nat
    BY <1>a
  <2> HIDE DEF f, n, have
  <2>8. (have + 1) + (n - 1) = have + n
    BY <2>7
  <2>9. ClientLocal(client'[c])
    BY <2>2, <2>4, <2>5, <2>6, <2>8 DEF ClientLocal
  <2>10. ASSUME NEW s \in Servers, InStep(server[s], client[c])
         PROVE  Between(server[s], client'[c]) /\ Within(server[s], client'[c])
    <3>1. server[s].state \in {"stream", "ack"} /\ server[s].ack = NoFrame
      BY <2>1, <2>10 DEF InStep, Between
    <3>2. f = server[s].cur /\ have + n = server[s].sent
      BY <2>1, <2>10, <3>1 DEF InStep, Within, f, n, have
    <3> QED
      BY <2>4, <2>5, <2>6, <2>8, <3>1, <3>2 DEF Between, Within
  <2> QED
    BY <1>3, <2>1, <2>4, <2>9, <2>10
<1>6. CASE StoreFrame(c)
  <2>1. client[c].state = "receiving" /\ client[c].file.chunks = Chunks
    BY <1>6 DEF StoreFrame, Whole
  <2>2. client[c].wire = <<>> /\ Len(client[c].wire) = 0
    <3> DEFINE n == Len(client[c].wire)
    <3>1. n \in Nat /\ Chunks + n <= Chunks
      BY <1>a, <2>1 DEF SessionInv, ClientLocal
    <3>2. n = 0
      <4> HIDE DEF n
      <4> QED
        BY <1>a, <3>1
    <3> QED
      BY <1>a, <3>2
  <2>3. /\ client'[c].state = "stored" /\ client'[c].wire = <<>> /\ client'[c].file = client[c].file
        /\ client'[c].host = client[c].host /\ client'[c].link = client[c].link
    BY <1>6, <1>a, <2>2 DEF StoreFrame, ClientRecord
  <2>4. ClientLocal(client'[c])
    BY <2>3 DEF ClientLocal
  <2>5. ASSUME NEW s \in Servers, InStep(server[s], client[c])
        PROVE  Between(server[s], client'[c]) /\ Within(server[s], client'[c])
    <3>1. server[s].state \in {"stream", "ack"} /\ server[s].ack = NoFrame
      BY <2>1, <2>5 DEF InStep, Between
    <3>2. client[c].file.name = server[s].cur /\ Chunks + 0 = server[s].sent
      BY <2>1, <2>2, <2>5, <3>1 DEF InStep, Within
    <3> QED
      BY <1>a, <2>3, <3>1, <3>2 DEF Between, Within
  <2> QED
    BY <1>3, <2>1, <2>3, <2>4, <2>5
<1>7. CASE ValidateFrame(c)
  <2>1. client[c].state = "stored"
    BY <1>7 DEF ValidateFrame
  <2>2. /\ client'[c].state = "validated" /\ client'[c].wire = client[c].wire /\ client'[c].file = client[c].file
        /\ client'[c].host = client[c].host /\ client'[c].link = client[c].link
    BY <1>7, <1>a DEF ValidateFrame, ClientRecord
  <2>3. ClientLocal(client'[c])
    BY <2>1, <2>2 DEF SessionInv, ClientLocal
  <2>4. ASSUME NEW s \in Servers, InStep(server[s], client[c])
        PROVE  Between(server[s], client'[c]) /\ Within(server[s], client'[c])
    BY <2>1, <2>2, <2>4 DEF InStep, Between, Within
  <2> QED
    BY <1>3, <2>1, <2>2, <2>3, <2>4
<1> QED
  BY <1>4, <1>5, <1>6, <1>7
(* A client that ends its connection, or loses it. *)
LEMMA SessionStepLeave ==
  ASSUME TypeOK, SessionInv, NEW c \in Clients,
         ReadEnd(c) \/ FailDownload(c) \/ StartClient(c) \/ ClientFault(c)
  PROVE  SessionInv'
<1>a. client \in [Clients -> ClientRecord] /\ client[c].wire \in Seq(Message)
  BY Records
<1>1. \A d \in Clients \ {c} : client'[d] = client[d]
  BY <1>a DEF ReadEnd, FailDownload, StartClient, ClientFault, ReceiveInterrupted, CrashClient,
    CloseConnection, LoseConnection
<1>2. CASE ReadEnd(c)
  <2>1. ClientLocal(client'[c])
    BY <1>2, <1>a DEF ReadEnd, Finished, ClientLocal
  <2> QED
    BY <1>1, <1>2, <2>1, ClientLeaves DEF ReadEnd
<1>3. ASSUME NEW state, state \notin {"await", "receiving"}, CloseConnection(c, state) PROVE SessionInv'
  <2>1. ClientLocal(client'[c])
    BY <1>3, <1>a DEF CloseConnection, Disconnected, ClientLocal
  <2> QED
    BY <1>1, <1>3, <2>1, ClientLeaves DEF CloseConnection
<1>4. CASE FailDownload(c) \/ ReceiveInterrupted(c) \/ CrashClient(c)
  BY <1>3, <1>4 DEF FailDownload, ReceiveInterrupted, CrashClient, AfterFailure
<1>5. CASE StartClient(c)
  <2>1. client[c].state \in {"off", "done"} /\ UNCHANGED <<server, pending>>
    BY <1>5 DEF StartClient
  <2>2. \A s \in Servers : ~Attached(s, c)
    <3>1. \A s \in Servers : ~InStep(server[s], client[c])
      BY <2>1 DEF InStep, Between, Within
    <3> QED
      BY <3>1 DEF SessionInv, AttachedInv
  <2>3. ClientLocal(client'[c])
    BY <1>5, <1>a DEF StartClient, Disconnected, ClientLocal
  <2> QED
    BY <1>1, <2>1, <2>2, <2>3, ClientMoves
<1>6. CASE LoseConnection(c)
  <2>1. PICK how \in {"closed", "dead"}, n \in 0 .. Len(client[c].wire) :
          client' = [client EXCEPT ![c].link = how, ![c].wire = SubSeq(@, 1, n)] /\ PeerLeaves(c, how)
    BY <1>6 DEF LoseConnection
  <2>2. /\ client'[c].wire = SubSeq(client[c].wire, 1, n) /\ client'[c].state = client[c].state
        /\ client'[c].file = client[c].file
    BY <1>a, <2>1 DEF ClientRecord
  <2>3. /\ Len(client'[c].wire) = n /\ \A i \in 1 .. n : client'[c].wire[i] = client[c].wire[i]
        /\ n \in Nat /\ n <= Len(client[c].wire) /\ Len(client[c].wire) \in Nat
        /\ n = 0 => client'[c].wire = <<>>
        /\ n # 0 => client'[c].wire # <<>>
    BY <1>a, <2>1, <2>2
  <2>4. ClientLocal(client[c])
    BY DEF SessionInv
  <2>5. CASE client[c].state \notin {"await", "receiving"}
    <3>1. client[c].wire = <<>>
      BY <2>4, <2>5 DEF ClientLocal
    <3>2. client'[c].wire = <<>>
      BY <2>3, <3>1
    <3>3. ClientLocal(client'[c])
      BY <2>2, <2>5, <3>2 DEF ClientLocal
    <3> QED
      BY <1>1, <2>1, <3>3, ClientLeaves
  <2>6. CASE client[c].state = "receiving"
    <3>1. OnlyData(client'[c], client'[c].file.name)
      BY <2>2, <2>3, <2>4, <2>6 DEF ClientLocal, OnlyData
    <3>2. client'[c].file.chunks + Len(client'[c].wire) <= Chunks
      <4> DEFINE have == client[c].file.chunks
                 len == Len(client[c].wire)
      <4>1. have \in Nat /\ len \in Nat /\ n \in Nat /\ n <= len /\ have + len <= Chunks /\ Chunks \in Nat
        BY <2>3, <2>4, <2>6, Records, StreamAssumption DEF ClientLocal
      <4>2. have + n <= Chunks
        <5> HIDE DEF have, len
        <5> QED
          BY <4>1
      <4>3. client'[c].file.chunks = have /\ Len(client'[c].wire) = n
        BY <2>2, <2>3
      <4> HIDE DEF have, len
      <4> QED
        BY <4>2, <4>3
    <3>3. ClientLocal(client'[c])
      BY <2>2, <2>6, <3>1, <3>2 DEF ClientLocal
    <3> QED
      BY <1>1, <2>1, <3>3, ClientLeaves
  <2>7. CASE client[c].state = "await"
    <3>1. CASE n = 0
      BY <1>1, <2>1, <2>2, <2>3, <2>7, <3>1, ClientLeaves DEF ClientLocal
    <3>2. CASE n # 0 /\ client[c].wire = <<EndMessage>>
      <4>1. client'[c].wire = <<EndMessage>>
        <5>1. n = 1 /\ client'[c].wire[1] = EndMessage
          BY <2>3, <3>2
        <5>2. client'[c].wire \in Seq(Message)
          BY <1>a, <2>1, <2>2
        <5>3. \A w \in Seq(Message) : Len(w) = 1 => w = <<w[1]>>
          OBVIOUS
        <5> QED
          BY <2>3, <5>1, <5>2, <5>3
      <4> QED
        BY <1>1, <2>1, <2>2, <2>7, <3>2, <4>1, ClientLeaves DEF ClientLocal
    <3>3. CASE n # 0 /\ client[c].wire # <<EndMessage>>
      <4>1. PICK f \in Frames : HeaderFirst(client[c], f) /\ Len(client[c].wire) <= Chunks + 1
        BY <2>3, <2>4, <2>7, <3>3 DEF ClientLocal
      <4>2. HeaderFirst(client'[c], f)
        BY <2>3, <3>3, <4>1 DEF HeaderFirst
      <4>3. Len(client'[c].wire) <= Chunks + 1
        BY <2>3, <4>1, StreamAssumption
      <4>4. ClientLocal(client'[c])
        BY <2>2, <2>7, <4>2, <4>3 DEF ClientLocal
      <4> QED
        BY <1>1, <2>1, <4>4, ClientLeaves
    <3> QED
      BY <3>1, <3>2, <3>3
  <2> QED
    BY <2>5, <2>6, <2>7
<1> QED
  BY <1>2, <1>4, <1>5, <1>6 DEF ClientFault

(* Every step preserves the invariant. *)
LEMMA SessionStep ==
  ASSUME IInv, SessionInv, Next
  PROVE  SessionInv'
<1>0. TypeOK
  BY DEF IInv
<1>1. ASSUME UNCHANGED <<server, client, pending>> PROVE SessionInv'
  BY <1>1 DEF SessionInv, AttachedInv, PendingInv, Attached
<1>2. ASSUME NEW r \in Runs, SimStep(r) PROVE SessionInv'
  BY <1>1, <1>2 DEF SimStep, StartRun, PublishFrame, EndRun
<1>3. ASSUME NEW s \in Servers, ServerStep(s) \/ StartServer(s) \/ ServerFault(s) PROVE SessionInv'
  BY <1>0, <1>3, SessionStepServing, SessionStepQueue DEF ServerStep, ServerFault, AbandonClient, ServingInterrupted
<1>4. ASSUME NEW c \in Clients, ClientStep(c) \/ StartClient(c) \/ ClientFault(c) PROVE SessionInv'
  BY <1>0, <1>4, SessionStepConnect, SessionStepAck, SessionStepReceive, SessionStepLeave DEF ClientStep
<1> QED
  BY <1>2, <1>3, <1>4 DEF Next
----------------------------------------------------------------------------
(* The spool never gets back a published frame, so a backlog only shrinks. *)
LEMMA BacklogShrinks ==
  ASSUME IInv, Next, NEW b \in SUBSET Published
  PROVE  b \subseteq Published' /\ b \cap spool' \subseteq spool
<1>1. b \subseteq Published'
  BY PublishedGrows DEF IInv
<1>2. ASSUME NEW r \in Runs, PublishFrame(r) PROVE b \cap spool' \subseteq spool
  <2>1. <<r, produced[r]>> \notin Published
    BY <1>2 DEF Published, IInv, TypeOK
  <2> QED
    BY <1>2, <2>1 DEF PublishFrame
<1>3. ASSUME NEW s \in Servers, RemoveFrame(s) PROVE b \cap spool' \subseteq spool
  BY <1>3 DEF RemoveFrame
<1> QED
  BY <1>1, <1>2, <1>3, SpoolChange

(* The steps of servers keep a backlog within the listing and the hand of its server ... *)
LEMMA BacklogStepServer ==
  ASSUME IInv, SessionInv, BacklogInv, Next, NEW s \in Servers, ServerStep(s) \/ StartServer(s) \/ ServerFault(s)
  PROVE  BacklogInv'
<1>0. TypeOK
  BY DEF IInv
<1>a. /\ server \in [Servers -> ServerRecord] /\ client \in [Clients -> ClientRecord]
      /\ \A c \in Clients : client[c].wire \in Seq(Message)
      /\ NoClient \notin Clients /\ NoFrame \notin spool
  BY <1>0, Records, StreamAssumption DEF TypeOK
<1>b. /\ \A c \in Clients : client[c].backlog \subseteq Published'
      /\ \A c \in Clients : client[c].backlog \cap spool' \subseteq client[c].backlog \cap spool
  BY BacklogShrinks DEF BacklogInv
<1>1. ASSUME \A c \in Clients : /\ client'[c].backlog = client[c].backlog /\ client'[c].state = client[c].state
                               /\ \/ client'[c].wire = <<EndMessage>> => client[c].wire = <<EndMessage>>
                                  \/ client[c].backlog \cap spool = {},
             \A q \in Servers \ {s} : server'[q] = server[q],
             \A c \in Clients : Attached(s, c)' =>
               client[c].backlog \cap spool' \subseteq server'[s].todo \cup {server'[s].cur}
      PROVE  BacklogInv'
  <2>1. ASSUME NEW c \in Clients
        PROVE  /\ client'[c].backlog \subseteq Published'
               /\ c \in FollowClients => client'[c].backlog = {}
               /\ client'[c].state = "done" \/ client'[c].wire = <<EndMessage>> => client'[c].backlog \cap spool' = {}
    BY <1>1, <1>b DEF BacklogInv
  <2>2. ASSUME NEW q \in Servers, NEW c \in Clients, Attached(q, c)'
        PROVE  client'[c].backlog \cap spool' \subseteq server'[q].todo \cup {server'[q].cur}
    <3>1. CASE q = s
      BY <1>1, <2>2, <3>1
    <3>2. CASE q # s
      <4>1. server'[q] = server[q] /\ Attached(q, c)
        BY <1>1, <2>2, <3>2 DEF Attached
      <4> QED
        BY <1>1, <1>b, <4>1 DEF BacklogInv
    <3> QED
      BY <3>1, <3>2
  <2> QED
    BY <2>1, <2>2 DEF BacklogInv
<1>2. ASSUME NEW m, m # EndMessage, client' = Sent(s, m), NEW c \in Clients
      PROVE  /\ client'[c].backlog = client[c].backlog /\ client'[c].state = client[c].state
             /\ client'[c].wire = <<EndMessage>> => client[c].wire = <<EndMessage>>
  <2>1. CASE client'[c] = client[c]
    BY <2>1
  <2>2. CASE client'[c] = [client[c] EXCEPT !.wire = Append(@, m)]
    <3>1. /\ client'[c].backlog = client[c].backlog /\ client'[c].state = client[c].state
          /\ client'[c].wire = Append(client[c].wire, m)
      BY <1>a, <2>2 DEF ClientRecord
    <3>2. client'[c].wire[Len(client[c].wire) + 1] = m /\ Len(client'[c].wire) = Len(client[c].wire) + 1
      BY <1>a, <3>1
    <3>3. client'[c].wire # <<EndMessage>>
      <4> SUFFICES ASSUME client'[c].wire = <<EndMessage>> PROVE FALSE
        OBVIOUS
      <4>1. Len(client'[c].wire) = 1 /\ client'[c].wire[1] = EndMessage
        OBVIOUS
      <4>2. Len(client[c].wire) \in Nat
        BY <1>a
      <4>3. Len(client[c].wire) + 1 = 1
        BY <3>2, <4>1
      <4> QED
        BY <1>2, <3>2, <4>1, <4>3
    <3> QED
      BY <3>1, <3>3
  <2> QED
    BY <1>2, <2>1, <2>2 DEF Sent
<1>3. CASE Accept(s) \/ Rescan(s)
  <2>1. client' = client /\ spool' = spool /\ server'[s].todo = spool /\ \A q \in Servers \ {s} : server'[q] = server[q]
    BY <1>3, <1>a DEF Accept, Rescan, Serving, CompletedFrames, ServerRecord
  <2> QED
    BY <1>1, <2>1
<1>4. CASE AcceptAbandoned(s) \/ ReadAck(s)
  <2>1. client' = client /\ spool' = spool /\ \A q \in Servers \ {s} : server'[q] = server[q]
    BY <1>4, <1>a DEF AcceptAbandoned, ReadAck
  <2>2. /\ server'[s].todo = server[s].todo /\ server'[s].cur = server[s].cur
        /\ server'[s].peer = server[s].peer /\ server'[s].line = server[s].line
    BY <1>4, <1>a DEF AcceptAbandoned, ReadAck, ServerRecord
  <2>3. \A c \in Clients : Attached(s, c)' => Attached(s, c)
    BY <2>2 DEF Attached
  <2> QED
    BY <1>1, <2>1, <2>2, <2>3 DEF BacklogInv
<1>11. CASE EndListing(s)
  <2>1. PICK found, state :
          server' = [server EXCEPT ![s].todo = @ \cup found, ![s].state = state]
    BY <1>11 DEF EndListing
  <2>2. client' = client /\ spool' = spool /\ \A q \in Servers \ {s} : server'[q] = server[q]
    BY <1>11, <2>1, <1>a DEF EndListing
  <2>3. /\ server'[s].todo = server[s].todo \cup found /\ server'[s].cur = server[s].cur
        /\ server'[s].peer = server[s].peer /\ server'[s].line = server[s].line
    BY <2>1, <1>a DEF ServerRecord
  <2>4. \A c \in Clients : Attached(s, c)' => Attached(s, c)
    BY <2>3 DEF Attached
  <2>5. \A b : b \cap spool \subseteq server[s].todo \cup {server[s].cur} =>
               b \cap spool \subseteq server'[s].todo \cup {server'[s].cur}
    BY <2>3
  <2> QED
    BY <1>1, <2>2, <2>4, <2>5 DEF BacklogInv
<1>12. CASE StatFails(s)
  <2>1. PICK f :
          /\ server' = [server EXCEPT ![s].todo = @ \ {f}]
          /\ client' = [c \in Clients |->
               IF Attached(s, c) THEN [client[c] EXCEPT !.backlog = @ \ {f}] ELSE client[c]]
    BY <1>12 DEF StatFails
  <2>2. \A c \in Clients :
          /\ client'[c].backlog = IF Attached(s, c) THEN client[c].backlog \ {f} ELSE client[c].backlog
          /\ client'[c].state = client[c].state /\ client'[c].wire = client[c].wire
    BY <1>a, <2>1 DEF ClientRecord
  <2>3. /\ server'[s].todo = server[s].todo \ {f} /\ server'[s].cur = server[s].cur
        /\ server'[s].peer = server[s].peer /\ server'[s].line = server[s].line
        /\ \A q \in Servers \ {s} : server'[q] = server[q]
    BY <1>a, <2>1 DEF ServerRecord
  <2>4. spool' = spool
    BY <1>12 DEF StatFails
  <2>5. ASSUME NEW c \in Clients
        PROVE  /\ client'[c].backlog \subseteq Published'
               /\ c \in FollowClients => client'[c].backlog = {}
               /\ client'[c].state = "done" \/ client'[c].wire = <<EndMessage>> => client'[c].backlog \cap spool' = {}
    <3>1. client'[c].backlog \subseteq client[c].backlog
      BY <2>2
    <3>2. /\ c \in FollowClients => client[c].backlog = {}
          /\ client[c].state = "done" \/ client[c].wire = <<EndMessage>> => client[c].backlog \cap spool = {}
      BY DEF BacklogInv
    <3> QED
      BY <1>b, <2>2, <2>4, <3>1, <3>2
  <2>6. ASSUME NEW q \in Servers, NEW c \in Clients, Attached(q, c)'
        PROVE  client'[c].backlog \cap spool' \subseteq server'[q].todo \cup {server'[q].cur}
    <3>1. CASE q = s
      <4>1. Attached(s, c)
        BY <2>3, <2>6, <3>1 DEF Attached
      <4>2. client[c].backlog \cap spool \subseteq server[s].todo \cup {server[s].cur}
        BY <4>1 DEF BacklogInv
      <4> QED
        BY <2>2, <2>3, <2>4, <3>1, <4>1, <4>2
    <3>2. CASE q # s
      <4>1. server'[q] = server[q] /\ Attached(q, c)
        BY <2>3, <2>6, <3>2 DEF Attached
      <4>2. client'[c].backlog \subseteq client[c].backlog
        BY <2>2
      <4>3. client[c].backlog \cap spool \subseteq server[q].todo \cup {server[q].cur}
        BY <4>1 DEF BacklogInv
      <4> QED
        BY <2>4, <4>1, <4>2, <4>3
    <3> QED
      BY <3>1, <3>2
  <2> QED
    BY <2>5, <2>6 DEF BacklogInv
<1>5. CASE ChooseFrame(s)
  <2>1. PICK f \in server[s].todo :
          server' = IF f \in spool
                    THEN [server EXCEPT ![s].todo = @ \ {f}, ![s].cur = f, ![s].state = "offer"]
                    ELSE [server EXCEPT ![s].todo = @ \ {f}]
    BY <1>5 DEF ChooseFrame
  <2>2. server[s].cur = NoFrame /\ spool' = spool /\ client' = client
    BY <1>5 DEF ChooseFrame, IInv, ServingInv
  <2>3. \A q \in Servers \ {s} : server'[q] = server[q]
    BY <2>1, <1>a
  <2>4. /\ server'[s].todo = server[s].todo \ {f} /\ (f \in spool => server'[s].cur = f)
        /\ server'[s].peer = server[s].peer /\ server'[s].line = server[s].line
    BY <2>1, <1>a DEF ServerRecord
  <2>5. \A c \in Clients : Attached(s, c)' => Attached(s, c)
    BY <2>4 DEF Attached
  <2>6. \A b : b \cap spool \subseteq server[s].todo \cup {server[s].cur} =>
               b \cap spool \subseteq server'[s].todo \cup {server'[s].cur}
    BY <1>a, <2>2, <2>4
  <2> QED
    BY <1>1, <2>2, <2>3, <2>5, <2>6 DEF BacklogInv
<1>6. CASE OfferFrame(s) \/ SendData(s)
  <2>1. \E m : m # EndMessage /\ client' = Sent(s, m)
    BY <1>6 DEF OfferFrame, SendData, FrameMessage, Data, EndMessage
  <2>2. spool' = spool /\ \A q \in Servers \ {s} : server'[q] = server[q]
    BY <1>6, <1>a DEF OfferFrame, SendData
  <2>3. /\ server'[s].todo = server[s].todo /\ server'[s].cur = server[s].cur
        /\ server'[s].peer = server[s].peer /\ server'[s].line = server[s].line
    BY <1>6, <1>a DEF OfferFrame, SendData, ServerRecord
  <2>4. \A c \in Clients : Attached(s, c)' => Attached(s, c)
    BY <2>3 DEF Attached
  <2> QED
    BY <1>1, <1>2, <2>1, <2>2, <2>3, <2>4 DEF BacklogInv
<1>7. CASE RemoveFrame(s)
  <2>1. client' = client /\ spool' = spool \ {server[s].cur} /\ \A q \in Servers \ {s} : server'[q] = server[q]
    BY <1>7, <1>a DEF RemoveFrame
  <2>2. /\ server'[s].todo = server[s].todo
        /\ server'[s].peer = server[s].peer /\ server'[s].line = server[s].line
    BY <1>7, <1>a DEF RemoveFrame, ServerRecord
  <2>3. \A c \in Clients : Attached(s, c)' => Attached(s, c)
    BY <2>2 DEF Attached
  <2> QED
    BY <1>1, <2>1, <2>2, <2>3 DEF BacklogInv
<1>8. ASSUME NEW state, server' = [server EXCEPT ![s] = Unoccupied(state)]
      PROVE  /\ \A q \in Servers \ {s} : server'[q] = server[q]
             /\ \A c \in Clients : ~Attached(s, c)'
  BY <1>8, <1>a DEF Unoccupied, Attached
<1>9. CASE EndBacklog(s)
  <2>1. \A c \in Clients : client'[c] = IF Attached(s, c)
          THEN [client[c] EXCEPT !.wire = Append(@, EndMessage), !.link = "closed"] ELSE client[c]
    BY <1>9 DEF EndBacklog
  <2>2. \A c \in Clients : client'[c].backlog = client[c].backlog /\ client'[c].state = client[c].state
    BY <1>a, <2>1 DEF ClientRecord
  <2>3. server[s].todo = {} /\ server[s].cur = NoFrame
    BY <1>9 DEF EndBacklog, IInv, ServingInv
  <2>4. \A c \in Clients : Attached(s, c) => client[c].backlog \cap spool = {}
    BY <1>a, <2>3 DEF BacklogInv
  <2> QED
    BY <1>1, <1>8, <1>9, <2>1, <2>2, <2>4 DEF EndBacklog
<1>10. CASE DropClient(s) \/ CrashServer(s) \/ StartServer(s)
  <2>1. \A c \in Clients : client'[c] = client[c] \/ client'[c] = [client[c] EXCEPT !.link = "closed"]
    BY <1>10 DEF DropClient, ClosedBy, CrashServer, StartServer
  <2>2. \A c \in Clients : /\ client'[c].backlog = client[c].backlog /\ client'[c].state = client[c].state
                          /\ client'[c].wire = client[c].wire
    BY <1>a, <2>1 DEF ClientRecord
  <2>3. \E state : server' = [server EXCEPT ![s] = Unoccupied(state)]
    BY <1>10 DEF DropClient, CrashServer, StartServer
  <2> QED
    BY <1>1, <1>8, <2>2, <2>3
<1> QED
  BY <1>3, <1>4, <1>5, <1>6, <1>7, <1>9, <1>10, <1>11, <1>12 DEF ServerStep, ServerFault, AbandonClient, ServingInterrupted
(* ... those of clients take a backlog when they connect, and drop it or finish ... *)
LEMMA BacklogStepClient ==
  ASSUME IInv, SessionInv, BacklogInv, NEW c \in Clients, ClientStep(c) \/ StartClient(c) \/ ClientFault(c)
  PROVE  BacklogInv'
<1>0. TypeOK /\ spool \subseteq Published
  BY DEF IInv
<1>a. /\ client \in [Clients -> ClientRecord] /\ client[c].wire \in Seq(Message)
      /\ server \in [Servers -> ServerRecord]
  BY <1>0, Records
<1>b. UNCHANGED <<spool, produced>>
  BY DEF ClientStep, StartClient, ClientFault, Connect, BeginReceive, ReceiveData, StoreFrame, ValidateFrame,
    SendAck, ReadEnd, FailDownload, CloseConnection, ReceiveInterrupted, CrashClient, LoseConnection
<1>c. Published' = Published
  BY <1>b DEF Published
<1>d. \A d \in Clients \ {c} : client'[d] = client[d]
  BY <1>a DEF ClientStep, StartClient, ClientFault, Connect, BeginReceive, ReceiveData, StoreFrame,
    ValidateFrame, SendAck, ReadEnd, FailDownload, CloseConnection, ReceiveInterrupted, CrashClient, LoseConnection
<1>e. \A s \in Servers : server'[s].todo = server[s].todo /\ server'[s].cur = server[s].cur
  BY <1>0, ServersUntouched
<1>f. \A s \in Servers, d \in Clients : Attached(s, d)' => Attached(s, d)
  <2>1. CASE server' = server
    BY <2>1 DEF Attached
  <2>2. CASE SendAck(c)
    BY <1>a, <2>2 DEF SendAck, Attached, ServerRecord
  <2>3. ASSUME NEW line \in {"closed", "dead"}, PeerLeaves(c, line)
        PROVE  \A s \in Servers, d \in Clients : Attached(s, d)' => Attached(s, d)
    BY <1>a, <2>3 DEF PeerLeaves, Attached, ServerRecord
  <2> QED
    BY <2>1, <2>2, <2>3 DEF ClientStep, StartClient, ClientFault, Connect, BeginReceive, ReceiveData, StoreFrame,
      ValidateFrame, ReadEnd, FailDownload, CloseConnection, ReceiveInterrupted, CrashClient, LoseConnection
<1>1. ASSUME client'[c].backlog \subseteq Published,
             c \in FollowClients => client'[c].backlog = {},
             client'[c].state = "done" \/ client'[c].wire = <<EndMessage>> => client'[c].backlog \cap spool = {},
             \/ client'[c].backlog = client[c].backlog
             \/ client'[c].backlog = {}
             \/ \A s \in Servers : ~Attached(s, c)
      PROVE  BacklogInv'
  <2>1. ASSUME NEW d \in Clients
        PROVE  /\ client'[d].backlog \subseteq Published'
               /\ d \in FollowClients => client'[d].backlog = {}
               /\ client'[d].state = "done" \/ client'[d].wire = <<EndMessage>> => client'[d].backlog \cap spool' = {}
    BY <1>1, <1>b, <1>c, <1>d DEF BacklogInv
  <2>2. ASSUME NEW s \in Servers, NEW d \in Clients, Attached(s, d)'
        PROVE  client'[d].backlog \cap spool' \subseteq server'[s].todo \cup {server'[s].cur}
    BY <1>1, <1>b, <1>d, <1>e, <1>f, <2>2 DEF BacklogInv
  <2> QED
    BY <2>1, <2>2 DEF BacklogInv
<1>2. ASSUME NEW s \in Servers, Connect(c, s) PROVE BacklogInv'
  <2>1. client'[c] = Connected(s, IF c \in FollowClients THEN {} ELSE spool)
    BY <1>2, <1>a DEF Connect
  <2>2. \A q \in Servers : ~Attached(q, c)
    <3>1. \A q \in Servers : ~InStep(server[q], client[c])
      BY <1>2 DEF Connect, InStep, Between, Within
    <3> QED
      BY <3>1 DEF SessionInv, AttachedInv
  <2>3. /\ client'[c].backlog = (IF c \in FollowClients THEN {} ELSE spool)
        /\ client'[c].state = "await" /\ client'[c].wire = <<>>
    BY <2>1 DEF Connected
  <2> QED
    BY <1>0, <1>1, <2>2, <2>3
<1>3. ASSUME NEW state, state # "done", client'[c] = Disconnected(state) PROVE BacklogInv'
  BY <1>1, <1>3 DEF Disconnected
<1>4. CASE FailDownload(c) \/ ReceiveInterrupted(c) \/ CrashClient(c) \/ StartClient(c)
  BY <1>3, <1>4, <1>a DEF FailDownload, ReceiveInterrupted, CrashClient, StartClient, CloseConnection, AfterFailure
<1>5. CASE ReadEnd(c)
  <2>1. client'[c] = Finished(client[c].backlog)
    BY <1>5, <1>a DEF ReadEnd
  <2>2. client'[c].backlog = client[c].backlog /\ client'[c].wire = <<>>
    BY <2>1 DEF Finished
  <2>3. client[c].state = "await" /\ client[c].wire # <<>> /\ client[c].wire[1].kind = "end"
    BY <1>5, <1>a DEF ReadEnd, Reading
  <2>4. client[c].wire = <<EndMessage>>
    <3>1. \A f : FrameMessage(f).kind # "end"
      BY DEF FrameMessage
    <3> QED
      BY <2>3, <3>1 DEF SessionInv, ClientLocal, HeaderFirst
  <2> QED
    BY <1>1, <2>2, <2>4 DEF BacklogInv
<1>6. ASSUME client'[c].backlog = client[c].backlog, client'[c].state # "done",
             client'[c].wire # <<EndMessage>> \/ client[c].wire = <<EndMessage>>
      PROVE  BacklogInv'
  BY <1>1, <1>6 DEF BacklogInv
<1>7. CASE BeginReceive(c) \/ ReceiveData(c)
  <2>1. /\ client'[c].backlog = client[c].backlog /\ client'[c].state = "receiving"
        /\ client'[c].wire = Tail(client[c].wire)
    <3>1. CASE BeginReceive(c)
      BY <3>1, <1>a DEF BeginReceive, ClientRecord
    <3>2. CASE ReceiveData(c)
      BY <3>2, <1>a DEF ReceiveData, Reading, ClientRecord
    <3> QED
      BY <1>7, <3>1, <3>2
  <2>2. \A i \in 1 .. Len(Tail(client[c].wire)) : Tail(client[c].wire)[i] # EndMessage
    <3>1. \A f : Data(f) # EndMessage
      BY DEF Data, EndMessage
    <3>2. CASE BeginReceive(c)
      BY <1>0, <3>1, <3>2, FrameRead
    <3>3. CASE ReceiveData(c)
      <4>1. client[c].wire # <<>> /\ OnlyData(client[c], client[c].file.name)
        BY <3>3 DEF ReceiveData, Reading, SessionInv, ClientLocal
      <4> QED
        BY <1>0, <3>1, <4>1, DataRead
    <3> QED
      BY <1>7, <3>2, <3>3
  <2>3. client'[c].wire # <<EndMessage>>
    <3>1. client'[c].wire = <<EndMessage>> => Len(client'[c].wire) = 1 /\ client'[c].wire[1] = EndMessage
      OBVIOUS
    <3>2. \A i \in 1 .. Len(client'[c].wire) : client'[c].wire[i] # EndMessage
      BY <2>1, <2>2
    <3>3. 1 \in 1 .. 1
      OBVIOUS
    <3> QED
      BY <3>1, <3>2, <3>3
  <2> QED
    BY <1>6, <2>1, <2>3
<1>8. CASE StoreFrame(c) \/ ValidateFrame(c) \/ SendAck(c)
  BY <1>6, <1>8, <1>a DEF StoreFrame, ValidateFrame, SendAck, ClientRecord
<1>9. CASE LoseConnection(c)
  <2>1. PICK how \in {"closed", "dead"}, n \in 0 .. Len(client[c].wire) :
          client' = [client EXCEPT ![c].link = how, ![c].wire = SubSeq(@, 1, n)]
    BY <1>9 DEF LoseConnection
  <2>2. /\ client'[c].wire = SubSeq(client[c].wire, 1, n) /\ client'[c].state = client[c].state
        /\ client'[c].backlog = client[c].backlog
    BY <1>a, <2>1 DEF ClientRecord
  <2>3. client'[c].wire = <<EndMessage>> => client[c].wire = <<EndMessage>>
    <3>1. client'[c].wire = <<EndMessage>> => Len(client'[c].wire) = 1 /\ client'[c].wire[1] = EndMessage
      OBVIOUS
    <3>2. Len(client'[c].wire) = n /\ \A i \in 1 .. n : client'[c].wire[i] = client[c].wire[i]
      BY <1>a, <2>1, <2>2
    <3>3. Len(client'[c].wire) = 1 /\ client'[c].wire[1] = EndMessage =>
            1 \in 1 .. Len(client[c].wire) /\ client[c].wire[1] = EndMessage /\ client[c].wire # <<>>
      BY <1>a, <2>1, <3>2
    <3>4. \A f : EndMessage # FrameMessage(f) /\ EndMessage # Data(f)
      BY DEF EndMessage, FrameMessage, Data
    <3> QED
      BY <3>1, <3>3, <3>4 DEF SessionInv, ClientLocal, HeaderFirst, OnlyData
  <2> QED
    BY <1>1, <2>2, <2>3 DEF BacklogInv
<1> QED
  BY <1>2, <1>4, <1>5, <1>7, <1>8, <1>9 DEF ClientStep, ClientFault

(* ... and a run publishes only frames no backlog holds. *)
LEMMA BacklogStep ==
  ASSUME IInv, SessionInv, BacklogInv, Next
  PROVE  BacklogInv'
<1>1. ASSUME NEW r \in Runs, SimStep(r) PROVE BacklogInv'
  <2>1. UNCHANGED <<server, client>>
    BY <1>1 DEF SimStep, StartRun, PublishFrame, EndRun
  <2>2. /\ \A c \in Clients : client[c].backlog \subseteq Published'
        /\ \A c \in Clients : client[c].backlog \cap spool' \subseteq client[c].backlog \cap spool
    BY BacklogShrinks DEF BacklogInv
  <2>3. \A s \in Servers, c \in Clients : Attached(s, c)' => Attached(s, c)
    BY <2>1 DEF Attached
  <2> QED
    BY <2>1, <2>2, <2>3 DEF BacklogInv
<1> QED
  BY <1>1, BacklogStepServer, BacklogStepClient DEF Next

----------------------------------------------------------------------------
(* In every reachable state, however many servers, clients, frames, buffers and faults *)
(* there are, the two ends of every connection are in step. *)
THEOREM SessionInvariant == Spec => [](SessionInv /\ BacklogInv)
<1>1. Init => SessionInv /\ BacklogInv
  BY SessionInit
<1>2. IInv /\ SessionInv /\ BacklogInv /\ [Next]_vars => (SessionInv /\ BacklogInv)'
  <2> SUFFICES ASSUME IInv, SessionInv, BacklogInv, [Next]_vars PROVE SessionInv' /\ BacklogInv'
    OBVIOUS
  <2>1. CASE Next
    BY <2>1, SessionStep, BacklogStep
  <2>2. CASE UNCHANGED vars
    BY <2>2 DEF vars, SessionInv, BacklogInv, AttachedInv, PendingInv, Attached, Published
  <2> QED
    BY <2>1, <2>2
<1> QED
  BY <1>1, <1>2, InductiveInvariant, PTL DEF Spec

(* A client that waits for a header finds a header or the end message, and inside a *)
(* frame only that frame's content, after any number of crashes and reconnections. *)
THEOREM Framing == Spec => []FramingInSync
<1>1. IInv /\ SessionInv => FramingInSync
  <2> SUFFICES ASSUME IInv, SessionInv, NEW c \in Clients, client[c].wire # <<>>
               PROVE  /\ client[c].state = "await" => Head(client[c].wire).kind \in {"frame", "end"}
                      /\ client[c].state = "receiving" => Head(client[c].wire) = Data(client[c].file.name)
                      /\ client[c].state \in {"await", "receiving"}
    BY DEF FramingInSync
  <2>1. client[c].wire \in Seq(Message)
    BY Records DEF IInv
  <2>2. Head(client[c].wire) = client[c].wire[1] /\ 1 \in 1 .. Len(client[c].wire)
    BY <2>1
  <2>3. CASE client[c].state = "await"
    <3>1. EndMessage.kind = "end" /\ \A f : FrameMessage(f).kind = "frame"
      BY DEF FrameMessage, EndMessage
    <3>2. client[c].wire[1].kind \in {"frame", "end"}
      BY <2>3, <3>1 DEF SessionInv, ClientLocal, HeaderFirst
    <3> QED
      BY <2>2, <2>3, <3>2
  <2>4. CASE client[c].state # "await"
    BY <2>2, <2>4 DEF SessionInv, ClientLocal, OnlyData
  <2> QED
    BY <2>3, <2>4
<1> QED
  BY <1>1, InductiveInvariant, SessionInvariant, PTL

(* receiveAck never takes an acknowledgement for another frame's: it is for the frame *)
(* the server has just sent, however late it comes. *)
THEOREM AckMatches == Spec => []AckMatchesFrame
<1>1. SessionInv => AckMatchesFrame
  BY DEF SessionInv, ServerLocal, AckMatchesFrame
<1> QED
  BY <1>1, SessionInvariant, PTL

(* stream_client --once drains the backlog: a session that ends regularly leaves nothing *)
(* of it in the spool, and what is gone from the spool is delivered. *)
THEOREM OnceDrains == Spec => []OnceDrainsBacklog
<1>1. IInv /\ BacklogInv => OnceDrainsBacklog
  BY DEF IInv, NoFrameLost, BacklogInv, OnceDrainsBacklog
<1> QED
  BY <1>1, InductiveInvariant, SessionInvariant, PTL

===========================================================================
