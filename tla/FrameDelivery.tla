--------------------------- MODULE FrameDelivery ---------------------------
(***************************************************************************)
(* What the streaming path promises, with no server, socket or client in   *)
(* it: every run appends frames to a durable queue; a frame reaches the    *)
(* receiving side from the queue, and leaves the queue only when the       *)
(* receiving side holds it.  Delivery is at-least-once: Deliver may happen *)
(* again for a frame already delivered.  It promises no order (that is     *)
(* FrameStream!InOrder).                                                   *)
(*                                                                         *)
(* FrameStream implements this specification (see FrameStream!Delivery).   *)
(***************************************************************************)
EXTENDS Integers

CONSTANTS Runs,       \* simulator runs, numbered in the order of their session ids
          MaxFrames   \* bound: frames one run publishes

VARIABLES produced,   \* run -> number of frames it has published
          queued,     \* frames in the spool directory
          delivered   \* frames whole and readable in some client's directory

abstractVars == <<produced, queued, delivered>>

Init == /\ produced = [r \in Runs |-> 0]
        /\ queued = {}
        /\ delivered = {}

\* A run publishes its next frame.
Publish(r) ==
  /\ produced[r] < MaxFrames
  /\ produced' = [produced EXCEPT ![r] = @ + 1]
  /\ queued' = queued \cup {<<r, produced[r]>>}
  /\ UNCHANGED delivered

\* A queued frame reaches the receiving side.
Deliver(f) ==
  /\ f \in queued
  /\ delivered' = delivered \cup {f}
  /\ UNCHANGED <<produced, queued>>

\* Only a delivered frame is removed.
Remove(f) ==
  /\ f \in queued \cap delivered
  /\ queued' = queued \ {f}
  /\ UNCHANGED <<produced, delivered>>

Next == \/ \E r \in Runs : Publish(r)
        \/ \E f \in queued : Deliver(f) \/ Remove(f)

Spec == Init /\ [][Next]_abstractVars
=============================================================================
