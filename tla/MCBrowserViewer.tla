-------------------------- MODULE MCBrowserViewer --------------------------
(* Instances of BrowserViewer small enough for TLC. *)
EXTENDS BrowserViewer, TLC

TwoThenOne == <<2, 1>>
OneRunOfTwo == <<2>>

\* Bound: errors of the file system and lost requests together.
OneFault == scanFaults + faults <= 1
=============================================================================
