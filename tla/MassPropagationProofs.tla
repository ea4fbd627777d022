------------------------ MODULE MassPropagationProofs ------------------------
(***************************************************************************)
(* With coherent loads, the mass propagation is correct for every octree   *)
(* and every interleaving of its threads: a node that has been announced   *)
(* holds the sum of the leaves below it, no counter overruns, and no two   *)
(* threads ever write the same node.                                       *)
(***************************************************************************)
EXTENDS MassPropagation, FiniteSetTheorems, TLAPS

Active(t) == thread[t].pc \in {"climb", "arrive"}
Loading(t) == thread[t].pc = "load"

\* Nothing has been started before the last kernel is launched.
Prelude == phase # "propagate" => announced = {} /\ \A t \in Nodes : thread[t] = Exited

\* A parent's counter is the number of its children that have been announced.
Counters ==
  /\ errorCode = 0
  /\ phase # "clear" => \A n \in Nodes : pendingChildren[n] = Cardinality(announced \cap Children(n))
  /\ phase \in {"leaves", "propagate"} => \A n \in Nodes : childCount[n] = Cardinality(Children(n))

\* A thread at its completed node holds the node's final sum.
ActiveOK(t) ==
  Active(t) =>
    /\ At(t) \notin announced
    /\ Children(At(t)) \subseteq announced
    /\ thread[t].sum = LeavesBelow(At(t))
    /\ thread[t].pc = "arrive" => mass[At(t)] = thread[t].sum /\ At(t) # Root

\* A thread that sums has found all children announced.
LoadingOK(t) ==
  Loading(t) =>
    /\ At(t) # Root
    /\ Above(t) \notin announced
    /\ Children(Above(t)) \subseteq announced
    /\ thread[t].left \subseteq Children(Above(t))
    /\ thread[t].sum = UNION {LeavesBelow(c) : c \in Children(Above(t)) \ thread[t].left}

AnnouncedOK(n) == n \in announced => Children(n) \subseteq announced /\ mass[n] = LeavesBelow(n)

\* The inductive invariant.
IInv ==
  /\ TypeOK
  /\ Prelude
  /\ Counters
  /\ \A t \in Nodes : ActiveOK(t)
  /\ \A t \in Nodes : LoadingOK(t)
  /\ \A n \in Nodes : AnnouncedOK(n)
  /\ SoleWriter

----------------------------------------------------------------------------
(* The leaves below a node. *)

(* A node is its own ancestor, and so is the parent of an ancestor. *)
LEMMA AncestorsClosed ==
  ASSUME NEW n \in Nodes
  PROVE  n \in Ancestors(n) /\ \A a \in Ancestors(n) : parent[a] \in Nodes => parent[a] \in Ancestors(n)
<1>1. n \in Ancestors(n)
  BY DEF Ancestors
<1>2. ASSUME NEW a \in Ancestors(n), parent[a] \in Nodes, NEW S \in SUBSET Nodes, n \in S, UpwardClosed(S)
      PROVE  parent[a] \in S
  <2>1. a \in S
    BY <1>2 DEF Ancestors
  <2>2. parent[a] # NoParent
    BY <1>2, TreeAssumption DEF NoParent
  <2> QED
    BY <1>2, <2>1, <2>2 DEF UpwardClosed
<1> QED
  BY <1>1, <1>2 DEF Ancestors

(* An ancestor other than the node itself is the parent of an ancestor. *)
LEMMA AncestorHasChild ==
  ASSUME NEW n \in Nodes, NEW a \in Ancestors(n), a # n, parent \in [Nodes -> Nodes \cup {NoParent}]
  PROVE  \E c \in Ancestors(n) : c \in Children(a)
<1> SUFFICES ASSUME \A c \in Ancestors(n) : parent[c] # a PROVE FALSE
  BY DEF Children, Ancestors
<1> DEFINE S == Ancestors(n) \ {a}
<1>1. n \in S /\ S \in SUBSET Nodes
  BY AncestorsClosed DEF Ancestors
<1>2. UpwardClosed(S)
  BY AncestorsClosed DEF UpwardClosed, Ancestors
<1> QED
  BY <1>1, <1>2 DEF Ancestors

(* The leaves below an internal node are those below its children; a leaf is its own. *)
LEMMA LeavesBelowChildren ==
  ASSUME NEW n \in Nodes, parent \in [Nodes -> Nodes \cup {NoParent}]
  PROVE  /\ n \in Leaves => LeavesBelow(n) = {n}
         /\ n \notin Leaves => LeavesBelow(n) = UNION {LeavesBelow(c) : c \in Children(n)}
<1>1. ASSUME NEW l \in Leaves, NEW c \in Children(n), l \in LeavesBelow(c) PROVE l \in LeavesBelow(n)
  <2>1. c \in Ancestors(l) /\ parent[c] = n /\ l \in Nodes
    BY <1>1 DEF LeavesBelow, Children, Leaves
  <2> QED
    BY <2>1, AncestorsClosed DEF LeavesBelow
<1>2. ASSUME NEW l \in LeavesBelow(n), l # n PROVE \E c \in Children(n) : l \in LeavesBelow(c)
  <2>1. l \in Nodes /\ n \in Ancestors(l) /\ l \in Leaves
    BY <1>2 DEF LeavesBelow, Leaves
  <2>2. PICK c \in Ancestors(l) : c \in Children(n)
    BY <1>2, <2>1, AncestorHasChild
  <2> QED
    BY <2>1, <2>2 DEF LeavesBelow
<1>3. n \in Leaves => n \in LeavesBelow(n) /\ Children(n) = {}
  BY AncestorsClosed DEF LeavesBelow, Leaves
<1>4. \A m : LeavesBelow(m) \subseteq Leaves
  BY DEF LeavesBelow
<1>5. CASE n \in Leaves
  BY <1>2, <1>3, <1>5
<1>6. CASE n \notin Leaves
  <2>1. n \notin LeavesBelow(n)
    BY <1>4, <1>6
  <2> QED
    BY <1>1, <1>2, <1>4, <1>6, <2>1
<1> QED
  BY <1>5, <1>6

----------------------------------------------------------------------------
(* The steps before the last kernel. *)

(* The types of a thread's state. *)
LEMMA ThreadType ==
  ASSUME TypeOK, NEW t \in Nodes
  PROVE  /\ thread[t] \in [pc : {"climb", "arrive", "load", "exit"}, node : Nodes,
                           sum : SUBSET Nodes, left : SUBSET Nodes]
         /\ At(t) \in Nodes
         /\ Above(t) \in Nodes \cup {NoParent}
         /\ Above(t) = NoParent <=> At(t) = Root
         /\ parent \in [Nodes -> Nodes \cup {NoParent}]
<1>1. thread[t] \in [pc : {"climb", "arrive", "load", "exit"}, node : Nodes,
                    sum : SUBSET Nodes, left : SUBSET Nodes]
  BY DEF TypeOK
<1>2. At(t) \in Nodes
  BY <1>1 DEF At
<1> QED
  BY <1>1, <1>2, TreeAssumption DEF TypeOK, Above

(* Initially nothing has been counted. *)
LEMMA InitInv == Init => IInv
<1> SUFFICES ASSUME Init PROVE IInv
  OBVIOUS
<1>1. TypeOK
  BY TreeAssumption DEF Init, TypeOK, Exited, Thread
<1>2. Prelude /\ Counters
  BY DEF Init, Prelude, Counters
<1>3. \A t \in Nodes : ~Active(t) /\ ~Loading(t)
  BY DEF Init, Active, Loading, Exited, Thread
<1>4. \A t \in Nodes : ActiveOK(t) /\ LoadingOK(t)
  BY <1>3 DEF ActiveOK, LoadingOK
<1>5. \A n \in Nodes : AnnouncedOK(n)
  BY DEF Init, AnnouncedOK
<1>6. SoleWriter
  BY <1>3 DEF SoleWriter, Writes, Active, Loading
<1> QED
  BY <1>1, <1>2, <1>4, <1>5, <1>6 DEF IInv

(* While parent does not change, neither do the tree's children, leaves and leaves below. *)
LEMMA SameTree ==
  ASSUME parent' = parent
  PROVE  /\ \A n : Children(n)' = Children(n)
         /\ Leaves' = Leaves
         /\ \A n : LeavesBelow(n)' = LeavesBelow(n)
<1>1. \A n : Children(n)' = Children(n)
  BY DEF Children
<1>2. Leaves' = Leaves
  BY <1>1 DEF Leaves
<1>3. \A S : UpwardClosed(S)' <=> UpwardClosed(S)
  BY DEF UpwardClosed
<1>4. \A n : Ancestors(n)' = Ancestors(n)
  BY <1>3 DEF Ancestors
<1> QED
  BY <1>1, <1>2, <1>4 DEF LeavesBelow

(* The sets of children are finite. *)
LEMMA ChildrenFinite == \A n : IsFiniteSet(Children(n)) /\ Cardinality(Children(n)) \in Nat
BY TreeAssumption, FS_Subset, FS_CardinalityType DEF Children

(* The host's steps establish the counters and start the threads at the leaves. *)
LEMMA HostSteps ==
  ASSUME IInv, Clear \/ CountChildren \/ InitializeLeaves
  PROVE  IInv'
<1>a. parent' = parent /\ announced' = announced /\ errorCode' = 0 /\ phase # "propagate"
  BY DEF IInv, Counters, Clear, CountChildren, InitializeLeaves
<1>b. announced = {} /\ \A t \in Nodes : thread[t] = Exited
  BY <1>a DEF IInv, Prelude
<1>c. \A n \in Nodes : AnnouncedOK(n)'
  BY <1>a, <1>b DEF AnnouncedOK
<1>d. \A n : Cardinality(announced \cap Children(n)) = 0
  BY <1>b, FS_EmptySet
<1>e. \A n : Children(n)' = Children(n)
  BY <1>a, SameTree
<1>1. CASE Clear \/ CountChildren
  <2>1. thread' = thread /\ phase' \in {"count", "leaves"}
    BY <1>1 DEF Clear, CountChildren
  <2>2. TypeOK'
    <3>1. \A n \in Nodes : Cardinality(Children(n)) \in Nat
      BY ChildrenFinite
    <3> QED
      BY <1>1, <3>1 DEF IInv, TypeOK, Clear, CountChildren, Cleared
  <2>3. Counters'
    BY <1>1, <1>a, <1>b, <1>d, <1>e DEF IInv, Counters, Clear, CountChildren, Cleared
  <2>4. \A t \in Nodes : thread'[t] = Exited
    BY <2>1, <1>b
  <2>5. \A t \in Nodes : ActiveOK(t)' /\ LoadingOK(t)'
    BY <2>4 DEF ActiveOK, LoadingOK, Active, Loading, Exited, Thread
  <2>6. SoleWriter'
    BY <2>4 DEF SoleWriter, Writes, Exited, Thread
  <2>7. Prelude'
    BY <2>4, <1>a, <1>b DEF Prelude
  <2> QED
    BY <1>c, <2>2, <2>3, <2>5, <2>6, <2>7 DEF IInv
<1>2. CASE InitializeLeaves
  <2>1. \A t \in Nodes : /\ t \in Leaves => thread'[t] = Thread("climb", t, {t}, {})
                         /\ t \notin Leaves => thread'[t] = Exited
    BY <1>2 DEF InitializeLeaves
  <2>2. TypeOK'
    BY <1>2, TreeAssumption DEF IInv, TypeOK, InitializeLeaves, Thread, Exited
  <2>3. Counters' /\ Prelude'
    BY <1>2, <1>a, <1>b, <1>e DEF IInv, Counters, Prelude, InitializeLeaves
  <2>4. ASSUME NEW t \in Nodes PROVE ActiveOK(t)' /\ LoadingOK(t)'
    <3>1. CASE t \in Leaves
      <4>0. thread'[t] = Thread("climb", t, {t}, {})
        BY <2>1, <3>1
      <4>1. thread'[t].pc = "climb" /\ At(t)' = t /\ thread'[t].sum = {t}
        BY <4>0 DEF Thread, At
      <4>2. Children(t) = {} /\ LeavesBelow(t) = {t}
        BY <3>1, LeavesBelowChildren, TreeAssumption DEF Leaves, IInv, TypeOK
      <4>3. Children(t)' = {} /\ LeavesBelow(t)' = {t}
        BY <1>a, <4>2, SameTree
      <4> QED
        BY <1>a, <1>b, <4>1, <4>3 DEF ActiveOK, LoadingOK, Loading
    <3>2. CASE t \notin Leaves
      <4>1. thread'[t] = Exited
        BY <2>1, <3>2
      <4> QED
        BY <4>1 DEF ActiveOK, LoadingOK, Active, Loading, Exited, Thread
    <3> QED
      BY <3>1, <3>2
  <2>5. SoleWriter'
    <3>1. ASSUME NEW t \in Nodes, NEW n \in Nodes, Writes(t, n)' PROVE t = n
      <4>1. CASE t \in Leaves
        <5>1. thread'[t] = Thread("climb", t, {t}, {})
          BY <2>1, <4>1
        <5> QED
          BY <3>1, <5>1 DEF Writes, Thread, At
      <4>2. CASE t \notin Leaves
        <5>1. thread'[t] = Exited
          BY <2>1, <4>2
        <5> QED
          BY <3>1, <5>1 DEF Writes, Thread, Exited
      <4> QED
        BY <4>1, <4>2
    <3> QED
      BY <3>1 DEF SoleWriter
  <2> QED
    BY <1>c, <2>2, <2>3, <2>4, <2>5 DEF IInv
<1> QED
  BY <1>1, <1>2

----------------------------------------------------------------------------
(* The steps of a thread. *)

(* What does not change for the other threads when one takes a step. *)
LEMMA OtherThreads ==
  ASSUME NEW s \in Nodes, thread'[s] = thread[s], parent' = parent, TypeOK
  PROVE  /\ Active(s)' <=> Active(s)
         /\ Loading(s)' <=> Loading(s)
         /\ At(s)' = At(s) /\ Above(s)' = Above(s)
         /\ \A n : Writes(s, n)' <=> Writes(s, n)
<1>1. At(s)' = At(s)
  BY DEF At
<1>2. Above(s)' = Above(s)
  BY <1>1 DEF Above
<1> QED
  BY <1>1, <1>2 DEF Active, Loading, Writes

(* A step of a thread is taken after the last kernel has been launched. *)
LEMMA Launched ==
  ASSUME IInv, NEW t \in Nodes, Active(t) \/ Loading(t)
  PROVE  phase = "propagate"
BY DEF IInv, Prelude, Active, Loading, Exited, Thread

(* The store of a sum and the fence change the mass of a node nobody else reads or writes. *)
LEMMA MemorySteps ==
  ASSUME IInv, NEW t \in Nodes, Flush(t) \/ ReachRoot(t) \/ Fence(t)
  PROVE  IInv'
<1>a. /\ parent' = parent /\ place' = place /\ phase' = phase /\ childCount' = childCount
      /\ pendingChildren' = pendingChildren /\ announced' = announced /\ errorCode' = errorCode
      /\ mass' = Stored(t) /\ thread[t].pc = "climb"
  BY DEF Flush, ReachRoot, Fence, Fenced
<1>b. TypeOK /\ Counters /\ SoleWriter
  BY DEF IInv
<1>c. At(t) \in Nodes /\ thread[t].sum \in SUBSET Nodes /\ Active(t)
      /\ (Above(t) = NoParent <=> At(t) = Root)
  BY <1>a, <1>b, ThreadType DEF Active
<1>d. mass' = [mass EXCEPT ![At(t)] = thread[t].sum]
  BY <1>a DEF Stored
<1>e. mass' \in [Nodes -> SUBSET Nodes] /\ mass'[At(t)] = thread[t].sum
      /\ \A n \in Nodes : n # At(t) => mass'[n] = mass[n]
  BY <1>b, <1>c, <1>d DEF TypeOK
<1>f. /\ thread' \in [Nodes -> [pc : {"climb", "arrive", "load", "exit"}, node : Nodes,
                              sum : SUBSET Nodes, left : SUBSET Nodes]]
      /\ \A s \in Nodes : s # t => thread'[s] = thread[s]
      /\ thread'[t].pc # "load"
      /\ thread'[t].pc # "exit" => At(t)' = At(t) /\ thread'[t].sum = thread[t].sum
      /\ thread'[t].pc = "arrive" => At(t) # Root
  <2>1. CASE Flush(t)
    BY <2>1, <1>a, <1>b DEF Flush, At, TypeOK
  <2>2. CASE ReachRoot(t)
    <3>1. thread' = [thread EXCEPT ![t] = Exited]
      BY <2>2 DEF ReachRoot, Becomes
    <3> QED
      BY <3>1, <1>b, TreeAssumption DEF TypeOK, Exited, Thread
  <2>3. CASE Fence(t)
    <3>1. thread' = [thread EXCEPT ![t] = [thread[t] EXCEPT !.pc = "arrive"]] /\ At(t) # Root
      BY <2>3, <1>c DEF Fence, Becomes
    <3>2. [thread[t] EXCEPT !.pc = "arrive"] \in [pc : {"climb", "arrive", "load", "exit"}, node : Nodes,
                              sum : SUBSET Nodes, left : SUBSET Nodes]
      BY <1>b DEF TypeOK
    <3> QED
      BY <3>1, <3>2, <1>b DEF TypeOK, At
  <2> QED
    BY <2>1, <2>2, <2>3
<1>g. /\ \A n : Children(n)' = Children(n)
      /\ \A n : LeavesBelow(n)' = LeavesBelow(n)
  BY <1>a, SameTree
<1>h. ActiveOK(t) /\ \A n \in Nodes : AnnouncedOK(n)
  BY DEF IInv
<1>i. phase = "propagate"
  BY <1>c, Launched
<1>1. TypeOK' /\ Prelude' /\ Counters'
  BY <1>a, <1>b, <1>e, <1>f, <1>g, <1>i DEF TypeOK, Prelude, Counters
<1>2. ASSUME NEW s \in Nodes PROVE ActiveOK(s)' /\ LoadingOK(s)'
  <2>1. CASE s = t
    BY <2>1, <1>a, <1>c, <1>e, <1>f, <1>g, <1>h DEF ActiveOK, LoadingOK, Active, Loading
  <2>2. CASE s # t
    <3>1. ActiveOK(s) /\ LoadingOK(s)
      BY DEF IInv
    <3>2. thread'[s] = thread[s] /\ (Active(s)' <=> Active(s)) /\ (Loading(s)' <=> Loading(s))
          /\ At(s)' = At(s) /\ Above(s)' = Above(s)
      BY <2>2, <1>a, <1>b, <1>f, OtherThreads
    <3>3. Active(s) => At(s) \in Nodes /\ At(s) # At(t)
      BY <2>2, <1>b, <1>c, ThreadType DEF SoleWriter, Writes, Active
    <3> QED
      BY <3>1, <3>2, <3>3, <1>a, <1>e, <1>g DEF ActiveOK, LoadingOK
  <2> QED
    BY <2>1, <2>2
<1>3. \A n \in Nodes : AnnouncedOK(n)'
  BY <1>a, <1>c, <1>e, <1>g, <1>h DEF AnnouncedOK, ActiveOK
<1>4. SoleWriter'
  <2>1. ASSUME NEW s \in Nodes, NEW n \in Nodes, Writes(s, n)' PROVE Writes(s, n)
    <3>1. CASE s = t
      BY <2>1, <3>1, <1>a, <1>f DEF Writes
    <3>2. CASE s # t
      BY <2>1, <3>2, <1>a, <1>b, <1>f, OtherThreads
    <3> QED
      BY <3>1, <3>2
  <2> QED
    BY <2>1, <1>b DEF SoleWriter
<1> QED
  BY <1>1, <1>2, <1>3, <1>4 DEF IInv

(* The counter of a parent is below the number of its children when one of them arrives, *)
(* and reaches it exactly when all of them have been announced. *)
LEMMA Counting ==
  ASSUME IInv, NEW t \in Nodes, thread[t].pc = "arrive"
  PROVE  /\ Above(t) \in Nodes /\ At(t) \in Children(Above(t)) /\ At(t) \notin announced
         /\ pendingChildren[Above(t)] + 1 = Cardinality((announced \cup {At(t)}) \cap Children(Above(t)))
         /\ pendingChildren[Above(t)] + 1 <= childCount[Above(t)]
         /\ pendingChildren[Above(t)] + 1 = childCount[Above(t)]
              => Children(Above(t)) \subseteq announced \cup {At(t)}
<1> DEFINE c == At(t)  p == Above(t)
           before == announced \cap Children(p)
           after == (announced \cup {c}) \cap Children(p)
<1>1. TypeOK /\ Counters /\ ActiveOK(t) /\ Active(t)
  BY DEF IInv, Active
<1>2. phase = "propagate"
  BY <1>1, Launched
<1>3. c \in Nodes /\ c # Root /\ c \notin announced /\ p \in Nodes
  BY <1>1, ThreadType DEF ActiveOK
<1>4. c \in Children(p)
  BY <1>3 DEF Children, Above
<1>5. IsFiniteSet(Children(p)) /\ after = before \cup {c} /\ c \notin before
  BY <1>3, <1>4, ChildrenFinite
<1>6. IsFiniteSet(before) /\ IsFiniteSet(after)
  BY <1>5, FS_Subset
<1>7. Cardinality(after) = Cardinality(before) + 1
  BY <1>5, <1>6, FS_AddElement
<1>8. Cardinality(after) <= Cardinality(Children(p))
      /\ (Cardinality(after) = Cardinality(Children(p)) => after = Children(p))
  BY <1>5, FS_Subset
<1>9. pendingChildren[p] = Cardinality(before) /\ childCount[p] = Cardinality(Children(p))
  BY <1>1, <1>2, <1>3 DEF Counters
<1> QED
  BY <1>3, <1>4, <1>7, <1>8, <1>9

(* A thread announces its node; it goes on only if all children of the parent have been *)
(* announced, and no other thread can then have gone on or go on later. *)
LEMMA ArriveStep ==
  ASSUME IInv, NEW t \in Nodes, Arrive(t)
  PROVE  IInv'
<1> DEFINE c == At(t)  p == Above(t)
           last == Thread("load", c, {}, Children(p))
<1>a. /\ parent' = parent /\ place' = place /\ phase' = phase /\ childCount' = childCount
      /\ mass' = mass /\ announced' = announced \cup {c} /\ thread[t].pc = "arrive"
  BY DEF Arrive
<1>b. TypeOK /\ Counters /\ SoleWriter /\ ActiveOK(t) /\ Active(t) /\ \A n \in Nodes : AnnouncedOK(n)
  BY <1>a DEF IInv, Active
<1>c. phase = "propagate"
  BY <1>b, Launched
<1>d. /\ p \in Nodes /\ c \in Children(p) /\ c \notin announced
      /\ pendingChildren[p] + 1 = Cardinality((announced \cup {c}) \cap Children(p))
      /\ pendingChildren[p] + 1 <= childCount[p]
      /\ pendingChildren[p] + 1 = childCount[p] => Children(p) \subseteq announced'
  BY <1>a, Counting
<1>e. pendingChildren[p] \in Nat /\ childCount[p] \in Nat /\ c \in Nodes /\ c # Root
  BY <1>a, <1>b, <1>d, ThreadType DEF TypeOK, ActiveOK
<1>f. ~(pendingChildren[p] + 1 > childCount[p]) /\ errorCode' = errorCode
  BY <1>d, <1>e DEF Arrive
<1>g. /\ \A s \in Nodes : s # t => thread'[s] = thread[s]
      /\ \/ thread'[t] = Exited
         \/ thread'[t] = last /\ Children(p) \subseteq announced'
  <2>1. thread' = [thread EXCEPT ![t] =
                     IF Incomplete(pendingChildren[p] + 1, childCount[p]) THEN Exited ELSE last]
    BY <1>f DEF Arrive, Becomes
  <2>2. ~Incomplete(pendingChildren[p] + 1, childCount[p]) => pendingChildren[p] + 1 = childCount[p]
    BY <1>d, <1>e DEF Incomplete
  <2> QED
    BY <2>1, <2>2, <1>b, <1>d DEF TypeOK
<1>h. /\ \A n : Children(n)' = Children(n)
      /\ \A n : LeavesBelow(n)' = LeavesBelow(n)
  BY <1>a, SameTree
<1>i. thread'[t] = last => Loading(t)' /\ At(t)' = c /\ Above(t)' = p
                           /\ thread'[t].sum = {} /\ thread'[t].left = Children(p)
  BY <1>a DEF Thread, At, Above, Loading
<1>j. thread'[t] = Exited => ~Active(t)' /\ ~Loading(t)' /\ \A n : ~Writes(t, n)'
  BY DEF Exited, Thread, Active, Loading, Writes
<1>k. ~Active(t)' /\ (Loading(t)' => thread'[t] = last)
  BY <1>g, <1>j DEF Thread, Active
<1>l. p \notin announced' /\ \A s \in Nodes : ~Writes(s, p)
  <2>1. ~(Children(p) \subseteq announced)
    BY <1>d
  <2>2. p \notin announced /\ p # c
    BY <2>1, <1>b, <1>d DEF AnnouncedOK, ActiveOK
  <2>3. ASSUME NEW s \in Nodes, Writes(s, p) PROVE FALSE
    <3>1. ActiveOK(s) /\ LoadingOK(s)
      BY DEF IInv
    <3> QED
      BY <2>1, <2>3, <3>1 DEF Writes, ActiveOK, LoadingOK, Active, Loading
  <2> QED
    BY <1>a, <2>2, <2>3
<1>1. TypeOK'
  <2>1. pendingChildren' \in [Nodes -> Nat]
    <3>1. pendingChildren' = [pendingChildren EXCEPT ![p] = pendingChildren[p] + 1]
      BY DEF Arrive
    <3>2. pendingChildren \in [Nodes -> Nat] /\ pendingChildren[p] + 1 \in Nat
      BY <1>b, <1>e DEF TypeOK
    <3> QED
      BY <3>1, <3>2
  <2>2. \A S \in SUBSET Nodes : Thread("load", c, {}, S) \in
          [pc : {"climb", "arrive", "load", "exit"}, node : Nodes, sum : SUBSET Nodes, left : SUBSET Nodes]
    BY <1>e DEF Thread
  <2>3. Children(p) \in SUBSET Nodes
    BY DEF Children
  <2>4. Exited \in [pc : {"climb", "arrive", "load", "exit"}, node : Nodes, sum : SUBSET Nodes, left : SUBSET Nodes]
    BY TreeAssumption DEF Exited, Thread
  <2>5. thread' \in [Nodes -> [pc : {"climb", "arrive", "load", "exit"}, node : Nodes,
                              sum : SUBSET Nodes, left : SUBSET Nodes]]
    <3>1. \E new \in {Exited, last} : thread' = [thread EXCEPT ![t] = new]
      BY DEF Arrive, Becomes
    <3> QED
      BY <3>1, <2>2, <2>3, <2>4, <1>b DEF TypeOK
  <2> QED
    BY <2>1, <2>5, <1>a, <1>b, <1>e, <1>f DEF TypeOK
<1>2. Counters'
  <2>1. \A n \in Nodes : n # p => announced' \cap Children(n) = announced \cap Children(n)
    BY <1>a, <1>d DEF Children
  <2>2. pendingChildren'[p] = pendingChildren[p] + 1 /\ \A n \in Nodes : n # p => pendingChildren'[n] = pendingChildren[n]
    BY <1>b, <1>d DEF Arrive, TypeOK
  <2>3. \A n \in Nodes : pendingChildren'[n] = Cardinality(announced' \cap Children(n))
    BY <2>1, <2>2, <1>a, <1>b, <1>c, <1>d DEF Counters
  <2> QED
    BY <2>3, <1>a, <1>b, <1>f, <1>h DEF Counters
<1>3. ASSUME NEW s \in Nodes PROVE ActiveOK(s)' /\ LoadingOK(s)'
  <2>1. CASE s = t
    <3>1. CASE Loading(t)'
      <4>1. thread'[t] = last /\ Children(p) \subseteq announced'
        BY <3>1, <1>g, <1>j
      <4> QED
        BY <2>1, <4>1, <1>e, <1>h, <1>i, <1>k, <1>l DEF LoadingOK, ActiveOK
    <3>2. CASE ~Loading(t)'
      BY <2>1, <3>2, <1>k DEF LoadingOK, ActiveOK
    <3> QED
      BY <3>1, <3>2
  <2>2. CASE s # t
    <3>1. ActiveOK(s) /\ LoadingOK(s)
      BY DEF IInv
    <3>2. thread'[s] = thread[s] /\ (Active(s)' <=> Active(s)) /\ (Loading(s)' <=> Loading(s))
          /\ At(s)' = At(s) /\ Above(s)' = Above(s)
      BY <2>2, <1>a, <1>b, <1>g, OtherThreads
    <3>3. ~Writes(s, c)
      BY <2>2, <1>b, <1>e DEF SoleWriter, Writes, Active
    <3> QED
      BY <3>1, <3>2, <3>3, <1>a, <1>h DEF ActiveOK, LoadingOK, Writes, Active, Loading
  <2> QED
    BY <2>1, <2>2
<1>4. \A n \in Nodes : AnnouncedOK(n)'
  BY <1>a, <1>b, <1>h DEF AnnouncedOK, ActiveOK
<1>5. SoleWriter'
  <2>1. ASSUME NEW n \in Nodes, Writes(t, n)' PROVE n = p
    BY <2>1, <1>i, <1>j, <1>k DEF Writes, Active, Loading
  <2>2. \A s \in Nodes : s # t => \A n : Writes(s, n)' <=> Writes(s, n)
    BY <1>a, <1>b, <1>g, OtherThreads
  <2> QED
    BY <2>1, <2>2, <1>b, <1>l DEF SoleWriter
<1>6. Prelude'
  BY <1>a, <1>c DEF Prelude
<1> QED
  BY <1>1, <1>2, <1>3, <1>4, <1>5, <1>6 DEF IInv

(* A load adds the final mass of a child. *)
LEMMA LoadStep ==
  ASSUME IInv, ~Incoherent, NEW t \in Nodes, Load(t)
  PROVE  IInv'
<1>1. PICK c \in thread[t].left :
        thread' = [thread EXCEPT ![t] = [thread[t] EXCEPT !.sum = @ \cup mass[c], !.left = @ \ {c}]]
  BY DEF Load, Views, Becomes
<1>a. /\ parent' = parent /\ place' = place /\ phase' = phase /\ childCount' = childCount
      /\ pendingChildren' = pendingChildren /\ announced' = announced /\ errorCode' = errorCode
      /\ mass' = mass /\ Loading(t)
  BY DEF Load, Loading
<1>b. TypeOK /\ Counters /\ SoleWriter /\ LoadingOK(t) /\ \A n \in Nodes : AnnouncedOK(n)
  BY DEF IInv
<1> DEFINE new == [thread[t] EXCEPT !.sum = @ \cup mass[c], !.left = @ \ {c}]
<1>c. /\ c \in Nodes /\ c \in Children(Above(t)) /\ mass[c] = LeavesBelow(c) /\ mass[c] \in SUBSET Nodes
  BY <1>a, <1>b, ThreadType DEF LoadingOK, AnnouncedOK, Children, TypeOK
<1>d. /\ new \in [pc : {"climb", "arrive", "load", "exit"}, node : Nodes, sum : SUBSET Nodes, left : SUBSET Nodes]
      /\ new.pc = "load" /\ new.node = thread[t].node
      /\ new.sum = thread[t].sum \cup mass[c] /\ new.left = thread[t].left \ {c}
  <2>1. thread[t] \in [pc : {"climb", "arrive", "load", "exit"}, node : Nodes,
                       sum : SUBSET Nodes, left : SUBSET Nodes] /\ thread[t].pc = "load"
    BY <1>a, <1>b, ThreadType DEF Loading
  <2>2. mass[c] \in SUBSET Nodes
    BY <1>c
  <2> QED
    BY <2>1, <2>2
<1>e. thread'[t] = new /\ \A s \in Nodes : s # t => thread'[s] = thread[s]
  BY <1>1, <1>b DEF TypeOK
<1>f. /\ \A n : Children(n)' = Children(n)
      /\ \A n : LeavesBelow(n)' = LeavesBelow(n)
  BY <1>a, SameTree
<1>g. At(t)' = At(t) /\ Above(t)' = Above(t) /\ Loading(t)' /\ ~Active(t)'
  BY <1>a, <1>d, <1>e DEF At, Above, Loading, Active
<1>h. phase = "propagate"
  BY <1>a, Launched
<1>2. TypeOK' /\ Prelude' /\ Counters'
  <2>1. thread' \in [Nodes -> [pc : {"climb", "arrive", "load", "exit"}, node : Nodes,
                              sum : SUBSET Nodes, left : SUBSET Nodes]]
    BY <1>1, <1>b, <1>d DEF TypeOK
  <2> QED
    BY <2>1, <1>a, <1>b, <1>f, <1>h DEF TypeOK, Prelude, Counters
<1>3. ASSUME NEW s \in Nodes PROVE ActiveOK(s)' /\ LoadingOK(s)'
  <2>1. CASE s = t
    <3> DEFINE summed == Children(Above(t)) \ thread[t].left
    <3>1. Children(Above(t)) \ new.left = summed \cup {c}
      BY <1>c, <1>d
    <3>2. new.sum = UNION {LeavesBelow(d) : d \in summed \cup {c}}
      BY <1>a, <1>b, <1>c, <1>d DEF LoadingOK
    <3> QED
      BY <2>1, <3>1, <3>2, <1>a, <1>b, <1>d, <1>e, <1>f, <1>g DEF LoadingOK, ActiveOK
  <2>2. CASE s # t
    <3>1. ActiveOK(s) /\ LoadingOK(s)
      BY DEF IInv
    <3>2. thread'[s] = thread[s] /\ (Active(s)' <=> Active(s)) /\ (Loading(s)' <=> Loading(s))
          /\ At(s)' = At(s) /\ Above(s)' = Above(s)
      BY <2>2, <1>a, <1>b, <1>e, OtherThreads
    <3> QED
      BY <3>1, <3>2, <1>a, <1>f DEF ActiveOK, LoadingOK
  <2> QED
    BY <2>1, <2>2
<1>4. \A n \in Nodes : AnnouncedOK(n)'
  BY <1>a, <1>b, <1>f DEF AnnouncedOK
<1>5. SoleWriter'
  <2>1. \A n : Writes(t, n)' => Writes(t, n)
    BY <1>a, <1>g DEF Writes, Loading, Active
  <2>2. \A s \in Nodes : s # t => \A n : Writes(s, n)' <=> Writes(s, n)
    BY <1>a, <1>b, <1>e, OtherThreads
  <2> QED
    BY <2>1, <2>2, <1>b DEF SoleWriter
<1> QED
  BY <1>2, <1>3, <1>4, <1>5 DEF IInv

(* The sum over all children is what the leaves below the parent sum to. *)
LEMMA StoreStep ==
  ASSUME IInv, NEW t \in Nodes, Store(t)
  PROVE  IInv'
<1> DEFINE p == Above(t)
<1>a. /\ parent' = parent /\ place' = place /\ phase' = phase /\ childCount' = childCount
      /\ pendingChildren' = pendingChildren /\ announced' = announced /\ errorCode' = errorCode
      /\ mass' = mass /\ Loading(t) /\ thread[t].left = {}
      /\ thread' = [thread EXCEPT ![t] = Thread("climb", p, thread[t].sum, {})]
  BY DEF Store, Loading, Becomes
<1>b. TypeOK /\ Counters /\ SoleWriter /\ LoadingOK(t) /\ \A n \in Nodes : AnnouncedOK(n)
  BY DEF IInv
<1>c. /\ p \in Nodes /\ At(t) \in Nodes /\ thread[t].sum \in SUBSET Nodes
      /\ parent \in [Nodes -> Nodes \cup {NoParent}]
  BY <1>a, <1>b, ThreadType DEF LoadingOK
<1>d. p \notin Leaves
  BY <1>c DEF Leaves, Children, Above
<1>e. thread[t].sum = LeavesBelow(p)
  BY <1>a, <1>b, <1>c, <1>d, LeavesBelowChildren DEF LoadingOK
<1>f. /\ thread'[t] = Thread("climb", p, thread[t].sum, {})
      /\ \A s \in Nodes : s # t => thread'[s] = thread[s]
  BY <1>a, <1>b DEF TypeOK
<1>g. /\ \A n : Children(n)' = Children(n)
      /\ \A n : LeavesBelow(n)' = LeavesBelow(n)
  BY <1>a, SameTree
<1>h. At(t)' = p /\ thread'[t].pc = "climb" /\ thread'[t].sum = thread[t].sum
  BY <1>f DEF At, Thread
<1>i. phase = "propagate"
  BY <1>a, Launched
<1>2. TypeOK' /\ Prelude' /\ Counters'
  <2>1. Thread("climb", p, thread[t].sum, {}) \in
          [pc : {"climb", "arrive", "load", "exit"}, node : Nodes, sum : SUBSET Nodes, left : SUBSET Nodes]
    BY <1>c DEF Thread
  <2>2. thread' \in [Nodes -> [pc : {"climb", "arrive", "load", "exit"}, node : Nodes,
                              sum : SUBSET Nodes, left : SUBSET Nodes]]
    BY <2>1, <1>a, <1>b DEF TypeOK
  <2> QED
    BY <2>2, <1>a, <1>b, <1>g, <1>i DEF TypeOK, Prelude, Counters
<1>3. ASSUME NEW s \in Nodes PROVE ActiveOK(s)' /\ LoadingOK(s)'
  <2>1. CASE s = t
    BY <2>1, <1>a, <1>b, <1>e, <1>g, <1>h DEF ActiveOK, LoadingOK, Loading
  <2>2. CASE s # t
    <3>1. ActiveOK(s) /\ LoadingOK(s)
      BY DEF IInv
    <3>2. thread'[s] = thread[s] /\ (Active(s)' <=> Active(s)) /\ (Loading(s)' <=> Loading(s))
          /\ At(s)' = At(s) /\ Above(s)' = Above(s)
      BY <2>2, <1>a, <1>b, <1>f, OtherThreads
    <3> QED
      BY <3>1, <3>2, <1>a, <1>g DEF ActiveOK, LoadingOK
  <2> QED
    BY <2>1, <2>2
<1>4. \A n \in Nodes : AnnouncedOK(n)'
  BY <1>a, <1>b, <1>g DEF AnnouncedOK
<1>5. SoleWriter'
  <2>1. \A n : Writes(t, n)' => Writes(t, n)
    BY <1>a, <1>h DEF Writes, Loading
  <2>2. \A s \in Nodes : s # t => \A n : Writes(s, n)' <=> Writes(s, n)
    BY <1>a, <1>b, <1>f, OtherThreads
  <2> QED
    BY <2>1, <2>2, <1>b DEF SoleWriter
<1> QED
  BY <1>2, <1>3, <1>4, <1>5 DEF IInv

----------------------------------------------------------------------------
(* The theorems. *)

(* The invariant holds in every reachable state, whatever the octree, the number of *)
(* threads and the order in which they run, provided loads are coherent. *)
THEOREM MassInvariant ==
  ASSUME ~Incoherent
  PROVE  Spec => []IInv
<1>1. IInv /\ [Next]_vars => IInv'
  <2> SUFFICES ASSUME IInv, Next \/ UNCHANGED vars PROVE IInv'
    OBVIOUS
  <2>1. CASE Clear \/ CountChildren \/ InitializeLeaves
    BY <2>1, HostSteps
  <2>2. ASSUME NEW t \in Nodes, Climb(t) PROVE IInv'
    BY <2>2, MemorySteps, ArriveStep, LoadStep, StoreStep DEF Climb
  <2>3. CASE UNCHANGED vars
    <3>1. parent' = parent /\ place' = place /\ phase' = phase /\ childCount' = childCount
          /\ pendingChildren' = pendingChildren /\ announced' = announced /\ errorCode' = errorCode
          /\ mass' = mass /\ thread' = thread
      BY <2>3 DEF vars
    <3>2. /\ \A n : Children(n)' = Children(n)
          /\ \A n : LeavesBelow(n)' = LeavesBelow(n)
      BY <3>1, SameTree
    <3> QED
      BY <3>1, <3>2 DEF IInv, TypeOK, Prelude, Counters, ActiveOK, LoadingOK, Active, Loading, At, Above,
        AnnouncedOK, SoleWriter, Writes
  <2> QED
    BY <2>1, <2>2, <2>3 DEF Next
<1> QED
  BY <1>1, InitInv, PTL DEF Spec

(* A node that has been counted at its parent holds exactly the leaves below it: the *)
(* last child to arrive never reads a sibling's mass before it is final. *)
THEOREM SubtreesSummed ==
  ASSUME ~Incoherent
  PROVE  Spec => []SubtreeSummed
<1>1. IInv => SubtreeSummed
  BY DEF IInv, AnnouncedOK, SubtreeSummed, TypeOK
<1> QED
  BY <1>1, MassInvariant, PTL

(* No parent is signalled more often than it has children. *)
THEOREM NeverOverrun ==
  ASSUME ~Incoherent
  PROVE  Spec => []NoOverrun
<1>1. IInv => NoOverrun
  BY DEF IInv, Counters, NoOverrun
<1> QED
  BY <1>1, MassInvariant, PTL

(* No two threads write the mass of the same node: the plain stores do not race. *)
THEOREM NoRacingStores ==
  ASSUME ~Incoherent
  PROVE  Spec => []SoleWriter
<1>1. IInv => SoleWriter
  BY DEF IInv
<1> QED
  BY <1>1, MassInvariant, PTL
=============================================================================
