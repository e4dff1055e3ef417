------------------------- MODULE ProcessTreeProofs -------------------------
(***************************************************************************)
(* Proofs about the process registry under any calls, from the lemmas about  *)
(* its operators.                                                            *)
(***************************************************************************)
EXTENDS ProcessRegistry, ProcessTreeLemmas

(* The inductive invariant of the registry under any calls: the registry is  *)
(* well formed and the history of losses is remembered by the latch.         *)
IInv == /\ TreeOK(tree)
        /\ lost \subseteq KnownImgs(tree)
        /\ lost # {} => ~tree.complete

(* The invariant holds of the empty registry.                                *)
LEMMA InitIInv == Init => IInv
  BY EmptyTreeOK DEF Init, IInv, EmptyTree, KnownImgs

(* One step of the registry keeps the invariant and withdraws nothing.       *)
LEMMA NextIInv == IInv /\ [Next]_vars => IInv' /\ Keeps(tree, tree')
<1> SUFFICES ASSUME IInv, [Next]_vars PROVE IInv' /\ Keeps(tree, tree')
  OBVIOUS
<1> USE DEF IInv
<1>0. ASSUME TreeOK(tree'), Keeps(tree, tree'), lost' = lost
      PROVE  IInv' /\ Keeps(tree, tree')
  BY <1>0 DEF Keeps
<1>1. CASE Root
  <2>1. PICK p \in Pids, token \in Tokens \cup {NoToken} :
          tree.root = NoPid /\ tree' = AdmitRoot(tree, p, token) /\ lost' = lost
    BY <1>1 DEF Root
  <2>2. p \notin Known(tree)
    BY <2>1 DEF TreeOK, TreeAncestry
  <2> QED BY <1>0, <2>1, <2>2, AdmitRootOK, AdmitNewProcessKeeps DEF AdmitRoot
<1>2. CASE Child
  <2>1. PICK p \in Pids, parent \in Pids \cup {NoPid}, origin \in Origins,
             token \in Tokens \cup {NoToken} :
          tree' = AdmitChild(tree, p, parent, origin, token) /\ lost' = lost
    BY <1>2 DEF Child
  <2> QED BY <1>0, <2>1, AdmitChildOK, AdmitChildKeeps
<1>3. CASE Instrumented
  BY <1>0, <1>3, MarksOK, MarksKeep DEF Instrumented
<1>4. CASE Status
  BY <1>0, <1>4, MarksOK, MarksKeep, InputsAssumption DEF Status
<1>5. CASE CoverageLoss
  <2>1. PICK i \in KnownImgs(tree), reason \in SeenReasons :
          tree' = MarkCoverageLoss(tree, i, reason) /\ lost' = lost \cup {i}
    BY <1>5 DEF CoverageLoss
  <2>2. TreeOK(tree') /\ Keeps(tree, tree') /\ ~tree'.complete
    BY <2>1, MarksOK, MarksKeep, InputsAssumption
  <2> QED BY <2>1, <2>2 DEF Keeps
<1>6. CASE Detached
  BY <1>0, <1>6, MarksOK, MarksKeep, InputsAssumption DEF Detached
<1>7. CASE ActiveAtRootExit
  <2>1. PICK p \in Pids : tree' = MarkActiveAtRootExit(tree, p) /\ lost' = lost
    BY <1>7 DEF ActiveAtRootExit
  <2>2. Keeps(tree, tree)
    BY DEF Keeps
  <2>3. Keeps(tree, tree')
    BY <2>1, <2>2, ProcessMarksKeep DEF MarkActiveAtRootExit
  <2> QED BY <1>0, <2>1, <2>3, MarkActiveOK
<1>8. CASE UNCHANGED vars
  BY <1>8 DEF vars, Keeps
<1> QED BY <1>1, <1>2, <1>3, <1>4, <1>5, <1>6, <1>7, <1>8 DEF Next

(* The inductive invariant holds throughout.                                 *)
THEOREM RegistryInvariant == Spec => []IInv
<1>1. IInv /\ [Next]_vars => IInv'
  BY NextIInv
<1> QED BY <1>1, InitIInv, PTL DEF Spec

(* Type correctness of the registry, for any PIDs, tokens and caps.          *)
THEOREM TypeCorrect == Spec => []TypeOK
<1>1. IInv => TypeOK
  BY DEF IInv, TreeOK, TypeOK
<1> QED BY <1>1, RegistryInvariant, PTL

(* max_followed_processes and max_process_images are never exceeded, whatever *)
(* mix of forks, execs and refused calls the registry sees.                  *)
THEOREM CapsRespected == Spec => []CapsHold
<1>1. IInv => CapsHold
  BY DEF IInv, TreeOK, CapsHold
<1> QED BY <1>1, RegistryInvariant, PTL

(* The admitted processes form one tree under the root with exact depths, so *)
(* the deepest-first order of deepest_first reaches children before parents.  *)
THEOREM AncestryIsATree == Spec => []AncestryFollowed
<1>1. IInv => AncestryFollowed
  BY DEF IInv, TreeOK, AncestryFollowed
<1> QED BY <1>1, RegistryInvariant, PTL

(* Instance names of a PID are consecutive and never reused, and a           *)
(* superseded image always carries the reason it stopped.                    *)
THEOREM ImagesAreAccounted == Spec => []ImagesAccounted
<1>1. IInv => ImagesAccounted
  BY DEF IInv, TreeOK, ImagesAccounted
<1> QED BY <1>1, RegistryInvariant, PTL

(* The tree-wide verdict is ACTIVE only when nothing was omitted and no image *)
(* ever lost coverage.                                                       *)
THEOREM ActiveIsSound == Spec => []ActiveMeansCovered
<1>1. IInv => ActiveMeansCovered
  <2> SUFFICES ASSUME IInv, AggregateStatus(tree, FALSE) = "ACTIVE"
               PROVE  /\ tree.omitted = 0 /\ lost = {}
                      /\ \A i \in KnownImgs(tree) : tree.images[i].instrumented
    BY DEF ActiveMeansCovered
  <2>1. TreeComplete(tree)
    BY DEF AggregateStatus
  <2>2. tree.complete /\ lost = {}
    BY <2>1 DEF TreeComplete, IInv
  <2>3. tree.omitted = 0
    BY <2>2 DEF IInv, TreeOK, TreeType, TreeLatch
  <2>4. \A i \in KnownImgs(tree) : tree.images[i].instrumented
    BY <2>1 DEF TreeComplete, IInv, TreeOK, TreeLatch
  <2> QED BY <2>2, <2>3, <2>4
<1> QED BY <1>1, RegistryInvariant, PTL

(* No call takes back what an earlier one recorded.                          *)
THEOREM HistoryIsKept == Spec => HistoryKept
<1>1. IInv /\ [Next]_vars => [Keeps(tree, tree')]_vars
  BY NextIInv
<1> QED BY <1>1, RegistryInvariant, PTL DEF Spec, HistoryKept
=============================================================================
