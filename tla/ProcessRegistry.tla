-------------------------- MODULE ProcessRegistry --------------------------
(***************************************************************************)
(* ProcessTreeRegistry under any sequence of the calls process.py makes,    *)
(* with any argument a child-added report, /proc and an agent may supply.   *)
(* What holds here holds whatever the controller and the callbacks do.      *)
(***************************************************************************)
EXTENDS ProcessTree

CONSTANTS SeenStatuses,   \* statuses the agents report
          SeenReasons,    \* reasons sessions detach for
          MaxOmitted,     \* bound on omitted_images, for model checking
          MaxGeneration   \* bound on the images of one PID, for model checking

ASSUME InputsAssumption == SeenStatuses \subseteq Statuses /\ SeenReasons \subseteq Reasons
ASSUME BoundsAssumption == MaxOmitted \in Nat /\ MaxGeneration \in Nat

VARIABLES tree,  \* the registry
          lost   \* history: instances that ever lost coverage

vars == <<tree, lost>>

Init == tree = EmptyTree /\ lost = {}

\* Room for one more refusal and one more image under the checking bounds.
MayAdmit(pid) == /\ tree.omitted < MaxOmitted
                 /\ pid \in Known(tree) => tree.processes[pid].generation < MaxGeneration

Root == \E pid \in Pids, token \in Tokens \cup {NoToken} :
    /\ tree.root = NoPid
    /\ MayAdmit(pid)
    /\ tree' = AdmitRoot(tree, pid, token)
    /\ UNCHANGED lost

Child == \E pid \in Pids, parent \in Pids \cup {NoPid}, origin \in Origins,
            token \in Tokens \cup {NoToken} :
    /\ MayAdmit(pid)
    /\ tree' = AdmitChild(tree, pid, parent, origin, token)
    /\ UNCHANGED lost

Instrumented == \E i \in KnownImgs(tree) :
    /\ tree' = MarkInstrumented(tree, i)
    /\ UNCHANGED lost

Status == \E i \in KnownImgs(tree), status \in SeenStatuses :
    /\ tree' = MarkStatus(tree, i, status)
    /\ UNCHANGED lost

CoverageLoss == \E i \in KnownImgs(tree), reason \in SeenReasons :
    /\ tree' = MarkCoverageLoss(tree, i, reason)
    /\ lost' = lost \cup {i}

Detached == \E i \in KnownImgs(tree), reason \in SeenReasons :
    /\ tree' = MarkDetached(tree, i, reason)
    /\ UNCHANGED lost

ActiveAtRootExit == \E pid \in Pids :
    /\ tree' = MarkActiveAtRootExit(tree, pid)
    /\ UNCHANGED lost

Next == \/ Root \/ Child \/ Instrumented \/ Status
        \/ CoverageLoss \/ Detached \/ ActiveAtRootExit

Spec == Init /\ [][Next]_vars

-----------------------------------------------------------------------------
TypeOK == TreeType(tree) /\ lost \subseteq KnownImgs(tree)

\* No image is admitted past max_followed_processes or max_process_images,
\* over forks, execs and refusals mixed (_admit_new_process,
\* _check_image_capacity).
CapsHold == TreeCaps(tree)

\* Every admitted process descends from the one root through admitted
\* processes, one level at a time: the ancestry of admit_child has no cycle
\* and no gap, so deepest_first orders every child before its parent.
AncestryFollowed == TreeAncestry(tree)

\* The images of a PID are numbered 1, 2, ... without a gap, each name once,
\* and every image but the current one says why it stopped reporting
\* (_append_image, _admit_exec).
ImagesAccounted == TreeImages(tree)

\* An ACTIVE verdict is never given for a tree that omitted an image or that
\* ever lost coverage of one, whatever statuses and marks came later
\* (aggregate_instrumentation_status over the _complete latch).
ActiveMeansCovered ==
    AggregateStatus(tree, FALSE) = "ACTIVE" =>
        /\ tree.omitted = 0
        /\ lost = {}
        /\ \A i \in KnownImgs(tree) : tree.images[i].instrumented

\* No method of the registry withdraws what an earlier one recorded, also when
\* it raises half way (admit_child learns a token before it refuses).
HistoryKept == [][Keeps(tree, tree')]_vars
=============================================================================
