---------------------------- MODULE ProcessTree ----------------------------
(***************************************************************************)
(* The registry of process_tree.py as a data type: a registry is a record   *)
(* and every method of ProcessTreeRegistry is an operator from a registry   *)
(* to the registry it leaves behind.  ProcessRegistry runs the type under   *)
(* any sequence of calls; ProcessController drives it.                      *)
(*                                                                         *)
(* An instance name "p<pid>-i<generation>" is the pair <<pid, generation>>. *)
(* Origin strings keep the one distinction the code makes, "exec" or not;   *)
(* detach reasons keep whether the code set one and "process-replaced".     *)
(***************************************************************************)
EXTENDS Integers, FiniteSets

CONSTANTS Pids,                  \* process ids the kernel may hand out
          Tokens,                \* start tokens of /proc/<pid>/stat
          MaxFollowedProcesses,  \* max_followed_processes
          MaxProcessImages,      \* max_process_images
          NoPid, NoToken, NoReason

ASSUME PidsAssumption   == Pids \subseteq Nat \ {0} /\ NoPid \notin Pids
ASSUME CapsAssumption   == /\ MaxFollowedProcesses \in Nat \ {0}
                           /\ MaxProcessImages \in Nat \ {0}
ASSUME TokensAssumption == NoToken \notin Tokens

Reasons   == {"process-replaced", "process-terminated", "lost"}
ASSUME ReasonsAssumption == NoReason \notin Reasons

Origins   == {"fork", "exec"}
Statuses  == {"FAILED", "PARTIAL", "ACTIVE", "DETECTED_UNSUPPORTED", "NOT_DETECTED"}
Instances == Pids \X Nat

-----------------------------------------------------------------------------
\* _ImageState and _ProcessState.  A process keeps the length of its image
\* list as "generation"; the images themselves live in the registry's dict.
Image   == [status: Statuses, instrumented: BOOLEAN, covered: BOOLEAN,
            detach: Reasons \cup {NoReason}]
Process == [parent: Pids \cup {NoPid}, depth: Nat, root: BOOLEAN,
            token: Tokens \cup {NoToken}, generation: Nat, active: BOOLEAN]

NewImage == [status |-> "NOT_DETECTED", instrumented |-> FALSE,
             covered |-> FALSE, detach |-> NoReason]

NewProcess(parent, depth, root, token) ==
    [parent |-> parent, depth |-> depth, root |-> root, token |-> token,
     generation |-> 1, active |-> FALSE]

EmptyTree == [root |-> NoPid, processes |-> << >>, images |-> << >>,
              complete |-> TRUE, omitted |-> 0]

Known(t)     == DOMAIN t.processes
KnownImgs(t) == DOMAIN t.images
Current(t, p) == <<p, t.processes[p].generation>>

\* dict[key] = value
Put(f, k, v) == [x \in DOMAIN f \cup {k} |-> IF x = k THEN v ELSE f[x]]

\* The complete property: the latch and every image's own coverage flag.
TreeComplete(t) == t.complete /\ \A i \in KnownImgs(t) : t.images[i].covered

-----------------------------------------------------------------------------
\* A definition X_Slip is X with a plausible slip in it: the runs' properties
\* are shown to fail when it takes the place of X.
NoteOmittedImage_KeepsComplete(t) == [t EXCEPT !.omitted = @ + 1]
ProcessesFull_OffByOne(t) == Cardinality(DOMAIN t.processes) > MaxFollowedProcesses
ImagesFull_OffByOne(t)    == Cardinality(DOMAIN t.images) > MaxProcessImages

\* note_omitted_image
NoteOmittedImage(t) == [t EXCEPT !.omitted = @ + 1, !.complete = FALSE]

\* The two caps of _admit_new_process and _check_image_capacity.
ProcessesFull(t) == Cardinality(Known(t)) >= MaxFollowedProcesses
ImagesFull(t)    == Cardinality(KnownImgs(t)) >= MaxProcessImages

\* The part of _admit_new_process after the caps, with _append_image.
AddProcess(t, pid, process) ==
    [t EXCEPT !.root      = IF process.root THEN pid ELSE @,
              !.processes = Put(@, pid, process),
              !.images    = Put(@, <<pid, 1>>, NewImage)]

\* _admit_new_process; a refused process counts as one omitted image.
AdmitNewProcess(t, pid, process) ==
    IF ProcessesFull(t) \/ ImagesFull(t)
    THEN NoteOmittedImage(t)
    ELSE AddProcess(t, pid, process)

AppendExecImage_Unexplained(t, pid) ==
    LET g == t.processes[pid].generation IN
    [t EXCEPT !.processes[pid].generation = g + 1,
              !.images = Put(@, <<pid, g + 1>>, NewImage)]

AppendExecImage_NewRecord(t, pid) ==
    LET g == t.processes[pid].generation
        explained == [t.images EXCEPT ![<<pid, g>>].detach =
                         IF @ = NoReason THEN "process-replaced" ELSE @]
    IN  [t EXCEPT !.processes[pid] = [@ EXCEPT !.generation = g + 1, !.active = FALSE],
                  !.images = Put(explained, <<pid, g + 1>>, NewImage)]

\* _admit_exec after the cap: explain why the superseded image stopped
\* reporting, unless it is explained already, and append the next image.
AppendExecImage(t, pid) ==
    LET g == t.processes[pid].generation
        explained == [t.images EXCEPT ![<<pid, g>>].detach =
                         IF @ = NoReason THEN "process-replaced" ELSE @]
    IN  [t EXCEPT !.processes[pid].generation = g + 1,
                  !.images = Put(explained, <<pid, g + 1>>, NewImage)]

\* admit_root when no root is admitted yet (it raises otherwise).
AdmitRoot(t, pid, token) ==
    AdmitNewProcess(t, pid, NewProcess(NoPid, 0, TRUE, token))

\* admit_child: an exec of another process cannot be told from PID reuse
\* unless both start tokens were readable.
TokenChanged(t, pid, token) ==
    /\ t.processes[pid].token # NoToken
    /\ token # NoToken
    /\ t.processes[pid].token # token

\* existing.start_token = start_token, when it was unknown until now.
LearnToken(t, pid, token) ==
    [t EXCEPT !.processes[pid].token = IF @ = NoToken THEN token ELSE @]

\* What admit_child raises for a PID already in the tree.
KnownVerdict(t, pid, parent, origin, token) ==
    IF TokenChanged(t, pid, token) \/ origin # "exec" THEN "DuplicateProcessImage"
    ELSE IF parent \notin {NoPid, pid, t.processes[pid].parent} THEN "UnknownProcessParent"
    ELSE IF ImagesFull(t) THEN "ProcessTreeLimitExceeded"
    ELSE "admitted"

\* What admit_child raises for a PID seen for the first time.
FreshVerdict(t, parent) ==
    IF parent \notin Known(t) THEN "UnknownProcessParent"
    ELSE IF ProcessesFull(t) \/ ImagesFull(t) THEN "ProcessTreeLimitExceeded"
    ELSE "admitted"

ChildVerdict(t, pid, parent, origin, token) ==
    IF pid \in Known(t) THEN KnownVerdict(t, pid, parent, origin, token)
    ELSE FreshVerdict(t, parent)

AdmitFresh_FlatDepth(t, pid, parent, token) ==
    AdmitNewProcess(t, pid, NewProcess(parent, t.processes[parent].depth, FALSE, token))

AdmitFresh(t, pid, parent, token) ==
    AdmitNewProcess(t, pid,
        NewProcess(parent, t.processes[parent].depth + 1, FALSE, token))

AdmitExec(t, pid) ==
    IF ImagesFull(t) THEN NoteOmittedImage(t) ELSE AppendExecImage(t, pid)

\* The registry admit_child leaves behind, whether it returns or raises.
AdmitChild(t, pid, parent, origin, token) ==
    LET verdict == ChildVerdict(t, pid, parent, origin, token)
        learned == IF pid \in Known(t) /\ ~TokenChanged(t, pid, token)
                   THEN LearnToken(t, pid, token) ELSE t
    IN  IF verdict \in {"DuplicateProcessImage", "UnknownProcessParent"} THEN learned
        ELSE IF pid \in Known(t) THEN AdmitExec(learned, pid)
        ELSE AdmitFresh(t, pid, parent, token)

-----------------------------------------------------------------------------
\* Marks on one admitted image (_require_image raises for any other).
MarkInstrumented(t, i) ==
    [t EXCEPT !.images[i].instrumented = TRUE, !.images[i].covered = TRUE]

MarkStatus(t, i, status) == [t EXCEPT !.images[i].status = status]

MarkCoverageLoss_NotLatched(t, i, reason) ==
    [t EXCEPT !.images[i] =
        [status |-> "PARTIAL", instrumented |-> FALSE, covered |-> FALSE,
         detach |-> IF @.detach = NoReason THEN reason ELSE @.detach]]

MarkCoverageLoss(t, i, reason) ==
    [t EXCEPT !.images[i] =
                 [status |-> "PARTIAL", instrumented |-> FALSE, covered |-> FALSE,
                  detach |-> IF @.detach = NoReason THEN reason ELSE @.detach],
              !.complete = FALSE]

MarkDetached_Unset(t, i, reason) == [t EXCEPT !.images[i].detach = "None"]
MarkDetached(t, i, reason) == [t EXCEPT !.images[i].detach = reason]

\* mark_active_at_root_exit ignores a PID it does not know.
MarkActiveAtRootExit(t, pid) ==
    IF pid \in Known(t) THEN [t EXCEPT !.processes[pid].active = TRUE] ELSE t

\* The order deepest_first sorts by: a comes before b.
CleanedBefore(t, a, b) ==
    LET da == t.processes[a].depth
        db == t.processes[b].depth
    IN  da > db \/ (da = db /\ a > b)

ShownStatuses(t) == {t.images[i].status : i \in KnownImgs(t)}

\* aggregate_instrumentation_status over freeze(fatal_failure=fatal).
AggregateStatus(t, fatal) ==
    LET shown == ShownStatuses(t) IN
    IF fatal \/ "FAILED" \in shown THEN "FAILED"
    ELSE IF ~TreeComplete(t) \/ "PARTIAL" \in shown THEN "PARTIAL"
    ELSE IF "ACTIVE" \in shown
         THEN IF "DETECTED_UNSUPPORTED" \in shown THEN "PARTIAL" ELSE "ACTIVE"
    ELSE IF "DETECTED_UNSUPPORTED" \in shown THEN "DETECTED_UNSUPPORTED"
    ELSE "NOT_DETECTED"

-----------------------------------------------------------------------------
\* What every registry the code can build satisfies; ProcessRegistry checks
\* these of its own registry and ProcessController of the run's.
TreeType(t) ==
    /\ DOMAIN t = {"root", "processes", "images", "complete", "omitted"}
    /\ t.root \in Pids \cup {NoPid}
    /\ Known(t) \subseteq Pids
    /\ t.processes \in [Known(t) -> Process]
    /\ KnownImgs(t) \subseteq Instances
    /\ t.images \in [KnownImgs(t) -> Image]
    /\ t.complete \in BOOLEAN
    /\ t.omitted \in Nat

TreeCaps(t) == /\ Cardinality(Known(t)) <= MaxFollowedProcesses
               /\ Cardinality(KnownImgs(t)) <= MaxProcessImages

TreeAncestry(t) ==
    /\ IF t.root = NoPid THEN Known(t) = {} ELSE t.root \in Known(t)
    /\ \A p \in Known(t) :
          LET s == t.processes[p] IN
          /\ s.root = (p = t.root)
          /\ s.root  => s.parent = NoPid /\ s.depth = 0
          /\ ~s.root => /\ s.parent \in Known(t)
                        /\ s.depth = t.processes[s.parent].depth + 1

TreeImages(t) ==
    /\ KnownImgs(t) = UNION {{p} \X (1..t.processes[p].generation) : p \in Known(t)}
    /\ \A i \in KnownImgs(t) :
          i[2] < t.processes[i[1]].generation => t.images[i].detach # NoReason

\* u keeps what t has recorded: an incomplete tree stays incomplete, and
\* where a process came from, a start token once known, the mark that it
\* outlived the root and an admitted image are never taken back.
Keeps(t, u) ==
    /\ ~t.complete => ~u.complete
    /\ KnownImgs(t) \subseteq KnownImgs(u)
    /\ Known(t) \subseteq Known(u)
    /\ \A p \in Known(t) :
          LET was == t.processes[p]
              now == u.processes[p]
          IN  /\ now.parent = was.parent /\ now.depth = was.depth
              /\ was.token # NoToken => now.token = was.token
              /\ was.active => now.active
=============================================================================
