------------------------- MODULE ProcessController -------------------------
(***************************************************************************)
(* process.py's ProcessController and the stream table of FridaBackend,     *)
(* driving a ProcessTree registry over a ProcessWorld.                      *)
(*                                                                         *)
(* Two threads run: the main thread, whose position is pc, and Frida's       *)
(* dispatch thread, which takes signals off the wire and calls the          *)
(* callbacks.  They share the queues, the stream table and errors.  Each    *)
(* queue access of the main thread is a step of its own, so a callback may  *)
(* come between any two of them.  A timeout may pass whenever the code      *)
(* waits.                                                                   *)
(***************************************************************************)
EXTENDS ProcessWorld

VARIABLES pc,          \* where the main thread is
          after,       \* where _service_runtime returns to; in a shutdown, what led to it
          cur,         \* the child being handled
          tree,        \* _tree
          streams,     \* FridaBackend._streams
          children,    \* _children
          released,    \* _released_child_keys
          notices,     \* _detach_notices
          events,      \* _queue
          pendingExec, \* _pending_exec, without the deadlines
          terminal,    \* _terminal_streams
          untracked,   \* _untracked_failure_pids
          tokens,      \* _process_tokens
          errors,      \* the phases _fail was called with, and for which PID
          emergency    \* the child the dispatch thread is resuming on overflow

queues == <<children, notices, events>>
marks  == <<released, terminal, untracked, tokens, pendingExec>>
vars   == <<world, setting, pc, after, cur, tree, streams, queues, marks, errors, emergency>>

NoChild == [pid |-> NoPid, parent |-> NoPid, origin |-> "fork"]

Failed == errors # {}
Fail(phase, p) == errors \cup {<<phase, p>>}

\* _process_start_token: a life number stands for the start time of a PID.
TokenOf(p) == IF Alive(p) THEN os[p].life ELSE NoToken

\* _remember_process and _remember_admission: the first token of a PID stays.
Remember(ps) == [p \in DOMAIN tokens \cup ps |-> IF p \in DOMAIN tokens THEN tokens[p]
                                                ELSE TokenOf(p)]

\* _same_process_alive
SameProcessAlive(p) == p \in DOMAIN tokens /\ Alive(p) /\ tokens[p] = TokenOf(p)

\* _process_parent_pid: an orphan is adopted outside the tree.
ParentOf(p) == IF ~Alive(p) THEN NoPid
               ELSE IF os[p].parent \in Pids /\ Alive(os[p].parent) THEN os[p].parent
               ELSE Launcher

Init ==
    /\ WorldInit
    /\ pc = "await_root" /\ after = "idle" /\ cur = NoChild
    /\ tree = EmptyTree /\ streams = {}
    /\ children = << >> /\ notices = << >> /\ events = << >>
    /\ released = {} /\ terminal = {} /\ untracked = {} /\ tokens = << >> /\ pendingExec = << >>
    /\ errors = {} /\ emergency = NoChild

-----------------------------------------------------------------------------
\* Callbacks, on the dispatch thread.

\* A child key is queued exactly while its child is in the queue.
Seen(c) == c \in ToSet(children) \/ c \in released

\* _on_child_added under _child_lock; the overflow is dealt with after it.
OnChildAdded(c) ==
    IF Seen(c) THEN UNCHANGED <<children, released, emergency>>
    ELSE IF Len(children) < setting.queue
    THEN children' = Append(children, c) /\ UNCHANGED <<released, emergency>>
    ELSE released' = released \cup {c} /\ emergency' = c /\ UNCHANGED children

\* The dispatch thread takes the next signal.  Signals of a stream that is no
\* longer current are dropped (_stream_is_current).
Dispatch ==
    LET m == Head(wire) IN
    /\ wire # << >> /\ emergency = NoChild
    /\ wire' = Tail(wire)
    /\ IF m.type = "child-added" /\ pc # "detach" THEN OnChildAdded(m.child)
       ELSE UNCHANGED <<children, released, emergency>>
    /\ notices' = IF m.type = "detached" /\ m.inst \in streams THEN Append(notices, m) ELSE notices
    /\ events' = IF m.type \in {"backend_ready", "FAILED"} /\ m.inst \in streams
                 THEN Append(events, m) ELSE events
    /\ UNCHANGED <<os, session, gating, pending, record, blind, pc, after, cur, tree, streams,
                   terminal, untracked, tokens, pendingExec, errors>>

\* The rest of an overflowing _on_child_added: resume the child and fail.
EmergencyResume ==
    /\ emergency # NoChild
    /\ untracked' = untracked \cup {emergency.pid}
    /\ tokens' = Remember({emergency.pid})
    /\ ResumeHeld({emergency.pid})
    /\ errors' = Fail("child_queue", emergency.pid)
    /\ emergency' = NoChild
    /\ UNCHANGED <<session, gating, wire, record, pc, after, cur, tree, streams, queues,
                   released, terminal, pendingExec>>

-----------------------------------------------------------------------------
\* Services the main thread calls.

\* detach_process for a set of instances: forget the streams, close their
\* gates, end the sessions that are still there.
DetachStreams(insts) ==
    /\ streams' = streams \ insts
    /\ gating' = gating \ insts
    /\ session' = [p \in Pids |-> IF session[p].inst \in insts THEN NoSession ELSE session[p]]

\* _record_event over the queued events: a FAILED status marks the image, and
\* the root's fails the run.
EventErrors == {<<"instrumentation", e.inst[1]>> :
                   e \in {x \in ToSet(events) : x.type = "FAILED" /\ tree.processes[x.inst[1]].root}}
FailedInsts == {e.inst : e \in {x \in ToSet(events) : x.type = "FAILED"}}
AfterEvents(t) ==
    [t EXCEPT !.images = [i \in KnownImgs(t) |->
        IF i \in FailedInsts THEN [t.images[i] EXCEPT !.status = "FAILED"] ELSE t.images[i]]]

\* _service_detach_notices
NoticeErrors_Ignored == {}
Gone(why)     == {n.inst : n \in {x \in ToSet(notices) : x.reason = why}}
GoneInsts     == {n.inst : n \in ToSet(notices)}
NoticeErrors  == {<<"detach", i[1]>> : i \in Gone("lost")}
\* The last notice of those at the places ks, which has the last word.
Latest(ks) == notices[CHOOSE k \in ks : \A j \in ks : j <= k]
AfterNotices(t) ==
    [t EXCEPT !.images = [i \in KnownImgs(t) |->
        IF i \in GoneInsts
        THEN [t.images[i] EXCEPT !.detach = Latest({k \in DOMAIN notices : notices[k].inst = i}).reason]
        ELSE t.images[i]]]
ReplacedPids == {i[1] : i \in Gone("process-replaced")}
Replaced ==
    [p \in DOMAIN pendingExec \cup ReplacedPids |->
        IF p \in ReplacedPids
        THEN Latest({k \in DOMAIN notices : /\ notices[k].inst[1] = p
                                          /\ notices[k].reason = "process-replaced"}).inst
        ELSE pendingExec[p]]

ServiceNotices ==
    /\ terminal' = terminal \cup GoneInsts
    /\ DetachStreams(Gone("process-replaced"))
    /\ notices' = << >>

\* _check_exec_replacement_timeouts over the table awaited: a PID whose image
\* changed is dropped, and any other may have reached its deadline.
StillAwaited_AnyImage(awaited, t) == DOMAIN awaited
StillAwaited(awaited, t) == {p \in DOMAIN awaited : Current(t, p) = awaited[p]}
CheckExecTimeouts(awaited, t, found) ==
    \E late \in SUBSET StillAwaited(awaited, t) :
        /\ pendingExec' = [p \in StillAwaited(awaited, t) \ late |-> awaited[p]]
        /\ errors' = found \cup {<<"exec_replacement", p>> : p \in late}

\* _service_runtime between two children: _drain_queue, then the notices and
\* the deadlines.
ServiceEvents ==
    /\ pc = "service"
    /\ pc' = "service_notices"
    /\ tree' = AfterEvents(tree)
    /\ events' = << >>
    /\ errors' = errors \cup EventErrors
    /\ UNCHANGED <<world, after, cur, streams, children, notices, marks, emergency>>

ServiceDetached ==
    /\ pc = "service_notices"
    /\ pc' = "next_child"
    /\ tree' = AfterNotices(tree)
    /\ ServiceNotices
    /\ CheckExecTimeouts(Replaced, tree, errors \cup NoticeErrors)
    /\ UNCHANGED <<os, pending, wire, record, blind, after, cur, children, events,
                   released, untracked, tokens, emergency>>

Shutdown == "release_unhandled"

\* The loop over _children ends when one of them failed the run or none is left.
ServiceReturns ==
    /\ pc = "next_child"
    /\ Failed \/ children = << >>
    /\ pc' = IF Failed THEN Shutdown ELSE after
    /\ UNCHANGED <<world, after, cur, tree, streams, queues, marks, errors, emergency>>

TakeChild ==
    /\ pc = "next_child"
    /\ ~Failed /\ children # << >>
    /\ cur' = Head(children) /\ children' = Tail(children)
    /\ pc' = "handle"
    /\ UNCHANGED <<world, after, tree, streams, notices, events, marks, errors, emergency>>

-----------------------------------------------------------------------------
\* Waiting for the root: _wait_for_root_child, _try_launch_failure.

\* _reconcile_pending_children: every suspended child the callbacks have not
\* reported goes through _on_child_added, overflow included, in the device's order.
Reconcile ==
    \E missed \in SetToSeqs({c \in pending : ~Seen(c)}) :
    LET room == setting.queue - Len(children)
        n    == IF room < Len(missed) THEN room ELSE Len(missed)
        over == ToSet(SubSeq(missed, n + 1, Len(missed)))
        pids == {c.pid : c \in over}
    IN  /\ children' = children \o SubSeq(missed, 1, n)
        /\ released' = released \cup over
        /\ untracked' = untracked \cup pids
        /\ tokens' = Remember(pids)
        /\ errors' = errors \cup {<<"child_queue", p>> : p \in pids}
        /\ ResumeHeld(pids)

ReconcileRoot ==
    /\ pc = "await_root"
    /\ ~Failed /\ children = << >> /\ \E c \in pending : ~Seen(c)
    /\ Reconcile
    /\ UNCHANGED <<session, gating, wire, record, pc, after, cur, tree, streams, notices,
                   events, terminal, pendingExec, emergency>>

AdmitRootChild ==
    /\ pc = "await_root"
    /\ ~Failed /\ children # << >>
    /\ cur' = Head(children) /\ children' = Tail(children)
    /\ tree' = AdmitRoot(tree, Head(children).pid, TokenOf(Head(children).pid))
    /\ tokens' = Remember({Head(children).pid})
    /\ pc' = "instrument"
    /\ UNCHANGED <<world, after, streams, notices, events, released, terminal, untracked,
                   pendingExec, errors, emergency>>

RootTimeout ==
    /\ pc = "await_root"
    /\ errors' = IF Failed THEN errors ELSE Fail("child_gating", Target)
    /\ pc' = Shutdown
    /\ UNCHANGED <<world, after, cur, tree, streams, queues, marks, emergency>>

LaunchFailed ==
    /\ pc = "await_root"
    /\ ~Failed /\ children = << >> /\ record = "launch_failure"
    /\ pc' = "finish"
    /\ UNCHANGED <<world, after, cur, tree, streams, queues, marks, errors, emergency>>

-----------------------------------------------------------------------------
\* _handle_runtime_child up to the admission.

\* _resume_pid_best_effort fails the run only if the process is still there.
BestEffort(phase, p) ==
    IF p \notin HeldPids /\ SameProcessAlive(p) THEN {<<phase, p>>} ELSE {}

ReleaseUnfollowed ==
    /\ pc = "handle"
    /\ ~setting.follow
    /\ released' = released \cup {cur}
    /\ ResumeHeld({cur.pid})
    /\ errors' = errors \cup BestEffort("root_only_release", cur.pid)
    /\ pc' = "service"
    /\ UNCHANGED <<session, gating, wire, record, after, cur, tree, streams, queues,
                   terminal, untracked, tokens, pendingExec, emergency>>

\* _resolve_runtime_parent: a fresh exec-only child names itself as parent.
SelfParented == cur.origin = "exec" /\ cur.parent = cur.pid /\ cur.pid \notin Known(tree)
ReportedParent == IF SelfParented THEN ParentOf(cur.pid) ELSE cur.parent
ParentInScope ==
    /\ ParentOf(cur.pid) \in Known(tree)
    /\ tokens[ParentOf(cur.pid)] \in {NoToken, TokenOf(ParentOf(cur.pid))}

RejectOrphan ==
    /\ pc = "handle"
    /\ setting.follow /\ SelfParented /\ ~ParentInScope
    /\ released' = released \cup {cur}
    /\ ResumeHeld({cur.pid})
    /\ errors' = Fail("child_gating", cur.pid) \cup BestEffort("emergency_resume", cur.pid)
    /\ pc' = "service"
    /\ UNCHANGED <<session, gating, wire, record, after, cur, tree, streams, queues,
                   terminal, untracked, tokens, pendingExec, emergency>>

\* An exec of a known PID first retires the previous image's stream.
Replaces == cur.origin = "exec" /\ cur.pid \in Known(tree)
Retired  == IF Replaces THEN MarkDetached(tree, Current(tree, cur.pid), "process-replaced") ELSE tree
Verdict  == ChildVerdict(Retired, cur.pid, ReportedParent, cur.origin, TokenOf(cur.pid))

RetirePrevious_KeepsStream ==
    /\ pendingExec' = [p \in DOMAIN pendingExec \ (IF Replaces THEN {cur.pid} ELSE {})
                          |-> pendingExec[p]]
    /\ tree' = AdmitChild(Retired, cur.pid, ReportedParent, cur.origin, TokenOf(cur.pid))
    /\ UNCHANGED <<streams, gating, session>>

RetirePrevious ==
    /\ DetachStreams(IF Replaces THEN {Current(tree, cur.pid)} ELSE {})
    /\ pendingExec' = [p \in DOMAIN pendingExec \ (IF Replaces THEN {cur.pid} ELSE {})
                          |-> pendingExec[p]]
    /\ tree' = AdmitChild(Retired, cur.pid, ReportedParent, cur.origin, TokenOf(cur.pid))

MayAdmitChild == pc = "handle" /\ setting.follow /\ (SelfParented => ParentInScope)

Admit ==
    /\ MayAdmitChild
    /\ Verdict = "admitted"
    /\ RetirePrevious
    /\ tokens' = Remember({cur.pid})
    /\ pc' = "instrument"
    /\ UNCHANGED <<os, pending, wire, record, blind, after, cur, queues,
                   released, terminal, untracked, errors, emergency>>

ReleaseOverCap_LeavesGated ==
    /\ MayAdmitChild
    /\ Verdict = "ProcessTreeLimitExceeded"
    /\ RetirePrevious
    /\ released' = released \cup {cur}
    /\ pc' = "service"
    /\ ResumeNone
    /\ UNCHANGED <<wire, record, after, cur, queues, terminal, untracked, tokens, errors, emergency>>

\* At a cap the child runs on uninstrumented; the omission is on record.
ReleaseOverCap ==
    /\ MayAdmitChild
    /\ Verdict = "ProcessTreeLimitExceeded"
    /\ RetirePrevious
    /\ released' = released \cup {cur}
    /\ ResumeHeld({cur.pid})
    /\ errors' = errors \cup BestEffort("process_cap_release", cur.pid)
    /\ pc' = "service"
    /\ UNCHANGED <<wire, record, after, cur, queues, terminal, untracked, tokens, emergency>>

ReleaseInvalid ==
    /\ MayAdmitChild
    /\ Verdict \in {"UnknownProcessParent", "DuplicateProcessImage"}
    /\ RetirePrevious
    /\ released' = released \cup {cur}
    /\ untracked' = untracked \cup {cur.pid}
    /\ tokens' = Remember({cur.pid})
    /\ ResumeHeld({cur.pid})
    /\ errors' = Fail("child_gating", cur.pid) \cup BestEffort("invalid_child_release", cur.pid)
    /\ pc' = "service"
    /\ UNCHANGED <<wire, record, after, cur, queues, terminal, emergency>>

-----------------------------------------------------------------------------
\* _instrument_stream and what its callers do with its outcome.
CurInst == Current(tree, cur.pid)
IsRoot  == tree.processes[cur.pid].root

Attach_Ungated ==
    /\ pc = "instrument"
    /\ Alive(cur.pid)
    /\ session' = [session EXCEPT ![cur.pid] = [inst |-> CurInst, agent |-> "loading"]]
    /\ streams' = streams \cup {CurInst}
    /\ pc' = "await_ready"
    /\ UNCHANGED <<os, gating, pending, wire, record, blind, after, cur, tree, queues, marks,
                   errors, emergency>>

\* attach_process, the child gate and load_process.
Attach ==
    /\ pc = "instrument"
    /\ Alive(cur.pid)
    /\ session' = [session EXCEPT ![cur.pid] = [inst |-> CurInst, agent |-> "loading"]]
    /\ streams' = streams \cup {CurInst}
    /\ gating' = IF setting.follow THEN gating \cup {CurInst} ELSE gating
    /\ pc' = "await_ready"
    /\ UNCHANGED <<os, pending, wire, record, blind, after, cur, tree, queues, marks,
                   errors, emergency>>

AttachFails ==
    /\ pc = "instrument"
    /\ "agent" \in setting.faults \/ ~Alive(cur.pid)
    /\ pc' = "not_ready"
    /\ UNCHANGED <<world, after, cur, tree, streams, queues, marks, errors, emergency>>

\* _wait_for_stream_ready: notices first, then one event.
AwaitReady ==
    /\ pc = "await_ready"
    /\ IF Failed THEN UNCHANGED <<session, gating, tree, streams, notices, terminal, pendingExec, errors>>
       ELSE /\ ServiceNotices
            /\ tree' = AfterNotices(tree)
            /\ pendingExec' = Replaced
            /\ errors' = errors \cup NoticeErrors
    /\ pc' = IF Failed \/ CurInst \in terminal' THEN "not_ready" ELSE "await_event"
    /\ UNCHANGED <<os, pending, wire, record, blind, after, cur, children, events,
                   released, untracked, tokens, emergency>>

TakeEvent ==
    /\ pc = "await_event"
    /\ events # << >>
    /\ LET e == Head(events) IN
       /\ tree' = IF e.type = "FAILED" THEN MarkStatus(tree, e.inst, "FAILED")
                  ELSE IF e.inst = CurInst THEN MarkInstrumented(tree, CurInst) ELSE tree
       /\ errors' = IF e.type = "FAILED" /\ tree.processes[e.inst[1]].root
                    THEN Fail("instrumentation", e.inst[1]) ELSE errors
       /\ pc' = IF e.inst # CurInst THEN "await_ready"
                ELSE IF e.type = "backend_ready" THEN "ready" ELSE "not_ready"
    /\ events' = Tail(events)
    /\ UNCHANGED <<world, after, cur, streams, children, notices, marks, emergency>>

EventWaitEnds ==
    /\ pc = "await_event"
    /\ events = << >> /\ (notices # << >> \/ Failed)
    /\ pc' = "await_ready"
    /\ UNCHANGED <<world, after, cur, tree, streams, queues, marks, errors, emergency>>

ReadyTimeout_Never == FALSE /\ UNCHANGED vars

\* The deadline may pass with the answer already queued.
ReadyTimeout ==
    /\ pc = "await_event"
    /\ pc' = "not_ready"
    /\ UNCHANGED <<world, after, cur, tree, streams, queues, marks, errors, emergency>>

\* The root is running its first image: run() itself is handling it.
RootStart == IsRoot /\ CurInst[2] = 1

\* The launcher is infrastructure: its gate is closed once the root has one.
CloseLauncherGate ==
    /\ pc = "ready"
    /\ RootStart /\ Launcher \in gating
    /\ gating' = gating \ {Launcher}
    /\ UNCHANGED <<os, session, pending, wire, record, blind, pc, after, cur, tree, streams,
                   queues, marks, errors, emergency>>

\* _resume_admission: nothing catches a resume that raises.
ResumeReady ==
    /\ pc = "ready"
    /\ ~(RootStart /\ Launcher \in gating)
    /\ IF cur.pid \in HeldPids
       THEN pc' = (IF RootStart THEN "idle" ELSE "service") /\ errors' = errors
       ELSE pc' = Shutdown /\ errors' = Fail("controller", cur.pid)
    /\ ResumeHeld({cur.pid})
    /\ UNCHANGED <<session, gating, wire, record, after, cur, tree, streams, queues, marks, emergency>>

RootNotReady ==
    /\ pc = "not_ready"
    /\ RootStart
    /\ DetachStreams({CurInst})
    /\ errors' = Fail("backend_ready", cur.pid)
    /\ pc' = Shutdown
    /\ UNCHANGED <<os, pending, wire, record, blind, after, cur, tree, queues, marks, emergency>>

\* A descendant without a stream is a coverage loss, and runs on.
ChildNotReady ==
    /\ pc = "not_ready"
    /\ ~RootStart /\ ~Failed
    /\ DetachStreams({CurInst})
    /\ tree' = MarkCoverageLoss(tree, CurInst, "lost")
    /\ pc' = "resume_lost"
    /\ UNCHANGED <<os, pending, wire, record, blind, after, cur, queues, marks, errors, emergency>>

ResumeLost_LeavesGated ==
    /\ pc = "resume_lost"
    /\ ResumeNone
    /\ pc' = "service"
    /\ UNCHANGED <<session, gating, wire, record, after, cur, tree, streams, queues, marks,
                   errors, emergency>>

ResumeLost ==
    /\ pc = "resume_lost"
    /\ ResumeHeld({cur.pid})
    /\ pc' = "service"
    /\ UNCHANGED <<session, gating, wire, record, after, cur, tree, streams, queues, marks,
                   errors, emergency>>

\* The run failed meanwhile: release the child and let shutdown find it.
ChildAbandoned ==
    /\ pc = "not_ready"
    /\ ~RootStart /\ Failed
    /\ ResumeHeld({cur.pid})
    /\ errors' = errors \cup BestEffort("fatal_child_instrumentation_release", cur.pid)
    /\ pc' = "service"
    /\ UNCHANGED <<session, gating, wire, record, after, cur, tree, streams, queues, marks, emergency>>

-----------------------------------------------------------------------------
\* _receive_completion: accept, or time out and service the runtime.
Idle ==
    /\ pc = "idle"
    /\ record # "completion"
    /\ queues # <<<< >>, << >>, << >>>> \/ pendingExec # << >> \/ Failed
    /\ pc' = "service" /\ after' = "idle"
    /\ UNCHANGED <<world, cur, tree, streams, queues, marks, errors, emergency>>

\* _mark_active_at_root_exit
Survivors == {p \in Known(tree) : ~tree.processes[p].root /\ SameProcessAlive(p)}
MarkSurvivors ==
    [tree EXCEPT !.processes = [p \in Known(tree) |->
        IF p \in Survivors THEN [tree.processes[p] EXCEPT !.active = TRUE] ELSE tree.processes[p]]]

Complete ==
    /\ pc = "idle"
    /\ record = "completion"
    /\ tree' = MarkSurvivors
    /\ pc' = "drain"
    /\ UNCHANGED <<world, after, cur, streams, queues, marks, errors, emergency>>

\* One round of _drain_after_root_completion.
Drain ==
    /\ pc = "drain"
    /\ IF setting.follow THEN Reconcile
       ELSE ResumeNone /\ UNCHANGED <<children, released, untracked, tokens, errors>>
    /\ pc' = "service" /\ after' = "drained"
    /\ UNCHANGED <<session, gating, wire, record, cur, tree, streams, notices, events,
                   terminal, pendingExec, emergency>>

\* The quiet period outlasts the delivery of signals already sent.
Drained ==
    /\ pc = "drained"
    /\ ~Failed /\ queues = <<<< >>, << >>, << >>>> => wire = << >>
    /\ pc' = IF Failed THEN Shutdown
             ELSE IF queues = <<<< >>, << >>, << >>>> THEN "release" ELSE "drain"
    /\ UNCHANGED <<world, after, cur, tree, streams, queues, marks, errors, emergency>>

\* The deadline passes: one last service, whatever is still arriving.
DrainDeadline ==
    /\ pc = "drained"
    /\ wire = << >>
    /\ pc' = "service" /\ after' = "release"
    /\ UNCHANGED <<world, cur, tree, streams, queues, marks, errors, emergency>>

Release_MarksOnce ==
    /\ pc = "release"
    /\ ResumeHeld(HeldPids)
    /\ pc' = "close_streams"
    /\ UNCHANGED <<session, gating, wire, record, after, cur, tree, streams, queues, marks,
                   errors, emergency>>

\* _mark_active_at_root_exit again, and release_pending_children.
Release ==
    /\ pc = "release"
    /\ tree' = MarkSurvivors
    /\ ResumeHeld(HeldPids)
    /\ pc' = "close_streams"
    /\ UNCHANGED <<session, gating, wire, record, after, cur, streams, queues, marks, errors, emergency>>

CloseStreams ==
    /\ pc = "close_streams"
    /\ DetachStreams(streams)
    /\ pc' = IF Failed THEN Shutdown ELSE "finish"
    /\ UNCHANGED <<os, pending, blind, wire, record, after, cur, tree, queues, marks, errors, emergency>>

-----------------------------------------------------------------------------
\* _shutdown_processes.

\* _release_unhandled_children_for_failure, the snapshot.
ReleaseUnhandled ==
    LET unhandled == pending \cup ToSet(children) IN
    /\ pc = Shutdown
    /\ untracked' = untracked \cup {c.pid : c \in unhandled}
    /\ tokens' = Remember({c.pid : c \in unhandled})
    /\ ResumeHeld({c.pid : c \in unhandled \ released})
    /\ released' = released \cup unhandled
    /\ children' = << >>
    /\ pc' = "close_gates"
    /\ after' = IF after = "interrupted" THEN after ELSE "failed"
    /\ UNCHANGED <<session, gating, wire, record, cur, tree, streams, notices, events,
                   terminal, pendingExec, errors, emergency>>

\* disable_all_child_gating.
CloseGates ==
    /\ pc = "close_gates"
    /\ gating' = {}
    /\ pc' = "collect"
    /\ UNCHANGED <<os, pending, blind, session, wire, record, after, cur, tree, streams, queues, marks, errors, emergency>>

\* The PIDs of children whose callbacks raced with the snapshot; the wait
\* outlasts the delivery of signals already sent.
Collect ==
    /\ pc = "collect"
    /\ wire = << >> /\ emergency = NoChild
    /\ untracked' = untracked \cup {c.pid : c \in ToSet(children)}
    /\ tokens' = Remember({c.pid : c \in ToSet(children)})
    /\ children' = << >>
    /\ pc' = "kill"
    /\ UNCHANGED <<world, after, cur, tree, streams, notices, events, released, terminal,
                   pendingExec, errors, emergency>>

Doomed_AdmittedOnly == {p \in Known(tree) : SameProcessAlive(p)}
Doomed == {p \in Known(tree) \cup untracked : SameProcessAlive(p)}

\* Signals and, when they are ignored, SIGKILL: every known process is gone,
\* the launcher too.
Kill ==
    /\ pc = "kill"
    /\ os' = [p \in Pids |-> IF p \in Doomed THEN [os[p] EXCEPT !.state = "dead"] ELSE os[p]]
    /\ session' = [p \in Pids |-> IF p \in Doomed THEN NoSession ELSE session[p]]
    /\ pending' = {c \in pending : c.pid \notin Doomed}
    /\ record' = IF record = "none" THEN "killed" ELSE record
    /\ pc' = "finish"
    /\ UNCHANGED <<gating, wire, blind, after, cur, tree, streams, queues, marks,
                   errors, emergency>>

\* The finally block: the last events and notices, then FridaBackend.detach,
\* which forgets the streams and resumes what is suspended...
Finish ==
    /\ pc = "finish"
    /\ tree' = AfterNotices(AfterEvents(tree))
    /\ events' = << >> /\ notices' = << >>
    /\ terminal' = terminal \cup GoneInsts
    /\ pendingExec' = Replaced
    /\ errors' = errors \cup EventErrors \cup NoticeErrors
    /\ streams' = {}
    /\ ResumeHeld(HeldPids)
    /\ pc' = "detach"
    /\ UNCHANGED <<session, gating, wire, record, after, cur, children, released, untracked,
                   tokens, emergency>>

\* ... before it closes the gates and ends the sessions.
Detach ==
    /\ pc = "detach"
    /\ gating' = {}
    /\ session' = [p \in Pids |-> NoSession]
    /\ pc' = "done"
    /\ UNCHANGED <<os, pending, wire, record, blind, after, cur, tree, streams, queues, marks,
                   errors, emergency>>

\* KeyboardInterrupt, anywhere in run's try block; "after" remembers it.
Interrupt ==
    /\ "interrupt" \in setting.faults
    /\ pc \notin {Shutdown, "close_gates", "collect", "kill", "finish", "detach", "done"}
    /\ pc' = Shutdown
    /\ after' = "interrupted"
    /\ errors' = IF Known(tree) = {} THEN Fail("interrupt_cleanup", Target) ELSE errors
    /\ UNCHANGED <<world, setting, cur, tree, streams, queues, marks, emergency>>

-----------------------------------------------------------------------------
Main ==
    /\ \/ ReconcileRoot \/ AdmitRootChild \/ RootTimeout \/ LaunchFailed
       \/ ServiceEvents \/ ServiceDetached \/ ServiceReturns \/ TakeChild
       \/ ReleaseUnfollowed \/ RejectOrphan \/ Admit \/ ReleaseOverCap \/ ReleaseInvalid
       \/ Attach \/ AttachFails \/ AwaitReady \/ TakeEvent \/ EventWaitEnds \/ ReadyTimeout
       \/ CloseLauncherGate \/ ResumeReady
       \/ RootNotReady \/ ChildNotReady \/ ResumeLost \/ ChildAbandoned
       \/ Idle \/ Complete \/ Drain \/ Drained \/ DrainDeadline \/ Release \/ CloseStreams
       \/ ReleaseUnhandled \/ CloseGates \/ Collect \/ Kill \/ Finish \/ Detach
    /\ UNCHANGED setting

Callbacks == pc # "done" /\ (Dispatch \/ EmergencyResume) /\ UNCHANGED setting

\* After the run only a gate that was closed still acts.
World == /\ \/ pc # "done" /\ WorldStep
            \/ \E p \in Pids : GateReleases(p)
         /\ UNCHANGED <<setting, pc, after, cur, tree, streams, queues, marks, errors, emergency>>

Done == pc = "done" /\ UNCHANGED vars

Next == Main \/ Interrupt \/ Callbacks \/ World \/ Done

Spec == Init /\ [][Next]_vars

\* The threads run; the launcher reports the exit of the target; a closed gate
\* lets go.  Nothing is asked of the application, and no interrupt is owed.
FairSpec == Spec /\ WF_vars(Main) /\ WF_vars(Callbacks)
                 /\ WF_vars(LauncherReports /\ pc # "done" /\ World)
                 /\ \A p \in Pids : WF_vars(GateReleases(p) /\ World)

-----------------------------------------------------------------------------
\* The registry and the tables keep their shape: the capped tree stays a tree
\* of dense image lists, and one stream at most serves a PID.
TypeOK ==
    /\ TreeType(tree) /\ TreeCaps(tree) /\ TreeAncestry(tree) /\ TreeImages(tree)
    /\ Len(children) <= setting.queue
    /\ \A i \in streams : i[1] \in Known(tree)
    /\ DOMAIN pendingExec \subseteq Known(tree) /\ Known(tree) \subseteq DOMAIN tokens

\* A run that follows children, ends by itself without a failure and calls its
\* tree complete let no image run unobserved while the target lived: every image had a ready
\* agent before it was resumed (process.py _instrument_stream, _resume_admission).
CoverageSound ==
    pc = "done" /\ ~Failed /\ after # "interrupted" /\ setting.follow /\ TreeComplete(tree)
        => blind = {}

\* With the controller waiting, every signal served and no failure, no child is
\* left suspended: each gated child was followed or released
\* (_handle_runtime_child resumes on every one of its paths).
GatedIsHandled ==
    pc = "idle" /\ wire = << >> /\ queues = <<<< >>, << >>, << >>>> /\ ~Failed
        /\ emergency = NoChild
        => pending = {}

\* One PID is served by one stream: an exec'd image's stream replaces the old
\* image's (detach_process before admit_child).
OneStreamPerPid == \A i, j \in streams : i[1] = j[1] => i = j

\* Nobody the run took charge of outlives a shutdown (_shutdown_processes).  A run that
\* ends by itself leaves followed descendants, on record as active at the root's exit
\* (_mark_active_at_root_exit runs before and after the drain), and, named by the error
\* of a run that fails, children whose report overflowed the queue after the last look at
\* the errors: nothing shuts the tree down for these (process.py:244-255).
ShutDown == after \in {"failed", "interrupted"}
SurvivorsReported ==
    pc = "done" => \A p \in Known(tree) \cup untracked : SameProcessAlive(p) =>
        /\ record = "completion" /\ ~ShutDown
        /\ \/ p \in Known(tree) /\ tree.processes[p].active
           \/ <<"child_queue", p>> \in errors

\* An exec is declared lost only if its child was not handled meanwhile, neither
\* followed nor released ("exec replacement child-added timed out for PID").
ExecTimeoutMeansNoChild ==
    [][\A p \in Pids : ~Failed /\ <<"exec_replacement", p>> \in errors'
           => /\ tree'.images[Current(tree', p)].detach = "process-replaced"
              /\ ~\E c \in released \ {emergency} : c.pid = p /\ c.origin = "exec"]_vars

\* Once the target is gone the run comes to its end.
RunEnds == TargetOver ~> pc = "done"

\* No child stays suspended for ever.
HeldIsFreed == \A p \in Pids : p \in HeldPids ~> p \notin HeldPids
=============================================================================
