--------------------------- MODULE ControllerProofs ---------------------------
(***************************************************************************)
(* Proofs about ProcessController, for every setting: any PIDs, caps, queue  *)
(* limit and faults, any number of images and lives, children followed or    *)
(* not.  The inductive invariant has two parts: Shape says what the queues    *)
(* and tables hold, and Outcome follows the run from the root's arrival to   *)
(* the end, by either of its two ways out.                                   *)
(*                                                                         *)
(* The second half shows that no image runs unobserved in a run that calls   *)
(* its tree complete, and that no child is left suspended, as long as PIDs   *)
(* are not used again and, for the first, no exec escapes its gate.  It adds  *)
(* four parts to the invariant.  General says how                            *)
(* sessions and the messages about them belong to admitted images; it holds  *)
(* in every situation.  Tick and PlaceOK hold until something fails or the   *)
(* target's exit is received: each suspended child has one report, which is  *)
(* on its way, queued or at hand, and a gate that is on.  WatchOK says that   *)
(* whoever runs then has a ready agent, unless the end of a lost session is   *)
(* still to be served (Unserved), which fails the run.                        *)
(***************************************************************************)
EXTENDS ProcessController, ProcessTreeLemmas, SequenceTheorems

\* What the world holds.
Gate    == Instances \cup {Launcher, NoInst}
Proc    == [state: {"unused", "gated", "running", "dead"}, parent: Pids \cup {Launcher},
            image: Nat, life: Nat, gate: Gate]
Session == [inst: Instances \cup {NoInst}, agent: {"none", "loading", "ready", "failed"}]
Event   == [type: {"backend_ready", "FAILED"}, inst: Instances \cup {NoInst}]
Notice  == [type: {"detached"}, inst: Instances \cup {NoInst}, reason: Reasons]
Message == [type: {"child-added"}, child: Child] \cup Notice \cup Event

ProcessesOK ==
    /\ setting \in Settings
    /\ os \in [Pids -> Proc]
    /\ \A p \in Pids : /\ os[p].life <= setting.lives
                       /\ os[p].state # "unused" => os[p].life >= 1
SessionsOK == session \in [Pids -> Session]
HeldOK ==
    /\ pending \subseteq Child /\ IsFiniteSet(pending)
    /\ \A c \in pending : os[c.pid].state = "gated"
QueuesOK ==
    /\ wire \in Seq(Message)
    /\ children \in Seq(Child) /\ Len(children) <= setting.queue
    /\ notices \in Seq(Notice) /\ events \in Seq(Event)
    /\ emergency \in Child \cup {NoChild}

\* Whatever the tables name is in the tree.
TablesOK ==
    /\ \A n \in ToSet(notices) \cup ToSet(events) : n.inst \in KnownImgs(tree)
    /\ \A i \in streams : i[1] \in Known(tree) /\ i = Current(tree, i[1])
    /\ DOMAIN pendingExec \subseteq Known(tree)
TokensOK ==
    /\ DOMAIN tokens \subseteq Pids /\ Known(tree) \cup untracked \subseteq DOMAIN tokens
    /\ \A p \in DOMAIN tokens : tokens[p] # NoToken => /\ tokens[p] \in Nat
                                                     /\ tokens[p] <= os[p].life

\* Where the main thread is: the child at hand, and which pc and after go together.
Instrumenting == {"instrument", "await_ready", "await_event", "ready", "not_ready", "resume_lost"}
Closing == {"release_unhandled", "close_gates", "collect", "kill", "finish", "detach", "done"}
Over    == {"finish", "detach", "done"}
ControlOK ==
    /\ after \in {"idle", "drained", "release", "failed", "interrupted"}
    /\ ShutDown => pc \in Closing
    /\ pc = "await_root" => tree = EmptyTree
    /\ pc = "handle" => cur \in Child
    /\ pc \in Instrumenting => cur \in Child /\ cur.pid \in Known(tree)

Shape == /\ ProcessesOK /\ SessionsOK /\ HeldOK /\ QueuesOK
         /\ TreeOK(tree) /\ TablesOK /\ TokensOK /\ ControlOK

\* Children on the wire.
Coming == {m.child : m \in {x \in ToSet(wire) : x.type = "child-added"}}

\* Nothing but the target is gated before the root is admitted, and nothing exists
\* before the target does.
BeforeRoot ==
    /\ tree.root \in {NoPid, Target}
    /\ pc = "await_root" =>
          /\ \A p \in Pids : session[p] = NoSession
          /\ \A c \in pending \cup ToSet(children) \cup Coming \cup ({emergency} \ {NoChild}) :
                c.pid = Target
    /\ os[Target].state = "unused" => pending = {} /\ \A p \in Pids : os[p].state = "unused"
RecordOK ==
    /\ record = "launch_failure" => os[Target].state = "unused"
    /\ record = "completion" => TargetOver

\* Past the root's exit the launcher has reported it; a shutdown goes all its way.
PhaseOK ==
    /\ pc \in {"close_gates", "collect", "kill"} => ShutDown
    /\ after \in {"drained", "release"} \/ pc \in {"drain", "drained", "release", "close_streams"}
          => record = "completion" \/ ShutDown
UntrackedFails == ~ShutDown => Failed \/ untracked = {}

\* A shutdown: the gates are closed, nothing more arrives, nobody is left.
GatesClosed == pc \in {"collect", "kill"} \/ (pc \in Over /\ ShutDown) => gating = {}
NothingComes ==
    pc = "kill" \/ (pc \in Over /\ ShutDown) => emergency = NoChild /\ Coming = {}
NobodyLeft ==
    pc \in Over /\ ShutDown => \A p \in Known(tree) \cup untracked : ~SameProcessAlive(p)

\* A run that ends by itself: survivors are marked, or named by an error.
SurvivorsMarked ==
    pc = "close_streams" \/ (pc \in Over /\ ~ShutDown /\ record # "launch_failure")
        => \A p \in Known(tree) : SameProcessAlive(p) => tree.processes[p].active
EndsByItself ==
    pc \in Over /\ ~ShutDown =>
        /\ record \in {"completion", "launch_failure"}
        /\ \A p \in untracked : <<"child_queue", p>> \in errors

Outcome == /\ BeforeRoot /\ RecordOK /\ PhaseOK /\ UntrackedFails
           /\ GatesClosed /\ NothingComes /\ NobodyLeft /\ SurvivorsMarked /\ EndsByItself

-----------------------------------------------------------------------------
(* Sequences: what an element more or less changes. *)

\* One more element.
LEMMA AppendSet ==
    ASSUME NEW S, NEW q \in Seq(S), NEW x \in S
    PROVE  /\ Append(q, x) \in Seq(S) /\ Len(Append(q, x)) = Len(q) + 1 /\ Len(q) \in Nat
           /\ ToSet(Append(q, x)) = ToSet(q) \cup {x}
           /\ ToSet(q) \subseteq S
<1> DEFINE r == Append(q, x)
<1>1. /\ r \in Seq(S) /\ Len(r) = Len(q) + 1 /\ Len(q) \in Nat
      /\ DOMAIN q = 1 .. Len(q) /\ DOMAIN r = 1 .. Len(q) + 1
      /\ \A i \in 1 .. Len(q) : r[i] = q[i] /\ q[i] \in S
      /\ r[Len(q) + 1] = x
  OBVIOUS
<1> HIDE DEF r
<1>2. \A i \in DOMAIN r : r[i] \in ToSet(q) \cup {x}
  BY <1>1 DEF ToSet
<1>3. \A i \in DOMAIN q : q[i] \in ToSet(r) /\ q[i] \in S
  BY <1>1 DEF ToSet
<1>4. x \in ToSet(r)
  BY <1>1 DEF ToSet
<1> QED BY <1>1, <1>2, <1>3, <1>4 DEF ToSet, r

\* One element less.
LEMMA TailSet ==
    ASSUME NEW S, NEW q \in Seq(S), q # << >>
    PROVE  /\ Head(q) \in S /\ Tail(q) \in Seq(S)
           /\ Len(q) \in Nat /\ Len(Tail(q)) = Len(q) - 1
           /\ ToSet(q) = ToSet(Tail(q)) \cup {Head(q)}
<1> DEFINE r == Tail(q)
<1>1. /\ r \in Seq(S) /\ Len(r) = Len(q) - 1 /\ Len(q) \in Nat /\ Len(q) >= 1
      /\ DOMAIN q = 1 .. Len(q) /\ DOMAIN r = 1 .. Len(q) - 1
      /\ \A i \in 1 .. Len(q) - 1 : r[i] = q[i + 1]
      /\ Head(q) = q[1] /\ q[1] \in S
  OBVIOUS
<1> HIDE DEF r
<1>2. \A i \in DOMAIN q : i = 1 \/ (i - 1 \in DOMAIN r /\ r[i - 1] = q[i])
  BY <1>1
<1>3. \A i \in DOMAIN r : i + 1 \in DOMAIN q /\ r[i] = q[i + 1]
  BY <1>1
<1>4. 1 \in DOMAIN q
  BY <1>1
<1>5. ToSet(q) = ToSet(r) \cup {q[1]}
  BY <1>2, <1>3, <1>4 DEF ToSet
<1> QED BY <1>1, <1>5 DEF r

\* Two sequences, one after the other.
LEMMA ConcatSet ==
    ASSUME NEW S, NEW q \in Seq(S), NEW r \in Seq(S)
    PROVE  /\ q \o r \in Seq(S) /\ Len(q \o r) = Len(q) + Len(r)
           /\ Len(q) \in Nat /\ Len(r) \in Nat
           /\ ToSet(q \o r) = ToSet(q) \cup ToSet(r)
<1> DEFINE s == q \o r
<1>1. /\ s \in Seq(S) /\ Len(s) = Len(q) + Len(r) /\ Len(q) \in Nat /\ Len(r) \in Nat
      /\ \A i \in 1 .. Len(q) + Len(r) : s[i] = IF i <= Len(q) THEN q[i] ELSE r[i - Len(q)]
  BY ConcatProperties
<1>2. /\ DOMAIN q = 1 .. Len(q) /\ DOMAIN r = 1 .. Len(r) /\ DOMAIN s = 1 .. Len(s)
  BY <1>1
<1> HIDE DEF s
<1>3. \A i \in DOMAIN s : s[i] \in ToSet(q) \cup ToSet(r)
  <2> SUFFICES ASSUME NEW i \in DOMAIN s PROVE s[i] \in ToSet(q) \cup ToSet(r)
    OBVIOUS
  <2>1. CASE i <= Len(q)
    <3>1. i \in DOMAIN q /\ s[i] = q[i]
      BY <1>1, <1>2, <2>1
    <3> QED BY <3>1 DEF ToSet
  <2>2. CASE ~(i <= Len(q))
    <3>1. i - Len(q) \in DOMAIN r /\ s[i] = r[i - Len(q)]
      BY <1>1, <1>2, <2>2
    <3> QED BY <3>1 DEF ToSet
  <2> QED BY <2>1, <2>2
<1>4. \A i \in DOMAIN q : i \in DOMAIN s /\ s[i] = q[i]
  BY <1>1, <1>2
<1>5. \A i \in DOMAIN r : i + Len(q) \in DOMAIN s /\ s[i + Len(q)] = r[i]
  BY <1>1, <1>2
<1>6. ToSet(s) = ToSet(q) \cup ToSet(r)
  <2>1. ToSet(q) \subseteq ToSet(s)
    BY <1>4 DEF ToSet
  <2>2. ToSet(r) \subseteq ToSet(s)
    BY <1>5 DEF ToSet
  <2>3. ToSet(s) \subseteq ToSet(q) \cup ToSet(r)
    BY <1>3 DEF ToSet
  <2> QED BY <2>1, <2>2, <2>3
<1> QED BY <1>1, <1>6 DEF s

\* One element, or none.
LEMMA SmallSets ==
    /\ ToSet(<< >>) = {} /\ \A x : ToSet(<<x>>) = {x}
    /\ \A S : << >> \in Seq(S) /\ \A x \in S : <<x>> \in Seq(S)
<1>1. ToSet(<< >>) = {} /\ \A x : ToSet(<<x>>) = {x}
  BY DEF ToSet
<1>2. \A S : << >> \in Seq(S) /\ \A x \in S : <<x>> \in Seq(S)
  OBVIOUS
<1> QED BY <1>1, <1>2

\* The first elements of a sequence.
LEMMA PrefixSet ==
    ASSUME NEW S, NEW q \in Seq(S), NEW n \in 0 .. Len(q)
    PROVE  /\ SubSeq(q, 1, n) \in Seq(S) /\ Len(SubSeq(q, 1, n)) = n
           /\ ToSet(SubSeq(q, 1, n)) \subseteq ToSet(q)
<1> DEFINE r == SubSeq(q, 1, n)
<1>1. /\ r \in Seq(S) /\ Len(r) = n /\ Len(q) \in Nat
      /\ DOMAIN q = 1 .. Len(q) /\ DOMAIN r = 1 .. n
      /\ \A i \in 1 .. n : r[i] = q[i]
  OBVIOUS
<1> HIDE DEF r
<1>2. \A i \in DOMAIN r : i \in DOMAIN q /\ r[i] = q[i]
  BY <1>1
<1> QED BY <1>1, <1>2 DEF ToSet, r

-----------------------------------------------------------------------------
(* Which steps change what.  A step that is not named leaves the variable alone. *)

Resuming  == \E ps : ResumeHeld(ps)
Detaching == \E insts : DetachStreams(insts)

OsMoves        == \/ UNCHANGED <<os, pending, blind>> \/ Resuming \/ Kill \/ WorldStep
SessionMoves   == \/ UNCHANGED session \/ Detaching \/ Attach \/ Kill \/ Detach
                  \/ WorldStep
GateMoves      == \/ UNCHANGED gating \/ Detaching \/ Attach \/ CloseLauncherGate
                  \/ CloseGates \/ Detach
StreamMoves    == \/ UNCHANGED streams \/ ServiceDetached \/ Admit \/ ReleaseOverCap
                  \/ ReleaseInvalid \/ Attach \/ AwaitReady \/ RootNotReady
                  \/ ChildNotReady \/ CloseStreams \/ Finish
WireMoves      == \/ UNCHANGED wire \/ Dispatch \/ WorldStep
RecordMoves    == \/ UNCHANGED record \/ Kill \/ WorldStep
ChildMoves     == \/ UNCHANGED children \/ ReconcileRoot \/ AdmitRootChild \/ TakeChild
                  \/ Drain \/ ReleaseUnhandled \/ Collect \/ Dispatch
EmergencyMoves == \/ UNCHANGED emergency \/ Dispatch \/ EmergencyResume
TokenMoves     == \/ UNCHANGED <<untracked, tokens>> \/ ReconcileRoot \/ AdmitRootChild
                  \/ Admit \/ ReleaseInvalid \/ Drain \/ ReleaseUnhandled \/ Collect
                  \/ EmergencyResume
NoticeMoves    == \/ UNCHANGED notices \/ ServiceDetached \/ AwaitReady \/ Finish
                  \/ Dispatch
EventMoves     == \/ UNCHANGED events \/ ServiceEvents \/ TakeEvent \/ Finish
                  \/ Dispatch
TreeMoves      == \/ UNCHANGED tree \/ AdmitRootChild \/ ServiceEvents
                  \/ ServiceDetached \/ Admit \/ ReleaseOverCap \/ ReleaseInvalid
                  \/ AwaitReady \/ TakeEvent \/ ChildNotReady \/ Complete \/ Release
                  \/ Finish
ExecMoves      == \/ UNCHANGED pendingExec \/ ServiceDetached \/ Admit \/ ReleaseOverCap
                  \/ ReleaseInvalid \/ AwaitReady \/ Finish

LEMMA Frames ==
    ASSUME [Next]_vars
    PROVE  /\ setting' = setting
           /\ OsMoves /\ SessionMoves /\ GateMoves /\ StreamMoves /\ WireMoves /\ RecordMoves
           /\ ChildMoves /\ EmergencyMoves /\ TokenMoves /\ NoticeMoves /\ EventMoves
           /\ TreeMoves /\ ExecMoves
<1> USE DEF OsMoves, SessionMoves, GateMoves, StreamMoves, WireMoves, RecordMoves, ChildMoves,
            EmergencyMoves, TokenMoves, NoticeMoves, EventMoves, TreeMoves, ExecMoves
<1>1. CASE ReconcileRoot /\ UNCHANGED setting
  <2>1. UNCHANGED <<session, gating, wire, record, pc, after, cur, tree, streams,
                    notices, events, pendingExec, emergency>>
    BY <1>1 DEF ReconcileRoot, world, queues, marks
  <2>2. Resuming
    BY <1>1 DEF ReconcileRoot, Reconcile, Resuming
  <2> QED BY <1>1, <2>1, <2>2
<1>2. CASE AdmitRootChild /\ UNCHANGED setting
  <2>1. UNCHANGED <<os, pending, blind, session, gating, wire, record, after, streams,
                    notices, events, untracked, pendingExec, errors, emergency>>
    BY <1>2 DEF AdmitRootChild, world, queues, marks
  <2> QED BY <1>2, <2>1
<1>3. CASE RootTimeout /\ UNCHANGED setting
  <2>1. UNCHANGED <<os, pending, blind, session, gating, wire, record, after, cur,
                    tree, streams, children, notices, events, untracked, tokens,
                    pendingExec, emergency>>
    BY <1>3 DEF RootTimeout, world, queues, marks
  <2> QED BY <1>3, <2>1
<1>4. CASE LaunchFailed /\ UNCHANGED setting
  <2>1. UNCHANGED <<os, pending, blind, session, gating, wire, record, after, cur,
                    tree, streams, children, notices, events, untracked, tokens,
                    pendingExec, errors, emergency>>
    BY <1>4 DEF LaunchFailed, world, queues, marks
  <2> QED BY <1>4, <2>1
<1>5. CASE ServiceEvents /\ UNCHANGED setting
  <2>1. UNCHANGED <<os, pending, blind, session, gating, wire, record, after, cur,
                    streams, children, notices, untracked, tokens, pendingExec,
                    emergency>>
    BY <1>5 DEF ServiceEvents, world, queues, marks
  <2> QED BY <1>5, <2>1
<1>6. CASE ServiceDetached /\ UNCHANGED setting
  <2>1. UNCHANGED <<os, pending, blind, wire, record, after, cur, children, events,
                    untracked, tokens, emergency>>
    BY <1>6 DEF ServiceDetached, world, queues, marks
  <2>2. Detaching
    BY <1>6 DEF ServiceDetached, ServiceNotices, Detaching
  <2> QED BY <1>6, <2>1, <2>2
<1>7. CASE ServiceReturns /\ UNCHANGED setting
  <2>1. UNCHANGED <<os, pending, blind, session, gating, wire, record, after, cur,
                    tree, streams, children, notices, events, untracked, tokens,
                    pendingExec, errors, emergency>>
    BY <1>7 DEF ServiceReturns, world, queues, marks
  <2> QED BY <1>7, <2>1
<1>8. CASE TakeChild /\ UNCHANGED setting
  <2>1. UNCHANGED <<os, pending, blind, session, gating, wire, record, after, tree,
                    streams, notices, events, untracked, tokens, pendingExec, errors,
                    emergency>>
    BY <1>8 DEF TakeChild, world, queues, marks
  <2> QED BY <1>8, <2>1
<1>9. CASE ReleaseUnfollowed /\ UNCHANGED setting
  <2>1. UNCHANGED <<session, gating, wire, record, after, cur, tree, streams, children,
                    notices, events, untracked, tokens, pendingExec, emergency>>
    BY <1>9 DEF ReleaseUnfollowed, world, queues, marks
  <2>2. Resuming
    BY <1>9 DEF ReleaseUnfollowed, Resuming
  <2> QED BY <1>9, <2>1, <2>2
<1>10. CASE RejectOrphan /\ UNCHANGED setting
  <2>1. UNCHANGED <<session, gating, wire, record, after, cur, tree, streams, children,
                    notices, events, untracked, tokens, pendingExec, emergency>>
    BY <1>10 DEF RejectOrphan, world, queues, marks
  <2>2. Resuming
    BY <1>10 DEF RejectOrphan, Resuming
  <2> QED BY <1>10, <2>1, <2>2
<1>11. CASE Admit /\ UNCHANGED setting
  <2>1. UNCHANGED <<os, pending, blind, wire, record, after, cur, children, notices,
                    events, untracked, errors, emergency>>
    BY <1>11 DEF Admit, world, queues, marks
  <2>2. Detaching
    BY <1>11 DEF Admit, RetirePrevious, Detaching
  <2> QED BY <1>11, <2>1, <2>2
<1>12. CASE ReleaseOverCap /\ UNCHANGED setting
  <2>1. UNCHANGED <<wire, record, after, cur, children, notices, events, untracked,
                    tokens, emergency>>
    BY <1>12 DEF ReleaseOverCap, world, queues, marks
  <2>2. Resuming
    BY <1>12 DEF ReleaseOverCap, Resuming
  <2>3. Detaching
    BY <1>12 DEF ReleaseOverCap, RetirePrevious, Detaching
  <2> QED BY <1>12, <2>1, <2>2, <2>3
<1>13. CASE ReleaseInvalid /\ UNCHANGED setting
  <2>1. UNCHANGED <<wire, record, after, cur, children, notices, events, emergency>>
    BY <1>13 DEF ReleaseInvalid, world, queues, marks
  <2>2. Resuming
    BY <1>13 DEF ReleaseInvalid, Resuming
  <2>3. Detaching
    BY <1>13 DEF ReleaseInvalid, RetirePrevious, Detaching
  <2> QED BY <1>13, <2>1, <2>2, <2>3
<1>14. CASE Attach /\ UNCHANGED setting
  <2>1. UNCHANGED <<os, pending, blind, wire, record, after, cur, tree, children,
                    notices, events, untracked, tokens, pendingExec, errors, emergency>>
    BY <1>14 DEF Attach, world, queues, marks
  <2> QED BY <1>14, <2>1
<1>15. CASE AttachFails /\ UNCHANGED setting
  <2>1. UNCHANGED <<os, pending, blind, session, gating, wire, record, after, cur,
                    tree, streams, children, notices, events, untracked, tokens,
                    pendingExec, errors, emergency>>
    BY <1>15 DEF AttachFails, world, queues, marks
  <2> QED BY <1>15, <2>1
<1>16. CASE AwaitReady /\ UNCHANGED setting
  <2>1. UNCHANGED <<os, pending, blind, wire, record, after, cur, children, events,
                    untracked, tokens, emergency>>
    BY <1>16 DEF AwaitReady, world, queues, marks
  <2>2. Detaching \/ UNCHANGED <<session, gating, streams>>
    BY <1>16 DEF AwaitReady, ServiceNotices, Detaching
  <2> QED BY <1>16, <2>1, <2>2
<1>17. CASE TakeEvent /\ UNCHANGED setting
  <2>1. UNCHANGED <<os, pending, blind, session, gating, wire, record, after, cur,
                    streams, children, notices, untracked, tokens, pendingExec,
                    emergency>>
    BY <1>17 DEF TakeEvent, world, queues, marks
  <2> QED BY <1>17, <2>1
<1>18. CASE EventWaitEnds /\ UNCHANGED setting
  <2>1. UNCHANGED <<os, pending, blind, session, gating, wire, record, after, cur,
                    tree, streams, children, notices, events, untracked, tokens,
                    pendingExec, errors, emergency>>
    BY <1>18 DEF EventWaitEnds, world, queues, marks
  <2> QED BY <1>18, <2>1
<1>19. CASE ReadyTimeout /\ UNCHANGED setting
  <2>1. UNCHANGED <<os, pending, blind, session, gating, wire, record, after, cur,
                    tree, streams, children, notices, events, untracked, tokens,
                    pendingExec, errors, emergency>>
    BY <1>19 DEF ReadyTimeout, world, queues, marks
  <2> QED BY <1>19, <2>1
<1>20. CASE CloseLauncherGate /\ UNCHANGED setting
  <2>1. UNCHANGED <<os, pending, blind, session, wire, record, pc, after, cur, tree,
                    streams, children, notices, events, untracked, tokens, pendingExec,
                    errors, emergency>>
    BY <1>20 DEF CloseLauncherGate, world, queues, marks
  <2> QED BY <1>20, <2>1
<1>21. CASE ResumeReady /\ UNCHANGED setting
  <2>1. UNCHANGED <<session, gating, wire, record, after, cur, tree, streams, children,
                    notices, events, untracked, tokens, pendingExec, emergency>>
    BY <1>21 DEF ResumeReady, world, queues, marks
  <2>2. Resuming
    BY <1>21 DEF ResumeReady, Resuming
  <2> QED BY <1>21, <2>1, <2>2
<1>22. CASE RootNotReady /\ UNCHANGED setting
  <2>1. UNCHANGED <<os, pending, blind, wire, record, after, cur, tree, children,
                    notices, events, untracked, tokens, pendingExec, emergency>>
    BY <1>22 DEF RootNotReady, world, queues, marks
  <2>2. Detaching
    BY <1>22 DEF RootNotReady, Detaching
  <2> QED BY <1>22, <2>1, <2>2
<1>23. CASE ChildNotReady /\ UNCHANGED setting
  <2>1. UNCHANGED <<os, pending, blind, wire, record, after, cur, children, notices,
                    events, untracked, tokens, pendingExec, errors, emergency>>
    BY <1>23 DEF ChildNotReady, world, queues, marks
  <2>2. Detaching
    BY <1>23 DEF ChildNotReady, Detaching
  <2> QED BY <1>23, <2>1, <2>2
<1>24. CASE ResumeLost /\ UNCHANGED setting
  <2>1. UNCHANGED <<session, gating, wire, record, after, cur, tree, streams, children,
                    notices, events, untracked, tokens, pendingExec, errors, emergency>>
    BY <1>24 DEF ResumeLost, world, queues, marks
  <2>2. Resuming
    BY <1>24 DEF ResumeLost, Resuming
  <2> QED BY <1>24, <2>1, <2>2
<1>25. CASE ChildAbandoned /\ UNCHANGED setting
  <2>1. UNCHANGED <<session, gating, wire, record, after, cur, tree, streams, children,
                    notices, events, untracked, tokens, pendingExec, emergency>>
    BY <1>25 DEF ChildAbandoned, world, queues, marks
  <2>2. Resuming
    BY <1>25 DEF ChildAbandoned, Resuming
  <2> QED BY <1>25, <2>1, <2>2
<1>26. CASE Idle /\ UNCHANGED setting
  <2>1. UNCHANGED <<os, pending, blind, session, gating, wire, record, cur, tree,
                    streams, children, notices, events, untracked, tokens, pendingExec,
                    errors, emergency>>
    BY <1>26 DEF Idle, world, queues, marks
  <2> QED BY <1>26, <2>1
<1>27. CASE Complete /\ UNCHANGED setting
  <2>1. UNCHANGED <<os, pending, blind, session, gating, wire, record, after, cur,
                    streams, children, notices, events, untracked, tokens, pendingExec,
                    errors, emergency>>
    BY <1>27 DEF Complete, world, queues, marks
  <2> QED BY <1>27, <2>1
<1>28. CASE Drain /\ UNCHANGED setting
  <2>1. UNCHANGED <<session, gating, wire, record, cur, tree, streams, notices, events,
                    pendingExec, emergency>>
    BY <1>28 DEF Drain, world, queues, marks
  <2>2. Resuming \/ UNCHANGED <<os, pending, blind>>
    BY <1>28 DEF Drain, Reconcile, ResumeNone, Resuming
  <2> QED BY <1>28, <2>1, <2>2
<1>29. CASE Drained /\ UNCHANGED setting
  <2>1. UNCHANGED <<os, pending, blind, session, gating, wire, record, after, cur,
                    tree, streams, children, notices, events, untracked, tokens,
                    pendingExec, errors, emergency>>
    BY <1>29 DEF Drained, world, queues, marks
  <2> QED BY <1>29, <2>1
<1>30. CASE DrainDeadline /\ UNCHANGED setting
  <2>1. UNCHANGED <<os, pending, blind, session, gating, wire, record, cur, tree,
                    streams, children, notices, events, untracked, tokens, pendingExec,
                    errors, emergency>>
    BY <1>30 DEF DrainDeadline, world, queues, marks
  <2> QED BY <1>30, <2>1
<1>31. CASE Release /\ UNCHANGED setting
  <2>1. UNCHANGED <<session, gating, wire, record, after, cur, streams, children,
                    notices, events, untracked, tokens, pendingExec, errors, emergency>>
    BY <1>31 DEF Release, world, queues, marks
  <2>2. Resuming
    BY <1>31 DEF Release, Resuming
  <2> QED BY <1>31, <2>1, <2>2
<1>32. CASE CloseStreams /\ UNCHANGED setting
  <2>1. UNCHANGED <<os, pending, blind, wire, record, after, cur, tree, children,
                    notices, events, untracked, tokens, pendingExec, errors, emergency>>
    BY <1>32 DEF CloseStreams, world, queues, marks
  <2>2. Detaching
    BY <1>32 DEF CloseStreams, Detaching
  <2> QED BY <1>32, <2>1, <2>2
<1>33. CASE ReleaseUnhandled /\ UNCHANGED setting
  <2>1. UNCHANGED <<session, gating, wire, record, cur, tree, streams, notices, events,
                    pendingExec, errors, emergency>>
    BY <1>33 DEF ReleaseUnhandled, world, queues, marks
  <2>2. Resuming
    BY <1>33 DEF ReleaseUnhandled, Resuming
  <2> QED BY <1>33, <2>1, <2>2
<1>34. CASE CloseGates /\ UNCHANGED setting
  <2>1. UNCHANGED <<os, pending, blind, session, wire, record, after, cur, tree,
                    streams, children, notices, events, untracked, tokens, pendingExec,
                    errors, emergency>>
    BY <1>34 DEF CloseGates, world, queues, marks
  <2> QED BY <1>34, <2>1
<1>35. CASE Collect /\ UNCHANGED setting
  <2>1. UNCHANGED <<os, pending, blind, session, gating, wire, record, after, cur,
                    tree, streams, notices, events, pendingExec, errors, emergency>>
    BY <1>35 DEF Collect, world, queues, marks
  <2> QED BY <1>35, <2>1
<1>36. CASE Kill /\ UNCHANGED setting
  <2>1. UNCHANGED <<blind, gating, wire, after, cur, tree, streams, children, notices,
                    events, untracked, tokens, pendingExec, errors, emergency>>
    BY <1>36 DEF Kill, world, queues, marks
  <2> QED BY <1>36, <2>1
<1>37. CASE Finish /\ UNCHANGED setting
  <2>1. UNCHANGED <<session, gating, wire, record, after, cur, children, untracked,
                    tokens, emergency>>
    BY <1>37 DEF Finish, world, queues, marks
  <2>2. Resuming
    BY <1>37 DEF Finish, Resuming
  <2> QED BY <1>37, <2>1, <2>2
<1>38. CASE Detach /\ UNCHANGED setting
  <2>1. UNCHANGED <<os, pending, blind, wire, record, after, cur, tree, streams,
                    children, notices, events, untracked, tokens, pendingExec, errors,
                    emergency>>
    BY <1>38 DEF Detach, world, queues, marks
  <2> QED BY <1>38, <2>1
<1>39. CASE Interrupt /\ UNCHANGED setting
  <2>1. UNCHANGED <<os, pending, blind, session, gating, wire, record, cur, tree,
                    streams, children, notices, events, untracked, tokens, pendingExec,
                    emergency>>
    BY <1>39 DEF Interrupt, world, queues, marks
  <2> QED BY <1>39, <2>1
<1>40. CASE Dispatch /\ UNCHANGED setting
  <2>1. UNCHANGED <<os, pending, blind, session, gating, record, pc, after, cur, tree,
                    streams, untracked, tokens, pendingExec, errors>>
    BY <1>40 DEF Dispatch, world, queues, marks
  <2> QED BY <1>40, <2>1
<1>41. CASE EmergencyResume /\ UNCHANGED setting
  <2>1. UNCHANGED <<session, gating, wire, record, pc, after, cur, tree, streams,
                    children, notices, events, pendingExec>>
    BY <1>41 DEF EmergencyResume, world, queues, marks
  <2>2. Resuming
    BY <1>41 DEF EmergencyResume, Resuming
  <2> QED BY <1>41, <2>1, <2>2
<1>42. CASE World
  <2>1. UNCHANGED <<setting, pc, after, cur, tree, streams, children, notices, events,
                    untracked, tokens, pendingExec, errors, emergency>>
    BY <1>42 DEF World, queues, marks
  <2>2. UNCHANGED gating
    BY <1>42, ZenonT(60) DEF World, WorldStep, LauncherSpawns, LauncherFailsToSpawn, LauncherReports, Exit,
       AgentReady, AgentFails, SessionLost, GateReleases, Exec, Fork, Start
  <2>3. WorldStep \/ (Resuming /\ UNCHANGED <<session, wire, record>>)
    BY <1>42 DEF World, GateReleases, Resuming
  <2> QED BY <2>1, <2>2, <2>3
<1>43. CASE UNCHANGED vars
  BY <1>43 DEF vars, world, queues, marks
<1>44. CASE Main
  BY <1>44, <1>1, <1>2, <1>3, <1>4, <1>5, <1>6, <1>7, <1>8, <1>9, <1>10, <1>11, <1>12, <1>13, <1>14, <1>15, <1>16, <1>17, <1>18, <1>19, <1>20, <1>21, <1>22, <1>23, <1>24, <1>25, <1>26, <1>27, <1>28, <1>29, <1>30, <1>31, <1>32, <1>33, <1>34, <1>35, <1>36, <1>37, <1>38 DEF Main
<1>45. CASE Interrupt
  BY <1>45, <1>39 DEF Interrupt
<1>46. CASE Callbacks
  BY <1>46, <1>40, <1>41 DEF Callbacks
<1> QED BY <1>44, <1>45, <1>46, <1>42, <1>43 DEF Next, Done
-----------------------------------------------------------------------------
(* The world: processes, what the device holds, sessions, signals. *)

\* A process grows older: its next life starts only after its last, and the target has one.
Ages ==
    \A p \in Pids :
        /\ os'[p].life \in {os[p].life, os[p].life + 1}
        /\ (os'[p].life = os[p].life /\ os[p].state \in {"unused", "dead"}
                => os'[p].state = os[p].state)
        /\ os'[p].life # os[p].life => /\ os[p].state \in {"unused", "dead"}
                                      /\ (p = Target => os[p].state = "unused")
        /\ os'[p].state = "unused" => os[p].state = "unused"

ProcessesKept == ProcessesOK' /\ HeldOK' /\ Ages

LEMMA Settled ==
    ASSUME ProcessesOK
    PROVE  /\ setting.lives \in Nat /\ setting.images \in Nat /\ setting.queue \in Nat \ {0}
           /\ setting.follow \in BOOLEAN /\ 1 .. setting.lives \subseteq Tokens
  BY WorldAssumption, TokensAreLives DEF ProcessesOK, Setting

\* Resuming suspended processes.
LEMMA ResumeKept ==
    ASSUME ProcessesOK, HeldOK, setting' = setting, NEW ps, ResumeHeld(ps)
    PROVE  ProcessesKept /\ pending' \subseteq pending
<1>1. \A p \in Pids : /\ os'[p] \in Proc /\ os'[p].life = os[p].life
                      /\ os'[p].state = os[p].state
                            \/ (p \in HeldPids /\ os'[p].state = "running")
  BY DEF ResumeHeld, ProcessesOK, Proc
<1>2. \A p \in HeldPids : os[p].state = "gated"
  BY DEF HeldOK, HeldPids
<1>3. os' \in [Pids -> Proc]
  BY <1>1 DEF ResumeHeld
<1>4. ProcessesOK' /\ Ages
  BY <1>1, <1>2, <1>3 DEF ProcessesOK, Ages
<1>5. pending' \subseteq pending /\ \A c \in pending' : c.pid \notin ps \cap HeldPids
  BY DEF ResumeHeld
<1>6. \A c \in pending' : os'[c.pid].state = os[c.pid].state
  <2> SUFFICES ASSUME NEW c \in pending' PROVE os'[c.pid].state = os[c.pid].state
    OBVIOUS
  <2>1. c.pid \in Pids /\ c.pid \notin ps \cap HeldPids
    BY <1>5 DEF HeldOK, Child
  <2> QED BY <2>1 DEF ResumeHeld
<1>7. HeldOK'
  BY <1>5, <1>6, FS_Subset DEF HeldOK
<1> QED BY <1>4, <1>5, <1>7 DEF ProcessesKept

\* A process starts.
LEMMA StartKept ==
    ASSUME ProcessesOK, SessionsOK, HeldOK, setting' = setting,
           NEW p \in Pids, NEW parent \in Pids \cup {Launcher}, NEW gated \in BOOLEAN,
           NEW origin \in Origins, Start(p, parent, gated, origin),
           p = Target => os[p].state = "unused"
    PROVE  ProcessesKept
<1> DEFINE n == [state |-> IF gated THEN "gated" ELSE "running", parent |-> parent, image |-> 1,
                 life |-> os[p].life + 1, gate |-> IF gated THEN GateOf(parent) ELSE NoInst]
           c == [pid |-> p, parent |-> IF origin = "exec" THEN p ELSE parent, origin |-> origin]
<1>1. /\ os' = [os EXCEPT ![p] = n] /\ pending' = IF gated THEN pending \cup {c} ELSE pending
      /\ os[p].state \in {"unused", "dead"} /\ os[p].life < setting.lives
  BY DEF Start
<1>2. os[p].life \in Nat /\ os \in [Pids -> Proc]
  BY DEF ProcessesOK, Proc
<1>3. GateOf(parent) \in Gate
  BY DEF GateOf, SessionsOK, Session, Gate
<1>4. n \in Proc
  BY <1>2, <1>3 DEF Proc, Gate
<1>5. \A q \in Pids : os'[q] = IF q = p THEN n ELSE os[q]
  BY <1>1, <1>2
<1>6. n.state \in {"gated", "running"} /\ n.life = os[p].life + 1
  OBVIOUS
<1> HIDE DEF n
<1>7. ProcessesOK'
  <2>1. os' \in [Pids -> Proc]
    BY <1>1, <1>2, <1>4
  <2> QED BY <1>1, <1>2, <1>5, <1>6, <2>1, Settled DEF ProcessesOK
<1>8. Ages
  BY <1>1, <1>2, <1>5, <1>6 DEF Ages
<1>9. HeldOK'
  <2>1. c \in Child
    BY DEF Child, Origins
  <2>2. pending' \subseteq Child /\ IsFiniteSet(pending')
    BY <1>1, <2>1, FS_AddElement DEF HeldOK
  <2>3. \A x \in pending : x.pid \in Pids /\ x.pid # p
    BY <1>1 DEF HeldOK, Child
  <2>4. c.pid = p /\ (gated => n.state = "gated")
    BY DEF n
  <2> HIDE DEF c
  <2>5. \A x \in pending' : os'[x.pid].state = "gated"
    BY <1>1, <1>5, <2>3, <2>4 DEF HeldOK
  <2> QED BY <2>2, <2>5 DEF HeldOK
<1> QED BY <1>7, <1>8, <1>9 DEF ProcessesKept

\* Closing a gate for good changes only which gate holds a process.
LEMMA UngatedFields ==
    ASSUME NEW o \in [Pids -> Proc], NEW p \in Pids
    PROVE  /\ Ungated(o, p) \in [Pids -> Proc]
           /\ \A q \in Pids : /\ Ungated(o, p)[q].state = o[q].state
                              /\ Ungated(o, p)[q].life = o[q].life
                              /\ Ungated(o, p)[q].image = o[q].image
                              /\ Ungated(o, p)[q].parent = o[q].parent
                              /\ Ungated(o, p)[q].gate \in {o[q].gate, NoInst}
<1>1. \A q \in Pids : o[q] \in Proc
  OBVIOUS
<1>2. \A q \in Pids : /\ Ungated(o, p)[q] \in Proc
                      /\ Ungated(o, p)[q].state = o[q].state
                      /\ Ungated(o, p)[q].life = o[q].life
                      /\ Ungated(o, p)[q].image = o[q].image
                      /\ Ungated(o, p)[q].parent = o[q].parent
                      /\ Ungated(o, p)[q].gate \in {o[q].gate, NoInst}
  BY <1>1 DEF Ungated, Proc, Gate
<1> QED BY <1>2 DEF Ungated

\* A process ends, or its session does.
LEMMA ExitKept ==
    ASSUME ProcessesOK, HeldOK, setting' = setting, NEW p \in Pids, Exit(p) \/ SessionLost(p)
    PROVE  ProcessesKept
<1> DEFINE o == IF Exit(p) THEN [os EXCEPT ![p].state = "dead"] ELSE os
<1>1. os \in [Pids -> Proc]
  BY DEF ProcessesOK
<1>2. os' = Ungated(o, p) /\ (Exit(p) => Alive(p))
  BY DEF Exit, SessionLost
<1>3. /\ o \in [Pids -> Proc]
      /\ \A q \in Pids : /\ o[q].life = os[q].life
                         /\ o[q].state = IF Exit(p) /\ q = p THEN "dead" ELSE os[q].state
  BY <1>1 DEF Proc
<1> HIDE DEF o
<1>4. /\ os' \in [Pids -> Proc]
      /\ \A q \in Pids : os'[q].life = o[q].life /\ os'[q].state = o[q].state
  BY <1>2, <1>3, UngatedFields
<1>5. \A q \in Pids : /\ os'[q].life = os[q].life
                      /\ os'[q].state = IF Exit(p) /\ q = p THEN "dead" ELSE os[q].state
  BY <1>3, <1>4
<1>6. ProcessesOK' /\ Ages
  BY <1>2, <1>4, <1>5 DEF ProcessesOK, Ages, Alive
<1>7. pending' = IF Exit(p) THEN {c \in pending : c.pid # p} ELSE pending
  BY DEF Exit, SessionLost
<1>8. HeldOK'
  <2>1. pending' \subseteq pending /\ IsFiniteSet(pending')
    BY <1>7, FS_Subset DEF HeldOK
  <2>2. \A c \in pending' : c.pid \in Pids /\ (Exit(p) => c.pid # p)
    BY <1>7 DEF HeldOK, Child
  <2> QED BY <1>5, <2>1, <2>2 DEF HeldOK
<1> QED BY <1>6, <1>8 DEF ProcessesKept

\* A process replaces its image.
LEMMA ExecKept ==
    ASSUME ProcessesOK, HeldOK, setting' = setting, NEW p \in Pids, NEW escapes \in BOOLEAN,
           Exec(p, escapes)
    PROVE  ProcessesKept
<1> DEFINE held == Gates(p) /\ ~escapes
           c    == [pid |-> p, parent |-> p, origin |-> "exec"]
           st   == IF held THEN "gated" ELSE "running"
           n    == [os[p] EXCEPT !.image = @ + 1, !.state = st, !.gate = NoInst]
           o    == [os EXCEPT ![p] = n]
<1>1. os \in [Pids -> Proc] /\ os[p].state = "running"
  BY DEF ProcessesOK, Exec
<1>2. os' = Ungated(o, p)
  <2>1. o = [os EXCEPT ![p].image = @ + 1, ![p].state = IF held THEN "gated" ELSE "running",
                       ![p].gate = NoInst]
    BY <1>1
  <2> QED BY <2>1 DEF Exec
<1>3. n \in Proc /\ n.life = os[p].life /\ n.state = st /\ st \in {"gated", "running"}
  <2>1. os[p] \in Proc /\ os[p].image + 1 \in Nat
    BY <1>1 DEF Proc
  <2>2. st \in {"gated", "running"}
    OBVIOUS
  <2> HIDE DEF st
  <2> QED BY <2>1, <2>2 DEF Proc, Gate
<1> HIDE DEF n, held
<1>4. /\ o \in [Pids -> Proc]
      /\ \A q \in Pids : o[q] = IF q = p THEN n ELSE os[q]
  BY <1>1, <1>3
<1> HIDE DEF o
<1>5. /\ os' \in [Pids -> Proc]
      /\ \A q \in Pids : os'[q].life = o[q].life /\ os'[q].state = o[q].state
  BY <1>2, <1>4, UngatedFields
<1>6. \A q \in Pids : os'[q].life = os[q].life /\ (q # p => os'[q].state = os[q].state)
  BY <1>3, <1>4, <1>5
<1>7. os'[p].state = st
  BY <1>3, <1>4, <1>5
<1>8. ProcessesOK' /\ Ages
  BY <1>1, <1>3, <1>5, <1>6, <1>7 DEF ProcessesOK, Ages
<1>9. HeldOK'
  <2>1. pending' = IF held THEN pending \cup {c} ELSE pending
    BY DEF Exec, held
  <2>2. c \in Child /\ c.pid = p
    BY DEF Child, Origins
  <2> HIDE DEF c
  <2>3. pending' \subseteq Child /\ IsFiniteSet(pending')
    BY <2>1, <2>2, FS_AddElement DEF HeldOK
  <2>4. \A x \in pending : x.pid \in Pids /\ x.pid # p
    BY <1>1 DEF HeldOK, Child
  <2>5. \A x \in pending' : os'[x.pid].state = "gated"
    BY <1>6, <1>7, <2>1, <2>2, <2>4 DEF HeldOK
  <2> QED BY <2>3, <2>5 DEF HeldOK
<1> QED BY <1>8, <1>9 DEF ProcessesKept

\* The tree is killed.
LEMMA KillKept ==
    ASSUME ProcessesOK, HeldOK, setting' = setting, Kill
    PROVE  ProcessesKept /\ pending' \subseteq pending
<1>1. /\ os' = [p \in Pids |-> IF p \in Doomed THEN [os[p] EXCEPT !.state = "dead"] ELSE os[p]]
      /\ pending' = {c \in pending : c.pid \notin Doomed}
  BY DEF Kill
<1>2. \A p \in Doomed : p \in Pids => Alive(p)
  BY DEF Doomed, SameProcessAlive
<1>3. \A p \in Pids : /\ os'[p] \in Proc /\ os'[p].life = os[p].life
                      /\ os'[p].state = IF p \in Doomed THEN "dead" ELSE os[p].state
  BY <1>1 DEF ProcessesOK, Proc
<1>4. os' \in [Pids -> Proc]
  BY <1>1, <1>3
<1>5. ProcessesOK' /\ Ages
  BY <1>2, <1>3, <1>4 DEF ProcessesOK, Ages, Alive
<1>6. pending' \subseteq pending /\ \A c \in pending' : c.pid \in Pids \ Doomed
  BY <1>1 DEF HeldOK, Child
<1>7. HeldOK'
  BY <1>3, <1>6, FS_Subset DEF HeldOK
<1> QED BY <1>5, <1>6, <1>7 DEF ProcessesKept

\* What any step does to the processes.
LEMMA ProcessStep ==
    ASSUME ProcessesOK, SessionsOK, HeldOK, setting' = setting, OsMoves
    PROVE  ProcessesKept
<1>1. CASE UNCHANGED <<os, pending>>
  BY <1>1 DEF ProcessesKept, ProcessesOK, HeldOK, Ages, Proc
<1>2. CASE Resuming
  BY <1>2, ResumeKept DEF Resuming
<1>3. CASE Kill
  BY <1>3, KillKept
<1>4. CASE LauncherFailsToSpawn \/ LauncherReports
  BY <1>1, <1>4 DEF LauncherFailsToSpawn, LauncherReports
<1>5. CASE LauncherSpawns
  <2>1. /\ Start(Target, Launcher, Launcher \in gating, "fork") /\ os[Target].state = "unused"
        /\ "fork" \in Origins /\ (Launcher \in gating) \in BOOLEAN
    BY <1>5 DEF LauncherSpawns, Origins
  <2> QED BY <2>1, StartKept, WorldAssumption
<1>6. ASSUME NEW p \in Pids, AgentReady(p) \/ AgentFails(p) PROVE ProcessesKept
  BY <1>1, <1>6 DEF AgentReady, AgentFails
<1>7. ASSUME NEW p \in Pids, NEW q \in Pids, Fork(p, q) PROVE ProcessesKept
  <2>1. PICK origin \in Origins : Start(q, p, Gates(p), origin)
    BY <1>7 DEF Fork, Origins
  <2>2. q # Target /\ Gates(p) \in BOOLEAN
    BY <1>7 DEF Fork, Gates
  <2> QED BY <2>1, <2>2, StartKept
<1>8. ASSUME NEW p \in Pids, GateReleases(p) PROVE ProcessesKept
  BY <1>8, ResumeKept DEF GateReleases
<1> QED BY <1>1, <1>2, <1>3, <1>4, <1>5, <1>6, <1>7, <1>8, ExitKept, ExecKept
        DEF OsMoves, WorldStep

\* A known process runs an admitted image.
LEMMA CurrentKnown ==
    ASSUME NEW t, TreeOK(t), NEW p \in Known(t)
    PROVE  /\ Current(t, p) \in KnownImgs(t) /\ Current(t, p) \in Instances /\ p \in Pids
           /\ Current(t, p)[1] = p /\ Current(t, p)[2] = t.processes[p].generation
           /\ t.processes[p] \in Process
<1>1. t.processes[p] \in Process /\ p \in Pids
  BY DEF TreeOK, TreeType
<1>2. t.processes[p].generation \in Nat /\ t.processes[p].generation >= 1
  BY <1>1 DEF Process, TreeOK, TreeRuns
<1>3. Current(t, p) \in {p} \X (1 .. t.processes[p].generation)
  BY <1>2 DEF Current
<1>4. Current(t, p) \in KnownImgs(t)
  BY <1>3 DEF TreeOK, TreeImages
<1> QED BY <1>1, <1>4 DEF Current, TreeOK, TreeType

\* What any step does to the sessions.
LEMMA SessionStep ==
    ASSUME SessionsOK, TreeOK(tree), ControlOK, SessionMoves
    PROVE  SessionsOK'
<1> USE DEF SessionsOK
<1>0. NoSession \in Session
  BY DEF NoSession, Session
<1>1. CASE UNCHANGED session
  BY <1>1
<1>2. CASE Detaching
  BY <1>0, <1>2 DEF Detaching, DetachStreams
<1>3. CASE Attach
  <2>1. cur.pid \in Known(tree)
    BY <1>3 DEF Attach, ControlOK, Instrumenting
  <2>2. [inst |-> CurInst, agent |-> "loading"] \in Session
    BY <2>1, CurrentKnown DEF CurInst, Session
  <2> QED BY <1>3, <2>2 DEF Attach
<1>4. CASE Kill \/ Detach
  BY <1>0, <1>4 DEF Kill, Detach
<1>5. CASE LauncherSpawns \/ LauncherFailsToSpawn \/ LauncherReports
  BY <1>5 DEF LauncherSpawns, LauncherFailsToSpawn, LauncherReports, Start
<1>6. ASSUME NEW p \in Pids, Exit(p) \/ SessionLost(p) PROVE SessionsOK'
  BY <1>0, <1>6 DEF Exit, SessionLost
<1>7. ASSUME NEW p \in Pids, NEW escapes, Exec(p, escapes) PROVE SessionsOK'
  BY <1>0, <1>7 DEF Exec
<1>8. ASSUME NEW p \in Pids, AgentReady(p) \/ AgentFails(p) PROVE SessionsOK'
  <2>1. PICK a \in {"ready", "failed"} : session' = [session EXCEPT ![p].agent = a]
    BY <1>8 DEF AgentReady, AgentFails
  <2>2. [session[p] EXCEPT !.agent = a] \in Session
    BY DEF Session
  <2> QED BY <2>1, <2>2
<1>9. ASSUME NEW p \in Pids, NEW q \in Pids, Fork(p, q) PROVE SessionsOK'
  BY <1>9 DEF Fork, Start
<1>10. ASSUME NEW p \in Pids, GateReleases(p) PROVE SessionsOK'
  BY <1>10 DEF GateReleases
<1> QED BY <1>1, <1>2, <1>3, <1>4, <1>5, <1>6, <1>7, <1>8, <1>9, <1>10 DEF SessionMoves, WorldStep

-----------------------------------------------------------------------------
(* The queues. *)

LEMMA MessageFields ==
    ASSUME NEW m \in Message
    PROVE  /\ m.type = "child-added" => m.child \in Child
           /\ m.type = "detached" => m \in Notice
           /\ m.type \in {"backend_ready", "FAILED"} => m \in Event
           /\ m.type \in {"child-added", "detached", "backend_ready", "FAILED"}
  BY DEF Message, Notice, Event

LEMMA MessageTypes ==
    /\ \A c \in Child : ChildAdded(c) \in Message /\ ChildAdded(c).child = c
                        /\ ChildAdded(c).type = "child-added"
    /\ \A s \in Session, why \in Reasons :
          /\ SessionGone(s.inst, why) \in Message /\ SessionGone(s.inst, why) \in Notice
          /\ SessionGone(s.inst, why).type = "detached"
          /\ SessionGone(s.inst, why).inst = s.inst /\ SessionGone(s.inst, why).reason = why
    /\ \A s \in Session, what \in {"backend_ready", "FAILED"} :
          /\ AgentSays(what, s.inst) \in Message /\ AgentSays(what, s.inst) \in Event
          /\ AgentSays(what, s.inst).type = what /\ AgentSays(what, s.inst).inst = s.inst
  BY DEF ChildAdded, SessionGone, AgentSays, Message, Notice, Event, Session

\* A child is held, and reported, only by a gate that is on.
NewChild(c) == /\ c \in Child
               /\ \/ c.pid = Target /\ Launcher \in gating
                  \/ \E p \in Pids : Gates(p)
WorldSends ==
    /\ wire' \in Seq(Message) /\ ToSet(wire) \subseteq ToSet(wire')
    /\ \A m \in ToSet(wire') \ ToSet(wire) : m.type = "child-added" => NewChild(m.child)
    /\ \A c \in pending' \ pending : NewChild(c)

LEMMA StartSends ==
    ASSUME wire \in Seq(Message),
           NEW p \in Pids, NEW parent \in Pids \cup {Launcher}, NEW gated \in BOOLEAN,
           NEW origin \in Origins, Start(p, parent, gated, origin),
           gated => \/ p = Target /\ Launcher \in gating
                    \/ \E q \in Pids : Gates(q)
    PROVE  WorldSends
<1> DEFINE c == [pid |-> p, parent |-> IF origin = "exec" THEN p ELSE parent, origin |-> origin]
<1>1. c \in Child /\ c.pid = p
  BY DEF Child
<1>2. IF gated THEN pending' = pending \cup {c} /\ wire' = Append(wire, ChildAdded(c))
      ELSE UNCHANGED <<pending, wire>>
  BY DEF Start
<1> HIDE DEF c
<1>3. CASE ~gated
  BY <1>2, <1>3 DEF WorldSends
<1>4. CASE gated
  <2>1. NewChild(c)
    BY <1>1, <1>4 DEF NewChild
  <2>2. wire' \in Seq(Message) /\ ToSet(wire') = ToSet(wire) \cup {ChildAdded(c)}
    <3>1. ChildAdded(c) \in Message
      BY <1>1, MessageTypes
    <3>2. wire' = Append(wire, ChildAdded(c))
      BY <1>2, <1>4
    <3> QED BY <3>1, <3>2, AppendSet
  <2>3. ChildAdded(c).child = c
    BY <1>1, MessageTypes
  <2> QED BY <1>2, <1>4, <2>1, <2>2, <2>3 DEF WorldSends
<1> QED BY <1>3, <1>4

\* A signal about a session, and perhaps a child, is sent.
LEMMA OtherSends ==
    ASSUME wire \in Seq(Message), NEW m \in Message, m.type # "child-added",
           wire' = Append(wire, m) \/ wire' = wire, pending' \subseteq pending
    PROVE  WorldSends
<1>1. CASE wire' = wire
  BY <1>1 DEF WorldSends
<1>2. CASE wire' = Append(wire, m)
  BY <1>2, AppendSet DEF WorldSends
<1> QED BY <1>1, <1>2

LEMMA ExecSends ==
    ASSUME wire \in Seq(Message), SessionsOK, NEW p \in Pids, NEW escapes \in BOOLEAN,
           Exec(p, escapes)
    PROVE  WorldSends
<1> DEFINE c    == [pid |-> p, parent |-> p, origin |-> "exec"]
           gone == IF Attached(p) THEN <<SessionGone(session[p].inst, "process-replaced")>>
                   ELSE << >>
           held == Gates(p) /\ ~escapes
           sent == IF held THEN <<ChildAdded(c)>> ELSE << >>
           lost == SessionGone(session[p].inst, "process-replaced")
<1>1. wire' = wire \o gone \o sent /\ pending' = IF held THEN pending \cup {c} ELSE pending
  BY DEF Exec
<1>2. c \in Child /\ c.pid = p /\ (held => NewChild(c))
  BY DEF Child, Origins, NewChild
<1>3. ChildAdded(c) \in Message /\ ChildAdded(c).child = c
  BY <1>2, MessageTypes
<1>4. lost \in Message /\ lost.type = "detached"
  BY MessageTypes DEF SessionsOK, Reasons
<1> HIDE DEF c, lost
<1>5. gone \in Seq(Message) /\ ToSet(gone) \subseteq {lost}
  <2>1. gone = <<lost>> \/ gone = << >>
    BY DEF lost
  <2>2. <<lost>> \in Seq(Message) /\ << >> \in Seq(Message)
    BY <1>4, SmallSets
  <2> HIDE DEF gone
  <2> QED BY <2>1, <2>2, SmallSets
<1>6. sent \in Seq(Message) /\ ToSet(sent) \subseteq (IF held THEN {ChildAdded(c)} ELSE {})
  <2>1. IF held THEN sent = <<ChildAdded(c)>> ELSE sent = << >>
    OBVIOUS
  <2>2. <<ChildAdded(c)>> \in Seq(Message) /\ << >> \in Seq(Message)
    BY <1>3, SmallSets
  <2> HIDE DEF sent, held
  <2> QED BY <2>1, <2>2, SmallSets
<1> HIDE DEF gone, sent, held
<1>7. wire \o gone \in Seq(Message) /\ ToSet(wire \o gone) = ToSet(wire) \cup ToSet(gone)
  BY <1>5, ConcatSet
<1>8. wire' \in Seq(Message) /\ ToSet(wire') = ToSet(wire) \cup ToSet(gone) \cup ToSet(sent)
  <2> DEFINE w == wire \o gone
  <2>1. wire' = w \o sent
    BY <1>1
  <2>2. w \in Seq(Message) /\ ToSet(w) = ToSet(wire) \cup ToSet(gone)
    BY <1>7
  <2> HIDE DEF w
  <2>3. w \o sent \in Seq(Message) /\ ToSet(w \o sent) = ToSet(w) \cup ToSet(sent)
    BY <1>6, <2>2, ConcatSet
  <2> QED BY <2>1, <2>2, <2>3
<1>9. \A m \in ToSet(wire') \ ToSet(wire) : m.type = "child-added" => NewChild(m.child)
  BY <1>2, <1>3, <1>4, <1>5, <1>6, <1>8
<1> QED BY <1>1, <1>2, <1>8, <1>9 DEF WorldSends

LEMMA WireGrows ==
    ASSUME wire \in Seq(Message), SessionsOK, HeldOK, WorldStep
    PROVE  WorldSends
<1>1. CASE LauncherSpawns
  <2>1. /\ Start(Target, Launcher, Launcher \in gating, "fork")
        /\ "fork" \in Origins /\ (Launcher \in gating) \in BOOLEAN
    BY <1>1 DEF LauncherSpawns, Origins
  <2> QED BY <2>1, StartSends, WorldAssumption
<1>2. CASE LauncherFailsToSpawn \/ LauncherReports
  BY <1>2 DEF LauncherFailsToSpawn, LauncherReports, WorldSends
<1>3. ASSUME NEW p \in Pids, Exit(p) PROVE WorldSends
  <2> DEFINE m == SessionGone(session[p].inst, "process-terminated")
  <2>1. m \in Message /\ m.type # "child-added"
    BY MessageTypes DEF SessionsOK, Reasons
  <2>2. (wire' = Append(wire, m) \/ wire' = wire) /\ pending' \subseteq pending
    BY <1>3 DEF Exit
  <2> QED BY <2>1, <2>2, OtherSends
<1>4. ASSUME NEW p \in Pids, SessionLost(p) PROVE WorldSends
  <2> DEFINE m == SessionGone(session[p].inst, "lost")
  <2>1. m \in Message /\ m.type # "child-added"
    BY MessageTypes DEF SessionsOK, Reasons
  <2>2. wire' = Append(wire, m) /\ pending' \subseteq pending
    BY <1>4 DEF SessionLost
  <2> QED BY <2>1, <2>2, OtherSends
<1>5. ASSUME NEW p \in Pids, NEW what \in {"backend_ready", "FAILED"},
             wire' = Append(wire, AgentSays(what, session[p].inst)), pending' = pending
      PROVE  WorldSends
  <2>1. /\ AgentSays(what, session[p].inst) \in Message
        /\ AgentSays(what, session[p].inst).type # "child-added"
    BY MessageTypes DEF SessionsOK
  <2> QED BY <1>5, <2>1, OtherSends
<1>6. ASSUME NEW p \in Pids, AgentReady(p) \/ AgentFails(p) PROVE WorldSends
  BY <1>5, <1>6 DEF AgentReady, AgentFails
<1>7. ASSUME NEW p \in Pids, GateReleases(p) PROVE WorldSends
  BY <1>7 DEF GateReleases, ResumeHeld, WorldSends
<1>8. ASSUME NEW p \in Pids, NEW q \in Pids, Fork(p, q) PROVE WorldSends
  <2>1. PICK origin \in Origins : Start(q, p, Gates(p), origin)
    BY <1>8 DEF Fork, Origins
  <2>2. Gates(p) \in BOOLEAN
    BY DEF Gates
  <2> QED BY <2>1, <2>2, StartSends
<1> QED BY <1>1, <1>2, <1>3, <1>4, <1>6, <1>7, <1>8, ExecSends DEF WorldStep

\* What any step does to the wire: the dispatch thread takes a signal, the world adds some.
LEMMA WireStep ==
    ASSUME QueuesOK, SessionsOK, HeldOK, WireMoves
    PROVE  /\ wire' \in Seq(Message)
           /\ \/ ToSet(wire') \subseteq ToSet(wire)
              \/ WorldStep /\ WorldSends
<1>0. wire \in Seq(Message)
  BY DEF QueuesOK
<1>1. CASE UNCHANGED wire
  BY <1>0, <1>1
<1>2. CASE Dispatch
  <2>1. wire # << >> /\ wire' = Tail(wire)
    BY <1>2 DEF Dispatch
  <2> QED BY <1>0, <2>1, TailSet
<1>3. CASE WorldStep
  BY <1>0, <1>3, WireGrows DEF WorldSends
<1> QED BY <1>1, <1>2, <1>3 DEF WireMoves

\* The signal the dispatch thread takes.
LEMMA DispatchedSignal ==
    ASSUME QueuesOK, Dispatch
    PROVE  Head(wire) \in Message /\ Head(wire) \in ToSet(wire)
<1>1. wire \in Seq(Message) /\ wire # << >>
  BY DEF QueuesOK, Dispatch
<1> QED BY <1>1, TailSet

\* What a reconciliation queues, and what it releases over the limit.
LEMMA Reconciled ==
    ASSUME ProcessesOK, HeldOK, QueuesOK, Reconcile
    PROVE  /\ children' \in Seq(Child) /\ Len(children') <= setting.queue
           /\ ToSet(children') \subseteq ToSet(children) \cup pending
           /\ \E pids \in SUBSET Pids :
                 /\ untracked' = untracked \cup pids /\ tokens' = Remember(pids)
                 /\ errors' = errors \cup {<<"child_queue", p>> : p \in pids}
                 /\ ResumeHeld(pids)
<1> DEFINE new == {c \in pending : ~Seen(c)}
<1>1. PICK missed \in SetToSeqs(new) :
        LET room == setting.queue - Len(children)
            n    == IF room < Len(missed) THEN room ELSE Len(missed)
            over == ToSet(SubSeq(missed, n + 1, Len(missed)))
            pids == {c.pid : c \in over}
        IN  /\ children' = children \o SubSeq(missed, 1, n)
            /\ untracked' = untracked \cup pids
            /\ tokens' = Remember(pids)
            /\ errors' = errors \cup {<<"child_queue", p>> : p \in pids}
            /\ ResumeHeld(pids)
  BY DEF Reconcile
<1>2. new \subseteq pending /\ new \subseteq Child /\ IsFiniteSet(new)
  BY FS_Subset DEF HeldOK
<1> HIDE DEF new
<1>3. Cardinality(new) \in Nat /\ missed \in [1 .. Cardinality(new) -> new]
  BY <1>2, FS_CardinalityType DEF SetToSeqs
<1>4. missed \in Seq(new)
  BY <1>3
<1>5. Len(missed) \in Nat /\ DOMAIN missed = 1 .. Len(missed) /\ ToSet(missed) \subseteq new
  BY <1>4 DEF ToSet
<1> DEFINE room == setting.queue - Len(children)
           n    == IF room < Len(missed) THEN room ELSE Len(missed)
           over == ToSet(SubSeq(missed, n + 1, Len(missed)))
           pids == {c.pid : c \in over}
<1>6. setting.queue \in Nat /\ Len(children) \in Nat /\ Len(children) <= setting.queue
      /\ children \in Seq(Child)
  BY Settled DEF QueuesOK
<1>7. n \in 0 .. Len(missed) /\ Len(children) + n <= setting.queue
  BY <1>5, <1>6
<1> HIDE DEF n
<1>8. /\ SubSeq(missed, 1, n) \in Seq(new) /\ Len(SubSeq(missed, 1, n)) = n
      /\ ToSet(SubSeq(missed, 1, n)) \subseteq new
  BY <1>4, <1>5, <1>7, PrefixSet
<1>9. SubSeq(missed, n + 1, Len(missed)) \in Seq(new)
  BY <1>4, <1>5, <1>7, SubSeqProperties
<1>10. over \subseteq new
  <2> DEFINE r == SubSeq(missed, n + 1, Len(missed))
  <2>1. r \in Seq(new)
    BY <1>9
  <2> HIDE DEF r
  <2>2. \A i \in DOMAIN r : r[i] \in new
    BY <2>1
  <2> QED BY <2>2 DEF ToSet, r
<1> HIDE DEF over
<1>11. pids \in SUBSET Pids
  BY <1>2, <1>10 DEF Child
<1>12. children' = children \o SubSeq(missed, 1, n)
  BY <1>1 DEF n
<1>13. /\ untracked' = untracked \cup pids /\ tokens' = Remember(pids)
       /\ errors' = errors \cup {<<"child_queue", p>> : p \in pids} /\ ResumeHeld(pids)
  BY <1>1 DEF n, over
<1> DEFINE first == SubSeq(missed, 1, n)
<1>14. first \in Seq(Child) /\ Len(first) = n /\ ToSet(first) \subseteq pending
  BY <1>2, <1>8, SeqMonotonic
<1>15. children' = children \o first
  BY <1>12
<1> HIDE DEF first, pids
<1>16. /\ children' \in Seq(Child) /\ Len(children') = Len(children) + n
       /\ ToSet(children') = ToSet(children) \cup ToSet(first)
  <2>1. children \in Seq(Child) /\ first \in Seq(Child)
    BY <1>6, <1>14
  <2>2. children \o first \in Seq(Child) /\ Len(children \o first) = Len(children) + Len(first)
    BY <2>1, ConcatProperties
  <2>3. ToSet(children \o first) = ToSet(children) \cup ToSet(first)
    BY <2>1, ConcatSet
  <2>4. Len(children') = Len(children) + n
    BY <1>14, <1>15, <2>2, Zenon
  <2>5. children' \in Seq(Child) /\ ToSet(children') = ToSet(children) \cup ToSet(first)
    BY <1>15, <2>2, <2>3, Zenon
  <2> QED BY <2>4, <2>5
<1> QED BY <1>7, <1>11, <1>13, <1>14, <1>16

LEMMA QueuesStep ==
    ASSUME ProcessesOK, SessionsOK, HeldOK, QueuesOK, setting' = setting, ControlOK,
           WireMoves, ChildMoves, NoticeMoves, EventMoves, EmergencyMoves
    PROVE  QueuesOK'
<1>1. wire' \in Seq(Message)
  BY WireStep
<1>2. children' \in Seq(Child) /\ Len(children') <= setting'.queue
  <2>0. children \in Seq(Child) /\ Len(children) <= setting.queue /\ Len(children) \in Nat
        /\ setting.queue \in Nat
    BY Settled DEF QueuesOK
  <2>1. CASE UNCHANGED children
    BY <2>0, <2>1
  <2>2. CASE ReconcileRoot \/ Drain
    BY <2>0, <2>2, Reconciled DEF ReconcileRoot, Drain
  <2>3. CASE AdmitRootChild \/ TakeChild
    <3>1. children # << >> /\ children' = Tail(children)
      BY <2>3 DEF AdmitRootChild, TakeChild
    <3>2. children' \in Seq(Child) /\ Len(children') = Len(children) - 1
      BY <2>0, <3>1, TailSet
    <3> QED BY <2>0, <3>2
  <2>4. CASE ReleaseUnhandled \/ Collect
    <3>1. children' = << >>
      BY <2>4 DEF ReleaseUnhandled, Collect
    <3>2. << >> \in Seq(Child) /\ Len(<< >>) = 0
      BY EmptySeq
    <3> QED BY <2>0, <3>1, <3>2
  <2>5. CASE Dispatch
    <3> DEFINE c == Head(wire).child
    <3>1. \/ UNCHANGED children
          \/ /\ Head(wire).type = "child-added" /\ Len(children) < setting.queue
             /\ children' = Append(children, c)
      BY <2>5 DEF Dispatch, OnChildAdded
    <3>2. Head(wire).type = "child-added" => c \in Child
      BY <2>5, DispatchedSignal, MessageFields
    <3> HIDE DEF c
    <3>3. CASE Len(children) < setting.queue /\ children' = Append(children, c) /\ c \in Child
      <4>1. children' \in Seq(Child) /\ Len(children') = Len(children) + 1
        BY <2>0, <3>3, AppendSet
      <4> QED BY <2>0, <3>3, <4>1
    <3> QED BY <2>1, <3>1, <3>2, <3>3
  <2> QED BY <2>1, <2>2, <2>3, <2>4, <2>5 DEF ChildMoves
<1>3. notices' \in Seq(Notice)
  <2>0. notices \in Seq(Notice)
    BY DEF QueuesOK
  <2>1. CASE ServiceDetached \/ AwaitReady \/ Finish
    <3>1. notices' = << >> \/ notices' = notices
      BY <2>1 DEF ServiceDetached, AwaitReady, Finish, ServiceNotices
    <3> QED BY <2>0, <3>1, EmptySeq
  <2>2. CASE Dispatch
    <3>1. \/ UNCHANGED notices
          \/ Head(wire).type = "detached" /\ notices' = Append(notices, Head(wire))
      BY <2>2 DEF Dispatch
    <3>2. Head(wire).type = "detached" => Head(wire) \in Notice
      BY <2>2, DispatchedSignal, MessageFields
    <3> QED BY <2>0, <3>1, <3>2, AppendSet
  <2> QED BY <2>0, <2>1, <2>2 DEF NoticeMoves
<1>4. events' \in Seq(Event)
  <2>0. events \in Seq(Event)
    BY DEF QueuesOK
  <2>1. CASE ServiceEvents \/ Finish
    <3>1. events' = << >>
      BY <2>1 DEF ServiceEvents, Finish
    <3> QED BY <3>1, EmptySeq
  <2>2. CASE TakeEvent
    <3>1. events # << >> /\ events' = Tail(events)
      BY <2>2 DEF TakeEvent
    <3> QED BY <2>0, <3>1, TailSet
  <2>3. CASE Dispatch
    <3>1. \/ UNCHANGED events
          \/ /\ Head(wire).type \in {"backend_ready", "FAILED"}
             /\ events' = Append(events, Head(wire))
      BY <2>3 DEF Dispatch
    <3>2. Head(wire).type \in {"backend_ready", "FAILED"} => Head(wire) \in Event
      BY <2>3, DispatchedSignal, MessageFields
    <3> QED BY <2>0, <3>1, <3>2, AppendSet
  <2> QED BY <2>0, <2>1, <2>2, <2>3 DEF EventMoves
<1>5. emergency' \in Child \cup {NoChild}
  <2>1. CASE Dispatch
    <3>1. \/ emergency' = emergency
          \/ Head(wire).type = "child-added" /\ emergency' = Head(wire).child
      BY <2>1 DEF Dispatch, OnChildAdded
    <3> QED BY <2>1, <3>1, DispatchedSignal, MessageFields DEF QueuesOK
  <2>2. CASE EmergencyResume
    BY <2>2 DEF EmergencyResume
  <2> QED BY <2>1, <2>2 DEF EmergencyMoves, QueuesOK
<1> QED BY <1>1, <1>2, <1>3, <1>4, <1>5 DEF QueuesOK

-----------------------------------------------------------------------------
(* The registry: what the main thread does to it. *)

\* A set of places in a sequence has a last one.
LEMMA Greatest ==
    ASSUME NEW n \in Nat, NEW ks \in SUBSET (1 .. n), ks # {}
    PROVE  \E k \in ks : \A j \in ks : j <= k
<1> DEFINE Above == {u \in Nat : \A j \in ks : j <= u}
           R == OpToRel(<, Nat)
<1>1. n \in Above
  OBVIOUS
<1>2. PICK u \in Above : \A v \in Above : <<v, u>> \notin R
  <2>1. IsWellFoundedOn(R, Nat)
    BY NatLessThanWellFounded
  <2>2. Above \subseteq Nat /\ Above # {}
    BY <1>1
  <2> HIDE DEF Above, R
  <2> QED BY <2>1, <2>2, WFMin
<1>3. \A v \in Above : ~(v < u)
  BY <1>2 DEF OpToRel
<1> HIDE DEF R
<1>4. u \in ks
  <2> SUFFICES ASSUME u \notin ks PROVE FALSE
    OBVIOUS
  <2>1. u \in Nat /\ \A j \in ks : j \in Nat /\ j >= 1 /\ j <= u /\ j # u
    BY <1>2
  <2>2. u - 1 \in Nat /\ \A j \in ks : j <= u - 1
    <3>1. PICK j \in ks : TRUE
      OBVIOUS
    <3>2. u >= 1
      BY <2>1, <3>1
    <3> QED BY <2>1, <3>2
  <2>3. u - 1 \in Above
    BY <2>2
  <2>4. u - 1 < u
    BY <2>1
  <2> QED BY <1>3, <2>3, <2>4
<1> QED BY <1>2, <1>4

LEMMA LatestNotice ==
    ASSUME notices \in Seq(Notice), NEW ks \in SUBSET (DOMAIN notices), ks # {}
    PROVE  \E k \in ks : Latest(ks) = notices[k] /\ notices[k] \in Notice
<1>1. Len(notices) \in Nat /\ DOMAIN notices = 1 .. Len(notices)
      /\ \A k \in DOMAIN notices : notices[k] \in Notice
  OBVIOUS
<1>2. \E k \in ks : \A j \in ks : j <= k
  BY <1>1, Greatest
<1> QED BY <1>1, <1>2 DEF Latest

\* u is t with other marks: nothing is added, and coverage stands as it was.
Marked(t, u) ==
    /\ TreeOK(u) /\ Steady(t, u) /\ u.complete = t.complete
    /\ \A i \in KnownImgs(t) : u.images[i].covered = t.images[i].covered

LEMMA MarkedTransitive ==
    ASSUME NEW t, NEW u, NEW v, Marked(t, u), Marked(u, v)
    PROVE  Marked(t, v)
  BY SteadyTransitive DEF Marked, Steady

LEMMA NoticesMark ==
    ASSUME QueuesOK, NEW t, TreeOK(t)
    PROVE  Marked(t, AfterNotices(t))
<1> DEFINE reason(i) == Latest({k \in DOMAIN notices : notices[k].inst = i}).reason
           f == [i \in KnownImgs(t) |-> IF i \in GoneInsts
                                        THEN [t.images[i] EXCEPT !.detach = reason(i)]
                                        ELSE t.images[i]]
<1>1. \A i \in GoneInsts : reason(i) \in Reasons
  <2> SUFFICES ASSUME NEW i \in GoneInsts PROVE reason(i) \in Reasons
    OBVIOUS
  <2> DEFINE ks == {k \in DOMAIN notices : notices[k].inst = i}
  <2>1. ks \in SUBSET (DOMAIN notices) /\ ks # {}
    BY DEF GoneInsts, ToSet
  <2>2. notices \in Seq(Notice)
    BY DEF QueuesOK
  <2> HIDE DEF ks
  <2>3. Latest(ks) \in Notice
    BY <2>1, <2>2, LatestNotice
  <2> QED BY <2>3 DEF Notice, ks
<1> HIDE DEF reason
<1>2. \A i \in KnownImgs(t) :
        /\ f[i] \in Image /\ f[i].covered = t.images[i].covered
        /\ f[i].instrumented = t.images[i].instrumented
        /\ t.images[i].detach # NoReason => f[i].detach # NoReason
  <2>1. \A i \in KnownImgs(t) : t.images[i] \in Image
    BY DEF TreeOK, TreeType
  <2> QED BY <1>1, <2>1, ReasonsAssumption DEF Image
<1>3. f \in [KnownImgs(t) -> Image] /\ AfterNotices(t) = [t EXCEPT !.images = f]
  BY <1>2 DEF AfterNotices, reason
<1> HIDE DEF f
<1>4. \A i \in KnownImgs(t) : f[i].covered => f[i].instrumented
  BY <1>2 DEF TreeOK, TreeLatch
<1> DEFINE u == [t EXCEPT !.images = f]
<1>5. /\ TreeOK(u) /\ u.images = f /\ u.processes = t.processes
      /\ Known(u) = Known(t) /\ KnownImgs(u) = KnownImgs(t)
      /\ u.complete = t.complete /\ u.root = t.root
  BY <1>2, <1>3, <1>4, MarkImagesOK
<1> HIDE DEF u
<1>6. Marked(t, u)
  BY <1>2, <1>5 DEF Marked, Steady
<1> QED BY <1>3, <1>6 DEF u

LEMMA EventsMark ==
    ASSUME NEW t, TreeOK(t)
    PROVE  Marked(t, AfterEvents(t))
<1> DEFINE f == [i \in KnownImgs(t) |-> IF i \in FailedInsts
                                        THEN [t.images[i] EXCEPT !.status = "FAILED"]
                                        ELSE t.images[i]]
<1>2. \A i \in KnownImgs(t) :
        /\ f[i] \in Image /\ f[i].covered = t.images[i].covered
        /\ f[i].instrumented = t.images[i].instrumented
        /\ f[i].detach = t.images[i].detach
  <2>1. \A i \in KnownImgs(t) : t.images[i] \in Image
    BY DEF TreeOK, TreeType
  <2> QED BY <2>1 DEF Image, Statuses
<1>3. f \in [KnownImgs(t) -> Image] /\ AfterEvents(t) = [t EXCEPT !.images = f]
  BY <1>2 DEF AfterEvents
<1> HIDE DEF f
<1>4. \A i \in KnownImgs(t) : f[i].covered => f[i].instrumented
  BY <1>2 DEF TreeOK, TreeLatch
<1> DEFINE u == [t EXCEPT !.images = f]
<1>5. /\ TreeOK(u) /\ u.images = f /\ u.processes = t.processes
      /\ Known(u) = Known(t) /\ KnownImgs(u) = KnownImgs(t)
      /\ u.complete = t.complete /\ u.root = t.root
  BY <1>2, <1>3, <1>4, MarkImagesOK
<1> HIDE DEF u
<1>6. Marked(t, u)
  BY <1>2, <1>5 DEF Marked, Steady
<1> QED BY <1>3, <1>6 DEF u

LEMMA SurvivorsMark ==
    ASSUME TreeOK(tree)
    PROVE  /\ Marked(tree, MarkSurvivors)
           /\ \A p \in Survivors : MarkSurvivors.processes[p].active
<1> DEFINE f == [p \in Known(tree) |-> IF p \in Survivors
                                       THEN [tree.processes[p] EXCEPT !.active = TRUE]
                                       ELSE tree.processes[p]]
           u == [tree EXCEPT !.processes = f]
<1>1. \A p \in Known(tree) :
        /\ f[p] \in Process /\ f[p].parent = tree.processes[p].parent
        /\ f[p].depth = tree.processes[p].depth /\ f[p].root = tree.processes[p].root
        /\ f[p].generation = tree.processes[p].generation
        /\ f[p].active = (p \in Survivors \/ tree.processes[p].active)
  <2>1. \A p \in Known(tree) : tree.processes[p] \in Process
    BY DEF TreeOK, TreeType
  <2> QED BY <2>1 DEF Process
<1>2. f \in [Known(tree) -> Process] /\ MarkSurvivors = u
  BY <1>1 DEF MarkSurvivors
<1> HIDE DEF f
<1>3. /\ TreeOK(u) /\ u.images = tree.images /\ u.processes = f
      /\ Known(u) = Known(tree) /\ KnownImgs(u) = KnownImgs(tree)
      /\ u.complete = tree.complete /\ u.root = tree.root
  BY <1>1, <1>2, MarkProcessesOK
<1> HIDE DEF u
<1>4. Survivors \subseteq Known(tree)
  BY DEF Survivors
<1> QED BY <1>1, <1>2, <1>3, <1>4 DEF Marked, Steady

\* The token of a PID is a start token, or none.
LEMMA TokenType ==
    ASSUME ProcessesOK, NEW p \in Pids
    PROVE  /\ TokenOf(p) \in Tokens \cup {NoToken}
           /\ TokenOf(p) # NoToken => TokenOf(p) \in Nat /\ TokenOf(p) = os[p].life
           /\ Alive(p) => TokenOf(p) = os[p].life /\ TokenOf(p) # NoToken
<1>1. /\ setting.lives \in Nat /\ 1 .. setting.lives \subseteq Tokens
      /\ os[p].life \in Nat /\ os[p].life <= setting.lives
      /\ Alive(p) => os[p].life >= 1
  BY Settled DEF ProcessesOK, Proc, Alive
<1>2. Alive(p) => os[p].life \in Tokens
  BY <1>1
<1> QED BY <1>1, <1>2, TokensAssumption DEF TokenOf

\* The registry an exec finds once the previous image is retired.
LEMMA RetiredMark ==
    ASSUME TreeOK(tree)
    PROVE  Marked(tree, Retired)
<1>1. CASE ~Replaces
  BY <1>1 DEF Retired, Marked, Steady
<1>2. CASE Replaces
  <2> DEFINE i == Current(tree, cur.pid)
             u == MarkDetached(tree, i, "process-replaced")
  <2>1. Retired = u /\ i \in KnownImgs(tree)
    BY <1>2, CurrentKnown DEF Retired, Replaces
  <2>2. TreeOK(u) /\ Steady(tree, u)
    BY <2>1, MarksOK, MarksSteady DEF Reasons
  <2>3. /\ u.complete = tree.complete
        /\ \A j \in KnownImgs(tree) : u.images[j].covered = tree.images[j].covered
    <3>1. tree.images \in [KnownImgs(tree) -> Image]
      BY DEF TreeOK, TreeType
    <3> HIDE DEF i
    <3> QED BY <2>1, <3>1 DEF MarkDetached, TreeOK, TreeType, Image
  <2> HIDE DEF u
  <2> QED BY <2>1, <2>2, <2>3 DEF Marked
<1> QED BY <1>1, <1>2

\* What admit_child does for the child at hand.
LEMMA ChildAdmitted ==
    ASSUME ProcessesOK, TreeOK(tree), cur.pid \in Pids, RetirePrevious
    PROVE  /\ TreeOK(tree')
           /\ Verdict = "admitted" => /\ Entered(Retired, tree', cur.pid)
                                      /\ tree'.root = tree.root
                                      /\ cur.pid \notin Known(tree) => ~tree'.processes[cur.pid].root
           /\ Verdict # "admitted" =>
                 /\ Steady(tree, tree')
                 /\ \A i \in KnownImgs(tree) : tree'.images[i].covered = tree.images[i].covered
           /\ Verdict = "ProcessTreeLimitExceeded" => ~tree'.complete
           /\ Verdict \in {"admitted", "UnknownProcessParent", "DuplicateProcessImage"}
                 => tree'.complete = tree.complete
<1>1. Marked(tree, Retired) /\ TokenOf(cur.pid) \in Tokens \cup {NoToken}
  BY RetiredMark, TokenType
<1>2. tree' = AdmitChild(Retired, cur.pid, ReportedParent, cur.origin, TokenOf(cur.pid))
  BY DEF RetirePrevious
<1> DEFINE t == Retired
           token == TokenOf(cur.pid)
           parent == ReportedParent
<1>3. Verdict = ChildVerdict(t, cur.pid, parent, cur.origin, token)
  BY DEF Verdict
<1>4. TreeOK(t) /\ token \in Tokens \cup {NoToken}
  BY <1>1 DEF Marked
<1> HIDE DEF t, token, parent
<1>5. TreeOK(AdmitChild(t, cur.pid, parent, cur.origin, token))
  BY <1>4, AdmitChildOK
<1>6. /\ Verdict = "admitted" => /\ Entered(t, tree', cur.pid) /\ tree'.root = t.root
                                 /\ cur.pid \notin Known(t) => ~tree'.processes[cur.pid].root
      /\ Verdict # "admitted" =>
            /\ Steady(t, tree')
            /\ \A i \in KnownImgs(t) : tree'.images[i].covered = t.images[i].covered
      /\ Verdict = "ProcessTreeLimitExceeded" => ~tree'.complete
      /\ Verdict \in {"admitted", "UnknownProcessParent", "DuplicateProcessImage"}
            => tree'.complete = t.complete
  BY <1>2, <1>3, <1>4, AdmitChildAdds DEF t, token, parent
<1>7. TreeOK(tree')
  BY <1>2, <1>5 DEF t, token, parent
<1>8. /\ Steady(tree, t) /\ t.root = tree.root /\ t.complete = tree.complete
      /\ Known(t) = Known(tree) /\ KnownImgs(t) = KnownImgs(tree)
      /\ \A i \in KnownImgs(tree) : t.images[i].covered = tree.images[i].covered
  BY <1>1 DEF Marked, Steady, t
<1>9. Verdict # "admitted" => Steady(tree, tree')
  BY <1>6, <1>8, SteadyTransitive
<1> QED BY <1>6, <1>7, <1>8, <1>9 DEF t

\* The child admit_child adds: the old images are still there, and the child has a new one.
NewImageOf(t, u, p) ==
    /\ Known(u) = Known(t) \cup {p} /\ KnownImgs(t) \subseteq KnownImgs(u)
    /\ Current(u, p) \in KnownImgs(u) \ KnownImgs(t)
    /\ \A q \in Known(t) \ {p} : /\ Current(u, q) = Current(t, q)
                                 /\ u.processes[q].root = t.processes[q].root
                                 /\ t.processes[q].active => u.processes[q].active

LEMMA AdmitsNew ==
    ASSUME ProcessesOK, TreeOK(tree), cur.pid \in Pids, RetirePrevious, Verdict = "admitted"
    PROVE  NewImageOf(tree, tree', cur.pid)
<1>1. Steady(tree, Retired) /\ Entered(Retired, tree', cur.pid)
  BY RetiredMark, ChildAdmitted DEF Marked
<1> QED BY <1>1 DEF NewImageOf, Entered, Steady, Current

\* The root is admitted.
LEMMA RootEnters ==
    ASSUME ProcessesOK, QueuesOK, ControlOK, AdmitRootChild
    PROVE  /\ TreeOK(tree') /\ Head(children) \in Child /\ Head(children) \in ToSet(children)
           /\ Known(tree) = {} /\ Entered(tree, tree', Head(children).pid)
           /\ tree'.root = Head(children).pid
           /\ NewImageOf(tree, tree', Head(children).pid)
<1>1. children \in Seq(Child) /\ children # << >> /\ tree = EmptyTree
  BY DEF QueuesOK, AdmitRootChild, ControlOK
<1>2. Head(children) \in Child /\ Head(children) \in ToSet(children)
  BY <1>1, TailSet
<1> DEFINE p == Head(children).pid
           token == TokenOf(p)
<1>3. p \in Pids /\ token \in Tokens \cup {NoToken} /\ tree' = AdmitRoot(tree, p, token)
  BY <1>2, TokenType DEF Child, AdmitRootChild
<1>4. tree.root = NoPid /\ TreeOK(tree)
  BY <1>1, EmptyTreeOK DEF EmptyTree
<1> HIDE DEF p, token
<1>5. TreeOK(tree')
  BY <1>3, <1>4, AdmitRootOK
<1>6. Known(tree) = {} /\ Entered(tree, tree', p) /\ tree'.root = p
  BY <1>3, <1>4, AdmitRootAdds
<1>7. NewImageOf(tree, tree', p)
  BY <1>6 DEF NewImageOf, Entered
<1> QED BY <1>2, <1>5, <1>6, <1>7 DEF p

\* A child is admitted.
LEMMA ChildEnters ==
    ASSUME ProcessesOK, TreeOK(tree), ControlOK, Admit
    PROVE  /\ cur \in Child /\ TreeOK(tree') /\ tree'.root = tree.root
           /\ NewImageOf(tree, tree', cur.pid)
<1>1. cur \in Child /\ cur.pid \in Pids /\ RetirePrevious /\ Verdict = "admitted"
  BY DEF Admit, MayAdmitChild, ControlOK, Child
<1> QED BY <1>1, ChildAdmitted, AdmitsNew

\* What any step does to the registry.
LEMMA TreeStep ==
    ASSUME ProcessesOK, QueuesOK, TreeOK(tree), TablesOK, ControlOK, TreeMoves
    PROVE  /\ TreeOK(tree')
           /\ \/ Steady(tree, tree')
              \/ /\ AdmitRootChild /\ Head(children) \in Child
                 /\ Known(tree) = {} /\ Entered(tree, tree', Head(children).pid)
                 /\ tree'.root = Head(children).pid
                 /\ NewImageOf(tree, tree', Head(children).pid)
              \/ /\ Admit /\ cur \in Child /\ tree'.root = tree.root
                 /\ NewImageOf(tree, tree', cur.pid)
<1>0. Steady(tree, tree)
  BY DEF Steady
<1>1. CASE UNCHANGED tree
  BY <1>0, <1>1
<1>2. CASE AdmitRootChild
  BY <1>2, RootEnters
<1>3. CASE ServiceEvents
  BY <1>3, EventsMark DEF ServiceEvents, Marked
<1>4. CASE ServiceDetached
  BY <1>4, NoticesMark DEF ServiceDetached, Marked
<1>5. CASE AwaitReady
  BY <1>1, <1>5, NoticesMark DEF AwaitReady, Marked
<1>6. CASE ReleaseOverCap \/ ReleaseInvalid
  <2>1. cur.pid \in Pids /\ RetirePrevious /\ Verdict # "admitted"
    BY <1>6 DEF ReleaseOverCap, ReleaseInvalid, MayAdmitChild, ControlOK, Child
  <2> QED BY <2>1, ChildAdmitted
<1>7. CASE TakeEvent
  <2> DEFINE i == Head(events).inst
  <2>1. events \in Seq(Event) /\ events # << >>
    BY <1>7 DEF QueuesOK, TakeEvent
  <2>2. Head(events) \in ToSet(events)
    BY <2>1, TailSet
  <2>3. i \in KnownImgs(tree)
    BY <2>2 DEF TablesOK
  <2>4. \/ tree' = MarkStatus(tree, i, "FAILED") \/ tree' = MarkInstrumented(tree, i)
        \/ tree' = tree
    BY <1>7 DEF TakeEvent
  <2> HIDE DEF i
  <2> QED BY <1>1, <2>3, <2>4, MarksOK, MarksSteady DEF Statuses
<1>8. CASE ChildNotReady
  <2>1. cur.pid \in Known(tree) /\ tree' = MarkCoverageLoss(tree, CurInst, "lost")
    BY <1>8 DEF ChildNotReady, ControlOK, Instrumenting
  <2>2. CurInst \in KnownImgs(tree)
    BY <2>1, CurrentKnown DEF CurInst
  <2> QED BY <2>1, <2>2, MarksOK, MarksSteady DEF Reasons
<1>9. CASE Complete \/ Release
  BY <1>9, SurvivorsMark DEF Complete, Release, Marked
<1>10. CASE Finish
  <2>1. Marked(tree, AfterEvents(tree)) /\ TreeOK(AfterEvents(tree))
    BY EventsMark DEF Marked
  <2>2. Marked(AfterEvents(tree), AfterNotices(AfterEvents(tree)))
    BY <2>1, NoticesMark
  <2>3. Marked(tree, tree')
    BY <1>10, <2>1, <2>2, MarkedTransitive DEF Finish
  <2> QED BY <2>3 DEF Marked
<1> QED BY <1>1, <1>2, <1>3, <1>4, <1>5, <1>6, <1>7, <1>8, <1>9, <1>10, ChildEnters DEF TreeMoves

-----------------------------------------------------------------------------
(* Where the main thread goes.  Each step leaves pc, after and cur alone or moves them by
   the action named here; an error stays on record. *)
Stays == pc' = pc /\ after' = after /\ cur' = cur
Flow ==
    /\ errors \subseteq errors'
    /\ pc' = "await_root" => pc = "await_root" /\ Stays /\ UNCHANGED tree
    /\ pc' = "handle" => (pc = "handle" /\ Stays) \/ TakeChild
    /\ pc' \in Instrumenting => (pc \in Instrumenting /\ cur' = cur) \/ AdmitRootChild \/ Admit
    /\ pc' = "drain" => (pc = "drain" /\ Stays) \/ Complete \/ (pc = "drained" /\ after' = after)
    /\ pc' = "drained" => (pc = "drained" \/ after = "drained") /\ after' = after
    /\ pc' = "release" => (pc \in {"release", "drained"} \/ after = "release") /\ after' = after
    /\ pc' = "close_streams" => (pc = "close_streams" /\ Stays) \/ Release
    /\ after' \in {"drained", "release"} => after' = after \/ pc \in {"drain", "drained"}
    /\ after' \in {"idle", "drained", "release", "failed", "interrupted"}
    /\ after' \in {"failed", "interrupted"} => pc' \in Closing
    /\ after' \in {"failed", "interrupted"} => after' = after \/ ReleaseUnhandled \/ Interrupt
    /\ after' # after => pc \notin Over
    /\ after \in {"failed", "interrupted"} /\ pc \in Closing => after' \in {"failed", "interrupted"}
    /\ pc \in Closing => pc' \in Closing
    /\ pc' = "close_gates" => (pc = "close_gates" /\ Stays) \/ ReleaseUnhandled
    /\ pc' = "collect" => (pc = "collect" /\ Stays) \/ CloseGates
    /\ pc' = "kill" => (pc = "kill" /\ Stays) \/ Collect
    /\ pc' = "finish" => (pc = "finish" /\ Stays) \/ LaunchFailed \/ CloseStreams \/ Kill
    /\ pc' = "detach" => (pc = "detach" /\ Stays) \/ Finish
    /\ pc' = "done" => (pc = "done" /\ Stays) \/ Detach

LEMMA ControlFlow ==
    ASSUME ControlOK, [Next]_vars
    PROVE  Flow
<1> USE DEF Flow, ControlOK, ShutDown, Stays, Instrumenting, Closing, Over, Shutdown
<1>1. CASE ReconcileRoot /\ UNCHANGED setting
  BY <1>1 DEF ReconcileRoot, Reconcile, world, queues, marks
<1>2. CASE AdmitRootChild /\ UNCHANGED setting
  BY <1>2 DEF AdmitRootChild, world, queues, marks
<1>3. CASE RootTimeout /\ UNCHANGED setting
  BY <1>3 DEF RootTimeout, Fail, world, queues, marks
<1>4. CASE LaunchFailed /\ UNCHANGED setting
  BY <1>4 DEF LaunchFailed, world, queues, marks
<1>5. CASE ServiceEvents /\ UNCHANGED setting
  BY <1>5 DEF ServiceEvents, world, queues, marks
<1>6. CASE ServiceDetached /\ UNCHANGED setting
  BY <1>6 DEF ServiceDetached, CheckExecTimeouts, NoticeErrors, world, queues, marks
<1>7. CASE ServiceReturns /\ UNCHANGED setting
  BY <1>7 DEF ServiceReturns, world, queues, marks
<1>8. CASE TakeChild /\ UNCHANGED setting
  BY <1>8 DEF TakeChild, world, queues, marks
<1>9. CASE ReleaseUnfollowed /\ UNCHANGED setting
  BY <1>9 DEF ReleaseUnfollowed, world, queues, marks
<1>10. CASE RejectOrphan /\ UNCHANGED setting
  BY <1>10 DEF RejectOrphan, Fail, world, queues, marks
<1>11. CASE Admit /\ UNCHANGED setting
  BY <1>11 DEF Admit, MayAdmitChild, world, queues, marks
<1>12. CASE ReleaseOverCap /\ UNCHANGED setting
  BY <1>12 DEF ReleaseOverCap, MayAdmitChild, world, queues, marks
<1>13. CASE ReleaseInvalid /\ UNCHANGED setting
  BY <1>13 DEF ReleaseInvalid, Fail, MayAdmitChild, world, queues, marks
<1>14. CASE Attach /\ UNCHANGED setting
  BY <1>14 DEF Attach, world, queues, marks
<1>15. CASE AttachFails /\ UNCHANGED setting
  BY <1>15 DEF AttachFails, world, queues, marks
<1>16. CASE AwaitReady /\ UNCHANGED setting
  BY <1>16 DEF AwaitReady, world, queues, marks
<1>17. CASE TakeEvent /\ UNCHANGED setting
  BY <1>17 DEF TakeEvent, Fail, world, queues, marks
<1>18. CASE EventWaitEnds /\ UNCHANGED setting
  BY <1>18 DEF EventWaitEnds, world, queues, marks
<1>19. CASE ReadyTimeout /\ UNCHANGED setting
  BY <1>19 DEF ReadyTimeout, world, queues, marks
<1>20. CASE CloseLauncherGate /\ UNCHANGED setting
  BY <1>20 DEF CloseLauncherGate, world, queues, marks
<1>21. CASE ResumeReady /\ UNCHANGED setting
  BY <1>21 DEF ResumeReady, Fail, world, queues, marks
<1>22. CASE RootNotReady /\ UNCHANGED setting
  BY <1>22 DEF RootNotReady, Fail, world, queues, marks
<1>23. CASE ChildNotReady /\ UNCHANGED setting
  BY <1>23 DEF ChildNotReady, world, queues, marks
<1>24. CASE ResumeLost /\ UNCHANGED setting
  BY <1>24 DEF ResumeLost, world, queues, marks
<1>25. CASE ChildAbandoned /\ UNCHANGED setting
  BY <1>25 DEF ChildAbandoned, world, queues, marks
<1>26. CASE Idle /\ UNCHANGED setting
  BY <1>26 DEF Idle, world, queues, marks
<1>27. CASE Complete /\ UNCHANGED setting
  BY <1>27 DEF Complete, world, queues, marks
<1>28. CASE Drain /\ UNCHANGED setting
  BY <1>28 DEF Drain, Reconcile, world, queues, marks
<1>29. CASE Drained /\ UNCHANGED setting
  BY <1>29 DEF Drained, world, queues, marks
<1>30. CASE DrainDeadline /\ UNCHANGED setting
  BY <1>30 DEF DrainDeadline, world, queues, marks
<1>31. CASE Release /\ UNCHANGED setting
  BY <1>31 DEF Release, world, queues, marks
<1>32. CASE CloseStreams /\ UNCHANGED setting
  BY <1>32 DEF CloseStreams, world, queues, marks
<1>33. CASE ReleaseUnhandled /\ UNCHANGED setting
  BY <1>33 DEF ReleaseUnhandled, world, queues, marks
<1>34. CASE CloseGates /\ UNCHANGED setting
  BY <1>34 DEF CloseGates, world, queues, marks
<1>35. CASE Collect /\ UNCHANGED setting
  BY <1>35 DEF Collect, world, queues, marks
<1>36. CASE Kill /\ UNCHANGED setting
  BY <1>36 DEF Kill, world, queues, marks
<1>37. CASE Finish /\ UNCHANGED setting
  BY <1>37 DEF Finish, world, queues, marks
<1>38. CASE Detach /\ UNCHANGED setting
  BY <1>38 DEF Detach, world, queues, marks
<1>39. CASE Interrupt /\ UNCHANGED setting
  BY <1>39 DEF Interrupt, Fail, world, queues, marks
<1>40. CASE Dispatch /\ UNCHANGED setting
  BY <1>40 DEF Dispatch, world, queues, marks
<1>41. CASE EmergencyResume /\ UNCHANGED setting
  BY <1>41 DEF EmergencyResume, Fail, world, queues, marks
<1>42. CASE World
  BY <1>42 DEF World, queues, marks
<1>43. CASE UNCHANGED vars
  BY <1>43 DEF vars, world, queues, marks
<1> QED BY <1>1, <1>2, <1>3, <1>4, <1>5, <1>6, <1>7, <1>8, <1>9, <1>10, <1>11, <1>12, <1>13, <1>14, <1>15, <1>16, <1>17, <1>18, <1>19, <1>20, <1>21, <1>22, <1>23, <1>24, <1>25, <1>26, <1>27, <1>28, <1>29, <1>30, <1>31, <1>32, <1>33, <1>34, <1>35, <1>36, <1>37, <1>38, <1>39, <1>40, <1>41, <1>42, <1>43 DEF Next, Main, Callbacks, Interrupt, Done

-----------------------------------------------------------------------------
(* The tables. *)

\* The registry only grows, and a known process keeps its image unless it is admitted anew.
Grown ==
    /\ Known(tree) \subseteq Known(tree') /\ KnownImgs(tree) \subseteq KnownImgs(tree')
    /\ \A q \in Known(tree) : \/ Current(tree', q) = Current(tree, q)
                              \/ Admit /\ q = cur.pid

LEMMA TreeGrows ==
    ASSUME ProcessesOK, QueuesOK, TreeOK(tree), TablesOK, ControlOK, TreeMoves
    PROVE  Grown
<1>1. CASE Steady(tree, tree')
  BY <1>1 DEF Grown, Steady, Current
<1>2. CASE AdmitRootChild /\ Known(tree) = {} /\ NewImageOf(tree, tree', Head(children).pid)
  BY <1>2 DEF Grown, NewImageOf
<1>3. CASE Admit /\ NewImageOf(tree, tree', cur.pid)
  BY <1>3 DEF Grown, NewImageOf
<1> QED BY <1>1, <1>2, <1>3, TreeStep

\* An image of the tree belongs to a process of it.
LEMMA ImageOwner ==
    ASSUME NEW t, TreeOK(t), NEW i \in KnownImgs(t)
    PROVE  i[1] \in Known(t) /\ i \in Instances
  BY DEF TreeOK, TreeImages, TreeType

\* The notices and events queued after a step.
LEMMA QueuedAfter ==
    ASSUME QueuesOK, NoticeMoves, EventMoves
    PROVE  \A n \in ToSet(notices') \cup ToSet(events') :
              \/ n \in ToSet(notices) \cup ToSet(events)
              \/ /\ Dispatch /\ n = Head(wire) /\ n.inst \in streams
                 /\ n.type \in {"detached", "backend_ready", "FAILED"}
<1>0. notices \in Seq(Notice) /\ events \in Seq(Event)
  BY DEF QueuesOK
<1> DEFINE m == Head(wire)
           New(n) == /\ Dispatch /\ n = m /\ n.inst \in streams
                     /\ n.type \in {"detached", "backend_ready", "FAILED"}
<1>1. \A n \in ToSet(notices') : n \in ToSet(notices) \/ New(n)
  <2>1. CASE ServiceDetached \/ AwaitReady \/ Finish
    <3>1. notices' = << >> \/ notices' = notices
      BY <2>1 DEF ServiceDetached, AwaitReady, Finish, ServiceNotices
    <3> QED BY <3>1, SmallSets
  <2>2. CASE Dispatch
    <3>1. m \in Message
      BY <2>2, DispatchedSignal
    <3>2. \/ notices' = notices
          \/ notices' = Append(notices, m) /\ m.type = "detached" /\ m.inst \in streams
      BY <2>2 DEF Dispatch
    <3>3. m.type = "detached" => m \in Notice
      BY <3>1, MessageFields
    <3> HIDE DEF m
    <3>4. m \in Notice => ToSet(Append(notices, m)) = ToSet(notices) \cup {m}
      BY <1>0, AppendSet
    <3>5. ToSet(notices') = ToSet(notices) \/ (ToSet(notices') = ToSet(notices) \cup {m} /\ New(m))
      BY <2>2, <3>2, <3>3, <3>4
    <3> QED BY <3>5
  <2> QED BY <2>1, <2>2 DEF NoticeMoves
<1>2. \A n \in ToSet(events') : n \in ToSet(events) \/ New(n)
  <2>1. CASE ServiceEvents \/ Finish
    <3>1. events' = << >>
      BY <2>1 DEF ServiceEvents, Finish
    <3> QED BY <3>1, SmallSets
  <2>2. CASE TakeEvent
    <3>1. events # << >> /\ events' = Tail(events)
      BY <2>2 DEF TakeEvent
    <3> QED BY <1>0, <3>1, TailSet
  <2>3. CASE Dispatch
    <3>1. m \in Message
      BY <2>3, DispatchedSignal
    <3>2. \/ events' = events
          \/ /\ events' = Append(events, m) /\ m.type \in {"backend_ready", "FAILED"}
             /\ m.inst \in streams
      BY <2>3 DEF Dispatch
    <3>3. m.type \in {"backend_ready", "FAILED"} => m \in Event
      BY <3>1, MessageFields
    <3> HIDE DEF m
    <3>4. m \in Event => ToSet(Append(events, m)) = ToSet(events) \cup {m}
      BY <1>0, AppendSet
    <3>5. ToSet(events') = ToSet(events) \/ (ToSet(events') = ToSet(events) \cup {m} /\ New(m))
      BY <2>3, <3>2, <3>3, <3>4
    <3> QED BY <3>5
  <2> QED BY <2>1, <2>2, <2>3 DEF EventMoves
<1> QED BY <1>1, <1>2

\* Admitting an image of a known process is an exec, whose stream was retired before.
LEMMA AdmittedExec ==
    ASSUME TreeOK(tree), Admit
    PROVE  cur.pid \in Known(tree) => Replaces
<1>1. Known(Retired) = Known(tree)
  BY RetiredMark DEF Marked, Steady
<1> QED BY <1>1 DEF Admit, Verdict, ChildVerdict, KnownVerdict, Replaces

\* The streams after a step.
LEMMA StreamsAfter ==
    ASSUME TreeOK(tree), TablesOK, StreamMoves
    PROVE  \A i \in streams' : \/ i \in streams /\ (Admit => i[1] # cur.pid)
                               \/ Attach /\ i = CurInst
<1>1. CASE Attach
  BY <1>1 DEF Attach, Admit
<1>2. CASE Admit
  <2>1. streams' = streams \ (IF Replaces THEN {Current(tree, cur.pid)} ELSE {})
    BY <1>2 DEF Admit, RetirePrevious, DetachStreams
  <2>2. \A i \in streams : i[1] = cur.pid => Replaces /\ i = Current(tree, cur.pid)
    BY <1>2, AdmittedExec DEF TablesOK
  <2> QED BY <2>1, <2>2
<1>3. CASE /\ ~Admit /\ ~Attach
           /\ \/ UNCHANGED streams \/ ServiceDetached \/ ReleaseOverCap \/ ReleaseInvalid
              \/ AwaitReady \/ RootNotReady \/ ChildNotReady \/ CloseStreams \/ Finish
  <2>1. streams' \subseteq streams
    BY <1>3 DEF ServiceDetached, ServiceNotices, ReleaseOverCap, ReleaseInvalid, RetirePrevious,
       AwaitReady, RootNotReady, ChildNotReady, CloseStreams, Finish, DetachStreams
  <2> QED BY <1>3, <2>1
<1> QED BY <1>1, <1>2, <1>3 DEF StreamMoves

LEMMA AwaitedKnown ==
    ASSUME QueuesOK, TreeOK(tree), TablesOK, ExecMoves
    PROVE  DOMAIN pendingExec' \subseteq Known(tree)
<1>1. ReplacedPids \subseteq Known(tree)
  <2>1. GoneInsts \subseteq KnownImgs(tree) /\ Gone("process-replaced") \subseteq GoneInsts
    BY DEF TablesOK, GoneInsts, Gone
  <2> QED BY <2>1, ImageOwner DEF ReplacedPids
<1>2. DOMAIN Replaced \subseteq Known(tree)
  BY <1>1 DEF Replaced, TablesOK
<1>3. CASE UNCHANGED pendingExec
  BY <1>3 DEF TablesOK
<1>4. CASE ServiceDetached
  <2>1. DOMAIN pendingExec' \subseteq DOMAIN Replaced
    BY <1>4 DEF ServiceDetached, CheckExecTimeouts, StillAwaited
  <2> QED BY <1>2, <2>1
<1>5. CASE Admit \/ ReleaseOverCap \/ ReleaseInvalid
  <2>1. DOMAIN pendingExec' \subseteq DOMAIN pendingExec
    BY <1>5 DEF Admit, ReleaseOverCap, ReleaseInvalid, RetirePrevious
  <2> QED BY <2>1 DEF TablesOK
<1>6. CASE AwaitReady \/ Finish
  BY <1>2, <1>3, <1>6 DEF AwaitReady, Finish
<1> QED BY <1>3, <1>4, <1>5, <1>6 DEF ExecMoves

LEMMA TablesStep ==
    ASSUME QueuesOK, TreeOK(tree), TreeOK(tree'), TablesOK, ControlOK, Grown,
           NoticeMoves, EventMoves, StreamMoves, ExecMoves
    PROVE  TablesOK'
<1>1. \A n \in ToSet(notices') \cup ToSet(events') : n.inst \in KnownImgs(tree')
  <2>1. \A i \in streams : i \in KnownImgs(tree)
    BY CurrentKnown DEF TablesOK
  <2> QED BY <2>1, QueuedAfter DEF TablesOK, Grown
<1>2. \A i \in streams' : i[1] \in Known(tree') /\ i = Current(tree', i[1])
  <2> SUFFICES ASSUME NEW i \in streams' PROVE i[1] \in Known(tree') /\ i = Current(tree', i[1])
    OBVIOUS
  <2>1. CASE i \in streams /\ (Admit => i[1] # cur.pid)
    BY <2>1 DEF TablesOK, Grown
  <2>2. CASE Attach /\ i = CurInst
    <3>1. cur.pid \in Known(tree) /\ tree' = tree
      BY <2>2 DEF Attach, ControlOK, Instrumenting
    <3>2. i = Current(tree, cur.pid) /\ i[1] = cur.pid
      BY <2>2, <3>1, CurrentKnown DEF CurInst
    <3> QED BY <3>1, <3>2
  <2> QED BY <2>1, <2>2, StreamsAfter
<1>3. DOMAIN pendingExec' \subseteq Known(tree')
  BY AwaitedKnown DEF Grown
<1> QED BY <1>1, <1>2, <1>3 DEF TablesOK

\* The PIDs whose start token is noted in a step.
LEMMA TokensNoted ==
    ASSUME ProcessesOK, HeldOK, QueuesOK, ControlOK, TokenMoves
    PROVE  \E ps \in SUBSET Pids :
              /\ untracked \subseteq untracked' /\ untracked' \subseteq untracked \cup ps
              /\ tokens' = Remember(ps) \/ (ps = {} /\ tokens' = tokens)
<1>0. children \in Seq(Child) /\ ToSet(children) \subseteq Child
  BY DEF QueuesOK, ToSet
<1>1. CASE UNCHANGED <<untracked, tokens>>
  BY <1>1
<1>2. CASE ReconcileRoot \/ Drain
  <2>1. Reconcile \/ UNCHANGED <<untracked, tokens>>
    BY <1>2 DEF ReconcileRoot, Drain
  <2>2. CASE Reconcile
    <3>1. PICK ps \in SUBSET Pids : untracked' = untracked \cup ps /\ tokens' = Remember(ps)
      BY <2>2, Reconciled
    <3> QED BY <3>1
  <2> QED BY <1>1, <2>1, <2>2
<1>3. CASE AdmitRootChild
  <2>1. Head(children) \in Child
    BY <1>0, <1>3, TailSet DEF AdmitRootChild
  <2> DEFINE ps == {Head(children).pid}
  <2>2. ps \in SUBSET Pids /\ tokens' = Remember(ps) /\ untracked' = untracked
    BY <1>3, <2>1 DEF AdmitRootChild, Child, marks
  <2> HIDE DEF ps
  <2> QED BY <2>2
<1>4. CASE Admit \/ ReleaseInvalid
  <2> DEFINE ps == {cur.pid}
  <2>1. cur.pid \in Pids
    BY <1>4 DEF Admit, ReleaseInvalid, MayAdmitChild, ControlOK, Child
  <2>2. /\ ps \in SUBSET Pids /\ tokens' = Remember(ps) /\ untracked \subseteq untracked'
        /\ untracked' \subseteq untracked \cup ps
    BY <1>4, <2>1 DEF Admit, ReleaseInvalid
  <2> HIDE DEF ps
  <2> QED BY <2>2
<1>5. CASE ReleaseUnhandled
  <2> DEFINE ps == {c.pid : c \in pending \cup ToSet(children)}
  <2>1. ps \in SUBSET Pids
    BY <1>0 DEF HeldOK, Child
  <2>2. tokens' = Remember(ps) /\ untracked' = untracked \cup ps
    BY <1>5 DEF ReleaseUnhandled
  <2> HIDE DEF ps
  <2> QED BY <2>1, <2>2
<1>6. CASE Collect
  <2> DEFINE ps == {c.pid : c \in ToSet(children)}
  <2>1. ps \in SUBSET Pids
    BY <1>0 DEF Child
  <2>2. tokens' = Remember(ps) /\ untracked' = untracked \cup ps
    BY <1>6 DEF Collect
  <2> HIDE DEF ps
  <2> QED BY <2>1, <2>2
<1>7. CASE EmergencyResume
  <2> DEFINE ps == {emergency.pid}
  <2>1. ps \in SUBSET Pids
    BY <1>7 DEF EmergencyResume, QueuesOK, Child
  <2>2. tokens' = Remember(ps) /\ untracked' = untracked \cup ps
    BY <1>7 DEF EmergencyResume
  <2> HIDE DEF ps
  <2> QED BY <2>1, <2>2
<1> QED BY <1>1, <1>2, <1>3, <1>4, <1>5, <1>6, <1>7 DEF TokenMoves

\* A noted token is the life the process is in; a token noted before stays.
LEMMA Remembered ==
    ASSUME ProcessesOK, NEW ps \in SUBSET Pids
    PROVE  /\ DOMAIN Remember(ps) = DOMAIN tokens \cup ps
           /\ \A p \in DOMAIN tokens : Remember(ps)[p] = tokens[p]
           /\ \A p \in ps \ DOMAIN tokens :
                 Remember(ps)[p] # NoToken => /\ Remember(ps)[p] \in Nat
                                             /\ Remember(ps)[p] = os[p].life
<1>1. \A p \in ps : TokenOf(p) # NoToken => TokenOf(p) \in Nat /\ TokenOf(p) = os[p].life
  BY TokenType
<1> QED BY <1>1 DEF Remember

LEMMA TokensStep ==
    ASSUME ProcessesOK, HeldOK, QueuesOK, TreeOK(tree), TablesOK, ControlOK, TokensOK,
           ProcessesKept, TokenMoves, TreeMoves
    PROVE  TokensOK' /\ \A p \in DOMAIN tokens : p \in DOMAIN tokens' /\ tokens'[p] = tokens[p]
<1>1. PICK ps \in SUBSET Pids :
         /\ untracked' \subseteq untracked \cup ps
         /\ tokens' = Remember(ps) \/ (ps = {} /\ tokens' = tokens)
  BY TokensNoted
<1>2. /\ DOMAIN tokens' = DOMAIN tokens \cup ps
      /\ \A p \in DOMAIN tokens : tokens'[p] = tokens[p]
      /\ \A p \in DOMAIN tokens' \ DOMAIN tokens :
            tokens'[p] # NoToken => tokens'[p] \in Nat /\ tokens'[p] = os[p].life
  <2>1. CASE tokens' = Remember(ps)
    BY <2>1, Remembered
  <2>2. CASE ps = {} /\ tokens' = tokens
    BY <2>2
  <2> QED BY <1>1, <2>1, <2>2
<1>3. \A p \in Pids : os[p].life \in Nat /\ os'[p].life \in Nat /\ os'[p].life >= os[p].life
  BY DEF ProcessesKept, ProcessesOK, Ages, Proc
<1>4. \A p \in DOMAIN tokens' : tokens'[p] # NoToken => /\ tokens'[p] \in Nat
                                                       /\ tokens'[p] <= os'[p].life
  <2> SUFFICES ASSUME NEW p \in DOMAIN tokens', tokens'[p] # NoToken
               PROVE  tokens'[p] \in Nat /\ tokens'[p] <= os'[p].life
    OBVIOUS
  <2>1. p \in Pids
    BY <1>2 DEF TokensOK
  <2>2. tokens'[p] \in Nat /\ tokens'[p] <= os[p].life
    <3>1. CASE p \in DOMAIN tokens
      BY <1>2, <3>1 DEF TokensOK
    <3>2. CASE p \notin DOMAIN tokens
      BY <1>2, <1>3, <2>1, <3>2
    <3> QED BY <3>1, <3>2
  <2> QED BY <1>3, <2>1, <2>2
<1>5. Known(tree') \subseteq DOMAIN tokens'
  <2>1. CASE Steady(tree, tree')
    BY <1>2, <2>1 DEF Steady, TokensOK
  <2>2. CASE AdmitRootChild /\ Head(children) \in Child
             /\ NewImageOf(tree, tree', Head(children).pid)
    <3>1. tokens' = Remember({Head(children).pid})
      BY <2>2 DEF AdmitRootChild
    <3>2. Head(children).pid \in DOMAIN tokens'
      BY <3>1 DEF Remember
    <3> QED BY <1>2, <2>2, <3>2 DEF NewImageOf, TokensOK
  <2>3. CASE Admit /\ NewImageOf(tree, tree', cur.pid)
    <3>1. tokens' = Remember({cur.pid})
      BY <2>3 DEF Admit
    <3>2. cur.pid \in DOMAIN tokens'
      BY <3>1 DEF Remember
    <3> QED BY <1>2, <2>3, <3>2 DEF NewImageOf, TokensOK
  <2> QED BY <2>1, <2>2, <2>3, TreeStep
<1>6. DOMAIN tokens' \subseteq Pids /\ untracked' \subseteq DOMAIN tokens'
  BY <1>1, <1>2 DEF TokensOK
<1> QED BY <1>2, <1>4, <1>5, <1>6 DEF TokensOK

LEMMA ControlStep ==
    ASSUME QueuesOK, TreeOK(tree), TablesOK, ProcessesOK, ControlOK, Grown, TreeMoves, Flow
    PROVE  ControlOK'
<1>1. after' \in {"idle", "drained", "release", "failed", "interrupted"} /\ (ShutDown' => pc' \in Closing)
  BY DEF Flow, ShutDown
<1>2. pc' = "await_root" => tree' = EmptyTree
  BY DEF Flow, ControlOK
<1>3. pc' = "handle" => cur' \in Child
  <2>1. CASE pc = "handle" /\ Stays
    BY <2>1 DEF Stays, ControlOK
  <2>2. CASE TakeChild
    <3>1. children \in Seq(Child) /\ children # << >> /\ cur' = Head(children)
      BY <2>2 DEF TakeChild, QueuesOK
    <3> QED BY <3>1, TailSet
  <2> QED BY <2>1, <2>2 DEF Flow
<1>4. pc' \in Instrumenting => cur' \in Child /\ cur'.pid \in Known(tree')
  <2>1. CASE pc \in Instrumenting /\ cur' = cur
    BY <2>1 DEF ControlOK, Grown
  <2>2. CASE AdmitRootChild
    <3>1. cur' = Head(children)
      BY <2>2 DEF AdmitRootChild
    <3> QED BY <2>2, <3>1, RootEnters DEF Entered
  <2>3. CASE Admit
    <3>1. cur' = cur
      BY <2>3 DEF Admit
    <3> QED BY <2>3, <3>1, ChildEnters DEF NewImageOf
  <2> QED BY <2>1, <2>2, <2>3 DEF Flow
<1> QED BY <1>1, <1>2, <1>3, <1>4 DEF ControlOK

-----------------------------------------------------------------------------
(* The shape of what the controller keeps. *)

LEMMA ShapeInit == Init => Shape
<1> SUFFICES ASSUME Init PROVE Shape
  OBVIOUS
<1> USE DEF Init, WorldInit
<1>1. setting \in Settings /\ setting \in Setting
  BY WorldAssumption
<1>2. setting.lives \in Nat /\ setting.queue \in Nat
  BY <1>1 DEF Setting
<1>3. ProcessesOK
  <2>1. [state |-> "unused", parent |-> Launcher, image |-> 0, life |-> 0, gate |-> NoInst] \in Proc
    BY DEF Proc, Gate
  <2>2. os \in [Pids -> Proc]
    BY <2>1
  <2>3. \A p \in Pids : os[p].life = 0 /\ os[p].state = "unused"
    OBVIOUS
  <2> QED BY <1>1, <1>2, <2>2, <2>3 DEF ProcessesOK
<1>4. SessionsOK
  BY DEF SessionsOK, Session, NoSession
<1>5. HeldOK
  BY FS_EmptySet DEF HeldOK
<1>6. QueuesOK
  <2>1. << >> \in Seq(Message) /\ << >> \in Seq(Child) /\ << >> \in Seq(Notice) /\ << >> \in Seq(Event)
    BY SmallSets
  <2>2. Len(<< >>) = 0
    OBVIOUS
  <2>3. wire = << >> /\ children = << >> /\ notices = << >> /\ events = << >> /\ emergency = NoChild
    OBVIOUS
  <2> QED BY <1>2, <2>1, <2>2, <2>3 DEF QueuesOK
<1>7. TreeOK(tree)
  BY EmptyTreeOK
<1>8. TablesOK
  BY SmallSets DEF TablesOK
<1>9. TokensOK
  BY DEF TokensOK, EmptyTree, Known
<1>10. ControlOK
  BY DEF ControlOK, Instrumenting, ShutDown
<1> QED BY <1>3, <1>4, <1>5, <1>6, <1>7, <1>8, <1>9, <1>10 DEF Shape

\* What any step does, and the facts every later proof starts from.
Step == /\ setting' = setting /\ ProcessesKept
        /\ Grown /\ Flow /\ Shape'
        /\ \A p \in DOMAIN tokens : p \in DOMAIN tokens' /\ tokens'[p] = tokens[p]

LEMMA ShapeStep ==
    ASSUME Shape, [Next]_vars
    PROVE  Step
<1> USE DEF Shape
<1>1. /\ setting' = setting
      /\ OsMoves /\ SessionMoves /\ GateMoves /\ StreamMoves /\ WireMoves /\ RecordMoves
      /\ ChildMoves /\ EmergencyMoves /\ TokenMoves /\ NoticeMoves /\ EventMoves
      /\ TreeMoves /\ ExecMoves
  BY Frames
<1>2. Flow
  BY ControlFlow
<1>3. ProcessesKept
  BY <1>1, ProcessStep
<1>4. SessionsOK' /\ QueuesOK'
  BY <1>1, SessionStep, QueuesStep
<1>5. TreeOK(tree') /\ Grown
  BY <1>1, TreeStep, TreeGrows
<1>6. TablesOK'
  BY <1>1, <1>5, TablesStep
<1>7. TokensOK' /\ \A p \in DOMAIN tokens : p \in DOMAIN tokens' /\ tokens'[p] = tokens[p]
  BY <1>1, <1>3, TokensStep
<1>8. ControlOK'
  BY <1>1, <1>2, <1>5, ControlStep
<1> QED BY <1>1, <1>2, <1>3, <1>4, <1>5, <1>6, <1>7, <1>8 DEF Step, ProcessesKept

(* The queues, the tables and the registry keep their shape in every run.    *)
THEOREM ShapeHolds == Spec => []Shape
<1>1. Shape /\ [Next]_vars => Shape'
  BY ShapeStep DEF Step
<1> QED BY ShapeInit, <1>1, PTL DEF Spec

(* The registry and the tables keep their shape (TypeOK): the capped tree     *)
(* stays a tree of dense image lists, the child queue keeps its limit, and    *)
(* streams, awaited execs and start tokens belong to known processes.         *)
THEOREM TypeCorrect == Spec => []TypeOK
<1>1. Shape => TypeOK
  BY DEF Shape, TypeOK, TreeOK, QueuesOK, TablesOK, TokensOK
<1> QED BY ShapeHolds, <1>1, PTL

(* One PID is served by one stream (OneStreamPerPid): whatever children and   *)
(* execs arrive, detach_process has ended the old image's stream before        *)
(* admit_child makes the new one current.                                      *)
THEOREM OneStream == Spec => []OneStreamPerPid
<1>1. Shape => OneStreamPerPid
  <2> SUFFICES ASSUME Shape, NEW i \in streams, NEW j \in streams, i[1] = j[1] PROVE i = j
    BY DEF OneStreamPerPid
  <2> QED BY DEF Shape, TablesOK
<1> QED BY ShapeHolds, <1>1, PTL

-----------------------------------------------------------------------------
(* Where children come from: the gates, over the wire, into the queue. *)

\* What a step adds to the device's suspended children.
LEMMA PendingStep ==
    ASSUME Shape, setting' = setting, OsMoves
    PROVE  \A c \in pending' : c \in pending \/ (WorldStep /\ NewChild(c))
<1> USE DEF Shape
<1>1. CASE Resuming \/ UNCHANGED <<os, pending, blind>>
  BY <1>1, ResumeKept DEF Resuming
<1>2. CASE Kill
  BY <1>2, KillKept
<1>3. CASE WorldStep
  BY <1>3, WireGrows DEF QueuesOK, WorldSends
<1> QED BY <1>1, <1>2, <1>3 DEF OsMoves

\* What a step adds to the children on the wire.
LEMMA ComingStep ==
    ASSUME Shape, WireMoves
    PROVE  \A c \in Coming' : c \in Coming \/ (WorldStep /\ NewChild(c))
<1>1. CASE ToSet(wire') \subseteq ToSet(wire)
  BY <1>1 DEF Coming
<1>2. CASE WorldStep /\ WorldSends
  BY <1>2 DEF Coming, WorldSends
<1> QED BY <1>1, <1>2, WireStep DEF Shape

\* What a step adds to the controller's child queue, and to the child that overflowed it.
LEMMA ChildrenStep ==
    ASSUME Shape, ChildMoves, EmergencyMoves
    PROVE  /\ \A c \in ToSet(children') : c \in ToSet(children) \cup pending \cup Coming
           /\ emergency' = emergency \/ emergency' = NoChild \/ emergency' \in Coming
<1>0. children \in Seq(Child)
  BY DEF Shape, QueuesOK
<1>1. Dispatch /\ Head(wire).type = "child-added" => Head(wire).child \in Coming \cap Child
  BY DispatchedSignal, MessageFields DEF Shape, Coming
<1>2. emergency' = emergency \/ emergency' = NoChild \/ emergency' \in Coming
  BY <1>1 DEF EmergencyMoves, Dispatch, OnChildAdded, EmergencyResume
<1>3. \A c \in ToSet(children') : c \in ToSet(children) \cup pending \cup Coming
  <2>1. CASE UNCHANGED children
    BY <2>1
  <2>2. CASE ReconcileRoot \/ Drain
    <3>1. Reconcile \/ UNCHANGED children
      BY <2>2 DEF ReconcileRoot, Drain
    <3> QED BY <3>1, Reconciled DEF Shape
  <2>3. CASE AdmitRootChild \/ TakeChild
    <3>1. children # << >> /\ children' = Tail(children)
      BY <2>3 DEF AdmitRootChild, TakeChild
    <3> QED BY <1>0, <3>1, TailSet
  <2>4. CASE ReleaseUnhandled \/ Collect
    <3>1. children' = << >>
      BY <2>4 DEF ReleaseUnhandled, Collect
    <3> QED BY <3>1, SmallSets
  <2>5. CASE Dispatch
    <3> DEFINE c == Head(wire).child
    <3>1. \/ UNCHANGED children
          \/ Head(wire).type = "child-added" /\ children' = Append(children, c)
      BY <2>5 DEF Dispatch, OnChildAdded
    <3>2. Head(wire).type = "child-added" => c \in Coming \cap Child
      BY <1>1, <2>5
    <3> HIDE DEF c
    <3>3. c \in Child => ToSet(Append(children, c)) = ToSet(children) \cup {c}
      BY <1>0, AppendSet
    <3>4. ToSet(children') = ToSet(children) \/ (ToSet(children') = ToSet(children) \cup {c}
                                                 /\ c \in Coming)
      BY <3>1, <3>2, <3>3
    <3> QED BY <3>4
  <2> QED BY <2>1, <2>2, <2>3, <2>4, <2>5 DEF ChildMoves
<1> QED BY <1>2, <1>3

-----------------------------------------------------------------------------
(* The end of a run. *)

\* A process that is gone does not come back: a PID handed out anew is another process.
LEMMA GoneForGood ==
    ASSUME Shape, Step, NEW p \in DOMAIN tokens, SameProcessAlive(p)'
    PROVE  SameProcessAlive(p)
<1>0. p \in Pids /\ tokens'[p] = tokens[p]
  BY DEF Shape, TokensOK, Step
<1>1. os'[p].state \in {"gated", "running"} /\ tokens[p] = os'[p].life
  BY <1>0 DEF SameProcessAlive, Alive, TokenOf
<1>2. ProcessesOK /\ ProcessesOK' /\ Ages
  BY DEF Shape, Step, ProcessesKept
<1>3. /\ os'[p].life \in Nat /\ os[p].life \in Nat
      /\ os'[p].life \in Tokens
  <2>1. /\ setting'.lives \in Nat /\ 1 .. setting'.lives \subseteq Tokens
        /\ os'[p].life <= setting'.lives /\ os'[p].life >= 1
        /\ os'[p].life \in Nat /\ os[p].life \in Nat
    <3>1. setting'.lives \in Nat /\ 1 .. setting'.lives \subseteq Tokens
      BY <1>2, Settled DEF Step
    <3> QED BY <1>0, <1>1, <1>2, <3>1 DEF ProcessesOK, Proc
  <2> QED BY <2>1
<1>4. tokens[p] <= os[p].life
  BY <1>1, <1>3, TokensAssumption DEF Shape, TokensOK
<1>5. os'[p].life = os[p].life
  BY <1>0, <1>1, <1>2, <1>3, <1>4 DEF Ages
<1>6. os[p].state \in {"gated", "running"}
  BY <1>0, <1>1, <1>2, <1>5 DEF Ages, ProcessesOK, Proc
<1> QED BY <1>1, <1>5, <1>6 DEF SameProcessAlive, Alive, TokenOf

\* What each step may do, variable by variable.
Moves == /\ OsMoves /\ SessionMoves /\ GateMoves /\ StreamMoves /\ WireMoves /\ RecordMoves
         /\ ChildMoves /\ EmergencyMoves /\ TokenMoves /\ NoticeMoves /\ EventMoves
         /\ TreeMoves /\ ExecMoves

\* A session ends, or an agent answers; no session starts by itself.
LEMMA WorldSession ==
    ASSUME SessionsOK, WorldStep, NEW p \in Pids
    PROVE  \/ session'[p] \in {session[p], NoSession}
           \/ /\ session[p].agent = "loading" /\ session'[p].inst = session[p].inst
              /\ session'[p].agent \in {"ready", "failed"}
<1> DEFINE Fine == \/ session'[p] \in {session[p], NoSession}
                   \/ /\ session[p].agent = "loading" /\ session'[p].inst = session[p].inst
                      /\ session'[p].agent \in {"ready", "failed"}
<1>0. session \in [Pids -> Session] /\ session[p] \in Session
  BY DEF SessionsOK
<1>1. CASE UNCHANGED session
  BY <1>1
<1>2. ASSUME NEW q \in Pids, session' = [session EXCEPT ![q] = NoSession] PROVE Fine
  BY <1>0, <1>2
<1>3. ASSUME NEW q \in Pids, NEW a \in {"ready", "failed"}, session[q].agent = "loading",
             session' = [session EXCEPT ![q].agent = a]
      PROVE  Fine
  BY <1>0, <1>3 DEF Session
<1>4. CASE LauncherSpawns \/ LauncherFailsToSpawn \/ LauncherReports
  BY <1>1, <1>4 DEF LauncherSpawns, LauncherFailsToSpawn, LauncherReports, Start
<1>5. ASSUME NEW q \in Pids, Exit(q) \/ SessionLost(q) \/ \E escapes \in BOOLEAN : Exec(q, escapes)
      PROVE  Fine
  BY <1>2, <1>5 DEF Exit, SessionLost, Exec
<1>6. ASSUME NEW q \in Pids, AgentReady(q) \/ AgentFails(q) PROVE Fine
  BY <1>3, <1>6 DEF AgentReady, AgentFails
<1>7. ASSUME NEW q \in Pids, GateReleases(q) \/ \E r \in Pids : Fork(q, r) PROVE Fine
  BY <1>1, <1>7 DEF GateReleases, Fork, Start
<1> QED BY <1>4, <1>5, <1>6, <1>7 DEF WorldStep

\* Before the target nothing exists.
LEMMA NothingStarted ==
    ASSUME Shape, BeforeRoot, OsMoves, os[Target].state = "unused"
    PROVE  \/ pending' = {} /\ \A p \in Pids : os'[p].state = "unused"
           \/ LauncherSpawns /\ os'[Target].state # "unused"
<1>2. pending = {} /\ \A p \in Pids : os[p].state = "unused"
  BY DEF BeforeRoot
<1>3. \A p \in Pids : ~Alive(p)
  BY <1>2 DEF Alive
<1>4. os \in [Pids -> Proc]
  BY DEF Shape, ProcessesOK
<1> DEFINE Fine == pending' = {} /\ \A p \in Pids : os'[p].state = os[p].state
<1>5. CASE UNCHANGED <<os, pending>>
  BY <1>2, <1>5
<1>6. CASE Resuming
  <2>1. PICK ps : ResumeHeld(ps)
    BY <1>6 DEF Resuming
  <2>2. HeldPids = {}
    BY <1>2 DEF HeldPids
  <2>3. Fine
    BY <1>2, <2>1, <2>2 DEF ResumeHeld
  <2> QED BY <1>2, <2>3
<1>7. CASE Kill
  <2>1. Doomed \cap Pids = {}
    BY <1>3 DEF Doomed, SameProcessAlive
  <2>2. Fine
    BY <1>2, <1>7, <2>1 DEF Kill
  <2> QED BY <1>2, <2>2
<1>8. CASE LauncherSpawns
  <2>1. os'[Target].state # "unused"
    BY <1>4, <1>8, WorldAssumption DEF LauncherSpawns, Start
  <2> QED BY <1>8, <2>1
<1>9. CASE LauncherFailsToSpawn \/ LauncherReports
  BY <1>5, <1>9 DEF LauncherFailsToSpawn, LauncherReports
<1>10. ASSUME NEW p \in Pids, \/ Exit(p) \/ AgentReady(p) \/ AgentFails(p) \/ GateReleases(p)
                              \/ \E escapes \in BOOLEAN : Exec(p, escapes)
                              \/ \E q \in Pids : Fork(p, q)
       PROVE  FALSE
  BY <1>2, <1>3, <1>10 DEF Exit, AgentReady, AgentFails, GateReleases, HeldPids, Exec, Fork
<1>11. ASSUME NEW p \in Pids, SessionLost(p) PROVE Fine
  <2>1. os' = Ungated(os, p) /\ pending' = pending
    BY <1>11 DEF SessionLost
  <2> QED BY <1>2, <1>4, <2>1, UngatedFields
<1> QED BY <1>2, <1>5, <1>6, <1>7, <1>8, <1>9, <1>10, <1>11 DEF OsMoves, WorldStep

LEMMA BeforeRootStep ==
    ASSUME Shape, BeforeRoot, Step, Moves
    PROVE  BeforeRoot'
<1>1. tree'.root \in {NoPid, Target}
  <2>1. CASE Steady(tree, tree')
    BY <2>1 DEF Steady, BeforeRoot
  <2>2. CASE AdmitRootChild
    <3>1. pc = "await_root"
      BY <2>2 DEF AdmitRootChild
    <3> QED BY <2>2, <3>1, RootEnters DEF Shape, BeforeRoot
  <2>3. CASE Admit /\ tree'.root = tree.root
    BY <2>3 DEF BeforeRoot
  <2> QED BY <2>1, <2>2, <2>3, TreeStep DEF Shape, Moves
<1>2. ASSUME pc' = "await_root"
      PROVE  /\ \A p \in Pids : session'[p] = NoSession
             /\ \A c \in pending' \cup ToSet(children') \cup Coming' \cup ({emergency'} \ {NoChild}) :
                   c.pid = Target
  <2>1. pc = "await_root"
    BY <1>2 DEF Step, Flow
  <2>2. \A p \in Pids : session[p] = NoSession
    BY <2>1 DEF BeforeRoot
  <2>3. ~\E p \in Pids : Gates(p)
    BY <2>2 DEF Gates, Attached
  <2>4. \A c : NewChild(c) => c.pid = Target
    BY <2>3 DEF NewChild
  <2>5. \A c \in pending \cup ToSet(children) \cup Coming \cup ({emergency} \ {NoChild}) :
           c.pid = Target
    BY <2>1 DEF BeforeRoot
  <2>6. \A c \in pending' \cup Coming' : c.pid = Target
    BY <2>4, <2>5, PendingStep, ComingStep DEF Step, Moves
  <2>7. \A c \in ToSet(children') \cup ({emergency'} \ {NoChild}) : c.pid = Target
    BY <2>5, ChildrenStep DEF Moves
  <2>8. \A p \in Pids : session'[p] = NoSession
    <3> SUFFICES ASSUME NEW p \in Pids PROVE session'[p] = NoSession
      OBVIOUS
    <3>1. CASE UNCHANGED session
      BY <2>2, <3>1
    <3>2. CASE Detaching
      BY <2>2, <3>2 DEF Detaching, DetachStreams
    <3>3. CASE Attach \/ Kill \/ Detach
      BY <2>1, <3>3 DEF Attach, Kill, Detach
    <3>4. CASE WorldStep
      BY <2>2, <3>4, WorldSession DEF Shape, NoSession
    <3> QED BY <3>1, <3>2, <3>3, <3>4 DEF Moves, SessionMoves
  <2> QED BY <2>6, <2>7, <2>8
<1>3. os'[Target].state = "unused" => pending' = {} /\ \A p \in Pids : os'[p].state = "unused"
  <2>1. os'[Target].state = "unused" => os[Target].state = "unused"
    BY WorldAssumption DEF Step, ProcessesKept, Ages
  <2> QED BY <2>1, NothingStarted DEF Moves
<1> QED BY <1>1, <1>2, <1>3 DEF BeforeRoot

LEMMA RecordStep ==
    ASSUME Shape, BeforeRoot, RecordOK, Step, Moves
    PROVE  RecordOK' /\ (record = "completion" => record' = "completion")
           /\ (record # "none" => record' = record)
<1>1. record # "none" => record' = record
  BY ZenonT(60) DEF Moves, RecordMoves, Kill, WorldStep, LauncherSpawns, LauncherFailsToSpawn, LauncherReports,
     Exit, AgentReady, AgentFails, SessionLost, GateReleases, Exec, Fork, Start
<1>2. TargetOver => TargetOver'
  BY WorldAssumption DEF Step, ProcessesKept, Ages, TargetOver
<1>3. record = "none" => \/ record' \in {"none", "killed"}
                         \/ LauncherFailsToSpawn \/ LauncherReports
  BY ZenonT(60) DEF Moves, RecordMoves, Kill, WorldStep, LauncherSpawns, Exit, AgentReady, AgentFails,
     SessionLost, GateReleases, Exec, Fork, Start
<1>4. record' = "completion" => TargetOver'
  BY <1>1, <1>2, <1>3 DEF RecordOK, LauncherFailsToSpawn, LauncherReports
<1>5. record' = "launch_failure" => os'[Target].state = "unused"
  <2>1. CASE LauncherFailsToSpawn
    BY <2>1 DEF LauncherFailsToSpawn
  <2>2. CASE record = "launch_failure"
    <3>1. os[Target].state = "unused" /\ ~LauncherSpawns
      BY <2>2 DEF RecordOK, LauncherSpawns
    <3> QED BY <3>1, NothingStarted, WorldAssumption DEF Moves
  <2> QED BY <1>1, <1>3, <2>1, <2>2 DEF LauncherReports
<1> QED BY <1>1, <1>4, <1>5 DEF RecordOK

LEMMA PhaseStep ==
    ASSUME Shape, PhaseOK, Step, record = "completion" => record' = "completion"
    PROVE  PhaseOK'
<1>1. ShutDown => ShutDown' /\ pc \in Closing
  BY DEF Shape, ControlOK, Step, Flow, ShutDown
<1>2. pc' \in {"close_gates", "collect", "kill"} => ShutDown'
  <2>1. CASE ReleaseUnhandled
    BY <2>1 DEF ReleaseUnhandled, ShutDown
  <2>2. CASE pc \in {"close_gates", "collect", "kill"}
    BY <1>1, <2>2 DEF PhaseOK
  <2>3. CASE CloseGates \/ Collect
    BY <1>1, <2>3 DEF CloseGates, Collect, PhaseOK
  <2> QED BY <2>1, <2>2, <2>3 DEF Step, Flow
<1> DEFINE Late == after \in {"drained", "release"}
                   \/ pc \in {"drain", "drained", "release", "close_streams"}
<1>3. Late => record' = "completion" \/ ShutDown'
  BY <1>1 DEF PhaseOK
<1>4. Complete => record' = "completion"
  BY DEF Complete
<1>5. Release => pc = "release"
  BY DEF Release
<1>6. after' \in {"drained", "release"}
        \/ pc' \in {"drain", "drained", "release", "close_streams"} => Late \/ Complete
  BY <1>5 DEF Step, Flow
<1> QED BY <1>2, <1>3, <1>4, <1>6 DEF PhaseOK

LEMMA UntrackedStep ==
    ASSUME Shape, PhaseOK, UntrackedFails, Step, Moves
    PROVE  UntrackedFails'
<1>1. Failed => Failed'
  BY DEF Step, Flow, Failed
<1>2. ShutDown => ShutDown'
  BY DEF Shape, ControlOK, Step, Flow, ShutDown
<1>3. CASE untracked' = untracked
  BY <1>1, <1>2, <1>3 DEF UntrackedFails
<1>4. CASE ReconcileRoot \/ Drain
  <2>1. Reconcile \/ untracked' = untracked
    BY <1>4 DEF ReconcileRoot, Drain
  <2>2. CASE Reconcile
    <3>1. PICK pids \in SUBSET Pids : /\ untracked' = untracked \cup pids
                                      /\ errors' = errors \cup {<<"child_queue", p>> : p \in pids}
      BY <2>2, Reconciled DEF Shape
    <3>2. CASE pids = {}
      BY <1>3, <3>1, <3>2
    <3>3. CASE pids # {}
      <4>1. errors' # {}
        BY <3>1, <3>3
      <4> QED BY <4>1 DEF Failed, UntrackedFails
    <3> QED BY <3>2, <3>3
  <2> QED BY <1>3, <2>1, <2>2
<1>5. CASE AdmitRootChild \/ Admit
  BY <1>3, <1>5 DEF AdmitRootChild, Admit, marks
<1>6. CASE ReleaseInvalid \/ EmergencyResume
  <2>1. errors' # {}
    BY <1>6 DEF ReleaseInvalid, EmergencyResume, Fail
  <2> QED BY <2>1 DEF Failed, UntrackedFails
<1>7. CASE ReleaseUnhandled
  BY <1>7 DEF ReleaseUnhandled, ShutDown, UntrackedFails
<1>8. CASE Collect
  BY <1>2, <1>8 DEF Collect, PhaseOK, UntrackedFails
<1> QED BY <1>3, <1>4, <1>5, <1>6, <1>7, <1>8 DEF Moves, TokenMoves

\* A run comes to its end by one of three ways, and a shutdown only by the last.
LEMMA EndBegins ==
    ASSUME Shape, PhaseOK, Step, pc' \in Over, pc \notin Over
    PROVE  /\ pc' = "finish" /\ after' = after
           /\ IF ShutDown' THEN Kill ELSE LaunchFailed \/ CloseStreams
<1>1. pc' = "finish" /\ (LaunchFailed \/ CloseStreams \/ Kill)
  BY DEF Step, Flow, Over, Finish, Detach
<1>2. after' = after
  BY <1>1 DEF LaunchFailed, CloseStreams, Kill
<1>3. LaunchFailed \/ CloseStreams => ~ShutDown
  BY DEF LaunchFailed, CloseStreams, Shape, ControlOK, Closing
<1>4. Kill => ShutDown
  BY DEF Kill, PhaseOK
<1> QED BY <1>1, <1>2, <1>3, <1>4 DEF ShutDown

LEMMA GatesStep ==
    ASSUME Shape, PhaseOK, GatesClosed, Step, Moves
    PROVE  GatesClosed'
<1>1. ~Attach => gating' \subseteq gating
  BY DEF Moves, GateMoves, Detaching, DetachStreams, CloseLauncherGate, CloseGates, Detach
<1>2. pc \in Closing => ~Attach
  BY DEF Attach, Closing
<1>3. gating = {} /\ pc \in Closing => gating' = {}
  BY <1>1, <1>2
<1>4. CASE pc' \in {"collect", "kill"}
  <2>1. CASE pc \in {"collect", "kill"}
    BY <1>3, <2>1 DEF GatesClosed, Closing
  <2>2. CASE CloseGates
    BY <2>2 DEF CloseGates, GatesClosed
  <2>3. Collect => pc = "collect"
    BY DEF Collect
  <2> QED BY <1>4, <2>1, <2>2, <2>3 DEF Step, Flow
<1>5. CASE pc' \in Over /\ ShutDown' /\ pc \in Over
  <2>1. ShutDown
    BY <1>5 DEF Step, Flow, ShutDown
  <2> QED BY <1>3, <1>5, <2>1 DEF GatesClosed, Closing, Over
<1>6. CASE pc' \in Over /\ ShutDown' /\ pc \notin Over
  <2>1. pc = "kill"
    BY <1>6, EndBegins DEF Kill
  <2> QED BY <1>3, <2>1 DEF GatesClosed, Closing
<1> QED BY <1>4, <1>5, <1>6 DEF GatesClosed

\* With the gates closed no child is gated any more.
LEMMA NoNewChild ==
    ASSUME gating = {}
    PROVE  \A c : ~NewChild(c)
  BY DEF NewChild, Gates

LEMMA NothingComesStep ==
    ASSUME Shape, PhaseOK, GatesClosed, NothingComes, Step, Moves
    PROVE  NothingComes'
<1>1. gating = {} /\ emergency = NoChild /\ Coming = {} => emergency' = NoChild /\ Coming' = {}
  <2> SUFFICES ASSUME gating = {}, emergency = NoChild, Coming = {}
               PROVE  emergency' = NoChild /\ Coming' = {}
    OBVIOUS
  <2>1. Coming' = {}
    BY NoNewChild, ComingStep DEF Moves
  <2> QED BY <2>1, ChildrenStep DEF Moves
<1>2. CASE pc' = "kill"
  <2>1. CASE pc = "kill"
    BY <1>1, <1>2, <2>1 DEF GatesClosed, NothingComes, Over
  <2>2. CASE Collect
    <3>1. emergency = NoChild /\ wire = << >> /\ gating = {}
      BY <2>2 DEF Collect, GatesClosed
    <3>2. Coming = {}
      BY <3>1, SmallSets DEF Coming
    <3> QED BY <1>1, <3>1, <3>2 DEF NothingComes
  <2> QED BY <1>2, <2>1, <2>2 DEF Step, Flow
<1>3. CASE pc' \in Over /\ ShutDown' /\ pc \in Over
  <2>1. ShutDown
    BY <1>3 DEF Step, Flow, ShutDown
  <2> QED BY <1>1, <1>3, <2>1 DEF GatesClosed, NothingComes
<1>4. CASE pc' \in Over /\ ShutDown' /\ pc \notin Over
  <2>1. pc = "kill"
    BY <1>4, EndBegins DEF Kill
  <2> QED BY <1>1, <2>1 DEF GatesClosed, NothingComes
<1> QED BY <1>2, <1>3, <1>4 DEF NothingComes

\* After the end of the run nobody is admitted, and only an overflow is left to be noted.
LEMMA OverKeeps ==
    ASSUME Shape, Step, Moves, pc \in Over
    PROVE  /\ Steady(tree, tree') /\ after' = after
           /\ \/ untracked' = untracked
              \/ /\ EmergencyResume /\ emergency # NoChild
                 /\ untracked' = untracked \cup {emergency.pid}
                 /\ <<"child_queue", emergency.pid>> \in errors'
<1>1. ~AdmitRootChild /\ ~Admit
  BY DEF AdmitRootChild, Admit, MayAdmitChild, Over
<1>2. Steady(tree, tree')
  BY <1>1, TreeStep DEF Shape, Moves
<1>3. after' = after
  BY DEF Step, Flow
<1>4. untracked' = untracked \/ EmergencyResume
  BY DEF Moves, TokenMoves, ReconcileRoot, AdmitRootChild, Admit, MayAdmitChild, ReleaseInvalid,
     Drain, ReleaseUnhandled, Collect, Over, Shutdown
<1> QED BY <1>2, <1>3, <1>4 DEF EmergencyResume, Fail

LEMMA NobodyLeftStep ==
    ASSUME Shape, PhaseOK, NothingComes, NobodyLeft, Step, Moves
    PROVE  NobodyLeft'
<1> SUFFICES ASSUME pc' \in Over, ShutDown', NEW p \in Known(tree') \cup untracked'
             PROVE  ~SameProcessAlive(p)'
  BY DEF NobodyLeft
<1>1. CASE pc \in Over
  <2>1. ShutDown
    BY <1>1 DEF Step, Flow, ShutDown
  <2>2. emergency = NoChild
    BY <1>1, <2>1 DEF NothingComes
  <2>3. p \in Known(tree) \cup untracked
    BY <1>1, <2>2, OverKeeps DEF Steady
  <2>4. p \in DOMAIN tokens
    BY <2>3 DEF Shape, TokensOK
  <2> QED BY <1>1, <2>1, <2>3, <2>4, GoneForGood DEF NobodyLeft
<1>2. CASE pc \notin Over
  <2>1. Kill
    BY <1>2, EndBegins
  <2>2. p \in Known(tree) \cup untracked /\ tree' = tree
    BY <2>1 DEF Kill, marks
  <2>3. p \in DOMAIN tokens /\ p \in Pids
    BY <2>2 DEF Shape, TokensOK
  <2>4. CASE p \in Doomed
    <3>1. os'[p].state = "dead"
      BY <2>1, <2>3, <2>4 DEF Kill, Shape, ProcessesOK, Proc
    <3> QED BY <3>1 DEF SameProcessAlive, Alive
  <2>5. CASE p \notin Doomed
    BY <2>2, <2>3, <2>5, GoneForGood DEF Doomed
  <2> QED BY <2>4, <2>5
<1> QED BY <1>1, <1>2

LEMMA SurvivorsStep ==
    ASSUME Shape, BeforeRoot, RecordOK, PhaseOK, SurvivorsMarked, Step, Moves,
           record # "none" => record' = record
    PROVE  SurvivorsMarked'
<1> SUFFICES ASSUME pc' = "close_streams"
                       \/ (pc' \in Over /\ ~ShutDown' /\ record' # "launch_failure"),
                    NEW p \in Known(tree'), SameProcessAlive(p)'
             PROVE  tree'.processes[p].active
  BY DEF SurvivorsMarked
<1>1. p \in Known(tree) /\ SameProcessAlive(p) => tree.processes[p].active
        \/ (pc = "release" /\ Release)
  <2> SUFFICES ASSUME ~(pc = "release" /\ Release), p \in Known(tree), SameProcessAlive(p)
               PROVE  tree.processes[p].active
    OBVIOUS
  <2>1. CASE pc = "close_streams"
    BY <2>1 DEF SurvivorsMarked
  <2>2. CASE pc \in Over
    <3>1. ~ShutDown' => ~ShutDown
      BY <2>2 DEF Step, Flow, ShutDown
    <3>2. record' # "launch_failure" => record # "launch_failure"
      OBVIOUS
    <3>3. pc' # "close_streams"
      BY <2>2 DEF Step, Flow, Over, Release
    <3> QED BY <2>2, <3>1, <3>2, <3>3 DEF SurvivorsMarked
  <2>3. CASE pc \notin Over /\ pc # "close_streams"
    <3>1. pc' # "close_streams"
      BY <2>3 DEF Step, Flow, Release
    <3>2. LaunchFailed \/ CloseStreams
      BY <2>3, <3>1, EndBegins
    <3>3. record = "launch_failure"
      BY <2>3, <3>2 DEF LaunchFailed, CloseStreams
    <3> QED BY <3>1, <3>3
  <2> QED BY <2>1, <2>2, <2>3
<1>2. pc \in Over \/ pc \in {"close_streams", "release"} \/ LaunchFailed \/ CloseStreams
  BY EndBegins DEF Step, Flow, Release, Over
<1>3. ~AdmitRootChild /\ ~Admit
  BY <1>2 DEF AdmitRootChild, Admit, MayAdmitChild, Over, LaunchFailed, CloseStreams
<1>4. Steady(tree, tree')
  BY <1>3, TreeStep DEF Shape, Moves
<1>5. p \in Known(tree) /\ p \in DOMAIN tokens
  BY <1>4 DEF Steady, Shape, TokensOK
<1>6. SameProcessAlive(p)
  BY <1>5, GoneForGood
<1>7. CASE ~(pc = "release" /\ Release)
  BY <1>1, <1>4, <1>5, <1>6, <1>7 DEF Steady
<1>8. CASE pc = "release" /\ Release
  <2>1. record = "completion"
    BY <1>8 DEF PhaseOK, Shape, ControlOK, Closing
  <2>2. ~Alive(Target)
    BY <2>1 DEF RecordOK, TargetOver, Alive
  <2>3. p # Target
    BY <1>6, <2>2 DEF SameProcessAlive
  <2>4. ~tree.processes[p].root
    BY <1>5, <2>3, PidsAssumption DEF Shape, TreeOK, TreeType, TreeAncestry, BeforeRoot
  <2>5. p \in Survivors
    BY <1>5, <1>6, <2>4 DEF Survivors
  <2> QED BY <1>8, <2>5, SurvivorsMark DEF Release, Shape
<1> QED BY <1>7, <1>8

LEMMA EndsStep ==
    ASSUME Shape, PhaseOK, UntrackedFails, EndsByItself, Step, Moves,
           record # "none" => record' = record
    PROVE  EndsByItself'
<1> SUFFICES ASSUME pc' \in Over, ~ShutDown'
             PROVE  /\ record' \in {"completion", "launch_failure"}
                    /\ \A p \in untracked' : <<"child_queue", p>> \in errors'
  BY DEF EndsByItself
<1>1. CASE pc \in Over
  <2>1. /\ record \in {"completion", "launch_failure"}
        /\ \A p \in untracked : <<"child_queue", p>> \in errors
    BY <1>1, OverKeeps DEF EndsByItself, ShutDown
  <2>2. errors \subseteq errors'
    BY DEF Step, Flow
  <2> QED BY <1>1, <2>1, <2>2, OverKeeps
<1>2. CASE pc \notin Over
  <2>1. (LaunchFailed \/ CloseStreams) /\ pc' = "finish" /\ ~ShutDown
    BY <1>2, EndBegins DEF ShutDown
  <2>2. ~Failed /\ untracked' = untracked
    BY <2>1 DEF LaunchFailed, CloseStreams, marks, Shutdown
  <2>3. untracked = {}
    BY <2>1, <2>2 DEF UntrackedFails
  <2>4. record \in {"completion", "launch_failure"}
    BY <2>1 DEF LaunchFailed, CloseStreams, PhaseOK
  <2> QED BY <2>2, <2>3, <2>4
<1> QED BY <1>1, <1>2

LEMMA OutcomeInit == Init => Outcome
<1> SUFFICES ASSUME Init PROVE Outcome
  OBVIOUS
<1> USE DEF Init, WorldInit
<1>1. Coming = {} /\ ToSet(children) = {}
  BY SmallSets DEF Coming
<1>2. BeforeRoot
  BY <1>1 DEF BeforeRoot, EmptyTree
<1>3. RecordOK /\ PhaseOK /\ UntrackedFails /\ GatesClosed /\ NothingComes /\ NobodyLeft
      /\ SurvivorsMarked /\ EndsByItself
  BY DEF RecordOK, PhaseOK, UntrackedFails, GatesClosed, NothingComes, NobodyLeft, SurvivorsMarked,
     EndsByItself, ShutDown, Over
<1> QED BY <1>2, <1>3 DEF Outcome

LEMMA OutcomeStep ==
    ASSUME Shape, Outcome, [Next]_vars
    PROVE  Outcome'
<1>1. Step /\ Moves
  BY ShapeStep, Frames DEF Moves
<1>2. /\ BeforeRoot /\ RecordOK /\ PhaseOK /\ UntrackedFails /\ GatesClosed /\ NothingComes
      /\ NobodyLeft /\ SurvivorsMarked /\ EndsByItself
  BY DEF Outcome
<1>3. BeforeRoot' /\ RecordOK' /\ (record # "none" => record' = record)
  BY <1>1, <1>2, BeforeRootStep, RecordStep
<1>4. PhaseOK' /\ UntrackedFails'
  BY <1>1, <1>2, <1>3, PhaseStep, UntrackedStep
<1>5. GatesClosed' /\ NothingComes'
  BY <1>1, <1>2, GatesStep, NothingComesStep
<1>6. NobodyLeft' /\ SurvivorsMarked' /\ EndsByItself'
  BY <1>1, <1>2, <1>3, NobodyLeftStep, SurvivorsStep, EndsStep
<1> QED BY <1>3, <1>4, <1>5, <1>6 DEF Outcome

(* How a run may end, for every setting.                                     *)
THEOREM OutcomeHolds == Spec => [](Shape /\ Outcome)
<1>1. Shape /\ Outcome /\ [Next]_vars => (Shape /\ Outcome)'
  BY ShapeStep, OutcomeStep DEF Step
<1> QED BY ShapeInit, OutcomeInit, <1>1, PTL DEF Spec

(* Nobody the run took charge of outlives a shutdown, and a run that ends by  *)
(* itself leaves only descendants marked as active at the root's exit, or      *)
(* named by the error of their overflow (SurvivorsReported): _kill and the     *)
(* two _mark_active_at_root_exit calls of process.py miss nobody.              *)
THEOREM SurvivorsAreReported == Spec => []SurvivorsReported
<1>1. Shape /\ Outcome => SurvivorsReported
  <2> SUFFICES ASSUME Shape, Outcome, pc = "done", NEW p \in Known(tree) \cup untracked,
                      SameProcessAlive(p)
               PROVE  /\ record = "completion" /\ ~ShutDown
                      /\ \/ p \in Known(tree) /\ tree.processes[p].active
                         \/ <<"child_queue", p>> \in errors
    BY DEF SurvivorsReported
  <2>1. ~ShutDown
    BY DEF Outcome, NobodyLeft, Over
  <2>2. record # "launch_failure"
    <3> SUFFICES ASSUME record = "launch_failure" PROVE FALSE
      OBVIOUS
    <3>1. \A q \in Pids : os[q].state = "unused"
      BY DEF Outcome, RecordOK, BeforeRoot
    <3>2. p \in Pids
      BY DEF Shape, TokensOK
    <3> QED BY <3>1, <3>2 DEF SameProcessAlive, Alive
  <2>3. record = "completion"
    BY <2>1, <2>2 DEF Outcome, EndsByItself, Over
  <2>4. p \in Known(tree) => tree.processes[p].active
    BY <2>1, <2>2 DEF Outcome, SurvivorsMarked, Over
  <2>5. p \in untracked => <<"child_queue", p>> \in errors
    BY <2>1 DEF Outcome, EndsByItself, Over
  <2> QED BY <2>1, <2>3, <2>4, <2>5
<1> QED BY OutcomeHolds, <1>1, PTL

-----------------------------------------------------------------------------
(* No image runs unobserved, and no child is left suspended. *)

\* A ticket of p: the report of a child that suspends it after it was admitted, or for the
\* first time.  The first report of the target is no ticket: it admits the root.
Live(c)    == c.origin = "exec" \/ c.pid # Target
Tickets(p) == {c \in Child : c.pid = p /\ Live(c)}
Signals(p) == {ChildAdded(c) : c \in Tickets(p)}
Once(q, S) == \A j, k \in DOMAIN q : q[j] \in S /\ q[k] \in S => j = k
Waits(p)   == \E m \in ToSet(wire) : m \in Signals(p)
Queued(p)  == \E c \in ToSet(children) : c \in Tickets(p)

\* The main thread is busy with p.
InHand(p)  == cur.pid = p /\ (pc \in Instrumenting \/ (pc = "handle" /\ Live(cur)))
Waiting    == {"await_ready", "await_event", "ready", "not_ready"}

\* Whatever is on its way to the main thread or at hand there exists.
Born ==
    /\ \A p \in Known(tree) : os[p].state # "unused"
    /\ \A c \in ToSet(children) \cup Coming : os[c.pid].state # "unused"
    /\ emergency # NoChild => os[emergency.pid].state # "unused"
    /\ pc \in {"handle"} \cup Instrumenting => os[cur.pid].state # "unused"

\* A session is the current image's, and its stream is known until the run is over.
SessionsCurrent ==
    \A p \in Pids : Attached(p) =>
        /\ p \in Known(tree) /\ session[p].inst = Current(tree, p)
        /\ os[p].state \in {"gated", "running"}
        /\ pc \notin Over => session[p].inst \in streams

\* The messages about a session, wherever they are: of an admitted image, the end after
\* the session and for one reason, readiness only of an agent that is ready.
About == {m \in ToSet(wire) : m.type # "child-added"} \cup ToSet(notices) \cup ToSet(events)
AboutOK ==
    /\ \A m \in About : m.inst \in KnownImgs(tree)
    /\ \A m \in About : m.type = "detached" => session[m.inst[1]].inst # m.inst
    /\ \A m, n \in About : m.type = "detached" /\ n.type = "detached" /\ m.inst = n.inst
                              => m.reason = n.reason
    /\ \A m \in About : m.type = "backend_ready" /\ session[m.inst[1]].inst = m.inst
                           => Observed(m.inst[1])

\* An image about to be instrumented has no session, stream or message yet.
FreshImage ==
    pc = "instrument" => /\ ~Attached(cur.pid) /\ CurInst \notin streams
                         /\ \A m \in About : m.inst # CurInst

\* Where the main thread goes, and what it went through before.
WayOK ==
    /\ pc \in {"release_unhandled", "close_gates", "collect", "kill"} \/ after = "failed"
          => Failed \/ after = "interrupted"
    /\ pc \notin {"await_root"} \cup Closing => Target \in Known(tree)
    /\ pc \in {"await_root", "idle"} => after = "idle"
    /\ pc \in Instrumenting /\ cur.pid = Target /\ CurInst[2] = 1 => after = "idle"
    /\ pc = "resume_lost" => ~tree.complete

\* Without following, only the launcher gates.
UnfollowedOK ==
    ~setting.follow => /\ gating \subseteq {Launcher, NoInst}
                       /\ \A c \in pending \cup Coming \cup ToSet(children) : ~Live(c)
                       /\ pc = "handle" => ~Live(cur)

\* The device lists whoever is suspended.
AllListed == \A p \in Pids : os[p].state = "gated" => p \in HeldPids

General == /\ Born /\ SessionsCurrent /\ AboutOK /\ FreshImage /\ WayOK /\ UnfollowedOK
           /\ AllListed

-----------------------------------------------------------------------------
(* What a step does. *)

WorldActs == WorldStep /\ UNCHANGED <<setting, pc, after, cur, tree, streams, queues, marks, errors, emergency>>
Aside   == Dispatch \/ EmergencyResume \/ WorldActs \/ UNCHANGED vars
Opening == \/ ReconcileRoot \/ AdmitRootChild \/ ServiceEvents \/ ServiceDetached \/ ServiceReturns
           \/ TakeChild \/ ReleaseUnfollowed \/ Admit \/ ReleaseOverCap \/ Attach \/ AttachFails
           \/ AwaitReady \/ TakeEvent \/ EventWaitEnds \/ ReadyTimeout \/ CloseLauncherGate
           \/ ResumeReady \/ ChildNotReady \/ ResumeLost \/ Idle
Failing == RootTimeout \/ RejectOrphan \/ ReleaseInvalid \/ RootNotReady \/ ChildAbandoned \/ Interrupt
Ending  == \/ LaunchFailed \/ Complete \/ Drain \/ Drained \/ DrainDeadline \/ Release \/ CloseStreams
           \/ ReleaseUnhandled \/ CloseGates \/ Collect \/ Kill \/ Finish \/ Detach
Doing   == Aside \/ Opening \/ Failing \/ Ending

LEMMA EveryStep ==
    ASSUME [Next]_vars
    PROVE  Doing
<1>1. CASE World
  <2>1. UNCHANGED <<setting, pc, after, cur, tree, streams, queues, marks, errors, emergency>>
    BY <1>1 DEF World
  <2>2. WorldStep
    BY <1>1 DEF World, WorldStep
  <2> QED BY <2>1, <2>2 DEF Doing, Aside, WorldActs
<1>2. CASE Main
  BY <1>2 DEF Main, Doing, Opening, Failing, Ending
<1>3. CASE Interrupt \/ Callbacks \/ Done \/ UNCHANGED vars
  BY <1>3 DEF Callbacks, Done, Doing, Aside, Failing
<1> QED BY <1>1, <1>2, <1>3 DEF Next

\* Beside the main thread nothing moves it.
LEMMA AsideStays ==
    ASSUME Aside
    PROVE  Stays /\ tree' = tree /\ streams' = streams
  BY DEF Aside, WorldActs, Dispatch, EmergencyResume, vars, world, queues, marks, Stays

\* A step that goes wrong fails the run, or finds it failed or interrupted.
LEMMA FailingFails ==
    ASSUME Failing
    PROVE  Failed' \/ after' = "interrupted"
<1>1. CASE RootTimeout \/ RejectOrphan \/ ReleaseInvalid \/ RootNotReady \/ Interrupt
  BY <1>1 DEF RootTimeout, RejectOrphan, ReleaseInvalid, RootNotReady, Interrupt, Fail, Failed
<1>2. CASE ChildAbandoned
  BY <1>2 DEF ChildAbandoned, Failed
<1> QED BY <1>1, <1>2 DEF Failing

\* Where the main thread got where it is.
LEMMA Course ==
    ASSUME ControlOK, Doing
    PROVE  /\ pc' = "instrument" => (Aside /\ pc = "instrument") \/ AdmitRootChild \/ Admit
           /\ pc' = "resume_lost" => (Aside /\ pc = "resume_lost") \/ ChildNotReady
           /\ pc' = "release_unhandled" => pc = "release_unhandled" \/ Failed' \/ after' = "interrupted"
           /\ pc' = "idle" => (Aside /\ pc = "idle") \/ (ServiceReturns /\ after = "idle" /\ after' = after)
                                 \/ (ResumeReady /\ RootStart /\ after' = after)
           /\ after' = "failed" => after = "failed" \/ ReleaseUnhandled
           /\ after' = "idle" => after = "idle" \/ pc = "idle"
           /\ after = "interrupted" => after' = "interrupted"
           /\ pc \in Instrumenting /\ pc' \in Instrumenting => after' = after
           /\ pc = "await_root" => pc' \in {"await_root", "instrument"} \cup Closing
           /\ pc \in Over => pc' \in Over
<1> USE DEF Stays, Shutdown, Closing, Instrumenting, Over, ControlOK, ShutDown
<1>1. CASE Aside
  BY <1>1, AsideStays
<1>2. CASE Failing
  <2>1. /\ pc' \in {"release_unhandled", "service"}
        /\ after' \in {after, "interrupted"}
        /\ pc = "await_root" => pc' = "release_unhandled"
        /\ pc \notin Over
    BY <1>2 DEF Failing, RootTimeout, RejectOrphan, ReleaseInvalid, RootNotReady, ChildAbandoned,
       Interrupt, MayAdmitChild
  <2> QED BY <1>2, <2>1, FailingFails
<1>3. CASE Ending
  <2>1. /\ pc' \in {"finish", "drain", "service", "release", "close_streams",
                    "close_gates", "collect", "kill", "detach", "done"} \/ (pc' = "release_unhandled" /\ Failed')
        /\ after' = "failed" => after = "failed" \/ ReleaseUnhandled
        /\ after' = "idle" => after = "idle"
        /\ after = "interrupted" => after' = "interrupted"
        /\ pc = "await_root" => pc' = "finish"
        /\ pc \in Over => pc' \in Over
    BY <1>3 DEF Ending, LaunchFailed, Complete, Drain, Drained, DrainDeadline, Release, CloseStreams,
       ReleaseUnhandled, CloseGates, Collect, Kill, Finish, Detach, Failed
  <2> QED BY <2>1
<1>4. CASE /\ ~Aside
           /\ \/ ReconcileRoot \/ AdmitRootChild \/ ServiceEvents \/ ServiceDetached \/ ServiceReturns
              \/ TakeChild \/ ReleaseUnfollowed \/ Admit \/ ReleaseOverCap \/ Attach \/ AttachFails
  BY <1>4 DEF ReconcileRoot, AdmitRootChild, ServiceEvents, ServiceDetached, ServiceReturns, TakeChild,
     ReleaseUnfollowed, Admit, ReleaseOverCap, MayAdmitChild, Attach, AttachFails, Failed, ControlOK
<1>5. CASE /\ ~Aside
           /\ \/ AwaitReady \/ TakeEvent \/ EventWaitEnds \/ ReadyTimeout \/ CloseLauncherGate
              \/ ResumeReady \/ ChildNotReady \/ ResumeLost \/ Idle
  BY <1>5 DEF AwaitReady, TakeEvent, EventWaitEnds, ReadyTimeout, CloseLauncherGate, ResumeReady,
     ChildNotReady, ResumeLost, Idle, Failed, Fail
<1> QED BY <1>1, <1>2, <1>3, <1>4, <1>5 DEF Doing, Opening

-----------------------------------------------------------------------------
(* What the world does: a child is suspended and reported, a session ends, an agent speaks. *)

\* No child is reported.
Silent(w) == w = wire \/ \E m \in Message : m.type # "child-added" /\ w = Append(wire, m)

\* A child c is suspended: the target, a new process, or a process that replaced its image.
Launched(c) == c.pid = Target /\ ~Live(c) /\ os[Target].state = "unused" /\ Launcher \in gating
Forked(c)   == /\ c.pid # Target
               /\ os[c.pid].state \in {"unused", "dead"} /\ os[c.pid].life < setting.lives
               /\ \E p \in Pids : os[p].state = "running" /\ Gates(p)
Execed(c)   == c.origin = "exec" /\ os[c.pid].state = "running" /\ Gates(c.pid)
Suspends(c) == /\ c \in Child /\ pending' = pending \cup {c} /\ os'[c.pid].state = "gated"
               /\ \E w : Silent(w) /\ wire' = Append(w, ChildAdded(c))
               /\ Launched(c) \/ Forked(c) \/ Execed(c)

LEMMA StartSuspends ==
    ASSUME Shape, NEW p \in Pids, NEW parent \in Pids \cup {Launcher}, NEW gated \in BOOLEAN,
           NEW origin \in Origins, Start(p, parent, gated, origin),
           gated => \/ p = Target /\ os[Target].state = "unused" /\ Launcher \in gating /\ origin = "fork"
                    \/ p # Target /\ \E q \in Pids : os[q].state = "running" /\ Gates(q)
    PROVE  \/ ~gated /\ wire' = wire /\ pending' = pending
           \/ gated /\ \E c : Suspends(c) /\ c.pid = p
<1>1. CASE ~gated
  BY <1>1 DEF Start
<1>2. CASE gated
  <2> DEFINE c == [pid |-> p, parent |-> IF origin = "exec" THEN p ELSE parent, origin |-> origin]
  <2>1. c \in Child /\ c.pid = p /\ c.origin = origin
    BY DEF Child
  <2>2. pending' = pending \cup {c} /\ wire' = Append(wire, ChildAdded(c))
    BY <1>2 DEF Start
  <2>3. os'[p].state = "gated"
    BY <1>2 DEF Start, Shape, ProcessesOK
  <2>4. os[p].state \in {"unused", "dead"} /\ os[p].life < setting.lives
    BY DEF Start
  <2> HIDE DEF c
  <2>5. Launched(c) \/ Forked(c)
    BY <1>2, <2>1, <2>4 DEF Launched, Forked, Live
  <2>6. Silent(wire)
    BY DEF Silent
  <2>7. Suspends(c)
    BY <2>1, <2>2, <2>3, <2>5, <2>6 DEF Suspends
  <2> QED BY <1>2, <2>1, <2>7
<1> QED BY <1>1, <1>2

\* The signals of an exec: the old session's end, then the child.
LEMMA ExecSuspends ==
    ASSUME Shape, NEW p \in Pids, NEW escapes \in BOOLEAN, Exec(p, escapes)
    PROVE  LET lost == SessionGone(session[p].inst, "process-replaced")
               held == Gates(p) /\ ~escapes
           IN  /\ IF held THEN \E c : Suspends(c) /\ c.pid = p
                  ELSE /\ pending' = pending
                       /\ wire' = IF Attached(p) THEN Append(wire, lost) ELSE wire
               /\ Attached(p) \/ ToSet(wire') = ToSet(wire)
               /\ ToSet(wire) \subseteq ToSet(wire')
               /\ Attached(p) => lost \in ToSet(wire')
               /\ \A m \in ToSet(wire') \ ToSet(wire) : m.type = "child-added" \/ m = lost
<1> DEFINE c    == [pid |-> p, parent |-> p, origin |-> "exec"]
           lost == SessionGone(session[p].inst, "process-replaced")
           gone == IF Attached(p) THEN <<lost>> ELSE << >>
           held == Gates(p) /\ ~escapes
           sent == IF held THEN <<ChildAdded(c)>> ELSE << >>
           w    == IF Attached(p) THEN Append(wire, lost) ELSE wire
<1>0. wire \in Seq(Message)
  BY DEF Shape, QueuesOK
<1>1. wire' = wire \o gone \o sent /\ pending' = IF held THEN pending \cup {c} ELSE pending
  BY DEF Exec
<1>2. c \in Child /\ c.pid = p /\ c.origin = "exec"
  BY DEF Child, Origins
<1>3. lost \in Message /\ lost.type # "child-added"
  BY MessageTypes DEF Shape, SessionsOK, Reasons
<1>4. ChildAdded(c) \in Message /\ ChildAdded(c).type = "child-added"
  BY <1>2, MessageTypes
<1>5. held => Attached(p)
  BY DEF Gates
<1>6. os[p].state = "running" /\ (held => os'[p].state = "gated")
  BY DEF Exec, Ungated, Shape, ProcessesOK
<1> HIDE DEF c, lost, held
<1>7. w \in Seq(Message) /\ wire \o gone = w
  BY <1>0, <1>3
<1>8. wire' = IF held THEN Append(w, ChildAdded(c)) ELSE w
  <2>1. wire' = w \o sent
    BY <1>1, <1>7
  <2> HIDE DEF w, gone
  <2> QED BY <1>4, <1>7, <2>1
<1>9. Silent(w)
  BY <1>0, <1>3 DEF Silent
<1>10. ToSet(w) = ToSet(wire) \cup (IF Attached(p) THEN {lost} ELSE {})
  BY <1>0, <1>3, AppendSet
<1> HIDE DEF w
<1>11. ToSet(wire') = ToSet(w) \cup (IF held THEN {ChildAdded(c)} ELSE {})
  BY <1>4, <1>7, <1>8, AppendSet
<1>12. held => Suspends(c)
  <2> SUFFICES ASSUME held PROVE Suspends(c)
    OBVIOUS
  <2>1. Execed(c)
    BY <1>2, <1>6 DEF Execed, held
  <2> QED BY <1>1, <1>2, <1>6, <1>8, <1>9, <2>1 DEF Suspends
<1>13. ~held => wire' = w /\ pending' = pending
  BY <1>1, <1>8
<1>14. w = IF Attached(p) THEN Append(wire, lost) ELSE wire
  BY DEF w
<1>15. \A m \in ToSet(wire') \ ToSet(wire) : m.type = "child-added" \/ m = lost
  BY <1>4, <1>10, <1>11
<1>16. Attached(p) \/ ToSet(wire') = ToSet(wire)
  BY <1>5, <1>10, <1>11
<1>17. ToSet(wire) \subseteq ToSet(wire') /\ (Attached(p) => lost \in ToSet(wire'))
  BY <1>10, <1>11
<1>18. IF held THEN \E x : Suspends(x) /\ x.pid = p
       ELSE pending' = pending /\ wire' = IF Attached(p) THEN Append(wire, lost) ELSE wire
  BY <1>2, <1>12, <1>13, <1>14
<1> QED BY <1>15, <1>16, <1>17, <1>18 DEF held, lost

\* A child is reported only as it is suspended.
LEMMA Newcomers ==
    ASSUME Shape, WorldStep
    PROVE  (Silent(wire') /\ pending' \subseteq pending) \/ \E c : Suspends(c)
<1> DEFINE Fine == (Silent(wire') /\ pending' \subseteq pending) \/ \E c : Suspends(c)
<1>1. ASSUME wire' = wire, pending' \subseteq pending PROVE Fine
  BY <1>1 DEF Silent
<1>2. ASSUME NEW m \in Message, m.type # "child-added", wire' = Append(wire, m),
             pending' \subseteq pending
      PROVE  Fine
  BY <1>2 DEF Silent
<1>3. CASE LauncherSpawns
  <2>1. /\ Start(Target, Launcher, Launcher \in gating, "fork") /\ "fork" \in Origins
        /\ (Launcher \in gating) \in BOOLEAN /\ os[Target].state = "unused"
    BY <1>3 DEF LauncherSpawns, Origins
  <2> QED BY <1>1, <2>1, StartSuspends, WorldAssumption
<1>4. CASE LauncherFailsToSpawn \/ LauncherReports
  BY <1>1, <1>4 DEF LauncherFailsToSpawn, LauncherReports
<1>5. ASSUME NEW p \in Pids, Exit(p) PROVE Fine
  <2> DEFINE m == SessionGone(session[p].inst, "process-terminated")
  <2>1. m \in Message /\ m.type # "child-added"
    BY MessageTypes DEF Shape, SessionsOK, Reasons
  <2>2. (wire' = Append(wire, m) \/ wire' = wire) /\ pending' \subseteq pending
    BY <1>5 DEF Exit
  <2> HIDE DEF m
  <2> QED BY <1>1, <1>2, <2>1, <2>2
<1>6. ASSUME NEW p \in Pids, SessionLost(p) PROVE Fine
  <2> DEFINE m == SessionGone(session[p].inst, "lost")
  <2>1. m \in Message /\ m.type # "child-added"
    BY MessageTypes DEF Shape, SessionsOK, Reasons
  <2>2. wire' = Append(wire, m) /\ pending' \subseteq pending
    BY <1>6 DEF SessionLost
  <2> HIDE DEF m
  <2> QED BY <1>2, <2>1, <2>2
<1>7. ASSUME NEW p \in Pids, AgentReady(p) \/ AgentFails(p) PROVE Fine
  <2>1. PICK what \in {"backend_ready", "FAILED"} :
            wire' = Append(wire, AgentSays(what, session[p].inst)) /\ pending' \subseteq pending
    BY <1>7 DEF AgentReady, AgentFails
  <2> DEFINE m == AgentSays(what, session[p].inst)
  <2>2. m \in Message /\ m.type # "child-added"
    BY MessageTypes DEF Shape, SessionsOK
  <2>3. wire' = Append(wire, m)
    BY <2>1
  <2> HIDE DEF m
  <2> QED BY <1>2, <2>1, <2>2, <2>3
<1>8. ASSUME NEW p \in Pids, GateReleases(p) PROVE Fine
  BY <1>1, <1>8 DEF GateReleases, ResumeHeld
<1>9. ASSUME NEW p \in Pids, NEW escapes \in BOOLEAN, Exec(p, escapes) PROVE Fine
  <2> DEFINE m == SessionGone(session[p].inst, "process-replaced")
  <2>1. m \in Message /\ m.type # "child-added"
    BY MessageTypes DEF Shape, SessionsOK, Reasons
  <2>2. \/ pending' = pending /\ (wire' = Append(wire, m) \/ wire' = wire)
        \/ \E c : Suspends(c)
    BY <1>9, ExecSuspends
  <2> HIDE DEF m
  <2> QED BY <1>1, <1>2, <2>1, <2>2
<1>10. ASSUME NEW p \in Pids, NEW q \in Pids, Fork(p, q) PROVE Fine
  <2>1. PICK origin \in Origins : Start(q, p, Gates(p), origin)
    BY <1>10 DEF Fork, Origins
  <2>2. Gates(p) \in BOOLEAN /\ q # Target /\ os[p].state = "running"
    BY <1>10 DEF Gates, Fork
  <2> QED BY <1>1, <2>1, <2>2, StartSuspends
<1> QED BY <1>3, <1>4, <1>5, <1>6, <1>7, <1>8, <1>9, <1>10 DEF WorldStep

\* The signals a step of the world may add: about children only, the end of a session, an answer.
NewSignals == ToSet(wire') \ ToSet(wire)
Unsaid == session' = session /\ \A m \in NewSignals : m.type = "child-added"
EndsSession(p, why) ==
    /\ Attached(p) /\ session' = [session EXCEPT ![p] = NoSession]
    /\ \A m \in NewSignals : m.type = "child-added" \/ m = SessionGone(session[p].inst, why)
Answers(p, what) ==
    /\ session[p].agent = "loading"
    /\ session' = [session EXCEPT ![p].agent = IF what = "backend_ready" THEN "ready" ELSE "failed"]
    /\ \A m \in NewSignals : m = AgentSays(what, session[p].inst)

LEMMA WorldSays ==
    ASSUME Shape, WorldStep
    PROVE  \/ Unsaid
           \/ \E p \in Pids, why \in Reasons : EndsSession(p, why)
           \/ \E p \in Pids, what \in {"backend_ready", "FAILED"} : Answers(p, what)
<1> DEFINE Fine == \/ Unsaid
                   \/ \E p \in Pids, why \in Reasons : EndsSession(p, why)
                   \/ \E p \in Pids, what \in {"backend_ready", "FAILED"} : Answers(p, what)
<1>0. wire \in Seq(Message) /\ session \in [Pids -> Session]
  BY DEF Shape, QueuesOK, SessionsOK
<1>a. ASSUME NEW m \in Message, wire' = Append(wire, m) PROVE NewSignals \subseteq {m}
  BY <1>0, <1>a, AppendSet DEF NewSignals
<1>b. ASSUME NEW p \in Pids, ~Attached(p), session' = [session EXCEPT ![p] = NoSession]
      PROVE  session' = session
  BY <1>0, <1>b DEF Attached
<1>1. ASSUME wire' = wire, session' = session PROVE Fine
  BY <1>1 DEF Unsaid, NewSignals
<1>3. ASSUME NEW q \in Pids, NEW parent \in Pids \cup {Launcher}, NEW gated, NEW origin \in Origins,
             Start(q, parent, gated, origin)
      PROVE  Fine
  <2> DEFINE c == [pid |-> q, parent |-> IF origin = "exec" THEN q ELSE parent, origin |-> origin]
  <2>1. c \in Child
    BY DEF Child
  <2>2. session' = session /\ (wire' = wire \/ wire' = Append(wire, ChildAdded(c)))
    BY <1>3 DEF Start
  <2> HIDE DEF c
  <2>3. ChildAdded(c) \in Message /\ ChildAdded(c).type = "child-added"
    BY <2>1, MessageTypes
  <2> QED BY <1>1, <1>a, <2>2, <2>3 DEF Unsaid
<1>4. CASE LauncherSpawns
  BY <1>3, <1>4, WorldAssumption DEF LauncherSpawns, Origins
<1>5. CASE LauncherFailsToSpawn \/ LauncherReports
  BY <1>1, <1>5 DEF LauncherFailsToSpawn, LauncherReports
<1>6. ASSUME NEW p \in Pids, NEW why \in Reasons, session' = [session EXCEPT ![p] = NoSession],
             wire' = IF Attached(p) THEN Append(wire, SessionGone(session[p].inst, why)) ELSE wire
      PROVE  Fine
  <2>1. SessionGone(session[p].inst, why) \in Message
    BY <1>0, MessageTypes
  <2>2. CASE Attached(p)
    BY <1>6, <1>a, <2>1, <2>2 DEF EndsSession
  <2>3. CASE ~Attached(p)
    BY <1>1, <1>6, <1>b, <2>3
  <2> QED BY <2>2, <2>3
<1>7. ASSUME NEW p \in Pids, Exit(p) \/ SessionLost(p) PROVE Fine
  <2>1. "process-terminated" \in Reasons /\ "lost" \in Reasons
    BY DEF Reasons
  <2>2. CASE Exit(p)
    <3> HIDE DEF Fine
    <3> QED BY <1>6, <2>1, <2>2 DEF Exit
  <2>3. CASE SessionLost(p)
    <3> HIDE DEF Fine
    <3> QED BY <1>6, <2>1, <2>3 DEF SessionLost
  <2> QED BY <1>7, <2>2, <2>3
<1>8. ASSUME NEW p \in Pids, AgentReady(p) \/ AgentFails(p) PROVE Fine
  <2>1. PICK what \in {"backend_ready", "FAILED"} :
            /\ wire' = Append(wire, AgentSays(what, session[p].inst))
            /\ session[p].agent = "loading"
            /\ session' = [session EXCEPT ![p].agent = IF what = "backend_ready" THEN "ready" ELSE "failed"]
    BY <1>8 DEF AgentReady, AgentFails
  <2>2. AgentSays(what, session[p].inst) \in Message
    BY <1>0, MessageTypes
  <2>3. NewSignals \subseteq {AgentSays(what, session[p].inst)}
    BY <1>a, <2>1, <2>2
  <2>4. Answers(p, what)
    BY <2>1, <2>3 DEF Answers
  <2> QED BY <2>4
<1>9. ASSUME NEW p \in Pids, GateReleases(p) PROVE Fine
  BY <1>1, <1>9 DEF GateReleases
<1>10. ASSUME NEW p \in Pids, NEW escapes \in BOOLEAN, Exec(p, escapes) PROVE Fine
  <2> DEFINE m == SessionGone(session[p].inst, "process-replaced")
  <2>1. "process-replaced" \in Reasons /\ session' = [session EXCEPT ![p] = NoSession]
    BY <1>10 DEF Reasons, Exec
  <2>2. /\ Attached(p) \/ ToSet(wire') = ToSet(wire)
        /\ \A x \in NewSignals : x.type = "child-added" \/ x = m
    BY <1>10, ExecSuspends DEF NewSignals
  <2> HIDE DEF m
  <2>3. CASE Attached(p)
    BY <2>1, <2>2, <2>3 DEF EndsSession, m
  <2>4. CASE ~Attached(p)
    BY <1>b, <2>1, <2>2, <2>4 DEF Unsaid, NewSignals
  <2> QED BY <2>3, <2>4
<1>11. ASSUME NEW p \in Pids, NEW q \in Pids, Fork(p, q) PROVE Fine
  <2>1. PICK origin \in Origins : Start(q, p, Gates(p), origin)
    BY <1>11 DEF Fork, Origins
  <2> QED BY <1>3, <2>1
<1> QED BY <1>4, <1>5, <1>7, <1>8, <1>9, <1>10, <1>11 DEF WorldStep

\* The children reported after a step of the world, and those suspended.
LEMMA NewComing ==
    ASSUME Shape, Moves, setting' = setting
    PROVE  \A c \in pending' \cup Coming' :
              c \in pending \cup Coming \/ (WorldStep /\ Suspends(c))
<1>0. wire \in Seq(Message)
  BY DEF Shape, QueuesOK
<1>1. CASE WorldStep
  <2>1. ASSUME NEW w, Silent(w)
        PROVE  /\ w \in Seq(Message)
               /\ \A m \in ToSet(w) : m.type = "child-added" => m \in ToSet(wire)
    <3>1. CASE w = wire
      BY <1>0, <3>1
    <3>2. CASE \E m \in Message : m.type # "child-added" /\ w = Append(wire, m)
      BY <1>0, <3>2, AppendSet
    <3> QED BY <2>1, <3>1, <3>2 DEF Silent
  <2>2. CASE Silent(wire') /\ pending' \subseteq pending
    BY <2>1, <2>2 DEF Coming
  <2>3. CASE \E c : Suspends(c)
    <3>1. PICK c : Suspends(c)
      BY <2>3
    <3>2. PICK w : Silent(w) /\ wire' = Append(w, ChildAdded(c))
      BY <3>1 DEF Suspends
    <3>3. c \in Child /\ ChildAdded(c) \in Message /\ ChildAdded(c).child = c
      BY <3>1, MessageTypes DEF Suspends
    <3>4. w \in Seq(Message) /\ \A m \in ToSet(w) : m.type = "child-added" => m \in ToSet(wire)
      BY <2>1, <3>2
    <3>5. ToSet(wire') = ToSet(w) \cup {ChildAdded(c)}
      BY <3>2, <3>3, <3>4, AppendSet
    <3>6. \A x \in Coming' : x \in Coming \/ x = c
      BY <3>3, <3>4, <3>5 DEF Coming
    <3>7. pending' = pending \cup {c}
      BY <3>1 DEF Suspends
    <3> QED BY <1>1, <3>1, <3>6, <3>7
  <2> QED BY <1>1, <2>2, <2>3, Newcomers
<1>2. CASE ~WorldStep
  BY <1>2, PendingStep, ComingStep DEF Moves
<1> QED BY <1>1, <1>2

\* The sessions after a step: as before, over, with an agent that answered, or just begun.
LEMMA SessionAfter ==
    ASSUME Shape, Moves, NEW p \in Pids
    PROVE  \/ session'[p] \in {session[p], NoSession}
           \/ /\ session[p].agent = "loading" /\ session'[p].inst = session[p].inst
              /\ session'[p].agent \in {"ready", "failed"}
           \/ /\ Attach /\ p = cur.pid
              /\ session'[p] = [inst |-> CurInst, agent |-> "loading"]
<1>0. session \in [Pids -> Session]
  BY DEF Shape, SessionsOK
<1>1. CASE UNCHANGED session
  BY <1>1
<1>2. CASE Detaching
  BY <1>2 DEF Detaching, DetachStreams
<1>3. CASE Kill \/ Detach
  BY <1>3 DEF Kill, Detach
<1>4. CASE Attach
  BY <1>0, <1>4 DEF Attach
<1>5. CASE WorldStep
  BY <1>5, WorldSession DEF Shape
<1> QED BY <1>1, <1>2, <1>3, <1>4, <1>5 DEF Moves, SessionMoves

\* The session of p ends by itself: with its process, its image, or for another reason.  Its
\* gate no longer lets anyone go, and nobody else changes.
Leaves(p) ==
    /\ session' = [session EXCEPT ![p] = NoSession] /\ gating' = gating
    /\ \A q \in Pids \ {p} : os'[q].state = os[q].state
    /\ \A q \in Pids : \/ os'[q].gate = NoInst
                       \/ os'[q].gate = os[q].gate /\ ~(Attached(p) /\ os[q].gate = session[p].inst)

LEMMA UngatedLeaves ==
    ASSUME NEW p \in Pids, NEW o \in [Pids -> Proc], os' = Ungated(o, p),
           session' = [session EXCEPT ![p] = NoSession], gating' = gating,
           \A q \in Pids \ {p} : o[q] = os[q], o[p].gate \in {os[p].gate, NoInst}
    PROVE  Leaves(p) /\ os'[p].state = o[p].state
<1>1. \A q \in Pids : os'[q] = IF Attached(p) /\ o[q].gate = session[p].inst
                               THEN [o[q] EXCEPT !.gate = NoInst] ELSE o[q]
  BY DEF Ungated
<1>2. \A q \in Pids : [o[q] EXCEPT !.gate = NoInst].gate = NoInst
  BY DEF Proc
<1>3. \A q \in Pids : os'[q].state = o[q].state
  BY UngatedFields
<1>4. \A q \in Pids : \/ os'[q].gate = NoInst
                      \/ os'[q].gate = o[q].gate /\ ~(Attached(p) /\ o[q].gate = session[p].inst)
  BY <1>1, <1>2
<1> QED BY <1>3, <1>4 DEF Leaves

LEMMA ExitLeaves ==
    ASSUME Shape, NEW p \in Pids, Exit(p)
    PROVE  Leaves(p) /\ os'[p].state = "dead"
<1> DEFINE n == [os[p] EXCEPT !.state = "dead"]
           o == [os EXCEPT ![p] = n]
<1>0. os \in [Pids -> Proc]
  BY DEF Shape, ProcessesOK
<1>1. n \in Proc /\ n.state = "dead" /\ n.gate = os[p].gate
  BY <1>0 DEF Proc
<1>2. os' = Ungated(o, p) /\ session' = [session EXCEPT ![p] = NoSession] /\ gating' = gating
  BY DEF Exit
<1> HIDE DEF n
<1>3. o \in [Pids -> Proc] /\ \A q \in Pids : o[q] = IF q = p THEN n ELSE os[q]
  BY <1>0, <1>1
<1> HIDE DEF o
<1> QED BY <1>1, <1>2, <1>3, UngatedLeaves

LEMMA LostLeaves ==
    ASSUME Shape, NEW p \in Pids, SessionLost(p)
    PROVE  Leaves(p) /\ os'[p].state = os[p].state
<1>0. os \in [Pids -> Proc]
  BY DEF Shape, ProcessesOK
<1> QED BY <1>0, UngatedLeaves DEF SessionLost

LEMMA ExecLeaves ==
    ASSUME Shape, NEW p \in Pids, NEW escapes \in BOOLEAN, Exec(p, escapes)
    PROVE  /\ Leaves(p) /\ os[p].state = "running" /\ os'[p].gate = NoInst
           /\ os'[p].state = IF Gates(p) /\ ~escapes THEN "gated" ELSE "running"
<1> DEFINE held == Gates(p) /\ ~escapes
           st   == IF held THEN "gated" ELSE "running"
           n    == [os[p] EXCEPT !.image = @ + 1, !.state = st, !.gate = NoInst]
           o    == [os EXCEPT ![p] = n]
<1>0. os \in [Pids -> Proc]
  BY DEF Shape, ProcessesOK
<1>1. os' = Ungated(o, p) /\ session' = [session EXCEPT ![p] = NoSession] /\ gating' = gating
  <2>1. o = [os EXCEPT ![p].image = @ + 1, ![p].state = IF held THEN "gated" ELSE "running",
                       ![p].gate = NoInst]
    BY <1>0
  <2> QED BY <2>1 DEF Exec
<1>2. n \in Proc /\ n.state = st /\ n.gate = NoInst
  <2>1. os[p] \in Proc /\ os[p].image + 1 \in Nat
    BY <1>0 DEF Proc
  <2>2. st \in {"gated", "running"}
    OBVIOUS
  <2> HIDE DEF st
  <2> QED BY <2>1, <2>2 DEF Proc, Gate
<1> HIDE DEF n, held
<1>3. o \in [Pids -> Proc] /\ \A q \in Pids : o[q] = IF q = p THEN n ELSE os[q]
  BY <1>0, <1>2
<1>4. os[p].state = "running"
  BY DEF Exec
<1> HIDE DEF o, st
<1>5. Leaves(p) /\ os'[p].state = st
  BY <1>1, <1>2, <1>3, UngatedLeaves
<1>6. os'[p].gate = NoInst
  BY <1>1, <1>2, <1>3, UngatedFields
<1> QED BY <1>4, <1>5, <1>6 DEF st, held

\* A process that dies has no session.
LEMMA DeathEnds ==
    ASSUME Shape, Moves, NEW p \in Pids, os'[p].state \notin {"gated", "running"},
           os[p].state \in {"gated", "running"}
    PROVE  session'[p] = NoSession
<1>0. os \in [Pids -> Proc] /\ session \in [Pids -> Session]
  BY DEF Shape, ProcessesOK, SessionsOK
<1>1. CASE UNCHANGED <<os, pending, blind>>
  BY <1>1
<1>2. ASSUME NEW ps, ResumeHeld(ps) PROVE FALSE
  BY <1>0, <1>2 DEF ResumeHeld
<1>3. CASE Kill
  BY <1>0, <1>3 DEF Kill
<1>4. CASE LauncherSpawns
  <2>1. Start(Target, Launcher, Launcher \in gating, "fork")
    BY <1>4 DEF LauncherSpawns
  <2> QED BY <1>0, <2>1 DEF Start
<1>5. CASE LauncherFailsToSpawn \/ LauncherReports
  BY <1>5 DEF LauncherFailsToSpawn, LauncherReports
<1>6. ASSUME NEW q \in Pids, Exit(q) PROVE session'[p] = NoSession
  BY <1>0, <1>6, ExitLeaves DEF Leaves
<1>7. ASSUME NEW q \in Pids, SessionLost(q) PROVE FALSE
  BY <1>7, LostLeaves DEF Leaves
<1>8. ASSUME NEW q \in Pids, AgentReady(q) \/ AgentFails(q) PROVE FALSE
  BY <1>8 DEF AgentReady, AgentFails
<1>9. ASSUME NEW q \in Pids, GateReleases(q) PROVE FALSE
  BY <1>2, <1>9 DEF GateReleases
<1>10. ASSUME NEW q \in Pids, NEW escapes \in BOOLEAN, Exec(q, escapes) PROVE FALSE
  <2>1. Leaves(q) /\ os'[q].state \in {"gated", "running"}
    BY <1>10, ExecLeaves
  <2> QED BY <2>1 DEF Leaves
<1>11. ASSUME NEW r \in Pids, NEW q \in Pids, Fork(r, q) PROVE FALSE
  <2>1. PICK origin \in Origins : Start(q, r, Gates(r), origin)
    BY <1>11 DEF Fork, Origins
  <2> QED BY <1>0, <2>1 DEF Start
<1>12. Resuming => FALSE
  BY <1>2 DEF Resuming
<1> QED BY <1>1, <1>3, <1>4, <1>5, <1>6, <1>7, <1>8, <1>9, <1>10, <1>11, <1>12
    DEF Moves, OsMoves, WorldStep

\* A stream is forgotten only with its session, until the run is over.
LEMMA StreamsKept ==
    ASSUME Shape, Moves, NEW p \in Pids, session[p].inst \in streams, session'[p].inst = session[p].inst,
           Attached(p)', pc' \notin Over
    PROVE  session'[p].inst \in streams'
<1>1. ASSUME NEW insts, DetachStreams(insts) PROVE session'[p].inst \in streams'
  BY <1>1 DEF DetachStreams, Attached
<1>2. CASE UNCHANGED streams
  BY <1>2
<1>3. CASE ServiceDetached \/ RootNotReady \/ ChildNotReady \/ CloseStreams
  BY <1>1, <1>3 DEF ServiceDetached, ServiceNotices, RootNotReady, ChildNotReady, CloseStreams
<1>4. CASE Admit \/ ReleaseOverCap \/ ReleaseInvalid
  BY <1>1, <1>4 DEF Admit, ReleaseOverCap, ReleaseInvalid, RetirePrevious
<1>5. CASE Attach
  BY <1>5 DEF Attach
<1>6. CASE AwaitReady
  <2>1. (\E insts : DetachStreams(insts)) \/ UNCHANGED streams
    BY <1>6 DEF AwaitReady, ServiceNotices
  <2> QED BY <1>1, <1>2, <2>1
<1>7. CASE Finish
  BY <1>7 DEF Finish, Over
<1> QED BY <1>2, <1>3, <1>4, <1>5, <1>6, <1>7 DEF Moves, StreamMoves

-----------------------------------------------------------------------------
(* What holds in every situation. *)

\* A child that is suspended anew is so by a gate that is on.
LEMMA SuspendedExists ==
    ASSUME Shape, Step, NEW c, Suspends(c)
    PROVE  c \in Child /\ c.pid \in Pids /\ os'[c.pid].state = "gated"
  BY DEF Suspends, Child

LEMMA BornStep ==
    ASSUME Shape, Born, Step, Moves
    PROVE  Born'
<1>0. /\ setting' = setting
      /\ \A p \in Pids : os'[p].state = "unused" => os[p].state = "unused"
  BY DEF Step, ProcessesKept, Ages
<1>1. /\ \A c \in pending : c.pid \in Pids /\ os[c.pid].state # "unused"
      /\ \A c \in ToSet(children) \cup Coming : c.pid \in Pids
      /\ emergency # NoChild => emergency.pid \in Pids
      /\ pc \in {"handle"} \cup Instrumenting => cur.pid \in Pids
  <2>1. children \in Seq(Child) /\ wire \in Seq(Message) /\ emergency \in Child \cup {NoChild}
    BY DEF Shape, QueuesOK
  <2>2. ToSet(children) \subseteq Child
    BY <2>1 DEF ToSet
  <2>3. Coming \subseteq Child
    <3>1. ToSet(wire) \subseteq Message
      BY <2>1 DEF ToSet
    <3> QED BY <3>1, MessageFields DEF Coming
  <2> QED BY <2>1, <2>2, <2>3 DEF Shape, HeldOK, ControlOK, Child
<1>2. \A c \in Coming' : os'[c.pid].state # "unused"
  BY <1>0, <1>1, NewComing, SuspendedExists DEF Born
<1>3. \A c \in ToSet(children') : os'[c.pid].state # "unused"
  BY <1>0, <1>1, ChildrenStep DEF Moves, Born
<1>4. emergency' # NoChild => os'[emergency'.pid].state # "unused"
  BY <1>0, <1>1, ChildrenStep DEF Moves, Born
<1>5. AdmitRootChild \/ TakeChild => /\ cur' = Head(children) /\ Head(children) \in ToSet(children)
  <2>1. AdmitRootChild \/ TakeChild => children # << >> /\ cur' = Head(children)
    BY DEF AdmitRootChild, TakeChild
  <2> QED BY <2>1, TailSet DEF Shape, QueuesOK
<1>6. pc' \in {"handle"} \cup Instrumenting => os'[cur'.pid].state # "unused"
  <2>1. Admit => pc = "handle" /\ cur' = cur
    BY DEF Admit, MayAdmitChild
  <2> QED BY <1>0, <1>1, <1>5, <2>1 DEF Step, Flow, Stays, Born
<1>7. \A p \in Known(tree') : os'[p].state # "unused"
  <2>1. CASE Steady(tree, tree')
    <3>1. Known(tree') = Known(tree) /\ Known(tree) \subseteq Pids
      BY <2>1 DEF Steady, Shape, TreeOK, TreeType
    <3> QED BY <1>0, <3>1 DEF Born
  <2>2. CASE AdmitRootChild /\ Known(tree) = {} /\ Entered(tree, tree', Head(children).pid)
    <3>1. Known(tree') = {Head(children).pid}
      BY <2>2 DEF Entered
    <3> QED BY <1>0, <1>1, <1>5, <2>2, <3>1 DEF Born
  <2>3. CASE Admit /\ NewImageOf(tree, tree', cur.pid)
    <3>1. Known(tree') = Known(tree) \cup {cur.pid} /\ Known(tree) \subseteq Pids
      BY <2>3 DEF NewImageOf, Shape, TreeOK, TreeType
    <3>2. pc = "handle"
      BY <2>3 DEF Admit, MayAdmitChild
    <3> QED BY <1>0, <1>1, <3>1, <3>2 DEF Born
  <2> QED BY <2>1, <2>2, <2>3, TreeStep DEF Shape, Moves
<1> QED BY <1>2, <1>3, <1>4, <1>6, <1>7 DEF Born

\* An admitted exec has retired the image's session.
LEMMA AdmitRetires ==
    ASSUME Shape, SessionsCurrent, Admit, cur.pid \in Known(tree)
    PROVE  session'[cur.pid] = NoSession
<1>1. Replaces /\ DetachStreams({Current(tree, cur.pid)})
  BY AdmittedExec DEF Shape, Admit, RetirePrevious
<1>2. cur.pid \in Pids
  BY DEF Shape, ControlOK, Child, Admit, MayAdmitChild
<1>3. session'[cur.pid] = IF session[cur.pid].inst \in {Current(tree, cur.pid)}
                          THEN NoSession ELSE session[cur.pid]
  BY <1>1, <1>2 DEF DetachStreams
<1> QED BY <1>2, <1>3 DEF SessionsCurrent, Attached

LEMMA SessionsCurrentStep ==
    ASSUME Shape, SessionsCurrent, Step, Moves, Doing
    PROVE  SessionsCurrent'
<1> SUFFICES ASSUME NEW p \in Pids, Attached(p)'
             PROVE  /\ p \in Known(tree') /\ session'[p].inst = Current(tree', p)
                    /\ os'[p].state \in {"gated", "running"}
                    /\ pc' \notin Over => session'[p].inst \in streams'
  BY DEF SessionsCurrent
<1>1. CASE Attach /\ p = cur.pid
  <2>1. session'[p].inst = CurInst /\ streams' = streams \cup {CurInst}
    BY <1>1 DEF Attach, Shape, SessionsOK
  <2>2. UNCHANGED <<os, tree>> /\ Alive(p) /\ pc = "instrument"
    BY <1>1 DEF Attach
  <2>3. p \in Known(tree)
    BY <1>1, <2>2 DEF Shape, ControlOK, Instrumenting
  <2> QED BY <1>1, <2>1, <2>2, <2>3 DEF Alive, CurInst
<1>2. CASE ~(Attach /\ p = cur.pid)
  <2>1. session'[p].inst = session[p].inst /\ Attached(p)
    BY <1>2, SessionAfter DEF Attached, NoSession
  <2>2. /\ p \in Known(tree) /\ session[p].inst = Current(tree, p)
        /\ os[p].state \in {"gated", "running"}
        /\ pc \notin Over => session[p].inst \in streams
    BY <2>1 DEF SessionsCurrent
  <2>3. ~(Admit /\ p = cur.pid)
    BY <2>2, AdmitRetires DEF Attached
  <2>4. p \in Known(tree') /\ Current(tree', p) = Current(tree, p)
    BY <2>2, <2>3 DEF Step, Grown
  <2>5. os'[p].state \in {"gated", "running"}
    BY <2>2, DeathEnds DEF Attached
  <2>6. pc' \notin Over => session'[p].inst \in streams'
    BY <2>1, <2>2, StreamsKept, Course DEF Shape
  <2> QED BY <2>1, <2>2, <2>4, <2>5, <2>6
<1> QED BY <1>1, <1>2

\* Messages about sessions come from the world.
LEMMA AboutAfter ==
    ASSUME Shape, Moves
    PROVE  \A m \in About' : m \in About \/ (WorldStep /\ m \in NewSignals /\ m.type # "child-added")
<1>1. \A m \in ToSet(wire') : m \in ToSet(wire) \/ (WorldStep /\ m \in NewSignals)
  BY WireStep DEF Shape, Moves, NewSignals
<1>2. \A m \in ToSet(notices') \cup ToSet(events') : m \in About
  <2>1. Dispatch => Head(wire) \in ToSet(wire)
    BY DispatchedSignal DEF Shape
  <2> QED BY <2>1, QueuedAfter DEF Shape, Moves, About
<1> QED BY <1>1, <1>2 DEF About

\* What the world says of a session is said of the current image.
LEMMA SaidOfCurrent ==
    ASSUME Shape, SessionsCurrent, WorldStep, NEW m \in NewSignals, m.type # "child-added"
    PROVE  \E p \in Pids : /\ Attached(p) /\ p \in Known(tree) /\ m.inst = session[p].inst
                           /\ m.inst = Current(tree, p) /\ m.inst \in KnownImgs(tree) /\ m.inst[1] = p
                           /\ \/ \E why \in Reasons :
                                    /\ EndsSession(p, why) /\ m = SessionGone(session[p].inst, why)
                              \/ \E what \in {"backend_ready", "FAILED"} :
                                    /\ Answers(p, what) /\ m = AgentSays(what, session[p].inst)
<1>0. \A p \in Pids : session[p] \in Session
  BY DEF Shape, SessionsOK
<1>1. ASSUME NEW p \in Pids, Attached(p)
      PROVE  /\ p \in Known(tree) /\ session[p].inst = Current(tree, p)
             /\ Current(tree, p) \in KnownImgs(tree) /\ Current(tree, p)[1] = p
  BY <1>1, CurrentKnown DEF Shape, SessionsCurrent
<1>2. CASE Unsaid
  BY <1>2 DEF Unsaid
<1>3. ASSUME NEW p \in Pids, NEW why \in Reasons, EndsSession(p, why)
      PROVE  Attached(p) /\ m = SessionGone(session[p].inst, why) /\ m.inst = session[p].inst
  BY <1>0, <1>3, MessageTypes DEF EndsSession
<1>4. ASSUME NEW p \in Pids, NEW what \in {"backend_ready", "FAILED"}, Answers(p, what)
      PROVE  Attached(p) /\ m = AgentSays(what, session[p].inst) /\ m.inst = session[p].inst
  BY <1>0, <1>4, MessageTypes DEF Answers, Attached, NoSession
<1>5. CASE \E p \in Pids, why \in Reasons : EndsSession(p, why)
  BY <1>1, <1>3, <1>5
<1>6. CASE \E p \in Pids, what \in {"backend_ready", "FAILED"} : Answers(p, what)
  BY <1>1, <1>4, <1>6
<1> QED BY <1>2, <1>5, <1>6, WorldSays

LEMMA AboutStep ==
    ASSUME Shape, SessionsCurrent, AboutOK, FreshImage, Step, Moves
    PROVE  AboutOK'
<1> DEFINE New(m) == WorldStep /\ m \in NewSignals /\ m.type # "child-added"
<1>0. \A m \in About' : m \in About \/ New(m)
  BY AboutAfter
<1>1. ASSUME NEW m, New(m)
      PROVE  \E p \in Pids : /\ Attached(p) /\ m.inst = session[p].inst /\ m.inst[1] = p
                             /\ m.inst \in KnownImgs(tree)
                             /\ \/ \E why \in Reasons :
                                      /\ EndsSession(p, why) /\ m = SessionGone(session[p].inst, why)
                                \/ \E what \in {"backend_ready", "FAILED"} :
                                      /\ Answers(p, what) /\ m = AgentSays(what, session[p].inst)
  BY <1>1, SaidOfCurrent
<1> HIDE DEF New
<1>2. /\ \A i \in KnownImgs(tree) : i \in Instances /\ i[1] \in Pids /\ i # NoInst
      /\ KnownImgs(tree) \subseteq KnownImgs(tree')
      /\ session \in [Pids -> Session]
  BY GatesAssumption DEF Shape, TreeOK, TreeType, Instances, Step, Grown, SessionsOK
<1>3. \A m \in About : m.inst \in KnownImgs(tree)
  BY DEF AboutOK
<1>4. ASSUME NEW m \in About
      PROVE  LET p == m.inst[1] IN
             \/ session'[p] = session[p] \/ session'[p].inst # m.inst
             \/ session[p].agent = "loading" /\ session'[p].inst = session[p].inst
  <2>1. m.inst[1] \in Pids /\ m.inst # NoInst
    BY <1>2, <1>3
  <2>2. Attach => m.inst # CurInst
    BY DEF Attach, FreshImage
  <2> QED BY <2>1, <2>2, SessionAfter DEF NoSession
<1>5. \A m \in About' : m.inst \in KnownImgs(tree')
  BY <1>0, <1>1, <1>2, <1>3
<1>6. \A m \in About' : m.type = "detached" => session'[m.inst[1]].inst # m.inst
  <2>1. ASSUME NEW m \in About, m.type = "detached" PROVE session'[m.inst[1]].inst # m.inst
    BY <1>4, <2>1 DEF AboutOK
  <2>2. ASSUME NEW m, New(m), m.type = "detached" PROVE session'[m.inst[1]].inst # m.inst
    <3>1. PICK p \in Pids, why \in Reasons : /\ m.inst[1] = p /\ m.inst \in KnownImgs(tree)
                                             /\ EndsSession(p, why)
      BY <1>1, <2>2 DEF AgentSays
    <3>2. session'[p] = NoSession
      BY <1>2, <3>1 DEF EndsSession
    <3> QED BY <1>2, <3>1, <3>2 DEF NoSession
  <2> QED BY <1>0, <2>1, <2>2
<1>7. ASSUME NEW m, New(m), m.type = "detached", NEW n \in About', n.type = "detached", m.inst = n.inst
      PROVE  m.reason = n.reason
  <2>1. PICK p \in Pids, why \in Reasons : /\ m.inst[1] = p /\ m.inst = session[p].inst
                                           /\ EndsSession(p, why)
                                           /\ m = SessionGone(session[p].inst, why)
    BY <1>1, <1>7 DEF AgentSays
  <2>2. n \notin About
    BY <1>7, <2>1 DEF AboutOK
  <2>3. New(n)
    BY <1>0, <2>2
  <2>4. n \in NewSignals /\ n.type # "child-added"
    BY <2>3 DEF New
  <2> QED BY <2>1, <2>4 DEF EndsSession
<1>8. \A m, n \in About' : m.type = "detached" /\ n.type = "detached" /\ m.inst = n.inst
                              => m.reason = n.reason
  BY <1>0, <1>7 DEF AboutOK
<1>9. \A m \in About' : m.type = "backend_ready" /\ session'[m.inst[1]].inst = m.inst
                           => session'[m.inst[1]].agent = "ready"
  <2>1. ASSUME NEW m \in About, m.type = "backend_ready", session'[m.inst[1]].inst = m.inst
        PROVE  session'[m.inst[1]].agent = "ready"
    BY <1>4, <2>1 DEF AboutOK, Observed
  <2>2. ASSUME NEW m, New(m), m.type = "backend_ready"
        PROVE  session'[m.inst[1]].agent = "ready"
    <3>1. PICK p \in Pids, what \in {"backend_ready", "FAILED"} :
               m.inst[1] = p /\ Answers(p, what) /\ m = AgentSays(what, session[p].inst)
      BY <1>1, <2>2 DEF SessionGone
    <3>2. what = "backend_ready"
      BY <2>2, <3>1 DEF AgentSays
    <3> QED BY <1>2, <3>1, <3>2 DEF Answers, Session
  <2> QED BY <1>0, <2>1, <2>2
<1> QED BY <1>5, <1>6, <1>8, <1>9 DEF AboutOK, Observed

LEMMA FreshStep ==
    ASSUME Shape, SessionsCurrent, AboutOK, FreshImage, Step, Moves, Doing, SessionsCurrent'
    PROVE  FreshImage'
<1> SUFFICES ASSUME pc' = "instrument"
             PROVE  /\ CurInst' \notin streams' /\ session'[cur'.pid] = NoSession
                    /\ \A m \in About' : m.inst # CurInst'
  BY DEF FreshImage, Attached
<1>0. /\ cur'.pid \in Pids /\ cur'.pid \in Known(tree')
      /\ pc' \notin Over /\ CurInst' = Current(tree', cur'.pid)
  BY DEF Step, Shape, ControlOK, Instrumenting, Child, Over, CurInst
<1>1. CurInst' \notin streams' => session'[cur'.pid] = NoSession
  BY <1>0 DEF SessionsCurrent, Attached
<1>2. \A m \in About' : \/ m \in About
                        \/ \E p \in Pids : /\ Attached(p) /\ m.inst = Current(tree, p) /\ m.inst[1] = p
                                           /\ m.inst \in KnownImgs(tree)
  BY AboutAfter, SaidOfCurrent
<1>3. CASE Aside /\ pc = "instrument"
  <2>1. cur' = cur /\ tree' = tree /\ streams' = streams /\ CurInst' = CurInst
    BY <1>3, AsideStays DEF Stays, CurInst
  <2>2. CurInst \notin streams /\ ~Attached(cur.pid) /\ CurInst[1] = cur.pid
        /\ \A m \in About : m.inst # CurInst
    BY <1>3 DEF FreshImage, CurInst, Current
  <2> QED BY <1>1, <1>2, <2>1, <2>2
<1>4. CASE NewImageOf(tree, tree', cur'.pid) /\ (AdmitRootChild \/ Admit)
  <2>1. CurInst' \notin KnownImgs(tree)
    BY <1>0, <1>4 DEF NewImageOf
  <2>2. \A m \in About' : m.inst \in KnownImgs(tree)
    BY <1>2 DEF AboutOK
  <2>3. ~Attach
    BY DEF Attach
  <2>4. \A i \in streams' : i \in KnownImgs(tree)
    BY <2>3, StreamsAfter, CurrentKnown DEF Moves, Shape, TablesOK
  <2> QED BY <1>1, <2>1, <2>2, <2>4
<1>5. AdmitRootChild => NewImageOf(tree, tree', cur'.pid)
  BY RootEnters DEF Shape, AdmitRootChild
<1>6. Admit => NewImageOf(tree, tree', cur'.pid)
  BY ChildEnters DEF Shape, Admit
<1> QED BY <1>3, <1>4, <1>5, <1>6, Course DEF Shape

LEMMA WayStep ==
    ASSUME Shape, BeforeRoot, WayOK, Step, Moves, Doing
    PROVE  WayOK'
<1>0. ControlOK /\ Flow /\ Grown
  BY DEF Shape, Step
<1>1. Failed \/ after = "interrupted" => Failed' \/ after' = "interrupted"
  BY <1>0, Course DEF Flow, Failed
<1>2. ReleaseUnhandled \/ CloseGates \/ Collect => Failed \/ after = "interrupted"
  BY DEF WayOK, ReleaseUnhandled, CloseGates, Collect, Shutdown
<1>3. pc' \in {"release_unhandled", "close_gates", "collect", "kill"} \/ after' = "failed"
         => Failed' \/ after' = "interrupted"
  BY <1>0, <1>1, <1>2, Course DEF Flow, WayOK
<1>4. AdmitRootChild => /\ Target \in Known(tree') /\ after' = "idle"
                        /\ cur'.pid = Target
  <2> SUFFICES ASSUME AdmitRootChild PROVE Target \in Known(tree') /\ after' = "idle" /\ cur'.pid = Target
    OBVIOUS
  <2>1. pc = "await_root" /\ after' = after /\ cur' = Head(children)
    BY DEF AdmitRootChild
  <2>2. Head(children) \in ToSet(children) /\ NewImageOf(tree, tree', Head(children).pid)
    BY RootEnters DEF Shape
  <2>3. Head(children).pid = Target
    BY <2>1, <2>2 DEF BeforeRoot
  <2> QED BY <2>1, <2>2, <2>3 DEF NewImageOf, WayOK
<1>5. pc' \notin {"await_root"} \cup Closing => Target \in Known(tree')
  <2>1. Admit => pc = "handle"
    BY DEF Admit, MayAdmitChild
  <2>2. pc = "await_root" /\ pc' = "instrument" => AdmitRootChild
    BY <1>0, <2>1, Course
  <2> QED BY <1>0, <1>4, <2>2, Course DEF Flow, Grown, WayOK
<1>6. pc' \in {"await_root", "idle"} => after' = "idle"
  <2>1. ResumeReady /\ RootStart => after = "idle"
    <3> SUFFICES ASSUME ResumeReady, RootStart PROVE after = "idle"
      OBVIOUS
    <3>1. pc \in Instrumenting /\ cur.pid \in Known(tree) /\ cur.pid \in Pids
      BY DEF ResumeReady, Instrumenting, Shape, ControlOK, Child
    <3>2. cur.pid = tree.root
      BY <3>1 DEF RootStart, IsRoot, Shape, TreeOK, TreeAncestry
    <3>3. cur.pid = Target
      BY <3>1, <3>2, PidsAssumption DEF BeforeRoot
    <3> QED BY <3>1, <3>3 DEF RootStart, WayOK
  <2> QED BY <1>0, <2>1, AsideStays, Course DEF Flow, Stays, WayOK
<1>7. pc' \in Instrumenting /\ cur'.pid = Target /\ CurInst'[2] = 1 => after' = "idle"
  <2> SUFFICES ASSUME pc' \in Instrumenting, cur'.pid = Target, CurInst'[2] = 1
               PROVE  after' = "idle"
    OBVIOUS
  <2>0. CurInst' = Current(tree', Target)
    BY DEF CurInst
  <2>1. CASE pc \in Instrumenting /\ cur' = cur
    <3>1. ~Admit
      BY <2>1 DEF Admit, MayAdmitChild, Instrumenting
    <3>2. Target \in Known(tree) /\ CurInst = Current(tree, Target)
      BY <2>1 DEF Shape, ControlOK, CurInst
    <3>3. CurInst' = CurInst
      BY <1>0, <2>0, <3>1, <3>2 DEF Grown
    <3> QED BY <1>0, <2>1, <3>3, Course DEF WayOK
  <2>2. CASE Admit
    <3>1. pc = "handle" /\ cur.pid = Target
      BY <2>2 DEF Admit, MayAdmitChild
    <3>2. NewImageOf(tree, tree', Target)
      BY <2>2, <3>1, ChildEnters DEF Shape
    <3>3. Target \in Known(tree)
      BY <3>1 DEF WayOK, Closing
    <3>4. <<Target, 1>> \in KnownImgs(tree)
      <4>1. tree.processes[Target].generation \in Nat \ {0}
        BY <3>3, CurrentKnown, ImageOwner DEF Shape, TreeOK, TreeImages, Process
      <4> QED BY <3>3, <4>1 DEF Shape, TreeOK, TreeImages
    <3>5. CurInst' # <<Target, 1>> /\ CurInst' = <<Target, CurInst'[2]>>
      BY <2>0, <3>2, <3>4 DEF NewImageOf, Current
    <3> QED BY <3>5
  <2> QED BY <1>0, <1>4, <2>1, <2>2 DEF Flow
<1>8. pc' = "resume_lost" => ~tree'.complete
  <2>1. ChildNotReady => ~tree'.complete
    BY DEF ChildNotReady, MarkCoverageLoss, Shape, TreeOK, TreeType
  <2> QED BY <1>0, <2>1, AsideStays, Course DEF WayOK
<1> QED BY <1>3, <1>5, <1>6, <1>7, <1>8 DEF WayOK

LEMMA UnfollowedStep ==
    ASSUME Shape, SessionsCurrent, UnfollowedOK, Step, Moves
    PROVE  UnfollowedOK'
<1>0. setting' = setting
  BY DEF Step
<1> SUFFICES ASSUME ~setting.follow
             PROVE  /\ gating' \subseteq {Launcher, NoInst}
                    /\ \A c \in pending' \cup Coming' \cup ToSet(children') : ~Live(c)
                    /\ pc' = "handle" => ~Live(cur')
  BY <1>0 DEF UnfollowedOK, Live
<1>1. gating \subseteq {Launcher, NoInst} /\ \A c \in pending \cup Coming \cup ToSet(children) : ~Live(c)
  BY DEF UnfollowedOK
<1>2. gating' \subseteq {Launcher, NoInst}
  BY <1>1 DEF Moves, GateMoves, Detaching, DetachStreams, Attach, CloseLauncherGate, CloseGates, Detach
<1>3. \A p \in Pids : ~Gates(p)
  <2>1. ASSUME NEW p \in Pids, Gates(p) PROVE FALSE
    <3>1. session[p].inst \in gating /\ session[p].inst \in Instances
      BY <2>1, CurrentKnown DEF Gates, SessionsCurrent, Shape
    <3> QED BY <1>1, <3>1, GatesAssumption
  <2> QED BY <2>1
<1>4. \A c : Suspends(c) => ~Live(c)
  BY <1>3 DEF Suspends, Launched, Forked, Execed, Child
<1>5. \A c \in pending' \cup Coming' : ~Live(c)
  BY <1>0, <1>1, <1>4, NewComing
<1>6. \A c \in ToSet(children') : ~Live(c)
  BY <1>1, ChildrenStep DEF Moves
<1>7. pc' = "handle" => ~Live(cur')
  <2>1. TakeChild => cur' = Head(children) /\ Head(children) \in ToSet(children)
    BY TailSet DEF TakeChild, Shape, QueuesOK
  <2> QED BY <1>1, <2>1 DEF Step, Flow, Stays, UnfollowedOK
<1> QED BY <1>2, <1>5, <1>6, <1>7

LEMMA AllListedStep ==
    ASSUME Shape, AllListed, Step, Moves
    PROVE  AllListed'
<1> SUFFICES ASSUME NEW p \in Pids, os'[p].state = "gated" PROVE \E c \in pending' : c.pid = p
  BY DEF AllListed, HeldPids
<1>0. /\ os \in [Pids -> Proc] /\ (os[p].state = "gated" => \E c \in pending : c.pid = p)
      /\ Ages
  BY DEF Shape, ProcessesOK, AllListed, HeldPids, Step, ProcessesKept
<1>1. ASSUME NEW ps, ResumeHeld(ps) PROVE \E c \in pending' : c.pid = p
  BY <1>0, <1>1 DEF ResumeHeld
<1>2. CASE UNCHANGED <<os, pending, blind>>
  BY <1>0, <1>2
<1>3. CASE Kill
  BY <1>0, <1>3 DEF Kill
<1>4. ASSUME NEW q \in Pids, NEW parent \in Pids \cup {Launcher}, NEW gated, NEW origin \in Origins,
             Start(q, parent, gated, origin)
      PROVE  \E c \in pending' : c.pid = p
  <2>1. CASE p = q
    <3>1. gated
      BY <1>0, <1>4, <2>1 DEF Start
    <3> QED BY <1>4, <2>1, <3>1 DEF Start
  <2>2. CASE p # q
    BY <1>0, <1>4, <2>2 DEF Start
  <2> QED BY <2>1, <2>2
<1>5. CASE LauncherSpawns
  BY <1>4, <1>5, WorldAssumption DEF LauncherSpawns, Origins
<1>6. CASE LauncherFailsToSpawn \/ LauncherReports
  BY <1>0, <1>6 DEF LauncherFailsToSpawn, LauncherReports
<1>7. ASSUME NEW q \in Pids, Exit(q) PROVE \E c \in pending' : c.pid = p
  <2>1. p # q /\ os'[p].state = os[p].state
    BY <1>7, ExitLeaves DEF Leaves
  <2> QED BY <1>0, <1>7, <2>1 DEF Exit
<1>8. ASSUME NEW q \in Pids, SessionLost(q) PROVE \E c \in pending' : c.pid = p
  <2>1. os'[p].state = os[p].state
    BY <1>8, LostLeaves DEF Leaves
  <2> QED BY <1>0, <1>8, <2>1 DEF SessionLost
<1>9. ASSUME NEW q \in Pids, AgentReady(q) \/ AgentFails(q) PROVE \E c \in pending' : c.pid = p
  BY <1>0, <1>9 DEF AgentReady, AgentFails
<1>10. ASSUME NEW q \in Pids, GateReleases(q) PROVE \E c \in pending' : c.pid = p
  BY <1>1, <1>10 DEF GateReleases
<1>11. ASSUME NEW q \in Pids, NEW escapes \in BOOLEAN, Exec(q, escapes)
       PROVE \E c \in pending' : c.pid = p
  <2>1. CASE p = q
    <3>1. Gates(q) /\ ~escapes
      BY <1>11, <2>1, ExecLeaves
    <3> DEFINE c == [pid |-> q, parent |-> q, origin |-> "exec"]
    <3>2. c \in pending' /\ c.pid = q
      BY <1>11, <3>1 DEF Exec
    <3> HIDE DEF c
    <3> QED BY <2>1, <3>2
  <2>2. CASE p # q
    <3>1. os'[p].state = os[p].state
      BY <1>11, <2>2, ExecLeaves DEF Leaves
    <3> QED BY <1>0, <1>11, <3>1 DEF Exec
  <2> QED BY <2>1, <2>2
<1>12. ASSUME NEW r \in Pids, NEW q \in Pids, Fork(r, q) PROVE \E c \in pending' : c.pid = p
  <2>1. PICK origin \in Origins : Start(q, r, Gates(r), origin)
    BY <1>12 DEF Fork, Origins
  <2> QED BY <1>4, <2>1
<1> QED BY <1>1, <1>2, <1>3, <1>5, <1>6, <1>7, <1>8, <1>9, <1>10, <1>11, <1>12
    DEF Moves, OsMoves, Resuming, WorldStep

LEMMA GeneralStep ==
    ASSUME Shape, BeforeRoot, General, Step, Moves, Doing
    PROVE  General'
<1>1. SessionsCurrent'
  BY SessionsCurrentStep DEF General
<1>2. Born' /\ AboutOK' /\ WayOK' /\ UnfollowedOK' /\ AllListed'
  BY BornStep, AboutStep, WayStep, UnfollowedStep, AllListedStep DEF General
<1>3. FreshImage'
  BY <1>1, FreshStep DEF General
<1> QED BY <1>1, <1>2, <1>3 DEF General

LEMMA GeneralInit == Init => General
<1> SUFFICES ASSUME Init PROVE General
  OBVIOUS
<1>1. /\ ToSet(wire) = {} /\ ToSet(children) = {} /\ ToSet(notices) = {} /\ ToSet(events) = {}
      /\ Coming = {} /\ About = {}
  BY SmallSets DEF Init, WorldInit, Coming, About
<1>2. Known(tree) = {}
  BY DEF Init, Known, EmptyTree
<1>3. pc = "await_root" /\ after = "idle" /\ emergency = NoChild /\ pending = {}
  BY DEF Init, WorldInit
<1>4. gating = {Launcher, NoInst} /\ \A p \in Pids : ~Attached(p)
  BY DEF Init, WorldInit, Attached
<1>5. AllListed
  BY DEF Init, WorldInit, AllListed
<1> QED BY <1>1, <1>2, <1>3, <1>4, <1>5 DEF General, Born, SessionsCurrent, AboutOK, FreshImage, WayOK,
    UnfollowedOK, Instrumenting, Closing

-----------------------------------------------------------------------------
(* Before anything failed or ended, and while no PID is used again.  Then a process that is *)
(* suspended has one report on its way, in the queue or at hand, and nobody else may resume *)
(* it; one that runs has none.                                                             *)
Early ==
    /\ setting.lives <= 1 /\ ~Failed /\ after = "idle"
    /\ pc \notin {"drain", "drained", "release", "close_streams"} \cup Closing

TicketOK(p) ==
    /\ Once(wire, Signals(p)) /\ Once(children, Tickets(p))
    /\ ~(Waits(p) /\ Queued(p))
    /\ InHand(p) \/ os[p].state = "running" => ~Waits(p) /\ ~Queued(p)
    /\ InHand(p) => os[p].state # "running"

\* A suspended process has a session only while it is being instrumented, and the gate
\* that holds it is on and belongs to a session of a process that runs.
GateHolds(g) == os[g[1]].state = "running" /\ session[g[1]].inst = g /\ g \in gating
HeldProc(p) ==
    os[p].state = "gated" => /\ Attached(p) => InHand(p) /\ pc \in Waiting
                             /\ os[p].gate \in Instances => GateHolds(os[p].gate)

\* The launcher gates until the target exists.
GatesOn == NoInst \in gating /\ (Launcher \notin gating => os[Target].state # "unused")

\* Until the root is admitted nothing runs, so that only the target can be suspended.
Inactive ==
    pc = "await_root" =>
        /\ \A p \in Pids : os[p].state # "running"
        /\ \A c \in pending \cup Coming \cup ToSet(children) : ~Live(c)

Tick == Early => (\A p \in Pids : TicketOK(p) /\ HeldProc(p)) /\ GatesOn /\ Inactive

\* A step that leaves the run early.
EarlyStep == Early /\ Early' /\ (Dispatch \/ WorldActs \/ UNCHANGED vars \/ Opening)

LEMMA EarlyBefore ==
    ASSUME Shape, WayOK, Step, Doing, Early'
    PROVE  EarlyStep
<1>1. setting' = setting /\ errors \subseteq errors' /\ ControlOK /\ errors' = {}
  BY DEF Step, Flow, Shape, Early, Failed
<1>2. setting.lives <= 1 /\ ~Failed
  BY <1>1 DEF Early, Failed
<1>3. after = "idle"
  BY <1>1, Course DEF Early, WayOK
<1>4. ~EmergencyResume
  BY <1>1 DEF EmergencyResume, Fail
<1>5. ~Failing
  BY <1>1, FailingFails DEF Early, Failed
<1>6. ~Ending
  BY <1>1 DEF Ending, LaunchFailed, Complete, Drain, Drained, DrainDeadline, Release, CloseStreams,
     ReleaseUnhandled, CloseGates, Collect, Kill, Finish, Detach, Early, Shutdown, Closing, Failed
<1>7. Dispatch \/ WorldActs \/ UNCHANGED vars \/ Opening
  BY <1>4, <1>5, <1>6 DEF Doing, Aside
<1>8. pc \notin Closing
  BY <1>1 DEF Step, Flow, Early
<1>9. pc \notin {"drain", "drained", "release", "close_streams"}
  <2>1. CASE Aside
    BY <2>1, AsideStays DEF Stays, Early
  <2>2. CASE Opening
    BY <2>2 DEF Opening, ReconcileRoot, AdmitRootChild, ServiceEvents, ServiceDetached,
       ServiceReturns, TakeChild, ReleaseUnfollowed, Admit, ReleaseOverCap, MayAdmitChild, Attach,
       AttachFails, AwaitReady, TakeEvent, EventWaitEnds, ReadyTimeout, CloseLauncherGate,
       ResumeReady, ChildNotReady, ResumeLost, Idle
  <2> QED BY <1>5, <1>6, <2>1, <2>2 DEF Doing
<1> QED BY <1>2, <1>3, <1>7, <1>8, <1>9 DEF EarlyStep, Early

\* A child that is followed, or refused at a cap, is not the first report of the root.
LEMMA VerdictLive ==
    ASSUME Shape, WayOK, Admit \/ ReleaseOverCap
    PROVE  pc = "handle" /\ cur \in Child /\ cur.pid \in Pids /\ Live(cur) /\ InHand(cur.pid)
<1>1. pc = "handle" /\ Verdict \in {"admitted", "ProcessTreeLimitExceeded"}
  BY DEF Admit, ReleaseOverCap, MayAdmitChild
<1>2. cur \in Child /\ cur.pid \in Pids
  BY <1>1 DEF Shape, ControlOK, Child
<1>3. Target \in Known(tree)
  BY <1>1 DEF WayOK, Closing
<1>4. Live(cur)
  <2>1. ASSUME cur.pid = Target, cur.origin # "exec" PROVE FALSE
    <3>1. ~Replaces /\ Retired = tree
      BY <2>1 DEF Replaces, Retired
    <3>2. Verdict = "DuplicateProcessImage"
      BY <1>3, <2>1, <3>1 DEF Verdict, ChildVerdict, KnownVerdict
    <3> QED BY <1>1, <3>2
  <2> QED BY <2>1 DEF Live
<1> QED BY <1>1, <1>2, <1>4 DEF InHand

\* No gate lets go of anyone yet.
LEMMA NobodyReleased ==
    ASSUME Shape, Tick, Early, NEW p \in Pids
    PROVE  ~GateReleases(p)
<1> SUFFICES ASSUME GateReleases(p) PROVE FALSE
  OBVIOUS
<1>1. os[p].state = "gated" /\ os[p].gate \in Gate
  BY DEF GateReleases, HeldPids, Shape, HeldOK, ProcessesOK, Proc
<1>2. os[p].gate \notin gating /\ (os[p].gate = Launcher => NoInst \notin gating)
  BY DEF GateReleases
<1> QED BY <1>1, <1>2 DEF Tick, HeldProc, GateHolds, GatesOn, Gate

\* A process that starts has never been.
LEMMA StartsAnew ==
    ASSUME Shape, setting.lives <= 1, NEW p \in Pids, os[p].life < setting.lives
    PROVE  os[p].state = "unused"
<1>1. setting.lives \in Nat /\ os[p].life \in Nat
  BY Settled DEF Shape, ProcessesOK, Proc
<1> QED BY <1>1 DEF Shape, ProcessesOK

LEMMA NobodyToResume ==
    ASSUME ProcessesOK, pending \subseteq Child, ResumeHeld({})
    PROVE  UNCHANGED <<os, pending, blind>>
  BY DEF ProcessesOK, ResumeHeld, Unwatched

\* Whom an early step resumes: the child at hand.
LEMMA EarlyResumes ==
    ASSUME Shape, EarlyStep
    PROVE  \/ UNCHANGED <<os, pending, blind>>
           \/ WorldActs
           \/ /\ ReleaseUnfollowed \/ ReleaseOverCap \/ ResumeReady \/ ResumeLost
              /\ ResumeHeld({cur.pid}) /\ pc' \in {"idle", "service"}
              /\ ReleaseOverCap \/ UNCHANGED <<session, gating>>
<1>1. CASE ReconcileRoot
  <2>1. PICK pids \in SUBSET Pids : /\ errors' = errors \cup {<<"child_queue", p>> : p \in pids}
                                    /\ ResumeHeld(pids)
    BY <1>1, Reconciled DEF ReconcileRoot, Shape
  <2>2. pids = {}
    BY <2>1 DEF EarlyStep, Early, Failed
  <2> QED BY <2>1, <2>2, NobodyToResume DEF Shape, HeldOK
<1>2. CASE ReleaseUnfollowed \/ ReleaseOverCap \/ ResumeReady \/ ResumeLost
  BY <1>2 DEF ReleaseUnfollowed, ReleaseOverCap, ResumeReady, ResumeLost, EarlyStep, Early, Closing,
     Shutdown
<1>3. CASE \/ AdmitRootChild \/ ServiceEvents \/ ServiceDetached \/ ServiceReturns
           \/ TakeChild \/ Admit \/ Attach \/ AttachFails
           \/ AwaitReady \/ TakeEvent \/ EventWaitEnds \/ ReadyTimeout \/ CloseLauncherGate
           \/ ChildNotReady \/ Idle
  BY <1>3 DEF AdmitRootChild, ServiceEvents, ServiceDetached, ServiceReturns, TakeChild, Admit,
     Attach, AttachFails, AwaitReady, TakeEvent, EventWaitEnds, ReadyTimeout, CloseLauncherGate,
     ChildNotReady, Idle, world
<1>4. CASE Dispatch \/ UNCHANGED vars
  BY <1>4 DEF Dispatch, vars, world
<1> QED BY <1>1, <1>2, <1>3, <1>4 DEF EarlyStep, Opening

-----------------------------------------------------------------------------
(* Reports on their way. *)

LEMMA TicketSignals ==
    ASSUME NEW p
    PROVE  /\ \A m \in Signals(p) : m.type = "child-added" /\ m.child \in Tickets(p)
           /\ \A c \in Child : ChildAdded(c) \in Signals(p) => c \in Tickets(p)
           /\ \A c \in Tickets(p) : ChildAdded(c) \in Signals(p)
           /\ \A m \in Message : m.type = "child-added" /\ m.child \in Tickets(p) => m \in Signals(p)
<1>1. \A m \in Signals(p) : m.type = "child-added" /\ m.child \in Tickets(p)
  BY DEF Signals, ChildAdded
<1>2. \A c : ChildAdded(c).child = c
  BY DEF ChildAdded
<1>3. \A c \in Tickets(p) : ChildAdded(c) \in Signals(p)
  BY DEF Signals
<1>4. ASSUME NEW m \in Message, m.type = "child-added" PROVE m = ChildAdded(m.child)
  BY <1>4 DEF Message, Notice, Event, ChildAdded
<1> QED BY <1>1, <1>2, <1>3, <1>4

LEMMA OnceAppend ==
    ASSUME NEW T, NEW q \in Seq(T), NEW x \in T, NEW S, Once(q, S),
           x \in S => \A y \in ToSet(q) : y \notin S
    PROVE  Once(Append(q, x), S)
<1> DEFINE r == Append(q, x)
<1>1. /\ DOMAIN r = DOMAIN q \cup {Len(q) + 1} /\ Len(q) + 1 \notin DOMAIN q
      /\ r[Len(q) + 1] = x /\ \A j \in DOMAIN q : r[j] = q[j] /\ q[j] \in ToSet(q)
  BY DEF ToSet
<1> HIDE DEF r
<1> QED BY <1>1 DEF Once, r

LEMMA OnceTail ==
    ASSUME NEW T, NEW q \in Seq(T), q # << >>, NEW S, Once(q, S)
    PROVE  /\ Once(Tail(q), S)
           /\ Head(q) \in S => \A y \in ToSet(Tail(q)) : y \notin S
<1>1. /\ DOMAIN Tail(q) = 1 .. Len(q) - 1 /\ DOMAIN q = 1 .. Len(q) /\ Len(q) \in Nat \ {0}
      /\ \A j \in DOMAIN Tail(q) : Tail(q)[j] = q[j + 1]
  BY EmptySeq, HeadTailProperties
<1>2. Head(q) = q[1] /\ 1 \in DOMAIN q
  BY <1>1
<1>3. \A j \in DOMAIN Tail(q) : j \in Nat /\ j + 1 \in DOMAIN q /\ j + 1 # 1
  BY <1>1
<1>4. Once(Tail(q), S)
  <2> SUFFICES ASSUME NEW j \in DOMAIN Tail(q), NEW k \in DOMAIN Tail(q), Tail(q)[j] \in S, Tail(q)[k] \in S
               PROVE  j = k
    BY DEF Once
  <2>1. j + 1 = k + 1
    BY <1>1, <1>3 DEF Once
  <2> QED BY <1>3, <2>1
<1>5. ASSUME Head(q) \in S, NEW y \in ToSet(Tail(q)) PROVE y \notin S
  <2>1. PICK j \in DOMAIN Tail(q) : y = Tail(q)[j]
    BY <1>5 DEF ToSet
  <2> QED BY <1>1, <1>2, <1>3, <1>5, <2>1 DEF Once
<1> QED BY <1>4, <1>5

\* Without a ticket there is one at most.
LEMMA OnceNone ==
    ASSUME NEW q, NEW S, \A y \in ToSet(q) : y \notin S
    PROVE  Once(q, S)
  BY DEF Once, ToSet

\* A message that is no report of a child leaves the reports alone.
LEMMA SilentTickets ==
    ASSUME QueuesOK, NEW w, Silent(w), NEW p
    PROVE  /\ w \in Seq(Message) /\ (Once(wire, Signals(p)) => Once(w, Signals(p)))
           /\ (\E m \in ToSet(w) : m \in Signals(p)) <=> Waits(p)
           /\ \A m \in ToSet(w) : m.type = "child-added" <=> (m \in ToSet(wire) /\ m.type = "child-added")
<1>0. wire \in Seq(Message)
  BY DEF QueuesOK
<1>1. CASE w = wire
  BY <1>0, <1>1 DEF Waits
<1>2. CASE \E m \in Message : m.type # "child-added" /\ w = Append(wire, m)
  <2>1. PICK m \in Message : m.type # "child-added" /\ w = Append(wire, m)
    BY <1>2
  <2>2. m \notin Signals(p)
    BY <2>1, TicketSignals
  <2>3. w \in Seq(Message) /\ ToSet(w) = ToSet(wire) \cup {m}
    BY <1>0, <2>1, AppendSet
  <2>4. Once(wire, Signals(p)) => Once(w, Signals(p))
    BY <1>0, <2>1, <2>2, OnceAppend
  <2> QED BY <2>1, <2>2, <2>3, <2>4 DEF Waits
<1> QED BY <1>1, <1>2 DEF Silent

\* What is about to come, be followed or resumed exists.
LEMMA Existing ==
    ASSUME Shape, Born, NEW p \in Pids, Waits(p) \/ Queued(p) \/ InHand(p)
    PROVE  os[p].state # "unused"
<1>1. Waits(p) => \E c \in Coming : c.pid = p
  BY TicketSignals DEF Waits, Coming, Tickets
<1>2. Queued(p) => \E c \in ToSet(children) : c.pid = p
  BY DEF Queued, Tickets
<1> QED BY <1>1, <1>2 DEF Born, InHand

\* A process that comes to run: it is resumed, or it is new and not suspended.
LEMMA ComesToRun ==
    ASSUME Shape, Tick, EarlyStep, NEW p \in Pids, os'[p].state = "running", os[p].state # "running"
    PROVE  \/ /\ ReleaseUnfollowed \/ ReleaseOverCap \/ ResumeReady \/ ResumeLost
              /\ p = cur.pid /\ pc' \in {"idle", "service"} /\ p \in HeldPids
           \/ /\ WorldActs /\ os[p].state = "unused" /\ wire' = wire
              /\ pc # "await_root"
<1>0. os \in [Pids -> Proc]
  BY DEF Shape, ProcessesOK
<1>1. ASSUME ResumeHeld({cur.pid}) PROVE p = cur.pid /\ p \in HeldPids
  BY <1>0, <1>1 DEF ResumeHeld
<1>2. CASE WorldActs
  <2>0. setting.lives <= 1
    BY DEF EarlyStep, Early
  <2>1. ASSUME NEW q \in Pids, NEW parent \in Pids \cup {Launcher}, NEW gated, NEW origin \in Origins,
               Start(q, parent, gated, origin)
        PROVE  p = q /\ os[p].state = "unused" /\ ~gated /\ wire' = wire
    BY <1>0, <2>0, <2>1, StartsAnew DEF Start
  <2>2. CASE LauncherSpawns
    <3>1. Start(Target, Launcher, Launcher \in gating, "fork")
      BY <2>2 DEF LauncherSpawns
    <3>2. p = Target /\ os[p].state = "unused" /\ Launcher \notin gating /\ wire' = wire
      BY <2>1, <3>1, WorldAssumption DEF Origins
    <3> QED BY <3>2 DEF EarlyStep, Tick, GatesOn
  <2>3. CASE LauncherFailsToSpawn \/ LauncherReports
    BY <2>3 DEF LauncherFailsToSpawn, LauncherReports
  <2>4. ASSUME NEW q \in Pids, Exit(q) PROVE FALSE
    BY <1>0, <2>4, ExitLeaves DEF Leaves
  <2>5. ASSUME NEW q \in Pids, SessionLost(q) PROVE FALSE
    BY <2>5, LostLeaves DEF Leaves
  <2>6. ASSUME NEW q \in Pids, AgentReady(q) \/ AgentFails(q) PROVE FALSE
    BY <2>6 DEF AgentReady, AgentFails
  <2>7. ASSUME NEW q \in Pids, GateReleases(q) PROVE FALSE
    BY <2>7, NobodyReleased DEF EarlyStep
  <2>8. ASSUME NEW q \in Pids, NEW escapes \in BOOLEAN, Exec(q, escapes) PROVE FALSE
    BY <2>8, ExecLeaves DEF Leaves
  <2>9. ASSUME NEW r \in Pids, NEW q \in Pids, Fork(r, q)
        PROVE  /\ os[p].state = "unused" /\ wire' = wire
               /\ pc # "await_root"
    <3>1. PICK origin \in Origins : Start(q, r, Gates(r), origin)
      BY <2>9 DEF Fork, Origins
    <3> QED BY <2>1, <2>9, <3>1 DEF Fork, EarlyStep, Tick, Inactive
  <2> QED BY <1>2, <2>2, <2>3, <2>4, <2>5, <2>6, <2>7, <2>8, <2>9 DEF WorldActs, WorldStep
<1> QED BY <1>1, <1>2, EarlyResumes

\* The main thread was busy with p before, or takes it now.
LEMMA InHandBefore ==
    ASSUME Shape, WayOK, Step, EarlyStep, NEW p, InHand(p)'
    PROVE  \/ InHand(p)
           \/ TakeChild /\ Head(children).pid = p /\ Live(Head(children))
           \/ AdmitRootChild /\ Head(children).pid = p
<1>1. CASE pc' = "handle"
  <2>1. cur'.pid = p /\ Live(cur')
    BY <1>1 DEF InHand, Instrumenting, Live
  <2>2. TakeChild => cur' = Head(children)
    BY DEF TakeChild
  <2> QED BY <1>1, <2>1, <2>2 DEF InHand, Live, Step, Flow, Stays
<1>2. CASE pc' \in Instrumenting
  <2>1. cur'.pid = p
    BY DEF InHand
  <2>2. Admit => InHand(cur.pid) /\ cur' = cur
    BY VerdictLive DEF Admit
  <2>3. AdmitRootChild => cur' = Head(children)
    BY DEF AdmitRootChild
  <2> QED BY <1>2, <2>1, <2>2, <2>3 DEF InHand, Step, Flow
<1> QED BY <1>1, <1>2 DEF InHand

LEMMA TicketWorld ==
    ASSUME Shape, Born, Tick, Step, EarlyStep, WorldActs, NEW p \in Pids
    PROVE  TicketOK(p)'
<1>0. TicketOK(p) /\ children' = children /\ (InHand(p)' <=> InHand(p)) /\ (Queued(p)' <=> Queued(p))
  BY DEF Tick, EarlyStep, WorldActs, queues, InHand, Queued, Live
<1>1. wire \in Seq(Message) /\ QueuesOK
  BY DEF Shape, QueuesOK
<1>2. Waits(p) \/ Queued(p) \/ InHand(p) => os[p].state # "unused"
  BY Existing
<1>3. os'[p].state = "running" => os[p].state \in {"running", "unused"}
  <2>1. ReleaseUnfollowed \/ ReleaseOverCap \/ ResumeReady \/ ResumeLost => pc' # pc
    BY DEF ReleaseUnfollowed, ReleaseOverCap, MayAdmitChild, ResumeReady, ResumeLost, Shutdown
  <2> QED BY <2>1, ComesToRun DEF WorldActs
<1>4. CASE Silent(wire')
  <2>1. Once(wire', Signals(p)) /\ (Waits(p)' <=> Waits(p))
    BY <1>0, <1>1, <1>4, SilentTickets DEF TicketOK, Waits, Signals, Tickets
  <2> QED BY <1>0, <1>2, <1>3, <2>1 DEF TicketOK, Live
<1>5. ASSUME NEW c, Suspends(c) PROVE TicketOK(p)'
  <2>1. PICK w : Silent(w) /\ wire' = Append(w, ChildAdded(c))
    BY <1>5 DEF Suspends
  <2>2. /\ w \in Seq(Message) /\ Once(w, Signals(p))
        /\ (\E m \in ToSet(w) : m \in Signals(p)) <=> Waits(p)
    BY <1>0, <1>1, <2>1, SilentTickets DEF TicketOK
  <2>3. c \in Child /\ ChildAdded(c) \in Message /\ os'[c.pid].state = "gated"
    BY <1>5, MessageTypes DEF Suspends
  <2>4. ToSet(wire') = ToSet(w) \cup {ChildAdded(c)}
    BY <2>1, <2>2, <2>3, AppendSet
  <2>5. CASE ChildAdded(c) \notin Signals(p)
    <3>1. Once(wire', Signals(p))
      BY <2>1, <2>2, <2>3, <2>5, OnceAppend
    <3>2. Waits(p)' <=> Waits(p)
      BY <2>2, <2>4, <2>5 DEF Waits
    <3> QED BY <1>0, <1>2, <1>3, <3>1, <3>2 DEF TicketOK
  <2>6. CASE ChildAdded(c) \in Signals(p)
    <3>1. c.pid = p /\ Live(c)
      BY <2>3, <2>6, TicketSignals DEF Tickets
    <3>2. ~Waits(p) /\ ~Queued(p) /\ ~InHand(p)
      <4>1. CASE Forked(c)
        <5>1. setting.lives <= 1
          BY DEF EarlyStep, Early
        <5>2. os[p].state = "unused"
          BY <3>1, <4>1, <5>1, StartsAnew DEF Forked
        <5> QED BY <1>2, <5>2
      <4>2. CASE Execed(c)
        BY <1>0, <3>1, <4>2 DEF Execed, TicketOK
      <4> QED BY <1>5, <3>1, <4>1, <4>2 DEF Suspends, Launched
    <3>3. Once(wire', Signals(p))
      BY <2>1, <2>2, <2>3, <3>2, OnceAppend
    <3> QED BY <1>0, <2>3, <3>1, <3>2, <3>3 DEF TicketOK
  <2> QED BY <2>5, <2>6
<1> QED BY <1>4, <1>5, Newcomers DEF WorldActs

\* The dispatch thread moves a report from the wire to the queue.
LEMMA TicketDispatch ==
    ASSUME Shape, Tick, EarlyStep, Dispatch, NEW p \in Pids
    PROVE  TicketOK(p)'
<1>0. TicketOK(p) /\ (InHand(p)' <=> InHand(p)) /\ os' = os /\ wire \in Seq(Message) /\ wire # << >>
      /\ wire' = Tail(wire) /\ children \in Seq(Child)
  BY DEF Tick, EarlyStep, Dispatch, InHand, Live, Shape, QueuesOK
<1>1. /\ Once(wire', Signals(p))
      /\ Head(wire) \in Signals(p) => \A m \in ToSet(wire') : m \notin Signals(p)
  BY <1>0, OnceTail DEF TicketOK
<1>2. ToSet(wire) = ToSet(wire') \cup {Head(wire)} /\ Head(wire) \in Message
  BY <1>0, TailSet
<1>3. Waits(p)' => Waits(p)
  BY <1>2 DEF Waits
<1>4. CASE children' = children
  <2>1. Queued(p)' <=> Queued(p)
    BY <1>4 DEF Queued
  <2> QED BY <1>0, <1>1, <1>3, <1>4, <2>1 DEF TicketOK
<1>5. CASE children' # children
  <2> DEFINE c == Head(wire).child
  <2>1. Head(wire).type = "child-added" /\ children' = Append(children, c)
    BY <1>5 DEF Dispatch, OnChildAdded
  <2>2. c \in Child
    BY <1>2, <2>1, MessageFields
  <2>3. ToSet(children') = ToSet(children) \cup {c}
    BY <1>0, <2>1, <2>2, AppendSet
  <2>4. c \in Tickets(p) <=> Head(wire) \in Signals(p)
    BY <1>2, <2>1, TicketSignals
  <2>5. CASE c \notin Tickets(p)
    <3>1. Once(children', Tickets(p)) /\ (Queued(p)' <=> Queued(p))
      <4>1. Queued(p)' <=> Queued(p)
        BY <2>3, <2>5 DEF Queued
      <4> HIDE DEF c
      <4>2. Once(children', Tickets(p))
        BY <1>0, <2>1, <2>2, <2>5, OnceAppend DEF TicketOK
      <4> QED BY <4>1, <4>2
    <3> QED BY <1>0, <1>1, <1>3, <3>1 DEF TicketOK
  <2>6. CASE c \in Tickets(p)
    <3>1. Waits(p) /\ ~Waits(p)'
      BY <1>1, <1>2, <2>4, <2>6 DEF Waits
    <3>2. ~Queued(p) /\ ~InHand(p) /\ os[p].state # "running"
      BY <1>0, <3>1 DEF TicketOK
    <3> HIDE DEF c
    <3>3. Once(children', Tickets(p))
      BY <1>0, <2>1, <2>2, <3>2, OnceAppend DEF TicketOK, Queued
    <3> QED BY <1>0, <1>1, <3>1, <3>2, <3>3 DEF TicketOK
  <2> QED BY <2>5, <2>6
<1> QED BY <1>4, <1>5

\* The main thread takes the next child.
LEMMA TicketTaken ==
    ASSUME Shape, WayOK, Step, Tick, EarlyStep, TakeChild \/ AdmitRootChild, NEW p \in Pids
    PROVE  TicketOK(p)'
<1>0. /\ TicketOK(p) /\ os' = os /\ wire' = wire /\ children \in Seq(Child) /\ children # << >>
      /\ children' = Tail(children) /\ (Waits(p)' <=> Waits(p))
  BY DEF Tick, EarlyStep, TakeChild, AdmitRootChild, world, Waits, Shape, QueuesOK
<1>1. /\ Once(children', Tickets(p))
      /\ Head(children) \in Tickets(p) => \A c \in ToSet(children') : c \notin Tickets(p)
  BY <1>0, OnceTail DEF TicketOK
<1>2. ToSet(children) = ToSet(children') \cup {Head(children)} /\ Head(children) \in Child
  BY <1>0, TailSet
<1>3. Queued(p)' => Queued(p)
  BY <1>2 DEF Queued
<1>4. CASE ~InHand(p)'
  BY <1>0, <1>1, <1>3, <1>4 DEF TicketOK
<1>5. CASE InHand(p)'
  <2>1. ~InHand(p)
    BY DEF InHand, TakeChild, AdmitRootChild, Instrumenting
  <2>2. CASE Head(children).pid = p /\ Live(Head(children))
    <3>1. Head(children) \in Tickets(p)
      BY <1>2, <2>2 DEF Tickets
    <3>2. Queued(p) /\ ~Queued(p)'
      BY <1>1, <1>2, <3>1 DEF Queued
    <3> QED BY <1>0, <1>1, <3>2 DEF TicketOK
  <2>3. CASE AdmitRootChild /\ Head(children).pid = p
    <3>1. pc = "await_root" /\ Inactive
      BY <2>3 DEF AdmitRootChild, Tick, EarlyStep
    <3>2. os[p].state # "running" /\ \A c \in Coming \cup ToSet(children) : ~Live(c)
      BY <3>1 DEF Inactive
    <3>3. ~Waits(p) /\ ~Queued(p)
      BY <3>2, TicketSignals DEF Waits, Queued, Coming, Tickets
    <3> QED BY <1>0, <1>1, <1>3, <3>2, <3>3 DEF TicketOK
  <2> QED BY <1>5, <2>1, <2>2, <2>3, InHandBefore
<1> QED BY <1>4, <1>5

\* Everything else leaves the reports where they are.
LEMMA TicketOther ==
    ASSUME Shape, General, Tick, Step, Moves, EarlyStep, NEW p \in Pids,
           ~Dispatch, ~TakeChild, ~AdmitRootChild, ~WorldActs
    PROVE  TicketOK(p)'
<1>0. TicketOK(p) /\ Tick /\ Early
  BY DEF Tick, EarlyStep
<1>1. UNCHANGED vars \/ Opening
  BY DEF EarlyStep
<1>2. wire' = wire /\ (Waits(p)' <=> Waits(p))
  <2>1. wire' = wire
    BY <1>1 DEF vars, world, Opening, ReconcileRoot, ServiceEvents, ServiceDetached,
       ServiceReturns, ReleaseUnfollowed, Admit, ReleaseOverCap, Attach, AttachFails, AwaitReady,
       TakeEvent, EventWaitEnds, ReadyTimeout, CloseLauncherGate, ResumeReady, ChildNotReady,
       ResumeLost, Idle
  <2> QED BY <2>1 DEF Waits
<1>3. InHand(p)' => InHand(p)
  BY InHandBefore DEF General
<1>4. /\ Once(children', Tickets(p)) /\ (Queued(p)' => Queued(p))
  <2>1. CASE ReconcileRoot
    <3>1. pc = "await_root"
      BY <2>1 DEF ReconcileRoot
    <3>2. \A c \in pending \cup Coming \cup ToSet(children) : ~Live(c)
      BY <1>0, <3>1 DEF Tick, Inactive
    <3>3. \A c \in ToSet(children') : c \notin Tickets(p)
      BY <3>2, ChildrenStep DEF Moves, Tickets
    <3> QED BY <3>3, OnceNone DEF Queued
  <2>2. CASE children' = children
    BY <1>0, <2>2 DEF Queued, TicketOK
  <2>3. ReconcileRoot \/ children' = children
    BY <1>1 DEF vars, queues, Opening, ServiceEvents, ServiceDetached,
       ServiceReturns, ReleaseUnfollowed, Admit, ReleaseOverCap, Attach, AttachFails, AwaitReady,
       TakeEvent, EventWaitEnds, ReadyTimeout, CloseLauncherGate, ResumeReady, ChildNotReady,
       ResumeLost, Idle
  <2> QED BY <2>1, <2>2, <2>3
<1>5. os'[p].state = "running" =>
         os[p].state = "running" \/ (~Waits(p) /\ ~Queued(p) /\ ~InHand(p)')
  <2> SUFFICES ASSUME os'[p].state = "running", os[p].state # "running"
               PROVE  ~Waits(p) /\ ~Queued(p) /\ ~InHand(p)'
    OBVIOUS
  <2>1. /\ ReleaseUnfollowed \/ ReleaseOverCap \/ ResumeReady \/ ResumeLost
        /\ p = cur.pid /\ pc' \in {"idle", "service"}
    BY <1>0, ComesToRun
  <2>2. ~InHand(p)'
    BY <2>1 DEF InHand, Instrumenting
  <2>3. CASE ReleaseUnfollowed
    <3>1. ~setting.follow
      BY <2>3 DEF ReleaseUnfollowed
    <3>2. \A c \in Coming \cup ToSet(children) : ~Live(c)
      BY <3>1 DEF General, UnfollowedOK
    <3> QED BY <2>2, <3>2, TicketSignals DEF Waits, Queued, Coming, Tickets
  <2>4. CASE ReleaseOverCap
    BY <1>0, <2>1, <2>2, <2>4, VerdictLive DEF General, TicketOK
  <2>5. CASE ResumeReady \/ ResumeLost
    <3>1. InHand(p)
      BY <2>1, <2>5 DEF InHand, ResumeReady, ResumeLost, Instrumenting
    <3> QED BY <1>0, <2>2, <3>1 DEF TicketOK
  <2> QED BY <2>1, <2>3, <2>4, <2>5
<1> QED BY <1>0, <1>2, <1>3, <1>4, <1>5 DEF TicketOK

LEMMA TicketStep ==
    ASSUME Shape, General, Tick, Step, Moves, EarlyStep
    PROVE  \A p \in Pids : TicketOK(p)'
  BY TicketWorld, TicketDispatch, TicketTaken, TicketOther DEF General

-----------------------------------------------------------------------------
(* Gates. *)

\* What becomes of the processes in a step of the world.
Sits == os' = os /\ gating' = gating /\ \A r \in Pids : session'[r].inst = session[r].inst
Starts(p) ==
    /\ os[p].state \in {"unused", "dead"} /\ os[p].life < setting.lives
    /\ session' = session /\ gating' = gating /\ \A q \in Pids \ {p} : os'[q] = os[q]
    /\ os'[p].state = "gated" =>
          \/ os'[p].gate = Launcher
          \/ \E r \in Pids : os[r].state = "running" /\ Gates(r) /\ os'[p].gate = session[r].inst
Departs(p) ==
    /\ Leaves(p)
    /\ os'[p].state = "gated" => \/ os[p].state = "gated"
                                 \/ os[p].state = "running" /\ os'[p].gate = NoInst

LEMMA WorldCases ==
    ASSUME Shape, WorldStep
    PROVE  Sits \/ \E p \in Pids : Starts(p) \/ Departs(p) \/ GateReleases(p)
<1>0. os \in [Pids -> Proc] /\ session \in [Pids -> Session]
  BY DEF Shape, ProcessesOK, SessionsOK
<1>1. ASSUME NEW q \in Pids, NEW parent \in Pids \cup {Launcher}, NEW gated, NEW origin \in Origins,
             Start(q, parent, gated, origin),
             gated => parent = Launcher \/ (os[parent].state = "running" /\ Gates(parent))
      PROVE  Starts(q)
  <2>1. \A p \in Pids \ {q} : os'[p] = os[p]
    BY <1>0, <1>1 DEF Start
  <2>2. os'[q].state = "gated" => gated /\ os'[q].gate = GateOf(parent)
    BY <1>0, <1>1 DEF Start
  <2> QED BY <1>1, <2>1, <2>2, WorldAssumption DEF Start, Starts, GateOf
<1>2. CASE LauncherSpawns
  BY <1>1, <1>2, WorldAssumption DEF LauncherSpawns, Origins
<1>3. CASE LauncherFailsToSpawn \/ LauncherReports
  BY <1>3 DEF LauncherFailsToSpawn, LauncherReports, Sits
<1>4. ASSUME NEW p \in Pids, Exit(p) PROVE Departs(p)
  BY <1>4, ExitLeaves DEF Departs
<1>5. ASSUME NEW p \in Pids, SessionLost(p) PROVE Departs(p)
  BY <1>5, LostLeaves DEF Departs
<1>6. ASSUME NEW p \in Pids, AgentReady(p) \/ AgentFails(p) PROVE Sits
  BY <1>0, <1>6 DEF AgentReady, AgentFails, Sits, Session
<1>7. ASSUME NEW p \in Pids, NEW escapes \in BOOLEAN, Exec(p, escapes) PROVE Departs(p)
  BY <1>7, ExecLeaves DEF Departs
<1>8. ASSUME NEW p \in Pids, NEW q \in Pids, Fork(p, q) PROVE Starts(q)
  <2>1. PICK origin \in Origins : Start(q, p, Gates(p), origin)
    BY <1>8 DEF Fork, Origins
  <2> QED BY <1>1, <1>8, <2>1 DEF Fork
<1> QED BY <1>2, <1>3, <1>4, <1>5, <1>6, <1>7, <1>8 DEF WorldStep

\* A session belongs to the process it names.
LEMMA SessionOwner ==
    ASSUME Shape, SessionsCurrent, NEW p \in Pids, session[p].inst # NoInst
    PROVE  /\ Attached(p) /\ session[p].inst = Current(tree, p) /\ session[p].inst[1] = p
           /\ session[p].inst \in Instances /\ session[p].inst \in KnownImgs(tree) /\ p \in Known(tree)
<1>1. Attached(p)
  BY DEF Attached, NoSession
<1> QED BY <1>1, CurrentKnown DEF Shape, SessionsCurrent

\* A session that is there is not among those whose end is noticed.
LEMMA NotGone ==
    ASSUME Shape, General, NEW r \in Pids, NEW why
    PROVE  session[r].inst \notin Gone(why)
<1>1. ASSUME NEW n \in ToSet(notices), n.inst = session[r].inst PROVE FALSE
  <2>1. n \in About /\ n.type = "detached"
    <3>1. notices \in Seq(Notice)
      BY DEF Shape, QueuesOK
    <3>2. n \in Notice
      BY <3>1 DEF ToSet
    <3> QED BY <3>2 DEF About, Notice
  <2>2. n.inst \in KnownImgs(tree) /\ session[n.inst[1]].inst # n.inst
    BY <2>1 DEF General, AboutOK
  <2>3. session[r].inst # NoInst
    BY <1>1, <2>2, GatesAssumption, ImageOwner DEF Shape
  <2> QED BY <1>1, <2>2, <2>3, SessionOwner DEF General
<1> QED BY <1>1 DEF Gone

\* Early, the main thread leaves the session of a process that runs alone, and its gate.
LEMMA RunnerKept ==
    ASSUME Shape, General, Tick, EarlyStep, Opening, NEW r \in Pids, os[r].state = "running"
    PROVE  /\ session'[r] = session[r]
           /\ session[r].inst \in gating /\ session[r].inst # NoInst => session[r].inst \in gating'
<1>0. TicketOK(r) /\ session \in [Pids -> Session]
  BY DEF Tick, EarlyStep, Shape, SessionsOK
<1>1. ASSUME NEW insts, DetachStreams(insts), session[r].inst \notin insts
      PROVE  session'[r] = session[r] /\ (session[r].inst \in gating => session[r].inst \in gating')
  BY <1>1 DEF DetachStreams
<1>2. session[r].inst \notin Gone("process-replaced")
  BY NotGone
<1>3. InHand(cur.pid) /\ cur.pid \in Known(tree) => r # cur.pid /\ session[r].inst # Current(tree, cur.pid)
  <2> SUFFICES ASSUME InHand(cur.pid), cur.pid \in Known(tree)
               PROVE  r # cur.pid /\ session[r].inst # Current(tree, cur.pid)
    OBVIOUS
  <2>1. r # cur.pid
    BY <1>0 DEF TicketOK
  <2>2. CASE session[r].inst = NoInst
    BY <2>1, <2>2, CurrentKnown, GatesAssumption DEF Shape
  <2>3. CASE session[r].inst # NoInst
    BY <2>1, <2>3, SessionOwner DEF General, Current
  <2> QED BY <2>2, <2>3
<1>4. CASE ServiceDetached \/ AwaitReady
  BY <1>1, <1>2, <1>4 DEF ServiceDetached, AwaitReady, ServiceNotices
<1>5. CASE Admit \/ ReleaseOverCap
  <2>1. InHand(cur.pid)
    BY <1>5, VerdictLive DEF General
  <2> QED BY <1>1, <1>3, <1>5, <2>1 DEF Admit, ReleaseOverCap, RetirePrevious, Replaces
<1>6. ASSUME pc \in Instrumenting PROVE InHand(cur.pid) /\ cur.pid \in Known(tree)
  BY <1>6 DEF InHand, Shape, ControlOK, Child
<1>7. CASE Attach
  BY <1>0, <1>3, <1>6, <1>7 DEF Attach, Instrumenting
<1>8. CASE ChildNotReady
  BY <1>1, <1>3, <1>6, <1>8 DEF ChildNotReady, Instrumenting, CurInst
<1>9. CASE CloseLauncherGate
  BY <1>9, SessionOwner, GatesAssumption DEF CloseLauncherGate, General
<1>10. CASE \/ ReconcileRoot \/ AdmitRootChild \/ ServiceEvents \/ ServiceReturns \/ TakeChild
            \/ ReleaseUnfollowed \/ AttachFails \/ TakeEvent \/ EventWaitEnds \/ ReadyTimeout
            \/ ResumeReady \/ ResumeLost \/ Idle
  BY <1>10 DEF ReconcileRoot, AdmitRootChild, ServiceEvents, ServiceReturns, TakeChild,
     ReleaseUnfollowed, AttachFails, TakeEvent, EventWaitEnds, ReadyTimeout, ResumeReady, ResumeLost,
     Idle, world
<1> QED BY <1>4, <1>5, <1>7, <1>8, <1>9, <1>10 DEF Opening


\* A gate that holds a child goes on holding it, or is remembered as gone.
LEMMA GateHeld ==
    ASSUME Shape, General, Tick, EarlyStep, NEW p \in Pids, os[p].state = "gated",
           os'[p].state = "gated", os'[p].gate \in Instances
    PROVE  GateHolds(os[p].gate)'
<1> DEFINE g == os'[p].gate
           r == g[1]
<1>0. os \in [Pids -> Proc] /\ session \in [Pids -> Session] /\ r \in Pids /\ g # NoInst
  BY GatesAssumption DEF Shape, ProcessesOK, SessionsOK, Instances
<1>1. os[p].gate = g => os[r].state = "running" /\ session[r].inst = g /\ g \in gating
  BY DEF EarlyStep, Tick, HeldProc, GateHolds
<1> SUFFICES os'[r].state = "running" /\ session'[r].inst = g /\ g \in gating'
  BY DEF GateHolds
<1> HIDE DEF g, r
<1>2. CASE WorldActs
  <2>1. CASE Sits
    BY <1>0, <1>1, <2>1 DEF Sits, g
  <2>2. ASSUME NEW q \in Pids, Starts(q)
        PROVE  os'[r].state = "running" /\ session'[r].inst = g /\ g \in gating'
    <3>1. q # p /\ os'[p] = os[p]
      BY <2>2 DEF Starts
    <3>2. q # r
      BY <1>1, <2>2, <3>1 DEF Starts, g
    <3> QED BY <1>0, <1>1, <2>2, <3>1, <3>2 DEF Starts, g
  <2>3. ASSUME NEW q \in Pids, Departs(q)
        PROVE  os'[r].state = "running" /\ session'[r].inst = g /\ g \in gating'
    <3>1. os'[p].gate = os[p].gate /\ ~(Attached(q) /\ os[p].gate = session[q].inst)
      BY <1>0, <2>3 DEF Departs, Leaves, g
    <3>2. os[r].state = "running" /\ session[r].inst = g /\ g \in gating
      BY <1>1, <3>1 DEF g
    <3>3. q # r
      BY <1>0, <3>1, <3>2, SessionOwner DEF General, g
    <3> QED BY <1>0, <2>3, <3>2, <3>3 DEF Departs, Leaves
  <2>4. ASSUME NEW q \in Pids, GateReleases(q) PROVE FALSE
    BY <2>4, NobodyReleased DEF EarlyStep
  <2> QED BY <1>2, <2>1, <2>2, <2>3, <2>4, WorldCases DEF WorldActs
<1>3. CASE Dispatch \/ UNCHANGED vars
  BY <1>1, <1>3 DEF Dispatch, vars, world, g
<1>4. CASE Opening /\ ~WorldActs
  <2>1. os'[p] = os[p] /\ (os[r].state = "running" => os'[r].state = "running")
    <3>1. CASE UNCHANGED <<os, pending, blind>>
      BY <3>1
    <3>2. CASE ResumeHeld({cur.pid})
      BY <1>0, <3>2 DEF ResumeHeld, Proc
    <3> QED BY <1>4, <3>1, <3>2, EarlyResumes
  <2> QED BY <1>0, <1>1, <1>4, <2>1, RunnerKept DEF g
<1> QED BY <1>2, <1>3, <1>4 DEF EarlyStep

\* A process is suspended anew by the gate of one that runs.
LEMMA GateTaken ==
    ASSUME Shape, General, Tick, EarlyStep, NEW p \in Pids, os[p].state # "gated",
           os'[p].state = "gated"
    PROVE  /\ session'[p] = NoSession
           /\ os'[p].gate \in Instances => GateHolds(os[p].gate)'
<1>0. os \in [Pids -> Proc] /\ session \in [Pids -> Session]
  BY DEF Shape, ProcessesOK, SessionsOK
<1>1. WorldActs
  <2>1. CASE UNCHANGED <<os, pending, blind>>
    BY <2>1
  <2>2. CASE ResumeHeld({cur.pid})
    BY <1>0, <2>2 DEF ResumeHeld
  <2> QED BY <2>1, <2>2, EarlyResumes
<1>2. ASSUME NEW q \in Pids, Starts(q)
      PROVE  /\ session'[p] = NoSession
             /\ os'[p].gate \in Instances => GateHolds(os[p].gate)'
  <2>1. p = q /\ os[p].state = "unused"
    <3>1. p = q
      BY <1>2 DEF Starts
    <3> QED BY <1>2, <3>1, StartsAnew DEF Starts, EarlyStep, Early
  <2>2. ~Attached(p) /\ session' = session
    BY <1>2, <2>1 DEF Starts, General, SessionsCurrent
  <2>3. ASSUME os'[p].gate \in Instances PROVE GateHolds(os[p].gate)'
    <3>1. PICK r \in Pids : os[r].state = "running" /\ Gates(r) /\ os'[p].gate = session[r].inst
      BY <1>2, <2>1, <2>3, GatesAssumption DEF Starts
    <3>2. r # p /\ session[r].inst # NoInst
      BY <2>1, <2>3, <3>1, GatesAssumption
    <3>3. session[r].inst[1] = r
      BY <3>2, SessionOwner DEF General
    <3> QED BY <1>2, <2>1, <2>2, <3>1, <3>2, <3>3 DEF Starts, Gates, GateHolds
  <2> QED BY <2>2, <2>3 DEF Attached
<1>3. ASSUME NEW q \in Pids, Departs(q)
      PROVE  /\ session'[p] = NoSession
             /\ os'[p].gate \in Instances => GateHolds(os[p].gate)'
  <2>1. p = q
    BY <1>3 DEF Departs, Leaves
  <2> QED BY <1>0, <1>3, <2>1, GatesAssumption DEF Departs, Leaves
<1>4. ~Sits
  BY DEF Sits
<1>5. \A q \in Pids : ~GateReleases(q)
  BY NobodyReleased DEF EarlyStep
<1> QED BY <1>1, <1>2, <1>3, <1>4, <1>5, WorldCases DEF WorldActs

\* Whoever is suspended and has a session is being instrumented.
LEMMA HeldInHand ==
    ASSUME Shape, General, Tick, Step, Moves, EarlyStep, NEW p \in Pids, os[p].state = "gated",
           os'[p].state = "gated", Attached(p)'
    PROVE  InHand(p)' /\ pc' \in Waiting
<1>1. CASE Attach /\ p = cur.pid
  BY <1>1 DEF Attach, InHand, Waiting, Instrumenting
<1>2. CASE ~(Attach /\ p = cur.pid)
  <2>1. Attached(p)
    BY <1>2, SessionAfter DEF Attached, NoSession
  <2>2. InHand(p) /\ pc \in Waiting /\ cur.pid = p
    BY <2>1 DEF EarlyStep, Tick, HeldProc, InHand
  <2>3. CASE pc' \in Waiting
    <3>1. pc' \in Instrumenting /\ ~Admit /\ ~AdmitRootChild
      BY <2>2, <2>3 DEF Waiting, Instrumenting, Admit, MayAdmitChild, AdmitRootChild
    <3> QED BY <2>2, <2>3, <3>1 DEF Step, Flow, InHand
  <2>4. CASE ResumeReady
    <3>1. p \in HeldPids
      BY <2>2, <2>4 DEF ResumeReady, Fail, EarlyStep, Early, Failed
    <3> QED BY <2>2, <2>4, <3>1 DEF ResumeReady, ResumeHeld, Shape, ProcessesOK, Proc
  <2>5. CASE ChildNotReady
    <3>1. session[p].inst = CurInst
      BY <2>1, <2>2 DEF General, SessionsCurrent, CurInst
    <3> QED BY <2>5, <3>1 DEF ChildNotReady, DetachStreams, Attached
  <2>6. pc' \in Waiting \/ ResumeReady \/ ChildNotReady
    <3>1. CASE Aside
      BY <2>2, <3>1, AsideStays DEF Stays
    <3>2. CASE Opening
      BY <2>2, <3>2 DEF Opening, Waiting, ReconcileRoot, AdmitRootChild, ServiceEvents, ServiceDetached,
         ServiceReturns, TakeChild, ReleaseUnfollowed, Admit, ReleaseOverCap, MayAdmitChild, Attach,
         AttachFails, AwaitReady, TakeEvent, EventWaitEnds, ReadyTimeout, CloseLauncherGate,
         ResumeLost, Idle
    <3> QED BY <3>1, <3>2 DEF EarlyStep, Aside
  <2> QED BY <2>3, <2>4, <2>5, <2>6
<1> QED BY <1>1, <1>2

LEMMA HeldStep ==
    ASSUME Shape, General, Tick, Step, Moves, EarlyStep
    PROVE  \A p \in Pids : HeldProc(p)'
<1> SUFFICES ASSUME NEW p \in Pids, os'[p].state = "gated"
             PROVE  /\ Attached(p)' => InHand(p)' /\ pc' \in Waiting
                    /\ os'[p].gate \in Instances => GateHolds(os[p].gate)'
  BY DEF HeldProc
<1>1. CASE os[p].state = "gated"
  BY <1>1, GateHeld, HeldInHand
<1>2. CASE os[p].state # "gated"
  BY <1>2, GateTaken DEF Attached
<1> QED BY <1>1, <1>2

LEMMA GatesOnStep ==
    ASSUME Shape, BeforeRoot, General, Tick, Step, Moves, EarlyStep
    PROVE  GatesOn'
<1>0. GatesOn /\ (os'[Target].state = "unused" => os[Target].state = "unused")
  BY WorldAssumption DEF Tick, EarlyStep, Step, ProcessesKept, Ages
<1>1. ASSUME NEW insts \in SUBSET Instances, DetachStreams(insts) PROVE GatesOn'
  BY <1>0, <1>1, GatesAssumption DEF DetachStreams, GatesOn
<1>2. CASE gating \subseteq gating'
  BY <1>0, <1>2 DEF GatesOn
<1>3. Gone("process-replaced") \subseteq Instances
  BY ImageOwner DEF Gone, Shape, TablesOK
<1>4. CASE ServiceDetached \/ AwaitReady
  <2>1. DetachStreams(Gone("process-replaced")) \/ gating' = gating
    BY <1>4 DEF ServiceDetached, AwaitReady, ServiceNotices
  <2> QED BY <1>1, <1>2, <1>3, <2>1
<1>5. CASE Admit \/ ReleaseOverCap
  <2>1. DetachStreams(IF Replaces THEN {Current(tree, cur.pid)} ELSE {})
    BY <1>5 DEF Admit, ReleaseOverCap, RetirePrevious
  <2>2. (IF Replaces THEN {Current(tree, cur.pid)} ELSE {}) \in SUBSET Instances
    BY CurrentKnown DEF Replaces, Shape
  <2> HIDE DEF Replaces
  <2> QED BY <1>1, <2>1, <2>2
<1>6. CASE ChildNotReady
  <2>1. CurInst \in Instances /\ DetachStreams({CurInst})
    BY <1>6, CurrentKnown DEF ChildNotReady, Shape, ControlOK, Instrumenting, CurInst
  <2> QED BY <1>1, <2>1
<1>7. CASE CloseLauncherGate
  <2>1. os[Target].state # "unused"
    <3>1. cur.pid \in Pids /\ os[cur.pid].state # "unused"
      BY <1>7 DEF CloseLauncherGate, General, Born, Instrumenting, Shape, ControlOK, Child
    <3> QED BY <3>1 DEF BeforeRoot
  <2> QED BY <1>0, <1>7, <2>1, GatesAssumption DEF CloseLauncherGate, GatesOn
<1>8. CASE \/ ReconcileRoot \/ AdmitRootChild \/ ServiceEvents \/ ServiceReturns \/ TakeChild
           \/ ReleaseUnfollowed \/ AttachFails \/ TakeEvent \/ EventWaitEnds \/ ReadyTimeout
           \/ ResumeReady \/ ResumeLost \/ Idle \/ Attach \/ Dispatch \/ UNCHANGED vars
  <2>1. gating \subseteq gating'
    BY <1>8 DEF ReconcileRoot, AdmitRootChild, ServiceEvents, ServiceReturns, TakeChild,
       ReleaseUnfollowed, AttachFails, TakeEvent, EventWaitEnds, ReadyTimeout, ResumeReady, ResumeLost,
       Idle, Attach, Dispatch, vars, world
  <2> QED BY <1>2, <2>1
<1>9. CASE WorldActs
  <2>1. gating' = gating
    BY <1>9, WorldCases DEF WorldActs, Sits, Starts, Departs, Leaves, GateReleases
  <2> QED BY <1>2, <2>1
<1> QED BY <1>4, <1>5, <1>6, <1>7, <1>8, <1>9 DEF EarlyStep, Opening

LEMMA InactiveStep ==
    ASSUME Shape, BeforeRoot, General, Tick, Step, Moves, EarlyStep
    PROVE  Inactive'
<1> SUFFICES ASSUME pc' = "await_root"
             PROVE  /\ \A p \in Pids : os'[p].state # "running"
                    /\ \A c \in pending' \cup Coming' \cup ToSet(children') : ~Live(c)
  BY DEF Inactive, Live
<1>1. pc = "await_root"
  BY DEF Step, Flow
<1>2. /\ \A p \in Pids : os[p].state # "running"
      /\ \A c \in pending \cup Coming \cup ToSet(children) : ~Live(c)
  BY <1>1 DEF EarlyStep, Tick, Inactive
<1>3. \A p \in Pids : os'[p].state # "running"
  BY <1>1, <1>2, ComesToRun DEF EarlyStep
<1>4. \A c : Suspends(c) => ~Live(c)
  BY <1>2 DEF Suspends, Launched, Forked, Execed, Child
<1>5. \A c \in pending' \cup Coming' : ~Live(c)
  BY <1>2, <1>4, NewComing DEF Step
<1>6. \A c \in ToSet(children') : ~Live(c)
  BY <1>2, ChildrenStep DEF Moves
<1> QED BY <1>3, <1>5, <1>6

LEMMA TickStep ==
    ASSUME Shape, BeforeRoot, General, Tick, Step, Moves, Doing
    PROVE  Tick'
<1>1. CASE Early'
  <2>1. EarlyStep
    BY <1>1, EarlyBefore DEF General
  <2> QED BY <2>1, TicketStep, HeldStep, GatesOnStep, InactiveStep DEF Tick
<1>2. CASE ~Early'
  BY <1>2 DEF Tick
<1> QED BY <1>1, <1>2

-----------------------------------------------------------------------------
(* Where the suspended children are: reported, or at hand.  A child released before is not *)
(* suspended again under the same key.                                                     *)
Reported(c) == ChildAdded(c) \in ToSet(wire) \/ c \in ToSet(children) \/ emergency = c
Placed(c)   == /\ Reported(c) \/ InHand(c.pid)
               /\ ~Live(c) /\ pc # "await_root" => InHand(c.pid)
Loose(p)    == /\ os[p].state \in {"running", "dead"} /\ ~Attached(p)
               /\ ~InHand(p) /\ ~Waits(p) /\ ~Queued(p)
PlaceOK ==
    Early => /\ \A c \in pending : Placed(c)
             /\ \A c \in released \cap Child :
                   c # emergency => pc # "await_root" /\ (Live(c) => Loose(c.pid))

\* Whom the main thread lets go of is not suspended any more.
LEMMA HandKept ==
    ASSUME Shape, Step, EarlyStep, NEW p \in Pids, InHand(p)
    PROVE  InHand(p)' \/ p \notin HeldPids'
<1>1. CASE Aside
  BY <1>1, AsideStays DEF Stays, InHand, Live
<1>2. CASE ReleaseUnfollowed \/ ReleaseOverCap \/ ResumeReady \/ ResumeLost
  <2>1. ResumeHeld({cur.pid}) /\ cur.pid = p
    BY <1>2 DEF ReleaseUnfollowed, ReleaseOverCap, ResumeReady, ResumeLost, InHand
  <2>2. \A c \in pending' : c \in pending /\ c.pid \notin {p} \cap HeldPids
    BY <2>1 DEF ResumeHeld
  <2> QED BY <2>2 DEF HeldPids
<1>3. CASE Opening /\ ~(ReleaseUnfollowed \/ ReleaseOverCap \/ ResumeReady \/ ResumeLost)
  <2>1. pc' \in Instrumenting /\ cur' = cur
    BY <1>3 DEF Opening, InHand, Instrumenting, ReconcileRoot, AdmitRootChild, ServiceEvents, ServiceDetached,
       ServiceReturns, TakeChild, Admit, MayAdmitChild, Attach,
       AttachFails, AwaitReady, TakeEvent, EventWaitEnds, ReadyTimeout, CloseLauncherGate,
       ChildNotReady, Idle
  <2> QED BY <2>1 DEF InHand
<1> QED BY <1>1, <1>2, <1>3 DEF EarlyStep, Aside

LEMMA ReportKept ==
    ASSUME Shape, General, Tick, PlaceOK, Step, Moves, EarlyStep, NEW c \in pending, Reported(c),
           Live(c) \/ pc = "await_root"
    PROVE  Reported(c)' \/ InHand(c.pid)'
<1>0. /\ c \in Child /\ os[c.pid].state = "gated" /\ c # NoChild
      /\ wire \in Seq(Message) /\ children \in Seq(Child)
  BY PidsAssumption DEF Shape, HeldOK, QueuesOK, Child, NoChild
<1>1. CASE WorldActs
  <2>1. ToSet(wire) \subseteq ToSet(wire')
    BY <1>0, <1>1, WireGrows DEF WorldActs, Shape, WorldSends
  <2> QED BY <1>1, <2>1 DEF WorldActs, Reported, queues
<1>2. CASE Dispatch
  <2>1. ToSet(wire) = ToSet(wire') \cup {Head(wire)} /\ emergency = NoChild /\ Head(wire) \in Message
    BY <1>0, <1>2, TailSet DEF Dispatch
  <2>2. ToSet(children) \subseteq ToSet(children')
    <3>1. CASE children' = children
      BY <3>1
    <3>2. CASE children' # children
      <4>1. Head(wire).type = "child-added" /\ children' = Append(children, Head(wire).child)
        BY <1>2, <3>2 DEF Dispatch, OnChildAdded
      <4> QED BY <1>0, <2>1, <4>1, MessageFields, AppendSet
    <3> QED BY <3>1, <3>2
  <2>3. CASE Head(wire) = ChildAdded(c)
    <3>1. Head(wire).type = "child-added" /\ Head(wire).child = c /\ pc # "detach"
      BY <2>3 DEF ChildAdded, EarlyStep, Early, Closing
    <3>2. OnChildAdded(c)
      BY <1>2, <3>1 DEF Dispatch
    <3>3. c \in released => FALSE
      BY <1>0, <2>1 DEF PlaceOK, EarlyStep, Loose
    <3>4. ~Seen(c) => c \in ToSet(children') \/ emergency' = c
      <4>1. ~Seen(c) => children' = Append(children, c) \/ emergency' = c
        BY <3>2 DEF OnChildAdded
      <4>2. c \in ToSet(Append(children, c))
        BY <1>0, AppendSet
      <4> QED BY <4>1, <4>2
    <3>5. Seen(c) => c \in ToSet(children')
      BY <2>2, <3>3 DEF Seen
    <3> QED BY <3>4, <3>5 DEF Reported
  <2>4. CASE Head(wire) # ChildAdded(c)
    BY <1>0, <2>1, <2>2, <2>4 DEF Reported
  <2> QED BY <2>3, <2>4
<1>3. CASE TakeChild \/ AdmitRootChild
  <2>1. /\ wire' = wire /\ emergency' = emergency /\ cur' = Head(children)
        /\ children # << >> /\ children' = Tail(children)
    BY <1>3 DEF TakeChild, AdmitRootChild, world
  <2>2. ToSet(children) = ToSet(children') \cup {Head(children)}
    BY <1>0, <2>1, TailSet
  <2>3. c = Head(children) => InHand(c.pid)'
    BY <1>3, <2>1 DEF TakeChild, AdmitRootChild, InHand, Live, Instrumenting
  <2> QED BY <2>1, <2>2, <2>3 DEF Reported
<1>4. CASE ReconcileRoot
  <2>1. children = << >> /\ wire' = wire /\ emergency' = emergency
    BY <1>4 DEF ReconcileRoot
  <2> QED BY <2>1, SmallSets DEF Reported
<1>5. CASE /\ UNCHANGED vars \/ Opening
           /\ ~TakeChild /\ ~AdmitRootChild /\ ~ReconcileRoot
  <2>1. wire' = wire /\ children' = children /\ emergency' = emergency
    BY <1>5 DEF vars, world, queues, Opening, ServiceEvents, ServiceDetached,
       ServiceReturns, ReleaseUnfollowed, Admit, ReleaseOverCap, Attach, AttachFails, AwaitReady,
       TakeEvent, EventWaitEnds, ReadyTimeout, CloseLauncherGate, ResumeReady, ChildNotReady,
       ResumeLost, Idle
  <2> QED BY <2>1 DEF Reported
<1> QED BY <1>1, <1>2, <1>3, <1>4, <1>5 DEF EarlyStep

\* Nobody is suspended of whom nothing was known.
LEMMA SuspendedOnce ==
    ASSUME Shape, General, EarlyStep, NEW c, Suspends(c)
    PROVE  /\ os[c.pid].state = "unused" \/ (os[c.pid].state = "running" /\ Attached(c.pid))
           /\ ChildAdded(c) \in ToSet(wire') /\ c \in Child
           /\ ~Live(c) => pc = "await_root"
<1>1. c \in Child /\ c.pid \in Pids
  BY DEF Suspends, Child
<1>2. os[c.pid].state = "unused" \/ (os[c.pid].state = "running" /\ Attached(c.pid))
  <2>1. Forked(c) => os[c.pid].state = "unused"
    BY <1>1, StartsAnew DEF Forked, EarlyStep, Early
  <2> QED BY <2>1 DEF Suspends, Launched, Execed, Gates
<1>3. ChildAdded(c) \in ToSet(wire')
  <2>1. PICK w : Silent(w) /\ wire' = Append(w, ChildAdded(c))
    BY DEF Suspends
  <2>2. w \in Seq(Message)
    BY <2>1, SilentTickets DEF Shape
  <2> QED BY <1>1, <2>1, <2>2, MessageTypes, AppendSet
<1>4. ~Live(c) => pc = "await_root"
  <2>1. ~Live(c) => os[Target].state = "unused"
    BY DEF Suspends, Launched, Forked, Execed, Live
  <2> QED BY <2>1 DEF General, Born, WayOK, EarlyStep, Early
<1> QED BY <1>1, <1>2, <1>3, <1>4

LEMMA PendingPlaced ==
    ASSUME Shape, BeforeRoot, General, Tick, PlaceOK, Step, Moves, EarlyStep, NEW c \in pending'
    PROVE  Placed(c)'
<1>1. CASE c \in pending
  <2>1. Placed(c) /\ c.pid \in Pids /\ (c \in pending' => c.pid \in HeldPids')
    BY <1>1 DEF PlaceOK, EarlyStep, Shape, HeldOK, Child, HeldPids
  <2>2. CASE InHand(c.pid)
    BY <2>1, <2>2, HandKept DEF Placed
  <2>3. CASE ~InHand(c.pid)
    <3>1. Reported(c) /\ (Live(c) \/ pc = "await_root")
      BY <2>1, <2>3 DEF Placed
    <3>2. Reported(c)' \/ InHand(c.pid)'
      BY <1>1, <3>1, ReportKept
    <3>3. ~Live(c) /\ pc' # "await_root" => InHand(c.pid)'
      <4> SUFFICES ASSUME ~Live(c), pc' # "await_root" PROVE InHand(c.pid)'
        OBVIOUS
      <4>1. pc = "await_root" /\ c.pid = Target
        BY <3>1 DEF Live
      <4>2. pc' = "instrument"
        BY <4>1, Course DEF EarlyStep, Early, Doing, Aside, Shape
      <4>3. cur'.pid = Target
        <5>1. AdmitRootChild
          BY <4>1, <4>2, Course DEF EarlyStep, Doing, Aside, Shape, Admit, MayAdmitChild
        <5>2. cur' = Head(children) /\ Head(children) \in ToSet(children)
          BY <5>1, TailSet DEF AdmitRootChild, Shape, QueuesOK
        <5> QED BY <4>1, <5>2 DEF BeforeRoot
      <4> QED BY <4>1, <4>2, <4>3 DEF InHand, Instrumenting
    <3> QED BY <3>2, <3>3 DEF Placed, Live
  <2> QED BY <2>2, <2>3
<1>2. CASE c \notin pending
  <2>1. WorldStep /\ NewChild(c)
    BY <1>2, PendingStep DEF Step, Moves
  <2>2. \E d : Suspends(d) /\ pending' = pending \cup {d}
    BY <1>2, <2>1, Newcomers DEF Suspends
  <2>3. Suspends(c)
    BY <1>2, <2>2
  <2>4. WorldActs
    <3>1. CASE UNCHANGED <<os, pending, blind>>
      BY <1>2, <3>1
    <3>2. CASE ResumeHeld({cur.pid})
      BY <1>2, <3>2 DEF ResumeHeld
    <3> QED BY <3>1, <3>2, EarlyResumes
  <2> QED BY <2>3, <2>4, SuspendedOnce DEF Placed, Reported, Live, WorldActs
<1> QED BY <1>1, <1>2

LEMMA LooseKept ==
    ASSUME Shape, General, Tick, Step, Moves, EarlyStep, General', NEW p \in Pids, Loose(p),
           pc # "await_root"
    PROVE  Loose(p)'
<1>0. \A c \in ToSet(children) : c \in Child
  BY DEF Shape, QueuesOK, ToSet
<1>1. os'[p].state \in {"running", "dead"}
  <2>1. os'[p].state # "unused" /\ os' \in [Pids -> Proc]
    BY DEF Loose, Step, ProcessesKept, ProcessesOK, Ages
  <2>2. os'[p].state # "gated"
    <3> SUFFICES ASSUME os'[p].state = "gated" PROVE FALSE
      OBVIOUS
    <3>1. PICK c \in pending' : c.pid = p
      BY DEF General, AllListed, HeldPids
    <3>2. c \notin pending
      BY <3>1 DEF Loose, Shape, HeldOK
    <3>3. Suspends(c)
      <4>1. WorldStep
        BY <3>2, PendingStep DEF Step, Moves
      <4> QED BY <3>2, <4>1, Newcomers DEF Suspends
    <3> QED BY <3>1, <3>3, SuspendedOnce DEF Loose
  <2> QED BY <2>1, <2>2 DEF Proc
<1>2. ~Attached(p)'
  <2>1. ~(Attach /\ p = cur.pid)
    BY DEF Attach, Loose, InHand, Instrumenting
  <2> QED BY <2>1, SessionAfter DEF Loose, Attached, NoSession
<1>3. ~InHand(p)'
  <2>1. TakeChild => Head(children) \in ToSet(children)
    BY TailSet DEF TakeChild, Shape, QueuesOK
  <2>2. ~AdmitRootChild
    BY DEF AdmitRootChild
  <2> QED BY <1>0, <2>1, <2>2, InHandBefore DEF Loose, Queued, Tickets, General
<1>4. ~Waits(p)'
  <2> SUFFICES ASSUME Waits(p)' PROVE FALSE
    OBVIOUS
  <2>1. PICK m \in ToSet(wire') : m \in Signals(p)
    BY DEF Waits, Signals, Tickets
  <2>2. m.type = "child-added" /\ m.child \in Tickets(p) /\ m.child \in Coming'
    BY <2>1, TicketSignals DEF Coming
  <2>3. m.child \in Coming => Waits(p)
    <3>1. \A x \in ToSet(wire) : x \in Message
      BY DEF Shape, QueuesOK, ToSet
    <3> QED BY <2>2, <3>1, TicketSignals DEF Coming, Waits
  <2>4. m.child \notin pending
    BY <2>2 DEF Loose, Shape, HeldOK, Tickets
  <2>5. Suspends(m.child)
    BY <2>2, <2>3, <2>4, NewComing DEF Step, Loose
  <2> QED BY <2>2, <2>5, SuspendedOnce DEF Loose, Tickets
<1>5. ~Queued(p)'
  <2> SUFFICES ASSUME Queued(p)' PROVE FALSE
    OBVIOUS
  <2>1. PICK c \in ToSet(children') : c \in Tickets(p)
    BY DEF Queued, Tickets, Live
  <2>2. c \in ToSet(children) \cup pending \cup Coming
    BY <2>1, ChildrenStep DEF Moves
  <2>3. c \notin pending
    BY <2>1 DEF Loose, Shape, HeldOK, Tickets
  <2>4. c \in Coming => Waits(p)
    <3>1. \A x \in ToSet(wire) : x \in Message
      BY DEF Shape, QueuesOK, ToSet
    <3> QED BY <2>1, <3>1, TicketSignals DEF Coming, Waits
  <2> QED BY <2>1, <2>2, <2>3, <2>4 DEF Loose, Queued
<1> QED BY <1>1, <1>2, <1>3, <1>4, <1>5 DEF Loose

\* A child released at a cap runs alone from then on.
LEMMA CappedLoose ==
    ASSUME Shape, General, Tick, Step, EarlyStep, ReleaseOverCap, NEW p \in Pids, p = cur.pid
    PROVE  Loose(p)' /\ pc' = "service"
<1>0. cur' = cur /\ pc = "handle" /\ InHand(p) /\ pc' = "service"
  BY VerdictLive DEF ReleaseOverCap, MayAdmitChild, General
<1>1. TicketOK(p) /\ os[p].state # "unused"
  BY <1>0, Existing DEF Tick, EarlyStep, General
<1>2. os'[p].state \in {"running", "dead"}
  <2>1. ResumeHeld({p}) /\ os \in [Pids -> Proc]
    BY DEF ReleaseOverCap, Shape, ProcessesOK
  <2>2. os[p].state = "gated" => p \in HeldPids
    BY <1>0 DEF General, AllListed
  <2>3. os'[p] = IF p \in HeldPids THEN [os[p] EXCEPT !.state = "running"] ELSE os[p]
    BY <1>0, <2>1 DEF ResumeHeld
  <2>4. p \in HeldPids => os'[p].state = "running"
    BY <1>0, <2>1, <2>3 DEF Proc
  <2>5. os[p].state \in {"unused", "gated", "running", "dead"}
    BY <1>0, <2>1 DEF Proc
  <2> QED BY <1>1, <2>2, <2>3, <2>4, <2>5
<1>3. session'[p] = NoSession
  <2>1. DetachStreams(IF Replaces THEN {Current(tree, p)} ELSE {})
    BY DEF ReleaseOverCap, RetirePrevious
  <2>2. p \in Known(tree) => Replaces
    <3>1. p \in Known(tree) /\ ~Replaces => Verdict = "DuplicateProcessImage"
      BY DEF Replaces, Verdict, Retired, ChildVerdict, KnownVerdict
    <3> QED BY <3>1 DEF ReleaseOverCap
  <2>3. Attached(p) => p \in Known(tree) /\ session[p].inst = Current(tree, p)
    BY <1>0 DEF General, SessionsCurrent
  <2> QED BY <1>0, <2>1, <2>2, <2>3 DEF DetachStreams, Attached
<1>4. ~Waits(p)' /\ ~Queued(p)'
  <2>1. wire' = wire /\ children' = children
    BY DEF ReleaseOverCap, queues
  <2> QED BY <1>0, <1>1, <2>1 DEF TicketOK, Waits, Queued
<1>5. ~InHand(p)'
  BY <1>0 DEF InHand, Instrumenting
<1> QED BY <1>0, <1>2, <1>3, <1>4, <1>5 DEF Loose, Attached, NoSession

LEMMA NothingOverflows ==
    ASSUME Shape, ReconcileRoot, EarlyStep
    PROVE  released' = released
<1>1. PICK missed \in SetToSeqs({c \in pending : ~Seen(c)}) :
      LET room == setting.queue - Len(children)
          n    == IF room < Len(missed) THEN room ELSE Len(missed)
          over == ToSet(SubSeq(missed, n + 1, Len(missed)))
          pids == {c.pid : c \in over}
      IN  /\ released' = released \cup over
          /\ errors' = errors \cup {<<"child_queue", p>> : p \in pids}
  BY DEF ReconcileRoot, Reconcile
<1> DEFINE room == setting.queue - Len(children)
           n    == IF room < Len(missed) THEN room ELSE Len(missed)
           over == ToSet(SubSeq(missed, n + 1, Len(missed)))
           pids == {c.pid : c \in over}
<1>2. released' = released \cup over /\ errors' = errors \cup {<<"child_queue", p>> : p \in pids}
  BY <1>1
<1> HIDE DEF over, n, room
<1>3. errors' = {}
  BY DEF EarlyStep, Early, Failed
<1> QED BY <1>2, <1>3

LEMMA ReleasedLoose ==
    ASSUME Shape, General, Tick, PlaceOK, Step, Moves, EarlyStep, General',
           NEW c \in released' \cap Child, c # emergency'
    PROVE  pc' # "await_root" /\ (Live(c) => Loose(c.pid)')
<1>0. c.pid \in Pids
  BY DEF Child
<1>1. c # NoChild
  BY PidsAssumption DEF Child, NoChild
<1>2. CASE c \in released
  <2>1. c # emergency
    <3>1. emergency' = emergency \/ emergency = NoChild
      BY DEF EarlyStep, Opening, Dispatch, WorldActs, vars, ReconcileRoot, AdmitRootChild, ServiceEvents, ServiceDetached,
       ServiceReturns, TakeChild, ReleaseUnfollowed, Admit, ReleaseOverCap, Attach,
       AttachFails, AwaitReady, TakeEvent, EventWaitEnds, ReadyTimeout, CloseLauncherGate,
       ResumeReady, ChildNotReady, ResumeLost, Idle
    <3> QED BY <1>1, <3>1
  <2>2. pc # "await_root" /\ (Live(c) => Loose(c.pid))
    BY <1>2, <2>1 DEF PlaceOK, EarlyStep
  <2>3. pc' # "await_root"
    BY <2>2 DEF Step, Flow
  <2> QED BY <1>0, <2>2, <2>3, LooseKept
<1>3. CASE c \notin released
  <2>1. (ReleaseUnfollowed \/ ReleaseOverCap) /\ c = cur
    <3>1. ~Dispatch
      BY <1>3 DEF Dispatch, OnChildAdded
    <3>2. ~ReconcileRoot
      BY <1>3, NothingOverflows
    <3>3. ~((ReleaseUnfollowed \/ ReleaseOverCap) /\ c # cur)
      BY <1>3 DEF ReleaseUnfollowed, ReleaseOverCap
    <3> QED BY <1>3, <3>1, <3>2, <3>3 DEF EarlyStep, Opening, WorldActs, vars, marks, AdmitRootChild, ServiceEvents, ServiceDetached,
       ServiceReturns, TakeChild, Admit, Attach,
       AttachFails, AwaitReady, TakeEvent, EventWaitEnds, ReadyTimeout, CloseLauncherGate,
       ResumeReady, ChildNotReady, ResumeLost, Idle
  <2>2. CASE ReleaseUnfollowed
    <3>1. pc' = "service" /\ ~Live(c)
      BY <2>1, <2>2 DEF ReleaseUnfollowed, General, UnfollowedOK
    <3> QED BY <3>1
  <2>3. CASE ReleaseOverCap
    BY <1>0, <2>1, <2>3, CappedLoose
  <2> QED BY <2>1, <2>2, <2>3
<1> QED BY <1>2, <1>3

LEMMA PlaceStep ==
    ASSUME Shape, BeforeRoot, General, Tick, PlaceOK, Step, Moves, Doing, General'
    PROVE  PlaceOK'
<1>1. CASE Early'
  <2>1. EarlyStep
    BY <1>1, EarlyBefore DEF General
  <2> QED BY <2>1, PendingPlaced, ReleasedLoose DEF PlaceOK, Live
<1>2. CASE ~Early'
  BY <1>2 DEF PlaceOK
<1> QED BY <1>1, <1>2

LEMMA TickInit == Init => Tick /\ PlaceOK
<1> SUFFICES ASSUME Init PROVE Tick /\ PlaceOK
  OBVIOUS
<1>1. /\ ToSet(wire) = {} /\ ToSet(children) = {} /\ Coming = {} /\ pending = {} /\ released = {}
  BY SmallSets DEF Init, WorldInit, Coming
<1>2. pc = "await_root" /\ gating = {Launcher, NoInst} /\ \A p \in Pids : os[p].state = "unused"
  BY DEF Init, WorldInit
<1>3. \A p : Once(wire, Signals(p)) /\ Once(children, Tickets(p))
  BY <1>1, OnceNone
<1> QED BY <1>1, <1>2, <1>3 DEF Tick, PlaceOK, TicketOK, HeldProc, GatesOn, Inactive, Waits, Queued, InHand,
    Instrumenting

\* What the invariants amount to where the controller waits.
LEMMA NobodyForgotten ==
    ASSUME Shape, General, PlaceOK, setting.lives <= 1
    PROVE  GatedIsHandled
<1> SUFFICES ASSUME pc = "idle", wire = << >>, queues = <<<< >>, << >>, << >>>>, ~Failed,
                    emergency = NoChild, NEW c \in pending
             PROVE  FALSE
  BY DEF GatedIsHandled
<1>1. Early
  BY DEF Early, Closing, General, WayOK
<1>2. Placed(c) /\ c \in Child
  BY <1>1 DEF PlaceOK, Shape, HeldOK
<1>3. ~Reported(c)
  BY <1>2, SmallSets, PidsAssumption DEF Reported, queues, Child, NoChild
<1>4. ~InHand(c.pid)
  BY DEF InHand, Instrumenting
<1> QED BY <1>2, <1>3, <1>4 DEF Placed

-----------------------------------------------------------------------------
(* The invariants together. *)
Handled == Shape /\ Outcome /\ General /\ Tick /\ PlaceOK

LEMMA HandledStep ==
    ASSUME Handled, [Next]_vars
    PROVE  Handled' /\ Step /\ Moves /\ Doing
<1>1. Step /\ Moves
  BY ShapeStep, Frames DEF Handled, Moves
<1>2. Doing
  BY EveryStep
<1>3. Shape' /\ Outcome'
  BY <1>1, OutcomeStep DEF Handled, Step
<1>4. Shape /\ BeforeRoot /\ General /\ Tick /\ PlaceOK
  BY DEF Handled, Outcome
<1>5. General'
  BY <1>1, <1>2, <1>4, GeneralStep
<1>6. Tick'
  BY <1>1, <1>2, <1>4, TickStep
<1>7. PlaceOK'
  BY <1>1, <1>2, <1>4, <1>5, PlaceStep
<1> QED BY <1>1, <1>2, <1>3, <1>5, <1>6, <1>7 DEF Handled

LEMMA HandledHolds == Spec => []Handled
<1>1. Init => Handled
  BY ShapeInit, OutcomeInit, GeneralInit, TickInit DEF Handled
<1>2. Handled /\ [Next]_vars => Handled'
  BY HandledStep
<1> QED BY <1>1, <1>2, PTL DEF Spec

(* With the controller waiting, every signal served and no failure, no child  *)
(* is left suspended (GatedIsHandled), unless a PID is used again: every      *)
(* child the device holds is on its way to _handle_runtime_child, which       *)
(* resumes it on each of its paths.                                          *)
THEOREM NobodyIsForgotten == Spec => [](setting.lives <= 1 => GatedIsHandled)
<1>1. Handled => (setting.lives <= 1 => GatedIsHandled)
  BY NobodyForgotten DEF Handled
<1> QED BY <1>1, HandledHolds, PTL

-----------------------------------------------------------------------------
(* Coverage.  The end of a lost session is on the wire or among the notices until it is    *)
(* served, and serving it fails the run: nothing that would replace the stream and make    *)
(* the end be dropped can be under way.                                                    *)
Noticed == \E n \in ToSet(notices) : n.reason = "lost"
\* No image of r is on its way that would take the place of its stream.
Orphaned(r) ==
    /\ ~Attached(r) /\ ~Waits(r) /\ ~Queued(r)
    /\ ~(cur.pid = r /\ (pc = "instrument" \/ (pc = "handle" /\ Live(cur))))
    /\ os[r].state = "gated" => cur.pid = r /\ pc \in Waiting
Lost(m) == m.type = "detached" /\ m.reason = "lost" /\ m.inst \in streams /\ Orphaned(m.inst[1])
LostComing  == \E m \in ToSet(wire) : Lost(m)
LostPending == Noticed \/ LostComing
\* Not too late for the run to serve it.
Unserved ==
    /\ LostPending
    /\ pc \notin {"release", "close_streams"} \cup Over
    /\ after = "release" => pc \in {"service", "service_notices"} /\ Noticed
\* The run does not claim to have followed everything to its end.
Disclaimed == Failed \/ after = "interrupted" \/ ~tree.complete

LEMMA CompleteStep ==
    ASSUME Shape, Moves, tree'.complete
    PROVE  tree.complete
<1> USE DEF Shape
<1>1. CASE UNCHANGED tree
  BY <1>1
<1>2. CASE AdmitRootChild
  BY <1>2 DEF AdmitRootChild, ControlOK, EmptyTree
<1>3. CASE ServiceEvents
  BY <1>3, EventsMark DEF ServiceEvents, Marked
<1>4. CASE ServiceDetached
  BY <1>4, NoticesMark DEF ServiceDetached, Marked
<1>5. CASE Admit \/ ReleaseOverCap \/ ReleaseInvalid
  <2>1. cur.pid \in Pids /\ RetirePrevious
    BY <1>5 DEF Admit, ReleaseOverCap, ReleaseInvalid, MayAdmitChild, ControlOK, Child
  <2>2. Verdict \in {"admitted", "ProcessTreeLimitExceeded", "UnknownProcessParent", "DuplicateProcessImage"}
    BY <1>5 DEF Admit, ReleaseOverCap, ReleaseInvalid
  <2> QED BY <2>1, <2>2, ChildAdmitted
<1>6. CASE AwaitReady
  BY <1>6, NoticesMark DEF AwaitReady, Marked
<1>7. CASE TakeEvent
  <2> DEFINE e == Head(events)
  <2>1. tree' = IF e.type = "FAILED" THEN MarkStatus(tree, e.inst, "FAILED")
                ELSE IF e.inst = CurInst THEN MarkInstrumented(tree, CurInst) ELSE tree
    BY <1>7 DEF TakeEvent
  <2>2. \A i, s : MarkStatus(tree, i, s).complete = tree.complete
    BY DEF MarkStatus, TreeOK, TreeType
  <2>3. \A i : MarkInstrumented(tree, i).complete = tree.complete
    BY DEF MarkInstrumented, TreeOK, TreeType
  <2> QED BY <2>1, <2>2, <2>3
<1>8. CASE ChildNotReady
  <2>1. CurInst \in KnownImgs(tree)
    BY <1>8, CurrentKnown DEF ChildNotReady, ControlOK, Instrumenting, CurInst
  <2> QED BY <1>8, <2>1, MarksKeep DEF ChildNotReady
<1>9. CASE Complete \/ Release
  BY <1>9, SurvivorsMark DEF Complete, Release, Marked
<1>10. CASE Finish
  <2>1. Marked(tree, AfterEvents(tree)) /\ Marked(AfterEvents(tree), AfterNotices(AfterEvents(tree)))
    <3>1. Marked(tree, AfterEvents(tree))
      BY EventsMark
    <3> QED BY <3>1, NoticesMark DEF Marked
  <2> QED BY <1>10, <2>1 DEF Finish, Marked
<1> QED BY <1>1, <1>2, <1>3, <1>4, <1>5, <1>6, <1>7, <1>8, <1>9, <1>10 DEF Moves, TreeMoves

LEMMA DisclaimedStep ==
    ASSUME Shape, Step, Moves, Doing, Disclaimed
    PROVE  Disclaimed'
<1>1. Failed => Failed'
  BY DEF Failed, Step, Flow
<1>2. after = "interrupted" => after' = "interrupted"
  BY Course DEF Shape
<1> QED BY <1>1, <1>2, CompleteStep DEF Disclaimed

\* A report on the wire or in the queue comes from a suspension, or from the one before.
LEMMA NewWaits ==
    ASSUME Shape, Moves, NEW p, Waits(p)'
    PROVE  Waits(p) \/ (WorldStep /\ \E c \in Tickets(p) : Suspends(c))
<1>1. PICK m \in ToSet(wire') : m \in Signals(p)
  BY DEF Waits, Signals, Tickets
<1>2. CASE m \in ToSet(wire)
  BY <1>1, <1>2 DEF Waits
<1>3. CASE m \notin ToSet(wire)
  <2>1. WorldStep
    <3>1. CASE Dispatch
      BY <1>1, <1>3, <3>1, TailSet DEF Dispatch, Shape, QueuesOK
    <3> QED BY <1>1, <1>3, <3>1 DEF Moves, WireMoves
  <2>2. CASE Silent(wire')
    BY <1>1, <2>2, SilentTickets DEF Shape
  <2>3. CASE ~Silent(wire')
    <3>1. PICK c : Suspends(c)
      BY <2>1, <2>3, Newcomers
    <3>2. PICK w : Silent(w) /\ wire' = Append(w, ChildAdded(c))
      BY <3>1 DEF Suspends
    <3>3. w \in Seq(Message) /\ ((\E x \in ToSet(w) : x \in Signals(p)) <=> Waits(p))
      BY <3>2, SilentTickets DEF Shape
    <3>4. ChildAdded(c) \in Message /\ c \in Child
      BY <3>1, MessageTypes DEF Suspends
    <3>5. ToSet(wire') = ToSet(w) \cup {ChildAdded(c)}
      BY <3>2, <3>3, <3>4, AppendSet
    <3>6. Waits(p) \/ m = ChildAdded(c)
      BY <1>1, <3>3, <3>5
    <3>7. m = ChildAdded(c) => c \in Tickets(p)
      BY <1>1, <3>4, TicketSignals
    <3> QED BY <2>1, <3>1, <3>6, <3>7
  <2> QED BY <2>2, <2>3
<1> QED BY <1>2, <1>3

LEMMA NewQueued ==
    ASSUME Shape, Moves, NEW p, Queued(p)'
    PROVE  \/ Queued(p) \/ Waits(p)
           \/ pc \in {"await_root", "drain"} /\ \E c \in pending : c.pid = p
<1>1. PICK c \in ToSet(children') : c \in Tickets(p)
  BY DEF Queued, Tickets, Live
<1>2. CASE c \in ToSet(children)
  BY <1>1, <1>2 DEF Queued
<1>3. CASE c \notin ToSet(children)
  <2>1. CASE ReconcileRoot \/ Drain
    <3>1. pc \in {"await_root", "drain"} /\ (Reconcile \/ children' = children)
      BY <2>1 DEF ReconcileRoot, Drain
    <3>2. Reconcile
      BY <1>1, <1>3, <3>1
    <3>3. c \in pending
      BY <1>1, <1>3, <3>2, Reconciled DEF Shape
    <3> QED BY <1>1, <3>1, <3>3 DEF Tickets
  <2>2. CASE Dispatch
    <3>1. /\ Head(wire) \in Message /\ Head(wire) \in ToSet(wire)
          /\ Head(wire).type = "child-added" /\ OnChildAdded(Head(wire).child)
      BY <1>1, <1>3, <2>2, DispatchedSignal DEF Dispatch, Shape
    <3>2. Head(wire).child \in Child /\ children \in Seq(Child)
      BY <3>1, MessageFields DEF Shape, QueuesOK
    <3>3. children' = children \/ children' = Append(children, Head(wire).child)
      BY <3>1 DEF OnChildAdded
    <3>4. ToSet(Append(children, Head(wire).child)) = ToSet(children) \cup {Head(wire).child}
      BY <3>2, AppendSet
    <3>5. c = Head(wire).child
      BY <1>1, <1>3, <3>3, <3>4
    <3> QED BY <1>1, <3>1, <3>5, TicketSignals DEF Waits
  <2>3. CASE AdmitRootChild \/ TakeChild
    BY <1>1, <1>3, <2>3, TailSet DEF AdmitRootChild, TakeChild, Shape, QueuesOK
  <2>4. CASE ReleaseUnhandled \/ Collect
    BY <1>1, <2>4, SmallSets DEF ReleaseUnhandled, Collect
  <2> QED BY <1>1, <1>3, <2>1, <2>2, <2>3, <2>4 DEF Moves, ChildMoves
<1> QED BY <1>2, <1>3

\* A process that was seen before is suspended again only by the gate of its own session.
LEMMA NotSuspended ==
    ASSUME Shape, Born, setting.lives <= 1, NEW r \in Known(tree), r \in Pids, ~Attached(r),
           NEW c, Suspends(c), c.pid = r
    PROVE  FALSE
<1>1. os[r].state # "unused"
  BY DEF Born
<1>2. ~Launched(c)
  BY <1>1 DEF Launched
<1>3. ~Forked(c)
  BY <1>1, StartsAnew DEF Forked
<1>4. ~Execed(c)
  BY DEF Execed, Gates
<1> QED BY <1>2, <1>3, <1>4 DEF Suspends

\* While a child waits for its agent the main thread keeps it at hand, or the run fails.
LEMMA WaitingKept ==
    ASSUME Shape, AllListed, Doing, Disclaimed => Disclaimed', ~Disclaimed', pc \in Waiting,
           tree'.complete => ~ChildNotReady,
           os[cur.pid].state = "gated", NEW r, r = cur.pid, os'[r].state = "gated"
    PROVE  cur'.pid = r /\ pc' \in Waiting
<1>1. ~Failed' /\ after' # "interrupted" /\ tree'.complete /\ ~Failed
  BY DEF Disclaimed
<1>2. cur.pid \in Pids
  BY DEF Shape, ControlOK, Child, Waiting, Instrumenting
<1>3. CASE ResumeReady
  <2>1. cur.pid \in HeldPids
    BY <1>2 DEF AllListed
  <2>2. os \in [Pids -> Proc]
    BY DEF Shape, ProcessesOK
  <2>3. os' = [p \in Pids |-> IF p \in {r} \cap HeldPids THEN [os[p] EXCEPT !.state = "running"] ELSE os[p]]
    BY <1>3 DEF ResumeReady, ResumeHeld
  <2>4. os'[r].state = "running"
    BY <1>2, <2>1, <2>2, <2>3 DEF Proc
  <2> QED BY <2>4
<1>4. CASE Aside
  BY <1>4, AsideStays DEF Stays
<1>5. CASE Failing
  BY <1>1, <1>5, FailingFails
<1>6. CASE AwaitReady \/ TakeEvent \/ EventWaitEnds \/ ReadyTimeout \/ CloseLauncherGate
  BY <1>6 DEF AwaitReady, TakeEvent, EventWaitEnds, ReadyTimeout, CloseLauncherGate, Waiting
<1>7. CASE Ending
  BY <1>7 DEF Ending, LaunchFailed, Complete, Drain, Drained, DrainDeadline, Release, CloseStreams,
     ReleaseUnhandled, CloseGates, Collect, Kill, Finish, Detach, Waiting, Shutdown
<1>8. CASE Opening
  BY <1>1, <1>3, <1>6, <1>8 DEF Opening, ReconcileRoot, AdmitRootChild, ServiceEvents, ServiceDetached,
     ServiceReturns, TakeChild, ReleaseUnfollowed, Admit, ReleaseOverCap, MayAdmitChild, Attach,
     AttachFails, ResumeLost, Idle, Waiting
<1> QED BY <1>4, <1>5, <1>7, <1>8 DEF Doing

LEMMA LossDisclaimed ==
    ASSUME Shape, ChildNotReady
    PROVE  ~tree'.complete
<1>1. CurInst \in KnownImgs(tree)
  BY CurrentKnown DEF ChildNotReady, Shape, ControlOK, Instrumenting, CurInst
<1> QED BY <1>1, MarksKeep DEF ChildNotReady, Shape

LEMMA OrphanedKept ==
    ASSUME Shape, General, Step, Moves, Doing, General', setting.lives <= 1, ~Disclaimed',
           NEW r \in Known(tree), Orphaned(r)
    PROVE  Orphaned(r)'
<1>0. r \in Pids /\ ~Disclaimed /\ tree # EmptyTree
  <2>1. r \in Pids
    BY CurrentKnown DEF Shape
  <2>2. Known(EmptyTree) = {}
    BY DEF Known, EmptyTree
  <2> QED BY <2>1, <2>2, DisclaimedStep
<1>1. \A c : Suspends(c) => c.pid # r
  BY <1>0, NotSuspended DEF Orphaned, General
<1>2. ~Attached(r)'
  <2>1. ~(Attach /\ r = cur.pid)
    BY DEF Attach, Orphaned
  <2> QED BY <1>0, <2>1, SessionAfter DEF Orphaned, Attached, NoSession
<1>3. ~Waits(r)'
  BY <1>1, NewWaits DEF Orphaned, Tickets
<1>4. ~Queued(r)'
  <2>1. ~(pc \in {"await_root", "drain"} /\ \E c \in pending : c.pid = r)
    BY DEF Orphaned, Waiting, Shape, HeldOK
  <2> QED BY <2>1, NewQueued DEF Orphaned
<1>5. ~(cur'.pid = r /\ pc' = "instrument")
  <2> SUFFICES ASSUME cur'.pid = r, pc' = "instrument" PROVE FALSE
    OBVIOUS
  <2>1. CASE Aside /\ pc = "instrument"
    BY <2>1, AsideStays DEF Stays, Orphaned
  <2>2. CASE AdmitRootChild
    BY <1>0, <2>2 DEF AdmitRootChild, Shape, ControlOK
  <2>3. CASE Admit
    BY <2>3, VerdictLive DEF Admit, Orphaned, General
  <2> QED BY <2>1, <2>2, <2>3, Course DEF Shape
<1>6. ~(cur'.pid = r /\ pc' = "handle" /\ Live(cur)')
  <2> SUFFICES ASSUME cur'.pid = r, pc' = "handle", Live(cur)' PROVE FALSE
    OBVIOUS
  <2>1. CASE pc = "handle" /\ Stays
    BY <2>1 DEF Stays, Orphaned, Live
  <2>2. CASE TakeChild
    <3>1. Head(children) \in ToSet(children) /\ cur' = Head(children)
      BY <2>2, TailSet DEF TakeChild, Shape, QueuesOK
    <3>2. Head(children) \in Child
      BY <3>1 DEF Shape, QueuesOK, ToSet
    <3> QED BY <3>1, <3>2 DEF Orphaned, Queued, Tickets, Live
  <2> QED BY <2>1, <2>2 DEF Step, Flow
<1>7. os'[r].state = "gated" => cur'.pid = r /\ pc' \in Waiting
  <2> SUFFICES ASSUME os'[r].state = "gated" PROVE cur'.pid = r /\ pc' \in Waiting
    OBVIOUS
  <2>1. CASE os[r].state = "gated"
    <3>1. cur.pid = r /\ pc \in Waiting
      BY <2>1 DEF Orphaned
    <3>2. Disclaimed => Disclaimed'
      BY <1>0
    <3>3. tree'.complete => ~ChildNotReady
      BY LossDisclaimed
    <3> QED BY <2>1, <3>1, <3>2, <3>3, WaitingKept DEF General
  <2>2. CASE os[r].state # "gated"
    <3>1. PICK c \in pending' : c.pid = r
      BY <1>0 DEF General, AllListed, HeldPids
    <3>2. c \notin pending
      BY <2>2, <3>1 DEF Shape, HeldOK
    <3>3. Suspends(c)
      <4>1. WorldStep
        BY <3>1, <3>2, PendingStep DEF Step, Moves
      <4>2. ~(Silent(wire') /\ pending' \subseteq pending)
        BY <3>1, <3>2
      <4> QED BY <3>1, <3>2, <4>1, <4>2, Newcomers DEF Suspends
    <3> QED BY <1>1, <3>1, <3>3
  <2> QED BY <2>1, <2>2
<1> QED BY <1>2, <1>3, <1>4, <1>5, <1>6, <1>7 DEF Orphaned, Live

\* Serving the end of a lost session fails the run.
LEMMA NoticedKept ==
    ASSUME Shape, Moves, Step, ~Failed', Noticed, pc \notin Over
    PROVE  Noticed'
<1>0. ~Failed /\ NoticeErrors # {}
  <2>1. PICK n \in ToSet(notices) : n.reason = "lost"
    BY DEF Noticed
  <2>2. <<"detach", n.inst[1]>> \in NoticeErrors
    BY <2>1 DEF NoticeErrors, Gone
  <2> QED BY <2>2 DEF Failed, Step, Flow
<1>1. CASE UNCHANGED notices
  BY <1>1 DEF Noticed
<1>2. CASE ServiceDetached
  <2>1. NoticeErrors \subseteq errors'
    BY <1>2 DEF ServiceDetached, CheckExecTimeouts
  <2> QED BY <1>0, <2>1 DEF Failed
<1>3. CASE AwaitReady
  <2>1. NoticeErrors \subseteq errors'
    BY <1>0, <1>3 DEF AwaitReady
  <2> QED BY <1>0, <2>1 DEF Failed
<1>4. CASE Finish
  BY <1>4 DEF Finish, Over
<1>5. CASE Dispatch
  <2>1. Head(wire).type = "detached" => Head(wire) \in Notice
    BY <1>5, DispatchedSignal, MessageFields DEF Shape
  <2>2. notices' = notices \/ (Head(wire).type = "detached" /\ notices' = Append(notices, Head(wire)))
    BY <1>5 DEF Dispatch
  <2>3. ToSet(notices) \subseteq ToSet(notices')
    <3>1. notices \in Seq(Notice)
      BY DEF Shape, QueuesOK
    <3>2. \A n \in Notice : ToSet(Append(notices, n)) = ToSet(notices) \cup {n}
      BY <3>1, AppendSet
    <3> QED BY <2>1, <2>2, <3>2
  <2> QED BY <2>3 DEF Noticed
<1> QED BY <1>1, <1>2, <1>3, <1>4, <1>5 DEF Moves, NoticeMoves

\* A stream whose session was lost stays until the end of the session is noticed.
LEMMA LostStream ==
    ASSUME Shape, General, Moves, ~Failed', tree'.complete, NEW m \in ToSet(wire), Lost(m),
           pc \notin {"close_streams"} \cup Over
    PROVE  m.inst \in streams'
<1>0. m.inst \in streams /\ m \in About /\ m.type = "detached" /\ m.reason = "lost"
  BY DEF Lost, About
<1>1. m.inst \notin Gone("process-replaced")
  <2> SUFFICES ASSUME NEW n \in ToSet(notices), n.reason = "process-replaced", n.inst = m.inst
               PROVE  FALSE
    BY DEF Gone
  <2>1. n \in About /\ n.type = "detached"
    <3>1. notices \in Seq(Notice)
      BY DEF Shape, QueuesOK
    <3>2. n \in Notice
      BY <3>1 DEF ToSet
    <3> QED BY <3>2 DEF About, Notice
  <2> QED BY <1>0, <2>1 DEF General, AboutOK
<1>2. CASE UNCHANGED streams
  BY <1>0, <1>2
<1>3. CASE ServiceDetached \/ AwaitReady
  BY <1>0, <1>1, <1>3 DEF ServiceDetached, AwaitReady, ServiceNotices, DetachStreams
<1>4. CASE Admit \/ ReleaseOverCap
  <2>1. pc = "handle" /\ Live(cur)
    BY <1>4, VerdictLive DEF General
  <2>2. m.inst[1] # cur.pid
    BY <2>1 DEF Lost, Orphaned
  <2>3. m.inst # Current(tree, cur.pid)
    BY <2>2 DEF Current
  <2> QED BY <1>0, <1>4, <2>3 DEF Admit, ReleaseOverCap, RetirePrevious, DetachStreams
<1>5. CASE ReleaseInvalid \/ RootNotReady
  BY <1>5 DEF ReleaseInvalid, RootNotReady, Failed, Fail
<1>6. CASE Attach
  BY <1>0, <1>6 DEF Attach
<1>7. CASE ChildNotReady
  BY <1>7, LossDisclaimed
<1>8. CASE CloseStreams \/ Finish
  BY <1>8 DEF CloseStreams, Finish, Over
<1> QED BY <1>2, <1>3, <1>4, <1>5, <1>6, <1>7, <1>8 DEF Moves, StreamMoves

LEMMA LostKept ==
    ASSUME Shape, General, Step, Moves, Doing, General', setting.lives <= 1, ~Disclaimed',
           LostComing, pc \notin {"close_streams"} \cup Over
    PROVE  LostPending'
<1>1. PICK m \in ToSet(wire) : Lost(m)
  BY DEF LostComing
<1>2. m.inst[1] \in Known(tree) /\ Orphaned(m.inst[1])
  BY <1>1 DEF Lost, Shape, TablesOK
<1>3. m.inst \in streams'
  BY <1>1, LostStream DEF Disclaimed
<1>4. PICK r \in Known(tree) : r = m.inst[1]
  BY <1>2
<1>5. Orphaned(r)'
  BY <1>2, <1>4, OrphanedKept
<1>6. CASE m \in ToSet(wire')
  BY <1>1, <1>3, <1>4, <1>5, <1>6 DEF LostPending, LostComing, Lost
<1>7. CASE m \notin ToSet(wire')
  <2>1. Dispatch
    <3>1. CASE WorldStep
      BY <1>7, <3>1, WireGrows DEF Shape, QueuesOK, WorldSends
    <3> QED BY <1>7, <3>1 DEF Moves, WireMoves
  <2>2. wire \in Seq(Message) /\ wire # << >> /\ wire' = Tail(wire)
    BY <2>1 DEF Dispatch, Shape, QueuesOK
  <2>3. m = Head(wire)
    BY <1>7, <2>2, TailSet
  <2>4. notices \in Seq(Notice) /\ m \in Notice
    <3>1. m \in Message
      BY <2>2 DEF ToSet
    <3> QED BY <1>1, <3>1, MessageFields DEF Lost, Shape, QueuesOK
  <2>5. notices' = Append(notices, m)
    BY <1>1, <2>1, <2>3 DEF Dispatch, Lost
  <2>6. m \in ToSet(notices')
    BY <2>4, <2>5, AppendSet
  <2> QED BY <1>1, <2>6 DEF LostPending, Noticed, Lost
<1> QED BY <1>6, <1>7

\* No run ends well over a lost session.
LEMMA UnservedStep ==
    ASSUME Shape, PhaseOK, General, Step, Moves, Doing, General', setting.lives <= 1,
           ~Disclaimed', Unserved
    PROVE  Unserved'
<1>0. ~Failed' /\ after' # "interrupted" /\ ~Disclaimed /\ ~Failed /\ after # "interrupted"
  BY DisclaimedStep DEF Disclaimed
<1>1. LostPending'
  <2>1. Noticed => Noticed'
    BY <1>0, NoticedKept DEF Unserved
  <2> QED BY <2>1, LostKept DEF Unserved, LostPending
<1>2. wire = << >> => Noticed
  BY SmallSets DEF Unserved, LostPending, LostComing
<1>3. notices = << >> => ~Noticed
  BY SmallSets DEF Noticed
<1>4. pc' # "release"
  <2> SUFFICES ASSUME pc' = "release" PROVE FALSE
    OBVIOUS
  <2>1. pc = "drained" \/ after = "release"
    BY DEF Unserved, Step, Flow
  <2>2. CASE Aside
    BY <2>2, AsideStays DEF Stays, Unserved
  <2>3. CASE Failing
    BY <1>0, <2>3, FailingFails
  <2>4. CASE Opening
    BY <2>1, <2>4 DEF Opening, Unserved, ReconcileRoot, AdmitRootChild, ServiceEvents, ServiceDetached,
       ServiceReturns, TakeChild, ReleaseUnfollowed, Admit, ReleaseOverCap, MayAdmitChild, Attach,
       AttachFails, AwaitReady, TakeEvent, EventWaitEnds, ReadyTimeout, CloseLauncherGate, ResumeReady,
       ChildNotReady, ResumeLost, Idle
  <2>5. CASE Drained
    <3>1. ~Failed /\ queues = <<<< >>, << >>, << >>>> /\ wire = << >>
      BY <2>5 DEF Drained, Shutdown
    <3> QED BY <1>2, <1>3, <3>1 DEF queues
  <2>6. CASE Ending /\ ~Drained
    BY <2>6 DEF Ending, LaunchFailed, Complete, Drain, DrainDeadline, Release, CloseStreams,
       ReleaseUnhandled, CloseGates, Collect, Kill, Finish, Detach, Unserved
  <2> QED BY <2>2, <2>3, <2>4, <2>5, <2>6 DEF Doing
<1>5. pc' # "close_streams"
  BY DEF Step, Flow, Release, Unserved
<1>6. pc' \notin Over
  <2> SUFFICES ASSUME pc' \in Over PROVE FALSE
    OBVIOUS
  <2>1. Kill \/ LaunchFailed \/ CloseStreams
    BY EndBegins DEF Unserved
  <2>2. ~Kill
    BY <1>0 DEF Kill, General, WayOK
  <2>3. ~CloseStreams
    BY DEF CloseStreams, Unserved
  <2>4. LaunchFailed => tree = EmptyTree
    BY DEF LaunchFailed, Shape, ControlOK
  <2>5. Known(EmptyTree) = {} /\ KnownImgs(EmptyTree) = {}
    BY DEF Known, KnownImgs, EmptyTree
  <2>6. ~LaunchFailed
    BY <2>4, <2>5 DEF Unserved, LostPending, LostComing, Noticed, Lost, Shape, TablesOK
  <2> QED BY <2>1, <2>2, <2>3, <2>6
<1>7. after' = "release" => pc' \in {"service", "service_notices"} /\ Noticed'
  <2> SUFFICES ASSUME after' = "release" PROVE pc' \in {"service", "service_notices"} /\ Noticed'
    OBVIOUS
  <2>1. Noticed => Noticed'
    BY <1>0, NoticedKept DEF Unserved
  <2>2. (after = "release" /\ pc \in {"service", "service_notices"} /\ Noticed) \/ pc \in {"drain", "drained"}
    BY DEF Unserved, Step, Flow
  <2>3. CASE Aside
    BY <2>1, <2>2, <2>3, AsideStays DEF Stays, Unserved
  <2>4. CASE Failing
    BY <1>0, <2>4, FailingFails
  <2>5. CASE ServiceDetached
    <3>1. Noticed
      BY <2>2, <2>5 DEF ServiceDetached
    <3>2. Noticed' => FALSE
      BY <2>5, SmallSets DEF ServiceDetached, ServiceNotices, Noticed
    <3> QED BY <2>1, <3>1, <3>2
  <2>6. CASE Opening /\ ~ServiceDetached
    BY <2>1, <2>2, <2>6 DEF Opening, ReconcileRoot, AdmitRootChild, ServiceEvents,
       ServiceReturns, TakeChild, ReleaseUnfollowed, Admit, ReleaseOverCap, MayAdmitChild, Attach,
       AttachFails, AwaitReady, TakeEvent, EventWaitEnds, ReadyTimeout, CloseLauncherGate, ResumeReady,
       ChildNotReady, ResumeLost, Idle
  <2>7. CASE DrainDeadline
    BY <1>2, <2>1, <2>7 DEF DrainDeadline
  <2>8. CASE Ending /\ ~DrainDeadline
    BY <2>2, <2>8 DEF Ending, LaunchFailed, Complete, Drain, Drained, Release, CloseStreams,
       ReleaseUnhandled, CloseGates, Collect, Kill, Finish, Detach, Unserved, Shutdown
  <2> QED BY <2>3, <2>4, <2>5, <2>6, <2>7, <2>8 DEF Doing
<1> QED BY <1>1, <1>4, <1>5, <1>6, <1>7 DEF Unserved

-----------------------------------------------------------------------------
(* While nothing has gone wrong and the target is there, whoever runs is watched. *)
Watched ==
    /\ Early /\ setting.follow /\ "ungated exec" \notin setting.faults
    /\ ~TargetOver /\ tree.complete /\ ~LostPending
Watching(p) ==
    /\ os[p].state = "running" => Observed(p) /\ session[p].inst \in gating
    /\ InHand(p) /\ pc \in {"await_ready", "await_event", "ready"} /\ os[p].state = "gated"
          => /\ session[p].inst = CurInst /\ CurInst \in gating
             /\ pc = "ready" => Observed(p)
WatchOK == Watched => \A p \in Pids : Watching(p)

\* The target comes only once.
LEMMA TargetGone ==
    ASSUME Shape, Step, TargetOver
    PROVE  TargetOver'
  BY WorldAssumption DEF Step, ProcessesKept, Ages, TargetOver

LEMMA WatchedBefore ==
    ASSUME Shape, PhaseOK, General, Step, Moves, Doing, General', Watched'
    PROVE  Watched /\ EarlyStep
<1>0. setting' = setting /\ Early'
  BY DEF Step, Watched
<1>1. EarlyStep /\ Early
  BY <1>0, EarlyBefore DEF General, EarlyStep
<1>2. ~TargetOver /\ tree.complete
  BY TargetGone, CompleteStep DEF Watched
<1>3. ~Disclaimed'
  BY DEF Watched, Early, Disclaimed
<1>4. ~LostPending
  <2> SUFFICES ASSUME LostPending PROVE FALSE
    OBVIOUS
  <2>1. Unserved /\ setting.lives <= 1
    BY <1>1 DEF Unserved, Early, Over, Closing
  <2>2. LostPending'
    BY <1>3, <2>1, UnservedStep DEF Unserved
  <2> QED BY <2>2 DEF Watched
<1> QED BY <1>0, <1>1, <1>2, <1>4 DEF Watched

\* The application starts nobody ungated then.
LEMMA WatchedWorld ==
    ASSUME Shape, Tick, Watched, \A p \in Pids : Watching(p), WorldStep
    PROVE  blind' = blind /\ \A p \in Pids : os'[p].state = "running" => os[p].state = "running"
<1>0. os \in [Pids -> Proc] /\ Early /\ GatesOn /\ "ungated exec" \notin setting.faults
  BY DEF Shape, ProcessesOK, Watched, Tick
<1>1. \A p \in Pids : os[p].state = "running" => Gates(p)
  <2> SUFFICES ASSUME NEW p \in Pids, os[p].state = "running" PROVE Gates(p)
    OBVIOUS
  <2>1. Observed(p) /\ session[p].inst \in gating
    BY DEF Watching
  <2> QED BY <2>1 DEF Observed, Gates, Attached, NoSession
<1>2. ASSUME NEW q \in Pids, NEW parent, NEW origin, Start(q, parent, TRUE, origin)
      PROVE  blind' = blind /\ \A p \in Pids : os'[p].state = "running" => os[p].state = "running"
  BY <1>0, <1>2 DEF Start
<1>3. CASE LauncherSpawns
  <2>1. (Launcher \in gating) = TRUE
    BY <1>0, <1>3 DEF LauncherSpawns, GatesOn
  <2>2. Start(Target, Launcher, Launcher \in gating, "fork") /\ Target \in Pids
    BY <1>3, WorldAssumption DEF LauncherSpawns
  <2>3. Start(Target, Launcher, TRUE, "fork")
    BY <2>1, <2>2
  <2> QED BY <1>2, <2>2, <2>3
<1>4. CASE LauncherFailsToSpawn \/ LauncherReports
  BY <1>4 DEF LauncherFailsToSpawn, LauncherReports
<1>5. ASSUME NEW p \in Pids, NEW q \in Pids, Fork(p, q)
      PROVE  blind' = blind /\ \A r \in Pids : os'[r].state = "running" => os[r].state = "running"
  <2>1. Gates(p) = TRUE
    <3>1. Gates(p)
      BY <1>1, <1>5 DEF Fork
    <3> QED BY <3>1 DEF Gates
  <2> QED BY <1>2, <1>5, <2>1 DEF Fork
<1>6. ASSUME NEW p \in Pids, Exec(p, FALSE)
      PROVE  blind' = blind /\ \A r \in Pids : os'[r].state = "running" => os[r].state = "running"
  <2>1. Leaves(p) /\ os[p].state = "running" /\ os'[p].state = "gated"
    BY <1>1, <1>6, ExecLeaves
  <2>2. blind' = blind
    BY <1>1, <1>6, <2>1 DEF Exec
  <2> QED BY <2>1, <2>2 DEF Leaves
<1>7. ASSUME NEW p \in Pids, Exit(p)
      PROVE  blind' = blind /\ \A r \in Pids : os'[r].state = "running" => os[r].state = "running"
  <2>1. Leaves(p) /\ os'[p].state = "dead"
    BY <1>7, ExitLeaves
  <2> QED BY <1>7, <2>1 DEF Leaves, Exit
<1>8. ASSUME NEW p \in Pids, SessionLost(p)
      PROVE  blind' = blind /\ \A r \in Pids : os'[r].state = "running" => os[r].state = "running"
  <2>1. Leaves(p) /\ os'[p].state = os[p].state
    BY <1>8, LostLeaves
  <2> QED BY <1>8, <2>1 DEF Leaves, SessionLost
<1>9. ASSUME NEW p \in Pids, AgentReady(p) \/ AgentFails(p)
      PROVE  os' = os /\ blind' = blind
  BY <1>9 DEF AgentReady, AgentFails
<1>10. \A p \in Pids : ~GateReleases(p)
  BY <1>0, NobodyReleased
<1> QED BY <1>0, <1>3, <1>4, <1>5, <1>6, <1>7, <1>8, <1>9, <1>10 DEF WorldStep

\* What becomes of a session in a step of the world.
LEMMA SessionCases ==
    ASSUME Shape, WorldStep, NEW p \in Pids
    PROVE  \/ session'[p] = session[p]
           \/ session[p].agent = "loading" /\ session'[p].inst = session[p].inst
           \/ SessionLost(p) \/ Exit(p) \/ \E escapes \in BOOLEAN :
                 Exec(p, escapes) /\ (escapes => "ungated exec" \in setting.faults)
<1>0. session \in [Pids -> Session]
  BY DEF Shape, SessionsOK
<1>1. CASE LauncherSpawns \/ LauncherFailsToSpawn \/ LauncherReports
  BY <1>1 DEF LauncherSpawns, LauncherFailsToSpawn, LauncherReports, Start
<1>2. ASSUME NEW q \in Pids, Exit(q) \/ SessionLost(q) PROVE q = p \/ session'[p] = session[p]
  BY <1>0, <1>2 DEF Exit, SessionLost
<1>3. ASSUME NEW q \in Pids, NEW escapes \in BOOLEAN, Exec(q, escapes)
      PROVE  q = p \/ session'[p] = session[p]
  BY <1>0, <1>3 DEF Exec
<1>4. ASSUME NEW q \in Pids, AgentReady(q) \/ AgentFails(q)
      PROVE  \/ session'[p] = session[p]
             \/ session[p].agent = "loading" /\ session'[p].inst = session[p].inst
  BY <1>0, <1>4 DEF AgentReady, AgentFails, Session
<1>5. ASSUME NEW q \in Pids, NEW r \in Pids, GateReleases(q) \/ Fork(q, r) PROVE session'[p] = session[p]
  BY <1>5 DEF GateReleases, Fork, Start
<1> QED BY <1>1, <1>2, <1>3, <1>4, <1>5 DEF WorldStep

\* A session that is lost now will be noticed.
LEMMA LossComes ==
    ASSUME Shape, General, Tick, Early, Step, WorldActs, NEW p \in Pids, SessionLost(p)
    PROVE  LostPending'
<1>0. /\ Attached(p) /\ session \in [Pids -> Session] /\ TicketOK(p) /\ HeldProc(p)
      /\ UNCHANGED <<pc, cur, streams, queues>> /\ wire \in Seq(Message)
  BY DEF SessionLost, Shape, SessionsOK, QueuesOK, Tick, WorldActs
<1> DEFINE m == SessionGone(session[p].inst, "lost")
<1>1. /\ session[p].inst \in streams /\ session[p].inst[1] = p /\ session[p].inst = Current(tree, p)
      /\ p \in Known(tree)
  <2>1. pc \notin Over
    BY DEF Early, Closing, Over
  <2> QED BY <1>0, <2>1, CurrentKnown DEF General, SessionsCurrent, Shape
<1>2. m \in Message /\ m.type = "detached" /\ m.reason = "lost" /\ m.inst = session[p].inst
  BY <1>0, MessageTypes DEF Reasons
<1>3. wire' = Append(wire, m)
  BY DEF SessionLost
<1>4. m \in ToSet(wire')
  BY <1>0, <1>2, <1>3, AppendSet
<1>5. os'[p].state = os[p].state
  BY LostLeaves
<1>6. os[p].state \in {"gated", "running"}
  BY <1>0 DEF General, SessionsCurrent
<1>7. ~Waits(p) /\ ~Queued(p) /\ ~(cur.pid = p /\ (pc = "instrument" \/ (pc = "handle" /\ Live(cur))))
      /\ (os[p].state = "gated" => cur.pid = p /\ pc \in Waiting)
  <2>1. CASE os[p].state = "running"
    BY <1>0, <2>1 DEF TicketOK, InHand, Instrumenting
  <2>2. CASE os[p].state = "gated"
    <3>1. InHand(p) /\ pc \in Waiting
      BY <1>0, <2>2 DEF HeldProc
    <3> QED BY <1>0, <3>1 DEF TicketOK, InHand, Waiting
  <2> QED BY <1>6, <2>1, <2>2
<1>8. ~Attached(p)'
  BY <1>0 DEF SessionLost, Attached
<1>9. ~Waits(p)'
  <2>1. m \notin Signals(p)
    BY <1>2, TicketSignals
  <2> QED BY <1>0, <1>2, <1>3, <1>7, <2>1, AppendSet DEF Waits, Signals, Tickets, Live
<1>10. ~Queued(p)'
  BY <1>0, <1>7 DEF Queued, queues, Tickets, Live
<1>11. Orphaned(p)'
  BY <1>0, <1>5, <1>7, <1>8, <1>9, <1>10 DEF Orphaned, Live
<1>12. PICK r \in Pids : r = p
  OBVIOUS
<1>13. PICK n : n = m
  OBVIOUS
<1>14. Lost(n)'
  <2>1. n.type = "detached" /\ n.reason = "lost" /\ n.inst \in streams' /\ n.inst[1] = p
    BY <1>0, <1>1, <1>2, <1>13
  <2> QED BY <1>11, <2>1 DEF Lost
<1> QED BY <1>4, <1>13, <1>14 DEF LostPending, LostComing

LEMMA WatchingWorld ==
    ASSUME Shape, General, Tick, Watched, Step, EarlyStep, WorldActs, ~LostPending',
           \A q \in Pids : Watching(q), NEW p \in Pids
    PROVE  Watching(p)'
<1>0. /\ os \in [Pids -> Proc] /\ Early /\ TicketOK(p) /\ "ungated exec" \notin setting.faults
      /\ UNCHANGED <<pc, cur, tree>> /\ WorldStep
  BY DEF Shape, ProcessesOK, Watched, Tick, WorldActs
<1>1. gating' = gating
  <2>1. \A q \in Pids : ~GateReleases(q)
    BY <1>0, NobodyReleased
  <2> QED BY <1>0, <2>1, WorldCases DEF Sits, Starts, Departs, Leaves
<1>2. CASE os'[p].state = "running"
  <2>1. os[p].state = "running"
    BY <1>0, <1>2, WatchedWorld
  <2>2. Observed(p) /\ session[p].inst \in gating
    BY <2>1 DEF Watching
  <2>3. session'[p] = session[p]
    <3>1. ~SessionLost(p)
      BY <1>0, LossComes
    <3>2. ~Exit(p)
      BY <1>2, ExitLeaves
    <3>3. ~Exec(p, FALSE)
      <4>1. Gates(p)
        BY <2>2 DEF Gates, Observed, Attached, NoSession
      <4>2. Exec(p, FALSE) => os'[p].state = "gated"
        BY <4>1, ExecLeaves
      <4> QED BY <1>2, <4>2
    <3>4. session[p].agent # "loading"
      BY <2>2 DEF Observed
    <3> QED BY <1>0, <3>1, <3>2, <3>3, <3>4, SessionCases
  <2> QED BY <1>1, <1>2, <2>2, <2>3 DEF Watching, Observed
<1>3. CASE InHand(p)' /\ pc' \in {"await_ready", "await_event", "ready"} /\ os'[p].state = "gated"
  <2>1. InHand(p) /\ pc \in {"await_ready", "await_event", "ready"} /\ cur.pid = p
    BY <1>0, <1>3 DEF InHand, Live
  <2>2. os[p].state = "gated"
    <3>1. os[p].state # "running"
      BY <1>0, <2>1 DEF TicketOK
    <3>2. os[p].state # "unused"
      BY <2>1, Existing DEF General
    <3>3. os[p].state # "dead"
      <4>1. /\ os'[p].life = os[p].life => (os[p].state = "dead" => os'[p].state = "dead")
            /\ os'[p].life \in {os[p].life, os[p].life + 1}
            /\ os'[p].life <= setting.lives
        BY DEF Step, ProcessesKept, Ages, ProcessesOK
      <4>2. setting.lives <= 1 /\ os[p].life >= 1 /\ setting.lives \in Nat /\ os[p].life \in Nat
        <5>1. setting.lives \in Nat
          BY Settled DEF Shape
        <5>2. os[p].life \in Nat
          BY <1>0 DEF Proc
        <5> QED BY <3>2, <5>1, <5>2 DEF Early, EarlyStep, Shape, ProcessesOK
      <4> QED BY <1>3, <4>1, <4>2
    <3> QED BY <1>0, <3>1, <3>2, <3>3 DEF Proc
  <2>3. session[p].inst = CurInst /\ CurInst \in gating /\ (pc = "ready" => Observed(p))
    BY <2>1, <2>2 DEF Watching
  <2>4. /\ ~SessionLost(p) /\ ~Exit(p) /\ \A escapes \in BOOLEAN : ~Exec(p, escapes)
    <3>1. ~SessionLost(p)
      BY <1>0, LossComes
    <3>2. ~Exit(p)
      BY <1>3, ExitLeaves
    <3> QED BY <2>2, <3>1, <3>2, ExecLeaves
  <2>5. session'[p] = session[p] \/ (session[p].agent = "loading" /\ session'[p].inst = session[p].inst)
    BY <1>0, <2>4, SessionCases
  <2>6. CurInst' = CurInst
    BY <1>0 DEF CurInst, Current
  <2>7. Observed(p) => session'[p] = session[p]
    BY <2>5 DEF Observed
  <2> QED BY <1>0, <1>1, <1>3, <2>3, <2>5, <2>6, <2>7 DEF Watching, Observed
<1>4. ~(os'[p].state = "running") /\ ~(InHand(p)' /\ pc' \in {"await_ready", "await_event", "ready"}
         /\ os'[p].state = "gated") => Watching(p)'
  BY DEF Watching
<1> QED BY <1>2, <1>3, <1>4

LEMMA WatchingMain ==
    ASSUME Shape, General, Tick, Watched, Step, Moves, EarlyStep, ~WorldActs, tree'.complete,
           \A q \in Pids : Watching(q), NEW p \in Pids
    PROVE  Watching(p)'
<1>0. /\ os \in [Pids -> Proc] /\ session \in [Pids -> Session]
      /\ Early /\ TicketOK(p) /\ setting.follow /\ tree.complete
  BY DEF Shape, ProcessesOK, SessionsOK, Watched, Tick
<1>1. ~ReleaseUnfollowed /\ ~ReleaseOverCap /\ ~ResumeLost /\ ~ChildNotReady
  <2>1. ~ReleaseUnfollowed
    BY <1>0 DEF ReleaseUnfollowed
  <2>2. ~ReleaseOverCap
    <3>1. ReleaseOverCap => cur.pid \in Pids /\ RetirePrevious /\ Verdict = "ProcessTreeLimitExceeded"
      BY DEF ReleaseOverCap, MayAdmitChild, Shape, ControlOK, Child
    <3> QED BY <3>1, ChildAdmitted DEF Shape
  <2>3. ~ResumeLost
    BY <1>0 DEF ResumeLost, General, WayOK
  <2> QED BY <2>1, <2>2, <2>3, LossDisclaimed
<1>2. CASE os'[p].state = "running"
  <2>1. CASE os[p].state = "running"
    <3>1. Observed(p) /\ session[p].inst \in gating
      BY <2>1 DEF Watching
    <3>2. session[p].inst # NoInst
      <4>1. Attached(p)
        BY <3>1 DEF Observed, Attached, NoSession
      <4> QED BY <4>1, GatesAssumption, CurrentKnown DEF General, SessionsCurrent, Shape
    <3>3. CASE Opening
      <4>1. session'[p] = session[p] /\ session[p].inst \in gating'
        BY <2>1, <3>1, <3>2, <3>3, RunnerKept
      <4> QED BY <1>2, <3>1, <4>1 DEF Watching, Observed
    <3>4. CASE Dispatch \/ UNCHANGED vars
      <4>1. session' = session /\ gating' = gating
        BY <3>4 DEF Dispatch, vars, world
      <4> QED BY <1>2, <3>1, <4>1 DEF Watching, Observed
    <3> QED BY <3>3, <3>4 DEF EarlyStep
  <2>2. CASE os[p].state # "running"
    <3>1. ResumeReady /\ p = cur.pid /\ p \in HeldPids
      BY <1>1, <1>2, <2>2, ComesToRun
    <3>2. os[p].state = "gated"
      BY <3>1 DEF HeldPids, Shape, HeldOK
    <3>3. pc = "ready" /\ session' = session /\ gating' = gating
      BY <3>1 DEF ResumeReady
    <3>4. InHand(p)
      BY <3>1, <3>3 DEF InHand, Instrumenting
    <3>5. session[p].inst \in gating /\ Observed(p)
      BY <3>2, <3>3, <3>4 DEF Watching
    <3> QED BY <1>2, <3>3, <3>5 DEF Watching, Observed
  <2> QED BY <2>1, <2>2
<1>3. CASE InHand(p)' /\ pc' \in {"await_ready", "await_event", "ready"} /\ os'[p].state = "gated"
  <2>0. cur'.pid = p
    BY <1>3 DEF InHand
  <2>1. os' = os
    BY <1>1, <1>3, EarlyResumes
  <2>2. CASE Attach
    <3>1. cur' = cur /\ tree' = tree /\ pc' = "await_ready" /\ session'[p] = [inst |-> CurInst, agent |-> "loading"]
      BY <1>0, <2>0, <2>2 DEF Attach
    <3>2. CurInst \in gating' /\ CurInst' = CurInst
      BY <1>0, <2>2 DEF Attach, CurInst
    <3>3. session'[p].inst = CurInst' /\ CurInst' \in gating' /\ pc' # "ready"
      BY <3>1, <3>2
    <3> QED BY <1>3, <3>3 DEF Watching
  <2>3. CASE ~Attach
    <3>1. /\ pc \in {"await_ready", "await_event", "ready"} /\ cur' = cur
          /\ \/ Dispatch \/ UNCHANGED vars \/ AwaitReady \/ TakeEvent \/ EventWaitEnds \/ CloseLauncherGate
      <4>1. CASE Dispatch \/ UNCHANGED vars
        BY <1>3, <4>1 DEF Dispatch, vars, world
      <4>2. CASE Opening
        BY <1>1, <1>3, <2>3, <4>2 DEF Opening, ReconcileRoot, AdmitRootChild, ServiceEvents, ServiceDetached,
           ServiceReturns, TakeChild, Admit, MayAdmitChild, AttachFails, AwaitReady, TakeEvent,
           EventWaitEnds, ReadyTimeout, CloseLauncherGate, ResumeReady, Idle, EarlyStep, Early, Shutdown
      <4> QED BY <4>1, <4>2 DEF EarlyStep
    <3>2. InHand(p) /\ p = cur.pid /\ os[p].state = "gated"
      BY <1>3, <2>0, <2>1, <3>1 DEF InHand, Instrumenting
    <3>3. session[p].inst = CurInst /\ CurInst \in gating /\ (pc = "ready" => Observed(p))
      BY <3>1, <3>2 DEF Watching
    <3>4. CurInst' = CurInst /\ CurInst \in Instances /\ p \in Known(tree)
      <4>1. p \in Known(tree)
        BY <3>1, <3>2 DEF Shape, ControlOK, Instrumenting
      <4>2. ~Admit
        BY <3>1 DEF Admit, MayAdmitChild
      <4>3. Current(tree', p) = Current(tree, p)
        BY <4>1, <4>2 DEF Step, Grown
      <4> QED BY <3>1, <3>2, <4>1, <4>3, CurrentKnown DEF CurInst, Shape
    <3>5. session'[p] = session[p] /\ CurInst \in gating'
      <4>1. CASE AwaitReady
        <5>1. CurInst \notin Gone("process-replaced")
          BY <3>3, NotGone
        <5>2. DetachStreams(Gone("process-replaced")) \/ UNCHANGED <<session, gating>>
          BY <4>1 DEF AwaitReady, ServiceNotices
        <5> QED BY <1>0, <3>3, <5>1, <5>2 DEF DetachStreams
      <4>2. CASE CloseLauncherGate
        <5>1. CurInst # Launcher
          BY <3>4, GatesAssumption
        <5> QED BY <3>3, <4>2, <5>1 DEF CloseLauncherGate
      <4>3. CASE Dispatch \/ UNCHANGED vars \/ TakeEvent \/ EventWaitEnds
        BY <3>3, <4>3 DEF Dispatch, vars, world, TakeEvent, EventWaitEnds
      <4> QED BY <3>1, <4>1, <4>2, <4>3
    <3>6. pc' = "ready" => Observed(p)
      <4>1. CASE TakeEvent /\ pc' = "ready"
        <5> DEFINE e == Head(events)
        <5>1. e.inst = CurInst /\ e.type = "backend_ready" /\ events # << >>
          BY <4>1 DEF TakeEvent
        <5>2. e \in ToSet(events)
          BY <5>1, TailSet DEF Shape, QueuesOK
        <5>3. e \in About /\ session[e.inst[1]].inst = e.inst /\ e.inst[1] = p
          <6>1. CurInst[1] = p
            BY <3>2, <3>4, CurrentKnown DEF CurInst, Shape
          <6> QED BY <3>3, <5>1, <5>2, <6>1 DEF About
        <5> QED BY <5>1, <5>3 DEF General, AboutOK
      <4>2. CASE ~TakeEvent /\ pc' = "ready"
        <5>1. pc = "ready"
          BY <3>1, <4>2 DEF Dispatch, vars, AwaitReady, EventWaitEnds, CloseLauncherGate
        <5> QED BY <3>3, <5>1
      <4> QED BY <4>1, <4>2
    <3> QED BY <1>3, <3>3, <3>4, <3>5, <3>6 DEF Watching, Observed
  <2> QED BY <2>2, <2>3
<1>4. ~(os'[p].state = "running") /\ ~(InHand(p)' /\ pc' \in {"await_ready", "await_event", "ready"}
         /\ os'[p].state = "gated") => Watching(p)'
  BY DEF Watching
<1> QED BY <1>2, <1>3, <1>4

LEMMA WatchStep ==
    ASSUME Shape, PhaseOK, General, Tick, WatchOK, Step, Moves, Doing, General'
    PROVE  WatchOK'
<1> SUFFICES ASSUME Watched', NEW p \in Pids PROVE Watching(p)'
  BY DEF WatchOK
<1>1. Watched /\ EarlyStep
  BY WatchedBefore
<1>2. \A q \in Pids : Watching(q)
  BY <1>1 DEF WatchOK
<1>3. tree'.complete /\ ~LostPending'
  BY DEF Watched
<1> QED BY <1>1, <1>2, <1>3, WatchingWorld, WatchingMain

-----------------------------------------------------------------------------
(* An image runs unobserved only in a run that says so. *)
BlindOK ==
    setting.lives <= 1 /\ setting.follow /\ "ungated exec" \notin setting.faults
        => blind = {} \/ Disclaimed \/ Unserved

\* After the target, nothing counts as unobserved.
LEMMA OverBlind ==
    ASSUME Moves, TargetOver
    PROVE  blind' = blind
<1>1. \A ps : ResumeHeld(ps) => blind' = blind
  BY DEF ResumeHeld, Unwatched
<1>2. \A q, parent, gated, origin : Start(q, parent, gated, origin) => blind' = blind
  BY ZenonT(60) DEF Start
<1>3. CASE Kill
  BY <1>3 DEF Kill
<1>4. CASE WorldStep
  <2>1. LauncherSpawns => blind' = blind
    BY <1>2 DEF LauncherSpawns
  <2>2. \A p, q \in Pids : Fork(p, q) => blind' = blind
    BY <1>2 DEF Fork
  <2>3. \A p \in Pids : GateReleases(p) => blind' = blind
    BY <1>1 DEF GateReleases
  <2> QED BY <1>4, <2>1, <2>2, <2>3 DEF WorldStep, LauncherFailsToSpawn, LauncherReports, Exit, AgentReady,
     AgentFails, SessionLost, Exec
<1> QED BY <1>1, <1>3, <1>4 DEF Moves, OsMoves, Resuming

\* Where nothing came to run, nothing runs unobserved.
LEMMA NobodyBlind ==
    ASSUME Shape, BeforeRoot, RecordOK, Moves, record = "launch_failure"
    PROVE  blind' = blind
<1>0. pending = {} /\ \A p \in Pids : os[p].state = "unused"
  BY DEF RecordOK, BeforeRoot
<1>1. \A ps : ResumeHeld(ps) => blind' = blind
  <2>1. HeldPids = {}
    BY <1>0 DEF HeldPids
  <2> QED BY <2>1 DEF ResumeHeld, Unwatched
<1>2. CASE Kill
  BY <1>2 DEF Kill
<1>3. CASE WorldStep
  <2>1. ~LauncherSpawns /\ \A p, q \in Pids : ~Fork(p, q)
    BY <1>0 DEF LauncherSpawns, Fork
  <2>2. \A p \in Pids : GateReleases(p) => blind' = blind
    BY <1>1 DEF GateReleases
  <2>3. \A p \in Pids : ~Exec(p, FALSE) /\ ~Exec(p, TRUE)
    BY <1>0 DEF Exec
  <2> QED BY <1>3, <2>1, <2>2, <2>3 DEF WorldStep, LauncherFailsToSpawn, LauncherReports, Exit, AgentReady,
     AgentFails, SessionLost
<1> QED BY <1>1, <1>2, <1>3 DEF Moves, OsMoves, Resuming

\* Where a run can be that claims to have followed everything.
LEMMA Situations ==
    ASSUME Shape, Outcome, WayOK, setting.lives <= 1, ~Disclaimed
    PROVE  Early \/ TargetOver \/ record = "launch_failure"
<1>0. ~Failed /\ after # "interrupted" /\ after # "failed"
  BY DEF Disclaimed, WayOK
<1>1. ~ShutDown
  BY <1>0 DEF ShutDown
<1>2. CASE pc \in Over
  BY <1>1, <1>2 DEF Outcome, EndsByItself, RecordOK
<1>3. CASE after \in {"drained", "release"} \/ pc \in {"drain", "drained", "release", "close_streams"}
  BY <1>1, <1>3 DEF Outcome, PhaseOK, RecordOK
<1>4. CASE pc \notin Over /\ after \notin {"drained", "release"}
           /\ pc \notin {"drain", "drained", "release", "close_streams"}
  <2>1. after = "idle"
    BY <1>0, <1>4 DEF Shape, ControlOK
  <2>2. pc \notin Closing
    BY <1>0, <1>4 DEF WayOK, Closing, Over
  <2> QED BY <1>0, <1>4, <2>1, <2>2 DEF Early
<1> QED BY <1>2, <1>3, <1>4

LEMMA EarlyNext ==
    ASSUME Shape, WayOK, Early, Opening, ~Disclaimed', setting' = setting
    PROVE  Early'
<1>1. ~Failed' /\ setting'.lives <= 1 /\ ~Failed /\ after = "idle" /\ pc \notin {"drain", "drained", "release", "close_streams"} \cup Closing
  BY DEF Disclaimed, Early
<1>2. after' = "idle" /\ pc' \notin {"drain", "drained", "release", "close_streams"} \cup Closing
  BY <1>1 DEF Opening, ReconcileRoot, AdmitRootChild, ServiceEvents, ServiceDetached,
       ServiceReturns, TakeChild, ReleaseUnfollowed, Admit, ReleaseOverCap, MayAdmitChild, Attach,
       AttachFails, AwaitReady, TakeEvent, EventWaitEnds, ReadyTimeout, CloseLauncherGate, ResumeReady,
       ChildNotReady, ResumeLost, Idle, Closing, Shutdown, Failed, Fail
<1> QED BY <1>1, <1>2 DEF Early

\* The main thread resumes nobody who is not watched, or it is on record.
LEMMA WatchedBlind ==
    ASSUME Shape, General, Tick, Watched, WatchOK, Step, Moves, Doing, ~Disclaimed', blind = {}
    PROVE  blind' = {}
<1>0. /\ Early /\ setting.follow /\ tree.complete /\ ~Failed' /\ after' # "interrupted"
      /\ tree'.complete /\ setting' = setting
  BY DEF Watched, Disclaimed, Step
<1>1. CASE WorldActs
  BY <1>1, WatchedWorld DEF WatchOK, WorldActs
<1>2. CASE Dispatch \/ UNCHANGED vars
  BY <1>2 DEF Dispatch, vars, world
<1>3. CASE EmergencyResume
  BY <1>0, <1>3 DEF EmergencyResume, Failed, Fail
<1>4. CASE Failing
  BY <1>0, <1>4, FailingFails
<1>5. CASE Ending
  BY <1>0, <1>5 DEF Ending, LaunchFailed, Complete, Drain, Drained, DrainDeadline, Release, CloseStreams,
     ReleaseUnhandled, CloseGates, Collect, Kill, Finish, Detach, Early, Closing, Shutdown, world
<1>6. CASE Opening /\ ~WorldActs
  <2>1. EarlyStep
    BY <1>0, <1>6, EarlyNext DEF EarlyStep, General
  <2>2. CASE UNCHANGED <<os, pending, blind>>
    BY <2>2
  <2>3. CASE ~(UNCHANGED <<os, pending, blind>>)
    <3>1. /\ ReleaseUnfollowed \/ ReleaseOverCap \/ ResumeReady \/ ResumeLost
          /\ ResumeHeld({cur.pid})
      BY <1>6, <2>1, <2>3, EarlyResumes
    <3>2. ~ReleaseUnfollowed /\ ~ResumeLost
      BY <1>0 DEF ReleaseUnfollowed, ResumeLost, General, WayOK
    <3>3. ~ReleaseOverCap
      <4>1. ReleaseOverCap => cur.pid \in Pids /\ RetirePrevious /\ Verdict = "ProcessTreeLimitExceeded"
        BY DEF ReleaseOverCap, MayAdmitChild, Shape, ControlOK, Child
      <4> QED BY <1>0, <4>1, ChildAdmitted DEF Shape
    <3>4. pc = "ready"
      BY <3>1, <3>2, <3>3 DEF ResumeReady
    <3>5. cur.pid \in HeldPids => Observed(cur.pid)
      <4> SUFFICES ASSUME cur.pid \in HeldPids PROVE Observed(cur.pid)
        OBVIOUS
      <4>1. os[cur.pid].state = "gated" /\ cur.pid \in Pids
        BY DEF HeldPids, Shape, HeldOK, Child
      <4>2. InHand(cur.pid)
        BY <3>4 DEF InHand, Instrumenting
      <4> QED BY <3>4, <4>1, <4>2 DEF WatchOK, Watching
    <3>6. Unwatched({cur.pid} \cap HeldPids) = {}
      BY <3>5 DEF Unwatched
    <3> QED BY <3>1, <3>6 DEF ResumeHeld
  <2> QED BY <2>2, <2>3
<1> QED BY <1>1, <1>2, <1>3, <1>4, <1>5, <1>6 DEF Doing, Aside

LEMMA BlindStep ==
    ASSUME Shape, Outcome, General, Tick, WatchOK, BlindOK, Step, Moves, Doing, General'
    PROVE  BlindOK'
<1> SUFFICES ASSUME setting'.lives <= 1, setting'.follow, "ungated exec" \notin setting'.faults,
                    ~Disclaimed'
             PROVE  blind' = {} \/ Unserved'
  BY DEF BlindOK
<1>1. setting.lives <= 1 /\ setting.follow /\ "ungated exec" \notin setting.faults /\ setting' = setting
  BY DEF Step
<1>2. ~Disclaimed /\ tree.complete /\ PhaseOK /\ BeforeRoot /\ RecordOK
  BY DisclaimedStep DEF Disclaimed, Outcome
<1>3. CASE Unserved
  BY <1>1, <1>2, <1>3, UnservedStep
<1>4. CASE ~Unserved
  <2>1. blind = {}
    BY <1>1, <1>2, <1>4 DEF BlindOK
  <2>2. CASE TargetOver
    BY <2>1, <2>2, OverBlind
  <2>3. CASE record = "launch_failure"
    BY <1>2, <2>1, <2>3, NobodyBlind
  <2>4. CASE Early /\ ~TargetOver
    <3>1. Watched
      BY <1>1, <1>2, <1>4, <2>4 DEF Watched, Unserved, Early, Over, Closing
    <3> QED BY <2>1, <3>1, WatchedBlind
  <2> QED BY <1>1, <1>2, <2>2, <2>3, <2>4, Situations DEF General
<1> QED BY <1>3, <1>4

LEMMA CoverageInit == Init => WatchOK /\ BlindOK
<1> SUFFICES ASSUME Init PROVE WatchOK /\ BlindOK
  OBVIOUS
<1>1. pc = "await_root" /\ blind = {} /\ \A p \in Pids : os[p].state = "unused"
  BY DEF Init, WorldInit
<1> QED BY <1>1 DEF WatchOK, Watching, BlindOK

LEMMA CoverageHolds == Spec => [](Handled /\ WatchOK /\ BlindOK)
<1>1. Init => WatchOK /\ BlindOK
  BY CoverageInit
<1>2. ASSUME Handled, WatchOK, BlindOK, [Next]_vars PROVE WatchOK' /\ BlindOK'
  <2>1. Handled' /\ Step /\ Moves /\ Doing
    BY <1>2, HandledStep
  <2>2. Shape /\ Outcome /\ PhaseOK /\ General /\ Tick /\ General'
    BY <1>2, <2>1 DEF Handled, Outcome
  <2> QED BY <1>2, <2>1, <2>2, WatchStep, BlindStep
<1>3. WatchOK /\ BlindOK /\ Handled /\ [Next]_vars => (WatchOK /\ BlindOK)'
  BY <1>2
<1> QED BY <1>1, <1>3, HandledHolds, PTL DEF Spec

(* A run that follows children, ends by itself without a failure and calls    *)
(* its tree complete let no image run unobserved while the target lived       *)
(* (CoverageSound), when no PID is used again and no exec escapes its gate:   *)
(* every image had a ready agent before _resume_admission resumed it, and     *)
(* the end of a lost session is served, and fails the run, before the run     *)
(* can end well.                                                             *)
THEOREM NothingRunsUnseen ==
    Spec => [](setting.lives <= 1 /\ "ungated exec" \notin setting.faults => CoverageSound)
<1>1. Handled /\ BlindOK => (setting.lives <= 1 /\ "ungated exec" \notin setting.faults => CoverageSound)
  BY DEF BlindOK, CoverageSound, Disclaimed, Unserved, Over, TreeComplete
<1> QED BY <1>1, CoverageHolds, PTL
=============================================================================
