---------------------------- MODULE ProcessWorld ----------------------------
(***************************************************************************)
(* What the controller does not own: the application's processes, the       *)
(* launcher, the agents, and the Frida device that gates children and       *)
(* delivers signals on a thread of its own.  Everything here is modelled    *)
(* from how process.py and frida_backend.py use it.                         *)
(*                                                                         *)
(* A gated child is listed by enumerate_pending_children from the moment it *)
(* is suspended; its child-added signal follows on the wire, so the two may *)
(* be seen in either order.  Signals are dispatched in the order sent.      *)
(***************************************************************************)
EXTENDS ProcessTree, Sequences, SequencesExt

CONSTANTS Target,        \* the PID of the target (root) process
          Launcher,      \* the launcher, parent of the target
          NoInst,
          Settings       \* the situations an instance considers, see Setting

FaultKinds == {"killed",         \* a suspended process is killed from outside
               "agent",          \* an agent fails to load, reports FAILED or stays silent
               "session lost",   \* Frida loses a session for another reason
               "ungated exec",   \* an exec escapes child gating
               "interrupt"}      \* Ctrl-C reaches the controller

\* The controller's configuration (follow: follow_children, queue: max_pending_children),
\* what may go wrong, whether children may be reported exec-only and parented to
\* themselves (posix), and bounds: the PIDs in use, the images and the lives of each.
Setting == [follow: BOOLEAN, queue: Nat \ {0}, faults: SUBSET FaultKinds, posix: BOOLEAN,
            pids: SUBSET Pids, images: Nat, lives: Nat]

ASSUME WorldAssumption == /\ Target \in Pids /\ Launcher \notin Pids
                          /\ Settings \subseteq Setting
ASSUME GatesAssumption == Launcher \notin Instances /\ NoInst \notin Instances \cup {Launcher}
\* A life number stands for the start token of a process: every life has one.
ASSUME TokensAreLives  == \A s \in Settings : 1 .. s.lives \subseteq Tokens

VARIABLES setting,  \* one of Settings, fixed for a run
          os,       \* each PID: its state, parent, current image, life, and the
                    \* gate that holds it (NoInst: no gate that can still let go)
          session,  \* the Frida session inside the current image of each PID
          gating,   \* the gates that are on: instances, Launcher, and NoInst for
                    \* the hold on children whose gate ended before them
          pending,  \* children the device holds suspended
          wire,     \* signals Frida has sent and not yet dispatched
          record,   \* what the launcher has written to the completion socket, or
                    \* "killed" when it will write nothing more
          blind     \* history: images that ran unobserved while the target lived

world == <<os, session, gating, pending, wire, record, blind>>

Child     == [pid: Pids, parent: Pids \cup {Launcher}, origin: Origins]
NoSession == [inst |-> NoInst, agent |-> "none"]

ChildAdded(c)       == [type |-> "child-added", child |-> c]
SessionGone(i, why) == [type |-> "detached", inst |-> i, reason |-> why]
AgentSays(what, i)  == [type |-> what, inst |-> i]

Alive(p)     == os[p].state \in {"gated", "running"}
TargetOver   == os[Target].state = "dead"
ImageOf(p)   == <<p, os[p].life, os[p].image>>
Observed(p)  == session[p].agent = "ready"
Attached(p)  == session[p] # NoSession
HeldPids     == {c.pid : c \in pending}
Gates(p)     == Attached(p) /\ session[p].inst \in gating
GateOf(p)    == IF p = Launcher THEN Launcher ELSE session[p].inst

WorldInit ==
    /\ setting \in Settings
    /\ os = [p \in Pids |-> [state |-> "unused", parent |-> Launcher, image |-> 0, life |-> 0,
                           gate |-> NoInst]]
    /\ session = [p \in Pids |-> NoSession]
    /\ gating = {Launcher, NoInst}
    /\ pending = {} /\ wire = << >> /\ record = "none" /\ blind = {}

\* The images among ps that start to run now with nobody watching.
Unwatched(ps) == IF TargetOver THEN {} ELSE {ImageOf(p) : p \in {q \in ps : ~Observed(q)}}

\* Device.resume on each of ps that is suspended; on another PID it raises.
ResumeHeld(ps) ==
    LET held == ps \cap HeldPids IN
    /\ os' = [p \in Pids |-> IF p \in held THEN [os[p] EXCEPT !.state = "running"] ELSE os[p]]
    /\ pending' = {c \in pending : c.pid \notin held}
    /\ blind' = blind \cup Unwatched(held)

ResumeNone == UNCHANGED <<os, pending, blind>>

\* The processes of o once the session of p ended by itself: the children its
\* gate holds stay suspended, and closing that gate no longer lets them go.
Ungated(o, p) == [q \in Pids |-> IF Attached(p) /\ o[q].gate = session[p].inst
                                 THEN [o[q] EXCEPT !.gate = NoInst] ELSE o[q]]

-----------------------------------------------------------------------------
\* A new process, suspended when its parent's session (or the launcher's)
\* gates children.
Start(p, parent, gated, origin) ==
    LET c == [pid |-> p, parent |-> IF origin = "exec" THEN p ELSE parent, origin |-> origin]
    IN  /\ os[p].state \in {"unused", "dead"} /\ os[p].life < setting.lives
        /\ os' = [os EXCEPT ![p] = [state  |-> IF gated THEN "gated" ELSE "running",
                                    parent |-> parent, image |-> 1, life |-> os[p].life + 1,
                                    gate   |-> IF gated THEN GateOf(parent) ELSE NoInst]]
        /\ IF gated THEN /\ pending' = pending \cup {c}
                         /\ wire' = Append(wire, ChildAdded(c))
                         /\ UNCHANGED blind
           ELSE /\ blind' = blind \cup (IF TargetOver THEN {} ELSE {<<p, os[p].life + 1, 1>>})
                /\ UNCHANGED <<pending, wire>>
        /\ UNCHANGED <<session, gating, record>>

LauncherSpawns ==
    /\ record = "none" /\ os[Target].state = "unused"
    /\ Start(Target, Launcher, Launcher \in gating, "fork")

LauncherFailsToSpawn ==
    /\ record = "none" /\ os[Target].state = "unused"
    /\ record' = "launch_failure"
    /\ UNCHANGED <<os, session, gating, pending, wire, blind>>

Fork(p, q) ==
    /\ os[p].state = "running" /\ q \in setting.pids \ {Target}
    /\ \E origin \in IF setting.posix THEN Origins ELSE {"fork"} : Start(q, p, Gates(p), origin)

\* The old image's session ends; the new image is suspended if that session
\* gated children, and runs unobserved otherwise.
Exec(p, escapes) ==
    LET c    == [pid |-> p, parent |-> p, origin |-> "exec"]
        gone == IF Attached(p) THEN <<SessionGone(session[p].inst, "process-replaced")>> ELSE << >>
        held == Gates(p) /\ ~escapes
    IN  /\ os[p].state = "running" /\ os[p].image < setting.images
        /\ os' = Ungated([os EXCEPT ![p].image = @ + 1,
                                    ![p].state = IF held THEN "gated" ELSE "running",
                                    ![p].gate = NoInst], p)
        /\ session' = [session EXCEPT ![p] = NoSession]
        /\ wire' = wire \o gone \o (IF held THEN <<ChildAdded(c)>> ELSE << >>)
        /\ pending' = IF held THEN pending \cup {c} ELSE pending
        /\ blind' = IF held \/ TargetOver THEN blind
                    ELSE blind \cup {<<p, os[p].life, os[p].image + 1>>}
        /\ UNCHANGED <<gating, record>>

Exit(p) ==
    /\ Alive(p)
    /\ os[p].state = "running" \/ "killed" \in setting.faults
    /\ os' = Ungated([os EXCEPT ![p].state = "dead"], p)
    /\ session' = [session EXCEPT ![p] = NoSession]
    /\ wire' = IF Attached(p)
               THEN Append(wire, SessionGone(session[p].inst, "process-terminated")) ELSE wire
    /\ pending' = {c \in pending : c.pid # p}
    /\ UNCHANGED <<gating, record, blind>>

AgentReady(p) ==
    /\ Alive(p) /\ session[p].agent = "loading"
    /\ session' = [session EXCEPT ![p].agent = "ready"]
    /\ wire' = Append(wire, AgentSays("backend_ready", session[p].inst))
    /\ UNCHANGED <<os, gating, pending, record, blind>>

AgentFails(p) ==
    /\ "agent" \in setting.faults
    /\ Alive(p) /\ session[p].agent = "loading"
    /\ session' = [session EXCEPT ![p].agent = "failed"]
    /\ wire' = Append(wire, AgentSays("FAILED", session[p].inst))
    /\ UNCHANGED <<os, gating, pending, record, blind>>

SessionLost(p) ==
    /\ "session lost" \in setting.faults
    /\ Attached(p)
    /\ session' = [session EXCEPT ![p] = NoSession]
    /\ wire' = Append(wire, SessionGone(session[p].inst, "lost"))
    /\ os' = Ungated(os, p)
    /\ UNCHANGED <<gating, pending, record, blind>>

\* A gate that was closed lets go of the children it holds, some time later.
\* The launcher's is closed before the root is resumed, and is taken to be
\* slower than the resume that follows at once: it lets go with the others.
GateReleases(p) ==
    /\ p \in HeldPids
    /\ os[p].gate \notin gating
    /\ os[p].gate = Launcher => NoInst \notin gating
    /\ ResumeHeld({p})
    /\ UNCHANGED <<session, gating, wire, record>>

LauncherReports ==
    /\ record = "none" /\ TargetOver
    /\ record' = "completion"
    /\ UNCHANGED <<os, session, gating, pending, wire, blind>>

WorldStep ==
    \/ LauncherSpawns \/ LauncherFailsToSpawn \/ LauncherReports
    \/ \E p \in Pids : \/ Exit(p) \/ AgentReady(p) \/ AgentFails(p) \/ SessionLost(p)
                       \/ GateReleases(p)
                       \/ Exec(p, FALSE)
                       \/ "ungated exec" \in setting.faults /\ Exec(p, TRUE)
                       \/ \E q \in Pids : Fork(p, q)
=============================================================================
