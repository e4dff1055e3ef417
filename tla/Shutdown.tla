------------------------------ MODULE Shutdown ------------------------------
(***************************************************************************)
(* How a run ends: launcher.py, which owns the target's wait status and      *)
(* forwards signals to it, and of process.py the completion socket            *)
(* (_receive_completion), _shutdown_processes, _verify_completed_processes,   *)
(* _finish_launcher_only and the except and finally clauses of run around    *)
(* them.  ProcessController has all this in one step; here the processes die  *)
(* when they do, signals take their time, and the launcher is in between.     *)
(*                                                                         *)
(* A process that died is a zombie until its parent has waited for it, and   *)
(* alive to _same_process_alive until then.  PIDs are not used again.         *)
(***************************************************************************)
EXTENDS Integers, FiniteSets

CONSTANTS Target, Launcher, Descendants,
          Depth,       \* [Descendants -> Nat]: depth in the tree, the root has 0
          Settings,    \* the situations considered, see Setting
          None         \* None

Application == Descendants \cup {Target}
Procs       == Application \cup {Launcher}
Signals     == {"INT", "TERM", "KILL"}
Deaths      == {<<"exit", 0>>, <<"exit", 127>>} \cup {<<"signal", s>> : s \in Signals}
Fates       == Deaths \cup {None}

\* Where the run is when the model starts; the application processes it knows, or will know
\* when it shuts down; the processes that no signal ends (an uninterruptible wait); the
\* descendants that may not be signalled (another user's), with "gates" when a child gate
\* cannot be closed; whether timeouts may pass although the system still works on what is
\* waited for; whether the launcher may be killed from outside; the number of Ctrl-Cs.
Setting == [start: {"starting", "running", "launch failed"}, known: SUBSET Application,
            stuck: SUBSET Application, denied: SUBSET (Descendants \cup {"gates"}), slow: BOOLEAN, harmed: BOOLEAN, interrupts: Nat]

ASSUME ProcsAssumption    == Target # Launcher /\ {Target, Launcher} \cap Descendants = {}
                             /\ IsFiniteSet(Descendants)
ASSUME DepthAssumption    == Depth \in [Descendants -> Nat \ {0}]
ASSUME SettingsAssumption == /\ Settings \subseteq Setting
                             /\ \A s \in Settings : s.start = "running" => Target \in s.known
ASSUME NoneAssumption     == None \notin Deaths

Process == [state: {"none", "running", "zombie", "gone"}, fate: Fates, signals: SUBSET Signals]

VARIABLES
    setting,  \* one of Settings
    os,       \* each process: state, fate (how it ended) and the signals on their way
    at,       \* where the launcher is
    socket,   \* the completion connection: "none", "open", "written" once the record is in
              \* it, "closed" by the controller before that
    pc,       \* where the controller's main thread is
    ctl       \* its variables: round (in which attempt to receive a completion it is),
              \* pass (of _shutdown_processes), signal (initial_signal), todo (those a loop has
              \* left), found (target_exit and target_signal of this pass), result (those of
              \* run), received (_root_completion_received), errors (of this pass), failures
              \* (what _fail was told), interrupts (Ctrl-Cs to come), and raised: a second
              \* Ctrl-C ends run with KeyboardInterrupt

vars == <<setting, os, at, socket, pc, ctl>>

Control ==
    [round: {"run", "first", "second"}, pass: 0..3, signal: {"INT", "TERM"},
     todo: SUBSET Application, found: Fates, result: Fates, received: BOOLEAN,
     errors: SUBSET (Procs \cup {"no report", "refused"}),
     failures: SUBSET (Procs \cup {"run", "controller", "no report", "refused", "not started"}),
     interrupts: 0..setting.interrupts, raised: BOOLEAN]

Admitted == setting.start = "running"          \* target_pid is not None

\* _same_process_alive
Alive(p)   == os[p].state \notin {"none", "gone"}
Running(p) == os[p].state = "running"

Dead(o, p, fate) == [o EXCEPT ![p].state = "zombie", ![p].fate = fate, ![p].signals = {}]
Gone(o, p)       == [o EXCEPT ![p].state = "gone"]
\* os.kill of a process that is dead already has no effect.
Sent(p, s) == [os EXCEPT ![p].signals = IF Running(p) THEN @ \cup {s} ELSE @]
\* _send_signal, to a process that is still alive and may not be signalled
Denied(p) == Alive(p) /\ p \in setting.denied

-----------------------------------------------------------------------------
(* The application and the operating system *)

Exits(p) == p \in Application /\ Running(p) /\ os' = Dead(os, p, <<"exit", 0>>)

Kills(p) == /\ Running(p) /\ "KILL" \in os[p].signals /\ p \notin setting.stuck
            /\ os' = Dead(os, p, <<"signal", "KILL">>)

\* A process handles or ignores the signal, or dies of it.
Reacts(p, s) ==
    /\ p \in Application \ setting.stuck /\ Running(p) /\ s \in os[p].signals \ {"KILL"}
    /\ \/ os' = [os EXCEPT ![p].signals = @ \ {s}]
       \/ os' = Dead(os, p, <<"signal", s>>)

\* init, or the parent, waits for a process; the target's parent is the launcher, the
\* launcher's the Frida helper.  A parent that lives need not.
Orphan(p) == CASE p = Target   -> ~Running(Launcher)
               [] p = Launcher -> TRUE
               [] OTHER        -> ~Running(Target)
Waits(p)  == /\ os[p].state = "zombie" /\ (p = Target => Orphan(p))
             /\ os' = Gone(os, p)

\* Frida reports "process-terminated", which _on_launcher_detached takes for normal.
Harm == setting.harmed /\ Running(Launcher) /\ os' = Dead(os, Launcher, <<"signal", "KILL">>)

System ==
    /\ \/ Harm
       \/ \E p \in Procs : \/ Exits(p) \/ Kills(p) \/ Waits(p)
                           \/ \E s \in Signals : Reacts(p, s)
    /\ UNCHANGED <<setting, at, socket, pc, ctl>>

-----------------------------------------------------------------------------
(* launcher.py *)

Spawns ==
    /\ at = "start"
    /\ os' = [os EXCEPT ![Target].state = "running"]
    /\ at' = "spawned" /\ UNCHANGED socket

\* signal.signal for SIGTERM and SIGINT
Arms == at = "spawned" /\ at' = "wait" /\ UNCHANGED <<os, socket>>

\* os.waitpid
Reaps ==
    /\ at = "wait" /\ os[Target].state = "zombie"
    /\ os' = Gone(os, Target) /\ at' = "reaped"
    /\ UNCHANGED socket

\* _send_status: connect never waits, and the record is written at once.
Connects == at = "reaped" /\ socket' = "open" /\ at' = "connected" /\ UNCHANGED os
Sends    == /\ at = "connected"
            /\ socket' = IF socket = "open" THEN "written" ELSE socket
            /\ at' = "sent" /\ UNCHANGED os

Leaves == /\ at = "sent"
          /\ os' = Dead(os, Launcher, <<"exit", 0>>)
          /\ at' = "left" /\ UNCHANGED socket

\* forward, while the handlers are installed; otherwise the signal ends the launcher.
Armed == at \in {"wait", "reaped", "connected", "sent"}
Forward(s) ==
    /\ s \in os[Launcher].signals \ {"KILL"}
    /\ IF Armed THEN /\ os' = [Sent(Target, s) EXCEPT ![Launcher].signals = @ \ {s}]
                     /\ UNCHANGED <<at, socket>>
       ELSE os' = Dead(os, Launcher, <<"signal", s>>) /\ UNCHANGED <<at, socket>>

LauncherStep ==
    /\ Running(Launcher)
    /\ Spawns \/ Arms \/ Reaps \/ Connects \/ Sends \/ Leaves \/ \E s \in Signals : Forward(s)
    /\ UNCHANGED <<setting, pc, ctl>>

-----------------------------------------------------------------------------
\* A timeout passes: in a system that is not slow, only when there is nothing more
\* that the system, or the launcher, is about to do.
Busy == \/ \E p \in Procs : \/ Running(p) /\ os[p].signals # {} /\ p \notin setting.stuck
                            \/ os[p].state = "zombie" /\ Orphan(p)
        \/ /\ Running(Launcher)
           /\ at \notin {"wait", "left"} \/ (at = "wait" /\ os[Target].state = "zombie")
TimeoutPasses == setting.slow \/ ~Busy

Go(where)     == pc' = where
GoOn(where, new) == pc' = where /\ ctl' = new

\* ordered_application_pids: those deepest_first lists, and the children never admitted; the
\* depth is -1 for a target that was not.  The order of PIDs of one depth is any.
DepthOf(p) == IF p \in Descendants THEN Depth[p] ELSE IF Admitted THEN 0 ELSE -1
Ordered_AdmittedOnly == {p \in setting.known : DepthOf(p) >= 0}
Ordered       == setting.known
Deepest(todo) == {p \in todo : \A q \in todo : DepthOf(q) <= DepthOf(p)}
OrderedDescendants == IF Admitted THEN Ordered \ {Target} ELSE Ordered

\* _shutdown_processes begins, once the gates are closed and what was pending runs.
Shutdown(c, pass, s) ==
    GoOn("signal", [c EXCEPT !.pass = pass, !.signal = s, !.todo = OrderedDescendants,
                             !.found = None,
                             !.errors = IF "gates" \in setting.denied THEN {"refused"} ELSE {}])

\* What run makes of the errors and of the status, when a cleanup returns.
Cleaned(errors) == errors = {}
Returns_LastWins ==
    LET c == [ctl EXCEPT !.result = ctl.found, !.failures = @ \cup ctl.errors]
    IN  IF ctl.pass < 2 /\ ~Cleaned(ctl.errors) THEN Shutdown(c, 2, "TERM") ELSE GoOn("end", c)
Returns_Again ==
    LET c == [ctl EXCEPT !.result = IF @ = None THEN ctl.found ELSE @,
                         !.failures = @ \cup ctl.errors]
    IN  IF ~Cleaned(ctl.errors) THEN Shutdown(c, ctl.pass + 1, "TERM") ELSE GoOn("end", c)
Returns ==
    LET c == [ctl EXCEPT !.result = IF @ = None THEN ctl.found ELSE @,
                         !.failures = @ \cup ctl.errors]
    IN  IF ctl.pass < 2 /\ ~Cleaned(ctl.errors) THEN Shutdown(c, 2, "TERM") ELSE GoOn("end", c)

-----------------------------------------------------------------------------
(* _receive_completion: in the run itself, and twice in a shutdown *)

Accept ==
    /\ pc = "accept" /\ socket \in {"open", "written"}
    /\ Go("read") /\ UNCHANGED <<os, socket, ctl>>

\* What follows when it raises, with the connection closed.
NotReceived ==
    CASE ctl.round = "run"    -> Shutdown([ctl EXCEPT !.failures = @ \cup {"controller"}], 1, "TERM")
      [] ctl.round = "first"  -> Go("wait") /\ UNCHANGED ctl
      [] ctl.round = "second" -> GoOn("launcher", [ctl EXCEPT !.errors = @ \cup {"no report"}])

AcceptTimeout_None ==
    /\ pc = "accept" /\ ctl.round # "run"
    /\ socket \in {"none", "closed"} /\ ctl.failures # {}
    /\ NotReceived /\ UNCHANGED <<os, socket>>
\* The timeout; or, once the run failed, the first poll of 50 ms that finds no connection.
AcceptTimeout ==
    /\ pc = "accept" /\ ctl.round # "run"
    /\ \/ setting.slow
       \/ socket \in {"none", "closed"} /\ (ctl.failures # {} \/ ~Busy)
    /\ NotReceived /\ UNCHANGED <<os, socket>>

\* The connection times out, or ends without a record because the launcher is gone.
ReadFails ==
    /\ pc = "read" /\ socket = "open"
    /\ (ctl.round # "run" /\ TimeoutPasses) \/ ~Running(Launcher)
    /\ socket' = "closed"
    /\ NotReceived /\ UNCHANGED os

Read ==
    LET c == [ctl EXCEPT !.received = TRUE, !.found = os[Target].fate] IN
    /\ pc = "read" /\ socket = "written"
    /\ socket' = "none"
    /\ CASE ctl.round = "run"    -> GoOn("drain", [c EXCEPT !.result = os[Target].fate])
         [] ctl.round = "first"  -> GoOn("wait", c)
         [] ctl.round = "second" -> GoOn("launcher", c)
    /\ UNCHANGED os

\* The root ended: the drain and the release, which may fail.
Drained == pc = "drain" /\ Go("target") /\ UNCHANGED <<os, socket, ctl>>

\* Instrumentation fails, or the root never comes.
RunFails ==
    /\ Shutdown([ctl EXCEPT !.failures = @ \cup {"run"}], 1, "TERM")
    /\ socket' = IF pc = "read" THEN "closed" ELSE socket
    /\ UNCHANGED os
Fails    == ctl.pass = 0 /\ pc \in {"accept", "read", "drain"} /\ RunFails
RootNeverComes == pc = "starting" /\ RunFails

\* Ctrl-C: what is read of a connection is lost with it.  In a cleanup it leaves the rest
\* to the finally clause; there it is the end.
Interrupt ==
    LET c == [ctl EXCEPT !.interrupts = @ - 1] IN
    /\ ctl.interrupts > 0 /\ pc # "end"
    /\ socket' = IF pc = "read" THEN "closed" ELSE socket
    /\ CASE ctl.pass = 2 -> GoOn("end", [c EXCEPT !.raised = TRUE, !.pass = 3])
         [] ctl.pass = 1 \/ (ctl.pass = 0 /\ setting.start = "launch failed") ->
                            Shutdown([c EXCEPT !.raised = TRUE], 2, "TERM")
         [] OTHER -> Shutdown([c EXCEPT !.failures = IF Admitted THEN @ ELSE @ \cup {"not started"}], 1, "INT")
    /\ UNCHANGED os
Abandoned == ctl.pass = 3

-----------------------------------------------------------------------------
(* _shutdown_processes *)

SignalOne(p, s) ==
    /\ os' = IF Denied(p) THEN os ELSE Sent(p, s)
    /\ ctl' = [ctl EXCEPT !.todo = @ \ {p}, !.errors = IF Denied(p) THEN @ \cup {"refused"} ELSE @]

\* The descendants, deepest first, each if it is still alive.
SignalNext ==
    /\ pc = "signal"
    /\ \E p \in Deepest(ctl.todo) : SignalOne(p, ctl.signal)
    /\ UNCHANGED <<pc, socket>>

Receives_Again(round, otherwise) ==
    IF Admitted THEN GoOn("accept", [ctl EXCEPT !.round = round])
    ELSE GoOn(otherwise, ctl)
Receives(round, otherwise) ==
    IF ~ctl.received /\ Admitted THEN GoOn("accept", [ctl EXCEPT !.round = round])
    ELSE GoOn(otherwise, ctl)

\* Then the launcher, which forwards, or the target when there is none.
SignalRoot ==
    /\ pc = "signal" /\ ctl.todo = {}
    /\ os' = IF Alive(Launcher) THEN Sent(Launcher, ctl.signal)
             ELSE IF Admitted THEN Sent(Target, ctl.signal) ELSE os
    /\ Receives("first", "wait") /\ UNCHANGED socket

AllGone == \A p \in setting.known : ~Alive(p)
Wait ==
    /\ pc = "wait" /\ (AllGone \/ TimeoutPasses)
    /\ GoOn("kill", [ctl EXCEPT !.todo = Ordered]) /\ UNCHANGED <<os, socket>>

KillNext ==
    /\ pc = "kill"
    /\ \E p \in Deepest(ctl.todo) : SignalOne(p, "KILL")
    /\ UNCHANGED <<pc, socket>>

Killed ==
    /\ pc = "kill" /\ ctl.todo = {}
    /\ Receives("second", "launcher") /\ UNCHANGED <<os, socket>>

-----------------------------------------------------------------------------
(* _wait_process_gone of the target, of the launcher, and of each process *)

\* _verify_completed_processes, the target
TargetGone ==
    /\ pc = "target" /\ (Alive(Target) => TimeoutPasses)
    /\ GoOn("launcher", [ctl EXCEPT !.errors = IF Alive(Target) THEN @ \cup {Target} ELSE @])
    /\ UNCHANGED <<os, socket>>

LauncherGone ==
    /\ pc = "launcher" /\ ~Alive(Launcher)
    /\ GoOn("each", [ctl EXCEPT !.todo = IF ctl.pass = 0 THEN {} ELSE Ordered])
    /\ UNCHANGED <<os, socket>>

LauncherStays ==
    /\ pc = "launcher" /\ Alive(Launcher) /\ TimeoutPasses
    /\ os' = Sent(Launcher, "KILL")
    /\ Go("launcher killed") /\ UNCHANGED <<socket, ctl>>

LauncherKilled ==
    /\ pc = "launcher killed" /\ (Alive(Launcher) => TimeoutPasses)
    /\ GoOn("each", [ctl EXCEPT !.todo = IF ctl.pass = 0 THEN {} ELSE Ordered,
                                !.errors = IF Alive(Launcher) THEN @ \cup {Launcher} ELSE @])
    /\ UNCHANGED <<os, socket>>

EachGone ==
    /\ pc = "each"
    /\ \E p \in Deepest(ctl.todo) :
           /\ Alive(p) => TimeoutPasses
           /\ ctl' = [ctl EXCEPT !.todo = @ \ {p}, !.errors = IF Alive(p) THEN @ \cup {p} ELSE @]
    /\ UNCHANGED <<os, socket, pc>>

AllVerified == pc = "each" /\ ctl.todo = {} /\ Returns /\ UNCHANGED <<os, socket>>

-----------------------------------------------------------------------------
\* The launcher did, for a target that is to be known when the run shuts down.
Spawned == Admitted \/ (setting.start = "starting" /\ Target \in setting.known)

Init ==
    /\ setting \in Settings
    /\ os = [p \in Procs |->
                [state   |-> IF p # Target \/ Spawned THEN "running" ELSE "none",
                 fate    |-> None, signals |-> {}]]
    /\ at = IF Spawned THEN "spawned" ELSE IF setting.start = "starting" THEN "start" ELSE "sent"
    /\ socket = "none"
    /\ pc = CASE setting.start = "starting"      -> "starting"
              [] setting.start = "running"       -> "accept"
              [] setting.start = "launch failed" -> "launcher"
    /\ ctl = [round |-> "run", pass |-> 0, signal |-> "TERM", todo |-> {}, found |-> None,
              result |-> IF setting.start = "launch failed" THEN <<"exit", 127>> ELSE None,
              received |-> FALSE, errors |-> {}, failures |-> {},
              interrupts |-> setting.interrupts, raised |-> FALSE]

Main == /\ \/ RootNeverComes \/ Accept \/ AcceptTimeout \/ ReadFails \/ Read \/ Drained
           \/ SignalNext \/ SignalRoot \/ Wait \/ KillNext \/ Killed
           \/ TargetGone \/ LauncherGone \/ LauncherStays \/ LauncherKilled \/ EachGone \/ AllVerified
        /\ UNCHANGED <<setting, at>>

Next == Main \/ ((Fails \/ Interrupt) /\ UNCHANGED <<setting, at>>) \/ LauncherStep \/ System

Spec == Init /\ [][Next]_vars

\* The threads run, signals arrive, and a process that nobody else has to wait for is
\* waited for.  The application, Ctrl-C and failures owe nothing.
FairSpec == /\ Spec /\ WF_vars(Main) /\ WF_vars(LauncherStep)
            /\ \A p \in Procs : /\ WF_vars(Kills(p) /\ System)
                                /\ WF_vars((\E s \in Signals : Reacts(p, s)) /\ System)
                                /\ WF_vars(Orphan(p) /\ Waits(p) /\ System)

-----------------------------------------------------------------------------
\* The variables keep their types.
TypeOK ==
    /\ setting \in Settings
    /\ os \in [Procs -> Process]
    /\ at \in {"start", "spawned", "wait", "reaped", "connected", "sent", "left"}
    /\ socket \in {"none", "open", "written", "closed"}
    /\ pc \in {"starting", "accept", "read", "drain", "signal", "wait", "kill", "target", "launcher",
              "launcher killed", "each", "end"}
    /\ ctl \in Control

\* Who the run answers for: once the root completed, or never started, the descendants are
\* let go.
Answerable == {Launcher} \cup IF ctl.pass > 0 THEN setting.known
                              ELSE IF Admitted THEN {Target} ELSE {}

\* When run returns, whoever it answers for is gone or named by a failure, whatever
\* ignored signals, whenever the timeouts passed and wherever Ctrl-C hit, short of a
\* Ctrl-C in the pass of the finally clause.
NobodyLeftUnreported ==
    pc = "end" /\ ~Abandoned => \A p \in Answerable : Alive(p) => p \in ctl.failures

\* The status reported is how the target ended; once the target was admitted it is only
\* missing when the launcher was lost before it reported or the connection was closed on it,
\* when run raises, or when a timeout passed too early.
StatusIsTheTargets ==
    /\ pc = "end" /\ Admitted /\ ctl.result # None => ctl.result = os[Target].fate
    /\ pc = "end" /\ Admitted /\ ctl.result = None =>
           \/ os[Launcher].fate # <<"exit", 0>> \/ socket = "closed" \/ ctl.raised \/ setting.slow

\* A run that is interrupted once, on a system that is not slow, with no process that is stuck
\* or cannot be signalled and no gate that cannot be closed, ends with nobody left, with the
\* status of the target, and without a failure (test_ctrl_c_forwards_signal_and_reaps_-
\* launcher_target), provided that the launcher had its handlers and the record was not
\* being read.
InterruptIsClean ==
    /\ pc = "end" /\ Admitted /\ ~setting.slow /\ setting.stuck = {} /\ setting.denied = {}
    /\ ~ctl.raised /\ os[Launcher].fate = <<"exit", 0>> /\ socket # "closed"
    /\ "run" \notin ctl.failures
    => ctl.failures = {} /\ ctl.result # None

\* Once the target is over, or a cleanup begins, run returns.
RunEnds == (os[Target].state \in {"zombie", "gone"} \/ ctl.pass > 0) /\ ~setting.harmed ~> pc = "end"
=============================================================================
