------------------------------ MODULE Pipeline ------------------------------
(***************************************************************************)
(* From the application's SQLite calls to the verdict: the hooks of one     *)
(* process image (AgentHooks), whose records the statement tracker consumes  *)
(* in order, and the evaluation of the finished run (Evaluation).            *)
(*                                                                         *)
(* Between them the model has what LifecycleTransport shows: the records     *)
(* arrive in order, none twice; a hook goes on when those it waited for have  *)
(* arrived, or when it was given another thread's acknowledgement; when the   *)
(* process ends, the last records and messages may be lost.                  *)
(***************************************************************************)
EXTENDS AgentHooks

CONSTANTS Texts,     \* the SQL of each statement prepared, by its number
          Configs,   \* RuleConfigs: [limit: Nat \cup {Null}, autoindex: BOOLEAN]
          Window     \* _RECENT_EXECUTION_WINDOW

ASSUME WindowAssumption == Window \in Nat \ {0}
ASSUME ConfigsAssumption == Configs \subseteq [limit: Nat \cup {Null}, autoindex: BOOLEAN]

VARIABLES active, occurrences, executions, quality, finished, consumed, cited, begun, \* the tracker
          lifeOf,   \* history: the statement whose preparation opened each lifetime
          orderly   \* history: no thread interfered with another's execution, and the
                    \* process ended at rest

trackerVars == <<active, occurrences, executions, quality, finished, consumed, cited, begun>>
historyVars == <<lifeOf, orderly>>
vars == <<hookVars, trackerVars, historyVars>>

Tracker == INSTANCE StatementTracker WITH
    Statements <- Pointers, Sources <- Modules, Reports <- Counts \cup {Null}, Measured <- Counts,
    Numbers <- 1..MaxNumber, MaxEvents <- 1000, told <- cited

Verdict == INSTANCE Evaluation WITH Nothing <- Null

Init ==
    /\ HooksInit
    /\ Tracker!Init
    /\ lifeOf = << >> /\ orderly = TRUE

\* AnalysisReducer.consume
Consumes(e) ==
    \/ e.type = "prepared"  /\ Tracker!Prepared(e.ptr, e.module, "whole")
    \/ e.type = "started"   /\ \/ Tracker!Started(e.ptr, e.module, e.number, e.value)
                               \/ Tracker!StartedUnmatched(e.ptr, e.module)
    \/ e.type = "executed"  /\ \/ Tracker!ExecutedUnmatched(e.ptr, e.module, e.value)
                               \/ Tracker!ExecutedFirst(e.ptr, e.module, e.number, e.value)
                               \/ Tracker!ExecutedAgain(e.ptr, e.module, e.number, e.value)
                               \/ Tracker!ExecutedLate(e.ptr, e.module, e.number, e.value)
    \/ e.type = "finalized" /\ Tracker!Finalized(e.ptr, e.module)

Consume ==
    /\ wire # << >>
    /\ wire' = Tail(wire)
    /\ Consumes(Head(wire))
    /\ lifeOf' = IF Head(wire).type = "prepared" THEN Append(lifeOf, Head(wire).number) ELSE lifeOf
    /\ UNCHANGED <<setting, app, frames, agent, told, unheard, orderly>>

\* AnalysisReducer.finish
Finish ==
    /\ app.exited /\ wire = << >>
    /\ Tracker!Finish
    /\ UNCHANGED <<hookVars, historyVars>>

\* A call begins on p, or p is handed out: nobody else is on p, and an execution is
\* stepped and reset by the thread that began it.  Modules go, and the process
\* ends, when no call is under way and no execution runs.  Counters stay readable.
\* One thread at a time is at a boundary, and no message is lost at the end.
Busy(p) == \E t \in Threads : \E f \in Range(frames[t]) : f.ptr = p
Orderly ==
    /\ \A t \in Threads : Len(frames'[t]) > Len(frames[t]) =>
          LET f == Head(frames'[t]) IN
          ~Busy(f.ptr) /\ (f.op \in {"step", "reset"} => app.lib[f.ptr].runner \in {t, Null})
    /\ \A p \in Pointers : /\ app'.lives > app.lives /\ app'.lib[p] # app.lib[p] => ~Busy(p)
                           /\ Live(p) => app.lib[p].counter < Wrap \div 2
    /\ app'.exited \/ app'.loaded # app.loaded =>
          \A p \in Pointers : ~Busy(p) /\ (Live(p) => ~Running(app.lib[p]))
    /\ \A t, u \in Threads : t # u /\ Waits(t)' => ~Waits(u)'
    /\ app'.exited => unheard' = {}

Next ==
    \/ HooksNext /\ orderly' = (orderly /\ Orderly) /\ UNCHANGED <<trackerVars, lifeOf>>
    \/ Consume
    \/ Finish

Spec == Init /\ [][Next]_vars

-----------------------------------------------------------------------------
\* What the finished run amounts to.

Emitted == {[life |-> lifeOf[x.occurrence], n |-> x.number, work |-> x.report] : x \in DOMAIN executions}
Measured == {[query |-> Texts[lifeOf[x.occurrence]], amount |-> x.report, times |-> executions[x],
              id |-> <<x.occurrence, x.number>>] : x \in DOMAIN executions}

\* DataQuality.incomplete_reasons
Reasons == {c \in Tracker!Losses : quality[c] > 0}
               \cup IF told.lossy THEN {"instrumentation_data_loss"} ELSE {}

Run == [status |-> told.status, failed |-> told.fatal, code |-> 0, signal |-> Null]
Code(config) == Verdict!ExitCode(Run, config, Reasons,
                                 Verdict!Violations(Verdict!Aggregates(Measured), config))

Capabilities == {[id |-> m, complete |-> Complete(m), detected |-> Detected(m)] : m \in setting.modules}
DoctorCode == Verdict!DoctorCode(Run, Verdict!DoctorStatus(
    Capabilities, {agent.known[life].module : life \in Range(lifeOf)}, told.fatal \/ told.status = "FAILED",
    told.status = "PARTIAL"))

\* The process took none of the agent's statuses and errors with it.
Heard == unheard = {}
\* The modules of the application's statements have the hooks of prepare and step.
Observed == \A m \in app.used \cup Range(setting.inherited) : {"prepare", "step"} \subseteq Hooked[m]

AllComplete(ms) == \A m \in ms : Complete(m)
TooMuch(x, config) == \/ config.limit # Null /\ x.work > config.limit
                      \/ config.autoindex /\ x.work > 0

-----------------------------------------------------------------------------
\* The state has its shape.
TypeOK ==
    /\ setting \in Settings /\ orderly \in BOOLEAN
    /\ app \in [lib: [Pointers -> Statement \cup {NoStatement}], lives: Nat,
                loaded: SUBSET Modules, exited: BOOLEAN, used: SUBSET Modules,
                truth: SUBSET [life: Nat \cup Pointers, n: Nat, work: Nat]]
    /\ frames \in [Threads -> Seq(Call)]
    /\ DOMAIN agent.contexts \subseteq Pointers
    /\ \A p \in DOMAIN agent.contexts : agent.contexts[p] \in DOMAIN agent.known
    /\ \A c \in DOMAIN agent.known : agent.known[c] \in Context
    /\ agent.broken \in BOOLEAN /\ agent.stuck \subseteq Threads
    /\ told \in [status: {"FAILED", "PARTIAL", "ACTIVE", "DETECTED_UNSUPPORTED", "NOT_DETECTED"},
                 lossy: BOOLEAN, fatal: BOOLEAN]
    /\ Tracker!TypeOK

\* A report without a reason to call it incomplete has every execution of the
\* application, each once, under its own statement and with the work it did: whatever
\* the threads, the reuse of pointers, a failed transport and the end of the process made
\* of the hooks.  It speaks of modules that the agent hooked, and the process must not have
\* taken the agent's last message with it (AbruptExit).
ReportIsTrue ==
    finished /\ Heard /\ Observed /\ Reasons = {} /\ told.status = "ACTIVE" /\ ~told.fatal =>
        Emitted = app.truth

\* Exit code 0 with a rule enabled says that no execution of the application was over
\* the limit ("incomplete measurement fails safely instead of reporting a misleading
\* pass"), 1 that one was, in the same circumstances.
VerdictIsTrue ==
    finished /\ Heard /\ Observed => \A config \in Configs :
        /\ Code(config) = 0 => \A x \in app.truth : ~TooMuch(x, config)
        /\ Code(config) = 1 => \E x \in app.truth : TooMuch(x, config)

\* What the README says, of any modules.
NoMisleadingPass ==
    finished /\ Heard => \A config \in Configs :
        Code(config) = 0 => \A x \in app.truth : ~TooMuch(x, config)

\* An application that hands its statements over between executions only, is at one
\* boundary at a time, and uses modules that are complete, is judged: the hooks do
\* not accuse it of a conflict, and lose nothing, so that 70 is not the answer to everything.
JudgedWhenOrderly ==
    finished /\ orderly /\ app.lives > 0 /\ setting.inherited = << >> /\ AllComplete(app.used) =>
        \A config \in Configs :
            Code(config) = IF \E x \in app.truth : TooMuch(x, config) THEN 1 ELSE 0

\* "check" succeeds only when every module with a prepare hook that the application
\* prepared statements with is complete in itself, whatever the threads do and however
\* the process ends, unless it takes the agent's last message with it.
DoctorSound ==
    finished /\ setting.doctor /\ Heard /\ DoctorCode = 0 =>
        app.used # {} /\ AllComplete({m \in app.used : "prepare" \in Hooked[m]})

\* It does succeed when all that an orderly application prepared with is complete: no
\* preparation is missed, and no module goes while its statements look busy.
DoctorSucceeds ==
    finished /\ setting.doctor /\ orderly /\ app.used # {} /\ AllComplete(app.used) => DoctorCode = 0
=============================================================================
