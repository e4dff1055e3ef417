----------------------------- MODULE Evaluation -----------------------------
(***************************************************************************)
(* What SQLiteWatch concludes from a finished run: analysis/aggregation.py   *)
(* (sums per query, reasons to call the evaluation incomplete),              *)
(* analysis/rules.py, outcome.py and the reduction of doctor.py.  The four   *)
(* metrics are one: a limit on it stands for the two threshold rules, and    *)
(* "autoindex" for the rule on its total.                                    *)
(***************************************************************************)
EXTENDS Integers, FiniteSets, FiniteSetsExt

CONSTANT Nothing    \* None

-----------------------------------------------------------------------------
(* Executions are [query, amount, times] records; the builder of a query is *)
(* what _AggregateBuilder.add leaves after all of them, in any order.        *)

Queries(executions) == {x.query : x \in executions}
Of(q, executions)   == {x \in executions : x.query = q}
Times(x)  == x.times
Volume(x) == x.times * x.amount
Aggregate(q, executions) ==
    [query      |-> q,
     executions |-> MapThenSumSet(Times, Of(q, executions)),
     total      |-> MapThenSumSet(Volume, Of(q, executions)),
     highest    |-> Max({x.amount : x \in Of(q, executions)})]
Aggregates(executions) == {Aggregate(q, executions) : q \in Queries(executions)}

\* RuleConfig and evaluate_rules
Enabled(config) == config.limit # Nothing \/ config.autoindex
Violations_AtLimit(aggregates, config) ==
    {<<"LIMIT", a.query>> : a \in {b \in aggregates : config.limit # Nothing /\ b.highest >= config.limit}}
Violations(aggregates, config) ==
    {<<"LIMIT", a.query>> : a \in {b \in aggregates : config.limit # Nothing /\ b.highest > config.limit}}
        \cup {<<"AUTOINDEX", a.query>> : a \in {b \in aggregates : config.autoindex /\ b.total > 0}}

\* resolve_outcome, of a run [status, failed, code, signal], the reasons that make
\* its evaluation incomplete, and the violations.
InstrumentationFailed_StatusOnly(run, config, reasons) ==
    run.failed \/ run.status = "FAILED" \/ (Enabled(config) /\ run.status # "ACTIVE")
InstrumentationFailed(run, config, reasons) ==
    \/ run.failed \/ run.status = "FAILED"
    \/ Enabled(config) /\ (run.status # "ACTIVE" \/ reasons # {})

TargetCode(run) == IF run.signal # Nothing THEN 128 + run.signal
                   ELSE IF run.code # Nothing THEN run.code ELSE 0

ExitCode(run, config, reasons, violations) ==
    IF InstrumentationFailed(run, config, reasons) THEN 70
    ELSE IF TargetCode(run) # 0 THEN TargetCode(run)
    ELSE IF violations # {} THEN 1 ELSE 0

-----------------------------------------------------------------------------
(* reduce_events of doctor.py.  `modules` are the last capabilities reported, *)
(* [id, complete, detected]; `prepared` the modules of the preparations, one  *)
(* entry each; `fatal` and `partial` say whether a reason of that kind arose.  *)

DoctorStatus_Borrows(modules, prepared, fatal, partial) ==
    IF fatal THEN "FAILED"
    ELSE IF {m \in modules : m.complete} = {} THEN "DETECTED_UNSUPPORTED"
    ELSE IF prepared = {} THEN "NO_ACTIVITY" ELSE "ACTIVE"
DoctorStatus(modules, prepared, fatal, partial) ==
    LET complete   == {m.id : m \in {x \in modules : x.complete}}
        incomplete == {m \in prepared : m \notin complete}
    IN  IF fatal THEN "FAILED"
        ELSE IF partial \/ incomplete # {} THEN "PARTIAL"
        ELSE IF \A m \in modules : ~m.detected THEN "NOT_DETECTED"
        ELSE IF complete = {} THEN "DETECTED_UNSUPPORTED"
        ELSE IF prepared = {} THEN "NO_ACTIVITY"
        ELSE "ACTIVE"

\* resolve_doctor_outcome
DoctorCode(run, status) == IF status # "ACTIVE" THEN 70 ELSE TargetCode(run)
=============================================================================
