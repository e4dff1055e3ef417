-------------------------- MODULE StatementTracker --------------------------
(***************************************************************************)
(* analysis/statement_tracker.py: lifetimes of prepared statements, rebuilt *)
(* from lifecycle events.  An execution is handed on (emitted) at most once *)
(* and only when it is safe to: a bounded window of recent executions keeps *)
(* what may still be contradicted, and counters say what was left out.      *)
(*                                                                         *)
(* The events are any sequence of any events; nothing is assumed of the     *)
(* agent.  A statement is a (process image, pid, sqlite3_stmt* ) key, a      *)
(* source a (module, path, base, database) identity, a report the rest of a *)
(* statement_executed payload, measured when its metrics are not null.      *)
(***************************************************************************)
EXTENDS Integers, Sequences, FiniteSets, Functions

CONSTANTS Statements, Sources,
          Threads,    \* what two statement_started events of one execution may differ in
          Reports,    \* what two statement_executed events may differ in
          Measured,   \* the reports with complete metrics
          Numbers,    \* execution numbers
          Window,     \* _RECENT_EXECUTION_WINDOW
          MaxEvents   \* bound on the events consumed, for model checking

ASSUME EventsAssumption == Measured \subseteq Reports /\ Numbers \subseteq Nat \ {0}
ASSUME WindowAssumption == Window \in Nat \ {0}
ASSUME BoundAssumption  == MaxEvents \in Nat

Captures == {"whole", "truncated", "failed"}
Counters == {"observed", "metric_bearing", "null_metric", "unmatched", "truncated",
             "capture_failed", "duplicate", "conflicted", "unfinished"}

\* A counter that makes an evaluation inconclusive (DataQuality.incomplete_reasons).
Losses == {"null_metric", "unmatched", "truncated", "capture_failed", "conflicted", "unfinished"}

VARIABLES active,      \* _active
          occurrences, \* _next_occurrence
          executions,  \* what was emitted, each with the times it was
          quality,     \* the counters
          finished,    \* _finished
          consumed,    \* events consumed
          told,        \* history: the executions reported within a lifetime
          begun        \* history: the executions started within a lifetime

history == <<told, begun>>
vars    == <<active, occurrences, executions, quality, finished, consumed, history>>

\* _PendingExecution and _Lifetime
Entry    == [number: Numbers, report: Reports, candidate: {"tracked", "none"}]
Lifetime == [occurrence: Nat, source: Sources, capture: Captures, pending: Seq(Entry),
             started: UNION {[ns -> Threads] : ns \in SUBSET Numbers}, committed: Nat]

\* TrackedExecution, with the execution it stands for
Execution == [occurrence: Nat, capture: Captures, number: Numbers, report: Reports]

Told(l, n, r) == [occurrence |-> l.occurrence, capture |-> l.capture, number |-> n, report |-> r]

Init ==
    /\ active = << >> /\ occurrences = 0
    /\ executions = << >> /\ quality = [c \in Counters |-> 0]
    /\ finished = FALSE /\ consumed = 0
    /\ told = {} /\ begun = {}

-----------------------------------------------------------------------------
Put(f, k, v) == [x \in DOMAIN f \cup {k} |-> IF x = k THEN v ELSE f[x]]
Drop(f, ks)  == [x \in DOMAIN f \ ks |-> f[x]]

Count(names) == [c \in Counters |-> quality[c] + IF c \in names THEN 1 ELSE 0]

\* _emit for each of es
Emitted(es) == [x \in DOMAIN executions \cup es |->
                   (IF x \in DOMAIN executions THEN executions[x] ELSE 0)
                       + (IF x \in es THEN 1 ELSE 0)]

\* What _flush_lifetime emits and counts, for the lifetimes of ss.
Safe(l) == {Told(l, p.number, p.report) : p \in {q \in Range(l.pending) : q.candidate = "tracked"}}
Unfinished(ss) == UNION {{s} \X DOMAIN active[s].started : s \in ss}

Flush_KeepsStarted(ss) ==
    /\ executions' = Emitted(UNION {Safe(active[s]) : s \in ss})
    /\ quality' = quality

\* _flush_lifetime.  The lifetimes are dropped by every caller.
Flush(ss) ==
    /\ executions' = Emitted(UNION {Safe(active[s]) : s \in ss})
    /\ quality' = [quality EXCEPT !["unfinished"] = @ + Cardinality(Unfinished(ss))]

Forget_Keeps(ss) == active
Forget(ss) == Drop(active, ss)

Consume == ~finished /\ consumed < MaxEvents /\ consumed' = consumed + 1

\* _same_lifetime
Matches(s, source) == s \in DOMAIN active /\ active[s].source = source

-----------------------------------------------------------------------------
\* _consume_prepared: a pointer may be reused before its finalization is seen.
Prepared(s, source, capture) ==
    /\ Consume
    /\ Flush({s} \cap DOMAIN active)
    /\ occurrences' = occurrences + 1
    /\ active' = Put(active, s, [occurrence |-> occurrences + 1, source |-> source,
                                 capture |-> capture, pending |-> << >>,
                                 started |-> << >>, committed |-> 0])
    /\ UNCHANGED <<finished, history>>

\* _consume_finalized
Finalized(s, source) ==
    /\ Consume
    /\ IF Matches(s, source) THEN Flush({s}) /\ active' = Forget({s})
                             ELSE UNCHANGED <<active, executions, quality>>
    /\ UNCHANGED <<occurrences, finished, history>>

\* _consume_started: the first start of an execution is remembered, unless the
\* execution was reported before it.
PendingNumbers(l) == {p.number : p \in Range(l.pending)}
Past(l, n) == n <= l.committed \/ n \in PendingNumbers(l)

Started(s, source, n, t) ==
    LET l == active[s] IN
    /\ Consume
    /\ Matches(s, source)
    /\ begun' = begun \cup {<<l.occurrence, n>>}
    /\ IF n \in DOMAIN l.started
       THEN /\ quality' = Count({IF l.started[n] = t THEN "duplicate" ELSE "conflicted"})
            /\ UNCHANGED active
       ELSE IF Past(l, n)
       THEN quality' = Count({"conflicted"}) /\ UNCHANGED active
       ELSE active' = [active EXCEPT ![s].started = Put(l.started, n, t)] /\ UNCHANGED quality
    /\ UNCHANGED <<occurrences, executions, finished, told>>

StartedUnmatched(s, source) ==
    /\ Consume
    /\ ~Matches(s, source)
    /\ quality' = Count({"unmatched"})
    /\ UNCHANGED <<active, occurrences, executions, finished, history>>

\* _consume_executed, by outcome.
Seen(r) == {"observed", IF r \in Measured THEN "metric_bearing" ELSE "null_metric"}

ExecutedUnmatched(s, source, r) ==
    /\ Consume
    /\ ~Matches(s, source)
    /\ quality' = Count(Seen(r) \cup {"unmatched"})
    /\ UNCHANGED <<active, occurrences, executions, finished, history>>

Executed(s, source, n, r) ==
    /\ Consume
    /\ Matches(s, source)
    /\ told' = told \cup {Told(active[s], n, r)}
    /\ UNCHANGED <<occurrences, finished, begun>>

Disputed_KeepsCandidate(pending, n) == pending
Disputed(pending, n) ==
    [k \in DOMAIN pending |-> IF pending[k].number = n
                              THEN [pending[k] EXCEPT !.candidate = "none"] ELSE pending[k]]

\* The execution is still in the window: the same report again is harmless, a
\* different one makes neither of them safe.
ExecutedAgain(s, source, n, r) ==
    LET l    == active[s]
        same == \E p \in Range(l.pending) : p.number = n /\ p.report = r
    IN  /\ Executed(s, source, n, r)
        /\ n \in PendingNumbers(l)
        /\ quality' = Count(Seen(r) \cup {IF same THEN "duplicate" ELSE "conflicted"})
        /\ active' = [active EXCEPT ![s] = [l EXCEPT
                         !.started = Drop(l.started, {n}),
                         !.pending = IF same THEN l.pending ELSE Disputed(l.pending, n)]]
        /\ UNCHANGED executions

Late_Never(l, n)  == FALSE
Late_Strict(l, n) == n < l.committed /\ n \notin PendingNumbers(l)
Late(l, n) == n <= l.committed /\ n \notin PendingNumbers(l)

\* It may have left the window: it cannot be told from a contradiction.
ExecutedLate(s, source, n, r) ==
    LET l == active[s] IN
    /\ Executed(s, source, n, r)
    /\ Late(l, n)
    /\ quality' = Count(Seen(r) \cup {"conflicted"})
    /\ active' = [active EXCEPT ![s].started = Drop(l.started, {n})]
    /\ UNCHANGED executions

Excluded_Silent(l) == {}
Excluded(l) == IF l.capture = "failed" THEN {"capture_failed"}
               ELSE IF l.capture = "truncated" THEN {"truncated"} ELSE {}

\* The window is one too long for the time of one append.
Overflows_OffByOne(pending) == Len(pending) > Window + 1
Overflows(pending) == Len(pending) > Window

Max2(m, n) == IF m < n THEN n ELSE m

IsCandidate_AnyCapture(l, r) == r \in Measured
IsCandidate(l, r) == l.capture = "whole" /\ r \in Measured
NewEntry(l, n, r) == [number |-> n, report |-> r,
                      candidate |-> IF IsCandidate(l, r) THEN "tracked" ELSE "none"]

\* A first report enters the window; the oldest one leaves it and is emitted
\* if nothing contradicted it.
ExecutedFirst(s, source, n, r) ==
    LET l       == active[s]
        pending == Append(l.pending, NewEntry(l, n, r))
        oldest  == Head(pending)
        later   == [l EXCEPT !.started = Drop(l.started, {n})]
    IN  /\ Executed(s, source, n, r)
        /\ n \notin PendingNumbers(l) /\ ~Late(l, n)
        /\ quality' = Count(Seen(r) \cup Excluded(l))
        /\ IF Overflows(pending)
           THEN /\ active' = [active EXCEPT ![s] = [later EXCEPT
                                 !.pending   = Tail(pending),
                                 !.committed = Max2(l.committed, oldest.number)]]
                /\ executions' = IF oldest.candidate = "tracked"
                                 THEN Emitted({Told(l, oldest.number, oldest.report)})
                                 ELSE executions
           ELSE /\ active' = [active EXCEPT ![s] = [later EXCEPT !.pending = pending]]
                /\ UNCHANGED executions

\* finish
Finish ==
    /\ ~finished
    /\ finished' = TRUE
    /\ Flush(DOMAIN active)
    /\ active' = << >>
    /\ UNCHANGED <<occurrences, consumed, history>>

Next ==
    \/ \E s \in Statements, source \in Sources :
          \/ \E capture \in Captures : Prepared(s, source, capture)
          \/ Finalized(s, source)
          \/ StartedUnmatched(s, source)
          \/ \E r \in Reports : ExecutedUnmatched(s, source, r)
          \/ \E n \in Numbers, t \in Threads : Started(s, source, n, t)
          \/ \E n \in Numbers, r \in Reports :
                \/ ExecutedAgain(s, source, n, r)
                \/ ExecutedLate(s, source, n, r)
                \/ ExecutedFirst(s, source, n, r)
    \/ Finish

Spec == Init /\ [][Next]_vars

-----------------------------------------------------------------------------
\* The state has its shape, the window its bound, and no lifetime outlives finish.
TypeOK ==
    /\ DOMAIN active \subseteq Statements
    /\ \A s \in DOMAIN active : active[s] \in Lifetime /\ Len(active[s].pending) <= Window
    /\ occurrences \in Nat /\ consumed \in Nat /\ finished \in BOOLEAN
    /\ DOMAIN executions \subseteq Execution
    /\ \A x \in DOMAIN executions : executions[x] \in Nat
    /\ quality \in [Counters -> Nat]
    /\ told \subseteq Execution /\ begun \subseteq Nat \X Numbers
    /\ finished => active = << >>

SameExecution(x, y) == x.occurrence = y.occurrence /\ x.number = y.number

\* No execution is emitted twice, whether by the window and the flush, by two
\* flushes, or with two reports (committed_execution_number guards the window's edge).
EmittedOnce ==
    \A x \in DOMAIN executions :
        /\ executions[x] = 1
        /\ \A y \in DOMAIN executions : SameExecution(x, y) => x = y

\* What is emitted was reported in that lifetime, with metrics, and its SQL was
\* captured whole.
NothingInvented ==
    \A x \in DOMAIN executions : x \in told /\ x.report \in Measured /\ x.capture = "whole"

\* Two different reports of one execution always show in the counters, wherever
\* the window stood between them ("so CI remains fail-closed").
ConflictsSurface ==
    quality["conflicted"] = 0 =>
        \A x, y \in told : SameExecution(x, y) => x = y

\* When no counter of a loss is set, every execution reported was emitted, and
\* every execution started was reported.
Conclusive == \A c \in Losses : quality[c] = 0
ConclusiveIsComplete ==
    finished /\ Conclusive =>
        /\ DOMAIN executions = told
        /\ \A b \in begun : \E x \in told : b = <<x.occurrence, x.number>>

\* An execution that is emitted is one that nothing reported so far contradicts.
EmitsUndisputed(e, f) ==
    \A x \in DOMAIN f \ DOMAIN e : \A y \in told : SameExecution(x, y) => x = y
NothingDisputedEmitted == [][EmitsUndisputed(executions, executions')]_vars
=============================================================================
