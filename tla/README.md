# SQLiteWatch in TLA+

SQLiteWatch starts an application under Frida, follows every process it forks
or execs, loads an agent into each that reports what SQLite does, and folds the
reports into an evaluation that a CI job may act on. The two promises behind a
verdict are that no process ran unobserved without the report saying so, and
that no statement execution was lost, repeated or invented without a counter
saying so. These modules model the code that has to keep them.

## The system's parts

| Part | State it keeps | Operations | Talks to | Hard behaviour |
|---|---|---|---|---|
| `process_tree.py` registry | processes, images, caps, completeness | admit root and child, marks, aggregate verdict | called by the controller's main thread | PID reuse, exec versus fork, caps, order of marks |
| `process.py` controller | child, notice and event queues, child keys, awaited execs, errors | wait for root, service, instrument, drain, release, shut down | registry, backend, launcher socket | two threads, Ctrl-C, timeouts, races with the drain |
| `frida_backend.py` | streams, gates, pending acknowledgements, generation | attach, gate, load, resume, detach, batches | Frida, agents, controller callbacks | stale callbacks, asynchronous gates, watchdog |
| `launcher.py` | the target's PID | spawn, wait, report | controller over a socket | signals, launch failure |
| agent (`sqlitewatch_agent.js`) | statements, running executions, lifecycle queue | SQLite hooks, flush, wait for acknowledgement | backend | threads of the application, queue limit |
| `statement_tracker.py` | lifetimes, window of recent executions, counters | consume, finish | fed by the event stream | duplicates, contradictions, pointer reuse |
| `aggregation.py`, `rules.py`, `outcome.py` | sums per query, data quality | consume, evaluate, exit code | tracker, report | when an evaluation is conclusive |
| `doctor.py` | none | reduce a run to a status and exit code | controller, report | what may vouch for what |
| CLI, reporting, protocol, normalization | none or text | parsing, formatting, validation | | |

What would make each wrong is listed in `PROJECT.json` under `hazards`, at the
line where it bites, with the properties that would catch it.

## Modules

`ProcessTree` is the registry as a data type: each method of
`ProcessTreeRegistry` is an operator from a registry to the registry it leaves
behind. An instance name `p<pid>-i<generation>` is the pair of its numbers;
origins keep "exec" or not, detach reasons keep the distinctions the code makes.

`ProcessRegistry` runs that type under any sequence of calls with any arguments.
What holds there holds whatever the controller does. `ProcessTreeProofs` proves
it, by the lemmas about the operators in `ProcessTreeLemmas`.

`ProcessWorld` is what the controller does not own: the application's processes,
the launcher, the agents, and the Frida device that suspends ("gates") children
and delivers signals on a thread of its own. It is modelled from how `process.py`
and `frida_backend.py` use it. A suspended child is listed by the device from the
moment it is suspended and its signal follows, so the code may meet the two in
either order. `blind` is a history variable: the images that ran with no agent
ready while the target lived.

`ProcessController` is `process.py`'s `ProcessController` with the stream table of
`FridaBackend`, driving a `ProcessTree` over a `ProcessWorld`. `pc` is the position
of the main thread; `Dispatch` and `EmergencyResume` are the dispatch thread. Each
access of the main thread to a shared queue is a step of its own, and a timeout may
pass whenever the code waits. `ControllerProofs` proves its types and what a run leaves behind, and,
in its second half, that nothing runs unobserved and nobody is forgotten.

`StatementTracker` is `analysis/statement_tracker.py` fed with any sequence of any
events: nothing is assumed of the agent. `told` and `begun` are histories of what was
reported and started within a lifetime. `StatementTrackerProofs` proves its properties.

`LifecycleTransport` is the path of the agent's records to the controller, for one
stream of one run: `queueLifecycle` and `flushLifecycle` with the hooks that wait inside
them, and the sequence check, acknowledgements, watchdog and `detach_process` of
`FridaBackend`. JavaScript hooks are atomic except while they wait. A step of the backend
ends where it releases a lock. `LifecycleTransportProofs` proves its safety
properties. `RecordStream` is the abstract promise, which `LifecycleTransport` refines
(`DeliversInOrder`): in order, none twice, none skipped, not necessarily all.

`AgentHooks` is the rest of `sqlitewatch_agent.js`: what the hooks around prepare, step,
reset and finalize do when the threads of an application call SQLite in any order SQLite
permits. `frames` holds, per thread, the calls it is inside of, innermost first; a step of a
hook ends where JavaScript gives its lock up (a wait for an acknowledgement, a read of the
counters). A wait ends in one of two ways: the records waited for have arrived (`GoOn`), or the hook
is given the acknowledgement of an earlier batch whose `recv` callback it had replaced (`Refused`): the
transport has then failed, later records are dropped, the status is `FAILED`, the hook goes on without
its records, and those whose callbacks were replaced wait for ever (`agent.stuck`). Statuses and
errors are messages between the records:
`told` is what was sent, `unheard` what the controller is left with if the process ends before
one of them, with all behind it, is out. `app` is the application and SQLite, with two
histories of what really happened (`truth`, `used`).

`Evaluation` is `aggregation.py`, `rules.py`, `outcome.py` and the reduction of `doctor.py`, as
operators without state.

`Pipeline` composes the three: the records of `AgentHooks` are consumed by
`StatementTracker` (INSTANCE `Tracker`), and a finished run is judged by `Evaluation` (INSTANCE
`Verdict`). Its properties compare the verdict with `app.truth`. Between hooks and tracker it
has what `LifecycleTransport` shows: records arrive in order, none twice; a hook goes on with those
it waited for delivered, or with a failed transport; at the end the last records and messages
are lost. The watchdog and the retirement of a stream are not repeated there: both
only add a fatal error, or end the run of the image. The controller does not answer back, so
consuming a record before anything else happens loses no behaviour. `PipelineProofs` proves
that the records drive the tracker as it is specified, and that the doctor is sound. Its last part
states the invariant with which `ReportProofs` shows that the report, and the verdict on it, are true.

`Shutdown` is how a run ends: `launcher.py` with its signal handlers, the completion socket
(`_receive_completion`), `_shutdown_processes` pass by pass, `_verify_completed_processes`,
`_finish_launcher_only`, and the except and finally clauses of `run`. `ProcessController`
has all that in the single step `Kill`; in `Shutdown` the processes die when they do and are
zombies until somebody has waited for them. A setting says which descendants may not be signalled and
whether a gate cannot be closed; the cleanup records the error and goes on. A pass keeps whom it has
still to look at as a set and takes the deepest first, as the sorted list does. `ShutdownProofs` proves its safety properties.

`MC...` modules hold the definitions only TLC needs. Definitions with an underscore in
their name (`Returns_LastWins`) are plausible bugs of the definition that follows them; no
specification uses them.

### How the state corresponds to the code

| Model | Code |
|---|---|
| `tree` | `_tree` (`processes`, `images`: the dicts; `complete`: the latch; `omitted`: `_omitted_images`) |
| `children`, `notices`, `events` | `_children`, `_detach_notices`, `_queue` |
| `released` | `_released_child_keys`; the queued keys are the contents of `children` |
| `pendingExec`, `terminal`, `untracked`, `tokens` | `_pending_exec` without deadlines, `_terminal_streams`, `_untracked_failure_pids`, `_process_tokens` |
| `errors` | `_instrumentation_failed` and what it was set for |
| `streams` | `FridaBackend._streams` |
| `setting.follow`, `setting.queue` | `follow_children`, `max_pending_children`; a `setting` is chosen once and also holds the faults and bounds of the situation |
| `agent.contexts`, `agent.known` | `statementContexts`; the context objects, which a hook holds in `this.statementContext` after the map forgot them |
| `agent.complete`, `agent.partial`, `agent.unknown` | `completeActivityObserved`, `partialCoverageReason`, `unknownStatementDiagnostics` |
| `agent.broken`, `agent.stuck` | `transportFailed`; the threads inside an `acknowledgement.wait()` that never returns |
| `told`, `unheard`, `wire` of `AgentHooks` | statuses and errors sent; what is left of them if the process ends before one is out; records that reached the controller |
| `at`, `socket`, `pc` of `Shutdown` | the line `launcher.py` is at, the completion connection, the line `process.py` is at |
| `ctl.found`, `ctl.result`, `ctl.received` | `target_exit`/`target_signal` of `_shutdown_processes` and of `run`, `_root_completion_received` |
| `after` | where `_service_runtime` returns to; `"interrupted"` after Ctrl-C |
| `queue`, `sequence`, `broken` | `lifecycleQueue`, `lifecycleSequence`, `transportFailed` |
| `hooks`, `slot` | the hooks inside `flushLifecycle(true)`, and whose `recv` callback is registered |
| `stream`, `expected`, `pending`, `expired` | whether `_streams` has it, `next_sequence`, `_pending_acks`, the watchdog's local list |
| `active`, `quality`, `executions` | `_active`, the counters, what `_emit` handed on (a bag) |

`_resumed_instances` is left out: an instance is admitted once and resumed once.

## What the runs check

| Run | Instance | Shows |
|---|---|---|
| `Registry` | 3 PIDs, 2 tokens, caps of 2 processes and 2 images | the registry stays a capped tree of dense image lists, says ACTIVE only of a tree that lost and omitted nothing, and withdraws nothing |
| `ControllerFollow` | 2 PIDs, 2 images each, `follow_children` on and off, Ctrl-C | no unobserved image in a complete run, one stream per PID, survivors on record, execs not declared lost wrongly, the run ends, nothing stays suspended |
| `ControllerLimits` | 2 PIDs with agent, session and kill faults; 3 PIDs, room for 2, queue of 1, exec-only children | coverage and release under partial failure, refusals, overflow and orphans |
| `TrackerEvents` | 2 statements, 2 sources, 2 threads, 2 executions, window 1, 6 events | duplicates and contradictions at every place of the window; lifetimes that replace and shadow one another |
| `TransportBatches` | 2 threads, 3 records, a batch of 2; repeats, expiry, retirement, exit | records arrive in order; no boundary is passed with its record lost unseen, short of `AbruptExit`'s case; no hook waits for ever unseen |
| `Pipeline` | 8 situations: 2 threads on one statement and on a second one at its address; two executions of one; a statement each; calls within calls; statements from before a fork; an incomplete module; `sqlitewatch check`; a module that is not scanned | where the modules used are hooked and the last message is heard, a report without reservations is what the application did and exit 0 under a rule hides nothing; use by one thread at a boundary at a time that hands statements over between executions is judged; the doctor vouches only for modules that are complete, and does so when an orderly application used no other |
| `Shutdown` | target, child, launcher; 10 situations: up to 2 Ctrl-Cs, an unknown child, early timeouts, processes no signal ends or that may not be signalled, a gate that cannot be closed, a launcher killed, a root not yet admitted, a failed launch | the status is the target's; who is left is named; one Ctrl-C in a healthy run is clean; the cleanup ends |
| `ExecAtImageCap`, `UnresolvedExec`, `StaleChildKey`, `UnscannedModule`, `AbruptExit` | small instances | five disagreements of the code with its documents, tests and comments, see below |

`Pipeline` claims no more than that. Two threads that wait at boundaries at once, which any application
with two threads may do, can end in a refused acknowledgement, a failed transport and exit code 70:
`JudgedWhenOrderly` and `DoctorSucceeds` exclude it (`Orderly`), the other properties do not. What
`ReportIsTrue` and `VerdictIsTrue` exclude are a module used without its prepare or its step hooked (`Observed`;
`UnscannedModule` shows why) and a process that takes the agent's last message with it (`Heard`;
`AbruptExit` shows why).

### Bounds, and why they are enough

Two PIDs give the target and one descendant, two images each an exec of either
before, during and after the other's steps; three PIDs are needed to overflow a cap
of two. A PID is reused only in `StaleChildKey` (`lives = 2`) because reuse
multiplies the states of every other question. The tracker's window is 64 in the
code; with 1, two executions are before, at and after its edge, and the edge is
met on every report. The proofs hold for any window. The agent flushes at 64
records and drops at 4096; with 2 and 3 the three records of two threads make a
full batch, a batch of a boundary, and a batch behind one that waits. `Repeat`
stops at the first error, since the sequence check refuses every later copy alike.
`MaxOmitted`, `MaxGeneration`, `MaxEvents`, `MaxRecords`, `MaxNumber`, and in a `setting` `images`, `lives`, `runs`,
`work` and `depth`, bound what the code leaves unbounded; they appear in guards only.

In `Pipeline` two threads and one address, used twice, make every race of the hooks over one
statement; the counter has 2 bits (`Wrap = 4`), so that two executions of work 1 carry it past the
sign and once around. Two threads also suffice for waits at once and for a callback that is replaced.
A window of 1 suffices since the tracker is checked for itself. The situations are run apart because their product tells nothing new. In `Shutdown` one child stands
for the descendants: each is signalled, killed and waited for by itself.

### Fairness

`ControllerFollow` checks liveness under `FairSpec`: weak
fairness of the main thread and of the dispatch thread (the operating system
schedules them and none of their steps waits without a timeout), of the launcher's
report once the target is gone, and of the release of children by a closed gate.
Nothing is asked of the application, the agents or Ctrl-C. In particular the target
need not end: `RunEnds` starts when it has.

`Shutdown` assumes that the controller's main thread and the launcher run, that a SIGKILL and
other signals take effect on a process that is not stuck, and that the parent, once gone, is replaced by one
that waits. The target owes nothing: `RunEnds` starts when it is over, or when a cleanup
begins. It does not hold of a launcher killed from outside (`setting.harmed`), see the
hazards.

`TransportBatches` assumes that the dispatch thread, the watchdog and a hook that got
its acknowledgement run on. The deadline of an acknowledgement passes some time
whether it is met or not. Neither the flush timer nor the application is fair: what
is not a boundary may stay in the queue, and a process may end with it.

### What is assumed of the environment

- The quiet period of the drain (0.05 s) and the collection wait of a failed run
  outlast the delivery of signals already sent (`Drained`, `DrainDeadline`, `Collect`).
- In `ProcessController` a kill is one step that succeeds; `Shutdown` has its schedule.
- In `Shutdown` a timeout of a system that is not `slow` passes only when nothing it waits for is
  about to happen. PIDs are not used again there, and nobody but the launcher waits for the target.
- In `Pipeline`: the application does not reset the counters and uses a statement as SQLite
  allows (nothing is called on it during its finalization, nor a step within its own step); an
  execution adds less than 2^31 to a counter; the process is one image; its stream is not retired
  before it ends. The four counters are one, and SQL text is read whole.
- Killing the launcher ends its report (`record = "killed"`).
- The release of the root by the launcher's closed gate is slower than the resume that
  follows at once in the code. The hazard is listed: if it were faster, `resume(pid)`
  would raise.
- Frida delivers messages in order and loses none while the process lives; when it ends,
  any last part of them is lost; the signal that a session ended follows
  its messages (`SessionDetached`). `recv` keeps one callback for each message type, a later
  call replaces an earlier one. `send` does not raise; `post` to a script that is gone
  raises or goes nowhere.
- `completion_timeout` is `None`, as in the CLI.
- Start tokens are the number of times a PID was used.

## Disagreements found

1. `ExecAtImageCap`. The child of an exec is released at the image cap before the notice
   that the old session was replaced is serviced. The notice then arms the exec deadline,
   which nothing disarms, and the run fails for a child that was handled.
2. `UnresolvedExec`. An exec that escaped the gate shortly before the target ends is
   neither a failure nor a coverage loss, because the drain does not consider the
   replacements still awaited.
3. `StaleChildKey`. The keys of released children are kept for the whole run. A reused
   PID with the same parent, origin and path is taken for the old child and stays suspended.
4. `UnscannedModule`. A library that embeds SQLite and is loaded after the start under a name
   without "sqlite" is not scanned, while the status is `ACTIVE` on the word of a module that is
   complete. Its executions leave no trace, and with a rule enabled one over the limit ends in
   exit code 0, where the repository's README promises no misleading pass.
5. `AbruptExit`. Of two threads that wait at boundaries, the second takes the first one's
   acknowledgement, calls its own transport failed and goes on. If the process ends at once, its
   record and the message of the failure are lost, and the detach cancels the acknowledgement
   still open: a record is missing and nothing says so. `BoundariesAreDurable` excepts just this
   (`broken /\ ~alive`) and holds. In `Pipeline` it is a message of the last moment that was lost, and
   `Heard` excepts it; a diagnostic lost in the same way (of a conflict, say) has the same effect.

Two further observations have no run. A stream retired while the dispatch thread is between the
acceptance of a batch and its acknowledgement is reported as failed, by the post or by the watchdog
(`Post` and `ReportExpired`; `ConfirmationsExpected` excepts retired streams). And a preparation that is not
hooked may take the address of a statement of another module whose finalize hook has not
returned, so that its steps are booked on that statement: the reason for the prepare hook in `Observed`.

## What is proved

`ProcessTreeProofs` proves for every set of PIDs and tokens, and all caps:
`TypeOK`, `CapsHold`, `AncestryFollowed`, `ImagesAccounted`, `ActiveMeansCovered` and
`HistoryKept` of `ProcessRegistry`. The invariant conjoins the shape of the
registry with its finiteness, and with the fact that a tree whose latch still says
complete omitted nothing and never lost an image that is now covered; without the last part the
verdict's soundness is not inductive, because a later mark may set an image's own
coverage flag again. `ProcessTreeLemmas` holds one lemma per operator that says what it
preserves; the step of each action cites it, and so does the controller's proof.

`ControllerProofs` proves for every setting (any PIDs, caps, queue limit, faults, number of
images and lives, children followed or not) `TypeOK`, `OneStreamPerPid` and
`SurvivorsReported` of `ProcessController`. `Frames` says once which steps change which
variable, and the invariant has two parts. `Shape` is what the queues and tables hold:
a suspended child is held by the device, whatever a table names is in the tree, a stream is its
PID's current image, a remembered start token is no later than the PID's life, and `pc` and
`after` go together. `Outcome` follows the run from the root's arrival to its end: nothing
exists before the target; a completion means that the target is gone; once a shutdown has
closed the gates nothing more can arrive, so that the snapshot of whom to kill misses nobody;
and a run that ends by itself marked its survivors, or an error names them.

Its second half proves `GatedIsHandled` and `CoverageSound` for every setting in which no PID is
used again (`lives <= 1`) and, the second, no exec escapes its gate. Both hypotheses are
needed: `StaleChildKey` and `UnresolvedExec` are runs that violate the properties without
them. On top of the two parts above there are
- `General`: a session, and every message about one, belongs to an admitted image; its end
  comes after it and for one reason; an image about to be instrumented has nothing yet;
- `Tick` and `PlaceOK`, until something fails or the target's exit is received (`Early`): a
  suspended child has exactly one report, which is on the wire, in the queue or at hand, a process
  that runs has none, and a gate that holds a child is on. So nobody but the main thread resumes a
  child, nothing is taken for a child seen before, and a child that is pending is handled;
- `WatchOK`: as long as no session was lost, everything that runs has a ready agent and a
  gate, and a child about to be resumed has, too. So what it forks or execs is suspended;
- `BlindOK`: an image that ran unobserved shows in a failure, in an incomplete tree, or in the end
  of a lost session that is still to be served (`Unserved`). Such an end cannot be dropped,
  because nothing is under way that would take the stream's place (`Orphaned`); it is noticed
  before the drain can call the queues quiet, and then fails the run.

`ShutdownProofs` proves, for any PIDs and settings, `TypeOK`, `NobodyLeftUnreported`,
`StatusIsTheTargets` and `InterruptIsClean` of `Shutdown`. Its invariant follows what each pass has
verified: who was found dead stays dead, since PIDs are not used again; the second
pass looks at everybody the first one left; the record is written after the target was waited for
and is read at most once; a status that is not yet known has a reason or a reception still to
come; and in a run that was healthy when it was interrupted no timeout can have passed.

`StatementTrackerProofs` proves for any statements, any window and any reports the
properties of `StatementTracker`. What makes them inductive: everything told
of a lifetime is in its window or at most its committed number, what was emitted is the
latter only, an entry that is still a candidate is the only thing told of its execution,
and, as long as no counter of a loss is set, what was told is emitted or about to be.

`LifecycleTransportProofs` proves for any threads, any limits of the queue with
`FlushAt < MaxQueue`, any number of records and any of the faults `TypeOK`,
`BoundariesAreDurable`, `ConfirmationsExpected`, and that the transport implements
`RecordStream` (`DeliversInOrder`). Its invariant has four parts. The first says what
each batch holds without a history variable: there are cuts, increasing numbers, such that
batch `s` holds the records after `cut[s]` up to `cut[s + 1]`, the queue those after the
last cut, and the controller all up to `cut[expected]`; a hook that waits holds the last
record of its batch. The second follows the acknowledgement of each batch from the dispatch
thread to the script, the hook and back: it is in one place at a time, only for a batch already
accepted, and from its registration on it is expected, expired or of a retired stream. So a
hook that was let go has its record delivered, and a confirmation finds its entry or a reason
for its absence. The third says that a transport that broke is told of as long as the process
lives and the controller listens, the fourth explains every confirmation refused. Sending a
batch adds a cut, accepting one moves `expected`; the other steps keep the cuts (`CutFrame`)
and move an acknowledgement at most one place on (`PlaceFrame`).

`PipelineProofs` proves for any threads, pointers, modules and hooks, any situation and any number of
statements and executions `TypeOK` and `DoctorSound` of `Pipeline`, and that `Pipeline` implements the
specification of the tracker (`PipelineTracks`: the initial states are the tracker's, and each step is
one of the tracker's or leaves it alone). So the theorems of `StatementTrackerProofs`, proved of any
events, are theorems about the records that the hooks make (`TrackerKeeps`), however the threads
interleave, pointers are used again and the process ends. The invariant has two parts. `Shape` says
what the agent holds: a context is of a statement it was told of, a call refers to one, only the
innermost call of a thread waits, for no more records than are queued, an execution that ends has a
number, and a preparation on its way is of a statement known. `UseOK` says that a call that SQLite is
in uses a statement that is still there and of the call's module, and that whoever finalizes it is
alone on it: without it a step might return to a statement that is gone. `DoctorSound` adds that every
statement the agent knows was prepared by the application, that an incomplete module prepared with
set the latch of `markActivity`, and that the controller was told of the latch, or of a failed transport, unless the message was lost.

`ReportProofs` proves `ReportIsTrue` and `VerdictIsTrue` of `Pipeline` as the run checks them, for any
parameters: any hooks a module may have or lack, any threads that wait, a transport that fails. The only
premises are those of the two formulas, which speak of a finished run: every module the application used
is hooked on prepare and step (`Observed`), and the last message was heard (`Heard`). Both are needed, and a run
that lacks one is no report to trust (`UnscannedModule`, `AbruptExit`). A module that lacks another
hook, or the counters, is no exception: its first statement makes the status `PARTIAL`. Nor is a refused
acknowledgement: a transport that failed has told of it by a fatal error (`DoctorInv`), unless the error was
lost. So the invariant is needed only while the run is `Whole` (no failed transport, nothing used unhooked,
nothing lost); a run that is whole was whole at every earlier step (`WholeBefore`).

- The invariant (`TruthInv`) looks at the records that are queued or on the wire as the tracker will read
  them: `J[k]` is what the tracker has after the first `k` of them (`After` is one record's effect: the
  current statement at each pointer, what began, what was told, whether a record was lost to it), and `H`
  the pointer each statement was prepared at. Neither is a variable: there always are such functions.
- `AgentInv` and `RunInv` relate all of the records to the agent: the context at a pointer is the
  statement the tracker has there, its next number and its running execution are those of the last records,
  and a count read last plus the work done since is the counter. While nothing was admitted to be lost
  (`Unharmed`), only the thread that owns a statement steps it.
- The process may end anywhere, and then only a first part of the records is read. `PartInv` says of every
  part that what it tells is true, and, of those that have all that was sent, that it lacks nothing if
  each execution begun in it also ends in it. For such a part ends at a moment when nothing ran (`Still`): a step that
  is on its way waits for a record behind it.
- Each kind of step has a lemma: a statement prepared, an execution begun, carried on, ended by its step, by
  a reset or by a finalization, on time or under another thread's feet, a module removed, a batch
  delivered, a record consumed, the process ended. What most of them leave alone is said once
  (`Carry`, `Aside`).
- `VerdictIsTrue` needs besides what a query's executions amount to. The sums and maxima of `Evaluation` are
  taken over finite sets: a greatest member exists, the recursive function behind a sum exists, and a sum
  is over zero just where one of its parts is. Each is shown of a least set, or number, for which it fails
  (`LeastSet`, `SumExists`), since well-founded orders have one by a theorem of the library that takes no
  operator.

The proofs rest on the ASSUMEs of the modules only (TLC evaluates them in every run). Beside
the kinds of the parameters these say that the marks for "none" (`NoPid`, `NoToken`, `NoInst`,
...; `Null` in the agent) and the launcher are none of the things they stand beside, that pointers are no numbers (a statement from before a fork is
named by its pointer), that a rule has a limit or none, that the tracker's window has room for one, and that every life of a PID has a
start token (`TokensAreLives`).

Model-checked only: all liveness (`RunEnds`, `HeldIsFreed`, `WaitEndsOrIsTold`: fairness
and `ENABLED` are beyond the prover); `ExecTimeoutMeansNoChild`, which holds below the caps only
(`ExecAtImageCap`); `JudgedWhenOrderly` and `DoctorSucceeds` of `Pipeline`; and the properties of the
runs that show a disagreement. `ReportIsTrue` says that what is told is true; `JudgedWhenOrderly` says
the converse, that the hooks and the tracker find nothing to complain of in an orderly application, and needs
an invariant of its own about every counter and every owner (see the plan). What a recursive definition computes
for every input is induction over data, which is beyond the prover; of the sums only what is said above is
proved.

## What is not modelled

Authentication and parsing of the completion record, malformed child and event records
(`protocol.py`, `events.py`), the retention limit of events, SQL normalization, reading the SQL text out
of memory, symbol lookup, the ranking of queries, argument parsing, formatting and the atomic
replacement of the report: no state the properties speak of, or formatting. The launcher's own script and session, and acknowledgements still open at
the drain, are left to the plan below. The transport of the doctor's prepared statements,
which wait like boundaries, is covered by `Boundary` but not told apart.

## Plan

Done: registry, controller over the world, tracker, lifecycle transport, agent hooks with tracker
and evaluation, shutdown with launcher, and the theorems above.
Next, in this order:

1. `Pipeline`: `DoctorSucceeds` and `JudgedWhenOrderly`, from an invariant of what an orderly application
   spares the agent: no owner but the caller, no unknown statement, no unfinished execution.
2. `ExecTimeoutMeansNoChild` below the caps, from `Tick` and `PlaceOK`.
3. The start of a run: launcher bootstrap, its script and readiness.
4. A process of several images in `Pipeline`, with the registry's verdict in place of one status.
