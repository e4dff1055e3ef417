------------------------- MODULE LifecycleTransport -------------------------
(***************************************************************************)
(* The lifecycle batches of one stream: the queue of sqlitewatch_agent.js,  *)
(* and FridaBackend's sequence check, acknowledgements and watchdog.        *)
(*                                                                         *)
(* In the agent, the hooks of all threads and the flush timer share one     *)
(* JavaScript lock that only a hook waiting for its acknowledgement gives   *)
(* up; each piece of script between two waits is one step.  In the backend, *)
(* Frida's dispatch thread handles the messages, a watchdog thread expires  *)
(* acknowledgements, and the main thread may retire the stream; a step ends *)
(* where a lock is released.                                                *)
(*                                                                         *)
(* A record is its number.  The hooks queue records of two kinds: those of  *)
(* a boundary of an execution (statement_started, statement_executed) wait  *)
(* until the backend has the batch, the others do not.                      *)
(***************************************************************************)
EXTENDS Integers, Sequences, FiniteSets, SequencesExt

CONSTANTS Threads,     \* the application's threads in SQLite
          NoThread,
          FlushAt,     \* records that make queueLifecycle flush
          MaxQueue,    \* MAX_LIFECYCLE_QUEUE
          MaxRecords,  \* bound on the records, for model checking
          Faults       \* what may go wrong: "exit", "repeated", "retired"

ASSUME ThreadsAssumption == NoThread \notin Threads
ASSUME QueueAssumption   == FlushAt \in Nat \ {0} /\ MaxQueue \in Nat /\ FlushAt < MaxQueue
ASSUME BoundAssumption   == MaxRecords \in Nat
ASSUME FaultsAssumption  == Faults \subseteq {"exit", "repeated", "retired"}

VARIABLES alive,     \* the process
          queue,     \* lifecycleQueue
          sequence,  \* lifecycleSequence
          broken,    \* transportFailed
          hooks,     \* what each thread waits for, inside a boundary's hook
          slot,      \* the thread whose recv callback is registered
          wire,      \* messages sent to the backend
          posted,    \* acknowledgements posted to the script
          stream,    \* _TargetStream: "on", "popped" from _streams, then "detached"
          expected,  \* next_sequence
          at,        \* where the dispatch thread is, and with which message
          pending,   \* _pending_acks of the stream
          expired,   \* taken by the watchdog and not reported yet
          errors,    \* the InstrumentationErrors reported
          delivered, \* records handed to the controller
          queued,    \* history: records queued or dropped so far
          passed     \* history: boundary records whose hook has returned

agent   == <<alive, queue, sequence, broken, hooks, slot>>
backend == <<stream, expected, at, pending, expired, errors, delivered>>
vars    == <<agent, wire, posted, backend, queued, passed>>

Outside == [state |-> "outside", seq |-> 0, record |-> 0]
Idle    == [step |-> "idle", msg |-> << >>]

Batch(seq, ack, records) == [type |-> "batch", seq |-> seq, ack |-> ack, records |-> records]
Acknowledged(seq)        == [type |-> "acknowledged", seq |-> seq]
AgentError               == [type |-> "error"]

Init ==
    /\ alive = TRUE /\ queue = << >> /\ sequence = 0 /\ broken = FALSE
    /\ hooks = [t \in Threads |-> Outside] /\ slot = NoThread
    /\ wire = << >> /\ posted = << >>
    /\ stream = "on" /\ expected = 1 /\ at = Idle
    /\ pending = {} /\ expired = {} /\ errors = {} /\ delivered = << >>
    /\ queued = 0 /\ passed = {}

-----------------------------------------------------------------------------
\* The agent.

\* queueLifecycle takes a record, unless the transport has failed or it is
\* full; then the record is dropped, and the second is an error.
Record     == queued + 1
NewRecord  == alive /\ queued < MaxRecords /\ queued' = Record
Full       == Len(queue) >= MaxQueue
Taken      == ~broken /\ ~Full
Overflowed == ~broken /\ Full

\* flushLifecycle sends everything queued as one batch.
Send(records, ack) ==
    /\ wire' = Append(wire, Batch(sequence + 1, ack, records))
    /\ sequence' = sequence + 1
    /\ queue' = << >>

Drop == /\ broken' = (broken \/ Overflowed)
        /\ wire' = IF Overflowed THEN Append(wire, AgentError) ELSE wire
        /\ UNCHANGED <<queue, sequence>>

Due_OffByOne(records) == Len(records) > FlushAt
Due(records) == Len(records) >= FlushAt

\* A record that does not wait: statement_prepared, statement_finalized.
QueueRecord ==
    LET records == Append(queue, Record) IN
    /\ NewRecord
    /\ IF Taken THEN /\ IF Due(records) THEN Send(records, FALSE)
                                        ELSE queue' = records /\ UNCHANGED <<wire, sequence>>
                     /\ UNCHANGED broken
       ELSE Drop
    /\ UNCHANGED <<alive, hooks, slot, posted, backend, passed>>

Boundary_NoWait(t) ==
    /\ hooks[t] = Outside
    /\ NewRecord
    /\ IF Taken THEN Send(Append(queue, Record), FALSE) /\ UNCHANGED broken ELSE Drop
    /\ passed' = passed \cup {Record}
    /\ UNCHANGED <<alive, hooks, slot, posted, backend>>

\* A boundary: queue the record, flush, and wait.  A later recv takes the place
\* of an earlier one.
Boundary(t) ==
    /\ hooks[t] = Outside
    /\ NewRecord
    /\ IF Taken
       THEN /\ Send(Append(queue, Record), TRUE)
            /\ hooks' = [hooks EXCEPT ![t] = [state |-> "waiting", seq |-> sequence + 1,
                                              record |-> Record]]
            /\ slot' = t
            /\ UNCHANGED <<broken, passed>>
       ELSE Drop /\ passed' = passed \cup {Record} /\ UNCHANGED <<hooks, slot>>
    /\ UNCHANGED <<alive, posted, backend>>

\* The 25 ms timer, and the hooks that flush without waiting.
Flush ==
    /\ alive /\ ~broken /\ queue # << >>
    /\ Send(queue, FALSE)
    /\ UNCHANGED <<alive, broken, hooks, slot, posted, backend, queued, passed>>

\* An acknowledgement reaches the registered callback.
AckArrives ==
    /\ alive /\ slot # NoThread /\ posted # << >>
    /\ hooks' = [hooks EXCEPT ![slot].state =
                    IF Head(posted) = hooks[slot].seq THEN "acknowledged" ELSE "refused"]
    /\ slot' = NoThread
    /\ posted' = Tail(posted)
    /\ UNCHANGED <<alive, queue, sequence, broken, wire, backend, queued, passed>>

\* The waiting hook goes on and returns to the application.
HookReturns(t) ==
    /\ alive
    /\ hooks[t].state \in {"acknowledged", "refused"}
    /\ hooks' = [hooks EXCEPT ![t] = Outside]
    /\ IF hooks[t].state = "acknowledged"
       THEN wire' = Append(wire, Acknowledged(hooks[t].seq)) /\ UNCHANGED broken
       ELSE wire' = Append(wire, AgentError) /\ broken' = TRUE
    /\ passed' = passed \cup {hooks[t].record}
    /\ UNCHANGED <<alive, queue, sequence, slot, posted, backend, queued>>

\* The process ends, and with it what the agent holds and part of what it sent.
Exit ==
    /\ "exit" \in Faults /\ alive
    /\ alive' = FALSE
    /\ \E n \in 0 .. Len(wire) : wire' = SubSeq(wire, 1, n)
    /\ queue' = << >> /\ hooks' = [t \in Threads |-> Outside] /\ slot' = NoThread
    /\ posted' = << >>
    /\ UNCHANGED <<sequence, broken, backend, queued, passed>>

-----------------------------------------------------------------------------
\* The dispatch thread, _handle_stream_message.
Dispatching(type) == at.step = "checked" /\ at.msg.type = type

Take ==
    /\ at.step = "idle" /\ wire # << >>
    /\ wire' = Tail(wire)
    /\ at' = IF stream = "on" THEN [step |-> "checked", msg |-> Head(wire)] ELSE Idle
    /\ UNCHANGED <<agent, posted, stream, expected, pending, expired, errors, delivered,
                   queued, passed>>

InSequence_Any(m) == TRUE
InSequence(m) == m.seq = expected

HandleBatch_NotAccepted ==
    /\ Dispatching("batch")
    /\ IF stream = "on" /\ InSequence(at.msg)
       THEN /\ delivered' = delivered \o at.msg.records
            /\ expected' = expected + 1
            /\ UNCHANGED errors
       ELSE /\ errors' = IF stream = "on" THEN errors \cup {<<"protocol", at.msg.seq>>} ELSE errors
            /\ UNCHANGED <<expected, delivered>>
    /\ at' = Idle
    /\ UNCHANGED <<agent, wire, posted, stream, pending, expired, queued, passed>>

\* A batch counts under the lock, if the stream is still on and no batch is
\* missing before it.
HandleBatch ==
    /\ Dispatching("batch")
    /\ IF stream = "on" /\ InSequence(at.msg)
       THEN /\ delivered' = delivered \o at.msg.records
            /\ expected' = expected + 1
            /\ at' = IF at.msg.ack THEN [at EXCEPT !.step = "accepted"] ELSE Idle
            /\ UNCHANGED errors
       ELSE /\ errors' = IF stream = "on" THEN errors \cup {<<"protocol", at.msg.seq>>} ELSE errors
            /\ at' = Idle
            /\ UNCHANGED <<expected, delivered>>
    /\ UNCHANGED <<agent, wire, posted, stream, pending, expired, queued, passed>>

\* _confirm_pending_ack
HandleAcknowledged ==
    /\ Dispatching("acknowledged")
    /\ pending' = pending \ {at.msg.seq}
    /\ errors' = IF at.msg.seq \in pending THEN errors
                 ELSE errors \cup {<<"unexpected", at.msg.seq>>}
    /\ at' = Idle
    /\ UNCHANGED <<agent, wire, posted, stream, expected, expired, delivered, queued, passed>>

HandleError ==
    /\ Dispatching("error")
    /\ errors' = errors \cup {<<"agent", 0>>}
    /\ at' = Idle
    /\ UNCHANGED <<agent, wire, posted, stream, expected, pending, expired, delivered,
                   queued, passed>>

\* _register_pending_ack
Register ==
    /\ at.step = "accepted"
    /\ pending' = pending \cup {at.msg.seq}
    /\ at' = [at EXCEPT !.step = "registered"]
    /\ UNCHANGED <<agent, wire, posted, stream, expected, expired, errors, delivered,
                   queued, passed>>

Post_Finally ==
    /\ at.step = "registered"
    /\ at' = Idle
    /\ pending' = pending \ {at.msg.seq}
    /\ \/ /\ posted' = IF alive THEN Append(posted, at.msg.seq) ELSE posted
          /\ UNCHANGED errors
       \/ /\ ~alive \/ stream # "on"
          /\ errors' = errors \cup {<<"post", at.msg.seq>>}
          /\ UNCHANGED posted
    /\ UNCHANGED <<agent, wire, stream, expected, expired, delivered, queued, passed>>

\* script.post; to a script that is gone it raises, or goes nowhere.
Post ==
    /\ at.step = "registered"
    /\ at' = Idle
    /\ \/ /\ posted' = IF alive THEN Append(posted, at.msg.seq) ELSE posted
          /\ UNCHANGED <<pending, errors>>
       \/ /\ ~alive \/ stream # "on"
          /\ pending' = pending \ {at.msg.seq}
          /\ errors' = errors \cup {<<"post", at.msg.seq>>}
          /\ UNCHANGED posted
    /\ UNCHANGED <<agent, wire, stream, expected, expired, delivered, queued, passed>>

\* The session's detached signal follows its messages and cancels what is
\* still open (register_process_detached_handler).
SessionDetached ==
    /\ ~alive /\ wire = << >> /\ at.step = "idle" /\ stream = "on"
    /\ pending # {}
    /\ pending' = {}
    /\ UNCHANGED <<agent, wire, posted, stream, expected, at, expired, errors, delivered,
                   queued, passed>>

-----------------------------------------------------------------------------
\* _watch_acknowledgements: a deadline passes, and is reported after the lock.
Expire(seq) ==
    /\ seq \in pending
    /\ pending' = pending \ {seq}
    /\ expired' = expired \cup {seq}
    /\ UNCHANGED <<agent, wire, posted, stream, expected, at, errors, delivered, queued, passed>>

ReportExpired(seq) ==
    /\ seq \in expired
    /\ expired' = expired \ {seq}
    /\ errors' = errors \cup {<<"timeout", seq>>}
    /\ UNCHANGED <<agent, wire, posted, stream, expected, at, pending, delivered, queued, passed>>

\* detach_process, on the main thread: the stream goes first, then, under the
\* other lock, its acknowledgements.
PopStream ==
    /\ "retired" \in Faults /\ stream = "on"
    /\ stream' = "popped"
    /\ UNCHANGED <<agent, wire, posted, expected, at, pending, expired, errors, delivered,
                   queued, passed>>

CancelAcks ==
    /\ stream = "popped"
    /\ stream' = "detached"
    /\ pending' = {}
    /\ UNCHANGED <<agent, wire, posted, expected, at, expired, errors, delivered, queued, passed>>

\* A batch comes twice, which is what the sequence check is there for; to bound
\* the instances, no more after the first error.
Repeat ==
    /\ "repeated" \in Faults /\ Len(wire) = 1 /\ errors = {} /\ Head(wire).type = "batch"
    /\ wire' = wire \o wire
    /\ UNCHANGED <<agent, posted, backend, queued, passed>>

-----------------------------------------------------------------------------
Agent    == QueueRecord \/ Flush \/ AckArrives \/ \E t \in Threads : Boundary(t) \/ HookReturns(t)
Dispatch == Take \/ HandleBatch \/ HandleAcknowledged \/ HandleError \/ Register \/ Post
            \/ SessionDetached
Watchdog == \E seq \in 1 .. MaxRecords : Expire(seq) \/ ReportExpired(seq)
Channel  == Exit \/ Repeat
Retire   == PopStream \/ CancelAcks

Next == Agent \/ Dispatch \/ Watchdog \/ Channel \/ Retire

Spec == Init /\ [][Next]_vars

\* The threads run, and a deadline that is never met passes.
FairSpec == Spec /\ WF_vars(AckArrives) /\ WF_vars(Dispatch) /\ WF_vars(Watchdog)
                 /\ \A t \in Threads : WF_vars(HookReturns(t))

-----------------------------------------------------------------------------
\* The tables keep their shape; between two hooks the queue is shorter than
\* FlushAt, so that its overflow never comes about.
TypeOK ==
    /\ alive \in BOOLEAN /\ broken \in BOOLEAN
    /\ queue \in Seq(Nat) /\ Len(queue) < FlushAt
    /\ sequence \in Nat /\ queued \in Nat /\ expected \in 1 .. sequence + 1
    /\ DOMAIN hooks = Threads /\ slot \in Threads \cup {NoThread}
    /\ \A t \in Threads : hooks[t].state \in {"outside", "waiting", "acknowledged", "refused"}
    /\ posted \in Seq(1 .. sequence)
    /\ stream \in {"on", "popped", "detached"}
    /\ at.step \in {"idle", "checked", "accepted", "registered"}
    /\ pending \subseteq 1 .. sequence /\ expired \subseteq 1 .. sequence
    /\ delivered \in Seq(Nat) /\ passed \subseteq 1 .. queued

\* Whatever the channel does, the controller receives the records in order,
\* none twice and none skipped (next_sequence).
Records == INSTANCE RecordStream WITH sent <- queued, got <- delivered
DeliversInOrder == Records!Spec

\* A loss is on record, or on its way there, or the controller no longer listens.
LossInView ==
    \/ errors # {} \/ pending \cup expired # {} \/ stream # "on"
    \/ \E m \in ToSet(wire) \cup {at.msg} : m # << >> /\ m.type = "error"

\* A hook lets the application go on past a boundary only when the controller
\* has its record, also if the process ends at the next instruction; what is
\* not there is a loss in view (flushLifecycle(true)).
AbruptExitIsSeen == \A r \in passed : r \in ToSet(delivered) \/ LossInView

\* The same, but for a process that ends before the message of its failed
\* transport is out, which nobody else can know of.
BoundariesAreDurable ==
    \A r \in passed : r \in ToSet(delivered) \/ LossInView \/ (broken /\ ~alive)

\* An agent's confirmation is refused only if the watchdog or the retirement of
\* the stream was faster, so a healthy stream never fails on one.
ConfirmationsExpected ==
    \A seq \in 1 .. sequence : <<"unexpected", seq>> \in errors =>
        <<"timeout", seq>> \in errors \/ seq \in expired \/ stream # "on"

\* No hook holds its thread for ever without the controller being told.
Waiting(t) == alive /\ stream = "on" /\ hooks[t].state = "waiting"
WaitEndsOrIsTold == \A t \in Threads : Waiting(t) ~> ~Waiting(t) \/ errors # {}
=============================================================================
