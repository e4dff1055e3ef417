----------------------------- MODULE AgentHooks -----------------------------
(***************************************************************************)
(* agent/sqlitewatch_agent.js: the hooks around sqlite3_prepare_v2/v3,      *)
(* step, reset and finalize, what they remember of each statement, and the  *)
(* lifecycle records they queue, in a process whose threads use SQLite in   *)
(* any order SQLite permits.                                                *)
(*                                                                         *)
(* A hook holds the JavaScript lock except while it waits for an            *)
(* acknowledgement and while it reads a statement's counters (a             *)
(* NativeFunction call): a step below ends where the lock is released.      *)
(* The four counters are one, kept modulo Wrap and read as a signed number.  *)
(* SQLite frees a statement when sqlite3_finalize returns, before the       *)
(* hook's onLeave: its pointer may be handed out again in between.           *)
(***************************************************************************)
EXTENDS Integers, Sequences, FiniteSets, Functions

CONSTANTS Threads, Pointers, Modules,
          Hooked,      \* [Modules -> SUBSET HookNames]: the hooks that were installed
          Readable,    \* the modules whose sqlite3_stmt_status can be called
          Wrap,        \* 2^32
          MaxUnknown,  \* MAX_UNKNOWN_STATEMENT_DIAGNOSTICS
          MaxNumber,   \* bound: execution numbers
          Settings,    \* the situations considered, see Setting
          Null         \* null

HookNames == {"prepare", "step", "reset", "finalize"}

\* config.doctor, the modules of the process, the statements prepared before the fork
\* that made it (by pointer, with their module); bounds on the pointers in use, the
\* statements prepared, the executions of each, what one adds to the counter, and the
\* calls within one another.
Setting == [doctor: BOOLEAN, modules: SUBSET Modules, inherited: UNION {[P -> Modules] : P \in SUBSET Pointers},
            threads: SUBSET Threads, pointers: SUBSET Pointers, lives: Nat, runs: Nat, work: Nat, depth: Nat]

ASSUME ModulesAssumption  == Hooked \in [Modules -> SUBSET HookNames] /\ Readable \subseteq Modules
\* No execution moves a counter by 2^31.
ASSUME CountersAssumption == Wrap \in Nat /\ \A s \in Settings : 2 * s.work < Wrap
ASSUME SettingsAssumption == Settings \subseteq Setting /\ MaxUnknown \in Nat /\ MaxNumber \in Nat
ASSUME NullAssumption     == Null \notin Nat \cup Threads
\* The inherited statements, named by their pointers, are none of the numbered ones.
ASSUME PointersAssumption == Pointers \cap Nat = {}

VARIABLES
    setting, \* one of Settings
    app,    \* the application: lib (the statement at each pointer), lives (statements
            \* prepared), loaded modules, exited, and two histories: the executions
            \* that ended, each with its work (truth), the modules prepared with (used)
    frames, \* per thread, the SQLite calls it is inside of, innermost first
    agent,  \* contexts (pointer -> statement), known (the context objects, which
            \* a hook keeps when `contexts` forgets them), unknown (unknownStatement-
            \* Diagnostics), complete and partial (the latches of markActivity), queue
            \* (lifecycle records that have not reached the controller), broken
            \* (transportFailed), stuck (threads whose wait never ends)
    told,   \* what the agent told the controller: the last status, an instrumentation_error
            \* with data_loss (lossy), a fatal one
    unheard, \* [told, at]: what the controller knows if a message is lost, and all behind it,
            \* that was sent after at of the queued records; after the process ended, {}
            \* unless something was lost
    wire    \* records that reached the controller and are not consumed yet

hookVars == <<setting, app, frames, agent, told, unheard, wire>>

Put(f, k, v) == [x \in DOMAIN f \cup {k} |-> IF x = k THEN v ELSE f[x]]
Drop(f, ks)  == [x \in DOMAIN f \ ks |-> f[x]]

Counts      == 0..(Wrap - 1)
NoStatement == [life |-> 0]
\* An inherited statement is named by its pointer.
Statement   == [life: Nat \cup Pointers, module: Modules,
                runner: Threads \cup {Null},    \* who made the last step of the running execution
                n: Nat, work: Nat, counter: Counts]
Context     == [module: Modules, last: Counts \cup {Null}, next: Nat,
                active: Nat \cup {Null}, owner: Threads \cup {Null}, depth: Int]
Call        == [op: HookNames, ptr: Pointers, module: Modules, ctx: Nat \cup {Null},
                at: {"enter", "measure", "inside", "freed", "leave"},
                value: Counts \cup {Null}, behind: Nat]

-----------------------------------------------------------------------------
(* Modules, contexts and counters *)

\* recordComplete
Complete(m) == Hooked[m] = HookNames /\ m \in Readable

\* Symbols of SQLite were found in the module.
Detected(m) == Hooked[m] # {} \/ m \in Readable

\* currentStatus
CurrentStatus(mods, a) ==
    IF a.broken THEN "FAILED"
    ELSE IF a.partial THEN "PARTIAL"
    ELSE IF a.complete \/ \E m \in mods : Complete(m) THEN "ACTIVE"
    ELSE IF \E m \in mods : Detected(m) THEN "DETECTED_UNSUPPORTED" ELSE "NOT_DETECTED"

Live(p) == app.lib[p] # NoStatement

\* lookupContext in the hook of op, when there is one
Hooks(op, p)  == op \in Hooked[app.lib[p].module]
Lookup(p)     == IF p \in DOMAIN agent.contexts THEN agent.contexts[p] ELSE Null
Found(op, p)  == IF Hooks(op, p) THEN Lookup(p) ELSE Null
Owned_Never(c, t) == FALSE
Owned(c, t)   == agent.known[c].owner \notin {Null, t}
IsActive(c)   == c # Null /\ agent.known[c].active # Null

\* snapshot
Reading(s) == IF s.module \in Readable /\ s.counter < Wrap \div 2 THEN s.counter ELSE Null

\* executionMetrics once the counters are read; "counter decreased or overflowed"
Decreased(c, now) == Null \notin {now, agent.known[c].last} /\ now < agent.known[c].last
Metrics_Signed(c, now) == IF Null \in {now, agent.known[c].last}
                          THEN Null ELSE now - agent.known[c].last
Metrics(c, now)   == IF Null \in {now, agent.known[c].last} \/ Decreased(c, now)
                     THEN Null ELSE now - agent.known[c].last

Cleared_KeepsOwner(k) == [k EXCEPT !.active = Null, !.depth = 0]
Cleared(k) == [k EXCEPT !.active = Null, !.owner = Null, !.depth = 0]

Record(type, p, c) == [type |-> type, ptr |-> p, module |-> agent.known[c].module,
                       number |-> agent.known[c].active, value |-> Null]

-----------------------------------------------------------------------------
(* Calls.  The innermost call of a thread is the one that moves. *)

Top(t)           == Head(frames[t])
At(t, op, place) == frames[t] # << >> /\ Top(t).op = op /\ Top(t).at = place
Enter(t, f)      == frames' = [frames EXCEPT ![t] = <<f>> \o @]
Move(t, f)       == frames' = [frames EXCEPT ![t] = <<f>> \o Tail(@)]
Leave(t)         == frames' = [frames EXCEPT ![t] = Tail(@)]

Frame(op, p, m, c, at) == [op |-> op, ptr |-> p, module |-> m, ctx |-> c, at |-> at,
                           value |-> Null, behind |-> 0]

-----------------------------------------------------------------------------
(* Messages and waits *)

\* emitNow, of statuses and errors; an error comes before a status.
Quiet == UNCHANGED <<told, unheard>>
Say(new) ==
    /\ told' = new
    /\ unheard' = unheard \cup {[told |-> x, at |-> Len(agent.queue)] :
                                x \in {told, [new EXCEPT !.status = told.status]} \ {new}}

\* queueLifecycle and flushLifecycle(true) of a transport that has not failed: the hook waits
\* until every record queued has arrived.
Queued(r) == IF agent.broken THEN agent.queue ELSE Append(agent.queue, r)
Waiting_NotAtAll(f, place) == [f EXCEPT !.at = place]
Waiting(f, place) == [f EXCEPT !.at = place, !.behind = IF agent.broken THEN 0 ELSE Len(agent'.queue)]
Waits(t) == frames[t] # << >> /\ Top(t).behind > 0

\* The first n records arrive, with the messages sent before the last of them, and
\* thread t's hook goes on with the frames fs.  Acknowledgements come in order: behind a
\* callback that was replaced, each finds a later batch's callback.
Arrive(n) == wire' = wire \o SubSeq(agent.queue, 1, n)
Unsent(n) == SubSeq(agent.queue, n + 1, Len(agent.queue))
GoOn(t, fs) ==
    LET n         == Top(t).behind
        Nearer(f) == [f EXCEPT !.behind = IF @ > n THEN @ - n ELSE 0]
    IN  /\ \A u \in agent.stuck : n < Top(u).behind
        /\ Arrive(n)
        /\ unheard' = {[e EXCEPT !.at = @ - n] : e \in {d \in unheard : n <= d.at}}
        /\ frames' = [u \in Threads |-> IF u = t THEN fs
                                        ELSE [i \in DOMAIN frames[u] |-> Nearer(frames[u][i])]]

Running(s) == s.runner # Null

\* A thread calls SQLite from the application's code, or from a function that
\* SQLite calls within sqlite3_step.  Nothing is called on a statement that is
\* being finalized, and no statement is finalized that another call is on.
MayCall(t) == frames[t] = << >> \/ (At(t, "step", "inside") /\ Len(frames[t]) < setting.depth)
On(p, ops) == \E t \in Threads : \E i \in DOMAIN frames[t] :
                 frames[t][i].ptr = p /\ frames[t][i].op \in ops
                 /\ frames[t][i].at \in {"enter", "measure", "inside"}
MayUse(t, op, p) ==
    /\ MayCall(t) /\ Live(p)
    /\ ~On(p, IF op = "finalize" THEN HookNames ELSE {"finalize"})
    /\ op # "step" => \A f \in Range(frames[t]) : f.ptr # p
    /\ op = "step" => Running(app.lib[p]) \/ app.lib[p].n < setting.runs

\* The execution that ends with a statement.
Ended(s) == IF s # NoStatement /\ Running(s)
            THEN {[life |-> s.life, n |-> s.n, work |-> s.work]} ELSE {}

Fresh(life, m) == [life |-> life, module |-> m, runner |-> Null, n |-> 0, work |-> 0, counter |-> 0]

-----------------------------------------------------------------------------
\* sqlite3_prepare_v2/v3: the application has the pointer once onLeave is done.
Prepared(p, m, life) ==
    [agent EXCEPT !.contexts = Put(@, p, life),
                  !.known    = Put(@, life, [module |-> m, last |-> IF m \in Readable THEN 0 ELSE Null,
                                             next |-> 0, active |-> Null, owner |-> Null, depth |-> 0]),
                  !.unknown  = @ \ {p},
                  !.complete = @ \/ Complete(m),      \* markActivity
                  !.partial  = @ \/ ~Complete(m),
                  !.queue    = Queued([type |-> "prepared", ptr |-> p, module |-> m,
                                       number |-> life, value |-> Null])]

Prepare(t, p, m) ==
    LET life == app.lives + 1 IN
    /\ MayCall(t) /\ ~Live(p) /\ m \in app.loaded /\ app.lives < setting.lives /\ p \in setting.pointers
    /\ app' = [app EXCEPT !.lives = life, !.used = @ \cup {m},
                          !.lib[p] = Fresh(life, m)]
    /\ IF "prepare" \in Hooked[m]
       THEN /\ agent' = Prepared(p, m, life)
            /\ Say([told EXCEPT !.status = IF agent.broken THEN @ ELSE CurrentStatus(app.loaded, agent')])
            /\ IF setting.doctor THEN Enter(t, Waiting(Frame("prepare", p, m, life, "leave"), "leave"))
                               ELSE UNCHANGED frames
       ELSE UNCHANGED <<agent, frames>> /\ Quiet
    /\ UNCHANGED wire

\* A step, reset or finalize hook finds no context (reportUnknownStatement), or
\* there is no hook.
Unobserved(t, op, p) ==
    LET m   == app.lib[p].module
        new == Hooks(op, p) /\ p \notin agent.unknown
    IN  /\ MayUse(t, op, p)
        /\ Found(op, p) = Null
        /\ agent' = IF new /\ Cardinality(agent.unknown) < MaxUnknown
                    THEN [agent EXCEPT !.unknown = @ \cup {p}] ELSE agent
        /\ Say([told EXCEPT !.lossy = @ \/ new])
        /\ Enter(t, Frame(op, p, m, Null, "inside"))
        /\ UNCHANGED <<app, wire>>

\* "concurrent statement ownership conflict", "concurrent reset conflict"
Conflicts(t, op, p) ==
    LET c == Found(op, p) IN
    /\ MayUse(t, op, p)
    /\ c # Null /\ Owned(c, t)
    /\ op = "step" \/ (op = "reset" /\ IsActive(c))
    /\ Say([told EXCEPT !.lossy = TRUE])
    /\ Enter(t, Frame(op, p, app.lib[p].module, Null, "inside"))
    /\ UNCHANGED <<app, agent, wire>>

-----------------------------------------------------------------------------
(* sqlite3_step *)

Begun_Renumbers(k) == [k EXCEPT !.active = k.next + 1]
Begun(k) == [k EXCEPT !.next = @ + 1, !.active = k.next + 1]

StepEnters(t, p) ==
    LET c     == Found("step", p)
        k     == [agent.known[c] EXCEPT !.owner = t, !.depth = @ + 1]
        f     == Frame("step", p, app.lib[p].module, c, "inside")
    IN  /\ MayUse(t, "step", p)
        /\ c # Null /\ ~Owned(c, t)
        /\ IF IsActive(c)
           THEN agent' = [agent EXCEPT !.known[c] = k] /\ Enter(t, f)
           ELSE /\ k.next < MaxNumber
                /\ agent' = [agent EXCEPT
                       !.known[c] = Begun(k),
                       !.queue = Queued([Record("started", p, c) EXCEPT !.number = Begun(k).active,
                                                                       !.value = t])]
                /\ Enter(t, Waiting(f, "enter"))
        /\ Quiet /\ UNCHANGED <<app, wire>>

StepBegins(t) ==
    /\ At(t, "step", "enter")
    /\ GoOn(t, <<[Top(t) EXCEPT !.at = "inside", !.behind = 0]>> \o Tail(frames[t]))
    /\ agent' = [agent EXCEPT !.queue = Unsent(Top(t).behind)]
    /\ UNCHANGED <<app, told>>

\* What SQLite does: w more work; there is more to do (ROW, BUSY, LOCKED) or not.
Stepped(s, t, w) ==
    [s EXCEPT !.n = IF Running(s) THEN @ ELSE @ + 1, !.runner = t,
              !.work = w + IF Running(s) THEN @ ELSE 0, !.counter = (@ + w) % Wrap]

\* sqlite3_step returns, and onLeave runs up to its reading of the counters.
StepReturns(t, w, more) ==
    LET f     == Top(t)
        s     == Stepped(app.lib[f.ptr], t, w)
        depth == agent.known[f.ctx].depth - 1
    IN  /\ At(t, "step", "inside")
        /\ s.n <= setting.runs /\ s.work <= setting.work
        /\ app' = [app EXCEPT !.lib[f.ptr] = IF more THEN s ELSE [s EXCEPT !.runner = Null],
                              !.truth = @ \cup IF more THEN {} ELSE Ended(s)]
        /\ IF f.ctx = Null THEN Leave(t) /\ Quiet /\ UNCHANGED agent
           ELSE /\ agent' = [agent EXCEPT !.known[f.ctx].depth = depth]
                /\ Say([told EXCEPT !.lossy = @ \/ depth > 0])     \* "reentrant sqlite3_step"
                /\ IF depth > 0 \/ more THEN Leave(t)
                   ELSE Move(t, [f EXCEPT !.at = "measure", !.value = Reading(s)])
        /\ UNCHANGED wire

\* finishActiveExecution with the context k, up to its wait
Finished_Zeroes(f, k, report) ==
    [agent EXCEPT !.known[f.ctx] = Cleared(k),
                  !.queue = Queued([Record("executed", f.ptr, f.ctx) EXCEPT
                                       !.value = IF report = Null THEN 0 ELSE report])]
Finished(f, k, report) ==
    [agent EXCEPT !.known[f.ctx] = Cleared(k),
                  !.queue = Queued([Record("executed", f.ptr, f.ctx) EXCEPT !.value = report])]

\* The rest of onLeave.
StepFinishes(t) ==
    LET f == Top(t)
        k == [agent.known[f.ctx] EXCEPT !.last = f.value]
    IN  /\ At(t, "step", "measure")
        /\ Say([told EXCEPT !.lossy = @ \/ Decreased(f.ctx, f.value)])
        /\ IF IsActive(f.ctx)
           THEN agent' = Finished(f, k, Metrics(f.ctx, f.value)) /\ Move(t, Waiting(f, "leave"))
           ELSE agent' = [agent EXCEPT !.known[f.ctx] = k] /\ Leave(t)
        /\ UNCHANGED <<app, wire>>

\* The last thing a prepare, step or reset hook waits for has arrived.
HookEnds(t) ==
    /\ \E op \in {"prepare", "step", "reset"} : At(t, op, "leave")
    /\ GoOn(t, Tail(frames[t]))
    /\ agent' = [agent EXCEPT !.queue = Unsent(Top(t).behind)]
    /\ UNCHANGED <<app, told>>

-----------------------------------------------------------------------------
(* sqlite3_reset and sqlite3_finalize *)

\* onEnter: the counters are read when an execution is active.
Enters(t, op, p) ==
    LET c == Found(op, p)
        f == Frame(op, p, app.lib[p].module, c, "inside")
    IN  /\ MayUse(t, op, p)
        /\ c # Null
        /\ op = "reset" => ~(IsActive(c) /\ Owned(c, t))
        /\ Enter(t, IF IsActive(c) THEN [f EXCEPT !.at = "measure", !.value = Reading(app.lib[p])] ELSE f)
        /\ Quiet /\ UNCHANGED <<app, agent, wire>>

Measures(t) ==
    LET f == Top(t) IN
    /\ At(t, "reset", "measure") \/ At(t, "finalize", "measure")
    /\ Say([told EXCEPT !.lossy = @ \/ Decreased(f.ctx, f.value)])
    /\ agent' = [agent EXCEPT !.known[f.ctx].last = f.value]
    /\ Move(t, [f EXCEPT !.at = "inside", !.value = Metrics(f.ctx, f.value)])
    /\ UNCHANGED <<app, wire>>

\* sqlite3_reset returns and onLeave runs.
ResetReturns(t) ==
    LET f == Top(t) IN
    /\ At(t, "reset", "inside")
    /\ app' = [app EXCEPT !.lib[f.ptr].runner = Null, !.truth = @ \cup Ended(app.lib[f.ptr])]
    /\ IF IsActive(f.ctx)
       THEN agent' = Finished(f, agent.known[f.ctx], f.value) /\ Move(t, Waiting(f, "leave"))
       ELSE Leave(t) /\ UNCHANGED agent
    /\ Quiet /\ UNCHANGED wire

\* The statement is gone; the hook has not left.
FinalizeReturns(t) ==
    LET f == Top(t) IN
    /\ At(t, "finalize", "inside")
    /\ app' = [app EXCEPT !.lib[f.ptr] = NoStatement, !.truth = @ \cup Ended(app.lib[f.ptr])]
    /\ IF "finalize" \in Hooked[f.module] THEN Move(t, [f EXCEPT !.at = "freed"]) ELSE Leave(t)
    /\ Quiet /\ UNCHANGED <<agent, wire>>

FinalizeFinishes(t) ==
    LET f == Top(t) IN
    /\ At(t, "finalize", "freed")
    /\ IsActive(f.ctx)
    /\ agent' = Finished(f, agent.known[f.ctx], f.value)
    /\ Move(t, Waiting(f, "leave"))
    /\ Quiet /\ UNCHANGED <<app, wire>>

\* The record of the finalization, unless the statement was unknown, and
\* removeContext, by pointer.
Removed(p) == [agent EXCEPT !.contexts = Drop(@, {p}), !.unknown = @ \ {p}]
FinalizeEnds(t) ==
    LET f == Top(t) IN
    /\ \/ At(t, "finalize", "leave")
       \/ At(t, "finalize", "freed") /\ ~IsActive(f.ctx)
    /\ GoOn(t, Tail(frames[t]))
    /\ agent' = [Removed(f.ptr) EXCEPT !.queue =
                    Unsent(f.behind) \o IF f.ctx = Null \/ agent.broken THEN << >>
                                        ELSE <<Record("finalized", f.ptr, f.ctx)>>]
    /\ UNCHANGED <<app, told>>

-----------------------------------------------------------------------------
\* The acknowledgement of an earlier batch, whose thread's callback the recv of this
\* hook replaced before it was called, reaches this hook's: the transport has failed, the
\* hook goes on without its records, and the threads S wait for ever.
Refused(t) ==
    LET f == Top(t) IN
    /\ Waits(t) /\ t \notin agent.stuck
    /\ \E S \in SUBSET {u \in Threads : Waits(u) /\ Top(u).behind < f.behind} :
          /\ S # {}
          /\ agent' = [(IF f.op = "finalize" THEN Removed(f.ptr) ELSE agent) EXCEPT
                           !.broken = TRUE, !.stuck = @ \cup S]
    /\ IF f.at = "enter" THEN Move(t, [f EXCEPT !.at = "inside", !.behind = 0]) ELSE Leave(t)
    /\ Say([told EXCEPT !.lossy = TRUE, !.fatal = TRUE])
    /\ UNCHANGED <<app, wire>>

-----------------------------------------------------------------------------
(* Modules come and go; the process ends. *)

\* removeModule, when no thread is inside the module.
Unload(m) ==
    LET gone      == {p \in DOMAIN agent.contexts : agent.known[agent.contexts[p]].module = m}
        ambiguous == \E p \in gone : LET k == agent.known[agent.contexts[p]] IN
                        k.active # Null \/ k.owner # Null \/ k.depth > 0
        ours      == {p \in Pointers : Live(p) /\ app.lib[p].module = m}
    IN  /\ m \in app.loaded
        /\ \A t \in Threads : \A f \in Range(frames[t]) : f.module # m
        /\ app' = [app EXCEPT !.loaded = @ \ {m},
                              !.truth = @ \cup UNION {Ended(app.lib[p]) : p \in ours},
                              !.lib = [p \in Pointers |-> IF p \in ours THEN NoStatement ELSE @[p]]]
        /\ agent' = [agent EXCEPT !.contexts = Drop(@, gone)]
        /\ Say([status |-> CurrentStatus(app'.loaded, agent),
                lossy |-> told.lossy \/ ambiguous, fatal |-> told.fatal \/ ambiguous])
        /\ UNCHANGED <<frames, wire>>

\* onAdded, of a module that has "sqlite" in its name
Load(m) ==
    /\ m \in setting.modules \ app.loaded
    /\ app' = [app EXCEPT !.loaded = @ \cup {m}]
    /\ Say([told EXCEPT !.status = CurrentStatus(app'.loaded, agent)])
    /\ UNCHANGED <<frames, agent, wire>>

\* The process ends wherever its threads are; of the records that no hook has seen
\* acknowledged, and of the messages sent since, any last part is lost.
Exit(n, heard) ==
    /\ app' = [app EXCEPT !.exited = TRUE, !.lib = [p \in Pointers |-> NoStatement],
                          !.truth = @ \cup UNION {Ended(app.lib[p]) : p \in Pointers}]
    /\ frames' = [t \in Threads |-> << >>]
    /\ Arrive(n)
    /\ agent' = [agent EXCEPT !.queue = << >>]
    /\ told' = heard
    /\ unheard' = IF heard = told THEN {} ELSE unheard

-----------------------------------------------------------------------------
HooksInit ==
    /\ setting \in Settings
    /\ app = [lib |-> [p \in Pointers |-> IF p \in DOMAIN setting.inherited
                                         THEN Fresh(p, setting.inherited[p]) ELSE NoStatement],
              lives |-> 0, loaded |-> setting.modules, truth |-> {}, used |-> {},
               exited |-> FALSE]
    /\ agent = [contexts |-> << >>, known |-> << >>, unknown |-> {},
                complete |-> FALSE, partial |-> FALSE, queue |-> << >>, broken |-> FALSE, stuck |-> {}]
    /\ frames = [t \in Threads |-> << >>]
    /\ told = [status |-> CurrentStatus(setting.modules, agent), lossy |-> FALSE, fatal |-> FALSE]
    /\ unheard = {}
    /\ wire = << >>

Hook(t) ==
    \/ \E p \in Pointers :
          \/ \E m \in Modules : Prepare(t, p, m)
          \/ \E op \in HookNames \ {"prepare"} : Unobserved(t, op, p) \/ Conflicts(t, op, p)
          \/ StepEnters(t, p)
          \/ \E op \in {"reset", "finalize"} : Enters(t, op, p)
    \/ \E w \in 0..setting.work, more \in BOOLEAN : StepReturns(t, w, more)
    \/ StepBegins(t) \/ StepFinishes(t) \/ HookEnds(t) \/ Measures(t) \/ ResetReturns(t)
    \/ FinalizeReturns(t) \/ FinalizeFinishes(t) \/ FinalizeEnds(t) \/ Refused(t)

\* The controller does not answer back: consuming before the next step loses no behaviour.
HooksNext ==
    /\ ~app.exited /\ wire = << >>
    /\ UNCHANGED setting
    /\ \/ \E t \in setting.threads : Hook(t)
       \/ \E m \in Modules : Unload(m) \/ Load(m)
       \/ \E n \in 0..Len(agent.queue) :
             \E heard \in {told} \cup {e.told : e \in {d \in unheard : n <= d.at}} : Exit(n, heard)
=============================================================================
