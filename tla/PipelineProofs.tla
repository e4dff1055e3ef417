--------------------------- MODULE PipelineProofs ---------------------------
(***************************************************************************)
(* Proofs about Pipeline, for any threads, pointers, modules and hooks, any  *)
(* situation and any number of statements and executions: its types, that    *)
(* the records of the hooks drive the statement tracker as StatementTracker  *)
(* specifies it, so that what is proved of the tracker holds here, and that  *)
(* the doctor vouches only for modules that are complete in themselves.      *)
(*                                                                         *)
(* The invariant has two parts.  Shape says what the agent holds: a context  *)
(* is of a statement it was told of, every call refers to one, only the      *)
(* innermost call of a thread waits, for records that are queued, and every  *)
(* record has the fields its type needs.  UseOK says that a call that SQLite *)
(* is in uses a statement that is still there, of the call's module, and     *)
(* that no other thread is finalizing it; without it, a step could return    *)
(* to a statement of another module, or to none.                             *)
(*                                                                         *)
(* The last part prepares ReportProofs, which shows that the report tells    *)
(* the truth: it states the invariant of that proof (TruthInv), how the calls *)
(* and the records move, what a step leaves of it, and what the end of an      *)
(* execution makes of it.                                                    *)
(***************************************************************************)
EXTENDS Pipeline, SequenceTheorems, TLAPS

\* The proofs about the statement tracker, for the tracker of the pipeline.
Proved == INSTANCE StatementTrackerProofs WITH
    Statements <- Pointers, Sources <- Modules, Reports <- Counts \cup {Null}, Measured <- Counts,
    Numbers <- 1..MaxNumber, MaxEvents <- 1000, told <- cited

-----------------------------------------------------------------------------
(* The shape of the state. *)

Number == 1..MaxNumber
Known  == [module: Modules, last: Counts \cup {Null}, next: 0..MaxNumber,
           active: Number \cup {Null}, owner: Threads \cup {Null}, depth: Int]

\* The records of the hooks.
Event == {e \in [type: {"prepared", "started", "executed", "finalized"}, ptr: Pointers,
                 module: Modules, number: Nat \cup {Null}, value: Counts \cup Threads \cup {Null}] :
             /\ e.type = "prepared" => e.number \in Nat
             /\ e.type = "started"  => e.number \in Number /\ e.value \in Threads
             /\ e.type = "executed" => e.number \in Number /\ e.value \in Counts \cup {Null}}

AppOK ==
    /\ setting \in Settings /\ orderly \in BOOLEAN
    /\ app \in [lib: [Pointers -> Statement \cup {NoStatement}], lives: Nat,
                loaded: SUBSET Modules, exited: BOOLEAN, used: SUBSET Modules,
                truth: SUBSET [life: Nat \cup Pointers, n: Nat, work: Nat]]
    /\ app.loaded \subseteq setting.modules

AgentOK ==
    /\ agent = [contexts |-> agent.contexts, known |-> agent.known, unknown |-> agent.unknown,
                complete |-> agent.complete, partial |-> agent.partial, queue |-> agent.queue,
                broken |-> agent.broken, stuck |-> agent.stuck]
    /\ agent.complete \in BOOLEAN /\ agent.partial \in BOOLEAN
    /\ agent.broken \in BOOLEAN /\ agent.stuck \subseteq Threads
    /\ DOMAIN agent.contexts \subseteq Pointers
    /\ \A p \in DOMAIN agent.contexts : agent.contexts[p] \in DOMAIN agent.known
    /\ DOMAIN agent.known \subseteq 1 .. app.lives
    /\ \A c \in DOMAIN agent.known : agent.known[c] \in Known
    /\ agent.known = [c \in DOMAIN agent.known |-> agent.known[c]]

\* The places of a call; only the innermost call of a thread waits.
FrameOK(f, ks, n) ==
    /\ f \in Call
    /\ f.ctx # Null => f.ctx \in ks
    /\ f.at = "measure" => f.ctx # Null
    /\ f.behind <= n
    /\ f.at \notin {"enter", "leave"} => f.behind = 0
FramesOK(fs, ks, n) ==
    /\ fs \in [Threads -> Seq(Call)]
    /\ \A t \in Threads : \A i \in DOMAIN fs[t] :
          /\ FrameOK(fs[t][i], ks, n)
          /\ i > 1 => fs[t][i].op = "step" /\ fs[t][i].at = "inside"

\* A preparation is of a statement the agent has met.
RecordsOK(q, ks) ==
    /\ q \in Seq(Event)
    /\ \A i \in DOMAIN q : q[i].type = "prepared" => q[i].number \in ks

Telling == [status: {"FAILED", "PARTIAL", "ACTIVE", "DETECTED_UNSUPPORTED", "NOT_DETECTED"},
            lossy: BOOLEAN, fatal: BOOLEAN]
ToldOK  == told \in Telling /\ unheard \subseteq [told: Telling, at: Int]

Shape ==
    /\ AppOK /\ AgentOK /\ ToldOK
    /\ RecordsOK(agent.queue, DOMAIN agent.known)
    /\ RecordsOK(wire, DOMAIN agent.known)
    /\ lifeOf \in Seq(DOMAIN agent.known)
    /\ FramesOK(frames, DOMAIN agent.known, Len(agent.queue))

-----------------------------------------------------------------------------
(* Constants *)

LEMMA Bounds ==
    ASSUME setting \in Settings
    PROVE  /\ Wrap \in Nat /\ Wrap > 0 /\ MaxNumber \in Nat /\ 2 * setting.work < Wrap
           /\ setting.work \in Nat /\ setting.runs \in Nat /\ setting.lives \in Nat
           /\ setting.modules \subseteq Modules /\ setting.threads \subseteq Threads
           /\ setting.pointers \subseteq Pointers /\ 0 \in Counts /\ Counts \subseteq Nat
           /\ Null \notin Nat /\ Null \notin Threads
BY SettingsAssumption, CountersAssumption, NullAssumption DEF Setting, Counts

-----------------------------------------------------------------------------
(* Records *)

\* One more record, for a table of statements that only grows.
LEMMA MoreRecords ==
    ASSUME NEW q, NEW ks, NEW ls, RecordsOK(q, ks), ks \subseteq ls,
           NEW e \in Event, e.type = "prepared" => e.number \in ls
    PROVE  RecordsOK(Append(q, e), ls) /\ Len(Append(q, e)) = Len(q) + 1 /\ Len(q) \in Nat
<1>1. /\ q \in Seq(Event) /\ Append(q, e) \in Seq(Event) /\ Len(Append(q, e)) = Len(q) + 1
      /\ Len(q) \in Nat /\ \A i \in 1 .. Len(q) : Append(q, e)[i] = q[i]
      /\ Append(q, e)[Len(q) + 1] = e
  BY DEF RecordsOK
<1>2. DOMAIN Append(q, e) = 1 .. Len(q) + 1 /\ DOMAIN q = 1 .. Len(q)
  BY <1>1
<1>3. \A i \in DOMAIN Append(q, e) : i \in DOMAIN q \/ i = Len(q) + 1
  BY <1>1, <1>2
<1> QED BY <1>1, <1>2, <1>3 DEF RecordsOK

\* A record is queued, unless the transport has failed.
LEMMA QueuedRecords ==
    ASSUME NEW ks, NEW ls, RecordsOK(agent.queue, ks), ks \subseteq ls,
           NEW e \in Event, e.type = "prepared" => e.number \in ls
    PROVE  /\ RecordsOK(Queued(e), ls) /\ Len(agent.queue) \in Nat /\ Len(Queued(e)) \in Nat
           /\ Len(agent.queue) <= Len(Queued(e))
           /\ ~agent.broken => Queued(e) = Append(agent.queue, e) /\ Len(Queued(e)) = Len(agent.queue) + 1
           /\ agent.broken => Queued(e) = agent.queue
<1>1. RecordsOK(Append(agent.queue, e), ls) /\ Len(Append(agent.queue, e)) = Len(agent.queue) + 1
      /\ Len(agent.queue) \in Nat
  BY MoreRecords
<1>2. RecordsOK(agent.queue, ls)
  BY Zenon DEF RecordsOK
<1> QED BY <1>1, <1>2 DEF Queued

LEMMA SameRecords ==
    ASSUME NEW q, NEW ks, NEW ls, RecordsOK(q, ks), ks \subseteq ls
    PROVE  RecordsOK(q, ls)
BY Zenon DEF RecordsOK

\* The queue is cut: the first n records, and the rest.
LEMMA CutRecords ==
    ASSUME NEW q, NEW ks, RecordsOK(q, ks), NEW n \in 0 .. Len(q)
    PROVE  /\ RecordsOK(SubSeq(q, 1, n), ks) /\ RecordsOK(SubSeq(q, n + 1, Len(q)), ks)
           /\ Len(SubSeq(q, n + 1, Len(q))) = Len(q) - n /\ Len(q) \in Nat
<1>1. q \in Seq(Event) /\ Len(q) \in Nat /\ n \in Nat /\ n <= Len(q) /\ DOMAIN q = 1 .. Len(q)
  BY DEF RecordsOK
<1>2. /\ SubSeq(q, 1, n) \in Seq(Event) /\ Len(SubSeq(q, 1, n)) = n
      /\ \A i \in 1 .. n : SubSeq(q, 1, n)[i] = q[i]
  BY <1>1
<1>3. /\ SubSeq(q, n + 1, Len(q)) \in Seq(Event)
      /\ Len(SubSeq(q, n + 1, Len(q))) = Len(q) - n
      /\ \A i \in 1 .. Len(q) - n : SubSeq(q, n + 1, Len(q))[i] = q[n + i]
  <2>1. n + 1 \in Int /\ Len(q) \in Int /\ \A i \in n + 1 .. Len(q) : q[i] \in Event
    BY <1>1
  <2>2. /\ SubSeq(q, n + 1, Len(q)) \in Seq(Event)
        /\ Len(SubSeq(q, n + 1, Len(q))) = IF n + 1 <= Len(q) THEN Len(q) - (n + 1) + 1 ELSE 0
        /\ \A i \in 1 .. Len(q) - (n + 1) + 1 : SubSeq(q, n + 1, Len(q))[i] = q[(n + 1) + i - 1]
    BY <2>1, SubSeqProperties
  <2>3. (IF n + 1 <= Len(q) THEN Len(q) - (n + 1) + 1 ELSE 0) = Len(q) - n
    <3>1. \A a, b \in Nat : b <= a => (IF b + 1 <= a THEN a - (b + 1) + 1 ELSE 0) = a - b
      OBVIOUS
    <3> QED BY <1>1, <3>1
  <2>4. Len(q) - (n + 1) + 1 = Len(q) - n /\ \A i \in 1 .. Len(q) - n : (n + 1) + i - 1 = n + i
    BY <1>1
  <2> QED BY <2>2, <2>3, <2>4, Zenon
<1>4. DOMAIN SubSeq(q, 1, n) = 1 .. n /\ DOMAIN SubSeq(q, n + 1, Len(q)) = 1 .. Len(q) - n
  <2> DEFINE a == SubSeq(q, 1, n)
             b == SubSeq(q, n + 1, Len(q))
  <2>1. a \in Seq(Event) /\ b \in Seq(Event) /\ Len(a) = n /\ Len(b) = Len(q) - n
    BY <1>2, <1>3
  <2> HIDE DEF a, b
  <2>2. DOMAIN a = 1 .. n /\ DOMAIN b = 1 .. Len(q) - n
    BY <2>1
  <2> QED BY <2>2 DEF a, b
<1>5. RecordsOK(SubSeq(q, 1, n), ks)
  BY <1>1, <1>2, <1>4 DEF RecordsOK
<1>6. \A i \in 1 .. Len(q) - n : n + i \in DOMAIN q
  BY <1>1
<1>7. RecordsOK(SubSeq(q, n + 1, Len(q)), ks)
  BY <1>3, <1>4, <1>6 DEF RecordsOK
<1> QED BY <1>1, <1>3, <1>5, <1>7, Zenon

LEMMA JoinRecords ==
    ASSUME NEW q, NEW r, NEW ks, RecordsOK(q, ks), RecordsOK(r, ks)
    PROVE  RecordsOK(q \o r, ks) /\ Len(q \o r) = Len(q) + Len(r)
<1>1. /\ q \in Seq(Event) /\ r \in Seq(Event)
  BY DEF RecordsOK
<1>2. /\ q \o r \in Seq(Event) /\ Len(q \o r) = Len(q) + Len(r) /\ Len(q) \in Nat /\ Len(r) \in Nat
      /\ \A i \in 1 .. Len(q) + Len(r) : (q \o r)[i] = IF i <= Len(q) THEN q[i] ELSE r[i - Len(q)]
  BY <1>1, ConcatProperties
<1>3. DOMAIN (q \o r) = 1 .. Len(q) + Len(r) /\ DOMAIN q = 1 .. Len(q) /\ DOMAIN r = 1 .. Len(r)
  BY <1>1, <1>2
<1>4. \A i \in DOMAIN (q \o r) : \/ i \in DOMAIN q /\ (q \o r)[i] = q[i]
                                 \/ i - Len(q) \in DOMAIN r /\ (q \o r)[i] = r[i - Len(q)]
  BY <1>2, <1>3
<1> QED BY <1>2, <1>4 DEF RecordsOK

LEMMA FewRecords ==
    /\ \A ks : RecordsOK(<< >>, ks) /\ Len(<< >>) = 0
    /\ \A ks : \A e \in Event : (e.type = "prepared" => e.number \in ks) =>
          RecordsOK(<<e>>, ks) /\ Len(<<e>>) = 1
<1>1. \A ks : RecordsOK(<< >>, ks) /\ Len(<< >>) = 0
  BY DEF RecordsOK
<1>2. ASSUME NEW ks, NEW e \in Event, e.type = "prepared" => e.number \in ks
      PROVE  RecordsOK(<<e>>, ks) /\ Len(<<e>>) = 1
  <2>1. <<e>> \in Seq(Event) /\ DOMAIN <<e>> = {1} /\ <<e>>[1] = e /\ Len(<<e>>) = 1
    OBVIOUS
  <2> QED BY <1>2, <2>1 DEF RecordsOK
<1> QED BY <1>1, <1>2

-----------------------------------------------------------------------------
(* Calls *)

LEMMA WiderFrame ==
    ASSUME NEW f, NEW ks, NEW ls, NEW n \in Nat, NEW m \in Nat, FrameOK(f, ks, n),
           ks \subseteq ls, n <= m
    PROVE  FrameOK(f, ls, m)
<1>1. f.behind \in Nat
  BY DEF FrameOK, Call
<1> QED BY <1>1 DEF FrameOK

LEMMA SameFrames ==
    ASSUME NEW fs, NEW ks, NEW ls, NEW n \in Nat, NEW m \in Nat, FramesOK(fs, ks, n),
           ks \subseteq ls, n <= m
    PROVE  FramesOK(fs, ls, m)
BY WiderFrame DEF FramesOK

\* What a thread's stack may become.
StackOK(s, ks, n) ==
    /\ s \in Seq(Call)
    /\ \A i \in DOMAIN s : FrameOK(s[i], ks, n) /\ (i > 1 => s[i].op = "step" /\ s[i].at = "inside")

LEMMA OneStack ==
    ASSUME NEW fs, NEW ks, NEW ls, NEW n \in Nat, NEW m \in Nat, FramesOK(fs, ks, n),
           ks \subseteq ls, n <= m, NEW t \in Threads, NEW s, StackOK(s, ls, m)
    PROVE  FramesOK([fs EXCEPT ![t] = s], ls, m)
<1>1. FramesOK(fs, ls, m)
  BY SameFrames
<1>2. [fs EXCEPT ![t] = s] \in [Threads -> Seq(Call)]
  BY DEF FramesOK, StackOK
<1>3. \A u \in Threads : [fs EXCEPT ![t] = s][u] = IF u = t THEN s ELSE fs[u]
  BY DEF FramesOK
<1> QED BY <1>1, <1>2, <1>3 DEF FramesOK, StackOK

\* The innermost call, and the calls around it.
LEMMA TopOfStack ==
    ASSUME NEW fs, NEW ks, NEW n \in Nat, FramesOK(fs, ks, n), NEW t \in Threads, fs[t] # << >>
    PROVE  /\ FrameOK(Head(fs[t]), ks, n) /\ Head(fs[t]) \in Range(fs[t])
           /\ Head(fs[t]) = fs[t][1] /\ 1 \in DOMAIN fs[t]
           /\ StackOK(Tail(fs[t]), ks, n) /\ Len(Tail(fs[t])) = Len(fs[t]) - 1 /\ Len(fs[t]) \in Nat
           /\ \A i \in DOMAIN Tail(fs[t]) : /\ Tail(fs[t])[i] = fs[t][i + 1] /\ i + 1 \in DOMAIN fs[t]
                                            /\ Tail(fs[t])[i].op = "step" /\ Tail(fs[t])[i].at = "inside"
                                            /\ Tail(fs[t])[i].behind = 0
<1> DEFINE s == fs[t]
<1>1. s \in Seq(Call) /\ Len(s) \in Nat /\ Len(s) > 0 /\ DOMAIN s = 1 .. Len(s) /\ Head(s) = s[1]
  BY DEF FramesOK
<1>2. /\ Tail(s) \in Seq(Call) /\ Len(Tail(s)) = Len(s) - 1 /\ DOMAIN Tail(s) = 1 .. Len(s) - 1
      /\ \A i \in 1 .. Len(s) - 1 : Tail(s)[i] = s[i + 1]
  BY <1>1
<1>3. 1 \in DOMAIN s /\ \A i \in DOMAIN Tail(s) : i + 1 \in DOMAIN s /\ i + 1 > 1
  BY <1>1, <1>2
<1>4. \A i \in DOMAIN s : FrameOK(s[i], ks, n) /\ (i > 1 => s[i].op = "step" /\ s[i].at = "inside")
  BY DEF FramesOK
<1>5. \A i \in DOMAIN Tail(s) : /\ FrameOK(Tail(s)[i], ks, n) /\ Tail(s)[i].behind = 0
                                /\ Tail(s)[i].op = "step" /\ Tail(s)[i].at = "inside"
  BY <1>2, <1>3, <1>4 DEF FrameOK
<1> QED BY <1>1, <1>2, <1>3, <1>4, <1>5 DEF StackOK, Range

LEMMA OntoStack ==
    ASSUME NEW s, NEW ks, NEW n \in Nat, StackOK(s, ks, n), NEW f, FrameOK(f, ks, n),
           \A i \in DOMAIN s : s[i].op = "step" /\ s[i].at = "inside"
    PROVE  /\ StackOK(<<f>> \o s, ks, n) /\ Len(<<f>> \o s) = Len(s) + 1 /\ Len(s) \in Nat
           /\ Head(<<f>> \o s) = f /\ (<<f>> \o s)[1] = f /\ <<f>> \o s # << >>
           /\ Range(<<f>> \o s) = {f} \cup Range(s)
           /\ \A i \in DOMAIN s : (<<f>> \o s)[i + 1] = s[i]
<1> DEFINE r == <<f>> \o s
<1>1. f \in Call /\ s \in Seq(Call) /\ <<f>> \in Seq(Call) /\ Len(<<f>>) = 1 /\ <<f>>[1] = f
  BY DEF FrameOK, StackOK
<1>2. /\ r \in Seq(Call) /\ Len(r) = 1 + Len(s) /\ Len(s) \in Nat
      /\ \A i \in 1 .. 1 + Len(s) : r[i] = IF i <= 1 THEN <<f>>[i] ELSE s[i - 1]
  BY <1>1, ConcatProperties
<1>3. DOMAIN r = 1 .. Len(s) + 1 /\ DOMAIN s = 1 .. Len(s)
  BY <1>1, <1>2
<1>4. r[1] = f /\ Head(r) = r[1] /\ r # << >>
  BY <1>1, <1>2, <1>3
<1>5. \A i \in DOMAIN r : i = 1 \/ (i > 1 /\ i - 1 \in DOMAIN s /\ r[i] = s[i - 1])
  BY <1>2, <1>3
<1>6. \A i \in DOMAIN s : i + 1 \in DOMAIN r /\ r[i + 1] = s[i]
  <2> SUFFICES ASSUME NEW i \in DOMAIN s PROVE i + 1 \in DOMAIN r /\ r[i + 1] = s[i]
    OBVIOUS
  <2>1. i + 1 \in 1 .. 1 + Len(s) /\ ~(i + 1 <= 1) /\ (i + 1) - 1 = i
    BY <1>2, <1>3
  <2> QED BY <1>2, <1>3, <2>1
<1> HIDE DEF r
<1>7. StackOK(r, ks, n)
  BY <1>2, <1>4, <1>5 DEF StackOK
<1>8. Range(r) = {f} \cup Range(s)
  <2>1. 1 \in DOMAIN r
    BY <1>2, <1>3
  <2>2. \A x \in Range(r) : x \in {f} \cup Range(s)
    BY <1>4, <1>5 DEF Range
  <2>3. f \in Range(r)
    BY <1>4, <2>1 DEF Range
  <2>4. \A x \in Range(s) : x \in Range(r)
    BY <1>6 DEF Range
  <2> QED BY <2>2, <2>3, <2>4
<1> QED BY <1>2, <1>4, <1>6, <1>7, <1>8 DEF r

-----------------------------------------------------------------------------
(* A hook's wait is over: what it waited for arrives. *)

LEMMA WaitEnds ==
    ASSUME Shape, NEW t \in Threads, frames[t] # << >>,
           NEW fs, StackOK(fs, DOMAIN agent.known, 0), GoOn(t, fs)
    PROVE  LET n == Top(t).behind IN
           /\ n \in 0 .. Len(agent.queue)
           /\ RecordsOK(Unsent(n), DOMAIN agent.known) /\ Len(Unsent(n)) = Len(agent.queue) - n
           /\ RecordsOK(wire', DOMAIN agent.known) /\ wire' = wire \o SubSeq(agent.queue, 1, n)
           /\ FramesOK(frames', DOMAIN agent.known, Len(agent.queue) - n)
           /\ frames'[t] = fs
           /\ \A u \in Threads : u # t =>
                 /\ DOMAIN frames'[u] = DOMAIN frames[u] /\ Len(frames'[u]) = Len(frames[u])
                 /\ \A i \in DOMAIN frames[u] : frames'[u][i] =
                       [frames[u][i] EXCEPT !.behind = IF frames[u][i].behind > n
                                                       THEN frames[u][i].behind - n ELSE 0]
<1> DEFINE n  == Top(t).behind
           ks == DOMAIN agent.known
           q  == agent.queue
           Nearer(f) == [f EXCEPT !.behind = IF f.behind > n THEN f.behind - n ELSE 0]
<1>1. RecordsOK(q, ks) /\ RecordsOK(wire, ks) /\ FramesOK(frames, ks, Len(q)) /\ Len(q) \in Nat
  BY DEF Shape, RecordsOK
<1>2. n \in 0 .. Len(q)
  <2>1. FrameOK(Top(t), ks, Len(q))
    BY <1>1, TopOfStack DEF Top
  <2> QED BY <2>1, <1>1 DEF FrameOK, Call
<1>3. /\ RecordsOK(Unsent(n), ks) /\ Len(Unsent(n)) = Len(q) - n /\ RecordsOK(SubSeq(q, 1, n), ks)
  BY <1>1, <1>2, CutRecords DEF Unsent
<1>4. wire' = wire \o SubSeq(q, 1, n) /\ RecordsOK(wire', ks)
  <2>1. wire' = wire \o SubSeq(q, 1, n)
    BY DEF GoOn, Arrive
  <2> QED BY <1>1, <1>3, <2>1, JoinRecords
<1>5. frames' = [u \in Threads |-> IF u = t THEN fs ELSE [i \in DOMAIN frames[u] |-> Nearer(frames[u][i])]]
  BY DEF GoOn
<1>6. ASSUME NEW f, FrameOK(f, ks, Len(q)) PROVE FrameOK(Nearer(f), ks, Len(q) - n)
  BY <1>6, <1>1, <1>2 DEF FrameOK, Call
<1>7. ASSUME NEW u \in Threads, u # t
      PROVE  /\ frames'[u] \in Seq(Call) /\ DOMAIN frames'[u] = DOMAIN frames[u]
             /\ Len(frames'[u]) = Len(frames[u])
             /\ \A i \in DOMAIN frames[u] : frames'[u][i] = Nearer(frames[u][i])
             /\ StackOK(frames'[u], ks, Len(q) - n)
  <2>1. frames'[u] = [i \in DOMAIN frames[u] |-> Nearer(frames[u][i])]
    BY <1>5, <1>7
  <2>2. frames[u] \in Seq(Call) /\ DOMAIN frames[u] = 1 .. Len(frames[u]) /\ Len(frames[u]) \in Nat
    BY <1>1 DEF FramesOK
  <2>3. \A i \in DOMAIN frames[u] : /\ FrameOK(frames[u][i], ks, Len(q))
                                    /\ i > 1 => frames[u][i].op = "step" /\ frames[u][i].at = "inside"
    BY <1>1 DEF FramesOK
  <2>4. \A i \in DOMAIN frames[u] : FrameOK(Nearer(frames[u][i]), ks, Len(q) - n)
    BY <2>3, <1>6
  <2>5. \A i \in DOMAIN frames[u] : frames'[u][i] = Nearer(frames[u][i])
    BY <2>1
  <2>6. \A i \in DOMAIN frames[u] : frames'[u][i] \in Call /\ FrameOK(frames'[u][i], ks, Len(q) - n)
    BY <2>4, <2>5 DEF FrameOK
  <2>7. DOMAIN frames'[u] = 1 .. Len(frames[u])
    BY <2>1, <2>2
  <2>8. frames'[u] \in Seq(Call) /\ Len(frames'[u]) = Len(frames[u])
    <3>1. frames'[u] \in [1 .. Len(frames[u]) -> Call]
      <4>1. \A i \in 1 .. Len(frames[u]) : Nearer(frames[u][i]) \in Call
        BY <2>2, <2>4 DEF FrameOK
      <4> HIDE DEF Nearer
      <4> QED BY <2>1, <2>2, <4>1
    <3> QED BY <2>2, <3>1
  <2>9. \A i \in DOMAIN frames[u] : i > 1 => frames'[u][i].op = "step" /\ frames'[u][i].at = "inside"
    BY <2>3, <2>5 DEF FrameOK, Call
  <2> QED BY <2>2, <2>5, <2>6, <2>7, <2>8, <2>9 DEF StackOK
<1>8. frames'[t] = fs
  BY <1>5
<1>9. StackOK(fs, ks, Len(q) - n)
  <2>1. \A i \in DOMAIN fs : FrameOK(fs[i], ks, Len(q) - n)
    BY <1>1, <1>2, WiderFrame DEF StackOK
  <2> QED BY <2>1 DEF StackOK
<1>10. FramesOK(frames', ks, Len(q) - n)
  <2>1. DOMAIN frames' = Threads /\ frames' = [u \in Threads |-> frames'[u]]
    BY <1>5
  <2>2. \A u \in Threads : StackOK(frames'[u], ks, Len(q) - n)
    BY <1>7, <1>8, <1>9
  <2>3. \A u \in Threads : frames'[u] \in Seq(Call)
    BY <2>2 DEF StackOK
  <2>4. frames' \in [Threads -> Seq(Call)]
    BY <2>1, <2>3
  <2> QED BY <2>2, <2>4 DEF FramesOK, StackOK
<1> QED BY <1>2, <1>3, <1>4, <1>7, <1>8, <1>10

\* The calls a thread may call from are all inside sqlite3_step.
LEMMA MayCallInside ==
    ASSUME Shape, NEW t \in Threads, MayCall(t)
    PROVE  \A i \in DOMAIN frames[t] : frames[t][i].op = "step" /\ frames[t][i].at = "inside"
<1>1. FramesOK(frames, DOMAIN agent.known, Len(agent.queue)) /\ Len(agent.queue) \in Nat
  BY DEF Shape, RecordsOK
<1>2. CASE frames[t] = << >>
  BY <1>2
<1>3. CASE frames[t] # << >>
  <2>1. frames[t][1].op = "step" /\ frames[t][1].at = "inside"
    BY <1>1, <1>3, TopOfStack DEF MayCall, At, Top
  <2>2. \A i \in DOMAIN frames[t] : i = 1 \/ i > 1
    BY <1>1 DEF FramesOK
  <2> QED BY <1>1, <2>1, <2>2 DEF FramesOK
<1> QED BY <1>2, <1>3

LEMMA FrameMade ==
    ASSUME NEW op \in HookNames, NEW p \in Pointers, NEW m \in Modules, NEW c \in Nat \cup {Null},
           NEW at \in {"enter", "measure", "inside", "freed", "leave"}
    PROVE  LET f == Frame(op, p, m, c, at) IN
           /\ f \in Call /\ f.op = op /\ f.ptr = p /\ f.module = m /\ f.ctx = c /\ f.at = at
           /\ f.value = Null /\ f.behind = 0
           /\ \A ks : \A n \in Nat : (c # Null => c \in ks) /\ at # "measure" => FrameOK(f, ks, n)
BY DEF Frame, Call, FrameOK

LEMMA FrameWaits ==
    ASSUME NEW f \in Call, NEW place \in {"enter", "leave"}, Len(agent'.queue) \in Nat
    PROVE  LET g == Waiting(f, place) IN
           /\ g \in Call /\ g.op = f.op /\ g.ptr = f.ptr /\ g.module = f.module /\ g.ctx = f.ctx
           /\ g.at = place /\ g.value = f.value
           /\ g.behind = IF agent.broken THEN 0 ELSE Len(agent'.queue)
           /\ \A ks : (f.ctx # Null => f.ctx \in ks) => FrameOK(g, ks, Len(agent'.queue))
<1> DEFINE g == Waiting(f, place)
           n == IF agent.broken THEN 0 ELSE Len(agent'.queue)
<1>1. g = [f EXCEPT !.at = place, !.behind = n]
  BY DEF Waiting
<1> HIDE DEF g, n
<1>2. n \in Nat /\ n <= Len(agent'.queue)
  BY DEF n
<1>3. /\ g \in Call /\ g.op = f.op /\ g.ptr = f.ptr /\ g.module = f.module /\ g.ctx = f.ctx
      /\ g.at = place /\ g.value = f.value /\ g.behind = n
  BY <1>1, <1>2 DEF Call
<1>4. ASSUME NEW ks, f.ctx # Null => f.ctx \in ks PROVE FrameOK(g, ks, Len(agent'.queue))
  BY <1>2, <1>3, <1>4 DEF FrameOK
<1> QED BY <1>3, <1>4 DEF g, n

LEMMA EnterShape ==
    ASSUME Shape, NEW t \in Threads, MayCall(t), NEW f, NEW ls, NEW m \in Nat,
           DOMAIN agent.known \subseteq ls, Len(agent.queue) <= m, FrameOK(f, ls, m), Enter(t, f)
    PROVE  /\ FramesOK(frames', ls, m) /\ frames' = [frames EXCEPT ![t] = <<f>> \o frames[t]]
           /\ frames'[t] = <<f>> \o frames[t]
<1>1. FramesOK(frames, DOMAIN agent.known, Len(agent.queue)) /\ Len(agent.queue) \in Nat
  BY DEF Shape, RecordsOK
<1>2. FramesOK(frames, ls, m)
  BY <1>1, SameFrames
<1>3. StackOK(frames[t], ls, m)
  BY <1>2 DEF FramesOK, StackOK
<1>4. StackOK(<<f>> \o frames[t], ls, m)
  BY <1>3, MayCallInside, OntoStack
<1>5. frames' = [frames EXCEPT ![t] = <<f>> \o frames[t]] /\ frames \in [Threads -> Seq(Call)]
  BY <1>1 DEF Enter, FramesOK
<1>6. frames'[t] = <<f>> \o frames[t]
  BY <1>5
<1> QED BY <1>1, <1>4, <1>5, <1>6, OneStack

LEMMA MoveShape ==
    ASSUME Shape, NEW t \in Threads, frames[t] # << >>, NEW f, NEW ls, NEW m \in Nat,
           DOMAIN agent.known \subseteq ls, Len(agent.queue) <= m, FrameOK(f, ls, m), Move(t, f)
    PROVE  /\ FramesOK(frames', ls, m) /\ frames' = [frames EXCEPT ![t] = <<f>> \o Tail(frames[t])]
           /\ frames'[t] = <<f>> \o Tail(frames[t])
<1>1. FramesOK(frames, DOMAIN agent.known, Len(agent.queue)) /\ Len(agent.queue) \in Nat
  BY DEF Shape, RecordsOK
<1>2. FramesOK(frames, ls, m)
  BY <1>1, SameFrames
<1>3. StackOK(Tail(frames[t]), ls, m)
  BY <1>2, TopOfStack
<1>4. StackOK(<<f>> \o Tail(frames[t]), ls, m)
  <2>1. \A i \in DOMAIN Tail(frames[t]) : Tail(frames[t])[i].op = "step" /\ Tail(frames[t])[i].at = "inside"
    BY <1>2, TopOfStack
  <2> QED BY <1>3, <2>1, OntoStack
<1>5. frames' = [frames EXCEPT ![t] = <<f>> \o Tail(frames[t])] /\ frames \in [Threads -> Seq(Call)]
  BY <1>1 DEF Move, FramesOK
<1>6. frames'[t] = <<f>> \o Tail(frames[t])
  BY <1>5
<1> QED BY <1>1, <1>4, <1>5, <1>6, OneStack

LEMMA LeaveShape ==
    ASSUME Shape, NEW t \in Threads, frames[t] # << >>, NEW ls, NEW m \in Nat,
           DOMAIN agent.known \subseteq ls, Len(agent.queue) <= m, Leave(t)
    PROVE  /\ FramesOK(frames', ls, m) /\ frames' = [frames EXCEPT ![t] = Tail(frames[t])]
           /\ frames'[t] = Tail(frames[t])
<1>1. FramesOK(frames, DOMAIN agent.known, Len(agent.queue)) /\ Len(agent.queue) \in Nat
  BY DEF Shape, RecordsOK
<1>2. FramesOK(frames, ls, m)
  BY <1>1, SameFrames
<1>3. StackOK(Tail(frames[t]), ls, m)
  BY <1>2, TopOfStack
<1>5. frames' = [frames EXCEPT ![t] = Tail(frames[t])] /\ frames \in [Threads -> Seq(Call)]
  BY <1>1 DEF Leave, FramesOK
<1>6. frames'[t] = Tail(frames[t])
  BY <1>5
<1> QED BY <1>1, <1>3, <1>5, <1>6, OneStack

-----------------------------------------------------------------------------
(* What the controller is told *)

LEMMA StatusTold ==
    \A mods, a : CurrentStatus(mods, a) \in {"FAILED", "PARTIAL", "ACTIVE", "DETECTED_UNSUPPORTED", "NOT_DETECTED"}
BY Zenon DEF CurrentStatus

LEMMA SayOK ==
    ASSUME ToldOK, NEW new \in Telling, Len(agent.queue) \in Nat, Say(new)
    PROVE  ToldOK' /\ told' = new
<1>1. told' = new
  BY DEF Say
<1>2. [new EXCEPT !.status = told.status] \in Telling /\ told \in Telling
  BY DEF ToldOK, Telling
<1>3. {[told |-> x, at |-> Len(agent.queue)] : x \in {told, [new EXCEPT !.status = told.status]} \ {new}}
         \subseteq [told: Telling, at: Int]
  BY <1>2
<1>4. unheard' = unheard \cup {[told |-> x, at |-> Len(agent.queue)] :
                               x \in {told, [new EXCEPT !.status = told.status]} \ {new}}
  BY DEF Say
<1> QED BY <1>1, <1>3, <1>4 DEF ToldOK

LEMMA QuietOK == ASSUME ToldOK, Quiet PROVE ToldOK' /\ told' = told
BY DEF Quiet, ToldOK

-----------------------------------------------------------------------------
(* Each step keeps the shape. *)

\* What a step of the application leaves alone.
Aside == orderly' \in BOOLEAN /\ UNCHANGED <<setting, lifeOf>>

LEMMA PrepareShape ==
    ASSUME Shape, Aside, NEW t \in Threads, NEW p \in Pointers, NEW m \in Modules, Prepare(t, p, m)
    PROVE  Shape'
<1> DEFINE life == app.lives + 1
           ks   == DOMAIN agent.known
<1>1. /\ setting \in Settings /\ app.lives \in Nat /\ life \in Nat /\ life # 0 /\ Len(agent.queue) \in Nat
      /\ 0 \in Counts /\ Null \notin Nat
  <2>1. setting \in Settings /\ app.lives \in Nat /\ Len(agent.queue) \in Nat
    BY DEF Shape, AppOK, RecordsOK
  <2> QED BY <2>1, Bounds
<1>2. AppOK' /\ app'.lives = life /\ app' = [app EXCEPT !.lives = life, !.used = @ \cup {m},
                                                     !.lib[p] = Fresh(life, m)]
  <2>1. Fresh(life, m) \in Statement
    BY <1>1 DEF Fresh, Statement
  <2>2. app' = [app EXCEPT !.lives = life, !.used = @ \cup {m}, !.lib[p] = Fresh(life, m)]
    BY DEF Prepare
  <2> QED BY <1>1, <2>1, <2>2 DEF Shape, AppOK, Aside
<1>3. CASE "prepare" \in Hooked[m]
  <2> DEFINE r == [type |-> "prepared", ptr |-> p, module |-> m, number |-> life, value |-> Null]
             k == [module |-> m, last |-> IF m \in Readable THEN 0 ELSE Null,
                   next |-> 0, active |-> Null, owner |-> Null, depth |-> 0]
  <2>1. agent' = Prepared(p, m, life)
    BY <1>3 DEF Prepare
  <2>2. r \in Event /\ k \in Known
    BY <1>1, Bounds DEF Event, Known
  <2>3. /\ agent' = [contexts |-> Put(agent.contexts, p, life), known |-> Put(agent.known, life, k),
                     unknown |-> agent.unknown \ {p}, complete |-> agent.complete \/ Complete(m),
                     partial |-> agent.partial \/ ~Complete(m), queue |-> Queued(r),
                     broken |-> agent.broken, stuck |-> agent.stuck]
    BY <2>1 DEF Prepared, Shape, AgentOK
  <2>4. /\ agent'.contexts = Put(agent.contexts, p, life) /\ agent'.known = Put(agent.known, life, k)
        /\ agent'.queue = Queued(r) /\ agent'.broken = agent.broken /\ agent'.stuck = agent.stuck
        /\ agent'.complete = (agent.complete \/ Complete(m))
        /\ agent'.partial = (agent.partial \/ ~Complete(m))
    BY <2>3
  <2>5. DOMAIN agent'.known = ks \cup {life} /\ DOMAIN agent'.contexts = DOMAIN agent.contexts \cup {p}
    BY <2>4 DEF Put
  <2>6. AgentOK'
    <3>1. \A q \in DOMAIN agent'.contexts : agent'.contexts[q] \in DOMAIN agent'.known
      BY <2>4, <2>5 DEF Put, Shape, AgentOK
    <3>2. DOMAIN agent'.known \subseteq 1 .. app'.lives
      BY <1>1, <1>2, <2>5 DEF Shape, AgentOK
    <3>3. \A c \in DOMAIN agent'.known : agent'.known[c] \in Known
      BY <2>2, <2>4, <2>5 DEF Put, Shape, AgentOK
    <3>4. agent'.known = [c \in DOMAIN agent'.known |-> agent'.known[c]]
      BY <2>4 DEF Put
    <3>5. /\ agent'.complete \in BOOLEAN /\ agent'.partial \in BOOLEAN
          /\ agent'.broken \in BOOLEAN /\ agent'.stuck \subseteq Threads
      BY <2>4 DEF Shape, AgentOK
    <3>6. DOMAIN agent'.contexts \subseteq Pointers
      BY <2>5 DEF Shape, AgentOK
    <3> QED BY <2>3, <3>1, <3>2, <3>3, <3>4, <3>5, <3>6 DEF AgentOK
  <2>7. /\ RecordsOK(agent'.queue, DOMAIN agent'.known) /\ Len(agent'.queue) \in Nat
        /\ Len(agent.queue) <= Len(agent'.queue)
    BY <2>2, <2>4, <2>5, QueuedRecords DEF Shape
  <2>8. RecordsOK(wire', DOMAIN agent'.known) /\ lifeOf' \in Seq(DOMAIN agent'.known)
    <3>1. wire' = wire /\ lifeOf' = lifeOf /\ lifeOf \in Seq(ks) /\ ks \subseteq DOMAIN agent'.known
      BY <2>5 DEF Prepare, Aside, Shape
    <3> QED BY <3>1, SameRecords DEF Shape
  <2>9. ToldOK'
    <3> DEFINE new == [told EXCEPT !.status = IF agent.broken THEN @ ELSE CurrentStatus(app.loaded, agent')]
    <3>1. Say(new) /\ ToldOK
      BY <1>3 DEF Prepare, Shape
    <3>2. new \in Telling
      BY <3>1, StatusTold DEF ToldOK, Telling
    <3> HIDE DEF new
    <3> QED BY <1>1, <3>1, <3>2, SayOK
  <2>10. FramesOK(frames', DOMAIN agent'.known, Len(agent'.queue))
    <3>1. CASE setting.doctor
      <4> DEFINE g == Frame("prepare", p, m, life, "leave")
                 f == Waiting(g, "leave")
      <4>1. g \in Call /\ g.ctx \in DOMAIN agent'.known
        BY <1>1, <2>5, FrameMade DEF HookNames
      <4>2. FrameOK(f, DOMAIN agent'.known, Len(agent'.queue))
        BY <1>1, <2>7, <4>1, FrameWaits
      <4>3. Enter(t, f) /\ MayCall(t)
        BY <1>3, <3>1 DEF Prepare
      <4>4. /\ ks \subseteq DOMAIN agent'.known /\ Len(agent'.queue) \in Nat
            /\ Len(agent.queue) <= Len(agent'.queue)
        BY <1>1, <2>5, <2>7
      <4> HIDE DEF f, g
      <4> QED BY <4>2, <4>3, <4>4, EnterShape
    <3>2. CASE ~setting.doctor
      <4>1. frames' = frames
        BY <1>3, <3>2 DEF Prepare
      <4> QED BY <1>1, <2>5, <2>7, <4>1, SameFrames DEF Shape
    <3> QED BY <3>1, <3>2
  <2> QED BY <1>2, <2>6, <2>7, <2>8, <2>9, <2>10 DEF Shape
<1>4. CASE "prepare" \notin Hooked[m]
  <2>1. UNCHANGED <<agent, told, unheard, frames, wire>>
    BY <1>4 DEF Prepare, Quiet
  <2>2. AgentOK'
    BY <1>1, <1>2, <2>1 DEF Shape, AgentOK
  <2> QED BY <1>2, <2>1, <2>2 DEF Shape, ToldOK, Aside
<1> QED BY <1>3, <1>4

\* The same, when the agent moves nothing.
LEMMA StillShape ==
    ASSUME Shape, NEW t \in Threads
    PROVE  /\ \A f : /\ FrameOK(f, DOMAIN agent.known, Len(agent.queue))
                     /\ (MayCall(t) /\ Enter(t, f)) \/ (frames[t] # << >> /\ Move(t, f))
                     => FramesOK(frames', DOMAIN agent.known, Len(agent.queue))
           /\ frames[t] # << >> /\ Leave(t) => FramesOK(frames', DOMAIN agent.known, Len(agent.queue))
<1> DEFINE ks == DOMAIN agent.known
           n  == Len(agent.queue)
<1>1. n \in Nat /\ n <= n /\ ks \subseteq ks
  BY DEF Shape, RecordsOK
<1>2. ASSUME NEW f, FrameOK(f, ks, n), MayCall(t), Enter(t, f) PROVE FramesOK(frames', ks, n)
  BY <1>1, <1>2, EnterShape
<1>3. ASSUME NEW f, FrameOK(f, ks, n), frames[t] # << >>, Move(t, f) PROVE FramesOK(frames', ks, n)
  BY <1>1, <1>3, MoveShape
<1>4. ASSUME frames[t] # << >>, Leave(t) PROVE FramesOK(frames', ks, n)
  BY <1>1, <1>4, LeaveShape
<1> QED BY <1>2, <1>3, <1>4

\* The table of statements changes at one entry, and the queue as it may.
LEMMA KnownMoves ==
    ASSUME AgentOK, app'.lives = app.lives, NEW c \in DOMAIN agent.known, NEW k \in Known, NEW q,
           agent' = [agent EXCEPT !.known[c] = k, !.queue = q]
    PROVE  /\ AgentOK' /\ DOMAIN agent'.known = DOMAIN agent.known
           /\ agent'.known = [agent.known EXCEPT ![c] = k] /\ agent'.queue = q
           /\ agent'.contexts = agent.contexts /\ agent'.unknown = agent.unknown
           /\ agent'.complete = agent.complete /\ agent'.partial = agent.partial
           /\ agent'.broken = agent.broken /\ agent'.stuck = agent.stuck
<1>1. agent' = [contexts |-> agent.contexts, known |-> [agent.known EXCEPT ![c] = k],
                unknown |-> agent.unknown, complete |-> agent.complete, partial |-> agent.partial,
                queue |-> q, broken |-> agent.broken, stuck |-> agent.stuck]
  BY DEF AgentOK
<1>2. /\ agent'.known = [agent.known EXCEPT ![c] = k] /\ agent'.queue = q
      /\ agent'.contexts = agent.contexts /\ agent'.unknown = agent.unknown
      /\ agent'.complete = agent.complete /\ agent'.partial = agent.partial
      /\ agent'.broken = agent.broken /\ agent'.stuck = agent.stuck
  BY <1>1
<1>3. DOMAIN agent'.known = DOMAIN agent.known
  BY <1>2
<1>4. \A d \in DOMAIN agent'.known : agent'.known[d] \in Known
  BY <1>2, <1>3 DEF AgentOK
<1>5. agent'.known = [d \in DOMAIN agent'.known |-> agent'.known[d]]
  BY <1>2
<1> QED BY <1>1, <1>2, <1>3, <1>4, <1>5 DEF AgentOK

LEMMA KnownOnly ==
    ASSUME AgentOK, NEW c \in DOMAIN agent.known, NEW k,
           agent' = [agent EXCEPT !.known[c] = k]
    PROVE  agent' = [agent EXCEPT !.known[c] = k, !.queue = agent.queue]
BY DEF AgentOK

\* Only the queue changes.
LEMMA QueueMoves ==
    ASSUME AgentOK, app'.lives = app.lives, NEW q, agent' = [agent EXCEPT !.queue = q]
    PROVE  /\ AgentOK' /\ agent'.known = agent.known /\ agent'.queue = q
           /\ agent'.contexts = agent.contexts /\ agent'.unknown = agent.unknown
           /\ agent'.complete = agent.complete /\ agent'.partial = agent.partial
           /\ agent'.broken = agent.broken /\ agent'.stuck = agent.stuck
<1>1. agent' = [contexts |-> agent.contexts, known |-> agent.known,
                unknown |-> agent.unknown, complete |-> agent.complete, partial |-> agent.partial,
                queue |-> q, broken |-> agent.broken, stuck |-> agent.stuck]
  BY DEF AgentOK
<1>2. /\ agent'.known = agent.known /\ agent'.queue = q
      /\ agent'.contexts = agent.contexts /\ agent'.unknown = agent.unknown
      /\ agent'.complete = agent.complete /\ agent'.partial = agent.partial
      /\ agent'.broken = agent.broken /\ agent'.stuck = agent.stuck
  BY <1>1
<1> QED BY <1>1, <1>2 DEF AgentOK

\* Contexts are dropped.
LEMMA ContextsMove ==
    ASSUME AgentOK, app'.lives = app.lives, NEW ps, NEW u, NEW q,
           agent' = [agent EXCEPT !.contexts = Drop(agent.contexts, ps), !.unknown = u, !.queue = q]
    PROVE  /\ AgentOK' /\ agent'.known = agent.known /\ agent'.queue = q
           /\ agent'.contexts = Drop(agent.contexts, ps) /\ agent'.unknown = u
           /\ agent'.complete = agent.complete /\ agent'.partial = agent.partial
           /\ agent'.broken = agent.broken /\ agent'.stuck = agent.stuck
<1>1. agent' = [contexts |-> Drop(agent.contexts, ps), known |-> agent.known,
                unknown |-> u, complete |-> agent.complete, partial |-> agent.partial,
                queue |-> q, broken |-> agent.broken, stuck |-> agent.stuck]
  BY DEF AgentOK
<1>2. /\ agent'.known = agent.known /\ agent'.queue = q
      /\ agent'.contexts = Drop(agent.contexts, ps) /\ agent'.unknown = u
      /\ agent'.complete = agent.complete /\ agent'.partial = agent.partial
      /\ agent'.broken = agent.broken /\ agent'.stuck = agent.stuck
  BY <1>1
<1>3. /\ DOMAIN agent'.contexts \subseteq Pointers
      /\ \A p \in DOMAIN agent'.contexts : agent'.contexts[p] \in DOMAIN agent.known
  BY <1>2 DEF Drop, AgentOK
<1> QED BY <1>1, <1>2, <1>3 DEF AgentOK

\* A record about a statement the agent knows.
LEMMA RecordMade ==
    ASSUME AgentOK, NEW c \in DOMAIN agent.known, NEW p \in Pointers
    PROVE  /\ \A n \in Number, t \in Threads :
                 [Record("started", p, c) EXCEPT !.number = n, !.value = t] \in Event
           /\ \A r \in Counts \cup {Null} : agent.known[c].active # Null =>
                 [Record("executed", p, c) EXCEPT !.value = r] \in Event
           /\ Record("finalized", p, c) \in Event
<1>1. /\ agent.known[c].module \in Modules /\ agent.known[c].active \in Number \cup {Null}
      /\ agent.known[c].active \in Nat \cup {Null}
  BY DEF AgentOK, Known, Number
<1>2. Record("finalized", p, c) \in Event
  BY <1>1 DEF Record, Event
<1>3. ASSUME NEW n \in Number, NEW t \in Threads
      PROVE  [Record("started", p, c) EXCEPT !.number = n, !.value = t] \in Event
  <2>1. n \in Nat
    BY DEF Number
  <2> QED BY <1>1, <2>1 DEF Record, Event
<1>4. ASSUME NEW r \in Counts \cup {Null}, agent.known[c].active # Null
      PROVE  [Record("executed", p, c) EXCEPT !.value = r] \in Event
  BY <1>1, <1>4 DEF Record, Event
<1> QED BY <1>2, <1>3, <1>4

\* What is left of Shape when the steps of one kind leave it alone.
LEMMA ShapeFrom ==
    ASSUME Shape, Aside, AppOK', AgentOK', ToldOK', DOMAIN agent.known \subseteq DOMAIN agent'.known,
           RecordsOK(agent'.queue, DOMAIN agent'.known), RecordsOK(wire', DOMAIN agent'.known),
           FramesOK(frames', DOMAIN agent'.known, Len(agent'.queue))
    PROVE  Shape'
<1>1. lifeOf' \in Seq(DOMAIN agent'.known)
  BY DEF Shape, Aside
<1> QED BY <1>1 DEF Shape

\* What the hooks make of an entry is an entry.
Returning(k) == [k EXCEPT !.depth = @ - 1]
LEMMA EntryMoves ==
    ASSUME NEW k \in Known
    PROVE  /\ \A t \in Threads : LET l == [k EXCEPT !.owner = t, !.depth = @ + 1] IN
                 l \in Known /\ l.next = k.next /\ l.active = k.active /\ l.last = k.last
                 /\ l.module = k.module /\ l.owner = t /\ l.depth = k.depth + 1
           /\ LET l == Returning(k) IN
                 l \in Known /\ l.next = k.next /\ l.active = k.active /\ l.last = k.last
                 /\ l.module = k.module /\ l.owner = k.owner /\ l.depth = k.depth - 1
           /\ \A v \in Counts \cup {Null} : LET l == [k EXCEPT !.last = v] IN
                 l \in Known /\ l.next = k.next /\ l.active = k.active /\ l.last = v
                 /\ l.module = k.module /\ l.owner = k.owner /\ l.depth = k.depth
           /\ LET l == Cleared(k) IN
                 l \in Known /\ l.next = k.next /\ l.active = Null /\ l.last = k.last
                 /\ l.module = k.module /\ l.owner = Null /\ l.depth = 0
<1>1. k.depth + 1 \in Int /\ k.depth - 1 \in Int
  BY DEF Known
<1>2. ASSUME NEW t \in Threads
      PROVE LET l == [k EXCEPT !.owner = t, !.depth = @ + 1] IN
                 l \in Known /\ l.next = k.next /\ l.active = k.active /\ l.last = k.last
                 /\ l.module = k.module /\ l.owner = t /\ l.depth = k.depth + 1
  BY <1>1 DEF Known
<1>3. LET l == Returning(k) IN
                 l \in Known /\ l.next = k.next /\ l.active = k.active /\ l.last = k.last
                 /\ l.module = k.module /\ l.owner = k.owner /\ l.depth = k.depth - 1
  BY <1>1 DEF Known, Returning
<1>4. ASSUME NEW v \in Counts \cup {Null}
      PROVE LET l == [k EXCEPT !.last = v] IN
                 l \in Known /\ l.next = k.next /\ l.active = k.active /\ l.last = v
                 /\ l.module = k.module /\ l.owner = k.owner /\ l.depth = k.depth
  BY DEF Known
<1>5. LET l == Cleared(k) IN
                 l \in Known /\ l.next = k.next /\ l.active = Null /\ l.last = k.last
                 /\ l.module = k.module /\ l.owner = Null /\ l.depth = 0
  <2>1. ASSUME NEW z \in Int
        PROVE  LET l == [k EXCEPT !.active = Null, !.owner = Null, !.depth = z] IN
                 l \in Known /\ l.next = k.next /\ l.active = Null /\ l.last = k.last
                 /\ l.module = k.module /\ l.owner = Null /\ l.depth = z
    BY DEF Known
  <2> DEFINE zero == 0
  <2>2. zero \in Int
    OBVIOUS
  <2> HIDE DEF zero
  <2>3. LET l == [k EXCEPT !.active = Null, !.owner = Null, !.depth = zero] IN
                 l \in Known /\ l.next = k.next /\ l.active = Null /\ l.last = k.last
                 /\ l.module = k.module /\ l.owner = Null /\ l.depth = zero
    BY <2>1, <2>2
  <2> QED BY <2>3, Zenon DEF zero, Cleared
<1> QED BY <1>2, <1>3, <1>4, <1>5

Placed(f, at, v) == [f EXCEPT !.at = at, !.value = v]
Begins(f)        == [f EXCEPT !.at = "inside", !.behind = 0]
LEMMA FrameMoves ==
    ASSUME NEW f \in Call
    PROVE  /\ \A at, v : at \in {"enter", "measure", "inside", "freed", "leave"} /\ v \in Counts \cup {Null} =>
                 LET g == Placed(f, at, v) IN
                 g \in Call /\ g.op = f.op /\ g.ptr = f.ptr /\ g.module = f.module /\ g.ctx = f.ctx
                 /\ g.at = at /\ g.value = v /\ g.behind = f.behind
           /\ LET g == Begins(f) IN
                 g \in Call /\ g.op = f.op /\ g.ptr = f.ptr /\ g.module = f.module /\ g.ctx = f.ctx
                 /\ g.at = "inside" /\ g.value = f.value /\ g.behind = 0
<1>1. ASSUME NEW at \in {"enter", "measure", "inside", "freed", "leave"}, NEW v \in Counts \cup {Null}
      PROVE  LET g == Placed(f, at, v) IN
                 g \in Call /\ g.op = f.op /\ g.ptr = f.ptr /\ g.module = f.module /\ g.ctx = f.ctx
                 /\ g.at = at /\ g.value = v /\ g.behind = f.behind
  BY DEF Call, Placed
<1>2. LET g == Begins(f) IN
                 g \in Call /\ g.op = f.op /\ g.ptr = f.ptr /\ g.module = f.module /\ g.ctx = f.ctx
                 /\ g.at = "inside" /\ g.value = f.value /\ g.behind = 0
  <2>1. ASSUME NEW z \in Nat
        PROVE  LET g == [f EXCEPT !.at = "inside", !.behind = z] IN
                 g \in Call /\ g.op = f.op /\ g.ptr = f.ptr /\ g.module = f.module /\ g.ctx = f.ctx
                 /\ g.at = "inside" /\ g.value = f.value /\ g.behind = z
    BY DEF Call
  <2> DEFINE zero == 0
  <2>2. zero \in Nat
    OBVIOUS
  <2> HIDE DEF zero
  <2>3. LET g == [f EXCEPT !.at = "inside", !.behind = zero] IN
                 g \in Call /\ g.op = f.op /\ g.ptr = f.ptr /\ g.module = f.module /\ g.ctx = f.ctx
                 /\ g.at = "inside" /\ g.value = f.value /\ g.behind = zero
    BY <2>1, <2>2
  <2> QED BY <2>3, Zenon DEF zero, Begins
<1> QED BY <1>1, <1>2

\* What the controller is told of a loss.
Loses(lossy) == [told EXCEPT !.lossy = @ \/ lossy]
LEMMA ToldMoves ==
    ASSUME ToldOK, NEW lossy \in BOOLEAN, Len(agent.queue) \in Nat, Say(Loses(lossy))
    PROVE  /\ ToldOK' /\ told'.status = told.status /\ told'.fatal = told.fatal
           /\ told'.lossy = (told.lossy \/ lossy)
<1>1. Loses(lossy) \in Telling
  BY DEF Loses, ToldOK, Telling
<1>2. ToldOK' /\ told' = Loses(lossy)
  BY <1>1, SayOK
<1> QED BY <1>2 DEF ToldOK, Telling, Loses

\* A context a hook finds is known.
LEMMA FoundKnown ==
    ASSUME AgentOK, NEW op, NEW p, Found(op, p) # Null
    PROVE  /\ Found(op, p) \in DOMAIN agent.known /\ Found(op, p) = agent.contexts[p]
           /\ p \in DOMAIN agent.contexts /\ Hooks(op, p)
BY DEF Found, Lookup, AgentOK

\* A live pointer has a statement.
LEMMA LiveStatement ==
    ASSUME AppOK, NEW p \in Pointers, Live(p)
    PROVE  /\ app.lib[p] \in Statement /\ app.lib[p].module \in Modules
BY DEF AppOK, Live, Statement

-----------------------------------------------------------------------------

LEMMA UnobservedShape ==
    ASSUME Shape, Aside, NEW t \in Threads, NEW p \in Pointers, NEW op \in HookNames, Unobserved(t, op, p)
    PROVE  /\ Shape' /\ UNCHANGED <<app, wire>> /\ agent'.known = agent.known
           /\ agent'.contexts = agent.contexts /\ agent'.queue = agent.queue
           /\ agent'.complete = agent.complete /\ agent'.partial = agent.partial
           /\ agent'.broken = agent.broken /\ agent'.stuck = agent.stuck
<1>1. MayCall(t) /\ Live(p) /\ UNCHANGED <<app, wire>>
  BY DEF Unobserved, MayUse
<1>2. /\ agent'.known = agent.known /\ agent'.contexts = agent.contexts /\ agent'.queue = agent.queue
      /\ agent'.complete = agent.complete /\ agent'.partial = agent.partial /\ AgentOK'
      /\ agent'.broken = agent.broken /\ agent'.stuck = agent.stuck
  <2>1. CASE agent' = agent
    BY <1>1, <2>1 DEF AgentOK, Shape
  <2>2. CASE agent' = [agent EXCEPT !.unknown = @ \cup {p}]
    <3>1. agent' = [contexts |-> agent.contexts, known |-> agent.known,
                    unknown |-> agent.unknown \cup {p}, complete |-> agent.complete,
                    partial |-> agent.partial, queue |-> agent.queue,
                    broken |-> agent.broken, stuck |-> agent.stuck]
      BY <2>2 DEF AgentOK, Shape
    <3>2. /\ agent'.known = agent.known /\ agent'.contexts = agent.contexts /\ agent'.queue = agent.queue
          /\ agent'.complete = agent.complete /\ agent'.partial = agent.partial
          /\ agent'.broken = agent.broken /\ agent'.stuck = agent.stuck
      BY <3>1
    <3> QED BY <1>1, <3>1, <3>2 DEF AgentOK, Shape
  <2> QED BY <2>1, <2>2 DEF Unobserved
<1>3. ToldOK' /\ AppOK'
  <2> DEFINE new == Hooks(op, p) /\ p \notin agent.unknown
  <2>1. Say([told EXCEPT !.lossy = @ \/ new])
    BY DEF Unobserved
  <2>2. [told EXCEPT !.lossy = @ \/ new] \in Telling
    BY DEF Shape, ToldOK, Telling, Hooks
  <2>3. ToldOK'
    BY <2>1, <2>2, SayOK DEF Shape, RecordsOK
  <2> QED BY <1>1, <2>3 DEF Shape, AppOK, Aside
<1>4. app.lib[p].module \in Modules /\ Len(agent.queue) \in Nat
  BY <1>1, LiveStatement DEF Shape, RecordsOK
<1>5. FramesOK(frames', DOMAIN agent.known, Len(agent.queue))
  <2> DEFINE f == Frame(op, p, app.lib[p].module, Null, "inside")
  <2>1. FrameOK(f, DOMAIN agent.known, Len(agent.queue))
    BY <1>4, FrameMade
  <2>2. Enter(t, f)
    BY DEF Unobserved
  <2> HIDE DEF f
  <2> QED BY <1>1, <2>1, <2>2, StillShape
<1> QED BY <1>1, <1>2, <1>3, <1>5, ShapeFrom DEF Shape

LEMMA ConflictsShape ==
    ASSUME Shape, Aside, NEW t \in Threads, NEW p \in Pointers, NEW op \in HookNames, Conflicts(t, op, p)
    PROVE  Shape'
<1>1. MayCall(t) /\ Live(p) /\ UNCHANGED <<app, agent, wire>>
  BY DEF Conflicts, MayUse
<1>2. AgentOK'
  BY <1>1 DEF AgentOK, Shape
<1>3. ToldOK' /\ AppOK'
  <2>1. Say([told EXCEPT !.lossy = TRUE]) /\ [told EXCEPT !.lossy = TRUE] \in Telling
    BY DEF Conflicts, Shape, ToldOK, Telling
  <2>2. ToldOK'
    BY <2>1, SayOK DEF Shape, RecordsOK
  <2> QED BY <1>1, <2>2 DEF Shape, AppOK, Aside
<1>4. app.lib[p].module \in Modules /\ Len(agent.queue) \in Nat
  BY <1>1, LiveStatement DEF Shape, RecordsOK
<1>5. FramesOK(frames', DOMAIN agent.known, Len(agent.queue))
  <2> DEFINE f == Frame(op, p, app.lib[p].module, Null, "inside")
  <2>1. FrameOK(f, DOMAIN agent.known, Len(agent.queue))
    BY <1>4, FrameMade
  <2>2. Enter(t, f)
    BY DEF Conflicts
  <2> HIDE DEF f
  <2> QED BY <1>1, <2>1, <2>2, StillShape
<1> QED BY <1>1, <1>2, <1>3, <1>5, ShapeFrom DEF Shape

\* What a step hook makes of the entry of its statement, its frame and its record.
Entering(c, t)     == [agent.known[c] EXCEPT !.owner = t, !.depth = @ + 1]
Inside(op, p, c)   == Frame(op, p, app.lib[p].module, c, "inside")
Starting(p, c, t)  == [Record("started", p, c) EXCEPT !.number = agent.known[c].next + 1, !.value = t]

LEMMA InsideMade ==
    ASSUME Shape, NEW op \in HookNames, NEW p \in Pointers, Live(p), NEW c,
           c = Null \/ c \in DOMAIN agent.known
    PROVE  LET f == Inside(op, p, c) IN
           /\ f \in Call /\ f.op = op /\ f.ptr = p /\ f.ctx = c /\ f.at = "inside"
           /\ f.module = app.lib[p].module /\ f.value = Null /\ f.behind = 0
           /\ FrameOK(f, DOMAIN agent.known, Len(agent.queue))
<1>1. app.lib[p].module \in Modules /\ Len(agent.queue) \in Nat /\ c \in Nat \cup {Null}
  BY LiveStatement DEF Shape, RecordsOK, AgentOK
<1> QED BY <1>1, FrameMade DEF Inside

LEMMA StepEntersDoes ==
    ASSUME Shape, NEW t \in Threads, NEW p \in Pointers, StepEnters(t, p), NEW c, c = Found("step", p)
    PROVE  /\ c \in DOMAIN agent.known /\ c # Null /\ c = agent.contexts[p] /\ p \in DOMAIN agent.contexts
           /\ MayUse(t, "step", p) /\ ~Owned(c, t) /\ UNCHANGED <<app, told, unheard, wire>>
           /\ Entering(c, t) \in Known
           /\ \/ /\ IsActive(c) /\ agent' = [agent EXCEPT !.known[c] = Entering(c, t), !.queue = agent.queue]
                 /\ Enter(t, Inside("step", p, c))
              \/ /\ ~IsActive(c) /\ Begun(Entering(c, t)) \in Known
                 /\ Starting(p, c, t) \in Event /\ Starting(p, c, t).type = "started"
                 /\ agent' = [agent EXCEPT !.known[c] = Begun(Entering(c, t)),
                                          !.queue = Queued(Starting(p, c, t))]
                 /\ Enter(t, Waiting(Inside("step", p, c), "enter"))
<1>1. /\ c \in DOMAIN agent.known /\ c # Null /\ c = agent.contexts[p] /\ p \in DOMAIN agent.contexts
      /\ MayUse(t, "step", p) /\ ~Owned(c, t) /\ UNCHANGED <<app, told, unheard, wire>>
  BY FoundKnown DEF StepEnters, Shape, Quiet
<1>2. agent.known[c] \in Known /\ Entering(c, t) \in Known /\ Entering(c, t).next = agent.known[c].next
  <2>1. agent.known[c] \in Known
    BY <1>1 DEF Shape, AgentOK
  <2> QED BY <2>1, EntryMoves DEF Entering
<1>3. CASE IsActive(c)
  <2>1. agent' = [agent EXCEPT !.known[c] = Entering(c, t)] /\ Enter(t, Inside("step", p, c))
    BY <1>3 DEF StepEnters, Entering, Inside
  <2>2. agent' = [agent EXCEPT !.known[c] = Entering(c, t), !.queue = agent.queue]
    BY <1>1, <2>1, KnownOnly DEF Shape
  <2> QED BY <1>1, <1>2, <1>3, <2>1, <2>2
<1>4. CASE ~IsActive(c)
  <2>1. /\ agent.known[c].next < MaxNumber
        /\ Begun(Entering(c, t)).active = agent.known[c].next + 1
        /\ Begun(Entering(c, t)).next = agent.known[c].next + 1
    BY <1>2, <1>4 DEF StepEnters, Entering, Begun, Known
  <2>2. agent.known[c].next + 1 \in Number /\ agent.known[c].next + 1 \in 0..MaxNumber
    <3>1. MaxNumber \in Nat
      BY SettingsAssumption
    <3>2. agent.known[c].next \in 0..MaxNumber
      BY <1>2 DEF Known
    <3> QED BY <2>1, <3>1, <3>2 DEF Number
  <2>3. Begun(Entering(c, t)) \in Known
    BY <1>2, <2>2 DEF Begun, Known
  <2>4. Starting(p, c, t) \in Event /\ Starting(p, c, t).type = "started"
    <3>1. Starting(p, c, t) \in Event
      BY <1>1, <2>2, RecordMade DEF Shape, Starting
    <3> QED BY <3>1 DEF Record, Starting
  <2>5. /\ agent' = [agent EXCEPT !.known[c] = Begun(Entering(c, t)),
                       !.queue = Queued(Starting(p, c, t))]
        /\ Enter(t, Waiting(Inside("step", p, c), "enter"))
    <3>1. Starting(p, c, t) = [Record("started", p, c) EXCEPT !.number = Begun(Entering(c, t)).active, !.value = t]
      BY <2>1 DEF Starting
    <3>2. Begun([agent.known[c] EXCEPT !.owner = t, !.depth = @ + 1]) = Begun(Entering(c, t))
      BY DEF Entering
    <3> QED BY <1>4, <3>1, <3>2 DEF StepEnters, Inside
  <2> QED BY <1>1, <1>2, <1>4, <2>3, <2>4, <2>5
<1> QED BY <1>3, <1>4

LEMMA StepEntersShape ==
    ASSUME Shape, Aside, NEW t \in Threads, NEW p \in Pointers, StepEnters(t, p)
    PROVE  Shape'
<1> DEFINE c == Found("step", p)
           k == Entering(c, t)
           f == Inside("step", p, c)
           r == Starting(p, c, t)
<1>1. /\ c \in DOMAIN agent.known /\ MayUse(t, "step", p) /\ UNCHANGED <<app, told, unheard, wire>> /\ k \in Known
      /\ \/ /\ agent' = [agent EXCEPT !.known[c] = k, !.queue = agent.queue]
            /\ Enter(t, f)
         \/ /\ Begun(k) \in Known /\ r \in Event /\ r.type = "started"
            /\ agent' = [agent EXCEPT !.known[c] = Begun(k), !.queue = Queued(r)]
            /\ Enter(t, Waiting(f, "enter"))
  BY StepEntersDoes
<1>2. f \in Call /\ f.ctx = c /\ FrameOK(f, DOMAIN agent.known, Len(agent.queue))
  BY <1>1, InsideMade DEF MayUse, HookNames
<1> HIDE DEF c, k, f, r
<1>3. MayCall(t) /\ Len(agent.queue) \in Nat /\ RecordsOK(agent.queue, DOMAIN agent.known) /\ AgentOK
  BY <1>1 DEF MayUse, Shape, RecordsOK
<1>4. AppOK' /\ ToldOK' /\ app'.lives = app.lives
  BY <1>1 DEF Shape, AppOK, ToldOK, Aside
<1>5. CASE agent' = [agent EXCEPT !.known[c] = k, !.queue = agent.queue] /\ Enter(t, f)
  <2>1. AgentOK' /\ DOMAIN agent'.known = DOMAIN agent.known /\ agent'.queue = agent.queue
    BY <1>1, <1>3, <1>4, <1>5, KnownMoves
  <2>2. FramesOK(frames', DOMAIN agent.known, Len(agent.queue))
    BY <1>2, <1>3, <1>5, StillShape
  <2> QED BY <1>1, <1>4, <2>1, <2>2, ShapeFrom DEF Shape
<1>6. CASE /\ Begun(k) \in Known /\ r \in Event /\ r.type = "started"
           /\ agent' = [agent EXCEPT !.known[c] = Begun(k), !.queue = Queued(r)]
           /\ Enter(t, Waiting(f, "enter"))
  <2>1. /\ AgentOK' /\ DOMAIN agent'.known = DOMAIN agent.known /\ agent'.queue = Queued(r)
    BY <1>1, <1>3, <1>4, <1>6, KnownMoves
  <2>2. /\ RecordsOK(agent'.queue, DOMAIN agent.known) /\ Len(agent'.queue) \in Nat
        /\ Len(agent.queue) <= Len(agent'.queue)
    <3>1. r.type = "prepared" => r.number \in DOMAIN agent.known
      BY <1>6
    <3> QED BY <1>3, <1>6, <2>1, <3>1, QueuedRecords
  <2>3. /\ Len(agent'.queue) \in Nat /\ Len(agent.queue) <= Len(agent'.queue)
        /\ DOMAIN agent.known \subseteq DOMAIN agent.known
    BY <2>2
  <2>4. FrameOK(Waiting(f, "enter"), DOMAIN agent.known, Len(agent'.queue))
    BY <1>1, <1>2, <2>3, FrameWaits
  <2>5. FramesOK(frames', DOMAIN agent.known, Len(agent'.queue))
    BY <1>3, <1>6, <2>3, <2>4, EnterShape
  <2> QED BY <1>1, <1>4, <2>1, <2>2, <2>5, ShapeFrom DEF Shape
<1> QED BY <1>1, <1>5, <1>6, Zenon

\* The call that moves.
LEMMA TopOK ==
    ASSUME Shape, NEW t \in Threads, frames[t] # << >>
    PROVE  /\ Top(t) \in Call /\ FrameOK(Top(t), DOMAIN agent.known, Len(agent.queue))
           /\ Top(t).ptr \in Pointers /\ Top(t).module \in Modules /\ Top(t).op \in HookNames
           /\ Top(t).value \in Counts \cup {Null} /\ Top(t).behind \in Nat /\ Top(t).ctx \in Nat \cup {Null}
           /\ Top(t).ctx = Null \/ (Top(t).ctx \in DOMAIN agent.known /\ agent.known[Top(t).ctx] \in Known)
           /\ Top(t).at = "measure" => Top(t).ctx # Null
           /\ Top(t) = frames[t][1] /\ 1 \in DOMAIN frames[t]
           /\ Len(agent.queue) \in Nat /\ Top(t).behind <= Len(agent.queue)
           /\ StackOK(Tail(frames[t]), DOMAIN agent.known, 0)
           /\ \A i \in DOMAIN Tail(frames[t]) :
                 Tail(frames[t])[i].op = "step" /\ Tail(frames[t])[i].at = "inside"
<1> DEFINE ks == DOMAIN agent.known
           n  == Len(agent.queue)
<1>1. FramesOK(frames, ks, n) /\ n \in Nat
  BY DEF Shape, RecordsOK
<1>2. /\ FrameOK(Top(t), ks, n) /\ Top(t) = frames[t][1] /\ 1 \in DOMAIN frames[t]
      /\ StackOK(Tail(frames[t]), ks, n)
      /\ \A i \in DOMAIN Tail(frames[t]) :
            /\ Tail(frames[t])[i].op = "step" /\ Tail(frames[t])[i].at = "inside"
            /\ Tail(frames[t])[i].behind = 0
  BY <1>1, TopOfStack DEF Top
<1>3. StackOK(Tail(frames[t]), ks, 0)
  BY <1>2 DEF StackOK, FrameOK
<1>4. Top(t) \in Call
  BY <1>2 DEF FrameOK
<1>5. Top(t).ctx = Null \/ (Top(t).ctx \in ks /\ agent.known[Top(t).ctx] \in Known)
  BY <1>2 DEF FrameOK, Shape, AgentOK
<1> QED BY <1>1, <1>2, <1>3, <1>4, <1>5 DEF FrameOK, Call

\* A hook's record of the end of an execution.
Ending(f, r) == [Record("executed", f.ptr, f.ctx) EXCEPT !.value = r]

LEMMA FinishedMoves ==
    ASSUME Shape, app'.lives = app.lives, NEW f \in Call, f.ctx \in DOMAIN agent.known,
           agent.known[f.ctx].active # Null, NEW k \in Known, NEW r \in Counts \cup {Null},
           agent' = Finished(f, k, r)
    PROVE  /\ AgentOK' /\ DOMAIN agent'.known = DOMAIN agent.known
           /\ agent'.known = [agent.known EXCEPT ![f.ctx] = Cleared(k)] /\ Cleared(k) \in Known
           /\ Ending(f, r) \in Event /\ Ending(f, r).type = "executed"
           /\ agent'.queue = Queued(Ending(f, r))
           /\ RecordsOK(agent'.queue, DOMAIN agent'.known)
           /\ Len(agent'.queue) \in Nat /\ Len(agent.queue) <= Len(agent'.queue)
           /\ agent'.contexts = agent.contexts /\ agent'.unknown = agent.unknown
           /\ agent'.complete = agent.complete /\ agent'.partial = agent.partial
           /\ agent'.broken = agent.broken /\ agent'.stuck = agent.stuck
<1>1. agent' = [agent EXCEPT !.known[f.ctx] = Cleared(k), !.queue = Queued(Ending(f, r))]
  BY DEF Finished, Ending
<1>2. Cleared(k) \in Known
  BY EntryMoves
<1>3. Ending(f, r) \in Event
  BY RecordMade DEF Shape, Ending, Call
<1>4. Ending(f, r).type = "executed"
  BY DEF Ending, Record
<1>5. /\ AgentOK' /\ DOMAIN agent'.known = DOMAIN agent.known
      /\ agent'.known = [agent.known EXCEPT ![f.ctx] = Cleared(k)]
      /\ agent'.queue = Queued(Ending(f, r))
      /\ agent'.contexts = agent.contexts /\ agent'.unknown = agent.unknown
      /\ agent'.complete = agent.complete /\ agent'.partial = agent.partial
      /\ agent'.broken = agent.broken /\ agent'.stuck = agent.stuck
  <2> DEFINE c == f.ctx
             l == Cleared(k)
             q == Queued(Ending(f, r))
  <2>1. AgentOK /\ c \in DOMAIN agent.known /\ l \in Known
        /\ agent' = [agent EXCEPT !.known[c] = l, !.queue = q]
    BY <1>1, <1>2 DEF Shape
  <2> HIDE DEF c, l, q
  <2>2. /\ AgentOK' /\ DOMAIN agent'.known = DOMAIN agent.known
        /\ agent'.known = [agent.known EXCEPT ![c] = l] /\ agent'.queue = q
        /\ agent'.contexts = agent.contexts /\ agent'.unknown = agent.unknown
        /\ agent'.complete = agent.complete /\ agent'.partial = agent.partial
        /\ agent'.broken = agent.broken /\ agent'.stuck = agent.stuck
    BY <2>1, KnownMoves, ZenonT(60)
  <2> QED BY <2>2 DEF c, l, q
<1>6. RecordsOK(agent'.queue, DOMAIN agent'.known) /\ Len(agent'.queue) \in Nat /\ Len(agent.queue) <= Len(agent'.queue)
  <2>1. Ending(f, r).type = "prepared" => Ending(f, r).number \in DOMAIN agent'.known
    BY <1>4
  <2> PICK e : e = Ending(f, r)
    OBVIOUS
  <2>2. /\ RecordsOK(Queued(e), DOMAIN agent'.known) /\ Len(Queued(e)) \in Nat
        /\ Len(agent.queue) <= Len(Queued(e))
    BY <1>3, <1>5, <2>1, QueuedRecords DEF Shape
  <2> QED BY <1>5, <2>2
<1> QED BY <1>2, <1>3, <1>4, <1>5, <1>6

LEMMA MetricsCounted ==
    ASSUME AgentOK, NEW c \in DOMAIN agent.known, NEW now \in Counts \cup {Null}, Wrap \in Nat
    PROVE  Metrics(c, now) \in Counts \cup {Null}
<1>1. agent.known[c].last \in Counts \cup {Null}
  BY DEF AgentOK, Known
<1>2. CASE Null \in {now, agent.known[c].last} \/ Decreased(c, now)
  BY <1>2 DEF Metrics
<1>3. CASE ~(Null \in {now, agent.known[c].last} \/ Decreased(c, now))
  BY <1>1, <1>3 DEF Metrics, Decreased, Counts
<1> QED BY <1>2, <1>3

\* A hook waits for the records that are queued.
LEMMA WaitShape ==
    ASSUME Shape, NEW t \in Threads, frames[t] # << >>, NEW f \in Call,
           f.ctx = Null \/ f.ctx \in DOMAIN agent.known, NEW place \in {"enter", "leave"},
           Move(t, Waiting(f, place)), DOMAIN agent'.known = DOMAIN agent.known,
           Len(agent'.queue) \in Nat, Len(agent.queue) <= Len(agent'.queue)
    PROVE  FramesOK(frames', DOMAIN agent'.known, Len(agent'.queue))
<1>1. DOMAIN agent.known \subseteq DOMAIN agent'.known
  OBVIOUS
<1>2. FrameOK(Waiting(f, place), DOMAIN agent'.known, Len(agent'.queue))
  BY <1>1, FrameWaits
<1> QED BY <1>1, <1>2, MoveShape

-----------------------------------------------------------------------------

\* A wait is over and the queue shorter, perhaps with a last record.
LEMMA WaitOverShape ==
    ASSUME Shape, Aside, NEW t \in Threads, frames[t] # << >>,
           NEW fs, StackOK(fs, DOMAIN agent.known, 0), GoOn(t, fs), UNCHANGED <<app, told>>,
           AgentOK', agent'.known = agent.known,
           NEW es, agent'.queue = Unsent(Top(t).behind) \o es, RecordsOK(es, DOMAIN agent.known)
    PROVE  Shape'
<1> DEFINE n == Top(t).behind
<1>1. /\ RecordsOK(Unsent(n), DOMAIN agent.known) /\ Len(Unsent(n)) = Len(agent.queue) - n
      /\ RecordsOK(wire', DOMAIN agent.known) /\ n \in 0 .. Len(agent.queue)
      /\ FramesOK(frames', DOMAIN agent.known, Len(agent.queue) - n)
  BY WaitEnds
<1>2. RecordsOK(agent'.queue, DOMAIN agent.known) /\ Len(agent'.queue) = Len(agent.queue) - n + Len(es)
  BY <1>1, JoinRecords
<1>3. /\ Len(agent.queue) - n \in Nat /\ Len(agent'.queue) \in Nat /\ Len(agent.queue) - n <= Len(agent'.queue)
      /\ DOMAIN agent.known \subseteq DOMAIN agent.known
  <2>1. Len(es) \in Nat /\ Len(agent.queue) \in Nat
    BY DEF RecordsOK, Shape
  <2> QED BY <1>1, <1>2, <2>1
<1>4. FramesOK(frames', DOMAIN agent.known, Len(agent'.queue))
  BY <1>1, <1>3, SameFrames
<1>5. AppOK' /\ ToldOK'
  <2>1. ToldOK /\ n \in Int /\ unheard' = {[e EXCEPT !.at = @ - n] : e \in {d \in unheard : n <= d.at}}
    BY <1>1 DEF Shape, GoOn
  <2>2. \A e \in unheard : [e EXCEPT !.at = @ - n] \in [told: Telling, at: Int]
    BY <2>1 DEF ToldOK
  <2>3. ToldOK'
    BY <2>1, <2>2 DEF ToldOK
  <2> QED BY <2>3 DEF Shape, AppOK, Aside
<1> QED BY <1>1, <1>2, <1>4, <1>5, ShapeFrom

LEMMA StepBeginsShape ==
    ASSUME Shape, Aside, NEW t \in Threads, StepBegins(t)
    PROVE  Shape'
<1> DEFINE f == Begins(Top(t))
           fs == <<f>> \o Tail(frames[t])
           n == Top(t).behind
<1>1. /\ frames[t] # << >> /\ GoOn(t, fs) /\ agent' = [agent EXCEPT !.queue = Unsent(n)]
      /\ UNCHANGED <<app, told>>
  BY DEF StepBegins, At, Begins
<1>2. f \in Call /\ FrameOK(f, DOMAIN agent.known, 0)
  <2>1. /\ Top(t) \in Call /\ f \in Call /\ f.ctx = Top(t).ctx /\ f.at = "inside" /\ f.behind = 0
    BY <1>1, TopOK, FrameMoves
  <2>2. Top(t).ctx # Null => Top(t).ctx \in DOMAIN agent.known
    BY <1>1, TopOK
  <2> QED BY <2>1, <2>2 DEF FrameOK
<1>3. StackOK(fs, DOMAIN agent.known, 0)
  <2>1. /\ StackOK(Tail(frames[t]), DOMAIN agent.known, 0)
        /\ \A i \in DOMAIN Tail(frames[t]) :
                 Tail(frames[t])[i].op = "step" /\ Tail(frames[t])[i].at = "inside"
    BY <1>1, TopOK
  <2> QED BY <1>2, <2>1, OntoStack
<1>4. RecordsOK(Unsent(n), DOMAIN agent.known)
  BY <1>1, <1>3, WaitEnds
<1>5. /\ AgentOK' /\ agent'.known = agent.known /\ agent'.queue = Unsent(n)
  BY <1>1, QueueMoves DEF Shape
<1>6. Unsent(n) = Unsent(n) \o << >> /\ RecordsOK(<< >>, DOMAIN agent.known)
  BY <1>4, FewRecords DEF RecordsOK
<1> HIDE DEF fs
<1> QED BY <1>1, <1>3, <1>5, <1>6, WaitOverShape

LEMMA HookEndsShape ==
    ASSUME Shape, Aside, NEW t \in Threads, HookEnds(t)
    PROVE  Shape'
<1> DEFINE n == Top(t).behind
<1>1. /\ frames[t] # << >> /\ GoOn(t, Tail(frames[t])) /\ agent' = [agent EXCEPT !.queue = Unsent(n)]
      /\ UNCHANGED <<app, told>>
  BY DEF HookEnds, At
<1>2. StackOK(Tail(frames[t]), DOMAIN agent.known, 0)
  BY <1>1, TopOK
<1>3. RecordsOK(Unsent(n), DOMAIN agent.known)
  BY <1>1, <1>2, WaitEnds
<1>4. /\ AgentOK' /\ agent'.known = agent.known /\ agent'.queue = Unsent(n)
  BY <1>1, QueueMoves DEF Shape
<1>5. Unsent(n) = Unsent(n) \o << >> /\ RecordsOK(<< >>, DOMAIN agent.known)
  BY <1>3, FewRecords DEF RecordsOK
<1> QED BY <1>1, <1>2, <1>4, <1>5, WaitOverShape

LEMMA FinalizeEndsShape ==
    ASSUME Shape, Aside, NEW t \in Threads, FinalizeEnds(t)
    PROVE  /\ Shape' /\ UNCHANGED <<app, told>> /\ agent'.known = agent.known
           /\ agent'.contexts = Drop(agent.contexts, {Top(t).ptr})
           /\ agent'.complete = agent.complete /\ agent'.partial = agent.partial
           /\ agent'.broken = agent.broken /\ agent'.stuck = agent.stuck
           /\ agent'.queue = Unsent(Top(t).behind) \o
                 IF Top(t).ctx = Null \/ agent.broken THEN << >>
                 ELSE <<Record("finalized", Top(t).ptr, Top(t).ctx)>>
           /\ GoOn(t, Tail(frames[t])) /\ frames[t] # << >>
<1> DEFINE f == Top(t)
           n == f.behind
           es == IF f.ctx = Null \/ agent.broken THEN << >> ELSE <<Record("finalized", f.ptr, f.ctx)>>
<1>1. /\ frames[t] # << >> /\ GoOn(t, Tail(frames[t])) /\ UNCHANGED <<app, told>>
      /\ agent' = [Removed(f.ptr) EXCEPT !.queue = Unsent(n) \o es]
  BY DEF FinalizeEnds, At
<1>2. StackOK(Tail(frames[t]), DOMAIN agent.known, 0)
  BY <1>1, TopOK
<1>3. agent' = [agent EXCEPT !.contexts = Drop(agent.contexts, {f.ptr}),
                             !.unknown = agent.unknown \ {f.ptr}, !.queue = Unsent(n) \o es]
  BY <1>1 DEF Removed, Shape, AgentOK
<1>4. /\ AgentOK' /\ agent'.known = agent.known /\ agent'.queue = Unsent(n) \o es
      /\ agent'.contexts = Drop(agent.contexts, {f.ptr})
      /\ agent'.complete = agent.complete /\ agent'.partial = agent.partial
      /\ agent'.broken = agent.broken /\ agent'.stuck = agent.stuck
  <2> DEFINE ps == {f.ptr}
             u == agent.unknown \ {f.ptr}
             q == Unsent(n) \o es
  <2>1. /\ AgentOK /\ app'.lives = app.lives
        /\ agent' = [agent EXCEPT !.contexts = Drop(agent.contexts, ps), !.unknown = u, !.queue = q]
    BY <1>1, <1>3 DEF Shape
  <2> HIDE DEF ps, u, q
  <2>2. /\ AgentOK' /\ agent'.known = agent.known /\ agent'.queue = q
        /\ agent'.contexts = Drop(agent.contexts, ps) /\ agent'.unknown = u
        /\ agent'.complete = agent.complete /\ agent'.partial = agent.partial
        /\ agent'.broken = agent.broken /\ agent'.stuck = agent.stuck
    BY <2>1, ContextsMove
  <2> QED BY <2>2 DEF ps, u, q
<1>5. RecordsOK(es, DOMAIN agent.known)
  <2>1. CASE f.ctx = Null \/ agent.broken
    BY <2>1, FewRecords
  <2>2. CASE f.ctx # Null /\ ~agent.broken
    <3>1. Record("finalized", f.ptr, f.ctx) \in Event
      BY <1>1, <2>2, TopOK, RecordMade DEF Shape
    <3>2. Record("finalized", f.ptr, f.ctx).type # "prepared"
      BY DEF Record
    <3> QED BY <2>2, <3>1, <3>2, FewRecords, Zenon
  <2> QED BY <2>1, <2>2
<1>6. Shape'
  <2> HIDE DEF es
  <2> QED BY <1>1, <1>2, <1>4, <1>5, WaitOverShape
<1> QED BY <1>1, <1>4, <1>6

-----------------------------------------------------------------------------
(* A call that SQLite is in uses a live statement of its module, and nobody *)
(* else uses a statement that is being finalized.                           *)

InUse(f) == f.at \in {"enter", "measure", "inside"}
UseOK ==
    /\ \A t \in Threads : \A i \in DOMAIN frames[t] :
          InUse(frames[t][i]) => /\ Live(frames[t][i].ptr)
                                 /\ app.lib[frames[t][i].ptr].module = frames[t][i].module
    /\ \A t, u \in Threads : \A i \in DOMAIN frames[t], j \in DOMAIN frames[u] :
          /\ InUse(frames[t][i]) /\ InUse(frames[u][j]) /\ frames[t][i].ptr = frames[u][j].ptr
          /\ frames[t][i].op = "finalize"
          => t = u /\ i = j

LEMMA TopUse ==
    ASSUME Shape, UseOK, NEW t \in Threads, frames[t] # << >>, InUse(Top(t))
    PROVE  /\ Live(Top(t).ptr) /\ app.lib[Top(t).ptr] \in Statement /\ Top(t).ptr \in Pointers
           /\ app.lib[Top(t).ptr].module = Top(t).module
BY TopOK, LiveStatement DEF UseOK, Shape

\* What a step makes of its statement.
LEMMA SteppedStatement ==
    ASSUME NEW s \in Statement, NEW t \in Threads, NEW w \in Nat, Wrap \in Nat, Wrap > 0
    PROVE  /\ Stepped(s, t, w) \in Statement /\ Stepped(s, t, w).runner = t
           /\ [Stepped(s, t, w) EXCEPT !.runner = Null] \in Statement
           /\ [Stepped(s, t, w) EXCEPT !.runner = Null].runner = Null
           /\ [s EXCEPT !.runner = Null] \in Statement /\ [s EXCEPT !.runner = Null].runner = Null
           /\ Stepped(s, t, w).life = s.life /\ Stepped(s, t, w).module = s.module
           /\ Stepped(s, t, w).n = (IF Running(s) THEN s.n ELSE s.n + 1)
           /\ Stepped(s, t, w).work = w + (IF Running(s) THEN s.work ELSE 0)
           /\ Stepped(s, t, w).counter = (s.counter + w) % Wrap
<1> DEFINE n == IF Running(s) THEN s.n ELSE s.n + 1
           k == w + (IF Running(s) THEN s.work ELSE 0)
           c == (s.counter + w) % Wrap
<1>1. s = [life |-> s.life, module |-> s.module, runner |-> s.runner, n |-> s.n, work |-> s.work,
           counter |-> s.counter]
  BY DEF Statement
<1>2. s.n \in Nat /\ s.work \in Nat /\ s.counter \in Counts /\ s.life \in Nat \cup Pointers /\ s.module \in Modules
  BY DEF Statement
<1>3. n \in Nat /\ k \in Nat
  BY <1>2
<1>4. c \in Counts
  <2>1. s.counter + w \in Nat
    BY <1>2 DEF Counts
  <2> QED BY <2>1 DEF Counts
<1>5. Stepped(s, t, w) = [s EXCEPT !.n = n, !.runner = t, !.work = k, !.counter = c]
  BY DEF Stepped
<1> HIDE DEF n, k, c
<1>6. /\ Stepped(s, t, w) \in Statement /\ Stepped(s, t, w).runner = t /\ Stepped(s, t, w).life = s.life
      /\ Stepped(s, t, w).module = s.module /\ Stepped(s, t, w).n = n /\ Stepped(s, t, w).work = k
      /\ Stepped(s, t, w).counter = c
  BY <1>3, <1>4, <1>5 DEF Statement
<1>7. ASSUME NEW r \in Statement PROVE [r EXCEPT !.runner = Null] \in Statement /\ [r EXCEPT !.runner = Null].runner = Null
  BY DEF Statement
<1> QED BY <1>6, <1>7 DEF n, k, c

LEMMA SteppedParts ==
    ASSUME NEW s \in Statement, NEW t \in Threads, NEW w \in Nat, Wrap \in Nat, Wrap > 0,
           NEW z, z = Stepped(s, t, w)
    PROVE  /\ z \in Statement /\ z.runner = t /\ z.life = s.life /\ z.module = s.module
           /\ z.n = (IF Running(s) THEN s.n ELSE s.n + 1)
           /\ z.work = w + (IF Running(s) THEN s.work ELSE 0)
           /\ z.counter = (s.counter + w) % Wrap
<1>1. /\ Stepped(s, t, w) \in Statement /\ Stepped(s, t, w).runner = t
      /\ Stepped(s, t, w).life = s.life /\ Stepped(s, t, w).module = s.module
      /\ Stepped(s, t, w).n = (IF Running(s) THEN s.n ELSE s.n + 1)
      /\ Stepped(s, t, w).work = w + (IF Running(s) THEN s.work ELSE 0)
      /\ Stepped(s, t, w).counter = (s.counter + w) % Wrap
  BY SteppedStatement, ZenonT(60)
<1> QED BY <1>1, Zenon

\* The executions that end with statements of the application.
LEMMA EndedTruth ==
    ASSUME AppOK
    PROVE  /\ \A s \in Statement \cup {NoStatement} :
                 Ended(s) \subseteq [life: Nat \cup Pointers, n: Nat, work: Nat]
           /\ \A ps \in SUBSET Pointers : UNION {Ended(app.lib[p]) : p \in ps}
                 \subseteq [life: Nat \cup Pointers, n: Nat, work: Nat]
<1>1. ASSUME NEW s \in Statement \cup {NoStatement}
      PROVE  Ended(s) \subseteq [life: Nat \cup Pointers, n: Nat, work: Nat]
  <2>1. CASE s = NoStatement
    BY <2>1 DEF Ended
  <2>2. CASE s \in Statement
    BY <2>2 DEF Ended, Statement
  <2> QED BY <2>1, <2>2
<1>2. ASSUME NEW ps \in SUBSET Pointers
      PROVE  UNION {Ended(app.lib[p]) : p \in ps} \subseteq [life: Nat \cup Pointers, n: Nat, work: Nat]
  <2>1. \A p \in ps : app.lib[p] \in Statement \cup {NoStatement}
    BY DEF AppOK
  <2> QED BY <1>1, <2>1
<1> QED BY <1>1, <1>2

\* The application's table of statements changes at one pointer.
LEMMA LibMoves ==
    ASSUME AppOK, Aside, NEW p \in Pointers, NEW s \in Statement \cup {NoStatement},
           NEW es \in SUBSET [life: Nat \cup Pointers, n: Nat, work: Nat],
           app' = [app EXCEPT !.lib[p] = s, !.truth = @ \cup es]
    PROVE  /\ AppOK' /\ app'.lives = app.lives /\ app'.loaded = app.loaded /\ app'.exited = app.exited
           /\ app'.used = app.used /\ app'.lib = [app.lib EXCEPT ![p] = s]
           /\ app'.truth = app.truth \cup es
BY DEF AppOK, Aside

\* sqlite3_step returns.
Now(t, w, more) == LET s == Stepped(app.lib[Top(t).ptr], t, w) IN
                   IF more THEN s ELSE [s EXCEPT !.runner = Null]

Returned(t, w, more, f, s, k) ==
    /\ frames[t] # << >> /\ f.op = "step" /\ f.at = "inside" /\ f.ptr \in Pointers
    /\ Live(f.ptr) /\ app.lib[f.ptr] \in Statement /\ s \in Statement
    /\ AppOK' /\ app'.lives = app.lives /\ app'.loaded = app.loaded /\ app'.exited = app.exited
    /\ app'.used = app.used
    /\ app'.lib = [app.lib EXCEPT ![f.ptr] = Now(t, w, more)] /\ Now(t, w, more) \in Statement
    /\ app'.truth = app.truth \cup IF more THEN {} ELSE Ended(s)
    /\ wire' = wire /\ w \in Nat
    /\ \/ f.ctx = Null /\ Leave(t) /\ UNCHANGED <<agent, told, unheard>>
       \/ /\ f.ctx \in DOMAIN agent.known /\ f.ctx # Null
          /\ k \in Known /\ Returning(k) \in Known
          /\ agent' = [agent EXCEPT !.known[f.ctx] = Returning(k), !.queue = agent.queue]
          /\ Say(Loses(k.depth - 1 > 0))
          /\ \/ (k.depth - 1 > 0 \/ more) /\ Leave(t)
             \/ /\ ~(k.depth - 1 > 0) /\ ~more
                /\ Move(t, Placed(f, "measure", Reading(s)))
                /\ Reading(s) \in Counts \cup {Null}

LEMMA StepReturnsDoes ==
    ASSUME Shape, UseOK, Aside, NEW t \in Threads, NEW w \in 0..setting.work, NEW more \in BOOLEAN,
           StepReturns(t, w, more), NEW f, f = Top(t), NEW s, s = Stepped(app.lib[f.ptr], t, w),
           NEW k, k = agent.known[f.ctx]
    PROVE  Returned(t, w, more, f, s, k)
<1>1. /\ frames[t] # << >> /\ f.op = "step" /\ f.at = "inside" /\ wire' = wire
      /\ app' = [app EXCEPT !.lib[f.ptr] = Now(t, w, more), !.truth = @ \cup IF more THEN {} ELSE Ended(s)]
  BY DEF StepReturns, At, Now
<1>2. Live(f.ptr) /\ app.lib[f.ptr] \in Statement /\ f.ptr \in Pointers
  BY <1>1, TopUse DEF InUse
<1>3. Wrap \in Nat /\ Wrap > 0 /\ w \in Nat
  BY Bounds DEF Shape, AppOK
<1>4. s \in Statement /\ Now(t, w, more) \in Statement
  BY <1>2, <1>3, SteppedStatement DEF Now
<1>5. /\ AppOK' /\ app'.lives = app.lives /\ app'.loaded = app.loaded /\ app'.exited = app.exited
      /\ app'.used = app.used /\ app'.lib = [app.lib EXCEPT ![f.ptr] = Now(t, w, more)]
      /\ app'.truth = app.truth \cup IF more THEN {} ELSE Ended(s)
  <2> DEFINE x == Now(t, w, more)
             es == IF more THEN {} ELSE Ended(s)
             p == f.ptr
  <2>1. es \in SUBSET [life: Nat \cup Pointers, n: Nat, work: Nat]
    BY <1>4, EndedTruth DEF Shape
  <2>2. x \in Statement \cup {NoStatement} /\ p \in Pointers /\ AppOK
        /\ app' = [app EXCEPT !.lib[p] = x, !.truth = @ \cup es]
    BY <1>1, <1>2, <1>4 DEF Shape
  <2> HIDE DEF x, es, p
  <2>3. /\ AppOK' /\ app'.lives = app.lives /\ app'.loaded = app.loaded /\ app'.exited = app.exited
        /\ app'.used = app.used /\ app'.lib = [app.lib EXCEPT ![p] = x]
        /\ app'.truth = app.truth \cup es
    BY <2>1, <2>2, LibMoves
  <2> QED BY <2>3 DEF x, es, p
<1>6. CASE f.ctx = Null
  BY <1>1, <1>2, <1>3, <1>4, <1>5, <1>6, Zenon DEF StepReturns, Returned, Quiet
<1>7. CASE f.ctx # Null
  <2>1. f.ctx \in DOMAIN agent.known /\ k \in Known
    BY <1>1, <1>7, TopOK
  <2>3. Returning(k) \in Known
    BY <2>1, EntryMoves
  <2>4. /\ agent' = [agent EXCEPT !.known[f.ctx].depth = k.depth - 1]
        /\ Say(Loses(k.depth - 1 > 0))
        /\ IF k.depth - 1 > 0 \/ more THEN Leave(t)
           ELSE Move(t, Placed(f, "measure", Reading(s)))
    BY <1>7 DEF StepReturns, Placed, Loses
  <2>5. agent' = [agent EXCEPT !.known[f.ctx] = Returning(k)]
    BY <2>1, <2>4 DEF Shape, AgentOK, Returning
  <2>6. agent' = [agent EXCEPT !.known[f.ctx] = Returning(k), !.queue = agent.queue]
    BY <2>1, <2>5, KnownOnly DEF Shape
  <2>7. Reading(s) \in Counts \cup {Null}
    BY <1>4 DEF Reading, Statement
  <2> QED BY <1>1, <1>2, <1>3, <1>4, <1>5, <1>7, <2>1, <2>3, <2>4, <2>6, <2>7 DEF Returned
<1> QED BY <1>6, <1>7

LEMMA StepReturnsShape ==
    ASSUME Shape, UseOK, Aside, NEW t \in Threads, NEW w \in 0..setting.work, NEW more \in BOOLEAN,
           StepReturns(t, w, more)
    PROVE  Shape'
<1> PICK f, s, k : f = Top(t) /\ s = Stepped(app.lib[f.ptr], t, w) /\ k = agent.known[f.ctx]
  OBVIOUS
<1>1. /\ frames[t] # << >> /\ f.at = "inside" /\ AppOK' /\ app'.lives = app.lives /\ wire' = wire
      /\ \/ f.ctx = Null /\ Leave(t) /\ UNCHANGED <<agent, told, unheard>>
         \/ /\ f.ctx \in DOMAIN agent.known /\ f.ctx # Null /\ k \in Known /\ Returning(k) \in Known
            /\ agent' = [agent EXCEPT !.known[f.ctx] = Returning(k), !.queue = agent.queue]
            /\ Say(Loses(k.depth - 1 > 0))
            /\ \/ (k.depth - 1 > 0 \/ more) /\ Leave(t)
               \/ /\ ~(k.depth - 1 > 0) /\ ~more
                  /\ Move(t, Placed(f, "measure", Reading(s)))
                  /\ Reading(s) \in Counts \cup {Null}
  <2>1. Returned(t, w, more, f, s, k)
    BY StepReturnsDoes, Zenon
  <2> QED BY <2>1 DEF Returned
<1>2. f \in Call /\ Len(agent.queue) \in Nat /\ f.behind <= Len(agent.queue) /\ f.behind = 0
  <2>1. FrameOK(f, DOMAIN agent.known, Len(agent.queue)) /\ f \in Call /\ Len(agent.queue) \in Nat
    BY <1>1, TopOK
  <2> QED BY <1>1, <2>1 DEF FrameOK
<1>3. CASE f.ctx = Null /\ Leave(t) /\ UNCHANGED <<agent, told, unheard>>
  <2>1. FramesOK(frames', DOMAIN agent.known, Len(agent.queue))
    BY <1>1, <1>3, StillShape
  <2>2. AgentOK' /\ ToldOK'
    BY <1>1, <1>3 DEF Shape, AgentOK, ToldOK
  <2> QED BY <1>1, <1>3, <2>1, <2>2, ShapeFrom DEF Shape
<1>4. CASE /\ f.ctx \in DOMAIN agent.known /\ f.ctx # Null /\ k \in Known /\ Returning(k) \in Known
           /\ agent' = [agent EXCEPT !.known[f.ctx] = Returning(k), !.queue = agent.queue]
           /\ Say(Loses(k.depth - 1 > 0))
           /\ \/ Leave(t)
              \/ /\ Move(t, Placed(f, "measure", Reading(s)))
                 /\ Reading(s) \in Counts \cup {Null}
  <2>1. AgentOK' /\ DOMAIN agent'.known = DOMAIN agent.known /\ agent'.queue = agent.queue
    <3> PICK c, l, q : c = f.ctx /\ l = Returning(k) /\ q = agent.queue
      OBVIOUS
    <3>1. /\ AgentOK /\ c \in DOMAIN agent.known /\ l \in Known /\ app'.lives = app.lives
          /\ agent' = [agent EXCEPT !.known[c] = l, !.queue = q]
      BY <1>1, <1>4 DEF Shape
    <3>2. AgentOK' /\ DOMAIN agent'.known = DOMAIN agent.known /\ agent'.queue = q
      BY <3>1, KnownMoves
    <3> QED BY <3>2
  <2>2. ToldOK'
    <3>1. (k.depth - 1 > 0) \in BOOLEAN
      OBVIOUS
    <3> QED BY <1>2, <1>4, <3>1, ToldMoves DEF Shape
  <2>3. FramesOK(frames', DOMAIN agent.known, Len(agent.queue))
    <3>1. CASE Leave(t)
      BY <1>1, <3>1, StillShape
    <3>2. CASE Move(t, Placed(f, "measure", Reading(s))) /\ Reading(s) \in Counts \cup {Null}
      <4> PICK v : v = Reading(s)
        OBVIOUS
      <4> PICK g : g = Placed(f, "measure", v)
        OBVIOUS
      <4>1. /\ g \in Call /\ g.ctx = f.ctx /\ g.at = "measure" /\ g.behind = f.behind
        <5>1. f \in Call /\ v \in Counts \cup {Null}
          BY <1>2, <3>2, Zenon
        <5> QED BY <5>1, FrameMoves
      <4>2. FrameOK(g, DOMAIN agent.known, Len(agent.queue)) /\ Move(t, g)
        BY <1>2, <1>4, <3>2, <4>1 DEF FrameOK
      <4> QED BY <1>1, <4>2, StillShape
    <3> QED BY <1>4, <3>1, <3>2
  <2> QED BY <1>1, <2>1, <2>2, <2>3, ShapeFrom DEF Shape
<1> QED BY <1>1, <1>3, <1>4

\* The three ways a hook goes on: it records the end of an execution and waits,
LEMMA EndsShape ==
    ASSUME Shape, Aside, NEW t \in Threads, frames[t] # << >>, AppOK', ToldOK',
           app'.lives = app.lives, wire' = wire, NEW f \in Call, f.ctx \in DOMAIN agent.known,
           agent.known[f.ctx].active # Null, NEW k \in Known, NEW r \in Counts \cup {Null},
           agent' = Finished(f, k, r), Move(t, Waiting(f, "leave"))
    PROVE  Shape'
<1>1. /\ AgentOK' /\ DOMAIN agent'.known = DOMAIN agent.known
      /\ RecordsOK(agent'.queue, DOMAIN agent'.known) /\ Len(agent'.queue) \in Nat /\ Len(agent.queue) <= Len(agent'.queue)
  BY FinishedMoves
<1>2. FramesOK(frames', DOMAIN agent'.known, Len(agent'.queue))
  BY <1>1, WaitShape
<1>3. /\ RecordsOK(wire', DOMAIN agent'.known) /\ DOMAIN agent.known \subseteq DOMAIN agent'.known
  BY <1>1 DEF Shape
<1> QED BY <1>1, <1>2, <1>3, ShapeFrom

\* it changes the entry of its statement, or it leaves the agent alone.
Goes(t) ==
    \/ frames[t] # << >> /\ Leave(t)
    \/ \E g : /\ FrameOK(g, DOMAIN agent.known, Len(agent.queue))
              /\ (frames[t] # << >> /\ Move(t, g)) \/ (MayCall(t) /\ Enter(t, g))

LEMMA EntryOnly ==
    ASSUME AgentOK, app'.lives = app.lives, NEW c \in DOMAIN agent.known, NEW k \in Known,
           agent' = [agent EXCEPT !.known[c] = k]
    PROVE  /\ AgentOK' /\ DOMAIN agent'.known = DOMAIN agent.known
           /\ agent'.known = [agent.known EXCEPT ![c] = k] /\ agent'.queue = agent.queue
           /\ agent'.contexts = agent.contexts /\ agent'.unknown = agent.unknown
           /\ agent'.complete = agent.complete /\ agent'.partial = agent.partial
           /\ agent'.broken = agent.broken /\ agent'.stuck = agent.stuck
<1>1. agent' = [contexts |-> agent.contexts, known |-> [agent.known EXCEPT ![c] = k],
                unknown |-> agent.unknown, complete |-> agent.complete, partial |-> agent.partial,
                queue |-> agent.queue, broken |-> agent.broken, stuck |-> agent.stuck]
  BY DEF AgentOK
<1>2. /\ agent'.known = [agent.known EXCEPT ![c] = k] /\ agent'.queue = agent.queue
      /\ agent'.contexts = agent.contexts /\ agent'.unknown = agent.unknown
      /\ agent'.complete = agent.complete /\ agent'.partial = agent.partial
      /\ agent'.broken = agent.broken /\ agent'.stuck = agent.stuck
  BY <1>1
<1>3. DOMAIN agent'.known = DOMAIN agent.known
  BY <1>2
<1>4. \A d \in DOMAIN agent'.known : agent'.known[d] \in Known
  BY <1>2, <1>3 DEF AgentOK
<1>5. agent'.known = [d \in DOMAIN agent'.known |-> agent'.known[d]]
  BY <1>2
<1> QED BY <1>1, <1>2, <1>3, <1>4, <1>5 DEF AgentOK

LEMMA EntryShape ==
    ASSUME Shape, Aside, NEW t \in Threads, Goes(t), AppOK', ToldOK',
           app'.lives = app.lives, wire' = wire, NEW c \in DOMAIN agent.known, NEW k \in Known,
           agent' = [agent EXCEPT !.known[c] = k]
    PROVE  Shape'
<1>2. /\ AgentOK' /\ DOMAIN agent'.known = DOMAIN agent.known /\ agent'.queue = agent.queue
  BY EntryOnly DEF Shape
<1>3. FramesOK(frames', DOMAIN agent.known, Len(agent.queue))
  BY StillShape DEF Goes
<1> QED BY <1>2, <1>3, ShapeFrom DEF Shape

LEMMA SameAgentShape ==
    ASSUME Shape, Aside, NEW t \in Threads, Goes(t), AppOK', ToldOK',
           app'.lives = app.lives, wire' = wire, agent' = agent
    PROVE  Shape'
<1>1. AgentOK'
  BY DEF Shape, AgentOK
<1>2. FramesOK(frames', DOMAIN agent.known, Len(agent.queue))
  BY StillShape DEF Goes
<1> QED BY <1>1, <1>2, ShapeFrom DEF Shape

Counted(k, v) == [k EXCEPT !.last = v]
LEMMA CountedMoves ==
    ASSUME NEW k \in Known, NEW v \in Counts \cup {Null}
    PROVE  LET l == Counted(k, v) IN
           l \in Known /\ l.next = k.next /\ l.active = k.active /\ l.last = v
                 /\ l.module = k.module /\ l.owner = k.owner /\ l.depth = k.depth
BY EntryMoves DEF Counted

\* A call that moves is the same call.
Same(g, f) == /\ g \in Call /\ g.op = f.op /\ g.ptr = f.ptr /\ g.module = f.module
              /\ g.ctx = f.ctx /\ g.behind = f.behind
LEMMA PlacedSame ==
    ASSUME NEW f \in Call, NEW at \in {"enter", "measure", "inside", "freed", "leave"},
           NEW v \in Counts \cup {Null}, NEW g, g = Placed(f, at, v)
    PROVE  Same(g, f) /\ g.at = at /\ g.value = v
BY FrameMoves DEF Same

LEMMA StepFinishesShape ==
    ASSUME Shape, Aside, NEW t \in Threads, StepFinishes(t)
    PROVE  Shape'
<1> PICK f, c, v, k : f = Top(t) /\ c = f.ctx /\ v = f.value /\ k = Counted(agent.known[c], v)
  OBVIOUS
<1>1. /\ frames[t] # << >> /\ f.at = "measure" /\ UNCHANGED <<app, wire>>
      /\ Say(Loses(Decreased(c, v)))
      /\ \/ IsActive(c) /\ agent' = Finished(f, k, Metrics(c, v)) /\ Move(t, Waiting(f, "leave"))
         \/ agent' = [agent EXCEPT !.known[c] = k] /\ Leave(t)
  BY DEF StepFinishes, At, Loses, Counted
<1>2. /\ f \in Call /\ c \in DOMAIN agent.known /\ agent.known[c] \in Known /\ v \in Counts \cup {Null}
  BY <1>1, TopOK
<1>3. k \in Known /\ Metrics(c, v) \in Counts \cup {Null}
  BY <1>2, CountedMoves, MetricsCounted, Bounds DEF Shape, AppOK
<1>4. AppOK' /\ ToldOK' /\ app'.lives = app.lives
  <2>1. Decreased(c, v) \in BOOLEAN
    BY DEF Decreased
  <2> QED BY <1>1, <2>1, ToldMoves DEF Shape, AppOK, RecordsOK, Aside
<1>5. CASE IsActive(c) /\ agent' = Finished(f, k, Metrics(c, v)) /\ Move(t, Waiting(f, "leave"))
  <2> PICK r : r = Metrics(c, v)
    OBVIOUS
  <2> QED BY <1>1, <1>2, <1>3, <1>4, <1>5, EndsShape DEF IsActive
<1>6. CASE agent' = [agent EXCEPT !.known[c] = k] /\ Leave(t)
  BY <1>1, <1>2, <1>3, <1>4, <1>6, EntryShape DEF Goes
<1> QED BY <1>1, <1>5, <1>6

LEMMA ReadingCounted ==
    ASSUME NEW s \in Statement
    PROVE  Reading(s) \in Counts \cup {Null}
BY DEF Reading, Statement

LEMMA EntersShape ==
    ASSUME Shape, Aside, NEW t \in Threads, NEW op \in HookNames, NEW p \in Pointers, Enters(t, op, p)
    PROVE  Shape'
<1> PICK c, f, v : c = Found(op, p) /\ f = Inside(op, p, c) /\ v = Reading(app.lib[p])
  OBVIOUS
<1> PICK g : g = Placed(f, "measure", v)
  OBVIOUS
<1>1. /\ MayCall(t) /\ Live(p) /\ c # Null /\ UNCHANGED <<app, agent, told, unheard, wire>>
      /\ Enter(t, g) \/ Enter(t, f)
  BY DEF Enters, MayUse, Inside, Placed, Quiet
<1>2. c \in DOMAIN agent.known /\ v \in Counts \cup {Null}
  BY <1>1, FoundKnown, LiveStatement, ReadingCounted DEF Shape
<1>3. f \in Call /\ f.ctx = c /\ f.behind = 0 /\ FrameOK(f, DOMAIN agent.known, Len(agent.queue))
  BY <1>1, <1>2, InsideMade
<1>4. Same(g, f) /\ g.at = "measure"
  BY <1>2, <1>3, PlacedSame
<1>5. FrameOK(g, DOMAIN agent.known, Len(agent.queue))
  BY <1>1, <1>2, <1>3, <1>4 DEF FrameOK, Same
<1>6. AppOK' /\ ToldOK' /\ app'.lives = app.lives
  BY <1>1 DEF Shape, AppOK, ToldOK, Aside
<1> QED BY <1>1, <1>3, <1>5, <1>6, SameAgentShape DEF Goes

LEMMA MeasuresShape ==
    ASSUME Shape, Aside, NEW t \in Threads, Measures(t)
    PROVE  Shape'
<1> PICK f, c, v, k, r : /\ f = Top(t) /\ c = f.ctx /\ v = f.value /\ k = Counted(agent.known[c], v)
                         /\ r = Metrics(c, v)
  OBVIOUS
<1> PICK g : g = Placed(f, "inside", r)
  OBVIOUS
<1>1. /\ frames[t] # << >> /\ f.at = "measure" /\ UNCHANGED <<app, wire>>
      /\ Say(Loses(Decreased(c, v)))
      /\ agent' = [agent EXCEPT !.known[c].last = v] /\ Move(t, g)
  BY DEF Measures, At, Loses, Placed
<1>2. /\ f \in Call /\ c \in DOMAIN agent.known /\ agent.known[c] \in Known /\ v \in Counts \cup {Null}
      /\ FrameOK(f, DOMAIN agent.known, Len(agent.queue)) /\ Len(agent.queue) \in Nat
  BY <1>1, TopOK
<1>3. k \in Known /\ r \in Counts \cup {Null}
  BY <1>2, CountedMoves, MetricsCounted, Bounds DEF Shape, AppOK
<1>4. AppOK' /\ ToldOK' /\ app'.lives = app.lives
  <2>1. Decreased(c, v) \in BOOLEAN
    BY DEF Decreased
  <2> QED BY <1>1, <2>1, ToldMoves DEF Shape, AppOK, RecordsOK, Aside
<1>5. agent' = [agent EXCEPT !.known[c] = k]
  BY <1>1, <1>2 DEF Counted, Shape, AgentOK
<1>6. g \in Call /\ g.ctx = f.ctx /\ g.at = "inside" /\ g.behind = f.behind
  <2>1. f \in Call /\ r \in Counts \cup {Null}
    BY <1>2, <1>3
  <2> QED BY <2>1, FrameMoves
<1>7. FrameOK(g, DOMAIN agent.known, Len(agent.queue))
  BY <1>1, <1>2, <1>6 DEF FrameOK
<1> QED BY <1>1, <1>2, <1>3, <1>4, <1>5, <1>7, EntryShape DEF Goes

LEMMA ResetReturnsShape ==
    ASSUME Shape, UseOK, Aside, NEW t \in Threads, ResetReturns(t)
    PROVE  Shape'
<1> PICK f, c, p, s, es : /\ f = Top(t) /\ c = f.ctx /\ p = f.ptr /\ es = Ended(app.lib[p])
                          /\ s = [app.lib[p] EXCEPT !.runner = Null]
  OBVIOUS
<1>1. /\ frames[t] # << >> /\ f.at = "inside" /\ UNCHANGED <<told, unheard, wire>>
      /\ app' = [app EXCEPT !.lib[p].runner = Null, !.truth = @ \cup es]
      /\ \/ IsActive(c) /\ agent' = Finished(f, agent.known[c], f.value) /\ Move(t, Waiting(f, "leave"))
         \/ Leave(t) /\ agent' = agent
  BY DEF ResetReturns, At, Quiet
<1>2. /\ app.lib[p] \in Statement /\ p \in Pointers /\ s \in Statement \cup {NoStatement}
  <2>1. app.lib[p] \in Statement /\ p \in Pointers
    BY <1>1, TopUse DEF InUse
  <2> QED BY <2>1 DEF Statement
<1>3. app' = [app EXCEPT !.lib[p] = s, !.truth = @ \cup es]
  BY <1>1, <1>2, Zenon DEF Shape, AppOK
<1>4. AppOK' /\ app'.lives = app.lives /\ ToldOK'
  <2>1. es \in SUBSET [life: Nat \cup Pointers, n: Nat, work: Nat]
    BY <1>2, EndedTruth DEF Shape
  <2>2. AppOK /\ ToldOK'
    BY <1>1 DEF Shape, ToldOK
  <2> QED BY <1>2, <1>3, <2>1, <2>2, LibMoves
<1>5. CASE IsActive(c) /\ agent' = Finished(f, agent.known[c], f.value) /\ Move(t, Waiting(f, "leave"))
  <2> PICK k, r : k = agent.known[c] /\ r = f.value
    OBVIOUS
  <2>1. /\ f \in Call /\ c \in DOMAIN agent.known /\ k \in Known /\ r \in Counts \cup {Null}
        /\ agent.known[c].active # Null
    BY <1>1, <1>5, TopOK DEF IsActive
  <2> QED BY <1>1, <1>4, <1>5, <2>1, EndsShape
<1>6. CASE Leave(t) /\ agent' = agent
  BY <1>1, <1>4, <1>6, SameAgentShape DEF Goes
<1> QED BY <1>1, <1>5, <1>6

LEMMA FinalizeReturnsShape ==
    ASSUME Shape, UseOK, Aside, NEW t \in Threads, FinalizeReturns(t)
    PROVE  Shape'
<1> PICK f, p, s, es : f = Top(t) /\ p = f.ptr /\ es = Ended(app.lib[p]) /\ s = NoStatement
  OBVIOUS
<1> PICK v : v = f.value
  OBVIOUS
<1> PICK g : g = Placed(f, "freed", v)
  OBVIOUS
<1>1. /\ frames[t] # << >> /\ f.at = "inside" /\ UNCHANGED <<agent, told, unheard, wire>>
      /\ app' = [app EXCEPT !.lib[p] = s, !.truth = @ \cup es]
      /\ Move(t, [f EXCEPT !.at = "freed"]) \/ Leave(t)
  BY DEF FinalizeReturns, At, Quiet
<1>2. /\ f \in Call /\ p \in Pointers /\ s \in Statement \cup {NoStatement} /\ app.lib[p] \in Statement
      /\ FrameOK(f, DOMAIN agent.known, Len(agent.queue)) /\ Len(agent.queue) \in Nat
      /\ v \in Counts \cup {Null}
  BY <1>1, TopOK, TopUse DEF InUse
<1>3. AppOK' /\ app'.lives = app.lives /\ ToldOK'
  <2>1. es \in SUBSET [life: Nat \cup Pointers, n: Nat, work: Nat]
    BY <1>2, EndedTruth DEF Shape
  <2>2. AppOK /\ ToldOK'
    BY <1>1 DEF Shape, ToldOK
  <2> QED BY <1>1, <1>2, <2>1, <2>2, LibMoves
<1>4. [f EXCEPT !.at = "freed"] = g
  BY <1>2 DEF Placed, Call
<1>5. Same(g, f) /\ g.at = "freed"
  BY <1>2, PlacedSame
<1>6. FrameOK(g, DOMAIN agent.known, Len(agent.queue))
  BY <1>1, <1>2, <1>5 DEF FrameOK, Same
<1>7. Goes(t)
  BY <1>1, <1>4, <1>6 DEF Goes
<1> QED BY <1>1, <1>3, <1>7, SameAgentShape

LEMMA FinalizeFinishesShape ==
    ASSUME Shape, Aside, NEW t \in Threads, FinalizeFinishes(t)
    PROVE  Shape'
<1> PICK f : f = Top(t)
  OBVIOUS
<1> PICK k, r : k = agent.known[f.ctx] /\ r = f.value
  OBVIOUS
<1>1. /\ frames[t] # << >> /\ UNCHANGED <<app, told, unheard, wire>> /\ IsActive(f.ctx)
      /\ agent' = Finished(f, k, r) /\ Move(t, Waiting(f, "leave"))
  BY DEF FinalizeFinishes, At, Quiet
<1>2. /\ f \in Call /\ f.ctx \in DOMAIN agent.known /\ k \in Known /\ r \in Counts \cup {Null}
      /\ agent.known[f.ctx].active # Null
  BY <1>1, TopOK DEF IsActive
<1>3. AppOK' /\ app'.lives = app.lives /\ ToldOK' /\ wire' = wire
  BY <1>1 DEF Shape, ToldOK, AppOK, Aside
<1> QED BY <1>1, <1>2, <1>3, EndsShape

\* What the acknowledgement of another batch makes of a hook.
Refusal(t, f) ==
    /\ frames[t] # << >> /\ f \in Call /\ UNCHANGED <<app, wire>>
    /\ AgentOK' /\ agent'.known = agent.known /\ agent'.queue = agent.queue /\ agent'.broken
    /\ agent'.complete = agent.complete /\ agent'.partial = agent.partial
    /\ agent'.contexts = IF f.op = "finalize" THEN Drop(agent.contexts, {f.ptr}) ELSE agent.contexts
    /\ told' = [told EXCEPT !.lossy = TRUE, !.fatal = TRUE] /\ ToldOK'
    /\ IF f.at = "enter" THEN Move(t, Begins(f)) ELSE Leave(t)

LEMMA RefusedDoes ==
    ASSUME Shape, NEW t \in Threads, Refused(t), NEW f, f = Top(t)
    PROVE  Refusal(t, f)
<1>1. /\ frames[t] # << >> /\ UNCHANGED <<app, wire>> /\ Say([told EXCEPT !.lossy = TRUE, !.fatal = TRUE])
      /\ IF f.at = "enter" THEN Move(t, Begins(f)) ELSE Leave(t)
  BY DEF Refused, Waits, Begins
<1>2. PICK S \in SUBSET Threads :
         agent' = [(IF f.op = "finalize" THEN Removed(f.ptr) ELSE agent) EXCEPT
                      !.broken = TRUE, !.stuck = @ \cup S]
  BY DEF Refused
<1>3. f \in Call /\ AgentOK /\ Len(agent.queue) \in Nat
  BY <1>1, TopOK DEF Shape
<1> PICK ctxs, un : /\ ctxs = IF f.op = "finalize" THEN Drop(agent.contexts, {f.ptr}) ELSE agent.contexts
                    /\ un = IF f.op = "finalize" THEN agent.unknown \ {f.ptr} ELSE agent.unknown
  OBVIOUS
<1>4. agent' = [contexts |-> ctxs, known |-> agent.known, unknown |-> un, complete |-> agent.complete,
                partial |-> agent.partial, queue |-> agent.queue, broken |-> TRUE,
                stuck |-> agent.stuck \cup S]
  <2>1. agent.stuck = agent.stuck
    OBVIOUS
  <2> QED BY <1>2, <1>3 DEF AgentOK, Removed
<1>5. /\ DOMAIN ctxs \subseteq Pointers /\ \A p \in DOMAIN ctxs : ctxs[p] \in DOMAIN agent.known
  BY <1>3 DEF AgentOK, Drop
<1>6. /\ agent'.known = agent.known /\ agent'.queue = agent.queue /\ agent'.broken = TRUE
      /\ agent'.complete = agent.complete /\ agent'.partial = agent.partial
      /\ agent'.contexts = ctxs /\ agent'.unknown = un /\ agent'.stuck = agent.stuck \cup S
  BY <1>4
<1>7. AgentOK'
  BY <1>1, <1>3, <1>4, <1>5, <1>6 DEF AgentOK
<1>8. told' = [told EXCEPT !.lossy = TRUE, !.fatal = TRUE] /\ ToldOK'
  <2> PICK new : new = [told EXCEPT !.lossy = TRUE, !.fatal = TRUE]
    OBVIOUS
  <2>1. new \in Telling
    BY DEF Shape, ToldOK, Telling
  <2> QED BY <1>1, <1>3, <2>1, SayOK DEF Shape
<1> QED BY <1>1, <1>3, <1>6, <1>7, <1>8 DEF Refusal

LEMMA RefusedShape ==
    ASSUME Shape, Aside, NEW t \in Threads, Refused(t)
    PROVE  Shape'
<1> PICK f : f = Top(t)
  OBVIOUS
<1> PICK g : g = Begins(f)
  OBVIOUS
<1>1. Refusal(t, f)
  BY RefusedDoes
<1>2. f \in Call /\ (f.ctx # Null => f.ctx \in DOMAIN agent.known) /\ Len(agent.queue) \in Nat
  BY <1>1, TopOK DEF Refusal
<1>3. FrameOK(g, DOMAIN agent.known, Len(agent.queue))
  <2>1. g \in Call /\ g.ctx = f.ctx /\ g.at = "inside" /\ g.behind = 0
    BY <1>2, FrameMoves
  <2> QED BY <1>2, <2>1 DEF FrameOK
<1>4. FramesOK(frames', DOMAIN agent.known, Len(agent.queue))
  BY <1>1, <1>3, StillShape DEF Refusal
<1>5. AppOK'
  BY <1>1 DEF Refusal, Shape, AppOK, Aside
<1> QED BY <1>1, <1>4, <1>5, ShapeFrom DEF Refusal, Shape

-----------------------------------------------------------------------------

Gone(m) == {p \in DOMAIN agent.contexts : agent.known[agent.contexts[p]].module = m}
Ours(m) == {p \in Pointers : Live(p) /\ app.lib[p].module = m}

LEMMA UnloadShape ==
    ASSUME Shape, Aside, NEW m \in Modules, Unload(m)
    PROVE  /\ Shape' /\ UNCHANGED <<frames, wire>> /\ agent'.known = agent.known
           /\ agent'.queue = agent.queue /\ agent'.contexts = Drop(agent.contexts, Gone(m))
           /\ agent'.complete = agent.complete /\ agent'.partial = agent.partial
           /\ agent'.broken = agent.broken /\ agent'.stuck = agent.stuck
           /\ app'.lib = [p \in Pointers |-> IF p \in Ours(m) THEN NoStatement ELSE app.lib[p]]
           /\ app'.lives = app.lives /\ app'.used = app.used /\ app'.exited = app.exited
           /\ app'.loaded = app.loaded \ {m}
<1> PICK ps, us, u, q : ps = Gone(m) /\ us = Ours(m) /\ u = agent.unknown /\ q = agent.queue
  OBVIOUS
<1> PICK es, lib : /\ es = UNION {Ended(app.lib[p]) : p \in us}
                   /\ lib = [p \in Pointers |-> IF p \in us THEN NoStatement ELSE app.lib[p]]
  BY Zenon
<1>1. /\ UNCHANGED <<frames, wire>>
      /\ app' = [app EXCEPT !.loaded = @ \ {m}, !.truth = @ \cup es, !.lib = lib]
      /\ agent' = [agent EXCEPT !.contexts = Drop(agent.contexts, ps)]
  BY Zenon DEF Unload, Gone, Ours
<1>2. /\ AppOK' /\ app'.lib = lib /\ app'.lives = app.lives /\ app'.used = app.used
      /\ app'.exited = app.exited /\ app'.loaded = app.loaded \ {m}
  <2>1. es \subseteq [life: Nat \cup Pointers, n: Nat, work: Nat]
    BY EndedTruth DEF Shape, Ours
  <2>2. lib \in [Pointers -> Statement \cup {NoStatement}]
    BY DEF Shape, AppOK
  <2> QED BY <1>1, <2>1, <2>2 DEF Shape, AppOK, Aside
<1>3. /\ AgentOK' /\ agent'.known = agent.known /\ agent'.queue = agent.queue
      /\ agent'.contexts = Drop(agent.contexts, ps)
      /\ agent'.complete = agent.complete /\ agent'.partial = agent.partial
      /\ agent'.broken = agent.broken /\ agent'.stuck = agent.stuck
  <2>1. AgentOK /\ agent' = [agent EXCEPT !.contexts = Drop(agent.contexts, ps), !.unknown = u, !.queue = q]
    BY <1>1 DEF Shape, AgentOK
  <2> QED BY <1>2, <2>1, ContextsMove, ZenonT(60)
<1>4. ToldOK'
  <2>0. ToldOK /\ Len(agent.queue) \in Nat
    BY DEF Shape, RecordsOK
  <2> PICK amb : amb = \E p \in Gone(m) : LET k == agent.known[agent.contexts[p]] IN
                        k.active # Null \/ k.owner # Null \/ k.depth > 0
    OBVIOUS
  <2> PICK new : new = [status |-> CurrentStatus(app'.loaded, agent),
                        lossy |-> told.lossy \/ amb, fatal |-> told.fatal \/ amb]
    OBVIOUS
  <2>1. Say(new)
    BY Zenon DEF Unload, Gone
  <2>2. new \in Telling
    BY StatusTold DEF Shape, ToldOK, Telling
  <2> QED BY <2>0, <2>1, <2>2, SayOK, Zenon
<1>5. Shape'
  BY <1>1, <1>2, <1>3, <1>4, ShapeFrom DEF Shape
<1> QED BY <1>1, <1>2, <1>3, <1>5

LEMMA LoadShape ==
    ASSUME Shape, Aside, NEW m \in Modules, Load(m)
    PROVE  Shape'
<1>1. /\ UNCHANGED <<frames, agent, wire>> /\ app' = [app EXCEPT !.loaded = @ \cup {m}]
      /\ Say([told EXCEPT !.status = CurrentStatus(app'.loaded, agent)])
      /\ m \in setting.modules
  BY DEF Load
<1>2. AppOK' /\ app'.lives = app.lives
  BY <1>1 DEF Shape, AppOK, Aside
<1>3. ToldOK'
  <2> PICK new : new = [told EXCEPT !.status = CurrentStatus(app'.loaded, agent)]
    OBVIOUS
  <2>1. new \in Telling
    BY StatusTold DEF Shape, ToldOK, Telling
  <2> QED BY <1>1, <2>1, SayOK DEF Shape, RecordsOK
<1>4. AgentOK'
  BY <1>1, <1>2 DEF Shape, AgentOK
<1> QED BY <1>1, <1>2, <1>3, <1>4, ShapeFrom DEF Shape

LEMMA ExitShape ==
    ASSUME Shape, Aside, NEW n \in 0 .. Len(agent.queue),
           NEW heard \in {told} \cup {e.told : e \in {d \in unheard : n <= d.at}}, Exit(n, heard)
    PROVE  Shape' /\ frames' = [t \in Threads |-> << >>] /\ agent'.known = agent.known /\ app'.used = app.used
<1> PICK es, lib : /\ es = UNION {Ended(app.lib[p]) : p \in Pointers}
                   /\ lib = [p \in Pointers |-> NoStatement]
  OBVIOUS
<1>1. /\ app' = [app EXCEPT !.exited = TRUE, !.lib = lib, !.truth = @ \cup es]
      /\ frames' = [t \in Threads |-> << >>] /\ wire' = wire \o SubSeq(agent.queue, 1, n)
      /\ agent' = [agent EXCEPT !.queue = << >>]
      /\ told' = heard /\ unheard' \in {{}, unheard}
  BY DEF Exit, Arrive
<1>2. AppOK' /\ app'.lives = app.lives /\ app'.used = app.used /\ ToldOK'
  <2>1. es \subseteq [life: Nat \cup Pointers, n: Nat, work: Nat]
    BY EndedTruth DEF Shape
  <2>2. lib \in [Pointers -> Statement \cup {NoStatement}]
    OBVIOUS
  <2>3. ToldOK'
    BY <1>1 DEF Shape, ToldOK
  <2> QED BY <1>1, <2>1, <2>2, <2>3 DEF Shape, AppOK, Aside
<1>3. AgentOK' /\ agent'.known = agent.known /\ agent'.queue = << >>
  <2> PICK q : q = << >>
    OBVIOUS
  <2>1. AgentOK /\ agent' = [agent EXCEPT !.queue = q]
    BY <1>1 DEF Shape
  <2> QED BY <1>2, <2>1, QueueMoves
<1>4. RecordsOK(agent'.queue, DOMAIN agent.known) /\ Len(agent'.queue) = 0
  BY <1>3, FewRecords
<1>5. RecordsOK(wire', DOMAIN agent.known)
  <2>1. RecordsOK(SubSeq(agent.queue, 1, n), DOMAIN agent.known)
    BY CutRecords DEF Shape
  <2> QED BY <1>1, <2>1, JoinRecords DEF Shape
<1>6. FramesOK(frames', DOMAIN agent.known, Len(agent'.queue))
  BY <1>1 DEF FramesOK
<1>7. Shape'
  BY <1>2, <1>3, <1>4, <1>5, <1>6, ShapeFrom
<1> QED BY <1>1, <1>2, <1>3, <1>7

\* The reducer takes the oldest record.
LEMMA ConsumeShape ==
    ASSUME Shape, Consume
    PROVE  Shape' /\ Head(wire) \in Event
<1>1. /\ wire # << >> /\ wire' = Tail(wire)
      /\ UNCHANGED <<setting, app, frames, agent, told, unheard, orderly>>
      /\ lifeOf' = IF Head(wire).type = "prepared" THEN Append(lifeOf, Head(wire).number) ELSE lifeOf
  BY DEF Consume
<1>2. /\ wire \in Seq(Event) /\ 1 \in DOMAIN wire /\ Head(wire) = wire[1] /\ Head(wire) \in Event
      /\ DOMAIN wire = 1 .. Len(wire) /\ Len(wire) \in Nat
  BY <1>1 DEF Shape, RecordsOK
<1>3. RecordsOK(wire', DOMAIN agent.known)
  <2>1. /\ Tail(wire) \in Seq(Event) /\ DOMAIN Tail(wire) = 1 .. Len(wire) - 1
        /\ \A i \in 1 .. Len(wire) - 1 : Tail(wire)[i] = wire[i + 1] /\ i + 1 \in DOMAIN wire
    BY <1>1, <1>2
  <2> QED BY <1>1, <2>1 DEF Shape, RecordsOK
<1>4. lifeOf' \in Seq(DOMAIN agent.known)
  <2>1. Head(wire).type = "prepared" => Head(wire).number \in DOMAIN agent.known
    BY <1>2 DEF Shape, RecordsOK
  <2>2. lifeOf \in Seq(DOMAIN agent.known)
    BY DEF Shape
  <2>3. \A ks, e : lifeOf \in Seq(ks) /\ e \in ks => Append(lifeOf, e) \in Seq(ks)
    OBVIOUS
  <2>4. CASE Head(wire).type = "prepared"
    <3>1. lifeOf' = Append(lifeOf, Head(wire).number)
      BY <1>1, <2>4
    <3> QED BY <2>1, <2>2, <2>3, <2>4, <3>1
  <2>5. CASE Head(wire).type # "prepared"
    <3>1. lifeOf' = lifeOf
      BY <1>1, <2>5
    <3> QED BY <2>2, <3>1
  <2> QED BY <2>4, <2>5
<1>5. AppOK' /\ AgentOK' /\ ToldOK'
  BY <1>1 DEF Shape, AppOK, AgentOK, ToldOK
<1> QED BY <1>1, <1>2, <1>3, <1>4, <1>5 DEF Shape

LEMMA FinishShape ==
    ASSUME Shape, UNCHANGED <<hookVars, historyVars>>
    PROVE  Shape'
BY DEF Shape, AppOK, AgentOK, ToldOK, hookVars, historyVars

-----------------------------------------------------------------------------
(* Each step keeps the use of statements. *)

\* A call is what it was, perhaps further on; or it is new, on a statement that
\* permits it.
Carried(g, f) == /\ InUse(g) => InUse(f)
                 /\ g.op = f.op /\ g.ptr = f.ptr /\ g.module = f.module
Permitted(g) ==
    InUse(g) => /\ Live(g.ptr) /\ app.lib[g.ptr].module = g.module
                /\ \A u \in Threads : \A j \in DOMAIN frames[u] :
                      InUse(frames[u][j]) /\ frames[u][j].ptr = g.ptr
                      => g.op # "finalize" /\ frames[u][j].op # "finalize"

\* The calls of t move by d places; the statements in use stay.
Others(t) == \A u \in Threads : u # t => /\ DOMAIN frames'[u] = DOMAIN frames[u]
                                         /\ \A i \in DOMAIN frames[u] : Carried(frames'[u][i], frames[u][i])
Shifted(t, d) ==
    \A i \in DOMAIN frames'[t] :
        \/ i + d \in DOMAIN frames[t] /\ Carried(frames'[t][i], frames[t][i + d])
        \/ i = 1 /\ Permitted(frames'[t][1])
StillUsed ==
    /\ \A u \in Threads : DOMAIN frames'[u] \subseteq Int
    /\ \A u \in Threads : \A i \in DOMAIN frames'[u] :
          LET p == frames'[u][i].ptr IN
          InUse(frames'[u][i]) /\ Live(p) => app'.lib[p] # NoStatement /\ app'.lib[p].module = app.lib[p].module

LEMMA UseMoves ==
    ASSUME UseOK, NEW t \in Threads, NEW d \in Int, Others(t), Shifted(t, d), StillUsed
    PROVE  UseOK'
<1> DEFINE Old(u, i) == IF u = t THEN i + d ELSE i
           Kept(u, i) == Old(u, i) \in DOMAIN frames[u] /\ Carried(frames'[u][i], frames[u][Old(u, i)])
           New(u, i)  == u = t /\ i = 1 /\ Permitted(frames'[u][i])
<1>1. \A u \in Threads : \A i \in DOMAIN frames'[u] : Kept(u, i) \/ New(u, i)
  BY DEF Others, Shifted, Carried
<1>2. \A u, v \in Threads : \A i \in DOMAIN frames'[u], j \in DOMAIN frames'[v] :
         u = v /\ Old(u, i) = Old(v, j) => i = j
  <2>1. ASSUME NEW i \in DOMAIN frames'[t], NEW j \in DOMAIN frames'[t], i + d = j + d PROVE i = j
    <3>1. i \in Int /\ j \in Int
      BY DEF StillUsed
    <3>2. \A a, b, c \in Int : a + c = b + c => a = b
      OBVIOUS
    <3> QED BY <2>1, <3>1, <3>2
  <2> QED BY <2>1
<1> HIDE DEF Old
<1>3. ASSUME NEW u \in Threads, NEW i \in DOMAIN frames'[u], InUse(frames'[u][i])
      PROVE  /\ app'.lib[frames'[u][i].ptr] # NoStatement
             /\ app'.lib[frames'[u][i].ptr].module = frames'[u][i].module
  <2>1. Live(frames'[u][i].ptr) /\ app.lib[frames'[u][i].ptr].module = frames'[u][i].module
    <3>1. CASE Kept(u, i)
      BY <1>3, <3>1 DEF UseOK, Carried
    <3>2. CASE New(u, i)
      BY <1>3, <3>2 DEF Permitted
    <3> QED BY <1>1, <3>1, <3>2
  <2> QED BY <1>3, <2>1 DEF StillUsed
<1>4. ASSUME NEW u \in Threads, NEW v \in Threads, NEW i \in DOMAIN frames'[u], NEW j \in DOMAIN frames'[v],
             InUse(frames'[u][i]), InUse(frames'[v][j]), frames'[u][i].ptr = frames'[v][j].ptr,
             frames'[u][i].op = "finalize"
      PROVE  u = v /\ i = j
  <2>1. CASE Kept(u, i) /\ Kept(v, j)
    <3> PICK x, y : /\ x = Old(u, i) /\ y = Old(v, j)
      OBVIOUS
    <3>1. /\ x \in DOMAIN frames[u] /\ y \in DOMAIN frames[v]
          /\ Carried(frames'[u][i], frames[u][x]) /\ Carried(frames'[v][j], frames[v][y])
      BY <2>1
    <3>2. /\ InUse(frames[u][x]) /\ InUse(frames[v][y]) /\ frames[u][x].ptr = frames[v][y].ptr
          /\ frames[u][x].op = "finalize"
      BY <1>4, <3>1 DEF Carried
    <3>3. u = v /\ x = y
      BY <3>1, <3>2 DEF UseOK
    <3> QED BY <1>2, <3>3
  <2>2. CASE Kept(u, i) /\ New(v, j)
    BY <1>4, <2>2 DEF Carried, Permitted
  <2>3. CASE New(u, i) /\ Kept(v, j)
    BY <1>4, <2>3 DEF Carried, Permitted
  <2>4. CASE New(u, i) /\ New(v, j)
    BY <2>4
  <2> QED BY <1>1, <2>1, <2>2, <2>3, <2>4
<1>5. /\ \A u \in Threads : \A i \in DOMAIN frames'[u] :
            InUse(frames'[u][i]) => /\ app'.lib[frames'[u][i].ptr] # NoStatement
                                    /\ app'.lib[frames'[u][i].ptr].module = frames'[u][i].module
      /\ \A u, v \in Threads : \A i \in DOMAIN frames'[u], j \in DOMAIN frames'[v] :
            /\ InUse(frames'[u][i]) /\ InUse(frames'[v][j]) /\ frames'[u][i].ptr = frames'[v][j].ptr
            /\ frames'[u][i].op = "finalize"
            => u = v /\ i = j
  BY <1>3, <1>4
<1> QED BY <1>5 DEF UseOK, InUse, Live

\* The statements stay where calls are on them.
StaysUsed == \A p \in Pointers : Live(p) => app'.lib[p] # NoStatement /\ app'.lib[p].module = app.lib[p].module
LEMMA SameUse ==
    ASSUME Shape, Shape', StaysUsed
    PROVE  StillUsed
<1>1. \A u \in Threads : DOMAIN frames'[u] \subseteq Int /\ DOMAIN frames[u] \subseteq Int
  BY DEF Shape, FramesOK
<1>2. \A u \in Threads : \A i \in DOMAIN frames'[u] : frames'[u][i].ptr \in Pointers
  BY DEF Shape, FramesOK, FrameOK, Call
<1>3. ASSUME NEW u \in Threads, NEW i \in DOMAIN frames'[u], NEW p, p = frames'[u][i].ptr, Live(p)
      PROVE  app'.lib[p] # NoStatement /\ app'.lib[p].module = app.lib[p].module
  BY <1>2, <1>3 DEF StaysUsed
<1> QED BY <1>1, <1>3 DEF StillUsed

\* A call begins, moves on, or ends, as Enter, Move and Leave have it.
LEMMA EnterUse ==
    ASSUME Shape, Shape', UseOK, StaysUsed, NEW t \in Threads, NEW g \in Call, Enter(t, g), Permitted(g)
    PROVE  UseOK'
<1>1. /\ frames' = [frames EXCEPT ![t] = <<g>> \o frames[t]] /\ frames \in [Threads -> Seq(Call)]
      /\ frames[t] \in Seq(Call)
  BY DEF Enter, Shape, FramesOK
<1>2. /\ frames'[t] = <<g>> \o frames[t] /\ \A u \in Threads : u # t => frames'[u] = frames[u]
  BY <1>1
<1>3. \A i \in DOMAIN frames'[t] :
         \/ i + (-1) \in DOMAIN frames[t] /\ frames'[t][i] = frames[t][i + (-1)]
         \/ i = 1 /\ frames'[t][1] = g
  <2> PICK s : s = frames[t]
    OBVIOUS
  <2>1. s \in Seq(Call) /\ frames'[t] = <<g>> \o s /\ <<g>> \in Seq(Call) /\ Len(<<g>>) = 1 /\ <<g>>[1] = g
    BY <1>1, <1>2
  <2>2. /\ Len(<<g>> \o s) = 1 + Len(s) /\ Len(s) \in Nat /\ <<g>> \o s \in Seq(Call)
        /\ \A i \in 1 .. 1 + Len(s) : (<<g>> \o s)[i] = IF i <= 1 THEN <<g>>[i] ELSE s[i - 1]
    BY <2>1, ConcatProperties
  <2>3. DOMAIN (<<g>> \o s) = 1 .. 1 + Len(s) /\ DOMAIN s = 1 .. Len(s)
    BY <2>1, <2>2
  <2>4. \A i \in 1 .. 1 + Len(s) : i = 1 \/ (i + (-1) \in 1 .. Len(s) /\ ~(i <= 1) /\ i - 1 = i + (-1))
    BY <2>2
  <2> QED BY <2>1, <2>2, <2>3, <2>4
<1>4. Others(t)
  BY <1>2 DEF Carried, Others
<1>5. \A i \in DOMAIN frames'[t] : \/ i + (-1) \in DOMAIN frames[t] /\ Carried(frames'[t][i], frames[t][i + (-1)])
                                   \/ i = 1 /\ Permitted(frames'[t][1])
  BY <1>3 DEF Carried
<1> PICK d \in Int : d = -1
  OBVIOUS
<1>6. Shifted(t, d)
  BY <1>5 DEF Shifted
<1> QED BY <1>4, <1>6, SameUse, UseMoves

\* The place a call of t was at.
LEMMA AfterTail ==
    ASSUME NEW s \in Seq(Call), s # << >>, NEW g \in Call
    PROVE  /\ \A i \in DOMAIN Tail(s) : i + 1 \in DOMAIN s /\ Tail(s)[i] = s[i + 1]
           /\ 1 \in DOMAIN s /\ Head(s) = s[1]
           /\ \A i \in DOMAIN (<<g>> \o Tail(s)) :
                 \/ i = 1 /\ (<<g>> \o Tail(s))[i] = g
                 \/ i # 1 /\ i \in DOMAIN s /\ (<<g>> \o Tail(s))[i] = s[i]
<1>1. /\ Len(s) \in Nat /\ Len(s) > 0 /\ DOMAIN s = 1 .. Len(s) /\ Head(s) = s[1]
      /\ Tail(s) \in Seq(Call) /\ Len(Tail(s)) = Len(s) - 1 /\ DOMAIN Tail(s) = 1 .. Len(s) - 1
      /\ \A i \in 1 .. Len(s) - 1 : Tail(s)[i] = s[i + 1]
  OBVIOUS
<1> PICK r : r = Tail(s)
  OBVIOUS
<1>2. r \in Seq(Call) /\ <<g>> \in Seq(Call) /\ Len(<<g>>) = 1 /\ <<g>>[1] = g
  BY <1>1
<1>3. /\ Len(<<g>> \o r) = 1 + Len(r) /\ <<g>> \o r \in Seq(Call)
      /\ \A i \in 1 .. 1 + Len(r) : (<<g>> \o r)[i] = IF i <= 1 THEN <<g>>[i] ELSE r[i - 1]
  BY <1>2, ConcatProperties
<1>4. DOMAIN (<<g>> \o r) = 1 .. Len(s)
  BY <1>1, <1>3
<1>5. ASSUME NEW i \in 1 .. Len(s), i # 1 PROVE (<<g>> \o r)[i] = s[i]
  <2>1. i \in 1 .. 1 + Len(r) /\ ~(i <= 1) /\ i - 1 \in 1 .. Len(s) - 1 /\ (i - 1) + 1 = i
    BY <1>1, <1>5
  <2> QED BY <1>1, <1>3, <2>1
<1>6. (<<g>> \o r)[1] = g
  BY <1>1, <1>2, <1>3
<1>7. 1 \in DOMAIN s /\ \A i \in DOMAIN Tail(s) : i + 1 \in DOMAIN s
  BY <1>1
<1> QED BY <1>1, <1>4, <1>5, <1>6, <1>7

LEMMA TailUse ==
    ASSUME Shape, Shape', UseOK, StaysUsed, NEW t \in Threads, frames[t] # << >>, Others(t),
           frames'[t] = Tail(frames[t])
    PROVE  UseOK'
<1>1. frames[t] \in Seq(Call) /\ Top(t) \in Call
  BY TopOK DEF Shape, FramesOK
<1>2. \A i \in DOMAIN frames'[t] : i + 1 \in DOMAIN frames[t] /\ frames'[t][i] = frames[t][i + 1]
  BY <1>1, AfterTail
<1> PICK d \in Int : d = 1
  OBVIOUS
<1>3. Shifted(t, d)
  BY <1>2 DEF Carried, Shifted
<1> QED BY <1>3, SameUse, UseMoves

LEMMA HeadUse ==
    ASSUME Shape, Shape', UseOK, StaysUsed, NEW t \in Threads, frames[t] # << >>, Others(t),
           NEW g \in Call, frames'[t] = <<g>> \o Tail(frames[t]), Carried(g, Top(t))
    PROVE  UseOK'
<1>1. frames[t] \in Seq(Call) /\ Top(t) = Head(frames[t])
  BY DEF Shape, FramesOK, Top
<1>2. /\ 1 \in DOMAIN frames[t] /\ Top(t) = frames[t][1]
      /\ \A i \in DOMAIN frames'[t] : \/ i = 1 /\ frames'[t][i] = g
                                      \/ i # 1 /\ i \in DOMAIN frames[t] /\ frames'[t][i] = frames[t][i]
  BY <1>1, AfterTail
<1> PICK d \in Int : d = 0
  OBVIOUS
<1>3. \A i \in DOMAIN frames'[t] : i + d = i
  BY SameUse DEF StillUsed
<1>4. Shifted(t, d)
  BY <1>2, <1>3 DEF Carried, Shifted
<1> QED BY <1>4, SameUse, UseMoves

\* How the calls of the other threads go on: as they were, or waiting for less.
LEMMA OthersStay ==
    ASSUME Shape, NEW t \in Threads
    PROVE  /\ \A s : frames' = [frames EXCEPT ![t] = s] => Others(t) /\ frames'[t] = s
           /\ Leave(t) => Others(t) /\ frames'[t] = Tail(frames[t])
           /\ \A g : Move(t, g) => Others(t) /\ frames'[t] = <<g>> \o Tail(frames[t])
<1>1. frames \in [Threads -> Seq(Call)]
  BY DEF Shape, FramesOK
<1>2. ASSUME NEW s, frames' = [frames EXCEPT ![t] = s] PROVE Others(t) /\ frames'[t] = s
  <2>1. frames'[t] = s /\ \A u \in Threads : u # t => frames'[u] = frames[u]
    BY <1>1, <1>2
  <2> QED BY <2>1 DEF Others, Carried
<1>3. ASSUME Leave(t) PROVE Others(t) /\ frames'[t] = Tail(frames[t])
  <2> PICK s : s = Tail(frames[t])
    OBVIOUS
  <2>1. frames' = [frames EXCEPT ![t] = s]
    BY <1>1, <1>3 DEF Leave
  <2> QED BY <1>2, <2>1
<1>4. ASSUME NEW g, Move(t, g) PROVE Others(t) /\ frames'[t] = <<g>> \o Tail(frames[t])
  <2> PICK s : s = <<g>> \o Tail(frames[t])
    OBVIOUS
  <2>1. frames' = [frames EXCEPT ![t] = s]
    BY <1>1, <1>4 DEF Move
  <2> QED BY <1>2, <2>1
<1> QED BY <1>2, <1>3, <1>4

LEMMA OthersWait ==
    ASSUME Shape, NEW t \in Threads, frames[t] # << >>,
           NEW fs, StackOK(fs, DOMAIN agent.known, 0), GoOn(t, fs)
    PROVE  Others(t) /\ frames'[t] = fs
<1> PICK n : n = Top(t).behind
  OBVIOUS
<1>1. /\ frames'[t] = fs
      /\ \A u \in Threads : u # t =>
                 /\ DOMAIN frames'[u] = DOMAIN frames[u]
                 /\ \A i \in DOMAIN frames[u] : frames'[u][i] =
                       [frames[u][i] EXCEPT !.behind = IF frames[u][i].behind > n
                                                       THEN frames[u][i].behind - n ELSE 0]
  BY WaitEnds
<1>2. ASSUME NEW f \in Call, NEW b, NEW g, g = [f EXCEPT !.behind = b] PROVE Carried(g, f)
  BY <1>2 DEF Carried, InUse, Call
<1>3. \A u \in Threads : \A i \in DOMAIN frames[u] : frames[u][i] \in Call
  BY DEF Shape, FramesOK, FrameOK
<1>4. ASSUME NEW u \in Threads, u # t, NEW i \in DOMAIN frames[u]
      PROVE  Carried(frames'[u][i], frames[u][i])
  <2> PICK f, b : f = frames[u][i] /\ b = IF f.behind > n THEN f.behind - n ELSE 0
    OBVIOUS
  <2> PICK g : g = frames'[u][i]
    OBVIOUS
  <2>1. f \in Call /\ g = [f EXCEPT !.behind = b]
    BY <1>1, <1>3, <1>4
  <2>2. Carried(g, f)
    BY <1>2, <2>1, Zenon
  <2> QED BY <2>2
<1> QED BY <1>1, <1>4 DEF Others

\* The calls stay; or a statement is replaced by one of its module.
LEMMA FramesStay ==
    ASSUME UseOK, StillUsed, frames' = frames
    PROVE  UseOK'
BY DEF UseOK, StillUsed, InUse, Live

LEMMA LibStays ==
    ASSUME AppOK, app'.lib = app.lib
    PROVE  StaysUsed
BY DEF StaysUsed, Live

LEMMA StatementIsLive ==
    ASSUME NEW s \in Statement
    PROVE  s # NoStatement
<1>1. "module" \in DOMAIN s
  BY DEF Statement
<1>2. "module" \notin DOMAIN NoStatement
  BY DEF NoStatement
<1> QED BY <1>1, <1>2

LEMMA LibAtStays ==
    ASSUME AppOK, NEW p \in Pointers, NEW s \in Statement, Live(p) => s.module = app.lib[p].module,
           app'.lib = [app.lib EXCEPT ![p] = s]
    PROVE  StaysUsed
<1>1. \A q \in Pointers : app'.lib[q] = IF q = p THEN s ELSE app.lib[q]
  BY DEF AppOK
<1>2. s # NoStatement
  BY StatementIsLive
<1> QED BY <1>1, <1>2 DEF StaysUsed, Live

LEMMA MayUsePermits ==
    ASSUME Shape, NEW t \in Threads, NEW op \in HookNames, NEW p \in Pointers, MayUse(t, op, p),
           NEW g, g.op = op, g.ptr = p, g.module = app.lib[p].module
    PROVE  Permitted(g)
<1>1. Live(p) /\ ~On(p, IF op = "finalize" THEN HookNames ELSE {"finalize"})
  BY DEF MayUse
<1>2. ASSUME NEW u \in Threads, NEW j \in DOMAIN frames[u], InUse(frames[u][j]), frames[u][j].ptr = p
      PROVE  op # "finalize" /\ frames[u][j].op # "finalize"
  <2>1. frames[u][j].op \in HookNames
    BY DEF Shape, FramesOK, FrameOK, Call
  <2>2. CASE op = "finalize"
    BY <1>1, <1>2, <2>1, <2>2 DEF On, InUse
  <2>3. CASE op # "finalize"
    BY <1>1, <1>2, <2>1, <2>3 DEF On, InUse
  <2> QED BY <2>2, <2>3
<1> QED BY <1>1, <1>2 DEF Permitted

\* A call goes on as itself, or waits, or ends.
LEMMA MoveUse ==
    ASSUME Shape, Shape', UseOK, StaysUsed, NEW t \in Threads, frames[t] # << >>,
           NEW g \in Call, Move(t, g), Carried(g, Top(t))
    PROVE  UseOK'
BY OthersStay, HeadUse

LEMMA LeaveUse ==
    ASSUME Shape, Shape', UseOK, StaysUsed, NEW t \in Threads, frames[t] # << >>, Leave(t)
    PROVE  UseOK'
BY OthersStay, TailUse

LEMMA WaitingUse ==
    ASSUME NEW f \in Call, NEW place \in {"enter", "leave"}, Len(agent'.queue) \in Nat, NEW g,
           g = Waiting(f, place)
    PROVE  g \in Call /\ (place = "leave" \/ InUse(f) => Carried(g, f)) /\ (place = "leave" => ~InUse(g))
<1>1. g \in Call /\ g.op = f.op /\ g.ptr = f.ptr /\ g.module = f.module /\ g.at = place
  BY FrameWaits
<1> QED BY <1>1 DEF Carried, InUse

LEMMA PrepareUse ==
    ASSUME Shape, Shape', UseOK, NEW t \in Threads, NEW p \in Pointers, NEW m \in Modules, Prepare(t, p, m)
    PROVE  UseOK'
<1> PICK life, s : life = app.lives + 1 /\ s = Fresh(life, m)
  OBVIOUS
<1>1. /\ ~Live(p) /\ app' = [app EXCEPT !.lives = life, !.used = @ \cup {m}, !.lib[p] = s]
      /\ life \in Nat /\ Len(agent'.queue) \in Nat /\ 0 \in Counts
  <2>1. /\ ~Live(p) /\ app' = [app EXCEPT !.lives = life, !.used = @ \cup {m}, !.lib[p] = s]
    BY DEF Prepare
  <2>2. life \in Nat /\ 0 \in Counts
    <3>1. setting \in Settings /\ app.lives \in Nat
      BY DEF Shape, AppOK
    <3> QED BY <3>1, Bounds
  <2>3. Len(agent'.queue) \in Nat
    BY DEF Shape, RecordsOK
  <2> QED BY <2>1, <2>2, <2>3
<1>2. s \in Statement /\ app'.lib = [app.lib EXCEPT ![p] = s]
  <2>1. s \in Statement
    BY <1>1 DEF Fresh, Statement
  <2> QED BY <1>1, <2>1 DEF Shape, AppOK
<1>3. StaysUsed
  BY <1>1, <1>2, LibAtStays DEF Shape
<1>4. CASE frames' = frames
  BY <1>3, <1>4, SameUse, FramesStay
<1>5. CASE Enter(t, Waiting(Frame("prepare", p, m, life, "leave"), "leave"))
  <2> PICK f : f = Frame("prepare", p, m, life, "leave")
    OBVIOUS
  <2> PICK g : g = Waiting(f, "leave")
    OBVIOUS
  <2>1. f \in Call
    BY <1>1, FrameMade DEF HookNames
  <2>2. g \in Call /\ ~InUse(g)
    BY <1>1, <2>1, WaitingUse
  <2> QED BY <1>3, <1>5, <2>2, EnterUse DEF Permitted
<1> QED BY <1>4, <1>5 DEF Prepare

\* A call begins on a statement that permits it.
LEMMA CallUse ==
    ASSUME Shape, Shape', UseOK, NEW t \in Threads, NEW op \in HookNames, NEW p \in Pointers,
           MayUse(t, op, p), app' = app, NEW g \in Call, g.op = op, g.ptr = p, g.module = app.lib[p].module,
           Enter(t, g)
    PROVE  UseOK'
<1>1. Permitted(g)
  BY MayUsePermits
<1>2. StaysUsed
  BY LibStays DEF Shape
<1> QED BY <1>1, <1>2, EnterUse

LEMMA CallsUse ==
    ASSUME Shape, Shape', UseOK, NEW t \in Threads, NEW op \in HookNames, NEW p \in Pointers,
           Unobserved(t, op, p) \/ Conflicts(t, op, p)
    PROVE  UseOK'
<1> PICK g : g = Inside(op, p, Null)
  OBVIOUS
<1>1. MayUse(t, op, p) /\ app' = app /\ Enter(t, g)
  BY DEF Unobserved, Conflicts, Inside
<1>2. g \in Call /\ g.op = op /\ g.ptr = p /\ g.module = app.lib[p].module
  BY <1>1, InsideMade DEF MayUse
<1> QED BY <1>1, <1>2, CallUse

LEMMA StepEntersUse ==
    ASSUME Shape, Shape', UseOK, NEW t \in Threads, NEW p \in Pointers, StepEnters(t, p)
    PROVE  UseOK'
<1> PICK c : c = Found("step", p)
  OBVIOUS
<1> PICK f : f = Inside("step", p, c)
  OBVIOUS
<1> PICK g : g = Waiting(f, "enter")
  BY Zenon
<1>1. c \in DOMAIN agent.known /\ MayUse(t, "step", p) /\ app' = app /\ (Enter(t, f) \/ Enter(t, g))
  BY StepEntersDoes
<1>2. f \in Call /\ f.op = "step" /\ f.ptr = p /\ f.module = app.lib[p].module
  BY <1>1, InsideMade DEF MayUse, HookNames
<1>3. g \in Call /\ g.op = "step" /\ g.ptr = p /\ g.module = app.lib[p].module
  <2>1. Len(agent'.queue) \in Nat
    BY DEF Shape, RecordsOK
  <2>2. /\ g \in Call /\ g.op = f.op /\ g.ptr = f.ptr /\ g.module = f.module
    BY <1>2, <2>1, FrameWaits
  <2> QED BY <1>2, <2>2
<1>4. "step" \in HookNames
  BY DEF HookNames
<1> QED BY <1>1, <1>2, <1>3, <1>4, CallUse

LEMMA EntersUse ==
    ASSUME Shape, Shape', UseOK, NEW t \in Threads, NEW op \in HookNames, NEW p \in Pointers, Enters(t, op, p)
    PROVE  UseOK'
<1> PICK c, f, v : c = Found(op, p) /\ f = Inside(op, p, c) /\ v = Reading(app.lib[p])
  OBVIOUS
<1> PICK g : g = Placed(f, "measure", v)
  OBVIOUS
<1>1. /\ MayUse(t, op, p) /\ Live(p) /\ c # Null /\ app' = app /\ (Enter(t, g) \/ Enter(t, f))
  BY DEF Enters, MayUse, Inside, Placed
<1>2. c \in DOMAIN agent.known /\ v \in Counts \cup {Null}
  BY <1>1, FoundKnown, LiveStatement, ReadingCounted DEF Shape
<1>3. f \in Call /\ f.op = op /\ f.ptr = p /\ f.module = app.lib[p].module
  BY <1>1, <1>2, InsideMade
<1>4. Same(g, f)
  BY <1>2, <1>3, PlacedSame
<1> QED BY <1>1, <1>3, <1>4, CallUse DEF Same

LEMMA StepReturnsUse ==
    ASSUME Shape, Shape', UseOK, Aside, NEW t \in Threads, NEW w \in 0..setting.work, NEW more \in BOOLEAN,
           StepReturns(t, w, more)
    PROVE  UseOK'
<1> PICK f, s, k : f = Top(t) /\ s = Stepped(app.lib[f.ptr], t, w) /\ k = agent.known[f.ctx]
  OBVIOUS
<1> PICK x, v : x = Now(t, w, more) /\ v = Reading(s)
  OBVIOUS
<1> PICK g : g = Placed(f, "measure", v)
  OBVIOUS
<1>1. Returned(t, w, more, f, s, k)
  BY StepReturnsDoes, Zenon
<1>2. /\ frames[t] # << >> /\ f.at = "inside" /\ f.ptr \in Pointers /\ app.lib[f.ptr] \in Statement
      /\ app'.lib = [app.lib EXCEPT ![f.ptr] = x] /\ x \in Statement /\ w \in Nat
      /\ Leave(t) \/ (Move(t, g) /\ v \in Counts \cup {Null})
  BY <1>1 DEF Returned
<1>3. x.module = app.lib[f.ptr].module
  <2> PICK r : r = app.lib[f.ptr]
    OBVIOUS
  <2>1. s \in Statement /\ s.module = r.module
    <3>1. r \in Statement /\ Wrap \in Nat /\ Wrap > 0 /\ w \in Nat
      BY <1>2, Bounds DEF Shape, AppOK
    <3> QED BY <3>1, SteppedParts
  <2>2. [s EXCEPT !.runner = Null].module = s.module
    BY <2>1 DEF Statement
  <2> QED BY <2>1, <2>2 DEF Now
<1>4. StaysUsed
  <2> PICK p : p = f.ptr
    OBVIOUS
  <2>1. /\ p \in Pointers /\ x.module = app.lib[p].module /\ app'.lib = [app.lib EXCEPT ![p] = x]
    BY <1>2, <1>3
  <2> QED BY <1>2, <2>1, LibAtStays DEF Shape
<1>5. CASE Leave(t)
  BY <1>2, <1>4, <1>5, LeaveUse
<1>6. CASE Move(t, g) /\ v \in Counts \cup {Null}
  <2>1. f \in Call
    BY <1>2, TopOK
  <2>2. Same(g, f)
    BY <1>6, <2>1, PlacedSame
  <2>3. g \in Call /\ Carried(g, f)
    BY <1>2, <2>2 DEF Same, Carried, InUse
  <2> QED BY <1>2, <1>4, <1>6, <2>3, MoveUse
<1> QED BY <1>2, <1>5, <1>6

LEMMA StepBeginsUse ==
    ASSUME Shape, Shape', UseOK, NEW t \in Threads, StepBegins(t)
    PROVE  UseOK'
<1> PICK f, g, r : f = Top(t) /\ g = Begins(f) /\ r = Tail(frames[t])
  OBVIOUS
<1> PICK fs : fs = <<g>> \o r
  OBVIOUS
<1>1. /\ frames[t] # << >> /\ f.at = "enter" /\ GoOn(t, fs) /\ app' = app
  BY DEF StepBegins, At, Begins
<1>2. /\ f \in Call /\ (f.ctx = Null \/ f.ctx \in DOMAIN agent.known)
      /\ StackOK(r, DOMAIN agent.known, 0)
      /\ \A i \in DOMAIN r : r[i].op = "step" /\ r[i].at = "inside"
  BY <1>1, TopOK
<1>3. g \in Call /\ g.op = f.op /\ g.ptr = f.ptr /\ g.module = f.module /\ g.ctx = f.ctx /\ g.at = "inside"
      /\ g.behind = 0
  BY <1>2, FrameMoves
<1>4. FrameOK(g, DOMAIN agent.known, 0) /\ Carried(g, f)
  BY <1>1, <1>2, <1>3 DEF FrameOK, Carried, InUse
<1>5. StackOK(fs, DOMAIN agent.known, 0)
  BY <1>2, <1>4, OntoStack
<1>6. Others(t) /\ frames'[t] = fs
  BY <1>1, <1>5, OthersWait
<1>7. StaysUsed
  BY <1>1, LibStays DEF Shape
<1> QED BY <1>1, <1>3, <1>4, <1>6, <1>7, HeadUse

\* The hook waits, or leaves.
LEMMA WaitUse ==
    ASSUME Shape, Shape', UseOK, StaysUsed, NEW t \in Threads, frames[t] # << >>,
           Move(t, Waiting(Top(t), "leave")) \/ Leave(t)
    PROVE  UseOK'
<1> PICK f : f = Top(t)
  OBVIOUS
<1> PICK g : g = Waiting(f, "leave")
  OBVIOUS
<1>1. f \in Call /\ Len(agent'.queue) \in Nat
  BY TopOK DEF Shape, RecordsOK
<1>2. g \in Call /\ Carried(g, f)
  BY <1>1, WaitingUse
<1>3. CASE Move(t, g)
  BY <1>2, <1>3, MoveUse
<1>4. CASE Leave(t)
  BY <1>4, LeaveUse
<1> QED BY <1>3, <1>4

LEMMA WaitOverUse ==
    ASSUME Shape, Shape', UseOK, NEW t \in Threads, frames[t] # << >>, GoOn(t, Tail(frames[t])), app' = app
    PROVE  UseOK'
<1> PICK fs : fs = Tail(frames[t])
  OBVIOUS
<1>1. StackOK(fs, DOMAIN agent.known, 0) /\ GoOn(t, fs)
  BY TopOK
<1>2. Others(t) /\ frames'[t] = fs
  BY <1>1, OthersWait
<1>3. StaysUsed
  BY LibStays DEF Shape
<1> QED BY <1>2, <1>3, TailUse

LEMMA StepFinishesUse ==
    ASSUME Shape, Shape', UseOK, NEW t \in Threads, StepFinishes(t) \/ FinalizeFinishes(t)
    PROVE  UseOK'
<1>1. frames[t] # << >> /\ app' = app /\ (Move(t, Waiting(Top(t), "leave")) \/ Leave(t))
  BY DEF StepFinishes, FinalizeFinishes, At
<1>2. StaysUsed
  BY <1>1, LibStays DEF Shape
<1> QED BY <1>1, <1>2, WaitUse

LEMMA HookEndsUse ==
    ASSUME Shape, Shape', UseOK, NEW t \in Threads, HookEnds(t) \/ FinalizeEnds(t)
    PROVE  UseOK'
<1>1. frames[t] # << >> /\ app' = app /\ GoOn(t, Tail(frames[t]))
  BY DEF HookEnds, FinalizeEnds, At
<1> QED BY <1>1, WaitOverUse

LEMMA MeasuresUse ==
    ASSUME Shape, Shape', UseOK, NEW t \in Threads, Measures(t)
    PROVE  UseOK'
<1> PICK f, r : f = Top(t) /\ r = Metrics(f.ctx, f.value)
  OBVIOUS
<1> PICK g : g = Placed(f, "inside", r)
  OBVIOUS
<1>1. /\ frames[t] # << >> /\ f.at = "measure" /\ app' = app /\ Move(t, g)
  BY DEF Measures, At, Placed
<1>2. f \in Call /\ f.ctx \in DOMAIN agent.known /\ f.value \in Counts \cup {Null}
  BY <1>1, TopOK
<1>3. r \in Counts \cup {Null}
  BY <1>2, MetricsCounted, Bounds DEF Shape, AppOK
<1>4. Same(g, f)
  BY <1>2, <1>3, PlacedSame
<1>5. g \in Call /\ Carried(g, f) /\ StaysUsed
  BY <1>1, <1>4, LibStays DEF Same, Carried, InUse, Shape
<1> QED BY <1>1, <1>5, MoveUse

LEMMA ResetReturnsUse ==
    ASSUME Shape, Shape', UseOK, NEW t \in Threads, ResetReturns(t)
    PROVE  UseOK'
<1> PICK f : f = Top(t)
  OBVIOUS
<1> PICK p, s : p = f.ptr /\ s = [app.lib[p] EXCEPT !.runner = Null]
  OBVIOUS
<1>1. /\ frames[t] # << >> /\ f.at = "inside"
      /\ app' = [app EXCEPT !.lib[p].runner = Null, !.truth = @ \cup Ended(app.lib[p])]
      /\ Move(t, Waiting(f, "leave")) \/ Leave(t)
  BY DEF ResetReturns, At
<1>2. app.lib[p] \in Statement /\ p \in Pointers
  BY <1>1, TopUse DEF InUse
<1>3. s \in Statement /\ s.module = app.lib[p].module
  BY <1>2 DEF Statement
<1>4. app'.lib = [app.lib EXCEPT ![p] = s]
  BY <1>1, <1>2 DEF Shape, AppOK
<1>5. StaysUsed
  BY <1>2, <1>3, <1>4, LibAtStays DEF Shape
<1> QED BY <1>1, <1>5, WaitUse

\* Nobody else is on the statement that is finalized.
LEMMA FinalizeReturnsUse ==
    ASSUME Shape, Shape', UseOK, NEW t \in Threads, FinalizeReturns(t)
    PROVE  UseOK'
<1> PICK f : f = Top(t)
  OBVIOUS
<1> PICK p, v : p = f.ptr /\ v = f.value
  OBVIOUS
<1> PICK g : g = Placed(f, "freed", v)
  OBVIOUS
<1>1. /\ frames[t] # << >> /\ f.at = "inside" /\ f.op = "finalize"
      /\ app' = [app EXCEPT !.lib[p] = NoStatement, !.truth = @ \cup Ended(app.lib[p])]
      /\ Move(t, [f EXCEPT !.at = "freed"]) \/ Leave(t)
  BY Zenon DEF FinalizeReturns, At
<1>2. /\ f \in Call /\ v \in Counts \cup {Null} /\ f = frames[t][1] /\ 1 \in DOMAIN frames[t] /\ p \in Pointers
      /\ frames[t] \in Seq(Call) /\ f = Head(frames[t])
  BY <1>1, TopOK, Zenon DEF Shape, FramesOK, Top
<1>3. \A q \in Pointers : app'.lib[q] = IF q = p THEN NoStatement ELSE app.lib[q]
  BY <1>1, <1>2 DEF Shape, AppOK
<1>4. \A u \in Threads : \A i \in DOMAIN frames[u] :
         InUse(frames[u][i]) /\ frames[u][i].ptr = p => u = t /\ i = 1
  BY <1>1, <1>2 DEF UseOK, InUse
<1>5. [f EXCEPT !.at = "freed"] = g
  BY <1>2 DEF Placed, Call
<1>6. Same(g, f) /\ ~InUse(g)
  BY <1>2, PlacedSame DEF InUse
<1>7. Others(t) /\ (frames'[t] = <<g>> \o Tail(frames[t]) \/ frames'[t] = Tail(frames[t]))
  BY <1>1, <1>5, OthersStay
<1>13. frames'[t] = <<g>> \o Tail(frames[t]) =>
          \A i \in DOMAIN frames'[t] : \/ i = 1 /\ frames'[t][i] = g
                                       \/ i # 1 /\ i \in DOMAIN frames[t] /\ frames'[t][i] = frames[t][i]
  <2> PICK st : st = frames[t]
    OBVIOUS
  <2>1. st \in Seq(Call) /\ st # << >> /\ g \in Call
    BY <1>1, <1>2, <1>6 DEF Same
  <2>2. \A i \in DOMAIN (<<g>> \o Tail(st)) :
                 \/ i = 1 /\ (<<g>> \o Tail(st))[i] = g
                 \/ i # 1 /\ i \in DOMAIN st /\ (<<g>> \o Tail(st))[i] = st[i]
    BY <2>1, AfterTail
  <2> QED BY <2>2
<1>8. \A i \in DOMAIN frames'[t] : InUse(frames'[t][i]) => frames'[t][i].ptr # p
  <2>1. CASE frames'[t] = <<g>> \o Tail(frames[t])
    <3>2. \A i \in DOMAIN frames'[t] : \/ frames'[t][i] = g
                                       \/ i # 1 /\ i \in DOMAIN frames[t] /\ frames'[t][i] = frames[t][i]
      BY <1>13, <2>1
    <3> QED BY <1>4, <1>6, <3>2
  <2>2. CASE frames'[t] = Tail(frames[t])
    <3>1. \A i \in DOMAIN frames'[t] : i + 1 \in DOMAIN frames[t] /\ frames'[t][i] = frames[t][i + 1]
      BY <1>1, <1>2, <2>2, AfterTail
    <3>2. \A i \in DOMAIN frames'[t] : i + 1 # 1
      BY <1>2, <2>2
    <3> QED BY <1>4, <3>1, <3>2
  <2> QED BY <1>7, <2>1, <2>2
<1>9. \A u \in Threads : \A i \in DOMAIN frames'[u] : InUse(frames'[u][i]) => frames'[u][i].ptr # p
  BY <1>4, <1>7, <1>8 DEF Others, Carried
<1>10. StillUsed
  <2>1. \A u \in Threads : DOMAIN frames'[u] \subseteq Int
    BY DEF Shape, FramesOK
  <2>2. \A u \in Threads : \A i \in DOMAIN frames'[u] : frames'[u][i].ptr \in Pointers
    BY DEF Shape, FramesOK, FrameOK, Call
  <2>3. ASSUME NEW u \in Threads, NEW i \in DOMAIN frames'[u], NEW q, q = frames'[u][i].ptr,
               InUse(frames'[u][i]), Live(q)
        PROVE  app'.lib[q] # NoStatement /\ app'.lib[q].module = app.lib[q].module
    <3>1. q \in Pointers /\ q # p
      BY <1>9, <2>2, <2>3
    <3> QED BY <1>3, <2>3, <3>1 DEF Live
  <2> QED BY <2>1, <2>3 DEF StillUsed
<1>11. CASE frames'[t] = <<g>> \o Tail(frames[t])
  <2> PICK d \in Int : d = 0
    OBVIOUS
  <2>1. g \in Call /\ Carried(g, f)
    BY <1>6 DEF Same, Carried
  <2>2. \A i \in DOMAIN frames'[t] : \/ i = 1 /\ frames'[t][i] = g
                                     \/ i # 1 /\ i \in DOMAIN frames[t] /\ frames'[t][i] = frames[t][i]
    BY <1>11, <1>13
  <2>3. \A i \in DOMAIN frames'[t] : i + d = i
    BY <1>10 DEF StillUsed
  <2>4. Shifted(t, d)
    BY <1>2, <2>1, <2>2, <2>3 DEF Carried, Shifted
  <2> QED BY <1>7, <1>10, <2>4, UseMoves
<1>12. CASE frames'[t] = Tail(frames[t])
  <2> PICK d \in Int : d = 1
    OBVIOUS
  <2>1. \A i \in DOMAIN frames'[t] : i + d \in DOMAIN frames[t] /\ frames'[t][i] = frames[t][i + d]
    BY <1>1, <1>2, <1>12, AfterTail
  <2>2. Shifted(t, d)
    BY <2>1 DEF Carried, Shifted
  <2> QED BY <1>7, <1>10, <2>2, UseMoves
<1> QED BY <1>7, <1>11, <1>12

LEMMA RefusedUse ==
    ASSUME Shape, Shape', UseOK, NEW t \in Threads, Refused(t)
    PROVE  UseOK'
<1> PICK f : f = Top(t)
  OBVIOUS
<1> PICK g : g = Begins(f)
  OBVIOUS
<1>1. /\ frames[t] # << >> /\ app' = app /\ f \in Call
      /\ IF f.at = "enter" THEN Move(t, g) ELSE Leave(t)
  BY RefusedDoes DEF Refusal
<1>2. f.at = "enter" => g \in Call /\ Carried(g, f)
  BY <1>1, FrameMoves DEF Carried, InUse
<1>3. StaysUsed
  BY <1>1, LibStays DEF Shape
<1> QED BY <1>1, <1>2, <1>3, MoveUse, LeaveUse

LEMMA UnloadUse ==
    ASSUME Shape, Shape', UseOK, Aside, NEW m \in Modules, Unload(m)
    PROVE  UseOK'
<1>1. /\ frames' = frames
      /\ app'.lib = [p \in Pointers |-> IF p \in Ours(m) THEN NoStatement ELSE app.lib[p]]
  BY UnloadShape, Zenon
<1>2. \A t \in Threads : \A f \in Range(frames[t]) : f.module # m
  BY DEF Unload
<1>3. \A u \in Threads : \A i \in DOMAIN frames[u] :
         /\ frames[u][i].module # m /\ frames[u][i].ptr \in Pointers
         /\ InUse(frames[u][i]) => app.lib[frames[u][i].ptr].module = frames[u][i].module
  BY <1>2 DEF Range, UseOK, Shape, FramesOK, FrameOK, Call
<1>4. StillUsed
  <2>1. \A u \in Threads : DOMAIN frames'[u] \subseteq Int
    BY DEF Shape, FramesOK
  <2>2. ASSUME NEW u \in Threads, NEW i \in DOMAIN frames'[u], NEW q, q = frames'[u][i].ptr,
               InUse(frames'[u][i]), Live(q)
        PROVE  app'.lib[q] # NoStatement /\ app'.lib[q].module = app.lib[q].module
    <3>1. q \in Pointers /\ q \notin Ours(m)
      BY <1>1, <1>3, <2>2 DEF Ours
    <3> QED BY <1>1, <2>2, <3>1 DEF Live
  <2> QED BY <2>1, <2>2 DEF StillUsed
<1> QED BY <1>1, <1>4, FramesStay

LEMMA RestUse ==
    ASSUME Shape, Shape', UseOK
    PROVE  /\ app'.lib = app.lib /\ frames' = frames => UseOK'
           /\ frames' = [t \in Threads |-> << >>] => UseOK'
<1>1. ASSUME app'.lib = app.lib, frames' = frames PROVE UseOK'
  <2>1. StaysUsed
    BY <1>1, LibStays DEF Shape
  <2> QED BY <1>1, <2>1, SameUse, FramesStay
<1>2. ASSUME frames' = [t \in Threads |-> << >>] PROVE UseOK'
  BY <1>2 DEF UseOK
<1> QED BY <1>1, <1>2

-----------------------------------------------------------------------------
(* The invariant. *)

Inv == Shape /\ UseOK

LEMMA InitShape == Init => Inv
<1> SUFFICES ASSUME Init PROVE Inv
  OBVIOUS
<1>1. /\ setting \in Settings /\ orderly = TRUE /\ lifeOf = << >> /\ wire = << >>
      /\ app = [lib |-> app.lib, lives |-> 0, loaded |-> setting.modules, truth |-> {}, used |-> {},
                exited |-> FALSE]
      /\ app.lib = [p \in Pointers |-> IF p \in DOMAIN setting.inherited
                                       THEN Fresh(p, setting.inherited[p]) ELSE NoStatement]
      /\ agent = [contexts |-> << >>, known |-> << >>, unknown |-> {},
                  complete |-> FALSE, partial |-> FALSE, queue |-> << >>, broken |-> FALSE, stuck |-> {}]
      /\ frames = [t \in Threads |-> << >>] /\ unheard = {}
      /\ told = [status |-> CurrentStatus(setting.modules, agent), lossy |-> FALSE, fatal |-> FALSE]
  BY DEF Init, HooksInit
<1>2. AppOK
  <2>1. ASSUME NEW p \in Pointers, p \in DOMAIN setting.inherited
        PROVE  Fresh(p, setting.inherited[p]) \in Statement
    <3>1. setting.inherited[p] \in Modules
      BY <1>1, <2>1, SettingsAssumption DEF Setting
    <3>2. 0 \in Counts
      BY <1>1, Bounds
    <3> QED BY <3>1, <3>2 DEF Fresh, Statement
  <2>2. app.lib \in [Pointers -> Statement \cup {NoStatement}]
    BY <1>1, <2>1
  <2>3. setting.modules \subseteq Modules
    BY <1>1, Bounds
  <2>4. /\ app.lives = 0 /\ app.loaded = setting.modules /\ app.truth = {} /\ app.used = {}
        /\ app.exited = FALSE
        /\ app = [lib |-> app.lib, lives |-> app.lives, loaded |-> app.loaded, truth |-> app.truth,
                  used |-> app.used, exited |-> app.exited]
    BY <1>1
  <2>5. /\ app.lives \in Nat /\ app.loaded \in SUBSET Modules /\ app.used \in SUBSET Modules
        /\ app.truth \in SUBSET [life: Nat \cup Pointers, n: Nat, work: Nat] /\ app.exited \in BOOLEAN
    <3>1. app.lives \in Nat
      BY <2>4
    <3>2. app.loaded \in SUBSET Modules
      BY <2>3, <2>4
    <3>3. app.used \in SUBSET Modules
      BY <2>4
    <3>4. app.truth \in SUBSET [life: Nat \cup Pointers, n: Nat, work: Nat]
      <4>1. app.truth = {}
        BY <2>4
      <4> QED BY <4>1, Zenon
    <3>5. app.exited \in BOOLEAN
      BY <2>4
    <3> QED BY <3>1, <3>2, <3>3, <3>4, <3>5
  <2>6. /\ app \in [lib: [Pointers -> Statement \cup {NoStatement}], lives: Nat,
                    loaded: SUBSET Modules, exited: BOOLEAN, used: SUBSET Modules,
                    truth: SUBSET [life: Nat \cup Pointers, n: Nat, work: Nat]]
    BY <2>2, <2>4, <2>5
  <2> QED BY <1>1, <2>3, <2>4, <2>6 DEF AppOK
<1>3. AgentOK
  BY <1>1 DEF AgentOK
<1>4. ToldOK
  BY <1>1, StatusTold DEF ToldOK, Telling
<1>5. RecordsOK(agent.queue, DOMAIN agent.known) /\ RecordsOK(wire, DOMAIN agent.known)
  BY <1>1, FewRecords
<1>6. lifeOf \in Seq(DOMAIN agent.known) /\ FramesOK(frames, DOMAIN agent.known, Len(agent.queue))
  BY <1>1 DEF FramesOK
<1>7. UseOK
  BY <1>1 DEF UseOK
<1> QED BY <1>2, <1>3, <1>4, <1>5, <1>6, <1>7 DEF Inv, Shape

\* Each hook's step, by the disjuncts of Hook.
LEMMA HookInv ==
    ASSUME Inv, Aside, NEW t \in Threads, Hook(t)
    PROVE  Inv'
<1> USE DEF Inv
<1>1. ASSUME NEW p \in Pointers, NEW m \in Modules, Prepare(t, p, m) PROVE Inv'
  BY <1>1, PrepareShape, PrepareUse
<1>2. ASSUME NEW p \in Pointers, NEW op \in HookNames, Unobserved(t, op, p) PROVE Inv'
  BY <1>2, UnobservedShape, CallsUse
<1>3. ASSUME NEW p \in Pointers, NEW op \in HookNames, Conflicts(t, op, p) PROVE Inv'
  BY <1>3, ConflictsShape, CallsUse
<1>4. ASSUME NEW p \in Pointers, StepEnters(t, p) PROVE Inv'
  BY <1>4, StepEntersShape, StepEntersUse
<1>5. ASSUME NEW p \in Pointers, NEW op \in HookNames, Enters(t, op, p) PROVE Inv'
  BY <1>5, EntersShape, EntersUse
<1>6. ASSUME NEW w \in 0..setting.work, NEW more \in BOOLEAN, StepReturns(t, w, more) PROVE Inv'
  BY <1>6, StepReturnsShape, StepReturnsUse
<1>7. ASSUME StepBegins(t) PROVE Inv'
  BY <1>7, StepBeginsShape, StepBeginsUse
<1>8. ASSUME StepFinishes(t) PROVE Inv'
  BY <1>8, StepFinishesShape, StepFinishesUse
<1>9. ASSUME HookEnds(t) PROVE Inv'
  BY <1>9, HookEndsShape, HookEndsUse
<1>10. ASSUME Measures(t) PROVE Inv'
  BY <1>10, MeasuresShape, MeasuresUse
<1>11. ASSUME ResetReturns(t) PROVE Inv'
  BY <1>11, ResetReturnsShape, ResetReturnsUse
<1>12. ASSUME FinalizeReturns(t) PROVE Inv'
  BY <1>12, FinalizeReturnsShape, FinalizeReturnsUse
<1>13. ASSUME FinalizeFinishes(t) PROVE Inv'
  BY <1>13, FinalizeFinishesShape, StepFinishesUse
<1>14. ASSUME FinalizeEnds(t) PROVE Inv'
  BY <1>14, FinalizeEndsShape, HookEndsUse
<1>16. ASSUME Refused(t) PROVE Inv'
  BY <1>16, RefusedShape, RefusedUse
<1> HIDE DEF Inv
<1>15. \/ \E p \in Pointers :
             \/ \E m \in Modules : Prepare(t, p, m)
             \/ \E op \in HookNames : Unobserved(t, op, p) \/ Conflicts(t, op, p) \/ Enters(t, op, p)
             \/ StepEnters(t, p)
       \/ \E w \in 0..setting.work, more \in BOOLEAN : StepReturns(t, w, more)
       \/ StepBegins(t) \/ StepFinishes(t) \/ HookEnds(t) \/ Measures(t) \/ ResetReturns(t)
       \/ FinalizeReturns(t) \/ FinalizeFinishes(t) \/ FinalizeEnds(t) \/ Refused(t)
  BY DEF Hook, HookNames
<1> QED BY <1>1, <1>2, <1>3, <1>4, <1>5, <1>6, <1>7, <1>8, <1>9, <1>10, <1>11, <1>12, <1>13, <1>14, <1>15, <1>16

LEMMA NextInv == Inv /\ [Next]_vars => Inv'
<1> SUFFICES ASSUME Inv, [Next]_vars PROVE Inv'
  OBVIOUS
<1>1. Shape /\ UseOK
  BY DEF Inv
<1>2. CASE HooksNext /\ orderly' = (orderly /\ Orderly) /\ UNCHANGED <<trackerVars, lifeOf>>
  <2>1. Aside
    <3>1. orderly \in BOOLEAN
      BY <1>1 DEF Shape, AppOK
    <3> QED BY <1>2, <3>1 DEF Aside, HooksNext, Orderly
  <2>2. ASSUME NEW t \in setting.threads, Hook(t) PROVE Inv'
    <3>1. t \in Threads
      BY <1>1, <2>2, Bounds DEF Shape, AppOK
    <3> QED BY <2>1, <2>2, <3>1, HookInv
  <2>3. ASSUME NEW m \in Modules, Unload(m) PROVE Inv'
    BY <1>1, <2>1, <2>3, UnloadShape, UnloadUse DEF Inv
  <2>4. ASSUME NEW m \in Modules, Load(m) PROVE Inv'
    <3>1. Shape'
      BY <1>1, <2>1, <2>4, LoadShape
    <3>2. app'.lib = app.lib /\ frames' = frames
      BY <1>1, <2>4 DEF Load, Shape, AppOK
    <3> QED BY <1>1, <3>1, <3>2, RestUse DEF Inv
  <2>5. ASSUME NEW n \in 0..Len(agent.queue),
               NEW heard \in {told} \cup {e.told : e \in {d \in unheard : n <= d.at}}, Exit(n, heard)
        PROVE  Inv'
    <3>1. Shape' /\ frames' = [t \in Threads |-> << >>]
      BY <1>1, <2>1, <2>5, ExitShape
    <3> QED BY <1>1, <3>1, RestUse DEF Inv
  <2> QED BY <1>2, <2>2, <2>3, <2>4, <2>5, Zenon DEF HooksNext
<1>3. CASE Consume
  <2>1. Shape'
    BY <1>1, <1>3, ConsumeShape
  <2>2. app'.lib = app.lib /\ frames' = frames
    BY <1>3 DEF Consume
  <2> QED BY <1>1, <2>1, <2>2, RestUse DEF Inv
<1>4. CASE Finish
  <2>1. UNCHANGED <<hookVars, historyVars>>
    BY <1>4 DEF Finish
  <2>2. Shape'
    BY <1>1, <2>1, FinishShape
  <2>3. app'.lib = app.lib /\ frames' = frames
    BY <2>1 DEF hookVars
  <2> QED BY <1>1, <2>2, <2>3, RestUse DEF Inv
<1>5. CASE UNCHANGED vars
  <2>1. UNCHANGED <<hookVars, historyVars>>
    BY <1>5 DEF vars
  <2>2. Shape'
    BY <1>1, <2>1, FinishShape
  <2>3. app'.lib = app.lib /\ frames' = frames
    BY <2>1 DEF hookVars
  <2> QED BY <1>1, <2>2, <2>3, RestUse DEF Inv
<1> QED BY <1>2, <1>3, <1>4, <1>5 DEF Next

\* The tables of the agent, the calls and the records keep their shape, and no call of the
\* application is left with a statement that is gone.
THEOREM PipelineInvariant == Spec => []Inv
BY InitShape, NextInv, PTL DEF Spec

-----------------------------------------------------------------------------
(* The tracker of the pipeline is the statement tracker. *)

LEMMA EventFields ==
    ASSUME NEW e \in Event
    PROVE  /\ e.ptr \in Pointers /\ e.module \in Modules
           /\ e.type = "started"  => e.number \in 1..MaxNumber /\ e.value \in Threads
           /\ e.type = "executed" => e.number \in 1..MaxNumber /\ e.value \in Counts \cup {Null}
BY DEF Event, Number

\* What the reducer does with a record is a step of the tracker.
LEMMA ConsumesTracks ==
    ASSUME NEW e \in Event, Consumes(e)
    PROVE  Tracker!Next
<1> PICK p, m, n, v : p = e.ptr /\ m = e.module /\ n = e.number /\ v = e.value
  OBVIOUS
<1>1. p \in Pointers /\ m \in Modules
  BY EventFields
<1>2. CASE e.type = "prepared"
  <2>1. Tracker!Prepared(p, m, "whole")
    BY <1>2 DEF Consumes
  <2>2. "whole" \in Tracker!Captures
    BY DEF Tracker!Captures
  <2> QED BY <1>1, <2>1, <2>2 DEF Tracker!Next
<1>3. CASE e.type = "started"
  <2>1. n \in 1..MaxNumber /\ v \in Threads
    BY <1>3, EventFields
  <2>2. Tracker!Started(p, m, n, v) \/ Tracker!StartedUnmatched(p, m)
    BY <1>3 DEF Consumes
  <2> QED BY <1>1, <2>1, <2>2 DEF Tracker!Next
<1>4. CASE e.type = "executed"
  <2>1. n \in 1..MaxNumber /\ v \in Counts \cup {Null}
    BY <1>4, EventFields
  <2>2. \/ Tracker!ExecutedUnmatched(p, m, v) \/ Tracker!ExecutedFirst(p, m, n, v)
        \/ Tracker!ExecutedAgain(p, m, n, v) \/ Tracker!ExecutedLate(p, m, n, v)
    BY <1>4 DEF Consumes
  <2> QED BY <1>1, <2>1, <2>2 DEF Tracker!Next
<1>5. CASE e.type = "finalized"
  <2>1. Tracker!Finalized(p, m)
    BY <1>5 DEF Consumes
  <2> QED BY <1>1, <2>1 DEF Tracker!Next
<1> QED BY <1>2, <1>3, <1>4, <1>5 DEF Consumes

LEMMA StepTracks == Inv /\ [Next]_vars => [Tracker!Next]_(Tracker!vars)
<1> SUFFICES ASSUME Inv, [Next]_vars PROVE [Tracker!Next]_(Tracker!vars)
  OBVIOUS
<1>1. UNCHANGED trackerVars => UNCHANGED Tracker!vars
  BY DEF trackerVars, Tracker!vars, Tracker!history
<1>2. CASE HooksNext /\ orderly' = (orderly /\ Orderly) /\ UNCHANGED <<trackerVars, lifeOf>>
  BY <1>1, <1>2
<1>3. CASE Consume
  <2>1. Head(wire) \in Event
    BY <1>3, ConsumeShape DEF Inv
  <2>2. Consumes(Head(wire))
    BY <1>3 DEF Consume
  <2> QED BY <2>1, <2>2, ConsumesTracks
<1>4. CASE Finish
  BY <1>4 DEF Finish, Tracker!Next
<1>5. CASE UNCHANGED vars
  BY <1>1, <1>5 DEF vars
<1> QED BY <1>2, <1>3, <1>4, <1>5 DEF Next

\* Whatever the hooks report, and however the process ends, the reducer takes it as the
\* tracker's specification allows: each record has the thread, the number and the report
\* that StatementTracker expects of its type.
THEOREM PipelineTracks == Spec => Tracker!Spec
<1>1. Init => Tracker!Init
  BY DEF Init
<1> QED BY <1>1, StepTracks, PipelineInvariant, PTL DEF Spec, Tracker!Spec

\* What StatementTrackerProofs assumes of its constants holds of these.
LEMMA TrackerConstants ==
    /\ Counts \subseteq Counts \cup {Null} /\ 1..MaxNumber \subseteq Nat \ {0}
    /\ Window \in Nat \ {0} /\ 1000 \in Nat
BY WindowAssumption

LEMMA SameNext == Tracker!Next <=> Proved!Next
BY Zenon DEF Tracker!Counters, Proved!Counters, Tracker!Range, Proved!Range,
   Tracker!Cardinality, Proved!Cardinality, Tracker!Next, Proved!Next, Tracker!Prepared, Proved!Prepared, Tracker!Finalized, Proved!Finalized,
   Tracker!StartedUnmatched, Proved!StartedUnmatched, Tracker!ExecutedUnmatched,
   Proved!ExecutedUnmatched, Tracker!Started, Proved!Started, Tracker!ExecutedAgain,
   Proved!ExecutedAgain, Tracker!ExecutedLate, Proved!ExecutedLate, Tracker!ExecutedFirst,
   Proved!ExecutedFirst, Tracker!Finish, Proved!Finish, Tracker!Captures, Proved!Captures,
   Tracker!Consume, Proved!Consume, Tracker!Flush, Proved!Flush, Tracker!Emitted, Proved!Emitted,
   Tracker!Safe, Proved!Safe, Tracker!Told, Proved!Told, Tracker!Unfinished, Proved!Unfinished,
   Tracker!Put, Proved!Put, Tracker!Drop, Proved!Drop, Tracker!Count, Proved!Count, Tracker!Matches,
   Proved!Matches, Tracker!Forget, Proved!Forget, Tracker!PendingNumbers, Proved!PendingNumbers,
   Tracker!Past, Proved!Past, Tracker!Seen, Proved!Seen, Tracker!Executed, Proved!Executed,
   Tracker!Disputed, Proved!Disputed, Tracker!Late, Proved!Late, Tracker!Excluded, Proved!Excluded,
   Tracker!Overflows, Proved!Overflows, Tracker!Max2, Proved!Max2, Tracker!IsCandidate,
   Proved!IsCandidate, Tracker!NewEntry, Proved!NewEntry, Tracker!history, Proved!history

LEMMA SameTracker ==
    /\ Tracker!Init <=> Proved!Init
    /\ /\ Tracker!TypeOK <=> Proved!TypeOK
       /\ Tracker!EmittedOnce <=> Proved!EmittedOnce
       /\ Tracker!NothingInvented <=> Proved!NothingInvented
       /\ Tracker!ConflictsSurface <=> Proved!ConflictsSurface
       /\ Tracker!ConclusiveIsComplete <=> Proved!ConclusiveIsComplete
<1>1. Tracker!Init <=> Proved!Init
  BY DEF Tracker!Init, Proved!Init, Tracker!Counters, Proved!Counters
<1>3. /\ Tracker!TypeOK <=> Proved!TypeOK
      /\ Tracker!EmittedOnce <=> Proved!EmittedOnce
      /\ Tracker!NothingInvented <=> Proved!NothingInvented
      /\ Tracker!ConflictsSurface <=> Proved!ConflictsSurface
      /\ Tracker!ConclusiveIsComplete <=> Proved!ConclusiveIsComplete
  BY Zenon DEF Tracker!TypeOK, Proved!TypeOK, Tracker!EmittedOnce, Proved!EmittedOnce,
       Tracker!NothingInvented, Proved!NothingInvented, Tracker!ConflictsSurface,
       Proved!ConflictsSurface, Tracker!ConclusiveIsComplete, Proved!ConclusiveIsComplete,
       Tracker!Conclusive, Proved!Conclusive, Tracker!Losses, Proved!Losses, Tracker!SameExecution,
       Proved!SameExecution, Tracker!Counters, Proved!Counters, Tracker!Lifetime, Proved!Lifetime,
       Tracker!Entry, Proved!Entry, Tracker!Execution, Proved!Execution, Tracker!Captures,
       Proved!Captures
<1> QED BY <1>1, <1>3

\* So nothing is reported twice, nothing is invented, contradictions are counted and
\* conclusive data is complete, for the records that the hooks make.
THEOREM TrackerKeeps ==
    Spec => [](/\ Tracker!TypeOK /\ Tracker!EmittedOnce /\ Tracker!NothingInvented
               /\ Tracker!ConflictsSurface /\ Tracker!ConclusiveIsComplete)
<1>1. Tracker!Spec => Proved!Spec
  <2>1. Tracker!Init => Proved!Init
    BY SameTracker
  <2>2. [Tracker!Next]_(Tracker!vars) => [Proved!Next]_(Proved!vars)
    BY SameNext DEF Tracker!vars, Proved!vars, Tracker!history, Proved!history
  <2> QED BY <2>1, <2>2, PTL DEF Tracker!Spec, Proved!Spec
<1>2. /\ Proved!Spec => []Proved!TypeOK
      /\ Proved!Spec => []Proved!EmittedOnce
      /\ Proved!Spec => []Proved!NothingInvented
      /\ Proved!Spec => []Proved!ConflictsSurface
      /\ Proved!Spec => []Proved!ConclusiveIsComplete
  BY TrackerConstants, Proved!TypeCorrect, Proved!EmittedAtMostOnce, Proved!NothingIsInvented,
     Proved!ConflictsAreCounted, Proved!ConclusiveMeansComplete
<1> QED BY <1>1, <1>2, SameTracker, PipelineTracks, PTL

\* The state has its shape: counts are unsigned, a context of the agent is of a statement
\* it knows, a call is inside of a statement's hook.
THEOREM TypeCorrect == Spec => []TypeOK
<1>1. Inv /\ Tracker!TypeOK => TypeOK
  <2> SUFFICES ASSUME Inv, Tracker!TypeOK PROVE TypeOK
    OBVIOUS
  <2>1. \A k \in Known : k \in Context
    BY DEF Known, Context, Number
  <2>2. frames \in [Threads -> Seq(Call)]
    BY DEF Inv, Shape, FramesOK
  <2> QED BY <2>1, <2>2 DEF Inv, Shape, AppOK, AgentOK, ToldOK, Telling, TypeOK
<1> QED BY <1>1, PipelineInvariant, TrackerKeeps, PTL

-----------------------------------------------------------------------------
(* The doctor. *)

\* The statements known are of modules that were prepared with, one that is incomplete
\* and has a prepare hook is latched, and the latch is told, and the failure of the transport,
\* unless the process took that with it.
DoctorInv ==
    /\ \A c \in DOMAIN agent.known : agent.known[c].module \in app.used
    /\ \A m \in app.used : "prepare" \in Hooked[m] /\ ~Complete(m) => agent.partial
    /\ \/ app.exited /\ ~Heard
       \/ agent.broken /\ told.fatal
       \/ ~agent.broken /\ (agent.partial => told.status = "PARTIAL")

\* Nothing that the doctor judges changes, but that the transport fails, with a fatal error.
TableKept ==
    /\ DOMAIN agent'.known = DOMAIN agent.known
    /\ \A c \in DOMAIN agent.known : agent'.known[c].module = agent.known[c].module
    /\ agent'.partial = agent.partial
KnownKept == TableKept /\ agent'.broken = agent.broken
Kept ==
    /\ TableKept /\ told'.status = told.status /\ app'.used = app.used
    /\ \/ agent'.broken /\ told'.fatal
       \/ agent'.broken = agent.broken /\ told'.fatal = told.fatal

LEMMA KeptDoctor == DoctorInv /\ ~app.exited /\ Kept => DoctorInv'
BY DEF DoctorInv, Kept, TableKept, Complete

\* One entry changes, and not its module.
Rewrites(c, k, q) ==
    /\ c \in DOMAIN agent.known => k.module = agent.known[c].module
    /\ agent' = [agent EXCEPT !.known[c] = k, !.queue = q]

LEMMA EntryKept ==
    ASSUME AgentOK, NEW c, NEW k, NEW q, Rewrites(c, k, q)
    PROVE  KnownKept
<1>1. /\ agent'.known = [agent.known EXCEPT ![c] = k] /\ agent'.partial = agent.partial
      /\ agent'.broken = agent.broken /\ agent.known = [d \in DOMAIN agent.known |-> agent.known[d]]
  BY DEF AgentOK, Rewrites
<1> QED BY <1>1 DEF KnownKept, TableKept, Rewrites

LEMMA OneEntryKept ==
    ASSUME AgentOK, NEW c, NEW k, c \in DOMAIN agent.known => k.module = agent.known[c].module,
           agent' = [agent EXCEPT !.known[c] = k]
    PROVE  KnownKept
<1>1. Rewrites(c, k, agent.queue)
  BY DEF AgentOK, Rewrites
<1> QED BY <1>1, EntryKept, Zenon

LEMMA AgentKept ==
    ASSUME AgentOK, agent'.known = agent.known, agent'.partial = agent.partial,
           agent'.broken = agent.broken
    PROVE  KnownKept
BY DEF KnownKept, TableKept

\* What a hook makes of an entry has the module of the entry.
LEMMA ModuleKept ==
    ASSUME AgentOK, NEW c \in DOMAIN agent.known
    PROVE  LET k == agent.known[c] IN
           /\ \A d : [k EXCEPT !.depth = d].module = k.module
           /\ \A v : /\ [k EXCEPT !.last = v].module = k.module
                     /\ Cleared([k EXCEPT !.last = v]).module = k.module
           /\ Cleared(k).module = k.module
BY DEF AgentOK, Known, Cleared

LEMMA FinishedKept ==
    ASSUME AgentOK, NEW f, NEW k, NEW r, agent' = Finished(f, k, r),
           k = agent.known[f.ctx] \/ \E v : k = [agent.known[f.ctx] EXCEPT !.last = v]
    PROVE  KnownKept
<1>1. ASSUME f.ctx \in DOMAIN agent.known PROVE Cleared(k).module = agent.known[f.ctx].module
  <2>1. CASE k = agent.known[f.ctx]
    BY <1>1, <2>1, ModuleKept
  <2>2. ASSUME NEW v, k = [agent.known[f.ctx] EXCEPT !.last = v]
        PROVE  Cleared(k).module = agent.known[f.ctx].module
    BY <1>1, <2>2, ModuleKept
  <2> QED BY <2>1, <2>2
<1>2. PICK q : q = Queued([Record("executed", f.ptr, f.ctx) EXCEPT !.value = r])
  OBVIOUS
<1>3. PICK c, l : c = f.ctx /\ l = Cleared(k)
  OBVIOUS
<1>4. agent' = [agent EXCEPT !.known[c] = l, !.queue = q]
  BY <1>2, <1>3, Zenon DEF Finished
<1>5. Rewrites(c, l, q)
  BY <1>1, <1>3, <1>4 DEF Rewrites
<1> QED BY <1>5, EntryKept, Zenon

\* No hook but that of a preparation.
LEMMA HookKept ==
    ASSUME Shape, NEW t \in Threads, Hook(t),
           ~ \E p \in Pointers, m \in Modules : Prepare(t, p, m)
    PROVE  Kept
<1>0. AgentOK /\ ToldOK /\ AppOK
  BY DEF Shape
<1>1. ASSUME NEW p \in Pointers, NEW op \in HookNames, Unobserved(t, op, p) PROVE Kept
  <2>1. agent'.known = agent.known /\ agent'.partial = agent.partial /\ agent'.broken = agent.broken
    BY <1>0, <1>1 DEF Unobserved, AgentOK
  <2>2. told'.status = told.status /\ told'.fatal = told.fatal /\ app' = app
    BY <1>0, <1>1 DEF Unobserved, ToldOK, Telling, Say
  <2> QED BY <1>0, <2>1, <2>2, AgentKept DEF Kept, KnownKept
<1>2. ASSUME NEW p \in Pointers, NEW op \in HookNames, Conflicts(t, op, p) PROVE Kept
  <2>1. agent' = agent /\ told'.status = told.status /\ told'.fatal = told.fatal /\ app' = app
    BY <1>0, <1>2 DEF Conflicts, ToldOK, Telling, Say
  <2> QED BY <1>0, <2>1, AgentKept DEF Kept, KnownKept
<1>3. ASSUME NEW p \in Pointers, StepEnters(t, p) PROVE Kept
  <2>1. PICK c, d : c = Found("step", p) /\ d = agent.known[c].depth + 1
    OBVIOUS
  <2>2. PICK k, q : /\ k = [agent.known[c] EXCEPT !.owner = t, !.depth = d]
                    /\ q = Queued([Record("started", p, c) EXCEPT !.number = Begun(k).active,
                                                                             !.value = t])
    OBVIOUS
  <2>3. k = [agent.known[c] EXCEPT !.owner = t, !.depth = @ + 1]
    BY <2>1, <2>2
  <2>4. \/ agent' = [agent EXCEPT !.known[c] = k]
        \/ agent' = [agent EXCEPT !.known[c] = Begun(k), !.queue = q]
    BY <1>3, <2>1, <2>2, <2>3 DEF StepEnters
  <2>5. ASSUME c \in DOMAIN agent.known
        PROVE  k.module = agent.known[c].module /\ Begun(k).module = agent.known[c].module
    <3>1. agent.known[c] \in Known
      BY <1>0, <2>5 DEF AgentOK
    <3>2. k = [module |-> agent.known[c].module, last |-> agent.known[c].last,
               next |-> agent.known[c].next, active |-> agent.known[c].active,
               owner |-> t, depth |-> d]
      BY <2>2, <3>1 DEF Known
    <3> QED BY <3>2 DEF Begun
  <2>6. ASSUME agent' = [agent EXCEPT !.known[c] = k] PROVE KnownKept
    BY <1>0, <2>5, <2>6, OneEntryKept, Zenon
  <2>7. ASSUME agent' = [agent EXCEPT !.known[c] = Begun(k), !.queue = q] PROVE KnownKept
    <3>1. Rewrites(c, Begun(k), q)
      BY <2>5, <2>7 DEF Rewrites
    <3> QED BY <1>0, <3>1, EntryKept, Zenon
  <2>8. KnownKept
    BY <2>4, <2>6, <2>7
  <2> QED BY <1>3, <2>8 DEF Kept, KnownKept, StepEnters, Quiet
<1>4. ASSUME NEW p \in Pointers, NEW op \in HookNames, Enters(t, op, p) PROVE Kept
  <2>1. agent' = agent /\ told' = told /\ app' = app
    BY <1>4 DEF Enters, Quiet
  <2> QED BY <1>0, <2>1, AgentKept DEF Kept, KnownKept
<1>5. ASSUME NEW w \in 0..setting.work, NEW more \in BOOLEAN, StepReturns(t, w, more) PROVE Kept
  <2>1. app'.used = app.used
    BY <1>0, <1>5 DEF StepReturns, AppOK
  <2>2. CASE Top(t).ctx = Null
    <3>1. agent' = agent /\ told' = told
      BY <1>5, <2>2 DEF StepReturns, Quiet
    <3> QED BY <1>0, <2>1, <3>1, AgentKept DEF Kept, KnownKept
  <2>3. CASE Top(t).ctx # Null
    <3>1. PICK c, d : c = Top(t).ctx /\ d = agent.known[c].depth - 1
      OBVIOUS
    <3>2. PICK k : k = [agent.known[c] EXCEPT !.depth = d]
      OBVIOUS
    <3>3. agent' = [agent EXCEPT !.known[c].depth = d] /\ told' = [told EXCEPT !.lossy = @ \/ d > 0]
      BY <1>5, <2>3, <3>1 DEF StepReturns, Say
    <3>4. agent' = [agent EXCEPT !.known[c] = k]
      BY <3>2, <3>3
    <3>5. c \in DOMAIN agent.known => k.module = agent.known[c].module
      BY <1>0, <3>2, ModuleKept
    <3>6. KnownKept
      BY <1>0, <3>4, <3>5, OneEntryKept
    <3>7. told'.status = told.status /\ told'.fatal = told.fatal
      BY <1>0, <3>3 DEF ToldOK, Telling
    <3> QED BY <2>1, <3>6, <3>7 DEF Kept, KnownKept
  <2> QED BY <2>2, <2>3
<1>6. ASSUME StepBegins(t) \/ HookEnds(t) PROVE Kept
  <2>1. agent'.known = agent.known /\ agent'.partial = agent.partial
        /\ agent'.broken = agent.broken /\ told' = told /\ app' = app
    BY <1>0, <1>6 DEF StepBegins, HookEnds, AgentOK
  <2> QED BY <1>0, <2>1, AgentKept DEF Kept, KnownKept
<1>7. ASSUME StepFinishes(t) PROVE Kept
  <2>1. PICK f, c, v, r : f = Top(t) /\ c = f.ctx /\ v = f.value /\ r = Metrics(c, v)
    OBVIOUS
  <2>2. PICK k : k = [agent.known[c] EXCEPT !.last = v]
    OBVIOUS
  <2>3. agent' = Finished(f, k, r) \/ agent' = [agent EXCEPT !.known[c] = k]
    BY <1>7, <2>1, <2>2 DEF StepFinishes
  <2>4. c \in DOMAIN agent.known => k.module = agent.known[c].module
    BY <1>0, <2>2, ModuleKept
  <2>5. KnownKept
    <3>1. k = [agent.known[f.ctx] EXCEPT !.last = v]
      BY <2>1, <2>2
    <3>2. agent' = Finished(f, k, r) => KnownKept
      BY <1>0, <3>1, FinishedKept, Zenon
    <3>3. agent' = [agent EXCEPT !.known[c] = k] => KnownKept
      BY <1>0, <2>4, OneEntryKept, Zenon
    <3> QED BY <2>3, <3>2, <3>3
  <2>6. told'.status = told.status /\ told'.fatal = told.fatal /\ app' = app
    BY <1>0, <1>7 DEF StepFinishes, ToldOK, Telling, Say
  <2> QED BY <2>5, <2>6 DEF Kept, KnownKept
<1>8. ASSUME Measures(t) PROVE Kept
  <2>1. PICK c, v : c = Top(t).ctx /\ v = Top(t).value
    OBVIOUS
  <2>2. PICK k : k = [agent.known[c] EXCEPT !.last = v]
    OBVIOUS
  <2>3. agent' = [agent EXCEPT !.known[c].last = v]
    BY <1>8, <2>1 DEF Measures
  <2>4. agent' = [agent EXCEPT !.known[c] = k]
    BY <2>2, <2>3
  <2>5. c \in DOMAIN agent.known => k.module = agent.known[c].module
    BY <1>0, <2>2, ModuleKept
  <2>6. KnownKept
    BY <1>0, <2>4, <2>5, OneEntryKept
  <2>7. told'.status = told.status /\ told'.fatal = told.fatal /\ app' = app
    BY <1>0, <1>8 DEF Measures, ToldOK, Telling, Say
  <2> QED BY <2>6, <2>7 DEF Kept, KnownKept
<1>9. ASSUME ResetReturns(t) PROVE Kept
  <2>1. PICK f, k, r : f = Top(t) /\ k = agent.known[f.ctx] /\ r = f.value
    OBVIOUS
  <2>2. agent' = Finished(f, k, r) \/ agent' = agent
    BY <1>9, <2>1 DEF ResetReturns
  <2>3. KnownKept
    BY <1>0, <2>1, <2>2, AgentKept, FinishedKept
  <2>4. told' = told /\ app'.used = app.used
    BY <1>0, <1>9 DEF ResetReturns, AppOK, Quiet
  <2> QED BY <2>3, <2>4 DEF Kept, KnownKept
<1>10. ASSUME FinalizeReturns(t) PROVE Kept
  <2>1. agent' = agent /\ told' = told /\ app'.used = app.used
    BY <1>0, <1>10 DEF FinalizeReturns, AppOK, Quiet
  <2> QED BY <1>0, <2>1, AgentKept DEF Kept, KnownKept
<1>11. ASSUME FinalizeFinishes(t) PROVE Kept
  <2>1. PICK f, k, r : f = Top(t) /\ k = agent.known[f.ctx] /\ r = f.value
    OBVIOUS
  <2>2. agent' = Finished(f, k, r) /\ told' = told /\ app' = app
    BY <1>11, <2>1 DEF FinalizeFinishes, Quiet
  <2>3. KnownKept
    BY <1>0, <2>1, <2>2, FinishedKept
  <2> QED BY <2>2, <2>3 DEF Kept, KnownKept
<1>12. ASSUME FinalizeEnds(t) PROVE Kept
  <2>1. PICK q : agent' = [Removed(Top(t).ptr) EXCEPT !.queue = q]
    BY <1>12 DEF FinalizeEnds
  <2>2. agent'.known = agent.known /\ agent'.partial = agent.partial /\ agent'.broken = agent.broken
    BY <1>0, <2>1 DEF Removed, AgentOK
  <2>3. told' = told /\ app' = app
    BY <1>12 DEF FinalizeEnds
  <2> QED BY <1>0, <2>2, <2>3, AgentKept DEF Kept, KnownKept
<1>13. ASSUME Refused(t) PROVE Kept
  <2>1. PICK f : Refusal(t, f)
    BY <1>13, RefusedDoes
  <2>2. /\ agent'.known = agent.known /\ agent'.partial = agent.partial /\ agent'.broken /\ app' = app
        /\ told' = [told EXCEPT !.lossy = TRUE, !.fatal = TRUE]
    BY <2>1 DEF Refusal
  <2>3. told'.status = told.status /\ told'.fatal
    BY <1>0, <2>2 DEF ToldOK, Telling
  <2> QED BY <2>2, <2>3 DEF Kept, TableKept
<1>14. \/ \E p \in Pointers :
             \/ \E m \in Modules : Prepare(t, p, m)
             \/ \E op \in HookNames : Unobserved(t, op, p) \/ Conflicts(t, op, p) \/ Enters(t, op, p)
             \/ StepEnters(t, p)
       \/ \E w \in 0..setting.work, more \in BOOLEAN : StepReturns(t, w, more)
       \/ StepBegins(t) \/ StepFinishes(t) \/ HookEnds(t) \/ Measures(t) \/ ResetReturns(t)
       \/ FinalizeReturns(t) \/ FinalizeFinishes(t) \/ FinalizeEnds(t) \/ Refused(t)
  BY DEF Hook, HookNames
<1> QED BY <1>1, <1>2, <1>3, <1>4, <1>5, <1>6, <1>7, <1>8, <1>9, <1>10, <1>11, <1>12, <1>13, <1>14

\* A preparation is latched before it is known of, and the status says so.
LEMMA PrepareDoctor ==
    ASSUME Shape, DoctorInv, ~app.exited, NEW t \in Threads, NEW p \in Pointers, NEW m \in Modules,
           Prepare(t, p, m)
    PROVE  DoctorInv'
<1>0. AgentOK /\ ToldOK /\ AppOK
  BY DEF Shape
<1>1. app'.used = app.used \cup {m}
  BY <1>0 DEF Prepare, AppOK
<1>2. CASE "prepare" \notin Hooked[m]
  <2>1. agent' = agent /\ told' = told
    BY <1>2 DEF Prepare, Quiet
  <2> QED BY <1>1, <1>2, <2>1 DEF DoctorInv, Complete
<1>3. CASE "prepare" \in Hooked[m]
  <2>1. PICK life, k : /\ life = app.lives + 1
                       /\ k = [module |-> m, last |-> IF m \in Readable THEN 0 ELSE Null,
                               next |-> 0, active |-> Null, owner |-> Null, depth |-> 0]
    OBVIOUS
  <2>2. agent' = Prepared(p, m, life)
    BY <1>3, <2>1 DEF Prepare
  <2>3. agent'.known = Put(agent.known, life, k) /\ agent'.partial = (agent.partial \/ ~Complete(m))
        /\ agent'.broken = agent.broken
    BY <1>0, <2>1, <2>2 DEF Prepared, AgentOK
  <2>4. /\ ~agent.broken => told'.status = CurrentStatus(app.loaded, agent')
        /\ told'.fatal = told.fatal
    BY <1>0, <1>3 DEF Prepare, ToldOK, Telling, Say
  <2>5. \A c \in DOMAIN agent'.known : agent'.known[c].module \in app'.used
    BY <1>1, <2>1, <2>3 DEF Put, DoctorInv
  <2>6. \A x \in app'.used : "prepare" \in Hooked[x] /\ ~Complete(x) => agent'.partial
    BY <1>0, <1>1, <2>3 DEF DoctorInv
  <2>7. (agent'.broken /\ told'.fatal) \/ (~agent'.broken /\ (agent'.partial => told'.status = "PARTIAL"))
    <3>1. agent.broken => told.fatal
      BY DEF DoctorInv
    <3>2. ~agent'.broken /\ agent'.partial => CurrentStatus(app.loaded, agent') = "PARTIAL"
      BY DEF CurrentStatus
    <3> QED BY <2>3, <2>4, <3>1, <3>2
  <2> QED BY <2>5, <2>6, <2>7 DEF DoctorInv, Complete
<1> QED BY <1>2, <1>3

\* A status is told anew.
StatusDoctor(mods) == told'.status = CurrentStatus(mods, agent) /\ (told.fatal => told'.fatal)
LEMMA StatusKeepsDoctor ==
    ASSUME DoctorInv, ~app.exited, NEW mods, StatusDoctor(mods), app'.used = app.used,
           agent'.known = agent.known, agent'.partial = agent.partial, agent'.broken = agent.broken
    PROVE  DoctorInv'
<1>1. agent.broken => told'.fatal
  BY DEF DoctorInv, StatusDoctor
<1>2. ~agent.broken /\ agent.partial => told'.status = "PARTIAL"
  BY DEF StatusDoctor, CurrentStatus
<1> QED BY <1>1, <1>2 DEF DoctorInv, Complete

LEMMA NextDoctor == Inv /\ DoctorInv /\ [Next]_vars => DoctorInv'
<1> SUFFICES ASSUME Inv, DoctorInv, [Next]_vars PROVE DoctorInv'
  OBVIOUS
<1>1. Shape /\ AgentOK /\ ToldOK /\ AppOK
  BY DEF Inv, Shape
<1>2. CASE HooksNext
  <2>0. ~app.exited
    BY <1>2 DEF HooksNext
  <2>1. ASSUME NEW t \in setting.threads, Hook(t) PROVE DoctorInv'
    <3>1. t \in Threads
      BY <1>1, <2>1, Bounds DEF AppOK
    <3> QED BY <1>1, <2>0, <2>1, <3>1, HookKept, KeptDoctor, PrepareDoctor
  <2>2. ASSUME NEW m \in Modules, Unload(m) PROVE DoctorInv'
    <3>1. /\ agent'.known = agent.known /\ agent'.partial = agent.partial
          /\ agent'.broken = agent.broken
      BY <1>1, <2>2, Zenon DEF Unload, AgentOK
    <3>2. app'.used = app.used
      BY <1>1, <2>2, Zenon DEF Unload, AppOK
    <3>3. told'.status = CurrentStatus(app'.loaded, agent) /\ (told.fatal => told'.fatal)
      BY <2>2, Zenon DEF Unload, Say
    <3>4. StatusDoctor(app'.loaded)
      BY <3>3 DEF StatusDoctor
    <3> QED BY <2>0, <3>1, <3>2, <3>4, StatusKeepsDoctor
  <2>3. ASSUME NEW m \in Modules, Load(m) PROVE DoctorInv'
    <3>1. agent' = agent /\ app'.used = app.used
      BY <1>1, <2>3 DEF Load, AppOK
    <3>2. told'.status = CurrentStatus(app'.loaded, agent) /\ told'.fatal = told.fatal
      BY <1>1, <2>3 DEF Load, Say, ToldOK, Telling
    <3>3. StatusDoctor(app'.loaded)
      BY <3>2 DEF StatusDoctor
    <3> QED BY <2>0, <3>1, <3>3, StatusKeepsDoctor
  <2>4. ASSUME NEW n \in 0..Len(agent.queue),
               NEW heard \in {told} \cup {e.told : e \in {d \in unheard : n <= d.at}}, Exit(n, heard)
        PROVE  DoctorInv'
    <3>1. /\ agent'.known = agent.known /\ agent'.partial = agent.partial
          /\ agent'.broken = agent.broken /\ app'.exited
      BY <1>1, <2>4 DEF Exit, AgentOK, AppOK
    <3>2. app'.used = app.used
      BY <1>1, <2>4 DEF Exit, AppOK
    <3>3. told' = told \/ ~Heard'
      BY <2>4 DEF Exit, Heard
    <3> QED BY <2>0, <3>1, <3>2, <3>3 DEF DoctorInv, Complete
  <2> QED BY <1>2, <2>1, <2>2, <2>3, <2>4 DEF HooksNext
<1>3. CASE Consume \/ Finish \/ UNCHANGED vars
  <2>1. agent' = agent /\ told' = told /\ unheard' = unheard /\ app' = app
    BY <1>3 DEF Consume, Finish, vars, hookVars
  <2> QED BY <2>1 DEF DoctorInv, Complete, Heard
<1> QED BY <1>2, <1>3 DEF Next

\* "check" succeeds only when every module with a prepare hook that the application
\* prepared statements with is complete in itself, unless the process took the agent's last
\* message with it.
THEOREM DoctorIsSound == Spec => []DoctorSound
<1>1. Init => DoctorInv
  BY DEF Init, HooksInit, DoctorInv, Heard
<1>2. Inv /\ DoctorInv => DoctorSound
  <2> SUFFICES ASSUME Shape, DoctorInv, Heard, DoctorCode = 0
               PROVE  app.used # {} /\ AllComplete({m \in app.used : "prepare" \in Hooked[m]})
    BY DEF Inv, DoctorSound
  <2>1. PICK ps : ps = {agent.known[life].module : life \in Range(lifeOf)}
    OBVIOUS
  <2>2. told.status # "PARTIAL" /\ ~told.fatal /\ ps # {}
    BY <2>1 DEF DoctorCode, Verdict!DoctorCode, Verdict!DoctorStatus
  <2>3. app.used # {}
    <3>1. PICK life \in Range(lifeOf) : TRUE
      BY <2>1, <2>2
    <3>2. life \in DOMAIN agent.known
      BY <3>1 DEF Shape, Range
    <3> QED BY <3>2 DEF DoctorInv
  <2>4. AllComplete({m \in app.used : "prepare" \in Hooked[m]})
    BY <2>2 DEF DoctorInv, AllComplete
  <2> QED BY <2>3, <2>4
<1> QED BY <1>1, <1>2, NextDoctor, PipelineInvariant, PTL DEF Spec

-----------------------------------------------------------------------------
(* What the finished report says of the executions. *)

\* The runs of which the report tells the truth unless it gives a reason not to.  A transport that
\* failed is told as fatal, the message that the process took with it is told by nobody.  Steps that
\* are not hooked are missing from the report while another module makes it ACTIVE, and a
\* preparation that is not hooked may take the address of a statement whose finalize hook has not
\* returned, and its steps that one's name.
Whole == ~agent.broken /\ Observed /\ (app.exited => Heard)

\* The application's statements are of the modules that it used.
LibUsed == \A p \in Pointers : Live(p) => app.lib[p].module \in app.used \cup Range(setting.inherited)

\* What the tracker has made of the records, by statement: the executions that began, the
\* ones that were reported (told), whether a record was lost to it, and the statement that
\* it takes each pointer for (cur).
Matched(S, e) == e.ptr \in DOMAIN S.cur /\ S.cur[e.ptr].module = e.module
After(S, e) ==
    [cur   |-> IF e.type = "prepared" THEN Put(S.cur, e.ptr, [life |-> e.number, module |-> e.module])
               ELSE IF e.type = "finalized" /\ Matched(S, e) THEN Drop(S.cur, {e.ptr}) ELSE S.cur,
     begun |-> S.begun \cup IF e.type = "started" /\ Matched(S, e)
                            THEN {<<S.cur[e.ptr].life, e.number>>} ELSE {},
     told  |-> S.told \cup IF e.type = "executed" /\ Matched(S, e)
                           THEN {[life |-> S.cur[e.ptr].life, n |-> e.number, work |-> e.value]} ELSE {},
     lost  |-> \/ S.lost \/ (e.type \in {"started", "executed"} /\ ~Matched(S, e))
               \/ (e.type = "executed" /\ e.value = Null)]

\* A preparation is of a statement that no execution is of yet.
Fresh1(S, e) == e.type = "prepared" => \A b \in S.begun : b[1] # e.number

\* J: what the tracker makes of each first part of the records s.
Follows(J, s) ==
    /\ DOMAIN J = 0 .. Len(s)
    /\ \A i \in 1 .. Len(s) : J[i] = After(J[i - 1], s[i]) /\ Fresh1(J[i - 1], s[i])

Stream  == wire \o agent.queue
Last(J) == J[Len(Stream)]

\* An execution that began and is not reported, of a statement the tracker knows at no
\* pointer, never will be.
HasTold(S, b) == \E x \in S.told : x.life = b[1] /\ x.n = b[2]
Doomed(S)     == \E b \in S.begun : ~HasTold(S, b) /\ \A p \in DOMAIN S.cur : S.cur[p].life # b[1]
Clean(S)      == ~S.lost /\ ~Doomed(S)
Settled(S)    == ~S.lost /\ \A b \in S.begun : HasTold(S, b)

\* What the tracker has now.
Book(S) ==
    /\ S.begun = {<<lifeOf[b[1]], b[2]>> : b \in begun}
    /\ S.told  = {[life |-> lifeOf[x.occurrence], n |-> x.number, work |-> x.report] : x \in cited}
    /\ S.lost <=> (quality["unmatched"] > 0 \/ quality["null_metric"] > 0)
    /\ ~finished => S.cur = [p \in DOMAIN active |-> [life |-> lifeOf[active[p].occurrence],
                                                    module |-> active[p].source]]
TrackerInv ==
    /\ Len(lifeOf) = occurrences
    /\ \A p \in DOMAIN active : active[p].occurrence \in 1 .. occurrences
    /\ \A b \in begun : b[1] \in 1 .. occurrences
    /\ \A x \in cited : x.occurrence \in 1 .. occurrences
    /\ finished => app.exited /\ wire = << >>
    /\ app.exited => agent.queue = << >>

\* The agent told nobody of a loss.
Unharmed == ~told.lossy /\ ~agent.partial

\* A count that was read: no execution's work makes it wrap.
Within(v) == v # Null => v + setting.work < Wrap

Of(c, p) == Live(p) /\ app.lib[p].life = c

AppInv ==
    /\ \A p \in Pointers : Live(p) =>
          LET s == app.lib[p] IN
          /\ \/ s.life = p
             \/ s.life \in DOMAIN agent.known /\ agent.known[s.life].module = s.module /\ s.module \in app.used
          /\ p \in DOMAIN agent.contexts => s.life = agent.contexts[p]
          /\ \A x \in app.truth : x.life = s.life => x.n <= s.n /\ (Running(s) => x.n < s.n)
    /\ \A p, q \in Pointers : Live(p) /\ Live(q) /\ app.lib[p].life = app.lib[q].life => p = q
    /\ \A x \in app.truth : x.life \in 1 .. app.lives \/ x.life \in Pointers
    /\ \A x, y \in app.truth : x.life = y.life /\ x.n = y.n => x = y
    /\ agent.unknown # {} => told.lossy
    /\ \A c \in DOMAIN agent.known : Within(agent.known[c].last)

FrameFits(f) ==
    /\ InUse(f) /\ f.ctx # Null => app.lib[f.ptr].life = f.ctx
    /\ InUse(f) /\ f.ctx = Null /\ Unharmed => f.op # "step" /\ app.lib[f.ptr].life = f.ptr
    /\ f.at = "freed" /\ f.ctx # Null => \A p \in Pointers : ~Of(f.ctx, p)
    /\ f.at = "measure" => Within(f.value)
    /\ InUse(f) => f.op # "prepare"
\* No thread resets or finalizes a statement within a call on it.
Apart(s) == 1 \in DOMAIN s /\ s[1].op \in {"reset", "finalize"} =>
               \A i \in DOMAIN s : i > 1 => s[i].ptr # s[1].ptr
FrameInv == \A t \in Threads : /\ \A i \in DOMAIN frames[t] : FrameFits(frames[t][i])
                               /\ Apart(frames[t])

\* Z, what the tracker will make of every record so far, and H, the pointer of each
\* statement, agree with the agent.
AgentInv(Z, H) ==
    /\ H \in [DOMAIN agent.known -> Pointers]
    /\ \A p \in DOMAIN agent.contexts :
          p \in DOMAIN Z.cur /\ Z.cur[p] = [life   |-> agent.contexts[p],
                                            module |-> agent.known[agent.contexts[p]].module]
    /\ DOMAIN Z.cur \subseteq Pointers
    /\ \A p \in DOMAIN Z.cur : Z.cur[p].life \in DOMAIN agent.known /\ H[Z.cur[p].life] = p
    /\ \A b \in Z.begun : b[1] \in DOMAIN agent.known
    /\ \A t \in Threads : \A i \in DOMAIN frames[t] :
          frames[t][i].ctx # Null => H[frames[t][i].ctx] = frames[t][i].ptr

Stepping(f) == f.op = "step" /\ f.at \in {"enter", "inside"}
\* The hook has read the counters for the execution that is active, before the reset or
\* the finalization, or after the last step.
Metered(t, f) ==
    /\ f.ctx # Null /\ f.op # "step" /\ f.at = "inside" /\ agent.known[f.ctx].active # Null
    /\ f.op = "reset" => agent.known[f.ctx].owner = t
Ends1(f) == f.op = "step" /\ f.at = "measure"
MeteredBy(t, c) == 1 \in DOMAIN frames[t] /\ frames[t][1].ctx = c /\ Metered(t, frames[t][1])
EndedBy(t, c)   == 1 \in DOMAIN frames[t] /\ frames[t][1].ctx = c /\ Ends1(frames[t][1])

\* What a call says of its statement.
CallFits(t, f) ==
    LET k == agent.known[f.ctx]
        s == app.lib[f.ptr]
        x == [life |-> f.ctx, n |-> k.next, work |-> f.value]
    IN  /\ f.op = "step" /\ InUse(f) => k.active # Null /\ k.owner = t
        /\ Stepping(f) => k.depth >= 1
        /\ Ends1(f) => /\ k.depth = 0 /\ ~Running(s) /\ s.n = k.next
                       /\ f.value # Null => f.value = s.counter
                       /\ f.value # Null /\ k.last # Null =>
                             [x EXCEPT !.work = f.value - k.last] \in app.truth
        /\ f.op # "step" /\ f.at = "measure" =>
              /\ k.active # Null /\ Running(s)
              /\ f.op = "reset" => k.owner = t
              /\ f.value # Null => f.value = s.counter
        /\ f.op # "step" /\ f.at = "inside" /\ f.value # Null => Metered(t, f)
        /\ Metered(t, f) => /\ Running(s)
                            /\ f.value # Null => f.value = s.work
                            /\ k.last # Null => k.last = s.counter
        /\ f.at = "freed" /\ f.value # Null /\ k.active # Null => x \in app.truth

\* Where the execution of a statement stands: at rest, running, about to run, or over.
Level(c, v, w) == agent.known[c].last # Null => v = agent.known[c].last + w
Stands(c, s) ==
    LET k == agent.known[c] IN
    \/ k.active = Null /\ ~Running(s) /\ s.n = k.next /\ Level(c, s.counter, 0)
    \/ /\ k.active # Null /\ Running(s) /\ s.n = k.next
       /\ Level(c, s.counter, s.work) \/ \E t \in Threads : MeteredBy(t, c)
    \/ /\ k.active # Null /\ ~Running(s) /\ s.n = k.next - 1 /\ k.depth >= 1
       /\ Level(c, s.counter, 0)
    \/ /\ k.active # Null /\ ~Running(s) /\ s.n = k.next /\ \E t \in Threads : EndedBy(t, c)

Opened(c, Z) ==
    LET k == agent.known[c] IN
    /\ k.active # Null => /\ k.active = k.next /\ <<c, k.next>> \in Z.begun
                          /\ ~HasTold(Z, <<c, k.next>>) /\ k.owner \in Threads
    /\ \A x \in Z.told : x.life = c => x.n <= k.next
    /\ \A x \in app.truth : x.life = c => <<c, x.n>> \in Z.begun
OneStep(c) ==
    /\ agent.known[c].depth >= 0
    /\ agent.known[c].depth >= 1 => \E t \in Threads : \E i \in DOMAIN frames[t] :
                                       Stepping(frames[t][i]) /\ frames[t][i].ctx = c
    /\ agent.known[c].depth <= 1 =>
          \A t, u \in Threads : \A i \in DOMAIN frames[t], j \in DOMAIN frames[u] :
             (/\ Stepping(frames[t][i]) /\ frames[t][i].ctx = c
              /\ Stepping(frames[u][j]) /\ frames[u][j].ctx = c) => t = u /\ i = j
CallsFit(c) == \A t \in Threads : \A i \in DOMAIN frames[t] :
                  frames[t][i].ctx = c => CallFits(t, frames[t][i])
Runs(c, Z) == /\ Opened(c, Z) /\ OneStep(c) /\ CallsFit(c)
              /\ \A p \in Pointers : Of(c, p) => Stands(c, app.lib[p])

\* The executions, as long as nothing was lost.
RunInv(Z) ==
    /\ \A c \in DOMAIN agent.known : Runs(c, Z)
    /\ \A x \in app.truth : x.life \in DOMAIN agent.known
    /\ \A p \in Pointers : Live(p) /\ Running(app.lib[p]) => app.lib[p].life \in DOMAIN agent.known

\* The innermost call of t is a first step that waits for the records after w.
WaitsFor(t, w) == /\ 1 \in DOMAIN frames[t] /\ frames[t][1].op = "step" /\ frames[t][1].at = "enter"
               /\ frames[t][1].behind > w

\* No execution runs, and the ones about to run wait for the records after the first w
\* that are queued.
Still(w) ==
    /\ \A p \in Pointers : Live(p) => ~Running(app.lib[p])
    /\ \A t \in Threads : \A i \in DOMAIN frames[t] : Stepping(frames[t][i]) => frames[t][i].behind > w
    /\ \A c \in DOMAIN agent.known : agent.known[c].active # Null =>
          agent.known[c].owner \in Threads /\ WaitsFor(agent.known[c].owner, w)

\* Of a first part of the records: it tells the truth, and it ends when nothing runs
\* if it has the end of every execution in it.
PartInv(S, k) ==
    /\ Clean(S) => S.told \subseteq app.truth
    /\ k >= Len(wire) /\ Settled(S) =>
          /\ \A x \in app.truth : HasTold(S, <<x.life, x.n>>)
          /\ ~app.exited => \A w \in 0 .. k : w = k - Len(wire) => Still(w)

TruthInv(J, H) ==
    /\ TrackerInv /\ AppInv /\ FrameInv
    /\ Follows(J, Stream) /\ Book(J[0])
    /\ ~app.exited => AgentInv(Last(J), H)
    /\ ~app.exited /\ Unharmed /\ Clean(Last(J)) => RunInv(Last(J))
    /\ Unharmed => \A k \in 0 .. Len(Stream) : PartInv(J[k], k)

-----------------------------------------------------------------------------
(* The records, and what the tracker makes of them. *)

LEMMA FollowsMore ==
    ASSUME NEW J, NEW s \in Seq(Event), Follows(J, s), NEW e \in Event, Fresh1(J[Len(s)], e)
    PROVE  \E K : /\ Follows(K, Append(s, e)) /\ K[Len(s) + 1] = After(J[Len(s)], e)
                  /\ \A k \in 0 .. Len(s) : K[k] = J[k]
<1> DEFINE n == Len(s)
           r == Append(s, e)
           K == [k \in 0 .. n + 1 |-> IF k <= n THEN J[k] ELSE After(J[n], e)]
<1>1. n \in Nat /\ Len(r) = n + 1 /\ r[n + 1] = e /\ \A i \in 1 .. n : r[i] = s[i]
  OBVIOUS
<1> HIDE DEF r
<1>2. /\ DOMAIN K = 0 .. n + 1 /\ K[n + 1] = After(J[n], e) /\ \A k \in 0 .. n : K[k] = J[k]
  BY <1>1
<1> HIDE DEF K
<1>3. ASSUME NEW i \in 1 .. n + 1 PROVE K[i] = After(K[i - 1], r[i]) /\ Fresh1(K[i - 1], r[i])
  <2>1. CASE i = n + 1
    <3>1. i - 1 = n /\ n \in 0 .. n
      BY <1>1, <2>1
    <3> QED BY <1>1, <1>2, <2>1, <3>1
  <2>2. CASE i # n + 1
    <3>1. i \in 1 .. n /\ i \in 0 .. n /\ i - 1 \in 0 .. n
      BY <1>1, <2>2
    <3> QED BY <1>1, <1>2, <3>1 DEF Follows
  <2> QED BY <2>1, <2>2
<1>4. Follows(K, r)
  BY <1>1, <1>2, <1>3 DEF Follows
<1> QED BY <1>2, <1>4 DEF r

LEMMA FollowsLess ==
    ASSUME NEW J, NEW s \in Seq(Event), Follows(J, s), NEW n \in 0 .. Len(s)
    PROVE  \E K : Follows(K, SubSeq(s, 1, n)) /\ \A k \in 0 .. n : K[k] = J[k]
<1> DEFINE r == SubSeq(s, 1, n)
           K == [k \in 0 .. n |-> J[k]]
<1>1. Len(s) \in Nat /\ n \in Nat /\ n <= Len(s) /\ Len(r) = n /\ \A i \in 1 .. n : r[i] = s[i]
  OBVIOUS
<1> HIDE DEF r
<1>2. DOMAIN K = 0 .. n /\ \A k \in 0 .. n : K[k] = J[k]
  OBVIOUS
<1> HIDE DEF K
<1>3. ASSUME NEW i \in 1 .. n PROVE K[i] = After(K[i - 1], r[i]) /\ Fresh1(K[i - 1], r[i])
  <2>1. i \in 1 .. Len(s) /\ i \in 0 .. n /\ i - 1 \in 0 .. n
    BY <1>1
  <2> QED BY <1>1, <1>2, <2>1 DEF Follows
<1>4. Follows(K, r)
  BY <1>1, <1>2, <1>3 DEF Follows
<1> QED BY <1>2, <1>4 DEF r

LEMMA FollowsRest ==
    ASSUME NEW J, NEW s \in Seq(Event), Follows(J, s), s # << >>
    PROVE  \E K : /\ Follows(K, Tail(s)) /\ Len(Tail(s)) = Len(s) - 1
                  /\ \A k \in 0 .. Len(s) - 1 : K[k] = J[k + 1]
<1> DEFINE r == Tail(s)
           n == Len(s) - 1
           K == [k \in 0 .. n |-> J[k + 1]]
<1>1. n \in Nat /\ Len(s) = n + 1 /\ Len(r) = n /\ \A i \in 1 .. n : r[i] = s[i + 1]
  OBVIOUS
<1> HIDE DEF r, n
<1>2. DOMAIN K = 0 .. n /\ \A k \in 0 .. n : K[k] = J[k + 1]
  OBVIOUS
<1> HIDE DEF K
<1>3. ASSUME NEW i \in 1 .. n PROVE K[i] = After(K[i - 1], r[i]) /\ Fresh1(K[i - 1], r[i])
  <2>1. /\ i + 1 \in 1 .. Len(s) /\ i \in 0 .. n /\ i - 1 \in 0 .. n
        /\ (i - 1) + 1 = i /\ (i + 1) - 1 = i
    BY <1>1
  <2>2. J[i + 1] = After(J[i], s[i + 1]) /\ Fresh1(J[i], s[i + 1])
    <3> PICK j : j = i + 1
      OBVIOUS
    <3>1. j \in 1 .. Len(s) /\ j - 1 = i
      BY <2>1
    <3>2. J[j] = After(J[j - 1], s[j]) /\ Fresh1(J[j - 1], s[j])
      BY <3>1 DEF Follows
    <3> QED BY <3>1, <3>2
  <2>3. K[i] = J[i + 1] /\ K[i - 1] = J[(i - 1) + 1] /\ r[i] = s[i + 1]
    BY <1>1, <1>2, <2>1
  <2> QED BY <2>1, <2>2, <2>3
<1>4. Follows(K, r)
  BY <1>1, <1>2, <1>3 DEF Follows
<1> QED BY <1>1, <1>2, <1>4 DEF r, n

\* A loss is never made good.
LEMMA CleanBefore ==
    ASSUME NEW S, NEW e, Fresh1(S, e), Clean(After(S, e))
    PROVE  Clean(S)
<1> PICK A : A = After(S, e)
  OBVIOUS
<1>1. /\ A.cur = (IF e.type = "prepared" THEN Put(S.cur, e.ptr, [life |-> e.number, module |-> e.module])
                  ELSE IF e.type = "finalized" /\ Matched(S, e) THEN Drop(S.cur, {e.ptr}) ELSE S.cur)
      /\ S.begun \subseteq A.begun
      /\ A.told = S.told \cup IF e.type = "executed" /\ Matched(S, e)
                        THEN {[life |-> S.cur[e.ptr].life, n |-> e.number, work |-> e.value]} ELSE {}
      /\ S.lost => A.lost
  <2>1. A.cur = (IF e.type = "prepared" THEN Put(S.cur, e.ptr, [life |-> e.number, module |-> e.module])
                 ELSE IF e.type = "finalized" /\ Matched(S, e) THEN Drop(S.cur, {e.ptr}) ELSE S.cur)
    BY DEF After
  <2>3. A.told = S.told \cup IF e.type = "executed" /\ Matched(S, e)
                        THEN {[life |-> S.cur[e.ptr].life, n |-> e.number, work |-> e.value]} ELSE {}
    BY DEF After
  <2>2. S.begun \subseteq A.begun /\ (S.lost => A.lost)
    BY DEF After
  <2> QED BY <2>1, <2>2, <2>3
<1>2. ~A.lost /\ ~Doomed(A)
  BY DEF Clean
<1>3. ASSUME NEW b \in S.begun, ~HasTold(S, b), \A p \in DOMAIN S.cur : S.cur[p].life # b[1]
      PROVE  FALSE
  <2>1. ~HasTold(A, b)
    <3>1. ASSUME NEW x \in A.told, x.life = b[1], x.n = b[2] PROVE FALSE
      <4>1. CASE x \in S.told
        BY <1>3, <3>1, <4>1 DEF HasTold
      <4>2. CASE e.type = "executed" /\ Matched(S, e) /\ x.life = S.cur[e.ptr].life
        BY <1>3, <3>1, <4>2 DEF Matched
      <4> QED BY <1>1, <3>1, <4>1, <4>2
    <3> QED BY <3>1 DEF HasTold
  <2>2. ASSUME NEW p \in DOMAIN A.cur PROVE A.cur[p].life # b[1]
    <3>1. CASE e.type = "prepared"
      <4>1. A.cur = Put(S.cur, e.ptr, [life |-> e.number, module |-> e.module])
        BY <1>1, <3>1
      <4>2. \/ p = e.ptr /\ A.cur[p].life = e.number
            \/ p \in DOMAIN S.cur /\ A.cur[p] = S.cur[p]
        <5> PICK r : r = [life |-> e.number, module |-> e.module]
          OBVIOUS
        <5>1. A.cur = Put(S.cur, e.ptr, r) /\ r.life = e.number
          BY <4>1
        <5>2. \/ p = e.ptr /\ A.cur[p] = r
              \/ p \in DOMAIN S.cur /\ A.cur[p] = S.cur[p]
          BY <5>1 DEF Put
        <5> QED BY <5>1, <5>2
      <4> QED BY <1>3, <3>1, <4>2 DEF Fresh1
    <3>2. CASE e.type # "prepared"
      <4>1. p \in DOMAIN S.cur /\ A.cur[p] = S.cur[p]
        BY <1>1, <3>2 DEF Drop
      <4> QED BY <1>3, <4>1
    <3> QED BY <3>1, <3>2
  <2> QED BY <1>1, <1>2, <2>1, <2>2 DEF Doomed
<1>4. ~Doomed(S)
  BY <1>3 DEF Doomed
<1> QED BY <1>1, <1>2, <1>4 DEF Clean

LEMMA SettledClean ==
    ASSUME NEW S, Settled(S)
    PROVE  Clean(S)
BY DEF Settled, Clean, Doomed

\* The report of an execution counts, or the execution is lost: the tracker takes it for
\* an execution of the statement it has at the pointer.
LEMMA ExecutedCounts ==
    ASSUME NEW S, NEW e, e.type = "executed", NEW c, <<c, e.number>> \in S.begun,
           ~HasTold(S, <<c, e.number>>),
           \A p \in DOMAIN S.cur : S.cur[p].life = c => p = e.ptr,
           Clean(After(S, e))
    PROVE  /\ Clean(S) /\ e.value # Null
           /\ After(S, e).cur = S.cur /\ After(S, e).begun = S.begun
           /\ After(S, e).told = S.told \cup {[life |-> c, n |-> e.number, work |-> e.value]}
<1> PICK A : A = After(S, e)
  OBVIOUS
<1> PICK b : b = <<c, e.number>>
  OBVIOUS
<1>1. /\ A.cur = S.cur /\ A.begun = S.begun
      /\ A.told = S.told \cup IF Matched(S, e)
                        THEN {[life |-> S.cur[e.ptr].life, n |-> e.number, work |-> e.value]} ELSE {}
      /\ A.lost <=> (S.lost \/ ~Matched(S, e) \/ e.value = Null)
  <2>1. e.type # "prepared" /\ e.type # "finalized" /\ e.type # "started" /\ e.type \in {"started", "executed"}
    OBVIOUS
  <2> QED BY <2>1 DEF After
<1>2. ~A.lost /\ ~Doomed(A) /\ Matched(S, e) /\ e.value # Null /\ ~S.lost
  BY <1>1 DEF Clean
<1>3. S.cur[e.ptr].life = c
  <2> SUFFICES ASSUME S.cur[e.ptr].life # c PROVE FALSE
    OBVIOUS
  <2>1. b \in A.begun /\ b[1] = c /\ b[2] = e.number
    BY <1>1
  <2>2. ~HasTold(A, b)
    BY <1>1, <1>2, <2>1 DEF HasTold
  <2>3. \A p \in DOMAIN A.cur : A.cur[p].life # b[1]
    BY <1>1, <2>1
  <2> QED BY <1>2, <2>1, <2>2, <2>3 DEF Doomed
<1>4. Clean(S)
  <2>1. Fresh1(S, e)
    BY DEF Fresh1
  <2> QED BY <2>1, CleanBefore
<1> QED BY <1>1, <1>2, <1>3, <1>4

-----------------------------------------------------------------------------
(* How the calls move. *)

\* A call goes on as it was; of the records it waits for, n have arrived.
Alike(g, f, n) ==
    /\ g.op = f.op /\ g.ptr = f.ptr /\ g.module = f.module /\ g.ctx = f.ctx /\ g.value = f.value
    /\ g.behind = IF f.behind > n THEN f.behind - n ELSE 0
    /\ g.at = f.at \/ (Stepping(f) /\ g.at = "inside" /\ f.behind <= n)

\* The calls of t are one of G, and above low, d places further, the ones there were.
Was(t, d, u, i) == IF u = t THEN i + d ELSE i
Goes1(t, d, low, n, u, i) == LET j == Was(t, d, u, i) IN
    j \in DOMAIN frames[u] /\ (u = t => j > low) /\ Alike(frames'[u][i], frames[u][j], n)
Carry(t, d, G, low, n) ==
    /\ d \in Int /\ n \in Nat /\ \A u \in Threads : DOMAIN frames'[u] \subseteq Int
    /\ \A u \in Threads : u # t => DOMAIN frames'[u] = DOMAIN frames[u]
    /\ \A u \in Threads : \A i \in DOMAIN frames'[u] :
          \/ u = t /\ i = 1 /\ frames'[u][i] \in G
          \/ Goes1(t, d, low, n, u, i)
    /\ \A u \in Threads : \A j \in DOMAIN frames[u] : u # t \/ j > low =>
          \E i \in DOMAIN frames'[u] : Was(t, d, u, i) = j /\ Goes1(t, d, low, n, u, i)

LEMMA SelfAlike ==
    ASSUME NEW f \in Call
    PROVE  Alike(f, f, 0)
BY DEF Alike, Call

LEMMA FrameIsCall ==
    ASSUME Shape, NEW t \in Threads
    PROVE  /\ frames[t] \in Seq(Call) /\ DOMAIN frames[t] = 1 .. Len(frames[t]) /\ Len(frames[t]) \in Nat
           /\ \A i \in DOMAIN frames[t] : /\ frames[t][i] \in Call
                                          /\ FrameOK(frames[t][i], DOMAIN agent.known, Len(agent.queue))
                                          /\ i > 1 => frames[t][i].op = "step" /\ frames[t][i].at = "inside"
BY DEF Shape, FramesOK, FrameOK

LEMMA IntDomain ==
    ASSUME Shape
    PROVE  \A u \in Threads : DOMAIN frames[u] \subseteq Int
<1> SUFFICES ASSUME NEW u \in Threads PROVE DOMAIN frames[u] \subseteq Int
  OBVIOUS
<1>1. DOMAIN frames[u] = 1 .. Len(frames[u]) /\ Len(frames[u]) \in Nat
  BY FrameIsCall
<1> QED BY <1>1

\* The calls of the other threads stay.
Shifts(t, s, d, G, low) ==
    /\ \A i \in DOMAIN s : \/ i = 1 /\ s[i] \in G
                           \/ i + d \in DOMAIN frames[t] /\ i + d > low /\ s[i] = frames[t][i + d]
    /\ \A j \in DOMAIN frames[t] : j > low => j - d \in DOMAIN s /\ s[j - d] = frames[t][j]
LEMMA CarryOne ==
    ASSUME Shape, Shape', NEW t \in Threads, NEW s, frames' = [frames EXCEPT ![t] = s],
           NEW d \in Int, NEW low, NEW G, Shifts(t, s, d, G, low)
    PROVE  Carry(t, d, G, low, 0) /\ frames'[t] = s
<1>1. frames'[t] = s /\ \A u \in Threads : u # t => frames'[u] = frames[u]
  BY DEF Shape, FramesOK
<1>2. \A u \in Threads : DOMAIN frames'[u] \subseteq Int /\ DOMAIN frames[u] \subseteq Int
  BY IntDomain, FrameIsCall, <1>1 DEF Shape, FramesOK
<1>3. \A u \in Threads : \A j \in DOMAIN frames[u] : Alike(frames[u][j], frames[u][j], 0)
  BY FrameIsCall, SelfAlike
<1>4. ASSUME NEW u \in Threads, NEW i \in DOMAIN frames'[u]
      PROVE  \/ u = t /\ i = 1 /\ frames'[u][i] \in G
             \/ Goes1(t, d, low, 0, u, i)
  <2>1. CASE u = t
    <3>1. CASE i = 1 /\ s[i] \in G
      BY <1>1, <2>1, <3>1
    <3>2. CASE i + d \in DOMAIN frames[t] /\ i + d > low /\ s[i] = frames[t][i + d]
      <4> PICK j : j = i + d
        OBVIOUS
      <4>1. Was(t, d, u, i) = j
        BY <2>1 DEF Was
      <4>2. j \in DOMAIN frames[u] /\ j > low /\ Alike(frames'[u][i], frames[u][j], 0)
        BY <1>1, <1>3, <2>1, <3>2
      <4> QED BY <4>1, <4>2 DEF Goes1
    <3> QED BY <1>1, <1>4, <2>1, <3>1, <3>2 DEF Shifts
  <2>2. CASE u # t
    <3>1. Was(t, d, u, i) = i
      BY <2>2 DEF Was
    <3>2. i \in DOMAIN frames[u] /\ Alike(frames'[u][i], frames[u][i], 0)
      BY <1>1, <1>3, <1>4, <2>2
    <3> QED BY <2>2, <3>1, <3>2 DEF Goes1
  <2> QED BY <2>1, <2>2
<1>5. ASSUME NEW u \in Threads, NEW j \in DOMAIN frames[u], u # t \/ j > low
      PROVE  \E i \in DOMAIN frames'[u] : Was(t, d, u, i) = j /\ Goes1(t, d, low, 0, u, i)
  <2>0. j \in Int
    BY <1>2
  <2>1. CASE u = t
    <3> PICK i : i = j - d
      OBVIOUS
    <3>1. i \in DOMAIN s /\ s[i] = frames[t][j] /\ i + d = j
      BY <1>5, <2>0, <2>1 DEF Shifts
    <3>2. Was(t, d, u, i) = j
      BY <2>1, <3>1 DEF Was
    <3>3. Goes1(t, d, low, 0, u, i)
      BY <1>1, <1>3, <1>5, <2>1, <3>1, <3>2 DEF Goes1
    <3> QED BY <1>1, <2>1, <3>1, <3>2, <3>3
  <2>2. CASE u # t
    <3>1. Was(t, d, u, j) = j
      BY <2>2 DEF Was
    <3>2. j \in DOMAIN frames'[u] /\ Goes1(t, d, low, 0, u, j)
      BY <1>1, <1>3, <2>2, <3>1 DEF Goes1
    <3> QED BY <3>1, <3>2
  <2> QED BY <2>1, <2>2
<1> QED BY <1>1, <1>2, <1>4, <1>5 DEF Carry

LEMMA AfterEnter ==
    ASSUME NEW s \in Seq(Call), NEW g \in Call
    PROVE  /\ 1 \in DOMAIN (<<g>> \o s) /\ (<<g>> \o s)[1] = g
           /\ \A i \in DOMAIN (<<g>> \o s) :
                 \/ i = 1 /\ (<<g>> \o s)[i] = g
                 \/ i + (-1) \in DOMAIN s /\ i + (-1) > 0 /\ (<<g>> \o s)[i] = s[i + (-1)]
           /\ \A j \in DOMAIN s : j + 1 \in DOMAIN (<<g>> \o s) /\ (<<g>> \o s)[j + 1] = s[j]
<1>1. <<g>> \in Seq(Call) /\ Len(<<g>>) = 1 /\ <<g>>[1] = g
  OBVIOUS
<1>2. /\ Len(<<g>> \o s) = 1 + Len(s) /\ Len(s) \in Nat /\ <<g>> \o s \in Seq(Call)
      /\ \A i \in 1 .. 1 + Len(s) : (<<g>> \o s)[i] = IF i <= 1 THEN <<g>>[i] ELSE s[i - 1]
  BY <1>1, ConcatProperties
<1>3. DOMAIN (<<g>> \o s) = 1 .. 1 + Len(s) /\ DOMAIN s = 1 .. Len(s)
  BY <1>2
<1>4. \A i \in 1 .. 1 + Len(s) : \/ i = 1
                                 \/ i + (-1) \in 1 .. Len(s) /\ ~(i <= 1) /\ i - 1 = i + (-1) /\ i + (-1) > 0
  BY <1>2
<1>5. 1 \in 1 .. 1 + Len(s)
  BY <1>2
<1>6. \A j \in 1 .. Len(s) : j + 1 \in 1 .. 1 + Len(s) /\ ~(j + 1 <= 1) /\ (j + 1) - 1 = j
  BY <1>2
<1>7. \A j \in DOMAIN s : j + 1 \in DOMAIN (<<g>> \o s) /\ (<<g>> \o s)[j + 1] = s[j]
  BY <1>1, <1>2, <1>3, <1>6
<1> QED BY <1>1, <1>2, <1>3, <1>4, <1>5, <1>7

LEMMA EnterCarry ==
    ASSUME Shape, Shape', NEW t \in Threads, NEW g \in Call, Enter(t, g)
    PROVE  /\ Carry(t, -1, {g}, 0, 0) /\ frames'[t] # << >> /\ frames'[t][1] = g /\ 1 \in DOMAIN frames'[t]
           /\ \A i \in DOMAIN frames'[t] : i > 1 => \E j \in DOMAIN frames[t] : frames'[t][i] = frames[t][j]
<1> PICK s : s = frames[t]
  OBVIOUS
<1>1. s \in Seq(Call) /\ frames' = [frames EXCEPT ![t] = <<g>> \o s]
  BY FrameIsCall DEF Enter, Shape, FramesOK
<1> PICK r : r = <<g>> \o s
  OBVIOUS
<1>2. /\ 1 \in DOMAIN r /\ r[1] = g
      /\ \A i \in DOMAIN r : \/ i = 1 /\ r[i] = g
                             \/ i + (-1) \in DOMAIN s /\ i + (-1) > 0 /\ r[i] = s[i + (-1)]
      /\ \A j \in DOMAIN s : j + 1 \in DOMAIN r /\ r[j + 1] = s[j]
  BY <1>1, AfterEnter
<1> PICK d \in Int : d = -1
  OBVIOUS
<1>3. Shifts(t, r, d, {g}, 0)
  <2>1. DOMAIN s \subseteq Int
    BY IntDomain
  <2>2. \A j \in DOMAIN s : j - d = j + 1
    BY <2>1
  <2> QED BY <1>2, <2>2 DEF Shifts
<1>4. frames' = [frames EXCEPT ![t] = r]
  BY <1>1
<1>5. Carry(t, d, {g}, 0, 0) /\ frames'[t] = r
  BY <1>3, <1>4, CarryOne
<1>6. r # << >>
  BY <1>2
<1> QED BY <1>2, <1>5, <1>6

LEMMA MoveCarry ==
    ASSUME Shape, Shape', NEW t \in Threads, frames[t] # << >>, NEW g \in Call, Move(t, g)
    PROVE  /\ Carry(t, 0, {g}, 1, 0) /\ frames'[t] # << >> /\ frames'[t][1] = g /\ 1 \in DOMAIN frames'[t]
           /\ \A i \in DOMAIN frames'[t] : i > 1 => i \in DOMAIN frames[t] /\ frames'[t][i] = frames[t][i]
<1> PICK s : s = frames[t]
  OBVIOUS
<1>1. s \in Seq(Call) /\ frames' = [frames EXCEPT ![t] = <<g>> \o Tail(s)] /\ s # << >>
  BY FrameIsCall DEF Move, Shape, FramesOK
<1> PICK r : r = <<g>> \o Tail(s)
  OBVIOUS
<1>2. \A i \in DOMAIN r : \/ i = 1 /\ r[i] = g
                          \/ i # 1 /\ i \in DOMAIN s /\ r[i] = s[i]
  BY <1>1, AfterTail
<1>3. 1 \in DOMAIN r
  <2>1. Tail(s) \in Seq(Call)
    BY <1>1
  <2> QED BY <2>1, AfterEnter
<1>4. DOMAIN s \subseteq Nat \ {0}
  BY <1>1
<1>5. Shifts(t, r, 0, {g}, 1)
  <2>1. \A j \in DOMAIN s : j > 1 => j \in DOMAIN r /\ r[j] = s[j]
    <3>1. \A i \in DOMAIN Tail(s) : i + 1 \in DOMAIN r /\ r[i + 1] = Tail(s)[i]
      <4>1. Tail(s) \in Seq(Call)
        BY <1>1
      <4> QED BY <4>1, AfterEnter
    <3>2. \A j \in DOMAIN s : j > 1 => j - 1 \in DOMAIN Tail(s) /\ (j - 1) + 1 = j /\ Tail(s)[j - 1] = s[j]
      BY <1>1
    <3> QED BY <3>1, <3>2
  <2> QED BY <1>2, <1>4, <2>1 DEF Shifts
<1>6. frames' = [frames EXCEPT ![t] = r]
  BY <1>1
<1>7. Carry(t, 0, {g}, 1, 0) /\ frames'[t] = r
  <2>1. 0 \in Int
    OBVIOUS
  <2> QED BY <1>5, <1>6, <2>1, CarryOne, Zenon
<1>8. r # << >> /\ r[1] = g
  BY <1>2, <1>3
<1>9. \A i \in DOMAIN r : i > 1 => i \in DOMAIN s /\ r[i] = s[i]
  BY <1>2
<1> QED BY <1>3, <1>7, <1>8, <1>9

LEMMA LeaveCarry ==
    ASSUME Shape, Shape', NEW t \in Threads, frames[t] # << >>, Leave(t)
    PROVE  /\ Carry(t, 1, {}, 1, 0)
           /\ \A i \in DOMAIN frames'[t] : frames'[t][i].op = "step" /\ frames'[t][i].at = "inside"
<1> PICK s : s = frames[t]
  OBVIOUS
<1>1. s \in Seq(Call) /\ frames' = [frames EXCEPT ![t] = Tail(s)] /\ s # << >>
  BY FrameIsCall DEF Leave, Shape, FramesOK
<1> PICK r : r = Tail(s)
  OBVIOUS
<1>2. \A i \in DOMAIN r : i + 1 \in DOMAIN s /\ i + 1 > 1 /\ r[i] = s[i + 1]
  BY <1>1
<1>3. frames' = [frames EXCEPT ![t] = r]
  BY <1>1
<1>4. Shifts(t, r, 1, {}, 1)
  <2>1. \A j \in DOMAIN s : j > 1 => j - 1 \in DOMAIN r /\ r[j - 1] = s[j]
    BY <1>1
  <2> QED BY <1>2, <2>1 DEF Shifts
<1>5. Carry(t, 1, {}, 1, 0) /\ frames'[t] = r
  <2>1. 1 \in Int
    OBVIOUS
  <2> QED BY <1>3, <1>4, <2>1, CarryOne, Zenon
<1>6. \A i \in DOMAIN frames[t] : i > 1 => frames[t][i].op = "step" /\ frames[t][i].at = "inside"
  BY FrameIsCall
<1> QED BY <1>2, <1>5, <1>6

LEMMA SameCarry ==
    ASSUME Shape, Shape', frames' = frames, NEW t \in Threads
    PROVE  Carry(t, 0, {}, 0, 0)
<1> PICK s : s = frames[t]
  OBVIOUS
<1>1. frames' = [frames EXCEPT ![t] = s]
  BY DEF Shape, FramesOK
<1>2. DOMAIN s \subseteq Nat \ {0}
  <2>1. s \in Seq(Call)
    BY FrameIsCall
  <2> QED BY <2>1
<1>3. Shifts(t, s, 0, {}, 0)
  BY <1>2 DEF Shifts
<1>4. 0 \in Int
  OBVIOUS
<1> QED BY <1>1, <1>3, <1>4, CarryOne, Zenon

\* What the calls of the other threads wait for comes nearer.
ShiftsOn(t, s, d, low, n) ==
    /\ \A i \in DOMAIN s : i + d \in DOMAIN frames[t] /\ i + d > low /\ Alike(s[i], frames[t][i + d], n)
    /\ \A j \in DOMAIN frames[t] : j > low => j - d \in DOMAIN s /\ (j - d) + d = j
LEMMA CarryOn ==
    ASSUME Shape, Shape', NEW t \in Threads, frames[t] # << >>,
           NEW fs, StackOK(fs, DOMAIN agent.known, 0), GoOn(t, fs),
           NEW d \in Int, NEW low, NEW n, n = Top(t).behind, ShiftsOn(t, fs, d, low, n)
    PROVE  Carry(t, d, {}, low, n) /\ frames'[t] = fs
<1>1. /\ n \in Nat /\ frames'[t] = fs
      /\ \A u \in Threads : u # t =>
                 /\ DOMAIN frames'[u] = DOMAIN frames[u]
                 /\ \A i \in DOMAIN frames[u] : frames'[u][i] =
                       [frames[u][i] EXCEPT !.behind = IF frames[u][i].behind > n
                                                       THEN frames[u][i].behind - n ELSE 0]
  BY WaitEnds, TopOK
<1>2. \A u \in Threads : DOMAIN frames'[u] \subseteq Int
  <2>1. ASSUME NEW u \in Threads PROVE DOMAIN frames'[u] \subseteq Int
    <3>1. frames'[u] \in Seq(Call)
      BY DEF Shape, FramesOK
    <3> QED BY <3>1
  <2> QED BY <2>1
<1>3. ASSUME NEW f \in Call, NEW b, NEW g, g = [f EXCEPT !.behind = b], b = IF f.behind > n THEN f.behind - n ELSE 0
      PROVE  Alike(g, f, n)
  BY <1>3 DEF Alike, Call
<1>4. ASSUME NEW u \in Threads, u # t, NEW i \in DOMAIN frames'[u] PROVE Goes1(t, d, low, n, u, i)
  <2>1. i \in DOMAIN frames[u]
    BY <1>1, <1>4
  <2> PICK f, b : f = frames[u][i] /\ b = IF f.behind > n THEN f.behind - n ELSE 0
    OBVIOUS
  <2> PICK g : g = frames'[u][i]
    OBVIOUS
  <2>2. f \in Call
    BY <2>1, FrameIsCall
  <2>3. g = [f EXCEPT !.behind = b]
    BY <1>1, <1>4, <2>1
  <2>4. Alike(g, f, n)
    BY <1>3, <2>2, <2>3, Zenon
  <2>5. Was(t, d, u, i) = i
    BY <1>4 DEF Was
  <2> QED BY <1>4, <2>1, <2>4, <2>5 DEF Goes1
<1>5. ASSUME NEW i \in DOMAIN frames'[t] PROVE Goes1(t, d, low, n, t, i)
  <2> PICK j : j = i + d
    OBVIOUS
  <2>1. Was(t, d, t, i) = j
    BY DEF Was
  <2>2. j \in DOMAIN frames[t] /\ j > low /\ Alike(fs[i], frames[t][j], n)
    BY <1>1 DEF ShiftsOn
  <2> QED BY <1>1, <2>1, <2>2 DEF Goes1
<1>6. \A u \in Threads : \A i \in DOMAIN frames'[u] : Goes1(t, d, low, n, u, i)
  BY <1>4, <1>5
<1>7. ASSUME NEW u \in Threads, NEW j \in DOMAIN frames[u], u # t \/ j > low
      PROVE  \E i \in DOMAIN frames'[u] : Was(t, d, u, i) = j /\ Goes1(t, d, low, n, u, i)
  <2>1. CASE u = t
    <3> PICK i : i = j - d
      OBVIOUS
    <3>1. i \in DOMAIN fs /\ i + d = j
      BY <1>7, <2>1 DEF ShiftsOn
    <3>2. Was(t, d, u, i) = j
      BY <2>1, <3>1 DEF Was
    <3> QED BY <1>1, <1>5, <2>1, <3>1, <3>2
  <2>2. CASE u # t
    <3>1. Was(t, d, u, j) = j
      BY <2>2 DEF Was
    <3>2. j \in DOMAIN frames'[u]
      BY <1>1, <2>2
    <3> QED BY <1>4, <2>2, <3>1, <3>2
  <2> QED BY <2>1, <2>2
<1> QED BY <1>1, <1>2, <1>6, <1>7 DEF Carry

LEMMA InsideAlike ==
    ASSUME NEW f \in Call, NEW n \in Nat, f.behind = 0
    PROVE  Alike(f, f, n)
BY DEF Alike, Call

LEMMA PopCarry ==
    ASSUME Shape, Shape', NEW t \in Threads, frames[t] # << >>, GoOn(t, Tail(frames[t])),
           NEW n, n = Top(t).behind
    PROVE  /\ Carry(t, 1, {}, 1, n)
           /\ \A i \in DOMAIN frames'[t] : frames'[t][i].op = "step" /\ frames'[t][i].at = "inside"
<1> PICK s : s = frames[t]
  OBVIOUS
<1> PICK r : r = Tail(s)
  OBVIOUS
<1>1. /\ s \in Seq(Call) /\ s # << >> /\ n \in Nat /\ GoOn(t, r) /\ StackOK(r, DOMAIN agent.known, 0)
      /\ \A i \in DOMAIN r : r[i].op = "step" /\ r[i].at = "inside"
  BY FrameIsCall, TopOK
<1>2. \A i \in DOMAIN r : i + 1 \in DOMAIN s /\ i + 1 > 1 /\ r[i] = s[i + 1]
  BY <1>1
<1>3. \A i \in DOMAIN r : r[i] \in Call /\ r[i].behind = 0
  BY <1>1 DEF StackOK, FrameOK
<1>4. ShiftsOn(t, r, 1, 1, n)
  <2>1. \A j \in DOMAIN s : j > 1 => j - 1 \in DOMAIN r /\ (j - 1) + 1 = j
    BY <1>1
  <2> QED BY <1>1, <1>2, <1>3, <2>1, InsideAlike DEF ShiftsOn
<1>5. 1 \in Int
  OBVIOUS
<1>6. Carry(t, 1, {}, 1, n) /\ frames'[t] = r
  BY <1>1, <1>4, <1>5, CarryOn, Zenon
<1> QED BY <1>1, <1>6

LEMMA BeginsCarry ==
    ASSUME Shape, Shape', NEW t \in Threads, At(t, "step", "enter"), StepBegins(t),
           NEW n, n = Top(t).behind
    PROVE  /\ Carry(t, 0, {}, 0, n) /\ frames'[t] # << >> /\ frames'[t][1].op = "step"
<1> PICK s, f, g : s = frames[t] /\ f = Top(t) /\ g = Begins(f)
  OBVIOUS
<1> PICK r : r = <<g>> \o Tail(s)
  OBVIOUS
<1>1. /\ s \in Seq(Call) /\ s # << >> /\ n \in Nat /\ f \in Call /\ f = s[1] /\ f.op = "step" /\ f.at = "enter"
      /\ StackOK(Tail(s), DOMAIN agent.known, 0) /\ 1 \in DOMAIN s
      /\ \A i \in DOMAIN Tail(s) : Tail(s)[i].op = "step" /\ Tail(s)[i].at = "inside"
      /\ FrameOK(f, DOMAIN agent.known, Len(agent.queue)) /\ f.behind = n /\ f.behind \in Nat
  <2>1. frames[t] # << >> /\ f.op = "step" /\ f.at = "enter" /\ s = frames[t] /\ f = Top(t)
    BY Zenon DEF At
  <2>2. s \in Seq(Call)
    BY <2>1, FrameIsCall, Zenon
  <2>3. f \in Call /\ f = s[1] /\ 1 \in DOMAIN s /\ StackOK(Tail(s), DOMAIN agent.known, 0)
        /\ FrameOK(f, DOMAIN agent.known, Len(agent.queue)) /\ f.behind = n /\ f.behind \in Nat
    BY <2>1, TopOK, Zenon
  <2>4. \A i \in DOMAIN Tail(s) : Tail(s)[i].op = "step" /\ Tail(s)[i].at = "inside"
    BY <2>1, TopOK, Zenon
  <2> QED BY <2>1, <2>2, <2>3, <2>4, Zenon
<1>2. /\ g \in Call /\ g.op = f.op /\ g.ptr = f.ptr /\ g.module = f.module /\ g.ctx = f.ctx
      /\ g.at = "inside" /\ g.value = f.value /\ g.behind = 0
  BY <1>1, FrameMoves
<1>3. GoOn(t, r)
  BY DEF StepBegins, Begins
<1>4. FrameOK(g, DOMAIN agent.known, 0)
  BY <1>1, <1>2 DEF FrameOK
<1>5. StackOK(r, DOMAIN agent.known, 0)
  BY <1>1, <1>4, OntoStack
<1>6. Alike(g, f, n)
  BY <1>1, <1>2 DEF Alike, Stepping
<1>7. \A i \in DOMAIN r : \/ i = 1 /\ r[i] = g
                          \/ i # 1 /\ i \in DOMAIN s /\ r[i] = s[i]
  BY <1>1, <1>2, AfterTail
<1>8. \A i \in DOMAIN s : i > 1 => s[i].at = "inside" /\ FrameOK(s[i], DOMAIN agent.known, Len(agent.queue)) /\ s[i] \in Call
  BY FrameIsCall
<1>9. ASSUME NEW i \in DOMAIN r PROVE i + 0 \in DOMAIN s /\ i + 0 > 0 /\ Alike(r[i], s[i + 0], n)
  <2>0. DOMAIN s \subseteq Nat \ {0}
    BY <1>1
  <2>1. CASE i = 1
    BY <1>1, <1>6, <1>7, <2>0, <2>1
  <2>2. CASE i # 1
    <3>1. i \in DOMAIN s /\ r[i] = s[i] /\ i \in Nat /\ i > 1 /\ i + 0 = i
      BY <1>7, <1>9, <2>0, <2>2
    <3>2. s[i] \in Call /\ s[i].behind = 0
      BY <1>8, <3>1 DEF FrameOK
    <3>3. Alike(r[i], s[i], n)
      BY <1>1, <3>1, <3>2, InsideAlike
    <3> QED BY <3>1, <3>3
  <2> QED BY <2>1, <2>2
<1>10. ShiftsOn(t, r, 0, 0, n)
  <2>1. \A i \in DOMAIN Tail(s) : i + 1 \in DOMAIN r
    <3>1. Tail(s) \in Seq(Call)
      BY <1>1
    <3> QED BY <1>2, <3>1, AfterEnter
  <2>2. 1 \in DOMAIN r
    <3>1. Tail(s) \in Seq(Call)
      BY <1>1
    <3> QED BY <1>2, <3>1, AfterEnter
  <2>3. \A j \in DOMAIN s : j = 1 \/ (j - 1 \in DOMAIN Tail(s) /\ (j - 1) + 1 = j)
    BY <1>1
  <2>4. \A j \in DOMAIN s : j \in Int /\ j - 0 = j /\ j + 0 = j
    BY <1>1
  <2>5. \A j \in DOMAIN s : j \in DOMAIN r
    BY <2>1, <2>2, <2>3
  <2> QED BY <1>9, <2>4, <2>5 DEF ShiftsOn
<1>11. 0 \in Int
  OBVIOUS
<1>12. Carry(t, 0, {}, 0, n) /\ frames'[t] = r
  BY <1>1, <1>3, <1>5, <1>10, <1>11, CarryOn, Zenon
<1>13. r # << >> /\ r[1] = g
  BY <1>1, <1>4, OntoStack
<1> QED BY <1>1, <1>2, <1>12, <1>13

-----------------------------------------------------------------------------
(* What a step leaves alone. *)

LibFits == \A p \in Pointers : Live(p)' =>
              \/ Live(p) /\ app'.lib[p].life = app.lib[p].life
              \/ ~Live(p) /\ app'.lib[p].life \notin DOMAIN agent.known

LEMMA InUseStays ==
    ASSUME NEW g, NEW f, NEW n, Alike(g, f, n), InUse(g)
    PROVE  InUse(f)
BY DEF Alike, InUse, Stepping

LEMMA FramesKept ==
    ASSUME Inv, Inv', FrameInv, LibFits, Unharmed' => Unharmed, setting' = setting,
           NEW t, NEW d, NEW G, NEW low, NEW n, Carry(t, d, G, low, n),
           \A g \in G : FrameFits(g)', t \in Threads => Apart(frames'[t])
    PROVE  FrameInv'
<1>1. ASSUME NEW u \in Threads, NEW i \in DOMAIN frames'[u], Goes1(t, d, low, n, u, i)
      PROVE  FrameFits(frames[u][i])'
  <2> PICK j, f, g : j = Was(t, d, u, i) /\ f = frames[u][j] /\ g = frames'[u][i]
    OBVIOUS
  <2>1. j \in DOMAIN frames[u] /\ Alike(g, f, n)
    BY <1>1 DEF Goes1
  <2>2. FrameFits(f) /\ FrameOK(f, DOMAIN agent.known, Len(agent.queue)) /\ f \in Call
    BY <2>1, FrameIsCall DEF FrameInv, Inv
  <2>3. ASSUME InUse(g) PROVE Live(f.ptr) /\ Live(f.ptr)' /\ app'.lib[f.ptr].life = app.lib[f.ptr].life
    <3>1. InUse(f) /\ g.ptr = f.ptr
      BY <2>1, <2>3, InUseStays DEF Alike
    <3>2. Live(f.ptr)
      BY <2>1, <3>1 DEF Inv, UseOK
    <3>3. Live(f.ptr)'
      BY <1>1, <2>3, <3>1, Zenon DEF Inv, UseOK
    <3> QED BY <2>2, <3>2, <3>3 DEF LibFits, Call
  <2>4. ASSUME InUse(g), g.ctx # Null PROVE app'.lib[g.ptr].life = g.ctx
    BY <2>1, <2>2, <2>3, <2>4, InUseStays, Zenon DEF FrameFits, Alike
  <2>5. ASSUME InUse(g), g.ctx = Null, Unharmed' PROVE g.op # "step" /\ app'.lib[g.ptr].life = g.ptr
    BY <2>1, <2>2, <2>3, <2>5, InUseStays DEF FrameFits, Alike
  <2>6. ASSUME g.at = "freed", g.ctx # Null, NEW p \in Pointers PROVE ~Of(g.ctx, p)'
    <3>1. f.at = "freed" /\ f.ctx = g.ctx
      BY <2>1, <2>6 DEF Alike
    <3>2. f.ctx \in DOMAIN agent.known /\ ~Of(f.ctx, p)
      BY <2>2, <2>6, <3>1 DEF FrameFits, FrameOK
    <3> QED BY <3>1, <3>2 DEF LibFits, Of
  <2>7. ASSUME g.at = "measure" PROVE Within(g.value)'
    <3>1. f.at = "measure" /\ f.value = g.value
      BY <2>1, <2>7 DEF Alike
    <3> QED BY <2>2, <3>1 DEF FrameFits, Within
  <2>9. InUse(g) => g.op # "prepare"
    BY <2>1, <2>2, InUseStays DEF FrameFits, Alike
  <2>8. FrameFits(g)'
    BY <2>4, <2>5, <2>6, <2>7, <2>9 DEF FrameFits
  <2> QED BY <2>8 DEF FrameFits, Within, Of
<1>2. ASSUME NEW u \in Threads, u # t PROVE Apart(frames'[u])
  <2>1. DOMAIN frames'[u] = DOMAIN frames[u]
    BY <1>2 DEF Carry
  <2>2. \A i \in DOMAIN frames[u] : frames'[u][i].op = frames[u][i].op /\ frames'[u][i].ptr = frames[u][i].ptr
    <3> SUFFICES ASSUME NEW i \in DOMAIN frames[u]
                 PROVE  frames'[u][i].op = frames[u][i].op /\ frames'[u][i].ptr = frames[u][i].ptr
      OBVIOUS
    <3>1. Goes1(t, d, low, n, u, i) /\ Was(t, d, u, i) = i
      BY <1>2, <2>1 DEF Carry, Was
    <3> QED BY <3>1 DEF Goes1, Alike
  <2> QED BY <2>1, <2>2 DEF FrameInv, Apart
<1>3. ASSUME NEW u \in Threads, NEW i \in DOMAIN frames'[u] PROVE FrameFits(frames[u][i])'
  <2>1. CASE Goes1(t, d, low, n, u, i)
    BY <1>1, <1>3, <2>1
  <2>2. CASE frames'[u][i] \in G
    <3> PICK g : g = frames'[u][i]
      OBVIOUS
    <3>1. FrameFits(g)'
      BY <2>2
    <3> QED BY <3>1 DEF FrameFits, Within, Of
  <2> QED BY <1>3, <2>1, <2>2 DEF Carry
<1> QED BY <1>2, <1>3 DEF FrameInv

\* Nothing happens to the statement c, or to its executions.
Undisturbed(c, Z, Y) ==
    /\ agent'.known[c] = agent.known[c]
    /\ \A p \in Pointers : Of(c, p)' => Of(c, p) /\ app'.lib[p] = app.lib[p]
    /\ app.truth \subseteq app'.truth
    /\ \A x \in app'.truth : x.life = c => x \in app.truth \/ <<c, x.n>> \in Y.begun
    /\ Z.begun \subseteq Y.begun
    /\ \A x \in Y.told : x.life = c => x \in Z.told

LEMMA CallFitsKept ==
    ASSUME NEW c, NEW Z, NEW Y, Undisturbed(c, Z, Y), NEW u, NEW f, NEW g, NEW n, Alike(g, f, n),
           g.ctx = c, CallFits(u, f), InUse(g) => Of(c, g.ptr)', g.ptr \in Pointers
    PROVE  CallFits(u, g)'
<1>1. /\ g.op = f.op /\ g.ptr = f.ptr /\ f.ctx = c /\ g.value = f.value
      /\ g.at = f.at \/ (f.op = "step" /\ f.at = "enter" /\ g.at = "inside")
      /\ InUse(g) => InUse(f) /\ app'.lib[g.ptr] = app.lib[f.ptr]
      /\ agent'.known[c] = agent.known[c] /\ app.truth \subseteq app'.truth
  <2>1. InUse(g) => InUse(f)
    BY InUseStays
  <2>3. InUse(g) => app'.lib[g.ptr] = app.lib[f.ptr]
    BY DEF Undisturbed, Alike
  <2>2. g.at = f.at \/ (f.op = "step" /\ f.at = "enter" /\ g.at = "inside")
    BY DEF Alike, Stepping
  <2> QED BY <2>1, <2>2, <2>3 DEF Undisturbed, Alike
<1> PICK k : k = agent.known[c]
  OBVIOUS
<1>2. InUse(f) => f.at \in {"enter", "measure", "inside"}
  BY DEF InUse
<1>3. Metered(u, g)' <=> Metered(u, f)
  BY <1>1 DEF Metered
<1>4. ASSUME g.op = "step", InUse(g) PROVE k.active # Null /\ k.owner = u
  BY <1>1, <1>4 DEF CallFits
<1>5. ASSUME Stepping(g) PROVE k.depth >= 1
  <2>1. Stepping(f)
    BY <1>1, <1>5 DEF Stepping
  <2> QED BY <1>1, <2>1 DEF CallFits
<1>6. ASSUME Ends1(g)
      PROVE  /\ k.depth = 0 /\ ~Running(app'.lib[g.ptr]) /\ app'.lib[g.ptr].n = k.next
             /\ g.value # Null => g.value = app'.lib[g.ptr].counter
             /\ g.value # Null /\ k.last # Null =>
                   [life |-> c, n |-> k.next, work |-> g.value - k.last] \in app'.truth
  <2>1. Ends1(f) /\ InUse(g)
    BY <1>1, <1>6 DEF Ends1, InUse
  <2>2. app'.lib[g.ptr] = app.lib[f.ptr]
    BY <1>1, <2>1
  <2> QED BY <1>1, <2>1, <2>2 DEF CallFits
<1>7. ASSUME g.op # "step", g.at = "measure"
      PROVE  /\ k.active # Null /\ Running(app'.lib[g.ptr]) /\ (g.op = "reset" => k.owner = u)
             /\ g.value # Null => g.value = app'.lib[g.ptr].counter
  <2>1. f.op # "step" /\ f.at = "measure" /\ InUse(g)
    BY <1>1, <1>7 DEF InUse
  <2>2. app'.lib[g.ptr] = app.lib[f.ptr]
    BY <1>1, <2>1
  <2> QED BY <1>1, <2>1, <2>2 DEF CallFits
<1>8. ASSUME g.op # "step", g.at = "inside", g.value # Null PROVE Metered(u, g)'
  BY <1>1, <1>3, <1>8 DEF CallFits
<1>9. ASSUME Metered(u, g)'
      PROVE  /\ Running(app'.lib[g.ptr])
             /\ g.value # Null => g.value = app'.lib[g.ptr].work
             /\ k.last # Null => k.last = app'.lib[g.ptr].counter
  <2>1. Metered(u, f) /\ InUse(g)
    BY <1>1, <1>3, <1>9 DEF Metered, InUse
  <2>2. app'.lib[g.ptr] = app.lib[f.ptr]
    BY <1>1, <2>1
  <2> QED BY <1>1, <2>1, <2>2 DEF CallFits
<1>10. ASSUME g.at = "freed", g.value # Null, k.active # Null
       PROVE  [life |-> c, n |-> k.next, work |-> g.value] \in app'.truth
  BY <1>1, <1>10 DEF CallFits
<1> QED BY <1>1, <1>4, <1>5, <1>6, <1>7, <1>8, <1>9, <1>10 DEF CallFits

LEMMA TopStays ==
    ASSUME NEW t, NEW d, NEW G, NEW low, NEW n, Carry(t, d, G, low, n),
           NEW u \in Threads, u # t, 1 \in DOMAIN frames[u]
    PROVE  1 \in DOMAIN frames'[u] /\ Alike(frames'[u][1], frames[u][1], n)
<1>1. 1 \in DOMAIN frames'[u] /\ Was(t, d, u, 1) = 1
  BY DEF Carry, Was
<1>2. Goes1(t, d, low, n, u, 1)
  BY <1>1 DEF Carry
<1> QED BY <1>1, <1>2 DEF Goes1

\* The calls of t that go away end no execution of c.
NotEnding(t, low, c) == t \in Threads =>
    /\ ~MeteredBy(t, c) /\ ~EndedBy(t, c)
    /\ \A j \in DOMAIN frames[t] : frames[t][j].ctx = c /\ Stepping(frames[t][j]) => j > low

LEMMA RunKept ==
    ASSUME Inv, Inv', FrameInv', NEW c \in DOMAIN agent.known, NEW Z, NEW Y, Runs(c, Z),
           Undisturbed(c, Z, Y),
           NEW t, NEW d, NEW G, NEW low, NEW n, Carry(t, d, G, low, n),
           \A g \in G : g.ctx = c => ~Stepping(g) /\ CallFits(t, g)',
           NotEnding(t, low, c)
    PROVE  Runs(c, Y)'
<1>0. c # Null /\ agent'.known[c] = agent.known[c]
  BY NullAssumption DEF Inv, Shape, AgentOK, AppOK, Undisturbed
<1>1. Opened(c, Y)'
  <2>1. Opened(c, Z)
    BY DEF Runs
  <2> QED BY <1>0, <2>1 DEF Opened, Undisturbed, HasTold
<1>2. ASSUME NEW u \in Threads, NEW i \in DOMAIN frames'[u], frames'[u][i].ctx = c, Stepping(frames'[u][i])
      PROVE  LET j == Was(t, d, u, i) IN
             j \in DOMAIN frames[u] /\ frames[u][j].ctx = c /\ Stepping(frames[u][j])
  <2>1. Goes1(t, d, low, n, u, i)
    BY <1>2 DEF Carry
  <2>2. ASSUME NEW f, NEW g, Alike(g, f, n), Stepping(g) PROVE Stepping(f) /\ f.ctx = g.ctx
    BY <2>2 DEF Alike, Stepping
  <2> QED BY <1>2, <2>1, <2>2 DEF Goes1
<1>3. OneStep(c)'
  <2>1. OneStep(c)
    BY DEF Runs
  <2>2. ASSUME agent'.known[c].depth <= 1,
               NEW u \in Threads, NEW v \in Threads, NEW i \in DOMAIN frames'[u], NEW j \in DOMAIN frames'[v],
               Stepping(frames'[u][i]), frames'[u][i].ctx = c, Stepping(frames'[v][j]), frames'[v][j].ctx = c
        PROVE  u = v /\ i = j
    <3>1. u = v /\ Was(t, d, u, i) = Was(t, d, v, j)
      BY <1>0, <1>2, <2>1, <2>2 DEF OneStep
    <3>2. i \in Int /\ j \in Int /\ d \in Int
      BY <2>2 DEF Carry
    <3>3. CASE u = t
      <4>1. i + d = j + d
        BY <3>1, <3>3 DEF Was
      <4> QED BY <3>1, <3>2, <4>1
    <3>4. CASE u # t
      BY <3>1, <3>4 DEF Was
    <3> QED BY <3>3, <3>4
  <2>3. ASSUME agent'.known[c].depth >= 1
        PROVE  \E u \in Threads : \E i \in DOMAIN frames'[u] : Stepping(frames'[u][i]) /\ frames'[u][i].ctx = c
    <3>0. PICK u \in Threads : \E j \in DOMAIN frames[u] : Stepping(frames[u][j]) /\ frames[u][j].ctx = c
      BY <1>0, <2>1, <2>3 DEF OneStep
    <3>1. PICK j \in DOMAIN frames[u] : Stepping(frames[u][j]) /\ frames[u][j].ctx = c
      BY <3>0
    <3>2. u # t \/ j > low
      BY <3>1 DEF NotEnding
    <3>3. PICK i \in DOMAIN frames'[u] : Was(t, d, u, i) = j /\ Goes1(t, d, low, n, u, i)
      BY <3>2 DEF Carry
    <3>4. ASSUME NEW f, NEW g, Alike(g, f, n), Stepping(f) PROVE Stepping(g) /\ g.ctx = f.ctx
      BY <3>4 DEF Alike, Stepping
    <3>5. Alike(frames'[u][i], frames[u][j], n)
      BY <3>3 DEF Goes1
    <3> QED BY <3>1, <3>4, <3>5
  <2> QED BY <1>0, <2>1, <2>2, <2>3 DEF OneStep
<1>4. CallsFit(c)'
  <2> SUFFICES ASSUME NEW u \in Threads, NEW i \in DOMAIN frames'[u], frames'[u][i].ctx = c
               PROVE  CallFits(u, frames[u][i])'
    BY DEF CallsFit
  <2> PICK g : g = frames'[u][i]
    OBVIOUS
  <2>1. CASE u = t /\ g \in G
    BY <2>1
  <2>2. CASE Goes1(t, d, low, n, u, i)
    <3> PICK j, f : j = Was(t, d, u, i) /\ f = frames[u][j]
      OBVIOUS
    <3>1. j \in DOMAIN frames[u] /\ Alike(g, f, n) /\ f.ctx = c
      BY <2>2 DEF Goes1, Alike
    <3>2. CallFits(u, f)
      BY <3>1 DEF Runs, CallsFit
    <3>3. g.ptr \in Pointers
      <4>1. f \in Call
        BY <3>1, FrameIsCall, Zenon DEF Inv
      <4> QED BY <3>1, <4>1 DEF Alike, Call
    <3>4. InUse(g) => Of(c, g.ptr)'
      BY <1>0 DEF FrameInv, FrameFits, Inv, UseOK, Of
    <3>5. CallFits(u, g)'
      BY <3>1, <3>2, <3>3, <3>4, CallFitsKept
    <3> QED BY <3>5
  <2> QED BY <2>1, <2>2 DEF Carry
<1>5. ASSUME NEW p \in Pointers, Of(c, p)' PROVE Stands(c, app.lib[p])'
  <2>1. Stands(c, app.lib[p]) /\ app'.lib[p] = app.lib[p]
    BY <1>5 DEF Runs, Undisturbed
  <2>2. ASSUME NEW u \in Threads, MeteredBy(u, c) PROVE MeteredBy(u, c)'
    <3>1. u # t /\ 1 \in DOMAIN frames[u]
      BY <2>2 DEF MeteredBy, NotEnding
    <3>2. 1 \in DOMAIN frames'[u] /\ Alike(frames'[u][1], frames[u][1], n)
      BY <3>1, TopStays
    <3>3. ASSUME NEW f, NEW g, Alike(g, f, n), f.ctx = c, Metered(u, f) PROVE g.ctx = c /\ Metered(u, g)'
      BY <1>0, <3>3 DEF Alike, Metered, Stepping
    <3> QED BY <2>2, <3>2, <3>3 DEF MeteredBy
  <2>3. ASSUME NEW u \in Threads, EndedBy(u, c) PROVE EndedBy(u, c)'
    <3>1. u # t /\ 1 \in DOMAIN frames[u]
      BY <2>3 DEF EndedBy, NotEnding
    <3>2. 1 \in DOMAIN frames'[u] /\ Alike(frames'[u][1], frames[u][1], n)
      BY <3>1, TopStays
    <3>3. ASSUME NEW f, NEW g, Alike(g, f, n), f.ctx = c, Ends1(f) PROVE g.ctx = c /\ Ends1(g)
      BY <3>3 DEF Alike, Ends1, Stepping
    <3> QED BY <2>3, <3>2, <3>3 DEF EndedBy
  <2>4. \A x, y : Level(c, x, y)' <=> Level(c, x, y)
    BY <1>0 DEF Level
  <2> QED BY <1>0, <2>1, <2>2, <2>3, <2>4 DEF Stands
<1> QED BY <1>1, <1>3, <1>4, <1>5 DEF Runs

\* A first step that waits for more than is sent goes on waiting.
LEMMA WaitsKept ==
    ASSUME NEW u, NEW w \in Nat, NEW n \in Nat, n <= w, WaitsFor(u, w), frames[u][1].behind \in Nat,
           1 \in DOMAIN frames'[u], Alike(frames'[u][1], frames[u][1], n)
    PROVE  WaitsFor(u, w - n)'
<1> PICK f, g : f = frames[u][1] /\ g = frames'[u][1]
  BY Zenon
<1>1. Alike(g, f, n) /\ f.op = "step" /\ f.at = "enter" /\ f.behind > w /\ f.behind \in Nat
  BY Zenon DEF WaitsFor
<1> PICK a, b : a = f.behind /\ b = g.behind
  OBVIOUS
<1>2. a \in Nat /\ a > w
  BY <1>1
<1>3. /\ b = IF a > n THEN a - n ELSE 0
      /\ g.op = "step" /\ (g.at = "enter" \/ a <= n)
  BY <1>1, Zenon DEF Alike
<1>4. a > n /\ ~(a <= n) /\ b > w - n
  BY <1>2, <1>3
<1>5. g.op = "step" /\ g.at = "enter" /\ g.behind > w - n
  BY <1>3, <1>4, Zenon
<1> QED BY <1>5, Zenon DEF WaitsFor

\* While nothing runs, what waits goes on waiting.
LEMMA StillKept ==
    ASSUME Inv, Inv', NEW w \in Nat, Still(w), NEW n \in Nat, n <= w,
           NEW t, NEW d, NEW G, NEW low, Carry(t, d, G, low, n),
           \A g \in G : Stepping(g) => g.behind > w - n,
           \A p \in Pointers : Live(p)' => \/ Live(p) /\ app'.lib[p].runner = app.lib[p].runner
                                           \/ app'.lib[p].runner = Null,
           t \in Threads => ~WaitsFor(t, n),
           \A c \in DOMAIN agent'.known : agent'.known[c].active # Null =>
              \/ /\ c \in DOMAIN agent.known /\ agent.known[c].active # Null
                 /\ agent'.known[c].owner = agent.known[c].owner
              \/ t \in Threads /\ agent'.known[c].owner = t /\ WaitsFor(t, w - n)'
    PROVE  Still(w - n)'
<1>1. ASSUME NEW p \in Pointers, Live(p)' PROVE ~Running(app'.lib[p])
  BY <1>1 DEF Still, Running
<1>2. ASSUME NEW u \in Threads, NEW i \in DOMAIN frames'[u], Stepping(frames'[u][i])
      PROVE  frames'[u][i].behind > w - n
  <2> PICK g : g = frames'[u][i]
    OBVIOUS
  <2>1. CASE g \in G
    BY <1>2, <2>1
  <2>2. CASE Goes1(t, d, low, n, u, i)
    <3> PICK j, f : j = Was(t, d, u, i) /\ f = frames[u][j]
      OBVIOUS
    <3>1. j \in DOMAIN frames[u] /\ Alike(g, f, n)
      BY <2>2 DEF Goes1
    <3>2. Stepping(f) /\ f \in Call
      BY <1>2, <3>1, FrameIsCall DEF Inv, Alike, Stepping
    <3>3. f.behind > w /\ f.behind \in Nat
      BY <3>1, <3>2 DEF Still, Call
    <3>4. g.behind = f.behind - n
      BY <3>1, <3>3 DEF Alike
    <3> QED BY <3>3, <3>4
  <2> QED BY <1>2, <2>1, <2>2 DEF Carry
<1>3. ASSUME NEW c \in DOMAIN agent'.known, agent'.known[c].active # Null
      PROVE  agent'.known[c].owner \in Threads /\ WaitsFor(agent.known[c].owner, w - n)'
  <2>1. CASE t \in Threads /\ agent'.known[c].owner = t /\ WaitsFor(t, w - n)'
    <3> PICK u : u = agent'.known[c].owner
      OBVIOUS
    <3> QED BY <2>1
  <2>2. CASE /\ c \in DOMAIN agent.known /\ agent.known[c].active # Null
             /\ agent'.known[c].owner = agent.known[c].owner
    <3> PICK u : u = agent.known[c].owner
      OBVIOUS
    <3>1. u \in Threads /\ WaitsFor(u, w)
      BY <2>2 DEF Still
    <3>2. frames[u][1].behind \in Nat /\ 1 \in DOMAIN frames[u]
      BY <3>1, FrameIsCall DEF WaitsFor, Inv, Call
    <3>3. u # t
      <4>1. WaitsFor(u, n)
        BY <3>1, <3>2 DEF WaitsFor
      <4> QED BY <3>1, <4>1
    <3>4. 1 \in DOMAIN frames'[u] /\ Alike(frames'[u][1], frames[u][1], n)
      BY <3>1, <3>2, <3>3, TopStays, Zenon
    <3>5. WaitsFor(u, w - n)'
      BY <3>1, <3>2, <3>4, WaitsKept
    <3> QED BY <2>2, <3>1, <3>5
  <2> QED BY <1>3, <2>1, <2>2
<1> QED BY <1>1, <1>2, <1>3 DEF Still

-----------------------------------------------------------------------------
(* One step of the hooks, and what it says to the tracker. *)

\* The invariant of a process that runs: Z is what the tracker will make of every record.
Sound(Z, H) ==
    /\ AppInv /\ FrameInv /\ AgentInv(Z, H)
    /\ Unharmed /\ Clean(Z) => RunInv(Z) /\ Z.told \subseteq app.truth

\* When n records have arrived, what waited for more than n goes on waiting.
Calm(n) == \A w \in n .. Len(agent.queue) :
              Unharmed' /\ Still(w) => app'.truth = app.truth /\ Still(w - n)'
Steps(n) ==
    /\ ~app.exited /\ ~app'.exited /\ wire = << >> /\ Len(wire') = n /\ n \in 0 .. Len(agent.queue)
    /\ app.truth \subseteq app'.truth /\ (Unharmed' => Unharmed)
    /\ UNCHANGED <<active, begun, cited, quality, finished, occurrences, lifeOf>>
    /\ Calm(n)

LEMMA QueueOnly ==
    ASSUME Inv, wire = << >>
    PROVE  Stream = agent.queue /\ agent.queue \in Seq(Event) /\ Len(agent.queue) \in Nat /\ Len(wire) = 0
<1> PICK q : q = agent.queue
  OBVIOUS
<1>1. q \in Seq(Event)
  BY DEF Inv, Shape, RecordsOK
<1>2. << >> \o q = q /\ Len(q) \in Nat
  BY <1>1
<1> QED BY <1>1, <1>2 DEF Stream

LEMMA SoundNow ==
    ASSUME Inv, NEW J, NEW H, TruthInv(J, H), ~app.exited
    PROVE  Sound(Last(J), H)
<1>1. Len(Stream) \in Nat
  BY DEF Inv, Shape, RecordsOK, Stream
<1> PICK k : k = Len(Stream)
  OBVIOUS
<1>2. k \in 0 .. Len(Stream) /\ Last(J) = J[k]
  BY <1>1 DEF Last
<1>3. Unharmed => PartInv(J[k], k)
  BY <1>2 DEF TruthInv
<1>4. Unharmed /\ Clean(Last(J)) => Last(J).told \subseteq app.truth
  BY <1>2, <1>3 DEF PartInv
<1> QED BY <1>4 DEF TruthInv, Sound

LEMMA OldPart ==
    ASSUME Inv, NEW n, Steps(n), NEW S, NEW k \in 0 .. Len(agent.queue), PartInv(S, k), Unharmed'
    PROVE  PartInv(S, k)'
<1>1. Len(wire) = 0 /\ Len(wire') = n /\ n \in Nat /\ k \in Nat /\ ~app.exited /\ Len(agent.queue) \in Nat
  BY QueueOnly DEF Steps
<1>2. Clean(S) => S.told \subseteq app'.truth
  BY DEF PartInv, Steps
<1>3. ASSUME k >= n, Settled(S)
      PROVE  /\ \A x \in app'.truth : HasTold(S, <<x.life, x.n>>)
             /\ \A w \in 0 .. k : w = k - n => Still(w)'
  <2>1. /\ \A x \in app.truth : HasTold(S, <<x.life, x.n>>)
        /\ k \in 0 .. k /\ k = k - 0
    BY <1>1, <1>3 DEF PartInv
  <2>2. Still(k)
    BY <1>1, <1>3, <2>1 DEF PartInv
  <2>3. k \in n .. Len(agent.queue)
    BY <1>1, <1>3
  <2>4. app'.truth = app.truth /\ Still(k - n)'
    BY <2>2, <2>3 DEF Steps, Calm
  <2> QED BY <2>1, <2>4
<1> QED BY <1>1, <1>2, <1>3 DEF PartInv

LEMMA SettledStill ==
    ASSUME Inv, FrameInv, NEW Z, RunInv(Z), Unharmed, Settled(Z)
    PROVE  /\ \A x \in app.truth : HasTold(Z, <<x.life, x.n>>)
           /\ \A w \in Nat : Still(w)
<1>1. ASSUME NEW c \in DOMAIN agent.known, agent.known[c].active # Null PROVE FALSE
  <2>1. <<c, agent.known[c].next>> \in Z.begun /\ ~HasTold(Z, <<c, agent.known[c].next>>)
    BY <1>1 DEF RunInv, Runs, Opened
  <2> QED BY <2>1 DEF Settled
<1>2. ASSUME NEW x \in app.truth PROVE HasTold(Z, <<x.life, x.n>>)
  <2>1. <<x.life, x.n>> \in Z.begun
    BY DEF RunInv, Runs, Opened
  <2> QED BY <2>1 DEF Settled
<1>3. ASSUME NEW p \in Pointers, Live(p), Running(app.lib[p]) PROVE FALSE
  <2> PICK c : c = app.lib[p].life
    OBVIOUS
  <2>1. c \in DOMAIN agent.known /\ Of(c, p)
    BY <1>3 DEF RunInv, Of
  <2>2. Stands(c, app.lib[p])
    BY <2>1 DEF RunInv, Runs
  <2>3. agent.known[c].active # Null
    BY <1>3, <2>2 DEF Stands
  <2> QED BY <1>1, <2>1, <2>3
<1>4. ASSUME NEW t \in Threads, NEW i \in DOMAIN frames[t], Stepping(frames[t][i]) PROVE FALSE
  <2> PICK f : f = frames[t][i]
    OBVIOUS
  <2>1. FrameFits(f) /\ FrameOK(f, DOMAIN agent.known, Len(agent.queue)) /\ InUse(f) /\ f.op = "step"
    BY <1>4, FrameIsCall DEF FrameInv, Inv, Stepping, InUse
  <2>2. f.ctx # Null /\ f.ctx \in DOMAIN agent.known
    BY <2>1 DEF FrameFits, FrameOK
  <2>3. CallFits(t, f)
    BY <2>2, Zenon DEF RunInv, Runs, CallsFit
  <2>4. agent.known[f.ctx].active # Null
    BY <2>1, <2>3 DEF CallFits
  <2> QED BY <1>1, <2>2, <2>4
<1> QED BY <1>1, <1>2, <1>3, <1>4 DEF Still

LEMMA BookStays ==
    ASSUME NEW J, NEW H, TruthInv(J, H), NEW n, Steps(n)
    PROVE  TrackerInv' /\ Book(J[0])'
<1>1. /\ ~finished /\ ~finished' /\ active' = active /\ begun' = begun /\ cited' = cited /\ quality' = quality
      /\ occurrences' = occurrences /\ lifeOf' = lifeOf /\ ~app'.exited
  BY DEF Steps, TruthInv, TrackerInv
<1>2. TrackerInv'
  BY <1>1 DEF TruthInv, TrackerInv
<1>3. Book(J[0])'
  BY <1>1 DEF TruthInv, Book
<1> QED BY <1>2, <1>3

AtRest(Z)  == Inv /\ FrameInv /\ RunInv(Z) /\ Unharmed /\ Settled(Z)
AllTold(Z) == (\A x \in app.truth : HasTold(Z, <<x.life, x.n>>)) /\ \A w \in Nat : Still(w)
LEMMA SettledNext ==
    ASSUME NEW Z
    PROVE  AtRest(Z)' => AllTold(Z)'
<1>1. AtRest(Z) => AllTold(Z)
  BY SettledStill DEF AtRest, AllTold
<1> QED BY <1>1, PTL

\* A step that queues no record.
LEMMA NoRecord ==
    ASSUME Inv, Inv', NEW J, NEW H, TruthInv(J, H), NEW n, Steps(n), Stream' = Stream,
           NEW Z, Z = Last(J), Sound(Z, H)'
    PROVE  TruthInv(J, H)'
<1>1. Stream = agent.queue /\ ~app'.exited
  BY QueueOnly DEF Steps
<1>2. Follows(J, Stream)' /\ Last(J)' = Z
  BY DEF TruthInv, Last
<1>3. ASSUME Unharmed', NEW k \in 0 .. Len(Stream') PROVE PartInv(J[k], k)'
  <2> PICK S : S = J[k]
    OBVIOUS
  <2>1. PartInv(S, k) /\ k \in 0 .. Len(agent.queue)
    BY <1>1, <1>3 DEF TruthInv, Steps
  <2>2. PartInv(S, k)'
    BY <1>3, <2>1, OldPart
  <2> QED BY <2>2
<1>4. AppInv' /\ FrameInv' /\ AgentInv(Last(J), H)' /\ (Unharmed' /\ Clean(Last(J))' => RunInv(Last(J))')
  BY <1>2 DEF Sound
<1> QED BY <1>2, <1>3, <1>4, BookStays DEF TruthInv

\* A step that queues one.
LEMMA OneRecord ==
    ASSUME Inv, Inv', NEW J, NEW H, TruthInv(J, H), NEW n, Steps(n),
           NEW e \in Event, Stream' = Append(agent.queue, e), NEW Z, Z = Last(J), Fresh1(Z, e),
           NEW Y, Y = After(Z, e), NEW G, Sound(Y, G)'
    PROVE  \E K : TruthInv(K, G)'
<1> PICK L : L = Len(agent.queue)
  OBVIOUS
<1>1. Stream = agent.queue /\ agent.queue \in Seq(Event) /\ L \in Nat /\ ~app'.exited /\ n \in 0 .. L /\ Len(wire') = n
  BY QueueOnly DEF Steps
<1>2. Follows(J, agent.queue) /\ Z = J[L]
  BY <1>1 DEF TruthInv, Last
<1>3. PICK K : /\ Follows(K, Append(agent.queue, e)) /\ K[L + 1] = Y
               /\ \A k \in 0 .. L : K[k] = J[k]
  BY <1>1, <1>2, FollowsMore
<1>4. Len(Stream') = L + 1 /\ Follows(K, Stream)' /\ Last(K)' = Y
  BY <1>1, <1>3 DEF Last
<1>5. ASSUME Unharmed', NEW k \in 0 .. Len(Stream') PROVE PartInv(K[k], k)'
  <2>1. CASE k \in 0 .. L
    <3> PICK S : S = J[k]
      OBVIOUS
    <3>1. PartInv(S, k) /\ K[k] = S
      BY <1>1, <1>3, <1>5, <2>1 DEF TruthInv, Steps
    <3>2. PartInv(S, k)'
      BY <1>1, <1>5, <2>1, <3>1, OldPart
    <3> QED BY <3>1, <3>2
  <2>2. CASE k \notin 0 .. L
    <3>1. k = L + 1 /\ K[k] = Y
      BY <1>1, <1>3, <1>4, <1>5, <2>2
    <3>2. Clean(Y) => Y.told \subseteq app'.truth
      BY <1>5 DEF Sound
    <3>3. ASSUME Settled(Y) PROVE /\ \A x \in app'.truth : HasTold(Y, <<x.life, x.n>>)
                                  /\ \A w \in Nat : Still(w)'
      <4>1. FrameInv' /\ RunInv(Y)'
        BY <1>5, <3>3, SettledClean DEF Sound
      <4> QED BY <1>5, <3>3, <4>1, SettledNext DEF AtRest, AllTold
    <3>4. \A w \in 0 .. k : w \in Nat
      OBVIOUS
    <3>5. PartInv(Y, k)'
      BY <3>2, <3>3, <3>4 DEF PartInv
    <3> QED BY <3>1, <3>5
  <2> QED BY <2>1, <2>2
<1>6. AppInv' /\ FrameInv' /\ AgentInv(Last(K), G)' /\ (Unharmed' /\ Clean(Last(K))' => RunInv(Last(K))')
  BY <1>4 DEF Sound
<1>7. Book(K[0])' /\ TrackerInv'
  <2>1. K[0] = J[0]
    BY <1>1, <1>3
  <2> QED BY <2>1, BookStays
<1>8. TruthInv(K, G)'
  BY <1>4, <1>5, <1>6, <1>7 DEF TruthInv
<1> QED BY <1>8

-----------------------------------------------------------------------------
(* What a step leaves of the invariant: the application and the agent. *)

\* x is the end of the execution of p that the step brings.
Ends2(p, x) ==
    /\ Live(p) /\ x.life = app.lib[p].life
    /\ \A y \in app.truth : y.life = x.life => y.n < x.n
    /\ Live(p)' => x.n <= app'.lib[p].n /\ ~Running(app'.lib[p])
Advances(p) ==
    Live(p)' => /\ Live(p) /\ app'.lib[p].life = app.lib[p].life /\ app'.lib[p].module = app.lib[p].module
                /\ app.lib[p].n <= app'.lib[p].n
                /\ Running(app'.lib[p]) => Running(app.lib[p]) \/ app.lib[p].n < app'.lib[p].n
KnownStays == /\ DOMAIN agent'.known = DOMAIN agent.known
              /\ \A c \in DOMAIN agent.known : agent'.known[c].module = agent.known[c].module
AppMoves(En) ==
    /\ \A p \in Pointers : Advances(p)
    /\ \A x \in app'.truth : x \in app.truth \/ \E p \in Pointers : x = En[p] /\ Ends2(p, x)
    /\ app'.lives = app.lives /\ app'.used = app.used
    /\ KnownStays
    /\ \A c \in DOMAIN agent.known : Within(agent.known[c].last)'
    /\ \A p \in DOMAIN agent'.contexts : p \in DOMAIN agent.contexts /\ agent'.contexts[p] = agent.contexts[p]
    /\ agent'.unknown # {} => told'.lossy

LEMMA AppKept ==
    ASSUME Inv, Inv', AppInv, NEW En, AppMoves(En)
    PROVE  AppInv'
<1>1. ASSUME NEW p \in Pointers, Live(p)'
      PROVE  /\ Live(p) /\ app.lib[p] \in Statement /\ app'.lib[p] \in Statement
             /\ app'.lib[p].life = app.lib[p].life /\ app'.lib[p].module = app.lib[p].module
             /\ app.lib[p].n <= app'.lib[p].n /\ app.lib[p].n \in Nat /\ app'.lib[p].n \in Nat
             /\ Running(app'.lib[p]) => Running(app.lib[p]) \/ app.lib[p].n < app'.lib[p].n
  <2>1. Live(p) /\ Advances(p)
    BY <1>1 DEF AppMoves, Advances
  <2>2. app.lib[p] \in Statement /\ app'.lib[p] \in Statement
    BY <1>1, <2>1 DEF Inv, Shape, AppOK, Live
  <2>3. app.lib[p].n \in Nat /\ app'.lib[p].n \in Nat
    BY <2>2 DEF Statement
  <2> QED BY <1>1, <2>1, <2>2, <2>3 DEF Advances
<1>2. /\ \A x \in app.truth : x.n \in Nat /\ x.life \in Nat \cup Pointers
      /\ \A x \in app'.truth : x.n \in Nat /\ x.life \in Nat \cup Pointers
  BY DEF Inv, Shape, AppOK
<1>3. ASSUME NEW p \in Pointers, NEW q \in Pointers, Live(p)', Live(q)', app'.lib[p].life = app'.lib[q].life
      PROVE  p = q
  BY <1>1, <1>3 DEF AppInv
<1>4. ASSUME NEW p \in Pointers, Live(p)', NEW x \in app'.truth, x.life = app'.lib[p].life
      PROVE  x.n <= app'.lib[p].n /\ (Running(app'.lib[p]) => x.n < app'.lib[p].n)
  <2>1. CASE x \in app.truth
    <3>1. x.n <= app.lib[p].n /\ (Running(app.lib[p]) => x.n < app.lib[p].n) /\ x.n \in Nat
      BY <1>1, <1>2, <1>4, <2>1 DEF AppInv
    <3> QED BY <1>1, <1>4, <3>1
  <2>2. CASE x \notin app.truth
    <3>1. PICK q \in Pointers : Ends2(q, x)
      BY <1>4, <2>2 DEF AppMoves
    <3>2. q = p
      BY <1>1, <1>4, <3>1 DEF AppInv, Ends2
    <3> QED BY <1>4, <3>1, <3>2 DEF Ends2
  <2> QED BY <2>1, <2>2
<1>5. ASSUME NEW x \in app'.truth PROVE x.life \in 1 .. app'.lives \/ x.life \in Pointers
  <2>1. CASE x \in app.truth
    BY <2>1 DEF AppInv, AppMoves
  <2>2. CASE x \notin app.truth
    <3>1. PICK q \in Pointers : Live(q) /\ x.life = app.lib[q].life
      BY <1>5, <2>2 DEF AppMoves, Ends2
    <3>2. x.life = q \/ x.life \in DOMAIN agent.known
      BY <3>1 DEF AppInv
    <3> QED BY <3>1, <3>2 DEF AppMoves, Inv, Shape, AgentOK
  <2> QED BY <2>1, <2>2
<1>6. ASSUME NEW x \in app'.truth, NEW y \in app'.truth, x.life = y.life, x.n = y.n PROVE x = y
  <2>1. ASSUME NEW a \in app'.truth, NEW b \in app.truth, a.life = b.life, a.n = b.n, a \notin app.truth PROVE FALSE
    <3>1. PICK q \in Pointers : Ends2(q, a)
      BY <2>1 DEF AppMoves
    <3>2. b.n < a.n
      BY <2>1, <3>1 DEF Ends2
    <3> QED BY <1>2, <2>1, <3>2
  <2>2. CASE x \in app.truth /\ y \in app.truth
    BY <1>6, <2>2 DEF AppInv
  <2>3. CASE x \notin app.truth /\ y \notin app.truth
    <3>1. PICK p \in Pointers : x = En[p] /\ Ends2(p, x)
      BY <1>6, <2>3 DEF AppMoves
    <3>2. PICK q \in Pointers : y = En[q] /\ Ends2(q, y)
      BY <1>6, <2>3 DEF AppMoves
    <3>3. p = q
      BY <1>6, <3>1, <3>2 DEF AppInv, Ends2
    <3> QED BY <3>1, <3>2, <3>3
  <2> QED BY <1>6, <2>1, <2>2, <2>3
<1>7. ASSUME NEW p \in Pointers, Live(p)'
      PROVE  LET s == app'.lib[p] IN
             /\ \/ s.life = p
                \/ s.life \in DOMAIN agent'.known /\ agent'.known[s.life].module = s.module /\ s.module \in app'.used
             /\ p \in DOMAIN agent'.contexts => s.life = agent'.contexts[p]
  <2>1. /\ \/ app.lib[p].life = p
           \/ app.lib[p].life \in DOMAIN agent.known /\ agent.known[app.lib[p].life].module = app.lib[p].module
              /\ app.lib[p].module \in app.used
        /\ p \in DOMAIN agent.contexts => app.lib[p].life = agent.contexts[p]
    BY <1>1, <1>7 DEF AppInv
  <2> QED BY <1>1, <1>7, <2>1 DEF AppMoves, KnownStays
<1>8. (agent'.unknown # {} => told'.lossy) /\ \A c \in DOMAIN agent'.known : Within(agent.known[c].last)'
  BY DEF AppMoves, KnownStays
<1> QED BY <1>3, <1>4, <1>5, <1>6, <1>7, <1>8 DEF AppInv

\* The records known to the tracker, as far as the agent relies on them.
AgentMoves(Z, Y) ==
    /\ KnownStays
    /\ \A p \in DOMAIN agent'.contexts :
          p \in DOMAIN agent.contexts /\ agent'.contexts[p] = agent.contexts[p] /\ p \in DOMAIN Y.cur
    /\ DOMAIN Y.cur \subseteq DOMAIN Z.cur /\ \A p \in DOMAIN Y.cur : Y.cur[p] = Z.cur[p]
    /\ \A b \in Y.begun : b \in Z.begun \/ b[1] \in DOMAIN agent.known

LEMMA AgentStays ==
    ASSUME Inv, Inv', NEW Z, NEW Y, NEW H, AgentInv(Z, H), AgentMoves(Z, Y),
           NEW t, NEW d, NEW G, NEW low, NEW n, Carry(t, d, G, low, n),
           \A g \in G : g.ctx # Null => H[g.ctx] = g.ptr
    PROVE  AgentInv(Y, H)'
<1>1. H \in [DOMAIN agent'.known -> Pointers]
  BY DEF AgentInv, AgentMoves, KnownStays
<1>2. ASSUME NEW p \in DOMAIN agent'.contexts
      PROVE  p \in DOMAIN Y.cur /\ Y.cur[p] = [life   |-> agent'.contexts[p],
                                               module |-> agent'.known[agent'.contexts[p]].module]
  <2>1. /\ p \in DOMAIN agent.contexts /\ agent'.contexts[p] = agent.contexts[p] /\ p \in DOMAIN Y.cur
        /\ Y.cur[p] = Z.cur[p]
    BY <1>2 DEF AgentMoves
  <2> PICK c : c = agent.contexts[p]
    OBVIOUS
  <2>2. c \in DOMAIN agent.known /\ agent'.contexts[p] = c
    BY <2>1 DEF Inv, Shape, AgentOK
  <2>3. agent'.known[c].module = agent.known[c].module
    BY <2>2 DEF AgentMoves, KnownStays
  <2>4. Z.cur[p] = [life |-> c, module |-> agent.known[c].module]
    BY <2>1 DEF AgentInv
  <2> QED BY <2>1, <2>2, <2>3, <2>4
<1>3. /\ DOMAIN Y.cur \subseteq Pointers
      /\ \A p \in DOMAIN Y.cur : Y.cur[p].life \in DOMAIN agent'.known /\ H[Y.cur[p].life] = p
      /\ \A b \in Y.begun : b[1] \in DOMAIN agent'.known
  BY DEF AgentInv, AgentMoves, KnownStays
<1>4. ASSUME NEW u \in Threads, NEW i \in DOMAIN frames'[u], frames'[u][i].ctx # Null
      PROVE  H[frames'[u][i].ctx] = frames'[u][i].ptr
  <2>1. CASE frames'[u][i] \in G
    BY <1>4, <2>1
  <2>2. CASE Goes1(t, d, low, n, u, i)
    BY <1>4, <2>2 DEF Goes1, Alike, AgentInv
  <2> QED BY <1>4, <2>1, <2>2 DEF Carry
<1> QED BY <1>1, <1>2, <1>3, <1>4 DEF AgentInv

\* The executions of the statements a step leaves alone, and of those it does not.
LEMMA RunsKept ==
    ASSUME Inv, Inv', FrameInv', NEW Z, NEW Y, RunInv(Z), DOMAIN agent'.known = DOMAIN agent.known,
           NEW t, NEW d, NEW G, NEW low, NEW n, Carry(t, d, G, low, n), NEW cs,
           \A c \in DOMAIN agent.known : c \notin cs =>
              /\ Undisturbed(c, Z, Y) /\ NotEnding(t, low, c)
              /\ \A g \in G : g.ctx = c => ~Stepping(g) /\ CallFits(t, g)',
           \A c \in DOMAIN agent.known : c \in cs => Runs(c, Y)',
           \A x \in app'.truth : x \in app.truth \/ x.life \in DOMAIN agent.known,
           \A p \in Pointers : Live(p)' /\ Running(app'.lib[p]) =>
              app'.lib[p].life \in DOMAIN agent.known
              \/ (Live(p) /\ Running(app.lib[p]) /\ app'.lib[p].life = app.lib[p].life)
    PROVE  RunInv(Y)'
<1>1. ASSUME NEW c \in DOMAIN agent.known, c \notin cs PROVE Runs(c, Y)'
  <2>1. Runs(c, Z)
    BY DEF RunInv
  <2> QED BY <1>1, <2>1, RunKept
<1>2. \A x \in app'.truth : x.life \in DOMAIN agent'.known
  BY DEF RunInv
<1>3. \A p \in Pointers : Live(p)' /\ Running(app'.lib[p]) => app'.lib[p].life \in DOMAIN agent'.known
  BY DEF RunInv
<1> QED BY <1>1, <1>2, <1>3 DEF RunInv

-----------------------------------------------------------------------------
(* Steps that leave the statements, the executions and the contexts alone. *)

Held == /\ Inv /\ Inv' /\ Aside /\ ~app.exited /\ ~app'.exited /\ wire = << >>
        /\ Whole /\ Whole' /\ LibUsed
        /\ UNCHANGED <<setting, active, begun, cited, quality, finished, occurrences, lifeOf>>

LEMMA Regroup ==
    ASSUME NEW a \in Seq(Event), NEW b \in Seq(Event), NEW c \in Seq(Event)
    PROVE  a \o (b \o c) = (a \o b) \o c
BY ConcatAssociative, SMTT(30)

\* The records that a hook has waited for are on the wire.
LEMMA Arriving ==
    ASSUME Inv, wire = << >>, NEW t \in Threads, frames[t] # << >>,
           NEW fs, StackOK(fs, DOMAIN agent.known, 0), GoOn(t, fs), NEW es \in Seq(Event),
           agent'.queue = Unsent(Top(t).behind) \o es
    PROVE  Stream' = agent.queue \o es /\ Len(wire') = Top(t).behind /\ Top(t).behind \in 0 .. Len(agent.queue)
<1> PICK q, n : q = agent.queue /\ n = Top(t).behind
  OBVIOUS
<1>1. q \in Seq(Event) /\ Len(q) \in Nat
  BY DEF Inv, Shape, RecordsOK
<1>2. n \in 0 .. Len(q) /\ wire' = wire \o SubSeq(q, 1, n)
  BY WaitEnds DEF Inv
<1>3. wire' = SubSeq(q, 1, n)
  <2>1. SubSeq(q, 1, n) \in Seq(Event)
    BY <1>1, <1>2
  <2>2. << >> \o SubSeq(q, 1, n) = SubSeq(q, 1, n)
    BY <2>1, ConcatEmptySeq
  <2> QED BY <1>2, <2>2
<1>0. PICK a, b : a = SubSeq(q, 1, n) /\ b = SubSeq(q, n + 1, Len(q))
  OBVIOUS
<1>4. a \in Seq(Event) /\ b \in Seq(Event) /\ Len(a) = n
  BY <1>0, <1>1, <1>2
<1>5. a \o b = q
  <2>1. 1 \in 1 .. Len(q) + 1 /\ n \in 1 - 1 .. Len(q) /\ Len(q) \in n .. Len(q)
    BY <1>1, <1>2
  <2>2. SubSeq(q, 1, n) \o SubSeq(q, n + 1, Len(q)) = SubSeq(q, 1, Len(q))
    BY <1>1, <2>1, ConcatAdjacentSubSeq
  <2>3. SubSeq(q, 1, Len(q)) = q
    BY <1>1, SubSeqFull
  <2> QED BY <1>0, <2>2, <2>3
<1>6. a \o (b \o es) = (a \o b) \o es
  BY <1>4, Regroup
<1>7. wire' = a /\ agent'.queue = b \o es
  BY <1>0, <1>3 DEF Unsent
<1> QED BY <1>2, <1>4, <1>5, <1>6, <1>7 DEF Stream

LEMMA StreamStays ==
    ASSUME Inv, Inv', wire = << >>, wire' = wire
    PROVE  Stream' = agent'.queue /\ Len(wire') = 0 /\ 0 \in 0 .. Len(agent.queue)
<1>1. agent'.queue \in Seq(Event) /\ agent.queue \in Seq(Event)
  BY DEF Inv, Shape, RecordsOK
<1> PICK q : q = agent'.queue
  OBVIOUS
<1>2. << >> \o q = q
  BY <1>1
<1>3. wire' = << >> /\ Len(<< >>) = 0
  OBVIOUS
<1>4. Len(agent.queue) \in Nat
  BY <1>1
<1> QED BY <1>2, <1>3, <1>4 DEF Stream

Passive(Z, Y) ==
    /\ app'.lib = app.lib /\ app'.truth = app.truth /\ app'.lives = app.lives /\ app'.used = app.used
    /\ agent'.known = agent.known /\ AgentMoves(Z, Y) /\ Z.begun = Y.begun /\ Z.told = Y.told
    /\ (Unharmed' => Unharmed) /\ (Clean(Y) => Clean(Z)) /\ (agent'.unknown # {} => told'.lossy)
\* A call that t begins.
Joins(t, g, Z, H) ==
    /\ FrameFits(g)'
    /\ g.ctx # Null => H[g.ctx] = g.ptr /\ ~Stepping(g) /\ (Runs(g.ctx, Z) => CallFits(t, g)')

LEMMA SameLib ==
    ASSUME app'.lib = app.lib
    PROVE  LibFits /\ \A p \in Pointers : (Live(p)' <=> Live(p)) /\ \A c : Of(c, p)' <=> Of(c, p)
BY DEF LibFits, Live, Of

LEMMA PassiveSound ==
    ASSUME Held, NEW Z, NEW Y, NEW H, Sound(Z, H), Passive(Z, Y),
           NEW t, NEW d, NEW G, NEW low, NEW n, Carry(t, d, G, low, n),
           \A c \in DOMAIN agent.known : NotEnding(t, low, c),
           t \in Threads => Apart(frames'[t]), \A g \in G : Joins(t, g, Z, H)
    PROVE  Sound(Y, H)'
<1>0. Inv /\ Inv' /\ AppInv /\ FrameInv /\ AgentInv(Z, H)
  BY DEF Held, Sound
<1>1. LibFits /\ \A p \in Pointers : (Live(p)' <=> Live(p)) /\ \A c : Of(c, p)' <=> Of(c, p)
  BY SameLib DEF Passive
<1>2. FrameInv'
  <2>1. setting' = setting /\ (Unharmed' => Unharmed) /\ \A g \in G : FrameFits(g)'
    BY DEF Held, Passive, Joins
  <2> QED BY <1>0, <1>1, <2>1, FramesKept
<1>3. AppInv'
  <2>1. \A p \in Pointers : Advances(p)
    <3>1. ASSUME NEW p \in Pointers, Live(p)' PROVE app.lib[p].n <= app'.lib[p].n
      <4>1. app.lib[p] \in Statement
        BY <1>0, <1>1, <3>1 DEF Inv, Shape, AppOK, Live
      <4>2. app.lib[p].n \in Nat
        BY <4>1 DEF Statement
      <4> QED BY <4>2 DEF Passive
    <3> QED BY <1>1, <3>1 DEF Advances, Passive
  <2>2. \A c \in DOMAIN agent.known : Within(agent.known[c].last)'
    BY <1>0 DEF AppInv, Passive, Within, Held
  <2>3. AppMoves([p \in Pointers |-> p])
    BY <2>1, <2>2 DEF AppMoves, Passive, AgentMoves
  <2> QED BY <1>0, <2>3, AppKept
<1>4. AgentInv(Y, H)'
  <2>1. AgentMoves(Z, Y) /\ \A g \in G : g.ctx # Null => H[g.ctx] = g.ptr
    BY DEF Passive, Joins
  <2> QED BY <1>0, <2>1, AgentStays
<1>5. ASSUME Unharmed', Clean(Y) PROVE RunInv(Y)' /\ Y.told \subseteq app'.truth
  <2>1. RunInv(Z) /\ Z.told \subseteq app.truth
    BY <1>5 DEF Passive, Sound
  <2>2. ASSUME NEW c \in DOMAIN agent.known
        PROVE  /\ Undisturbed(c, Z, Y) /\ NotEnding(t, low, c)
               /\ \A g \in G : g.ctx = c => ~Stepping(g) /\ CallFits(t, g)'
    <3>1. Undisturbed(c, Z, Y)
      BY <1>1 DEF Undisturbed, Passive
    <3>2. c # Null /\ Runs(c, Z)
      BY <1>0, <2>1, NullAssumption DEF Inv, Shape, AgentOK, AppOK, RunInv
    <3> QED BY <3>1, <3>2 DEF Joins
  <2>3. /\ DOMAIN agent'.known = DOMAIN agent.known /\ \A x \in app'.truth : x \in app.truth
        /\ \A p \in Pointers : Live(p)' /\ Running(app'.lib[p]) =>
              (Live(p) /\ Running(app.lib[p]) /\ app'.lib[p].life = app.lib[p].life)
    BY <1>1 DEF Passive
  <2>4. RunInv(Y)'
    <3> PICK cs : cs = {}
      OBVIOUS
    <3>1. /\ \A c \in DOMAIN agent.known : c \notin cs =>
              /\ Undisturbed(c, Z, Y) /\ NotEnding(t, low, c)
              /\ \A g \in G : g.ctx = c => ~Stepping(g) /\ CallFits(t, g)'
          /\ \A c \in DOMAIN agent.known : c \in cs => Runs(c, Y)'
      BY <2>2
    <3> QED BY <1>0, <1>2, <2>1, <2>3, <3>1, RunsKept
  <2> QED BY <2>1, <2>4 DEF Passive
<1> QED BY <1>2, <1>3, <1>4, <1>5 DEF Sound

LEMMA PassiveCalm ==
    ASSUME Held, NEW Z, NEW Y, Passive(Z, Y),
           NEW t, NEW d, NEW G, NEW low, NEW n \in 0 .. Len(agent.queue), Carry(t, d, G, low, n),
           \A g \in G : Unharmed' => ~Stepping(g), t \in Threads => ~WaitsFor(t, n)
    PROVE  Calm(n)
<1>1. ASSUME NEW w \in n .. Len(agent.queue), Unharmed', Still(w)
      PROVE  app'.truth = app.truth /\ Still(w - n)'
  <2>1. w \in Nat /\ n \in Nat /\ n <= w
    BY <1>1 DEF Held, Inv, Shape, RecordsOK
  <2>2. \A g \in G : Stepping(g) => g.behind > w - n
    BY <1>1
  <2>3. \A p \in Pointers : Live(p)' => Live(p) /\ app'.lib[p].runner = app.lib[p].runner
    BY SameLib DEF Passive
  <2>4. \A c \in DOMAIN agent'.known : agent'.known[c].active # Null =>
             /\ c \in DOMAIN agent.known /\ agent.known[c].active # Null
             /\ agent'.known[c].owner = agent.known[c].owner
    BY DEF Passive
  <2>5. Still(w - n)'
    BY <1>1, <2>1, <2>2, <2>3, <2>4, StillKept DEF Held
  <2> QED BY <2>5 DEF Passive
<1> QED BY <1>1 DEF Calm

\* Such a step makes no record, or one that the tracker counts nothing by.
LEMMA PassiveSteps ==
    ASSUME Held, NEW J, NEW H, TruthInv(J, H), NEW Z, Z = Last(J), NEW Y, Passive(Z, Y),
           NEW t, NEW d, NEW G, NEW low, NEW n \in 0 .. Len(agent.queue), Carry(t, d, G, low, n),
           \A c \in DOMAIN agent.known : NotEnding(t, low, c),
           t \in Threads => Apart(frames'[t]), \A g \in G : Joins(t, g, Z, H),
           Len(wire') = n, t \in Threads => ~WaitsFor(t, n)
    PROVE  /\ Steps(n) /\ Sound(Y, H)'
           /\ Y = Z /\ Stream' = Stream => TruthInv(J, H)'
<1>1. Sound(Z, H)
  BY SoundNow DEF Held
<1>2. Sound(Y, H)'
  BY <1>1, PassiveSound
<1>3. ASSUME NEW g \in G, Unharmed' PROVE ~Stepping(g)
  <2>1. g.ctx = Null /\ InUse(g) => g.op # "step"
    BY <1>3 DEF Joins, FrameFits
  <2>2. Stepping(g) => InUse(g) /\ g.op = "step"
    BY DEF Stepping, InUse
  <2> QED BY <2>1, <2>2 DEF Joins
<1>4. Calm(n)
  BY <1>3, PassiveCalm
<1>5. Steps(n)
  BY <1>4 DEF Steps, Held, Passive
<1>6. ASSUME Y = Z, Stream' = Stream PROVE TruthInv(J, H)'
  BY <1>2, <1>5, <1>6, NoRecord DEF Held
<1> QED BY <1>2, <1>5, <1>6

-----------------------------------------------------------------------------
(* The steps that leave the statements, the executions and the counts alone. *)

LEMMA IdleCarry ==
    ASSUME Shape, frames' = frames, NEW t, t \notin Threads
    PROVE  Carry(t, 0, {}, 0, 0)
<1>1. \A u \in Threads : DOMAIN frames[u] \subseteq Int /\ u # t
  BY IntDomain
<1>2. \A u \in Threads : \A j \in DOMAIN frames[u] : Alike(frames[u][j], frames[u][j], 0)
  BY FrameIsCall, SelfAlike
<1>3. \A u \in Threads : \A i \in DOMAIN frames'[u] : Was(t, 0, u, i) = i /\ Goes1(t, 0, 0, 0, u, i)
  BY <1>1, <1>2 DEF Was, Goes1
<1> QED BY <1>1, <1>3 DEF Carry

LEMMA PassiveFrom ==
    ASSUME NEW Z, NEW H, AgentInv(Z, H),
           app'.lib = app.lib, app'.truth = app.truth, app'.lives = app.lives, app'.used = app.used,
           agent'.known = agent.known,
           \A p \in DOMAIN agent'.contexts : p \in DOMAIN agent.contexts /\ agent'.contexts[p] = agent.contexts[p],
           Unharmed' => Unharmed, agent'.unknown # {} => told'.lossy
    PROVE  Passive(Z, Z)
<1>1. AgentMoves(Z, Z)
  BY DEF AgentMoves, KnownStays, AgentInv
<1> QED BY <1>1 DEF Passive

\* A thread that may call ends nothing by it, and waits for nothing.
LEMMA FreeCall ==
    ASSUME Shape, NEW t \in Threads, MayCall(t)
    PROVE  (\A c : NotEnding(t, 0, c)) /\ \A w : ~WaitsFor(t, w)
<1>1. \A i \in DOMAIN frames[t] : frames[t][i].op = "step" /\ frames[t][i].at = "inside"
  BY MayCallInside
<1>2. \A j \in DOMAIN frames[t] : j > 0
  <2>1. frames[t] \in Seq(Call)
    BY FrameIsCall
  <2> QED BY <2>1
<1> QED BY <1>1, <1>2 DEF NotEnding, MeteredBy, EndedBy, Metered, Ends1, WaitsFor

LEMMA EnterApart ==
    ASSUME Shape, Shape', NEW t \in Threads, NEW op, NEW p, MayUse(t, op, p), op # "step",
           NEW g \in Call, g.ptr = p, Enter(t, g)
    PROVE  Apart(frames'[t])
<1>1. /\ frames'[t][1] = g
      /\ \A i \in DOMAIN frames'[t] : i > 1 => \E j \in DOMAIN frames[t] : frames'[t][i] = frames[t][j]
  BY EnterCarry
<1>2. \A j \in DOMAIN frames[t] : frames[t][j].ptr # p
  BY DEF MayUse, Range
<1> QED BY <1>1, <1>2 DEF Apart

LEMMA StepApart ==
    ASSUME Shape, Shape', NEW t \in Threads, NEW g \in Call, g.op = "step", Enter(t, g)
    PROVE  Apart(frames'[t])
<1>1. frames'[t][1] = g
  BY EnterCarry
<1> QED BY <1>1 DEF Apart

\* A call that begins and does not wait.
LEMMA CallBegins ==
    ASSUME Held, NEW J, NEW H, TruthInv(J, H), Passive(Last(J), Last(J)),
           NEW t \in Threads, NEW op, NEW p, MayUse(t, op, p),
           NEW g \in Call, g.op = op, g.ptr = p, Enter(t, g), Joins(t, g, Last(J), H),
           wire' = wire, agent'.queue = agent.queue
    PROVE  TruthInv(J, H)'
<1>0. Shape /\ Shape' /\ Inv /\ Inv' /\ wire = << >> /\ MayCall(t)
  BY DEF Held, Inv, MayUse
<1> PICK Z : Z = Last(J)
  OBVIOUS
<1>1. Carry(t, -1, {g}, 0, 0)
  BY <1>0, EnterCarry
<1>2. Apart(frames'[t])
  BY <1>0, EnterApart, StepApart
<1>3. (\A c : NotEnding(t, 0, c)) /\ ~WaitsFor(t, 0)
  BY <1>0, FreeCall
<1>4. Stream' = agent'.queue /\ Len(wire') = 0 /\ 0 \in 0 .. Len(agent.queue) /\ Stream = agent.queue
  BY <1>0, StreamStays, QueueOnly
<1> PICK d : d = -1
  OBVIOUS
<1> PICK n \in 0 .. Len(agent.queue) : n = 0
  BY <1>4
<1> PICK G : G = {g}
  OBVIOUS
<1>5. Carry(t, d, G, 0, n) /\ Len(wire') = n /\ ~WaitsFor(t, n) /\ (\A h \in G : Joins(t, h, Z, H)) /\ Passive(Z, Z)
  BY <1>1, <1>3, <1>4
<1>6. Stream' = Stream
  BY <1>4
<1> QED BY <1>2, <1>3, <1>5, <1>6, PassiveSteps

LEMMA LoadTrue ==
    ASSUME Held, NEW J, NEW H, TruthInv(J, H), NEW m \in Modules, Load(m)
    PROVE  TruthInv(J, H)'
<1>0. Shape /\ Inv /\ Inv' /\ wire = << >> /\ AppOK /\ ToldOK
  BY DEF Held, Inv, Shape
<1> PICK Z : Z = Last(J)
  OBVIOUS
<1>1. /\ app'.lib = app.lib /\ app'.truth = app.truth /\ app'.lives = app.lives /\ app'.used = app.used
      /\ agent' = agent /\ told'.lossy = told.lossy /\ frames' = frames /\ wire' = wire
  <2>1. told' = [told EXCEPT !.status = CurrentStatus(app'.loaded, agent)]
    BY DEF Load, Say
  <2> QED BY <1>0, <2>1 DEF Load, AppOK, ToldOK, Telling
<1>2. AppInv /\ AgentInv(Z, H)
  BY SoundNow DEF Held, Sound
<1>3. Passive(Z, Z)
  <2>1. (Unharmed' => Unharmed) /\ (agent'.unknown # {} => told'.lossy)
    BY <1>1, <1>2 DEF Unharmed, AppInv
  <2> QED BY <1>1, <1>2, <2>1, PassiveFrom
<1>4. Null \notin Threads
  BY NullAssumption
<1>5. Carry(Null, 0, {}, 0, 0)
  BY <1>0, <1>1, <1>4, IdleCarry
<1>6. Stream' = agent'.queue /\ Len(wire') = 0 /\ 0 \in 0 .. Len(agent.queue) /\ Stream = agent.queue
  BY <1>0, <1>1, StreamStays, QueueOnly
<1> PICK n \in 0 .. Len(agent.queue) : n = 0
  BY <1>6
<1> PICK d, G : d = 0 /\ G = {}
  OBVIOUS
<1>7. Carry(Null, d, G, 0, n) /\ Len(wire') = n /\ (\A h \in G : Joins(Null, h, Z, H)) /\ \A c : NotEnding(Null, 0, c)
  BY <1>4, <1>5, <1>6 DEF NotEnding
<1>8. Stream' = Stream
  BY <1>1, <1>6
<1> QED BY <1>3, <1>4, <1>7, <1>8, PassiveSteps

LEMMA ConflictsTrue ==
    ASSUME Held, NEW J, NEW H, TruthInv(J, H), NEW t \in Threads, NEW p \in Pointers, NEW op \in HookNames \ {"prepare"},
           Conflicts(t, op, p)
    PROVE  TruthInv(J, H)'
<1>0. Shape /\ AppOK /\ ToldOK /\ MayUse(t, op, p) /\ Live(p)
  BY DEF Held, Inv, Shape, Conflicts, MayUse
<1> PICK Z, g : Z = Last(J) /\ g = Frame(op, p, app.lib[p].module, Null, "inside")
  OBVIOUS
<1>1. g \in Call /\ g.op = op /\ g.ptr = p /\ g.ctx = Null /\ g.at = "inside" /\ Enter(t, g)
  BY <1>0, FrameMade, LiveStatement DEF Conflicts
<1>2. app' = app /\ agent' = agent /\ wire' = wire /\ told'.lossy
  <2>1. told' = [told EXCEPT !.lossy = TRUE]
    BY DEF Conflicts, Say
  <2> QED BY <1>0, <2>1 DEF Conflicts, ToldOK, Telling
<1>3. AgentInv(Z, H)
  BY SoundNow DEF Held, Sound
<1>4. Passive(Z, Z)
  BY <1>2, <1>3, PassiveFrom DEF Unharmed
<1>5. FrameFits(g)'
  BY <1>1, <1>2 DEF FrameFits, Unharmed
<1>6. Joins(t, g, Z, H)
  BY <1>1, <1>5 DEF Joins
<1> QED BY <1>0, <1>1, <1>2, <1>4, <1>6, CallBegins

LEMMA UnobservedTrue ==
    ASSUME Held, DoctorInv, NEW J, NEW H, TruthInv(J, H),
           NEW t \in Threads, NEW p \in Pointers, NEW op \in HookNames \ {"prepare"}, Unobserved(t, op, p)
    PROVE  TruthInv(J, H)'
<1>0. Shape /\ AppOK /\ ToldOK /\ AgentOK /\ MayUse(t, op, p) /\ Live(p)
  BY DEF Held, Inv, Shape, Unobserved, MayUse
<1> PICK Z, g, m : Z = Last(J) /\ g = Frame(op, p, app.lib[p].module, Null, "inside") /\ m = app.lib[p].module
  OBVIOUS
<1>1. g \in Call /\ g.op = op /\ g.ptr = p /\ g.ctx = Null /\ g.at = "inside" /\ Enter(t, g) /\ m \in Modules
  BY <1>0, FrameMade, LiveStatement DEF Unobserved
<1> PICK new : new = (Hooks(op, p) /\ p \notin agent.unknown)
  OBVIOUS
<1>2. /\ app' = app /\ wire' = wire /\ told'.lossy = (told.lossy \/ new)
      /\ agent'.known = agent.known /\ agent'.contexts = agent.contexts /\ agent'.partial = agent.partial
      /\ agent'.queue = agent.queue /\ (agent'.unknown = agent.unknown \/ new)
  <2>1. told' = [told EXCEPT !.lossy = @ \/ new]
    BY DEF Unobserved, Say
  <2> QED BY <1>0, <2>1 DEF Unobserved, ToldOK, Telling, AgentOK
<1>3. AppInv /\ AgentInv(Z, H)
  BY SoundNow DEF Held, Sound
<1>4. (Unharmed' => Unharmed) /\ (agent'.unknown # {} => told'.lossy)
  BY <1>2, <1>3 DEF Unharmed, AppInv
<1>5. Passive(Z, Z)
  BY <1>2, <1>3, <1>4, PassiveFrom
<1>6. ASSUME Unharmed' PROVE op # "step" /\ app.lib[p].life = p
  <2>1. agent.unknown = {} /\ ~new /\ ~agent.partial
    BY <1>2, <1>3, <1>6 DEF Unharmed, AppInv
  <2>2. op \notin Hooked[m]
    BY <2>1 DEF Hooks
  <2>3. op # "step" /\ "prepare" \in Hooked[m] /\ ~Complete(m)
    <3>1. m \in app.used \cup Range(setting.inherited) /\ Observed
      BY <1>0 DEF Held, Whole, LibUsed
    <3> QED BY <1>1, <2>2, <3>1 DEF Observed, Complete
  <2>4. m \notin app.used
    BY <2>1, <2>3, Zenon DEF DoctorInv
  <2> QED BY <1>0, <1>3, <2>3, <2>4 DEF AppInv
<1>7. FrameFits(g)'
  <2>1. app'.lib[g.ptr] = app.lib[p]
    BY <1>1, <1>2
  <2> QED BY <1>1, <1>6, <2>1 DEF FrameFits
<1>8. Joins(t, g, Z, H)
  BY <1>1, <1>7 DEF Joins
<1> QED BY <1>0, <1>1, <1>2, <1>5, <1>8, CallBegins

\* A count that is read leaves room for the work of an execution.
LEMMA ReadingWithin ==
    ASSUME Shape, NEW s \in Statement
    PROVE  Within(Reading(s)) /\ Reading(s) \in Counts \cup {Null} /\ (Reading(s) # Null => Reading(s) = s.counter)
<1>1. setting.work \in Nat /\ 2 * setting.work < Wrap /\ Wrap \in Nat
  <2>1. setting \in Settings /\ setting \in Setting
    BY SettingsAssumption DEF Shape, AppOK
  <2> QED BY <2>1, CountersAssumption DEF Setting
<1>2. ASSUME Reading(s) # Null PROVE Reading(s) = s.counter /\ s.counter < Wrap \div 2
  BY <1>2 DEF Reading
<1>3. s.counter \in Counts
  BY DEF Statement
<1>4. ASSUME NEW v \in Nat, v < Wrap \div 2 PROVE v + setting.work < Wrap
  BY <1>1, <1>4
<1> QED BY <1>2, <1>3, <1>4, ReadingCounted DEF Within, Counts

\* A call on a statement that a step of it is under way in is of the thread that began
\* its execution.
LEMMA NobodySteps ==
    ASSUME Shape, FrameInv, NEW Z, NEW H, AgentInv(Z, H), NEW c \in DOMAIN agent.known, Runs(c, Z),
           NEW p \in Pointers, H[c] = p, NEW t \in Threads, NEW op \in {"reset", "finalize"}, MayUse(t, op, p),
           op = "reset" => agent.known[c].owner = t,
           NEW u \in Threads, NEW i \in DOMAIN frames[u], frames[u][i].ctx = c, frames[u][i].op = "step",
           InUse(frames[u][i])
    PROVE  FALSE
<1> PICK f : f = frames[u][i]
  OBVIOUS
<1>0. c # Null
  BY NullAssumption DEF Shape, AgentOK, AppOK
<1>1. f.ptr = p /\ f.op = "step" /\ f.at \in {"enter", "measure", "inside"} /\ f.ctx = c
  BY <1>0 DEF AgentInv, InUse
<1>2. ~On(p, IF op = "finalize" THEN HookNames ELSE {"finalize"}) /\ \A g \in Range(frames[t]) : g.ptr # p
  BY DEF MayUse
<1>3. op = "reset"
  <2>1. ASSUME op = "finalize" PROVE On(p, HookNames)
    BY <1>1 DEF On, HookNames
  <2> QED BY <1>2, <2>1
<1>4. CallFits(u, f)
  BY Zenon DEF Runs, CallsFit
<1>5. agent.known[c].owner = u
  BY <1>1, <1>4 DEF CallFits
<1>6. u = t
  BY <1>3, <1>5
<1> QED BY <1>1, <1>2, <1>6 DEF Range

\* The statement at a pointer with a context is the context's.
LEMMA HomeFits ==
    ASSUME AppInv, NEW Z, NEW H, AgentInv(Z, H), NEW p \in Pointers, Live(p), p \in DOMAIN agent.contexts
    PROVE  H[agent.contexts[p]] = p
<1>1. /\ p \in DOMAIN Z.cur
      /\ Z.cur[p] = [life |-> agent.contexts[p], module |-> agent.known[agent.contexts[p]].module]
  BY DEF AgentInv
<1>2. Z.cur[p].life = agent.contexts[p]
  BY <1>1
<1> QED BY <1>1, <1>2 DEF AgentInv

LEMMA ContextFits ==
    ASSUME AppInv, NEW Z, NEW H, AgentInv(Z, H), NEW p \in Pointers, Live(p), p \in DOMAIN agent.contexts
    PROVE  /\ app.lib[p].life = agent.contexts[p]
           /\ p \in DOMAIN Z.cur
           /\ Z.cur[p] = [life |-> agent.contexts[p], module |-> agent.known[agent.contexts[p]].module]
BY DEF AppInv, AgentInv

LEMMA EntersFits ==
    ASSUME Held, NEW Z, NEW H, Sound(Z, H), NEW t \in Threads, NEW p \in Pointers,
           NEW op \in {"reset", "finalize"}, MayUse(t, op, p), NEW c, c = Found(op, p), c # Null,
           op = "reset" => ~(IsActive(c) /\ Owned(c, t)), app' = app, agent' = agent,
           NEW g, g.op = op, g.ptr = p, g.ctx = c,
           \/ ~IsActive(c) /\ g.at = "inside" /\ g.value = Null
           \/ IsActive(c) /\ g.at = "measure" /\ g.value = Reading(app.lib[p]),
           Runs(c, Z)
    PROVE  CallFits(t, g)'
<1>0. /\ Shape /\ AgentOK /\ AppOK /\ AppInv /\ FrameInv /\ AgentInv(Z, H) /\ Live(p)
      /\ app.lib[p] \in Statement
  BY LiveStatement DEF Held, Inv, Shape, Sound, MayUse
<1>1. c \in DOMAIN agent.known /\ c = agent.contexts[p] /\ p \in DOMAIN agent.contexts
  BY <1>0, FoundKnown
<1>2. H[c] = p /\ Of(c, p)
  <2>1. H[agent.contexts[p]] = p
    BY <1>0, <1>1, HomeFits
  <2>2. app.lib[p].life = agent.contexts[p]
    BY <1>0, <1>1, ContextFits
  <2> QED BY <1>0, <1>1, <2>1, <2>2 DEF Of
<1> PICK k, s : k = agent.known[c] /\ s = app.lib[p]
  OBVIOUS
<1>3. CASE ~IsActive(c)
  <2>1. ~Metered(t, g)' /\ k.active = Null
    BY <1>1, <1>3 DEF Metered, IsActive
  <2>2. g.op # "step" /\ g.at = "inside" /\ g.value = Null
    BY <1>3
  <2> QED BY <2>1, <2>2 DEF CallFits, Stepping, Ends1
<1>4. CASE IsActive(c)
  <2>1. g.op # "step" /\ g.at = "measure" /\ g.value = Reading(s) /\ k.active # Null
    BY <1>4 DEF IsActive
  <2>2. k.owner \in Threads
    BY <2>1 DEF Runs, Opened
  <2>3. op = "reset" => k.owner = t
    BY <1>4, <2>2, NullAssumption DEF Owned
  <2>4. ASSUME NEW u \in Threads, NEW i \in DOMAIN frames[u], frames[u][i].ctx = c, frames[u][i].op = "step",
               InUse(frames[u][i])
        PROVE  FALSE
    BY <1>0, <1>1, <1>2, <2>3, <2>4, NobodySteps
  <2>5. ~(k.depth >= 1)
    <3>1. OneStep(c)
      BY DEF Runs
    <3> QED BY <2>4, <3>1 DEF OneStep, Stepping, InUse
  <2>6. \A u \in Threads : ~EndedBy(u, c)
    BY <2>4 DEF EndedBy, Ends1, InUse
  <2>7. Stands(c, s)
    BY <1>2 DEF Runs
  <2>8. Running(s)
    BY <2>1, <2>5, <2>6, <2>7 DEF Stands
  <2>9. g.value # Null => g.value = s.counter
    BY <1>0, <2>1, ReadingWithin
  <2>10. ~Metered(t, g)'
    BY <2>1 DEF Metered
  <2> QED BY <2>1, <2>3, <2>8, <2>9, <2>10 DEF CallFits, Stepping, Ends1
<1> QED BY <1>3, <1>4

LEMMA EntersTrue ==
    ASSUME Held, NEW J, NEW H, TruthInv(J, H), NEW t \in Threads, NEW p \in Pointers,
           NEW op \in {"reset", "finalize"}, Enters(t, op, p)
    PROVE  TruthInv(J, H)'
<1> PICK Z, c, f : Z = Last(J) /\ c = Found(op, p) /\ f = Frame(op, p, app.lib[p].module, c, "inside")
  OBVIOUS
<1> PICK g : g = IF IsActive(c) THEN [f EXCEPT !.at = "measure", !.value = Reading(app.lib[p])] ELSE f
  OBVIOUS
<1>0. /\ Shape /\ AppOK /\ AgentOK /\ MayUse(t, op, p) /\ Live(p) /\ c # Null
      /\ op = "reset" => ~(IsActive(c) /\ Owned(c, t))
      /\ Enter(t, g) /\ UNCHANGED <<app, agent, told, wire>>
  BY DEF Held, Inv, Shape, Enters, MayUse, Quiet
<1>1. app.lib[p] \in Statement /\ app.lib[p].module \in Modules /\ op \in HookNames
  BY <1>0, LiveStatement DEF HookNames
<1>2. c \in DOMAIN agent.known /\ c = agent.contexts[p] /\ p \in DOMAIN agent.contexts /\ c \in Nat
  BY <1>0, FoundKnown DEF AppOK, AgentOK
<1>3. f \in Call /\ f.op = op /\ f.ptr = p /\ f.ctx = c /\ f.at = "inside" /\ f.value = Null
  BY <1>1, <1>2, FrameMade
<1>4. Within(Reading(app.lib[p])) /\ Reading(app.lib[p]) \in Counts \cup {Null}
  BY <1>0, <1>1, ReadingWithin
<1>5. /\ g \in Call /\ g.op = op /\ g.ptr = p /\ g.ctx = c
      /\ \/ ~IsActive(c) /\ g.at = "inside" /\ g.value = Null
         \/ IsActive(c) /\ g.at = "measure" /\ g.value = Reading(app.lib[p])
  <2>1. CASE IsActive(c)
    <3>1. g = Placed(f, "measure", Reading(app.lib[p]))
      BY <2>1 DEF Placed
    <3>2. Same(g, f) /\ g.at = "measure" /\ g.value = Reading(app.lib[p])
      BY <1>3, <1>4, <3>1, PlacedSame
    <3> QED BY <1>3, <2>1, <3>2 DEF Same
  <2>2. CASE ~IsActive(c)
    BY <1>3, <2>2
  <2> QED BY <2>1, <2>2
<1>6. Sound(Z, H) /\ AppInv /\ AgentInv(Z, H)
  BY SoundNow DEF Held, Sound
<1>7. Passive(Z, Z)
  BY <1>0, <1>6, PassiveFrom DEF Unharmed, AppInv
<1>8. app.lib[p].life = c /\ H[c] = p
  <2>1. app.lib[p].life = c
    BY <1>0, <1>2, <1>6, ContextFits
  <2>2. H[c] = p
    BY <1>0, <1>2, <1>6, HomeFits
  <2> QED BY <2>1, <2>2
<1>9. FrameFits(g)'
  <2>1. app'.lib[g.ptr].life = c /\ g.at # "freed" /\ g.ctx # Null
    BY <1>0, <1>5, <1>8
  <2>2. g.at = "measure" => Within(g.value)'
    BY <1>4, <1>5 DEF Within, Held
  <2> QED BY <1>5, <2>1, <2>2 DEF FrameFits
<1>10. Runs(c, Z) => CallFits(t, g)'
  BY <1>0, <1>5, <1>6, EntersFits
<1>11. Joins(t, g, Z, H)
  BY <1>5, <1>8, <1>9, <1>10 DEF Joins, Stepping
<1> QED BY <1>0, <1>5, <1>7, <1>11, CallBegins

\* What a hook that leaves ends.
LEMMA LeavesFree ==
    ASSUME Shape, NEW t \in Threads, frames[t] # << >>, Top(t).at \in {"leave", "freed"}
    PROVE  (\A c : NotEnding(t, 1, c)) /\ \A w : ~WaitsFor(t, w)
<1>1. Top(t) = frames[t][1] /\ 1 \in DOMAIN frames[t] /\ DOMAIN frames[t] \subseteq Nat \ {0}
  <2>1. frames[t] \in Seq(Call)
    BY FrameIsCall
  <2> QED BY <2>1, TopOK
<1>2. ASSUME NEW j \in DOMAIN frames[t], Stepping(frames[t][j]) PROVE j > 1
  BY <1>1, <1>2 DEF Stepping
<1> QED BY <1>1, <1>2 DEF NotEnding, MeteredBy, EndedBy, Metered, Ends1, WaitsFor

LEMMA PopApart ==
    ASSUME NEW t, \A i \in DOMAIN frames'[t] : frames'[t][i].op = "step" /\ frames'[t][i].at = "inside"
    PROVE  Apart(frames'[t])
BY DEF Apart

LEMMA HookEndsTrue ==
    ASSUME Held, NEW J, NEW H, TruthInv(J, H), NEW t \in Threads, HookEnds(t)
    PROVE  TruthInv(J, H)'
<1>0. /\ Shape /\ Shape' /\ Inv /\ Inv' /\ wire = << >> /\ AgentOK /\ AppOK /\ frames[t] # << >>
      /\ Top(t).at = "leave" /\ GoOn(t, Tail(frames[t])) /\ UNCHANGED <<app, told>>
      /\ agent' = [agent EXCEPT !.queue = Unsent(Top(t).behind)]
  BY DEF Held, Inv, Shape, HookEnds, At
<1> PICK Z, n : Z = Last(J) /\ n = Top(t).behind
  OBVIOUS
<1>1. /\ agent'.known = agent.known /\ agent'.contexts = agent.contexts /\ agent'.partial = agent.partial
      /\ agent'.unknown = agent.unknown /\ agent'.queue = Unsent(n)
  BY <1>0 DEF AgentOK
<1>2. AppInv /\ AgentInv(Z, H)
  BY SoundNow DEF Held, Sound
<1>3. Passive(Z, Z)
  BY <1>0, <1>1, <1>2, PassiveFrom DEF Unharmed, AppInv
<1>4. Carry(t, 1, {}, 1, n) /\ Apart(frames'[t])
  BY <1>0, PopCarry, PopApart
<1>5. (\A c : NotEnding(t, 1, c)) /\ ~WaitsFor(t, n)
  BY <1>0, LeavesFree
<1>6. StackOK(Tail(frames[t]), DOMAIN agent.known, 0)
  BY <1>0, TopOK
<1>7. Stream' = agent.queue \o << >> /\ Len(wire') = n /\ n \in 0 .. Len(agent.queue)
  <2>1. Unsent(n) \in Seq(Event)
    BY <1>0, <1>1 DEF Shape, RecordsOK
  <2>2. agent'.queue = Unsent(n) \o << >> /\ << >> \in Seq(Event)
    BY <1>1, <2>1
  <2> PICK s : s = Tail(frames[t])
    OBVIOUS
  <2> PICK es : es = << >>
    OBVIOUS
  <2>3. es \in Seq(Event) /\ agent'.queue = Unsent(Top(t).behind) \o es
    BY <2>2
  <2>4. StackOK(s, DOMAIN agent.known, 0) /\ GoOn(t, s)
    BY <1>0, <1>6
  <2>5. Stream' = agent.queue \o es /\ Len(wire') = Top(t).behind /\ Top(t).behind \in 0 .. Len(agent.queue)
    BY <1>0, <2>3, <2>4, Arriving
  <2> QED BY <2>5
<1>8. Stream' = Stream
  <2>1. agent.queue \in Seq(Event) /\ Stream = agent.queue
    BY <1>0, QueueOnly
  <2>2. agent.queue \o << >> = agent.queue
    BY <2>1
  <2> QED BY <1>7, <2>1, <2>2
<1> PICK G, d, low : G = {} /\ d = 1 /\ low = 1
  OBVIOUS
<1>9. Carry(t, d, G, low, n) /\ (\A h \in G : Joins(t, h, Z, H)) /\ \A c : NotEnding(t, low, c)
  BY <1>4, <1>5
<1> QED BY <1>3, <1>4, <1>5, <1>7, <1>8, <1>9, PassiveSteps

\* What a hook waited for has arrived, and it adds es to the queue.
LEMMA WentOn ==
    ASSUME Held, NEW t \in Threads, frames[t] # << >>, NEW s, StackOK(s, DOMAIN agent.known, 0), GoOn(t, s),
           NEW es \in Seq(Event), NEW n, n = Top(t).behind, agent'.queue = Unsent(n) \o es
    PROVE  /\ Stream' = agent.queue \o es /\ Len(wire') = n /\ n \in 0 .. Len(agent.queue)
           /\ Stream = agent.queue /\ agent.queue \in Seq(Event)
<1>1. Inv /\ wire = << >>
  BY DEF Held
<1>2. Stream = agent.queue /\ agent.queue \in Seq(Event)
  BY <1>1, QueueOnly
<1>3. agent'.queue = Unsent(Top(t).behind) \o es
  OBVIOUS
<1>4. Stream' = agent.queue \o es /\ Len(wire') = Top(t).behind /\ Top(t).behind \in 0 .. Len(agent.queue)
  BY <1>1, <1>3, Arriving
<1> QED BY <1>2, <1>4

LEMMA WentOnSilent ==
    ASSUME Held, NEW t \in Threads, frames[t] # << >>, NEW s, StackOK(s, DOMAIN agent.known, 0), GoOn(t, s),
           NEW n, n = Top(t).behind, agent'.queue = Unsent(n)
    PROVE  Stream' = Stream /\ Len(wire') = n /\ n \in 0 .. Len(agent.queue)
<1> PICK es : es = << >>
  OBVIOUS
<1>1. Inv'
  BY DEF Held
<1>2. agent'.queue \in Seq(Event) /\ es \in Seq(Event)
  BY <1>1 DEF Inv, Shape, RecordsOK
<1> PICK q : q = Unsent(n)
  OBVIOUS
<1>3. agent'.queue = Unsent(n) \o es
  <2>1. q \in Seq(Event) /\ q = q \o << >>
    BY <1>2
  <2> QED BY <2>1
<1>4. /\ Stream' = agent.queue \o es /\ Len(wire') = n /\ n \in 0 .. Len(agent.queue)
      /\ Stream = agent.queue /\ agent.queue \in Seq(Event)
  BY <1>2, <1>3, WentOn
<1>5. agent.queue \o << >> = agent.queue
  BY <1>4
<1> QED BY <1>4, <1>5

LEMMA BeginsTop ==
    ASSUME Shape, NEW t \in Threads, StepBegins(t)
    PROVE  /\ frames[t] # << >> /\ At(t, "step", "enter") /\ GoOn(t, <<Begins(Top(t))>> \o Tail(frames[t]))
           /\ StackOK(<<Begins(Top(t))>> \o Tail(frames[t]), DOMAIN agent.known, 0)
           /\ (\A c : NotEnding(t, 0, c)) /\ \A w \in Nat : w >= Top(t).behind => ~WaitsFor(t, w)
<1> PICK f, g, s : f = Top(t) /\ g = Begins(f) /\ s = Tail(frames[t])
  OBVIOUS
<1>1. /\ frames[t] # << >> /\ At(t, "step", "enter") /\ GoOn(t, <<g>> \o s)
      /\ f.op = "step" /\ f.at = "enter"
  BY DEF StepBegins, Begins, At
<1>2. /\ f \in Call /\ FrameOK(f, DOMAIN agent.known, Len(agent.queue)) /\ f = frames[t][1]
      /\ StackOK(s, DOMAIN agent.known, 0) /\ f.behind \in Nat
      /\ \A i \in DOMAIN s : s[i].op = "step" /\ s[i].at = "inside"
  BY <1>1, TopOK
<1>3. FrameOK(g, DOMAIN agent.known, 0)
  BY <1>1, <1>2, FrameMoves DEF FrameOK
<1>4. StackOK(<<g>> \o s, DOMAIN agent.known, 0)
  BY <1>2, <1>3, OntoStack
<1>5. \A j \in DOMAIN frames[t] : j > 0
  <2>1. frames[t] \in Seq(Call)
    BY FrameIsCall
  <2> QED BY <2>1
<1>6. \A c : NotEnding(t, 0, c)
  BY <1>1, <1>2, <1>5 DEF NotEnding, MeteredBy, EndedBy, Metered, Ends1
<1>7. \A w \in Nat : w >= f.behind => ~WaitsFor(t, w)
  BY <1>2 DEF WaitsFor
<1> QED BY <1>1, <1>4, <1>6, <1>7

LEMMA StepBeginsTrue ==
    ASSUME Held, NEW J, NEW H, TruthInv(J, H), NEW t \in Threads, StepBegins(t)
    PROVE  TruthInv(J, H)'
<1>0. Shape /\ Shape' /\ AgentOK /\ UNCHANGED <<app, told>> /\ agent' = [agent EXCEPT !.queue = Unsent(Top(t).behind)]
  BY DEF Held, Inv, Shape, StepBegins
<1> PICK Z, n : Z = Last(J) /\ n = Top(t).behind
  OBVIOUS
<1> PICK r : r = <<Begins(Top(t))>> \o Tail(frames[t])
  OBVIOUS
<1>1. /\ agent'.known = agent.known /\ agent'.contexts = agent.contexts /\ agent'.partial = agent.partial
      /\ agent'.unknown = agent.unknown /\ agent'.queue = Unsent(n)
  BY <1>0 DEF AgentOK
<1>2. AppInv /\ AgentInv(Z, H)
  BY SoundNow DEF Held, Sound
<1>3. Passive(Z, Z)
  BY <1>0, <1>1, <1>2, PassiveFrom DEF Unharmed, AppInv
<1>4. /\ frames[t] # << >> /\ At(t, "step", "enter") /\ GoOn(t, r) /\ StackOK(r, DOMAIN agent.known, 0)
      /\ (\A c : NotEnding(t, 0, c)) /\ \A w \in Nat : w >= n => ~WaitsFor(t, w)
  BY <1>0, BeginsTop
<1>5. Stream' = Stream /\ Len(wire') = n /\ n \in 0 .. Len(agent.queue)
  BY <1>1, <1>4, WentOnSilent
<1>6. n \in Nat
  BY <1>0, <1>4, TopOK
<1>7. ~WaitsFor(t, n)
  BY <1>4, <1>6
<1>8. Carry(t, 0, {}, 0, n) /\ Apart(frames'[t])
  BY <1>0, <1>4, BeginsCarry DEF Apart
<1> PICK G, d, low : G = {} /\ d = 0 /\ low = 0
  OBVIOUS
<1>9. Carry(t, d, G, low, n) /\ (\A h \in G : Joins(t, h, Z, H)) /\ \A c : NotEnding(t, low, c)
  BY <1>4, <1>8
<1> QED BY <1>3, <1>5, <1>7, <1>8, <1>9, PassiveSteps

\* What the tracker makes of a finalization.
LEMMA AfterFinalized ==
    ASSUME NEW Z, NEW e, e.type = "finalized", NEW Y, Y = After(Z, e)
    PROVE  /\ Y.begun = Z.begun /\ Y.told = Z.told /\ (Y.lost <=> Z.lost) /\ Fresh1(Z, e)
           /\ DOMAIN Y.cur \subseteq DOMAIN Z.cur /\ \A p \in DOMAIN Y.cur : Y.cur[p] = Z.cur[p]
           /\ \A p \in DOMAIN Z.cur : p # e.ptr => p \in DOMAIN Y.cur
           /\ Clean(Y) => Clean(Z)
<1>1. Y.cur = Z.cur \/ Y.cur = Drop(Z.cur, {e.ptr})
  BY DEF After
<1>2. Y.begun = Z.begun /\ Y.told = Z.told /\ (Y.lost <=> Z.lost)
  BY DEF After
<1>3. Fresh1(Z, e)
  BY DEF Fresh1
<1>4. /\ DOMAIN Y.cur \subseteq DOMAIN Z.cur /\ \A p \in DOMAIN Y.cur : Y.cur[p] = Z.cur[p]
      /\ \A p \in DOMAIN Z.cur : p # e.ptr => p \in DOMAIN Y.cur
  BY <1>1 DEF Drop
<1>5. Clean(Y) => Clean(Z)
  BY <1>2, <1>4 DEF Clean, Doomed, HasTold
<1> QED BY <1>2, <1>3, <1>4, <1>5

LEMMA FinalizeEndsTrue ==
    ASSUME Held, NEW J, NEW H, TruthInv(J, H), NEW t \in Threads, FinalizeEnds(t)
    PROVE  \E K : TruthInv(K, H)'
<1> PICK Z, n, f, s : Z = Last(J) /\ n = Top(t).behind /\ f = Top(t) /\ s = Tail(frames[t])
  OBVIOUS
<1>0. /\ Shape /\ Shape' /\ Inv /\ Inv' /\ AgentOK /\ AppOK /\ frames[t] # << >> /\ f.op = "finalize"
      /\ f.at \in {"leave", "freed"} /\ GoOn(t, s) /\ UNCHANGED <<app, told>>
      /\ agent' = [Removed(f.ptr) EXCEPT !.queue = Unsent(n) \o IF f.ctx = Null THEN << >>
                                                               ELSE <<Record("finalized", f.ptr, f.ctx)>>]
  BY DEF Held, Whole, Inv, Shape, FinalizeEnds, At
<1>1. /\ agent'.known = agent.known /\ agent'.contexts = Drop(agent.contexts, {f.ptr})
      /\ agent'.partial = agent.partial /\ agent'.unknown \subseteq agent.unknown
      /\ agent'.queue = Unsent(n) \o IF f.ctx = Null THEN << >> ELSE <<Record("finalized", f.ptr, f.ctx)>>
  BY <1>0 DEF AgentOK, Removed
<1>2. AppInv /\ AgentInv(Z, H) /\ f.ptr \in Pointers /\ (f.ctx = Null \/ f.ctx \in DOMAIN agent.known)
  BY <1>0, SoundNow, TopOK DEF Held, Sound
<1>3. /\ \A p \in DOMAIN agent'.contexts :
            p \in DOMAIN agent.contexts /\ agent'.contexts[p] = agent.contexts[p] /\ p # f.ptr
      /\ (Unharmed' => Unharmed) /\ (agent'.unknown # {} => told'.lossy)
  BY <1>0, <1>1, <1>2 DEF Drop, Unharmed, AppInv
<1>4. Carry(t, 1, {}, 1, n) /\ Apart(frames'[t])
  BY <1>0, PopCarry, PopApart
<1>5. (\A c : NotEnding(t, 1, c)) /\ ~WaitsFor(t, n)
  BY <1>0, LeavesFree
<1>6. StackOK(s, DOMAIN agent.known, 0)
  BY <1>0, TopOK
<1> PICK G, d, low : G = {} /\ d = 1 /\ low = 1
  OBVIOUS
<1>7. Carry(t, d, G, low, n) /\ (\A h \in G : Joins(t, h, Z, H)) /\ \A c : NotEnding(t, low, c)
  BY <1>4, <1>5
<1>8. CASE f.ctx = Null
  <2>1. Passive(Z, Z)
    BY <1>0, <1>1, <1>2, <1>3, PassiveFrom
  <2> PICK q : q = Unsent(n)
    OBVIOUS
  <2>2. agent'.queue = q
    <3>1. agent'.queue = q \o << >>
      BY <1>1, <1>8
    <3>2. q \in Seq(Event)
      BY <1>0, <1>6, WaitEnds DEF RecordsOK
    <3> QED BY <3>1, <3>2
  <2>3. Stream' = Stream /\ Len(wire') = n /\ n \in 0 .. Len(agent.queue)
    BY <1>0, <1>6, <2>2, WentOnSilent
  <2>4. TruthInv(J, H)'
    BY <1>4, <1>5, <1>7, <2>1, <2>3, PassiveSteps
  <2> QED BY <2>4
<1>9. CASE f.ctx # Null
  <2> PICK e, Y : e = Record("finalized", f.ptr, f.ctx) /\ Y = After(Z, e)
    OBVIOUS
  <2>1. e \in Event /\ e.type = "finalized" /\ e.ptr = f.ptr
    <3>1. e \in Event
      BY <1>0, <1>2, <1>9, RecordMade
    <3> QED BY <3>1 DEF Record
  <2>2. /\ Y.begun = Z.begun /\ Y.told = Z.told /\ (Y.lost <=> Z.lost) /\ Fresh1(Z, e)
        /\ DOMAIN Y.cur \subseteq DOMAIN Z.cur /\ \A p \in DOMAIN Y.cur : Y.cur[p] = Z.cur[p]
        /\ \A p \in DOMAIN Z.cur : p # f.ptr => p \in DOMAIN Y.cur
        /\ Clean(Y) => Clean(Z)
    BY <2>1, AfterFinalized
  <2>3. Passive(Z, Y)
    <3>1. \A p \in DOMAIN agent.contexts : p \in DOMAIN Z.cur
      BY <1>2 DEF AgentInv
    <3>2. AgentMoves(Z, Y)
      BY <1>1, <1>3, <2>2, <3>1 DEF AgentMoves, KnownStays
    <3> QED BY <1>0, <1>1, <1>3, <2>2, <3>2 DEF Passive
  <2> PICK es : es = <<e>>
    OBVIOUS
  <2>4. es \in Seq(Event) /\ agent'.queue = Unsent(n) \o es
    BY <1>1, <1>9, <2>1
  <2>5. /\ Stream' = agent.queue \o es /\ Len(wire') = n /\ n \in 0 .. Len(agent.queue)
        /\ Stream = agent.queue /\ agent.queue \in Seq(Event)
    BY <1>0, <1>6, <2>4, WentOn
  <2>6. Stream' = Append(agent.queue, e)
    <3>1. agent.queue \o <<e>> = Append(agent.queue, e)
      BY <2>1, <2>5
    <3> QED BY <2>5, <3>1
  <2>7. Steps(n) /\ Sound(Y, H)'
    BY <1>4, <1>5, <1>7, <2>3, <2>5, PassiveSteps
  <2> QED BY <1>0, <2>1, <2>2, <2>6, <2>7, OneRecord
<1> QED BY <1>8, <1>9

-----------------------------------------------------------------------------
(* The steps that move an execution on. *)

LEMMA ActiveSound ==
    ASSUME Held, NEW Z, NEW Y, NEW H, Sound(Z, H), NEW En, AppMoves(En), LibFits, Unharmed' => Unharmed,
           AgentMoves(Z, Y),
           NEW t, NEW d, NEW G, NEW low, NEW n, Carry(t, d, G, low, n),
           t \in Threads => Apart(frames'[t]),
           \A g \in G : FrameFits(g)' /\ (g.ctx # Null => H[g.ctx] = g.ptr),
           Unharmed' /\ Clean(Y) => Clean(Z),
           /\ FrameInv' /\ Unharmed' /\ Unharmed /\ Clean(Y) /\ RunInv(Z) /\ Z.told \subseteq app.truth
           => RunInv(Y)' /\ Y.told \subseteq app'.truth
    PROVE  Sound(Y, H)'
<1>1. Inv /\ Inv' /\ AppInv /\ FrameInv /\ AgentInv(Z, H) /\ setting' = setting
  BY DEF Held, Sound
<1>2. AppInv'
  BY <1>1, AppKept
<1>3. FrameInv'
  <2>1. \A g \in G : FrameFits(g)'
    OBVIOUS
  <2> QED BY <1>1, <2>1, FramesKept
<1>4. AgentInv(Y, H)'
  <2>1. \A g \in G : g.ctx # Null => H[g.ctx] = g.ptr
    OBVIOUS
  <2> QED BY <1>1, <2>1, AgentStays
<1>5. ASSUME Unharmed', Clean(Y) PROVE RunInv(Y)' /\ Y.told \subseteq app'.truth
  <2>1. RunInv(Z) /\ Z.told \subseteq app.truth
    BY <1>5 DEF Sound
  <2> QED BY <1>3, <1>5, <2>1
<1> QED BY <1>2, <1>3, <1>4, <1>5 DEF Sound

\* While nothing runs, such a step ends nothing.
LEMMA QuietCalm ==
    ASSUME Held, NEW t \in Threads, NEW d, NEW G, NEW low, Carry(t, d, G, low, 0),
           \A g \in G : ~Stepping(g), ~WaitsFor(t, 0),
           \A p \in Pointers : Live(p)' => \/ Live(p) /\ app'.lib[p].runner = app.lib[p].runner
                                           \/ app'.lib[p].runner = Null,
           \A c \in DOMAIN agent'.known : agent'.known[c].active # Null =>
              /\ c \in DOMAIN agent.known /\ agent.known[c].active # Null
              /\ agent'.known[c].owner = agent.known[c].owner,
           (\A p \in Pointers : Live(p) => ~Running(app.lib[p])) => app'.truth = app.truth
    PROVE  \A w \in 0 .. Len(agent.queue) : Still(w) => app'.truth = app.truth /\ Still(w - 0)'
<1> SUFFICES ASSUME NEW w \in 0 .. Len(agent.queue), Still(w) PROVE app'.truth = app.truth /\ Still(w - 0)'
  OBVIOUS
<1> PICK n \in Nat : n = 0
  OBVIOUS
<1>1. w \in Nat /\ n <= w /\ Inv /\ Inv'
  BY DEF Held, Inv, Shape, RecordsOK
<1>2. app'.truth = app.truth
  BY DEF Still
<1>3. \A g \in G : Stepping(g) => g.behind > w - n
  OBVIOUS
<1>4. Still(w - n)'
  BY <1>1, <1>3, StillKept
<1> QED BY <1>2, <1>4

\* A step at which nothing arrives.
LEMMA StepsOnce ==
    ASSUME Held, wire' = wire, app.truth \subseteq app'.truth, Unharmed' => Unharmed,
           \A w \in 0 .. Len(agent.queue) : Unharmed' /\ Still(w) => app'.truth = app.truth /\ Still(w - 0)'
    PROVE  Steps(0)
<1>1. Len(wire') = 0 /\ 0 \in 0 .. Len(agent.queue)
  BY StreamStays DEF Held
<1> QED BY <1>1 DEF Steps, Calm, Held

OneEntry(c, k) ==
    /\ c \in DOMAIN agent.known /\ k.module = agent.known[c].module
    /\ agent'.known = [agent.known EXCEPT ![c] = k] /\ agent'.contexts = agent.contexts
    /\ agent'.unknown = agent.unknown /\ agent'.partial = agent.partial

LEMMA OneEntryMoves ==
    ASSUME NEW c, NEW k, OneEntry(c, k)
    PROVE  /\ KnownStays /\ agent'.known[c] = k /\ DOMAIN agent'.known = DOMAIN agent.known
           /\ \A b \in DOMAIN agent.known : b # c => agent'.known[b] = agent.known[b]
BY DEF OneEntry, KnownStays

LEMMA EntryApp ==
    ASSUME Inv, AppInv, NEW c, NEW k, OneEntry(c, k), app' = app, Within(k.last), setting' = setting,
           told.lossy => told'.lossy
    PROVE  AppMoves([p \in Pointers |-> p]) /\ LibFits
<1>1. \A p \in Pointers : Advances(p)
  <2>1. ASSUME NEW p \in Pointers, Live(p)' PROVE Live(p) /\ app.lib[p].n <= app'.lib[p].n
    <3>1. Live(p)
      BY <2>1 DEF Live
    <3>2. app.lib[p].n \in Nat
      BY <3>1, LiveStatement DEF Inv, Shape, Statement
    <3> QED BY <3>1, <3>2
  <2> QED BY <2>1 DEF Advances
<1>2. \A b \in DOMAIN agent.known : Within(agent.known[b].last)'
  <2>1. \A b \in DOMAIN agent.known : agent'.known[b] = IF b = c THEN k ELSE agent.known[b]
    BY OneEntryMoves
  <2> QED BY <2>1 DEF AppInv, Within
<1>3. AppMoves([p \in Pointers |-> p])
  BY <1>1, <1>2, OneEntryMoves DEF AppMoves, OneEntry, AppInv
<1> QED BY <1>3, SameLib

\* The statement at p moves on, with the end of its execution or without.
LEMMA LibApp ==
    ASSUME Inv, AppInv, NEW p \in Pointers, Live(p), \A q \in Pointers : q # p => app'.lib[q] = app.lib[q],
           Advances(p), NEW x, \A y \in app'.truth : y \in app.truth \/ (y = x /\ Ends2(p, x)),
           app'.lives = app.lives, app'.used = app.used, KnownStays,
           \A b \in DOMAIN agent.known : agent'.known[b].last = agent.known[b].last,
           agent'.contexts = agent.contexts, agent'.unknown = agent.unknown, setting' = setting,
           told.lossy => told'.lossy
    PROVE  AppMoves([q \in Pointers |-> x]) /\ LibFits
<1>1. ASSUME NEW q \in Pointers, q # p PROVE Advances(q)
  <2>1. Live(q)' => Live(q)
    BY <1>1 DEF Live
  <2>2. Live(q) => app.lib[q].n \in Nat
    BY LiveStatement DEF Inv, Shape, Statement
  <2> QED BY <1>1, <2>1, <2>2 DEF Advances
<1>2. \A b \in DOMAIN agent.known : Within(agent.known[b].last)'
  BY DEF AppInv, Within
<1>3. AppMoves([q \in Pointers |-> x])
  BY <1>1, <1>2 DEF AppMoves, AppInv
<1>4. LibFits
  BY <1>1 DEF LibFits, Advances
<1> QED BY <1>3, <1>4

\* What the tracker makes of a start or an end.
LEMMA AfterCounts ==
    ASSUME NEW Z, NEW H, AgentInv(Z, H), NEW e, e.type \in {"started", "executed"}, NEW Y, Y = After(Z, e)
    PROVE  /\ Y.cur = Z.cur /\ Fresh1(Z, e)
           /\ \A b \in Y.begun : b \in Z.begun \/ b[1] \in DOMAIN agent.known
<1>1. Y.cur = Z.cur /\ Fresh1(Z, e)
  BY DEF After, Fresh1
<1>2. ASSUME NEW b \in Y.begun, b \notin Z.begun PROVE b[1] \in DOMAIN agent.known
  <2>1. Matched(Z, e) /\ b = <<Z.cur[e.ptr].life, e.number>>
    BY <1>2 DEF After
  <2> QED BY <2>1 DEF Matched, AgentInv
<1> QED BY <1>1, <1>2

LEMMA EntryAgent ==
    ASSUME NEW Z, NEW Y, NEW H, AgentInv(Z, H), KnownStays, agent'.contexts = agent.contexts,
           Y.cur = Z.cur, \A b \in Y.begun : b \in Z.begun \/ b[1] \in DOMAIN agent.known
    PROVE  AgentMoves(Z, Y)
BY DEF AgentMoves, AgentInv

-----------------------------------------------------------------------------
(* The calls on a statement whose execution moves on. *)

\* A reset that has nothing to say of an execution.
Idle(u, f) == f.op = "reset" /\ f.at # "measure" /\ (f.at = "inside" => f.value = Null /\ ~Metered(u, f))

\* But for the innermost call of t, nothing is under way on c.
Lonely(t, c) == \A u \in Threads : \A i \in DOMAIN frames[u] :
                   frames[u][i].ctx = c /\ (u # t \/ i # 1) => ~InUse(frames[u][i]) \/ Idle(u, frames[u][i])

LEMMA Solo ==
    ASSUME Inv, FrameInv, NEW Z, NEW H, AgentInv(Z, H), NEW c \in DOMAIN agent.known, Runs(c, Z),
           NEW t \in Threads, frames[t] # << >>, NEW f, f = Top(t), f.ctx = c, InUse(f),
           \/ f.op = "finalize"
           \/ f.op = "reset" /\ agent.known[c].active # Null /\ agent.known[c].owner = t
           \/ f.op = "step" /\ agent.known[c].depth <= 1
    PROVE  Lonely(t, c)
<1>a. SUFFICES ASSUME NEW u \in Threads, NEW i \in DOMAIN frames[u], frames[u][i].ctx = c, u # t \/ i # 1,
                      InUse(frames[u][i])
               PROVE  Idle(u, frames[u][i])
  BY DEF Lonely
<1>b. PICK e, k : e = frames[u][i] /\ k = agent.known[c]
  OBVIOUS
<1>0. c # Null /\ k \in Known
  BY <1>b, NullAssumption DEF Inv, Shape, AgentOK, AppOK
<1>1. f = frames[t][1] /\ 1 \in DOMAIN frames[t] /\ f \in Call
  BY TopOK DEF Inv
<1>2. /\ e \in Call /\ e.ctx = c /\ InUse(e) /\ e.op # "prepare"
      /\ u = t => i > 1 /\ e.op = "step" /\ e.at = "inside"
  <2>1. i \in 1 .. Len(frames[u]) /\ Len(frames[u]) \in Nat
    BY <1>a, FrameIsCall DEF Inv
  <2>2. u = t => i > 1
    BY <1>a, <2>1
  <2> QED BY <1>a, <1>b, <2>2, FrameIsCall DEF Inv, FrameInv, FrameFits
<1>3. e.ptr = f.ptr
  BY <1>0, <1>1, <1>2, <1>a, <1>b DEF AgentInv
<1>4. e.op # "finalize" /\ f.op # "finalize"
  BY <1>1, <1>2, <1>3, <1>a, <1>b DEF Inv, UseOK
<1>5. CallFits(t, f) /\ CallFits(u, e)
  BY <1>1, <1>2, <1>a, <1>b, Zenon DEF Runs, CallsFit
<1>6. k.owner = t
  BY <1>4, <1>5, <1>b DEF CallFits
<1>7. e.op # "step"
  <2> SUFFICES ASSUME e.op = "step" PROVE FALSE
    BY Zenon
  <2>1. u = t
    BY <1>2, <1>5, <1>6, <1>b DEF CallFits
  <2>2. e.at = "inside" /\ i > 1
    BY <1>2, <2>1, Zenon
  <2>3. k.depth >= 1
    BY <1>2, <1>5, <2>2, <1>b DEF CallFits, Stepping
  <2>4. f.op # "reset"
    <3>1. Apart(frames[t])
      BY DEF FrameInv
    <3> QED BY <1>a, <1>b, <1>1, <1>3, <2>1, <2>2, <3>1 DEF Apart
  <2>5. f.op = "step" /\ k.depth <= 1
    BY <1>4, <2>4, <1>b
  <2>6. f.at # "measure"
    <3>1. Ends1(f) => k.depth = 0
      BY <1>5, <1>b DEF CallFits
    <3> QED BY <1>0, <2>3, <2>5, <3>1 DEF Ends1
  <2>7. Stepping(f) /\ Stepping(e)
    BY <1>2, <2>2, <2>5, <2>6 DEF Stepping, InUse
  <2>8. i = 1
    BY <1>a, <1>b, <1>1, <1>2, <2>1, <2>5, <2>7 DEF Runs, OneStep
  <2> QED BY <2>2, <2>8
<1>8. e.op = "reset" /\ u # t
  BY <1>2, <1>4, <1>7, Zenon DEF Call, HookNames
<1>9. e.at # "measure" /\ ~Metered(u, e)
  BY <1>2, <1>5, <1>6, <1>8, <1>b, Zenon DEF CallFits, Metered
<1>10. e.at = "inside" => e.value = Null
  BY <1>5, <1>8, <1>9, <1>b DEF CallFits
<1> QED BY <1>8, <1>9, <1>10, <1>b DEF Idle

\* A call that is not under way, or quiet, says nothing of an execution that is over, and
\* of one that goes on what it said before.
LEMMA QuietFits ==
    ASSUME NEW u, NEW f, NEW g, NEW n, Alike(g, f, n), CallFits(u, f), ~InUse(f) \/ Idle(u, f),
           app.truth \subseteq app'.truth,
           \/ agent'.known[g.ctx].active = Null
           \/ /\ agent'.known[g.ctx].active = agent.known[g.ctx].active
              /\ agent'.known[g.ctx].owner = agent.known[g.ctx].owner
              /\ agent'.known[g.ctx].next = agent.known[g.ctx].next
    PROVE  CallFits(u, g)'
<1>1. g.op = f.op /\ g.ctx = f.ctx /\ g.value = f.value /\ g.at = f.at
  BY DEF Alike, Stepping, InUse, Idle
<1>2. Metered(u, g)' => Metered(u, f)
  BY <1>1 DEF Metered
<1>3. g.op # "step" \/ ~InUse(g)
  BY <1>1 DEF Idle, InUse
<1>4. g.at # "measure" /\ (g.at = "inside" => g.value = Null /\ ~Metered(u, g)')
  BY <1>1, <1>2 DEF Idle, InUse
<1>5. ~Stepping(g) /\ ~Ends1(g) /\ ~Metered(u, g)'
  BY <1>3, <1>4 DEF Stepping, Ends1, InUse, Metered
<1>6. ASSUME g.at = "freed", g.value # Null, agent'.known[g.ctx].active # Null
      PROVE  [life |-> g.ctx, n |-> agent'.known[g.ctx].next, work |-> g.value] \in app'.truth
  BY <1>1, <1>6 DEF CallFits
<1> QED BY <1>3, <1>4, <1>5, <1>6 DEF CallFits

LEMMA AloneRuns ==
    ASSUME Inv, Inv', NEW c \in DOMAIN agent.known, NEW Z, Runs(c, Z), NEW t \in Threads, Lonely(t, c),
           NEW d, NEW G, NEW n, Carry(t, d, G, 1, n), app.truth \subseteq app'.truth,
           \/ agent'.known[c].active = Null
           \/ /\ agent'.known[c].active = agent.known[c].active
              /\ agent'.known[c].owner = agent.known[c].owner
              /\ agent'.known[c].next = agent.known[c].next,
           \A g \in G : ~Stepping(g) /\ (g.ctx = c => CallFits(t, g)'),
           agent'.known[c].depth = 0
    PROVE  CallsFit(c)' /\ OneStep(c)'
<1>1. ASSUME NEW u \in Threads, NEW i \in DOMAIN frames'[u], frames'[u][i].ctx = c, frames'[u][i] \notin G
      PROVE  ~Stepping(frames'[u][i]) /\ CallFits(u, frames[u][i])'
  <2> PICK j, f, g : j = Was(t, d, u, i) /\ f = frames[u][j] /\ g = frames'[u][i]
    OBVIOUS
  <2>1. Goes1(t, d, 1, n, u, i)
    BY <1>1, Zenon DEF Carry
  <2>2. j \in DOMAIN frames[u] /\ Alike(g, f, n) /\ (u = t => j > 1) /\ f.ctx = c /\ g.ctx = c
    BY <1>1, <2>1 DEF Goes1, Alike
  <2>3. u # t \/ j # 1
    BY <2>2
  <2>4. (~InUse(f) \/ Idle(u, f)) /\ CallFits(u, f)
    BY <2>2, <2>3 DEF Lonely, Runs, CallsFit
  <2>5. CallFits(u, g)'
    BY <2>2, <2>4, QuietFits
  <2>6. ~Stepping(g)
    BY <2>2, <2>4 DEF Alike, Stepping, InUse, Idle
  <2> QED BY <2>5, <2>6
<1>2. CallsFit(c)'
  <2> SUFFICES ASSUME NEW u \in Threads, NEW i \in DOMAIN frames'[u], frames'[u][i].ctx = c
               PROVE  CallFits(u, frames[u][i])'
    BY DEF CallsFit
  <2>1. CASE frames'[u][i] \notin G
    BY <1>1, <2>1
  <2>2. CASE frames'[u][i] \in G /\ u = t
    <3> PICK g : g = frames'[u][i]
      OBVIOUS
    <3>1. CallFits(t, g)'
      BY <2>2
    <3> QED BY <2>2, <3>1
  <2>3. CASE Goes1(t, d, 1, n, u, i)
    <3> PICK j, f, g : j = Was(t, d, u, i) /\ f = frames[u][j] /\ g = frames'[u][i]
      BY Zenon
    <3>2. j \in DOMAIN frames[u] /\ Alike(g, f, n) /\ (u = t => j > 1) /\ f.ctx = c /\ g.ctx = c
      BY <2>3 DEF Goes1, Alike
    <3>3. u # t \/ j # 1
      BY <3>2
    <3>4. (~InUse(f) \/ Idle(u, f)) /\ CallFits(u, f)
      BY <3>2, <3>3 DEF Lonely, Runs, CallsFit
    <3>5. CallFits(u, g)'
      BY <3>2, <3>4, QuietFits
    <3> QED BY <3>5
  <2> QED BY <2>1, <2>2, <2>3 DEF Carry
<1>3. \A u \in Threads : \A i \in DOMAIN frames'[u] : frames'[u][i].ctx = c => ~Stepping(frames'[u][i])
  BY <1>1
<1>4. OneStep(c)'
  <2>1. agent'.known[c].depth >= 0 /\ ~(agent'.known[c].depth >= 1)
    OBVIOUS
  <2> QED BY <1>3, <2>1 DEF OneStep
<1> QED BY <1>2, <1>4

LEMMA NoDepth ==
    ASSUME Inv, NEW c \in DOMAIN agent.known, NEW Z, Runs(c, Z), NEW t \in Threads, Lonely(t, c),
           frames[t] # << >>, ~Stepping(Top(t))
    PROVE  agent.known[c].depth = 0
<1>1. agent.known[c].depth \in Int
  BY DEF Inv, Shape, AgentOK, Known
<1>2. ~(agent.known[c].depth >= 1)
  <2> SUFFICES ASSUME NEW u \in Threads, NEW i \in DOMAIN frames[u], Stepping(frames[u][i]), frames[u][i].ctx = c
               PROVE  FALSE
    BY DEF Runs, OneStep
  <2>1. u = t /\ i = 1
    BY DEF Lonely, Stepping, InUse, Idle
  <2> QED BY <2>1, TopOK DEF Inv
<1> QED BY <1>1, <1>2 DEF Runs, OneStep

\* No other call ends an execution of c.
LEMMA LonelyEnds ==
    ASSUME NEW t \in Threads, NEW c, Lonely(t, c), NEW u \in Threads, u # t
    PROVE  ~MeteredBy(u, c) /\ ~EndedBy(u, c)
BY DEF Lonely, MeteredBy, EndedBy, Metered, Ends1, Idle, InUse

LEMMA OthersRun ==
    ASSUME Inv, Inv', FrameInv', NEW Z, NEW Y, RunInv(Z), DOMAIN agent'.known = DOMAIN agent.known,
           NEW t, NEW d, NEW G, NEW low, NEW n, Carry(t, d, G, low, n),
           NEW c \in DOMAIN agent.known, Runs(c, Y)',
           \A b \in DOMAIN agent.known : b # c => agent'.known[b] = agent.known[b] /\ NotEnding(t, low, b),
           \A p \in Pointers : \A b : b # c => (Of(b, p)' => Of(b, p) /\ app'.lib[p] = app.lib[p]),
           \A p \in Pointers : Live(p)' => Live(p) /\ app'.lib[p].life = app.lib[p].life,
           app.truth \subseteq app'.truth, \A x \in app'.truth : x \in app.truth \/ x.life = c,
           Z.begun \subseteq Y.begun, \A x \in Y.told : x \in Z.told \/ x.life = c,
           \A g \in G : g.ctx = c
    PROVE  RunInv(Y)'
<1> PICK cs : cs = {c}
  OBVIOUS
<1>1. ASSUME NEW b \in DOMAIN agent.known, b \notin cs
      PROVE  /\ Undisturbed(b, Z, Y) /\ NotEnding(t, low, b)
             /\ \A g \in G : g.ctx = b => ~Stepping(g) /\ CallFits(t, g)'
  BY <1>1 DEF Undisturbed
<1>2. \A b \in DOMAIN agent.known : b \in cs => Runs(b, Y)'
  OBVIOUS
<1>3. \A x \in app'.truth : x \in app.truth \/ x.life \in DOMAIN agent.known
  OBVIOUS
<1>4. ASSUME NEW p \in Pointers, Live(p)', Running(app'.lib[p])
      PROVE  \/ app'.lib[p].life \in DOMAIN agent.known
             \/ Live(p) /\ Running(app.lib[p]) /\ app'.lib[p].life = app.lib[p].life
  <2> PICK b : b = app'.lib[p].life
    OBVIOUS
  <2>1. CASE b = c
    BY <2>1
  <2>2. CASE b # c
    <3>1. Of(b, p)'
      BY <1>4 DEF Of
    <3>2. app'.lib[p] = app.lib[p]
      BY <2>2, <3>1
    <3> QED BY <1>4, <3>2
  <2> QED BY <2>1, <2>2
<1> QED BY <1>1, <1>2, <1>3, <1>4, RunsKept

-----------------------------------------------------------------------------
(* The ends of executions. *)

\* Thread t's hook f reports r for the execution of c that is active, with the entry k.
Reports1(t, f, c, k, r) ==
    /\ t \in Threads /\ frames[t] # << >> /\ f = Top(t) /\ f.at \in {"measure", "inside", "freed"}
    /\ c = f.ctx /\ c \in DOMAIN agent.known /\ agent.known[c].active # Null
    /\ k \in Known /\ k.module = agent.known[c].module /\ k.next = agent.known[c].next /\ Within(k.last)
    /\ r \in Counts \cup {Null}
    /\ agent' = Finished(f, k, r) /\ Move(t, Waiting(f, "leave")) /\ wire' = wire
    /\ (told.lossy => told'.lossy) /\ app'.lives = app.lives

\* The statements other than c's stay, and theirs is the same one.
OnlyOf(c) ==
    /\ \A p \in Pointers : Live(p)' => Live(p) /\ app'.lib[p].life = app.lib[p].life
    /\ \A p \in Pointers : \A b : b # c => (Of(b, p)' => Of(b, p) /\ app'.lib[p] = app.lib[p])
    /\ \A p \in Pointers : Live(p)' => app'.lib[p].runner = app.lib[p].runner \/ app'.lib[p].runner = Null
    /\ app.truth \subseteq app'.truth
    /\ (\A p \in Pointers : Live(p) => ~Running(app.lib[p])) => app'.truth = app.truth

\* That execution is over, and r is what it did.
Over(t, c, k, r) ==
    /\ Lonely(t, c)
    /\ [life |-> c, n |-> k.next, work |-> r] \in app'.truth
    /\ \A x \in app'.truth : x \in app.truth \/ (x.life = c /\ x.n = k.next)
    /\ \A p \in Pointers : Of(c, p)' =>
          /\ ~Running(app'.lib[p]) /\ app'.lib[p].n = k.next
          /\ k.last # Null => app'.lib[p].counter = k.last

LEMMA ReportMoves ==
    ASSUME Held, NEW t, NEW f, NEW c, NEW k, NEW r, Reports1(t, f, c, k, r), NEW l, l = Cleared(k),
           NEW e, e = Ending(f, r)
    PROVE  /\ OneEntry(c, l) /\ agent'.known[c] = l
           /\ l.active = Null /\ l.next = k.next /\ l.last = k.last /\ l.depth = 0
           /\ e \in Event /\ e.type = "executed" /\ e.ptr = f.ptr
           /\ e.number = agent.known[c].active /\ e.value = r
           /\ agent'.queue = Append(agent.queue, e)
           /\ (Unharmed' => Unharmed)
<1>0. Shape /\ f \in Call
  <2>1. Shape
    BY DEF Held, Inv
  <2> QED BY <2>1, TopOK DEF Reports1
<1>1. /\ agent'.known = [agent.known EXCEPT ![c] = l] /\ l \in Known
      /\ e \in Event /\ e.type = "executed"
      /\ agent'.queue = Append(agent.queue, e)
      /\ agent'.contexts = agent.contexts /\ agent'.unknown = agent.unknown
      /\ agent'.partial = agent.partial
  <2>1. /\ agent'.known = [agent.known EXCEPT ![c] = l] /\ l \in Known
        /\ e \in Event /\ e.type = "executed" /\ agent'.queue = Queued(e)
        /\ agent'.contexts = agent.contexts /\ agent'.unknown = agent.unknown
        /\ agent'.partial = agent.partial
    BY <1>0, FinishedMoves DEF Reports1
  <2>2. Queued(e) = Append(agent.queue, e)
    BY DEF Held, Whole, Queued
  <2> QED BY <2>1, <2>2
<1>2. l.active = Null /\ l.next = k.next /\ l.last = k.last /\ l.depth = 0 /\ l.module = k.module
  BY EntryMoves DEF Reports1
<1>3. OneEntry(c, l)
  BY <1>1, <1>2 DEF OneEntry, Reports1
<1>4. agent'.known[c] = l
  BY <1>3, OneEntryMoves
<1>5. e.ptr = f.ptr /\ e.number = agent.known[c].active /\ e.value = r
  BY DEF Ending, Record, Reports1
<1>6. Unharmed' => Unharmed
  BY <1>1 DEF Unharmed, Reports1
<1> QED BY <1>1, <1>2, <1>3, <1>4, <1>5, <1>6

LEMMA ReportCarry ==
    ASSUME Held, FrameInv, NEW t, NEW f, NEW c, NEW k, NEW r, Reports1(t, f, c, k, r), NEW g, g = Waiting(f, "leave")
    PROVE  /\ Carry(t, 0, {g}, 1, 0) /\ Apart(frames'[t]) /\ FrameFits(g)' /\ (\A w : ~WaitsFor(t, w))
           /\ (\A b : b # c => NotEnding(t, 1, b))
           /\ g.ctx = c /\ g.ptr = f.ptr /\ g.at = "leave"
<1>0. /\ Shape /\ Shape' /\ t \in Threads /\ frames[t] # << >> /\ f = Top(t) /\ f.ctx = c
      /\ f.at \in {"measure", "inside", "freed"} /\ Move(t, g)
  BY DEF Held, Inv, Reports1
<1>1. f \in Call /\ f = frames[t][1] /\ 1 \in DOMAIN frames[t]
  BY <1>0, TopOK
<1>2. g \in Call /\ g.op = f.op /\ g.ptr = f.ptr /\ g.ctx = f.ctx /\ g.at = "leave"
  <2>1. Len(agent'.queue) \in Nat
    BY <1>0 DEF Shape, RecordsOK
  <2> QED BY <1>1, <2>1, FrameWaits
<1>3. /\ Carry(t, 0, {g}, 1, 0) /\ frames'[t][1] = g
      /\ \A i \in DOMAIN frames'[t] : i > 1 => i \in DOMAIN frames[t] /\ frames'[t][i] = frames[t][i]
  BY <1>0, <1>2, MoveCarry
<1>4. Apart(frames'[t])
  <2>1. Apart(frames[t])
    BY <1>0 DEF FrameInv
  <2> QED BY <1>1, <1>2, <1>3, <2>1 DEF Apart
<1>5. FrameFits(g)'
  BY <1>2 DEF FrameFits, InUse
<1>6. \A w : ~WaitsFor(t, w)
  BY <1>0, <1>1 DEF WaitsFor
<1>7. ASSUME NEW b, b # c PROVE NotEnding(t, 1, b)
  <2>1. DOMAIN frames[t] \subseteq Nat \ {0}
    <3>1. frames[t] \in Seq(Call)
      BY <1>0, FrameIsCall
    <3> QED BY <3>1
  <2>2. \A j \in DOMAIN frames[t] : frames[t][j].ctx = b => j > 1
    BY <1>0, <1>1, <1>7, <2>1
  <2>3. ~MeteredBy(t, b) /\ ~EndedBy(t, b)
    BY <1>0, <1>1, <1>7 DEF MeteredBy, EndedBy
  <2> QED BY <2>2, <2>3 DEF NotEnding
<1> QED BY <1>0, <1>2, <1>3, <1>4, <1>5, <1>6, <1>7

\* A call that is over says nothing of its statement.
LEMMA LeavingFits ==
    ASSUME NEW t, NEW g, g.at = "leave"
    PROVE  CallFits(t, g)' /\ ~Stepping(g)
BY DEF CallFits, Stepping, Ends1, Metered, InUse

LEMMA ReportRuns ==
    ASSUME Held, FrameInv, FrameInv', NEW Z, NEW t, NEW f, NEW c, NEW k, NEW r, Reports1(t, f, c, k, r),
           RunInv(Z), OnlyOf(c), Over(t, c, k, r), r # Null, NEW Y, Y.begun = Z.begun,
           Y.told = Z.told \cup {[life |-> c, n |-> agent.known[c].active, work |-> r]}
    PROVE  RunInv(Y)' /\ (Z.told \subseteq app.truth => Y.told \subseteq app'.truth)
<1> PICK l, g : l = Cleared(k) /\ g = Waiting(f, "leave")
  OBVIOUS
<1>0. Inv /\ Inv' /\ c \in DOMAIN agent.known /\ Runs(c, Z) /\ t \in Threads
  BY DEF Held, Reports1, RunInv
<1>1. /\ OneEntry(c, l) /\ agent'.known[c] = l
      /\ l.active = Null /\ l.next = k.next /\ l.last = k.last /\ l.depth = 0
  BY ReportMoves
<1>2. /\ Carry(t, 0, {g}, 1, 0) /\ (\A b : b # c => NotEnding(t, 1, b))
      /\ g.ctx = c /\ g.at = "leave"
  BY ReportCarry
<1> PICK G, d : G = {g} /\ d = 0
  OBVIOUS
<1>3. Carry(t, d, G, 1, 0) /\ \A h \in G : h.ctx = c /\ ~Stepping(h) /\ CallFits(t, h)'
  BY <1>2, LeavingFits
<1>4. agent.known[c].active = k.next /\ k.next \in Nat
  BY <1>0 DEF Runs, Opened, Reports1, Known
<1> PICK x : x = [life |-> c, n |-> k.next, work |-> r]
  OBVIOUS
<1>5. Y.told = Z.told \cup {x} /\ x.life = c /\ x.n = k.next /\ x \in app'.truth /\ app.truth \subseteq app'.truth
  BY <1>4 DEF Over, OnlyOf
<1>6. Opened(c, Y)'
  <2>1. \A y \in Y.told : y.life = c => y.n <= k.next
    <3>1. \A y \in Z.told : y.life = c => y.n <= k.next
      BY <1>0 DEF Runs, Opened, Reports1
    <3> QED BY <1>4, <1>5, <3>1
  <2>2. \A y \in app'.truth : y.life = c => <<c, y.n>> \in Y.begun
    <3>1. <<c, k.next>> \in Z.begun
      BY <1>0, <1>4 DEF Runs, Opened, Reports1
    <3>2. \A y \in app.truth : y.life = c => <<c, y.n>> \in Z.begun
      BY <1>0 DEF Runs, Opened
    <3> QED BY <3>1, <3>2 DEF Over
  <2> QED BY <1>1, <2>1, <2>2 DEF Opened
<1>7. CallsFit(c)' /\ OneStep(c)'
  <2>1. Lonely(t, c) /\ agent'.known[c].active = Null /\ agent'.known[c].depth = 0
    BY <1>1 DEF Over
  <2> QED BY <1>0, <1>3, <1>5, <2>1, AloneRuns
<1>8. ASSUME NEW p \in Pointers, Of(c, p)' PROVE Stands(c, app.lib[p])'
  <2>1. ~Running(app'.lib[p]) /\ app'.lib[p].n = k.next /\ (k.last # Null => app'.lib[p].counter = k.last)
    BY <1>8 DEF Over
  <2>2. k.last # Null => k.last + 0 = k.last
    BY DEF Reports1, Known, Counts
  <2> QED BY <1>1, <2>1, <2>2 DEF Stands, Level
<1>9. Runs(c, Y)'
  BY <1>6, <1>7, <1>8 DEF Runs
<1>10. /\ DOMAIN agent'.known = DOMAIN agent.known
       /\ \A b \in DOMAIN agent.known : b # c => agent'.known[b] = agent.known[b] /\ NotEnding(t, 1, b)
  BY <1>1, <1>2, OneEntryMoves
<1>11. /\ \A p \in Pointers : \A b : b # c => (Of(b, p)' => Of(b, p) /\ app'.lib[p] = app.lib[p])
       /\ \A p \in Pointers : Live(p)' => Live(p) /\ app'.lib[p].life = app.lib[p].life
       /\ \A y \in app'.truth : y \in app.truth \/ y.life = c
       /\ Z.begun \subseteq Y.begun
       /\ \A y \in Y.told : y \in Z.told \/ y.life = c
  BY <1>5 DEF OnlyOf, Over
<1> PICK low : low = 1
  OBVIOUS
<1>12. RunInv(Y)'
  <2>1. Carry(t, d, G, low, 0) /\ (\A h \in G : h.ctx = c)
    BY <1>3
  <2>2. \A b \in DOMAIN agent.known : b # c => agent'.known[b] = agent.known[b] /\ NotEnding(t, low, b)
    BY <1>10
  <2> QED BY <1>0, <1>5, <1>9, <1>10, <1>11, <2>1, <2>2, OthersRun
<1> QED BY <1>5, <1>12

LEMMA ReportTrue ==
    ASSUME Held, NEW J, NEW H, TruthInv(J, H), NEW Z, Z = Last(J),
           NEW t, NEW f, NEW c, NEW k, NEW r, Reports1(t, f, c, k, r),
           NEW En, AppMoves(En), LibFits, OnlyOf(c),
           Unharmed' /\ RunInv(Z) /\ r # Null => Over(t, c, k, r)
    PROVE  \E K : TruthInv(K, H)'
<1> PICK l, g, e, Y : l = Cleared(k) /\ g = Waiting(f, "leave") /\ e = Ending(f, r) /\ Y = After(Z, e)
  OBVIOUS
<1>0. /\ Inv /\ Inv' /\ wire = << >> /\ Sound(Z, H) /\ AppInv /\ FrameInv /\ AgentInv(Z, H) /\ t \in Threads
      /\ wire' = wire /\ c \in DOMAIN agent.known
  BY SoundNow DEF Held, Sound, Reports1
<1>1. /\ OneEntry(c, l) /\ agent'.known[c] = l
      /\ l.active = Null /\ l.next = k.next /\ l.last = k.last /\ l.depth = 0
      /\ e \in Event /\ e.type = "executed" /\ e.ptr = f.ptr
      /\ e.number = agent.known[c].active /\ e.value = r
      /\ agent'.queue = Append(agent.queue, e)
      /\ (Unharmed' => Unharmed)
  BY ReportMoves
<1>2. /\ Carry(t, 0, {g}, 1, 0) /\ Apart(frames'[t]) /\ FrameFits(g)' /\ (\A w : ~WaitsFor(t, w))
      /\ g.ctx = c /\ g.ptr = f.ptr /\ g.at = "leave"
  <2>1. Held /\ FrameInv /\ Reports1(t, f, c, k, r) /\ g = Waiting(f, "leave")
    BY <1>0
  <2>2. \A w : ~WaitsFor(t, w)
    BY <1>0, ReportCarry
  <2>3. g.ctx = c /\ g.ptr = f.ptr /\ g.at = "leave"
    <3>1. f \in Call /\ c = f.ctx
      BY <1>0, TopOK DEF Reports1, Inv
    <3>2. Len(agent'.queue) \in Nat
      BY <1>0 DEF Inv, Shape, RecordsOK
    <3> QED BY <2>1, <3>1, <3>2, FrameWaits
  <2>4. Carry(t, 0, {g}, 1, 0)
    BY ONLY <2>1, ReportCarry
  <2>5. Apart(frames'[t]) /\ FrameFits(g)'
    BY ONLY <2>1, ReportCarry
  <2> QED BY <2>2, <2>3, <2>4, <2>5
<1>3. H[c] = f.ptr
  <2>1. f = frames[t][1] /\ 1 \in DOMAIN frames[t] /\ f.ctx = c
    BY <1>0, TopOK DEF Reports1, Inv
  <2>2. c # Null
    BY <1>0, NullAssumption DEF Inv, Shape, AgentOK, AppOK
  <2> QED BY <1>0, <2>1, <2>2 DEF AgentInv
<1> PICK G, d, low : G = {g} /\ d = 0 /\ low = 1
  OBVIOUS
<1>4. /\ Carry(t, d, G, low, 0) /\ (\A h \in G : ~Stepping(h)) /\ ~WaitsFor(t, 0)
      /\ \A h \in G : FrameFits(h)' /\ (h.ctx # Null => H[h.ctx] = h.ptr)
  BY <1>2, <1>3 DEF Stepping
<1>5. Y.cur = Z.cur /\ Fresh1(Z, e) /\ \A b \in Y.begun : b \in Z.begun \/ b[1] \in DOMAIN agent.known
  BY <1>0, <1>1, AfterCounts
<1>6. AgentMoves(Z, Y)
  <2>1. KnownStays /\ agent'.contexts = agent.contexts
    BY <1>1, OneEntryMoves DEF OneEntry
  <2> QED BY <1>0, <1>5, <2>1, EntryAgent
<1>7. Steps(0)
  <2>1. \A p \in Pointers : Live(p)' => \/ Live(p) /\ app'.lib[p].runner = app.lib[p].runner
                                        \/ app'.lib[p].runner = Null
    BY DEF OnlyOf
  <2>2. ASSUME NEW b \in DOMAIN agent'.known, agent'.known[b].active # Null
        PROVE  /\ b \in DOMAIN agent.known /\ agent.known[b].active # Null
               /\ agent'.known[b].owner = agent.known[b].owner
    BY <1>1, <2>2, OneEntryMoves
  <2>3. (\A p \in Pointers : Live(p) => ~Running(app.lib[p])) => app'.truth = app.truth
    BY DEF OnlyOf
  <2>4. \A w \in 0 .. Len(agent.queue) : Still(w) => app'.truth = app.truth /\ Still(w - 0)'
    BY <1>0, <1>4, <2>1, <2>2, <2>3, QuietCalm
  <2> QED BY <1>0, <1>1, <2>4, StepsOnce DEF OnlyOf
<1>8. Clean(Y) => Clean(Z)
  BY <1>5, CleanBefore
<1>9. ASSUME FrameInv', Unharmed', Clean(Y), RunInv(Z), Z.told \subseteq app.truth
      PROVE  RunInv(Y)' /\ Y.told \subseteq app'.truth
  <2>1. <<c, e.number>> \in Z.begun /\ ~HasTold(Z, <<c, e.number>>)
    <3>1. Opened(c, Z) /\ agent.known[c].active # Null
      BY <1>0, <1>9 DEF RunInv, Runs, Reports1
    <3> QED BY <1>1, <3>1 DEF Opened
  <2>2. \A p \in DOMAIN Z.cur : Z.cur[p].life = c => p = e.ptr
    BY <1>0, <1>1, <1>3 DEF AgentInv
  <2>3. r # Null /\ Y.begun = Z.begun /\ Y.told = Z.told \cup {[life |-> c, n |-> e.number, work |-> e.value]}
    BY <1>1, <1>9, <2>1, <2>2, ExecutedCounts
  <2>4. Y.told = Z.told \cup {[life |-> c, n |-> agent.known[c].active, work |-> r]}
    BY <1>1, <2>3
  <2> QED BY <1>0, <1>9, <2>3, <2>4, ReportRuns
<1>10. Sound(Y, H)'
  <2>1. Unharmed' /\ Clean(Y) => Clean(Z)
    BY <1>8
  <2> QED BY <1>0, <1>1, <1>2, <1>4, <1>6, <1>9, <2>1, ActiveSound
<1>11. Stream' = Append(agent.queue, e)
  BY <1>0, <1>1, StreamStays
<1> QED BY <1>0, <1>1, <1>5, <1>7, <1>10, <1>11, OneRecord

\* A hook that goes on, or leaves, ends nothing of the other statements.
LEMMA OthersEnd ==
    ASSUME Shape, NEW t \in Threads, frames[t] # << >>, NEW c, Top(t).ctx # c
    PROVE  NotEnding(t, 1, c)
<1>1. Top(t) = frames[t][1] /\ DOMAIN frames[t] \subseteq Nat \ {0}
  <2>1. frames[t] \in Seq(Call)
    BY FrameIsCall
  <2> QED BY <2>1, TopOK
<1>2. \A j \in DOMAIN frames[t] : frames[t][j].ctx = c => j > 1
  BY <1>1
<1> QED BY <1>1, <1>2 DEF NotEnding, MeteredBy, EndedBy

LEMMA NoWait ==
    ASSUME Shape, NEW t \in Threads, frames[t] # << >>, Top(t).at # "enter"
    PROVE  \A w : ~WaitsFor(t, w)
BY TopOK DEF WaitsFor

LEMMA MoveApart ==
    ASSUME Shape, Shape', FrameInv, NEW t \in Threads, frames[t] # << >>, NEW g \in Call, Move(t, g),
           g.op = Top(t).op, g.ptr = Top(t).ptr
    PROVE  Apart(frames'[t])
<1>1. /\ frames'[t][1] = g
      /\ \A i \in DOMAIN frames'[t] : i > 1 => i \in DOMAIN frames[t] /\ frames'[t][i] = frames[t][i]
  BY MoveCarry
<1>2. Top(t) = frames[t][1] /\ 1 \in DOMAIN frames[t] /\ Apart(frames[t])
  BY TopOK DEF FrameInv
<1> QED BY <1>1, <1>2 DEF Apart

\* The innermost call.
LEMMA TopFits ==
    ASSUME Held, NEW Z, NEW H, Sound(Z, H), NEW t \in Threads, frames[t] # << >>, NEW f, f = Top(t)
    PROVE  /\ Shape /\ f \in Call /\ FrameFits(f) /\ f.ptr \in Pointers /\ f.value \in Counts \cup {Null}
           /\ f.ctx # Null => /\ f.ctx \in DOMAIN agent.known /\ agent.known[f.ctx] \in Known
                              /\ H[f.ctx] = f.ptr
                              /\ (RunInv(Z) => Runs(f.ctx, Z) /\ CallFits(t, f))
           /\ InUse(f) => Live(f.ptr) /\ app.lib[f.ptr] \in Statement
<1>1. Shape /\ UseOK /\ FrameInv /\ AgentInv(Z, H)
  BY DEF Held, Inv, Sound
<1>2. /\ f \in Call /\ f = frames[t][1] /\ 1 \in DOMAIN frames[t] /\ f.ptr \in Pointers
      /\ f.value \in Counts \cup {Null}
      /\ f.ctx # Null => f.ctx \in DOMAIN agent.known /\ agent.known[f.ctx] \in Known
  BY <1>1, TopOK
<1>3. FrameFits(f)
  BY <1>1, <1>2 DEF FrameInv
<1>4. f.ctx # Null => H[f.ctx] = f.ptr
  BY <1>1, <1>2 DEF AgentInv
<1>5. ASSUME f.ctx # Null, RunInv(Z) PROVE Runs(f.ctx, Z) /\ CallFits(t, f)
  BY <1>2, <1>5 DEF RunInv, Runs, CallsFit
<1>6. InUse(f) => Live(f.ptr) /\ app.lib[f.ptr] \in Statement
  BY <1>1, TopUse
<1> QED BY <1>1, <1>2, <1>3, <1>4, <1>5, <1>6

\* The one pointer of a statement.
LEMMA OnePointer ==
    ASSUME AppInv, NEW p \in Pointers, NEW c, Of(c, p)
    PROVE  \A q \in Pointers : Of(c, q) => q = p
BY DEF AppInv, Of

LEMMA SameApp ==
    ASSUME app' = app, NEW c
    PROVE  OnlyOf(c) /\ \A p \in Pointers : \A b : Of(b, p)' <=> Of(b, p)
BY DEF OnlyOf, Live, Of

\* A step that queues nothing and lets nothing arrive.
LEMMA SilentTrue ==
    ASSUME Held, NEW J, NEW H, TruthInv(J, H), NEW Z, Z = Last(J),
           NEW En, AppMoves(En), LibFits, Unharmed' => Unharmed,
           KnownStays, agent'.contexts = agent.contexts, agent'.queue = agent.queue,
           wire' = wire, app.truth \subseteq app'.truth,
           NEW t, NEW d, NEW G, NEW low, Carry(t, d, G, low, 0), t \in Threads => Apart(frames'[t]),
           \A g \in G : FrameFits(g)' /\ (g.ctx # Null => H[g.ctx] = g.ptr),
           \A w \in 0 .. Len(agent.queue) : Unharmed' /\ Still(w) => app'.truth = app.truth /\ Still(w - 0)',
           FrameInv' /\ Unharmed' /\ Unharmed /\ RunInv(Z) => RunInv(Z)'
    PROVE  TruthInv(J, H)'
<1>0. Inv /\ Inv' /\ wire = << >> /\ Sound(Z, H) /\ AgentInv(Z, H)
  BY SoundNow DEF Held, Sound
<1>1. Steps(0)
  BY StepsOnce
<1>2. AgentMoves(Z, Z)
  <2>1. Z.cur = Z.cur /\ \A b \in Z.begun : b \in Z.begun \/ b[1] \in DOMAIN agent.known
    OBVIOUS
  <2> QED BY <1>0, <2>1, EntryAgent
<1>3. Sound(Z, H)'
  <2>1. /\ FrameInv' /\ Unharmed' /\ Unharmed /\ Clean(Z) /\ RunInv(Z) /\ Z.told \subseteq app.truth
        => RunInv(Z)' /\ Z.told \subseteq app'.truth
    OBVIOUS
  <2>2. Unharmed' /\ Clean(Z) => Clean(Z)
    OBVIOUS
  <2> QED BY <1>0, <1>2, <2>1, <2>2, ActiveSound
<1>4. Stream' = agent'.queue /\ Stream = agent.queue
  BY <1>0, StreamStays, QueueOnly
<1>5. Stream' = Stream
  BY <1>4
<1> QED BY <1>0, <1>1, <1>3, <1>5, NoRecord

LEMMA StepFinishesTrue ==
    ASSUME Held, NEW J, NEW H, TruthInv(J, H), NEW t \in Threads, StepFinishes(t)
    PROVE  \E K : TruthInv(K, H)'
<1> PICK Z, f, c, v, k, r : /\ Z = Last(J) /\ f = Top(t) /\ c = f.ctx /\ v = f.value
                            /\ k = Counted(agent.known[c], v) /\ r = Metrics(c, v)
  OBVIOUS
<1>0. Inv /\ Inv' /\ Sound(Z, H) /\ AppInv /\ FrameInv /\ AgentInv(Z, H) /\ setting' = setting
  BY SoundNow DEF Held, Sound
<1>1. /\ frames[t] # << >> /\ f.op = "step" /\ f.at = "measure" /\ app' = app /\ wire' = wire
      /\ Say(Loses(Decreased(c, v)))
      /\ \/ IsActive(c) /\ agent' = Finished(f, k, r) /\ Move(t, Waiting(f, "leave"))
         \/ ~IsActive(c) /\ agent' = [agent EXCEPT !.known[c] = k] /\ Leave(t)
  BY DEF StepFinishes, At, Loses, Counted
<1>2. /\ Shape /\ f \in Call /\ FrameFits(f) /\ f.ptr \in Pointers /\ v \in Counts \cup {Null} /\ c # Null
      /\ c \in DOMAIN agent.known /\ agent.known[c] \in Known /\ H[c] = f.ptr
      /\ (RunInv(Z) => Runs(c, Z) /\ CallFits(t, f)) /\ Live(f.ptr)
  <2>1. c # Null /\ InUse(f) /\ Shape
    BY <1>0, <1>1, TopOK DEF Inv, InUse
  <2> QED BY <1>0, <1>1, <2>1, TopFits
<1>3. k \in Known /\ r \in Counts \cup {Null} /\ k.next = agent.known[c].next /\ k.last = v
      /\ k.module = agent.known[c].module /\ k.active = agent.known[c].active /\ k.owner = agent.known[c].owner
  <2>1. AgentOK /\ Wrap \in Nat
    BY <1>2, Bounds DEF Shape, AppOK
  <2>2. r \in Counts \cup {Null}
    BY <1>2, <2>1, MetricsCounted
  <2> QED BY <1>2, <2>2, CountedMoves
<1>4. (told.lossy => told'.lossy) /\ Within(v) /\ app'.lives = app.lives
  <2>1. told'.lossy = (told.lossy \/ Decreased(c, v))
    <3>1. ToldOK /\ Len(agent.queue) \in Nat
      BY <1>2 DEF Shape, RecordsOK
    <3>2. Decreased(c, v) \in BOOLEAN
      BY DEF Decreased
    <3>3. Say(Loses(Decreased(c, v)))
      BY <1>1
    <3> QED BY <3>1, <3>2, <3>3, ToldMoves
  <2>2. Within(v)
    BY <1>1, <1>2 DEF FrameFits
  <2>3. told.lossy => told'.lossy
    BY <2>1
  <2>4. app'.lives = app.lives
    BY <1>1
  <2> QED BY <2>2, <2>3, <2>4
<1>5. Of(c, f.ptr)
  BY <1>1, <1>2 DEF FrameFits, InUse, Of
<1>6. CASE IsActive(c) /\ agent' = Finished(f, k, r) /\ Move(t, Waiting(f, "leave"))
  <2>1. Reports1(t, f, c, k, r)
    BY <1>1, <1>2, <1>3, <1>4, <1>6 DEF Reports1, IsActive
  <2> PICK l : l = Cleared(k)
    OBVIOUS
  <2>2. OneEntry(c, l) /\ l.last = v
    BY <1>3, <2>1, ReportMoves
  <2> PICK En : En = [p \in Pointers |-> p]
    OBVIOUS
  <2>3. AppMoves(En) /\ LibFits
    BY <1>0, <1>1, <1>4, <2>2, EntryApp
  <2>4. OnlyOf(c) /\ \A p \in Pointers : Of(c, p)' <=> Of(c, p)
    BY <1>1, SameApp, Zenon
  <2>5. ASSUME RunInv(Z), r # Null PROVE Over(t, c, k, r)
    <3>1. Runs(c, Z) /\ CallFits(t, f)
      BY <1>2, <2>5, Zenon
    <3>2. /\ agent.known[c].depth = 0 /\ ~Running(app.lib[f.ptr]) /\ app.lib[f.ptr].n = k.next
          /\ v # Null => v = app.lib[f.ptr].counter
          /\ v # Null /\ agent.known[c].last # Null =>
                [life |-> c, n |-> k.next, work |-> v - agent.known[c].last] \in app.truth
      BY <1>1, <1>3, <3>1 DEF CallFits, Ends1
    <3>3. Lonely(t, c)
      <4>1. InUse(f) /\ agent.known[c].depth <= 1
        BY <1>1, <3>2 DEF InUse
      <4> QED BY <1>0, <1>1, <1>2, <3>1, <4>1, Solo
    <3>4. v # Null /\ agent.known[c].last # Null /\ r = v - agent.known[c].last
      BY <2>5 DEF Metrics
    <3>5. \A p \in Pointers : Of(c, p)' => p = f.ptr
      BY <1>0, <1>2, <1>5, <2>4, OnePointer
    <3> QED BY <1>1, <1>3, <3>2, <3>3, <3>4, <3>5 DEF Over
  <2> QED BY <2>1, <2>3, <2>4, <2>5, ReportTrue, Zenon
<1>7. CASE ~IsActive(c) /\ agent' = [agent EXCEPT !.known[c] = k] /\ Leave(t)
  <2>1. OneEntry(c, k) /\ agent'.queue = agent.queue
    <3>1. AgentOK /\ app'.lives = app.lives
      BY <1>2, <1>4 DEF Shape
    <3> QED BY <1>2, <1>3, <1>7, <3>1, EntryOnly DEF OneEntry
  <2> PICK En : En = [p \in Pointers |-> p]
    OBVIOUS
  <2>2. AppMoves(En) /\ LibFits
    BY <1>0, <1>1, <1>3, <1>4, <2>1, EntryApp
  <2>3. Carry(t, 1, {}, 1, 0) /\ Apart(frames'[t]) /\ ~WaitsFor(t, 0)
    BY <1>0, <1>1, <1>7, LeaveCarry, PopApart, NoWait DEF Inv
  <2> PICK G, d, low : G = {} /\ d = 1 /\ low = 1
    OBVIOUS
  <2>4. Carry(t, d, G, low, 0) /\ (\A g \in G : FALSE)
    BY <2>3
  <2>5. KnownStays /\ agent'.contexts = agent.contexts /\ (Unharmed' => Unharmed)
    BY <1>4, <2>1, OneEntryMoves DEF OneEntry, Unharmed
  <2>6. ~(RunInv(Z))
    <3> SUFFICES ASSUME RunInv(Z) PROVE FALSE
      OBVIOUS
    <3>1. CallFits(t, f)
      BY <1>2
    <3> QED BY <1>1, <1>2, <1>7, <3>1 DEF CallFits, InUse, IsActive
  <2>7. \A w \in 0 .. Len(agent.queue) : Still(w) => app'.truth = app.truth /\ Still(w - 0)'
    <3>1. ASSUME NEW b \in DOMAIN agent'.known, agent'.known[b].active # Null
          PROVE  /\ b \in DOMAIN agent.known /\ agent.known[b].active # Null
                 /\ agent'.known[b].owner = agent.known[b].owner
      BY <1>3, <2>1, <3>1, OneEntryMoves
    <3>2. \A p \in Pointers : Live(p)' => Live(p) /\ app'.lib[p].runner = app.lib[p].runner
      BY <1>1 DEF Live
    <3> QED BY <1>1, <2>3, <2>4, <3>1, <3>2, QuietCalm
  <2>8. TruthInv(J, H)'
    BY <1>1, <2>1, <2>2, <2>3, <2>4, <2>5, <2>6, <2>7, SilentTrue
  <2> QED BY <2>8
<1> QED BY <1>1, <1>6, <1>7

LEMMA FinalizeFinishesTrue ==
    ASSUME Held, NEW J, NEW H, TruthInv(J, H), NEW t \in Threads, FinalizeFinishes(t)
    PROVE  \E K : TruthInv(K, H)'
<1> PICK Z, f, c, k, r : /\ Z = Last(J) /\ f = Top(t) /\ c = f.ctx /\ r = f.value
                         /\ k = agent.known[c]
  OBVIOUS
<1>0. Inv /\ Inv' /\ Sound(Z, H) /\ AppInv /\ FrameInv /\ AgentInv(Z, H) /\ setting' = setting
  BY SoundNow DEF Held, Sound
<1>1. /\ frames[t] # << >> /\ f.op = "finalize" /\ f.at = "freed" /\ app' = app /\ wire' = wire /\ told' = told
      /\ IsActive(c) /\ agent' = Finished(f, k, r) /\ Move(t, Waiting(f, "leave"))
  BY DEF FinalizeFinishes, At, Quiet
<1>2. /\ Shape /\ f \in Call /\ FrameFits(f) /\ f.ptr \in Pointers /\ r \in Counts \cup {Null} /\ c # Null
      /\ c \in DOMAIN agent.known /\ k \in Known /\ H[c] = f.ptr
      /\ (RunInv(Z) => Runs(c, Z) /\ CallFits(t, f))
  <2>1. c # Null /\ Shape
    BY <1>0, <1>1, TopOK DEF Inv, IsActive
  <2> QED BY <1>0, <1>1, <2>1, TopFits
<1>3. Within(k.last)
  BY <1>0, <1>2 DEF AppInv
<1>4. Reports1(t, f, c, k, r)
  BY <1>1, <1>2, <1>3 DEF Reports1, IsActive
<1> PICK l : l = Cleared(k)
  OBVIOUS
<1>5. OneEntry(c, l) /\ l.last = k.last
  BY <1>4, ReportMoves
<1> PICK En : En = [p \in Pointers |-> p]
  OBVIOUS
<1>6. AppMoves(En) /\ LibFits
  BY <1>0, <1>1, <1>3, <1>5, EntryApp
<1>7. OnlyOf(c) /\ \A p \in Pointers : Of(c, p)' <=> Of(c, p)
  BY <1>1, SameApp
<1>8. \A p \in Pointers : ~Of(c, p)
  BY <1>1, <1>2 DEF FrameFits
<1>9. ASSUME RunInv(Z), r # Null PROVE Over(t, c, k, r)
  <2>1. [life |-> c, n |-> k.next, work |-> r] \in app.truth
    BY <1>1, <1>2, <1>9 DEF CallFits, IsActive
  <2>2. Lonely(t, c)
    <3> SUFFICES ASSUME NEW u \in Threads, NEW i \in DOMAIN frames[u], frames[u][i].ctx = c, InUse(frames[u][i])
                 PROVE  FALSE
      BY DEF Lonely
    <3> PICK e : e = frames[u][i]
      BY Zenon
    <3>1. Live(e.ptr) /\ e.ptr \in Pointers /\ FrameFits(e)
      BY <1>0, FrameIsCall DEF Inv, UseOK, FrameInv, Call
    <3>2. Of(c, e.ptr)
      BY <1>2, <3>1 DEF FrameFits, Of
    <3> QED BY <1>8, <3>1, <3>2
  <2> QED BY <1>1, <1>7, <1>8, <2>1, <2>2 DEF Over
<1> QED BY <1>4, <1>6, <1>7, <1>9, ReportTrue
=============================================================================
