---------------------------- MODULE ReportProofs ----------------------------
(***************************************************************************)
(* Proofs about Pipeline: when the finished report calls its data complete,  *)
(* the executions in it are the ones the application ran, with their work,   *)
(* and the rules' verdict on them is right.  For any threads, pointers and   *)
(* modules, any situation, and any number of statements and executions, as   *)
(* long as every module has the hooks of a preparation and of a step.        *)
(*                                                                         *)
(* TruthInv, in PipelineProofs, is the inductive invariant.  It speaks of     *)
(* the records that are queued or on the wire as the tracker will read them:  *)
(* J[k] is what the tracker makes of the first k (the executions that began,  *)
(* the ones told, whether one was lost), and H the pointer that a statement   *)
(* was prepared at.  AgentInv and RunInv relate all the records to the        *)
(* agent's counts and to the statements; PartInv relates each first part of   *)
(* them to the truth, since the tracker may stop anywhere: what it tells is   *)
(* true, and a part that has the end of each of its executions ends at a      *)
(* moment when none ran (Still), so that it lacks none.                       *)
(*                                                                         *)
(* Each step that moves an execution on has a lemma; together they give       *)
(* ReportIsTheTruth.  VerdictIsTheTruth adds what a query's executions amount *)
(* to: the sums and the maxima over finitely many executions, by the least    *)
(* set that an argument fails for.                                           *)
(***************************************************************************)
EXTENDS PipelineProofs, FiniteSetTheorems, WellFoundedInduction

\* A statement's execution ends, and perhaps the statement.
EndOf(s) == [life |-> s.life, n |-> s.n, work |-> s.work]
Halts(p, s, z) ==
    /\ p \in Pointers /\ Live(p) /\ s = app.lib[p]
    /\ z = NoStatement \/ (z \in Statement /\ z = [s EXCEPT !.runner = Null])
    /\ app'.lib = [app.lib EXCEPT ![p] = z] /\ app'.truth = app.truth \cup Ended(s)
    /\ app'.lives = app.lives /\ app'.used = app.used

LEMMA HaltMoves ==
    ASSUME Inv, NEW p, NEW s, NEW z, Halts(p, s, z)
    PROVE  /\ s \in Statement /\ app'.lib[p] = z /\ \A q \in Pointers : q # p => app'.lib[q] = app.lib[q]
           /\ z # NoStatement => z.life = s.life /\ z.module = s.module /\ z.n = s.n /\ z.work = s.work
                                 /\ z.counter = s.counter /\ z.runner = Null
           /\ Running(s) => Ended(s) = {EndOf(s)}
           /\ ~Running(s) => Ended(s) = {} /\ (z # NoStatement => z = s)
<1>1. s \in Statement /\ s # NoStatement
  BY LiveStatement DEF Inv, Shape, Halts, Live
<1>2. app'.lib[p] = z /\ \A q \in Pointers : q # p => app'.lib[q] = app.lib[q]
  BY DEF Halts, Inv, Shape, AppOK
<1>3. z # NoStatement => z.life = s.life /\ z.module = s.module /\ z.n = s.n /\ z.work = s.work
                         /\ z.counter = s.counter /\ z.runner = Null
  BY <1>1 DEF Halts, Statement
<1>4. Running(s) => Ended(s) = {EndOf(s)}
  BY <1>1 DEF Ended, EndOf
<1>5. ~Running(s) => Ended(s) = {}
  BY DEF Ended
<1>6. ~Running(s) /\ z # NoStatement => z = s
  BY <1>1 DEF Halts, Running, Statement
<1> QED BY <1>1, <1>2, <1>3, <1>4, <1>5, <1>6

LEMMA HaltApp ==
    ASSUME Inv, AppInv, NEW p, NEW s, NEW z, Halts(p, s, z), setting' = setting,
           KnownStays, \A b \in DOMAIN agent.known : agent'.known[b].last = agent.known[b].last,
           agent'.contexts = agent.contexts, agent'.unknown = agent.unknown, told.lossy => told'.lossy
    PROVE  AppMoves([q \in Pointers |-> EndOf(s)]) /\ LibFits /\ OnlyOf(s.life)
<1>0. p \in Pointers /\ Live(p) /\ s = app.lib[p] /\ app'.truth = app.truth \cup Ended(s)
  BY DEF Halts
<1>1. /\ s \in Statement /\ app'.lib[p] = z /\ \A q \in Pointers : q # p => app'.lib[q] = app.lib[q]
      /\ z # NoStatement => z.life = s.life /\ z.module = s.module /\ z.n = s.n /\ z.work = s.work
                            /\ z.counter = s.counter /\ z.runner = Null
      /\ Running(s) => Ended(s) = {EndOf(s)}
      /\ ~Running(s) => Ended(s) = {}
  BY HaltMoves
<1>2. s.n \in Nat
  BY <1>1 DEF Statement
<1> PICK x : x = EndOf(s)
  OBVIOUS
<1>3. x.life = s.life /\ x.n = s.n
  BY DEF EndOf
<1>4. Advances(p)
  BY <1>0, <1>1, <1>2 DEF Advances, Live, Running
<1>5. \A y \in app'.truth : y \in app.truth \/ (y = x /\ Ends2(p, x))
  <2> SUFFICES ASSUME NEW y \in app'.truth, y \notin app.truth PROVE y = x /\ Ends2(p, x)
    OBVIOUS
  <2>1. Running(s) /\ y = x
    BY <1>0, <1>1
  <2>2. \A a \in app.truth : a.life = x.life => a.n < x.n
    BY <1>0, <1>3, <2>1 DEF AppInv
  <2>3. Live(p)' => x.n <= app'.lib[p].n /\ ~Running(app'.lib[p])
    BY <1>1, <1>2, <1>3 DEF Live, Running
  <2> QED BY <1>0, <1>3, <2>1, <2>2, <2>3 DEF Ends2
<1>6. AppMoves([q \in Pointers |-> x]) /\ LibFits
  <2>1. app'.lives = app.lives /\ app'.used = app.used
    BY DEF Halts
  <2> QED BY <1>0, <1>1, <1>4, <1>5, <2>1, LibApp
<1>7. OnlyOf(s.life)
  <2>1. ASSUME NEW q \in Pointers, Live(q)'
        PROVE  /\ Live(q) /\ app'.lib[q].life = app.lib[q].life
               /\ app'.lib[q].runner = app.lib[q].runner \/ app'.lib[q].runner = Null
    BY <1>0, <1>1, <2>1 DEF Live
  <2>2. ASSUME NEW q \in Pointers, NEW b, b # s.life, Of(b, q)' PROVE Of(b, q) /\ app'.lib[q] = app.lib[q]
    BY <1>0, <1>1, <2>1, <2>2 DEF Of, Live
  <2>3. (\A q \in Pointers : Live(q) => ~Running(app.lib[q])) => app'.truth = app.truth
    BY <1>0, <1>1
  <2> QED BY <1>0, <2>1, <2>2, <2>3 DEF OnlyOf
<1> QED BY <1>6, <1>7

\* While the statements, the executions and the entries are what they were.
LEMMA SameRuns ==
    ASSUME Inv, Inv', FrameInv', NEW Z, RunInv(Z), agent'.known = agent.known, app'.truth = app.truth,
           \A p \in Pointers : Live(p)' => Live(p) /\ app'.lib[p] = app.lib[p],
           NEW t, NEW d, NEW G, NEW low, Carry(t, d, G, low, 0), \A c \in DOMAIN agent.known : NotEnding(t, low, c),
           \A g \in G : g.ctx \notin DOMAIN agent.known
    PROVE  RunInv(Z)'
<1> PICK cs : cs = {}
  OBVIOUS
<1>1. ASSUME NEW c \in DOMAIN agent.known, c \notin cs
      PROVE  /\ Undisturbed(c, Z, Z) /\ NotEnding(t, low, c)
             /\ \A g \in G : g.ctx = c => ~Stepping(g) /\ CallFits(t, g)'
  <2>1. \A p \in Pointers : Of(c, p)' => Of(c, p) /\ app'.lib[p] = app.lib[p]
    BY DEF Of
  <2> QED BY <2>1 DEF Undisturbed
<1>2. \A c \in DOMAIN agent.known : c \in cs => Runs(c, Z)'
  OBVIOUS
<1>3. \A x \in app'.truth : x \in app.truth \/ x.life \in DOMAIN agent.known
  OBVIOUS
<1>4. \A p \in Pointers : Live(p)' /\ Running(app'.lib[p]) =>
         app'.lib[p].life \in DOMAIN agent.known
         \/ (Live(p) /\ Running(app.lib[p]) /\ app'.lib[p].life = app.lib[p].life)
  OBVIOUS
<1>5. DOMAIN agent'.known = DOMAIN agent.known
  OBVIOUS
<1> QED BY <1>1, <1>2, <1>3, <1>4, <1>5, RunsKept

\* A statement that is named by its pointer runs unseen only when something was lost.
LEMMA UnnamedRests ==
    ASSUME Shape, NEW Z, RunInv(Z), NEW p \in Pointers, Live(p), app.lib[p].life = p
    PROVE  ~Running(app.lib[p])
<1>1. p \notin Nat
  BY PointersAssumption
<1>2. p \notin DOMAIN agent.known
  BY <1>1 DEF Shape, AgentOK, AppOK
<1> QED BY <1>2 DEF RunInv

LEMMA StatementRests ==
    ASSUME NEW c, NEW Z, Runs(c, Z), NEW p \in Pointers, Of(c, p), agent.known[c].active = Null
    PROVE  ~Running(app.lib[p])
BY DEF Runs, Stands

LEMMA ResetReturnsTrue ==
    ASSUME Held, NEW J, NEW H, TruthInv(J, H), NEW t \in Threads, ResetReturns(t)
    PROVE  \E K : TruthInv(K, H)'
<1> PICK Z, f, c, p, s, z : /\ Z = Last(J) /\ f = Top(t) /\ c = f.ctx /\ p = f.ptr /\ s = app.lib[p]
                            /\ z = [s EXCEPT !.runner = Null]
  OBVIOUS
<1>0. Inv /\ Inv' /\ Sound(Z, H) /\ AppInv /\ FrameInv /\ AgentInv(Z, H) /\ setting' = setting
  BY SoundNow DEF Held, Sound
<1>1. /\ frames[t] # << >> /\ f.op = "reset" /\ f.at = "inside" /\ told' = told /\ wire' = wire
      /\ app' = [app EXCEPT !.lib[p].runner = Null, !.truth = @ \cup Ended(s)]
      /\ \/ IsActive(c) /\ agent' = Finished(f, agent.known[c], f.value) /\ Move(t, Waiting(f, "leave"))
         \/ ~IsActive(c) /\ Leave(t) /\ agent' = agent
  BY DEF ResetReturns, At, Quiet
<1>2. /\ Shape /\ f \in Call /\ FrameFits(f) /\ p \in Pointers /\ f.value \in Counts \cup {Null}
      /\ c # Null => /\ c \in DOMAIN agent.known /\ agent.known[c] \in Known /\ H[c] = p
                     /\ (RunInv(Z) => Runs(c, Z) /\ CallFits(t, f))
      /\ Live(p) /\ s \in Statement /\ InUse(f)
  <2>1. InUse(f)
    BY <1>1 DEF InUse
  <2> QED BY <1>0, <1>1, <2>1, TopFits
<1>3. Halts(p, s, z)
  <2>1. z \in Statement
    BY <1>2 DEF Statement
  <2>2. app' = [app EXCEPT !.lib[p] = z, !.truth = @ \cup Ended(s)]
    BY <1>1, <1>2 DEF Shape, AppOK
  <2>3. Ended(s) \in SUBSET [life: Nat \cup Pointers, n: Nat, work: Nat] /\ AppOK /\ Aside
    BY <1>2, EndedTruth DEF Shape, Held
  <2> PICK es : es = Ended(s)
    OBVIOUS
  <2>4. /\ app' = [app EXCEPT !.lib[p] = z, !.truth = @ \cup es] /\ z \in Statement \cup {NoStatement}
        /\ es \in SUBSET [life: Nat \cup Pointers, n: Nat, work: Nat] /\ p \in Pointers /\ AppOK /\ Aside
    BY <1>2, <2>1, <2>2, <2>3, Zenon
  <2>5. app'.lives = app.lives /\ app'.used = app.used
    BY <2>4, LibMoves
  <2>6. app'.lib = [app.lib EXCEPT ![p] = z]
    BY <2>4 DEF AppOK
  <2>7. app'.truth = app.truth \cup es
    BY <2>4 DEF AppOK
  <2> QED BY <1>2, <2>1, <2>5, <2>6, <2>7 DEF Halts
<1>4. /\ app'.lib[p] = z /\ \A q \in Pointers : q # p => app'.lib[q] = app.lib[q]
      /\ z # NoStatement => z.life = s.life /\ z.module = s.module /\ z.n = s.n /\ z.work = s.work
                            /\ z.counter = s.counter /\ z.runner = Null
      /\ Running(s) => Ended(s) = {EndOf(s)}
      /\ ~Running(s) => Ended(s) = {} /\ (z # NoStatement => z = s)
  BY <1>0, <1>3, HaltMoves
<1>5. app'.truth = app.truth \cup Ended(s) /\ app'.lives = app.lives
  BY <1>3 DEF Halts
<1> PICK En : En = [q \in Pointers |-> EndOf(s)]
  OBVIOUS
<1>6. CASE IsActive(c) /\ agent' = Finished(f, agent.known[c], f.value) /\ Move(t, Waiting(f, "leave"))
  <2> PICK k, r, l : k = agent.known[c] /\ r = f.value /\ l = Cleared(k)
    OBVIOUS
  <2>1. c # Null /\ s.life = c /\ k.active # Null
    BY <1>1, <1>2, <1>6, Zenon DEF IsActive, FrameFits
  <2>2. Reports1(t, f, c, k, r)
    BY <1>0, <1>1, <1>2, <1>5, <1>6, <2>1 DEF Reports1, AppInv
  <2>3. OneEntry(c, l) /\ l.last = k.last
    BY <2>2, ReportMoves
  <2>4. /\ KnownStays /\ \A b \in DOMAIN agent.known : agent'.known[b].last = agent.known[b].last
        /\ agent'.contexts = agent.contexts /\ agent'.unknown = agent.unknown
    BY <2>3, OneEntryMoves DEF OneEntry
  <2>5. AppMoves(En) /\ LibFits /\ OnlyOf(c)
    BY <1>0, <1>1, <1>3, <2>1, <2>4, HaltApp
  <2>6. ASSUME RunInv(Z), r # Null PROVE Over(t, c, k, r)
    <3>1. Runs(c, Z) /\ CallFits(t, f)
      BY <1>2, <2>1, <2>6
    <3>2. Metered(t, f)
      BY <1>1, <2>6, <3>1, Zenon DEF CallFits
    <3>3. /\ Running(s) /\ r = s.work /\ (k.last # Null => k.last = s.counter) /\ k.owner = t
      BY <1>1, <2>6, <3>1, <3>2, Zenon DEF CallFits, Metered
    <3>4. Lonely(t, c)
      BY <1>0, <1>1, <1>2, <2>1, <3>1, <3>3, Solo
    <3>5. s.n = k.next
      <4>1. Of(c, p)
        BY <1>2, <2>1 DEF Of
      <4> QED BY <1>2, <2>1, <3>1, <3>3, <4>1 DEF Runs, Stands
    <3>6. EndOf(s) = [life |-> c, n |-> k.next, work |-> r]
      BY <2>1, <3>3, <3>5, Zenon DEF EndOf
    <3>7. \A x \in app'.truth : x \in app.truth \/ (x.life = c /\ x.n = k.next)
      BY <1>4, <1>5, <3>3, <3>6
    <3>8. ASSUME NEW q \in Pointers, Of(c, q)'
          PROVE  /\ ~Running(app'.lib[q]) /\ app'.lib[q].n = k.next
                 /\ k.last # Null => app'.lib[q].counter = k.last
      <4>1. Of(c, q)
        BY <2>5, <3>8 DEF OnlyOf, Of
      <4>2. q = p
        BY <1>0, <1>2, <2>1, <4>1, OnePointer DEF Of
      <4>3. z # NoStatement
        BY <1>4, <3>8, <4>2 DEF Of, Live
      <4> QED BY <1>4, <3>3, <3>5, <4>2, <4>3 DEF Running
    <3> QED BY <1>4, <1>5, <3>3, <3>4, <3>6, <3>7, <3>8 DEF Over
  <2> QED BY <2>2, <2>5, <2>6, ReportTrue
<1>7. CASE ~IsActive(c) /\ Leave(t) /\ agent' = agent
  <2>1. KnownStays /\ (Unharmed' => Unharmed)
    BY <1>1, <1>7 DEF KnownStays, Unharmed
  <2>2. AppMoves(En) /\ LibFits /\ OnlyOf(s.life)
    BY <1>0, <1>1, <1>3, <1>7, <2>1, HaltApp
  <2>3. Carry(t, 1, {}, 1, 0) /\ Apart(frames'[t]) /\ ~WaitsFor(t, 0)
    BY <1>0, <1>1, <1>7, LeaveCarry, PopApart, NoWait DEF Inv
  <2> PICK G, d, low : G = {} /\ d = 1 /\ low = 1
    OBVIOUS
  <2>4. Carry(t, d, G, low, 0) /\ (\A g \in G : FALSE)
    BY <2>3
  <2>5. \A w \in 0 .. Len(agent.queue) : Still(w) => app'.truth = app.truth /\ Still(w - 0)'
    <3>1. \A b \in DOMAIN agent'.known : agent'.known[b].active # Null =>
             /\ b \in DOMAIN agent.known /\ agent.known[b].active # Null
             /\ agent'.known[b].owner = agent.known[b].owner
      BY <1>7
    <3>2. /\ \A q \in Pointers : Live(q)' => \/ Live(q) /\ app'.lib[q].runner = app.lib[q].runner
                                             \/ app'.lib[q].runner = Null
          /\ (\A q \in Pointers : Live(q) => ~Running(app.lib[q])) => app'.truth = app.truth
      BY <2>2 DEF OnlyOf
    <3> QED BY <2>3, <2>4, <3>1, <3>2, QuietCalm
  <2>6. ASSUME FrameInv', Unharmed, RunInv(Z) PROVE RunInv(Z)'
    <3>1. ~Running(s)
      <4>1. CASE c = Null
        <5>1. s.life = p
          BY <1>2, <2>6, <4>1 DEF FrameFits
        <5> QED BY <1>2, <2>6, <5>1, UnnamedRests
      <4>2. CASE c # Null
        <5>1. agent.known[c].active = Null /\ Of(c, p) /\ Runs(c, Z)
          BY <1>2, <1>7, <2>6, <4>2 DEF IsActive, FrameFits, Of
        <5> QED BY <1>2, <5>1, StatementRests
      <4> QED BY <4>1, <4>2
    <3>2. app'.truth = app.truth /\ \A q \in Pointers : Live(q)' => Live(q) /\ app'.lib[q] = app.lib[q]
      <4>1. \A q \in Pointers : Live(q)' => Live(q)
        BY <2>2 DEF OnlyOf
      <4>2. Live(p)' => app'.lib[p] = app.lib[p]
        BY <1>4, <3>1 DEF Live
      <4> QED BY <1>4, <1>5, <3>1, <4>1, <4>2
    <3>3. ASSUME NEW b \in DOMAIN agent.known PROVE NotEnding(t, low, b)
      <4>1. CASE c # b
        <5>1. NotEnding(t, 1, b)
          BY <1>1, <1>2, <4>1, OthersEnd, Zenon
        <5> QED BY <5>1
      <4>2. CASE c = b
        <5>1. f = frames[t][1] /\ DOMAIN frames[t] \subseteq Nat \ {0}
          <6>1. frames[t] \in Seq(Call)
            BY <1>2, FrameIsCall
          <6> QED BY <1>1, <1>2, <6>1, TopOK
        <5>2. ~Metered(t, f) /\ ~Ends1(f) /\ ~Stepping(f)
          BY <1>1, <1>7, <4>2 DEF Metered, Ends1, Stepping, IsActive
        <5>3. \A j \in DOMAIN frames[t] : Stepping(frames[t][j]) => j > 1
          BY <5>1, <5>2
        <5> QED BY <5>1, <5>2, <5>3 DEF NotEnding, MeteredBy, EndedBy
      <4> QED BY <4>1, <4>2
    <3>4. agent'.known = agent.known /\ \A g \in G : g.ctx \notin DOMAIN agent.known
      BY <1>7, <2>4
    <3> QED BY <1>0, <2>4, <2>6, <3>2, <3>3, <3>4, SameRuns
  <2>7. agent'.contexts = agent.contexts /\ agent'.queue = agent.queue /\ app.truth \subseteq app'.truth
    BY <1>5, <1>7
  <2>8. TruthInv(J, H)'
    BY <1>1, <2>1, <2>2, <2>3, <2>4, <2>5, <2>6, <2>7, SilentTrue
  <2> QED BY <2>8
<1> QED BY <1>1, <1>6, <1>7

\* A hook that goes on, or leaves.
Carries(t, g) == \E d, G : /\ Carry(t, d, G, 1, 0) /\ Apart(frames'[t]) /\ ~WaitsFor(t, 0) /\ G \subseteq {g}
                          /\ (Move(t, g) => d = 0 /\ G = {g}) /\ (~Move(t, g) => d = 1 /\ G = {})
LEMMA HookCarry ==
    ASSUME Held, FrameInv, NEW t \in Threads, frames[t] # << >>, NEW f, f = Top(t), f.at # "enter",
           NEW g \in Call, g.op = f.op, g.ptr = f.ptr, Move(t, g) \/ Leave(t)
    PROVE  Carries(t, g)
<1>0. Shape /\ Shape' /\ ~WaitsFor(t, 0)
  BY NoWait DEF Held, Inv
<1>1. CASE Move(t, g)
  <2>1. Carry(t, 0, {g}, 1, 0) /\ Apart(frames'[t])
    BY <1>0, <1>1, MoveCarry, MoveApart
  <2> PICK d, G : d = 0 /\ G = {g}
    OBVIOUS
  <2> QED BY <1>0, <1>1, <2>1 DEF Carries
<1>2. CASE ~Move(t, g)
  <2>1. Carry(t, 1, {}, 1, 0) /\ Apart(frames'[t])
    BY <1>0, <1>2, LeaveCarry, PopApart
  <2> PICK d, G : d = 1 /\ G = {}
    OBVIOUS
  <2> QED BY <1>0, <1>2, <2>1 DEF Carries
<1> QED BY <1>1, <1>2

\* A statement that is gone is known to its executions as what ended with it.
LEMMA GoneRuns ==
    ASSUME Held, Inv, Inv', AppInv, FrameInv', NEW c, NEW Z, RunInv(Z), c \in DOMAIN agent.known, Runs(c, Z),
           agent' = agent, NEW p, NEW s, s.life = c, Halts(p, s, NoStatement), OnlyOf(c), \A q \in Pointers : ~Of(c, q)',
           NEW t \in Threads, Lonely(t, c), frames[t] # << >>, NEW f, f = Top(t), f.ctx = c, ~Stepping(f),
           NEW d, NEW G, Carry(t, d, G, 1, 0), \A g \in G : ~Stepping(g) /\ g.ctx = c /\ CallFits(t, g)'
    PROVE  RunInv(Z)'
<1> PICK k : k = agent.known[c]
  OBVIOUS
<1>0. p \in Pointers /\ Live(p) /\ s = app.lib[p] /\ app'.truth = app.truth \cup Ended(s) /\ Of(c, p) /\ Shape
  BY DEF Halts, Of, Inv
<1>1. /\ Running(s) => Ended(s) = {EndOf(s)}
      /\ ~Running(s) => Ended(s) = {}
  BY HaltMoves
<1>2. EndOf(s).life = c /\ EndOf(s).n = s.n
  BY DEF EndOf
<1>3. Running(s) => s.n = k.next /\ k.active # Null
  <2>1. Stands(c, s)
    BY <1>0 DEF Runs
  <2> QED BY <2>1 DEF Stands
<1>4. \A x \in app'.truth : x \in app.truth \/ (Running(s) /\ x.life = c /\ x.n = s.n)
  BY <1>0, <1>1, <1>2
<1>5. k.depth = 0
  BY <1>0, NoDepth
<1>6. CallsFit(c)' /\ OneStep(c)'
  <2>1. /\ agent'.known[c].active = agent.known[c].active /\ agent'.known[c].depth = 0
        /\ agent'.known[c].owner = agent.known[c].owner /\ agent'.known[c].next = agent.known[c].next
        /\ app.truth \subseteq app'.truth
    BY <1>0, <1>5
  <2>2. \A g \in G : ~Stepping(g) /\ (g.ctx = c => CallFits(t, g)')
    OBVIOUS
  <2> QED BY <2>1, <2>2, AloneRuns
<1>7. Opened(c, Z)'
  <2>1. Opened(c, Z)
    BY DEF Runs
  <2>2. \A x \in app'.truth : x.life = c => <<c, x.n>> \in Z.begun
    BY <1>3, <1>4, <2>1 DEF Opened
  <2> QED BY <2>1, <2>2 DEF Opened
<1>8. Runs(c, Z)'
  BY <1>6, <1>7 DEF Runs
<1>9. \A b \in DOMAIN agent.known : b # c => agent'.known[b] = agent.known[b] /\ NotEnding(t, 1, b)
  BY <1>0, OthersEnd
<1>10. \A x \in app'.truth : x \in app.truth \/ x.life = c
  BY <1>4
<1>11. /\ \A q \in Pointers : \A b : b # c => (Of(b, q)' => Of(b, q) /\ app'.lib[q] = app.lib[q])
       /\ \A q \in Pointers : Live(q)' => Live(q) /\ app'.lib[q].life = app.lib[q].life
       /\ app.truth \subseteq app'.truth
  BY DEF OnlyOf
<1> PICK low : low = 1
  OBVIOUS
<1>12. Carry(t, d, G, low, 0) /\ (\A g \in G : g.ctx = c) /\ DOMAIN agent'.known = DOMAIN agent.known
       /\ \A b \in DOMAIN agent.known : b # c => agent'.known[b] = agent.known[b] /\ NotEnding(t, low, b)
  BY <1>9
<1>13. Z.begun \subseteq Z.begun /\ \A x \in Z.told : x \in Z.told \/ x.life = c
  OBVIOUS
<1> QED BY <1>8, <1>10, <1>11, <1>12, <1>13, OthersRun

LEMMA FinalizeReturnsTrue ==
    ASSUME Held, NEW J, NEW H, TruthInv(J, H), NEW t \in Threads, FinalizeReturns(t)
    PROVE  TruthInv(J, H)'
<1> PICK Z, f, c, p, s, v : /\ Z = Last(J) /\ f = Top(t) /\ c = f.ctx /\ p = f.ptr /\ s = app.lib[p]
                            /\ v = f.value
  OBVIOUS
<1> PICK g, z : g = Placed(f, "freed", v) /\ z = NoStatement
  OBVIOUS
<1>0. Inv /\ Inv' /\ Sound(Z, H) /\ AppInv /\ FrameInv /\ AgentInv(Z, H) /\ setting' = setting
  BY SoundNow DEF Held, Sound
<1>1. /\ frames[t] # << >> /\ f.op = "finalize" /\ f.at = "inside" /\ told' = told /\ wire' = wire
      /\ app' = [app EXCEPT !.lib[p] = z, !.truth = @ \cup Ended(s)] /\ agent' = agent
      /\ Move(t, [f EXCEPT !.at = "freed"]) \/ Leave(t)
  BY DEF FinalizeReturns, At, Quiet
<1>2. /\ Shape /\ f \in Call /\ FrameFits(f) /\ p \in Pointers /\ f.value \in Counts \cup {Null}
      /\ c # Null => /\ c \in DOMAIN agent.known /\ agent.known[c] \in Known /\ H[c] = p
                     /\ (RunInv(Z) => Runs(c, Z) /\ CallFits(t, f))
      /\ Live(p) /\ s \in Statement /\ InUse(f)
  <2>1. InUse(f)
    BY <1>1 DEF InUse
  <2> QED BY <1>0, <1>1, <2>1, TopFits
<1>3. Halts(p, s, z)
  <2> PICK es : es = Ended(s)
    OBVIOUS
  <2>1. /\ app' = [app EXCEPT !.lib[p] = z, !.truth = @ \cup es] /\ z \in Statement \cup {NoStatement}
        /\ es \in SUBSET [life: Nat \cup Pointers, n: Nat, work: Nat] /\ AppOK /\ Aside
    BY <1>1, <1>2, EndedTruth DEF Shape, Held
  <2>2. app'.lives = app.lives /\ app'.used = app.used
    BY <1>2, <2>1, LibMoves
  <2>3. app'.lib = [app.lib EXCEPT ![p] = z] /\ app'.truth = app.truth \cup es
    BY <2>1 DEF AppOK
  <2> QED BY <1>2, <2>2, <2>3 DEF Halts
<1>4. /\ app'.lib[p] = z /\ \A q \in Pointers : q # p => app'.lib[q] = app.lib[q]
      /\ Running(s) => Ended(s) = {EndOf(s)}
      /\ ~Running(s) => Ended(s) = {}
  BY <1>0, <1>3, HaltMoves
<1>5. app'.truth = app.truth \cup Ended(s)
  BY <1>3 DEF Halts
<1>6. /\ g \in Call /\ g.op = f.op /\ g.ptr = p /\ g.ctx = c /\ g.at = "freed" /\ g.value = v
      /\ Move(t, g) \/ Leave(t)
  <2>1. [f EXCEPT !.at = "freed"] = g
    BY <1>2 DEF Placed, Call
  <2>2. Same(g, f) /\ g.at = "freed" /\ g.value = v
    BY <1>2, PlacedSame
  <2> QED BY <1>1, <2>1, <2>2 DEF Same
<1>7. PICK d, G : Carry(t, d, G, 1, 0) /\ Apart(frames'[t]) /\ ~WaitsFor(t, 0) /\ G \subseteq {g}
  <2>1. /\ f.at # "enter" /\ frames[t] # << >> /\ f = Top(t) /\ g \in Call /\ g.op = f.op /\ g.ptr = f.ptr
        /\ Move(t, g) \/ Leave(t)
    BY <1>1, <1>6
  <2>2. Carries(t, g)
    BY <1>0, <2>1, HookCarry
  <2> QED BY <2>2 DEF Carries
<1>8. \A h \in G : h = g /\ ~Stepping(h)
  BY <1>6, <1>7 DEF Stepping
<1> PICK En : En = [q \in Pointers |-> EndOf(s)]
  OBVIOUS
<1>9. KnownStays /\ (Unharmed' <=> Unharmed)
  BY <1>1 DEF KnownStays, Unharmed
<1>10. AppMoves(En) /\ LibFits /\ OnlyOf(s.life)
  BY <1>0, <1>1, <1>3, <1>9, HaltApp
<1>11. ~Live(p)' /\ \A q \in Pointers : \A b : Of(b, q)' => q # p /\ Of(b, q)
  BY <1>4 DEF Live, Of
<1>12. ASSUME c # Null PROVE s.life = c /\ \A q \in Pointers : ~Of(c, q)'
  <2>1. s.life = c /\ Of(c, p)
    BY <1>2, <1>12 DEF FrameFits, Of
  <2> QED BY <1>0, <1>2, <1>11, <2>1, OnePointer
<1>13. FrameFits(g)'
  BY <1>6, <1>12 DEF FrameFits, InUse
<1> PICK low : low = 1
  OBVIOUS
<1>14. Carry(t, d, G, low, 0) /\ \A h \in G : FrameFits(h)' /\ (h.ctx # Null => H[h.ctx] = h.ptr)
  BY <1>2, <1>6, <1>7, <1>8, <1>13
<1>15. \A w \in 0 .. Len(agent.queue) : Still(w) => app'.truth = app.truth /\ Still(w - 0)'
  <2>1. \A b \in DOMAIN agent'.known : agent'.known[b].active # Null =>
           /\ b \in DOMAIN agent.known /\ agent.known[b].active # Null
           /\ agent'.known[b].owner = agent.known[b].owner
    BY <1>1
  <2>2. /\ \A q \in Pointers : Live(q)' => \/ Live(q) /\ app'.lib[q].runner = app.lib[q].runner
                                           \/ app'.lib[q].runner = Null
        /\ (\A q \in Pointers : Live(q) => ~Running(app.lib[q])) => app'.truth = app.truth
    BY <1>4, <1>5, <1>2, <1>11 DEF Live, Of
  <2>3. \A h \in G : ~Stepping(h)
    BY <1>8
  <2> QED BY <1>7, <1>14, <2>1, <2>2, <2>3, QuietCalm
<1>16. ASSUME FrameInv', Unharmed, RunInv(Z) PROVE RunInv(Z)'
  <2>1. CASE c = Null
    <3>1. ~Running(s)
      <4>1. s.life = p
        BY <1>2, <1>16, <2>1 DEF FrameFits
      <4> QED BY <1>2, <1>16, <4>1, UnnamedRests
    <3>2. app'.truth = app.truth /\ \A q \in Pointers : Live(q)' => Live(q) /\ app'.lib[q] = app.lib[q]
      BY <1>4, <1>5, <1>11, <3>1 DEF Live, Of
    <3>3. Null \notin DOMAIN agent.known
      BY <1>2, NullAssumption DEF Shape, AgentOK, AppOK
    <3>4. \A b \in DOMAIN agent.known : NotEnding(t, low, b)
      <4>1. \A b \in DOMAIN agent.known : NotEnding(t, 1, b)
        BY <1>1, <1>2, <2>1, <3>3, OthersEnd
      <4> QED BY <4>1
    <3>5. agent'.known = agent.known /\ \A h \in G : h.ctx \notin DOMAIN agent.known
      BY <1>1, <1>6, <1>8, <2>1, <3>3
    <3> QED BY <1>0, <1>14, <1>16, <3>2, <3>4, <3>5, SameRuns
  <2>2. CASE c # Null
    <3>1. /\ c \in DOMAIN agent.known /\ Runs(c, Z) /\ CallFits(t, f) /\ s.life = c
          /\ \A q \in Pointers : ~Of(c, q)'
      BY <1>2, <1>12, <1>16, <2>2
    <3>2. Lonely(t, c)
      BY <1>0, <1>1, <1>2, <3>1, Solo
    <3>3. CallFits(t, g)'
      <4> PICK k : k = agent.known[c]
        OBVIOUS
      <4>1. ASSUME v # Null, k.active # Null PROVE [life |-> c, n |-> k.next, work |-> v] \in app'.truth
        <5>1. Metered(t, f)
          BY <1>1, <3>1, <4>1 DEF CallFits
        <5>2. Running(s) /\ v = s.work
          BY <3>1, <4>1, <5>1 DEF CallFits
        <5>3. Stands(c, s)
          BY <1>2, <3>1 DEF Runs, Of
        <5>4. s.n = k.next
          BY <5>2, <5>3 DEF Stands
        <5>5. EndOf(s) \in app'.truth
          BY <1>4, <1>5, <5>2
        <5> QED BY <3>1, <5>2, <5>4, <5>5 DEF EndOf
      <4>2. agent'.known[g.ctx] = k /\ g.ctx = c /\ g.value = v
        BY <1>1, <1>6
      <4>3. g.at = "freed"
        BY <1>6
      <4>4. ~Stepping(g) /\ ~Ends1(g) /\ ~Metered(t, g)' /\ g.at \notin {"measure", "inside"} /\ ~InUse(g)
        BY <4>3 DEF Stepping, Ends1, Metered, InUse
      <4> QED BY <4>1, <4>2, <4>4 DEF CallFits
    <3>4. ~Stepping(f)
      BY <1>1 DEF Stepping
    <3>5. \A h \in G : ~Stepping(h) /\ h.ctx = c /\ CallFits(t, h)'
      BY <1>6, <1>8, <3>3
    <3>6. OnlyOf(c) /\ Halts(p, s, NoStatement)
      BY <1>3, <1>10, <3>1
    <3> QED BY <1>0, <1>1, <1>7, <1>16, <3>1, <3>2, <3>4, <3>5, <3>6, GoneRuns
  <2> QED BY <2>1, <2>2
<1>17. agent'.contexts = agent.contexts /\ agent'.queue = agent.queue /\ app.truth \subseteq app'.truth
       /\ (Unharmed' => Unharmed)
  BY <1>1, <1>5, <1>9
<1> QED BY <1>1, <1>7, <1>9, <1>10, <1>14, <1>15, <1>16, <1>17, SilentTrue

LEMMA TakenAway == \A a, b \in Nat : (a + b) - a = b
OBVIOUS

LEMMA MeasuresTrue ==
    ASSUME Held, NEW J, NEW H, TruthInv(J, H), NEW t \in Threads, Measures(t)
    PROVE  TruthInv(J, H)'
<1>a. PICK Z, f, c, v, k, r : /\ Z = Last(J) /\ f = Top(t) /\ c = f.ctx /\ v = f.value
                              /\ k = Counted(agent.known[c], v) /\ r = Metrics(c, v)
  OBVIOUS
<1>b. PICK g, p, s, l : g = Placed(f, "inside", r) /\ p = f.ptr /\ s = app.lib[p] /\ l = agent.known[c]
  OBVIOUS
<1>0. Inv /\ Inv' /\ Sound(Z, H) /\ AppInv /\ FrameInv /\ AgentInv(Z, H) /\ setting' = setting
  BY <1>a, <1>b, SoundNow DEF Held, Sound
<1>1. /\ frames[t] # << >> /\ f.op \in {"reset", "finalize"} /\ f.at = "measure" /\ app' = app /\ wire' = wire
      /\ Say(Loses(Decreased(c, v)))
      /\ agent' = [agent EXCEPT !.known[c].last = v] /\ Move(t, g)
  BY <1>a, <1>b DEF Measures, At, Loses, Placed
<1>2. /\ Shape /\ f \in Call /\ FrameFits(f) /\ p \in Pointers /\ v \in Counts \cup {Null} /\ c # Null
      /\ c \in DOMAIN agent.known /\ l \in Known /\ H[c] = p
      /\ (RunInv(Z) => Runs(c, Z) /\ CallFits(t, f)) /\ Live(p) /\ s \in Statement /\ InUse(f)
  <2>1. c # Null /\ InUse(f) /\ Shape
    BY <1>a, <1>b, <1>0, <1>1, TopOK DEF Inv, InUse
  <2> QED BY <1>a, <1>b, <1>0, <1>1, <2>1, TopFits
<1>3. k \in Known /\ r \in Counts \cup {Null} /\ k.next = l.next /\ k.last = v
      /\ k.module = l.module /\ k.active = l.active /\ k.owner = l.owner /\ k.depth = l.depth
  <2>1. AgentOK /\ Wrap \in Nat
    BY <1>2, Bounds DEF Shape, AppOK
  <2>2. r \in Counts \cup {Null}
    BY <1>a, <1>2, <2>1, MetricsCounted
  <2> QED BY <1>a, <1>b, <1>2, <2>2, CountedMoves
<1>4. (told.lossy => told'.lossy) /\ Within(v) /\ app'.lives = app.lives
  <2>1. told'.lossy = (told.lossy \/ Decreased(c, v))
    <3>1. ToldOK /\ Len(agent.queue) \in Nat
      BY <1>2 DEF Shape, RecordsOK
    <3>2. Decreased(c, v) \in BOOLEAN
      BY DEF Decreased
    <3> QED BY <1>1, <3>1, <3>2, ToldMoves
  <2> QED BY <1>a, <1>b, <1>1, <1>2, <2>1 DEF FrameFits
<1>5. Of(c, p) /\ s.life = c
  BY <1>a, <1>b, <1>1, <1>2, Zenon DEF FrameFits, Of
<1>6. OneEntry(c, k) /\ agent'.queue = agent.queue
  <2>1. AgentOK /\ app'.lives = app.lives
    BY <1>a, <1>b, <1>2, <1>4 DEF Shape
  <2>2. agent' = [agent EXCEPT !.known[c] = k]
    BY <1>a, <1>b, <1>1, <1>2 DEF Counted, Shape, AgentOK
  <2> QED BY <1>a, <1>b, <1>2, <1>3, <2>1, <2>2, EntryOnly DEF OneEntry
<1>7. /\ KnownStays /\ agent'.contexts = agent.contexts /\ (Unharmed' => Unharmed) /\ agent'.known[c] = k
      /\ DOMAIN agent'.known = DOMAIN agent.known
      /\ \A b \in DOMAIN agent.known : b # c => agent'.known[b] = agent.known[b]
  BY <1>a, <1>b, <1>4, <1>6, OneEntryMoves DEF OneEntry, Unharmed
<1>e. PICK En : En = [q \in Pointers |-> q]
  OBVIOUS
<1>8. AppMoves(En) /\ LibFits
  BY <1>b, <1>e, <1>0, <1>1, <1>3, <1>4, <1>6, EntryApp
<1>9. g \in Call /\ g.op = f.op /\ g.ptr = p /\ g.ctx = c /\ g.at = "inside" /\ g.value = r
  <2>1. Same(g, f) /\ g.at = "inside" /\ g.value = r
    BY <1>a, <1>b, <1>2, <1>3, PlacedSame
  <2> QED BY <1>a, <1>b, <2>1 DEF Same
<1>10. /\ Carry(t, 0, {g}, 1, 0) /\ Apart(frames'[t]) /\ ~WaitsFor(t, 0)
       /\ frames'[t][1] = g /\ 1 \in DOMAIN frames'[t]
  <2>1. Carry(t, 0, {g}, 1, 0) /\ frames'[t][1] = g /\ 1 \in DOMAIN frames'[t]
    BY <1>a, <1>b, <1>0, <1>1, <1>9, MoveCarry DEF Inv
  <2>2. Apart(frames'[t]) /\ ~WaitsFor(t, 0)
    BY <1>a, <1>b, <1>0, <1>1, <1>9, MoveApart, NoWait DEF Inv
  <2> QED BY <2>1, <2>2
<1>h. PICK G, d, low : G = {g} /\ d = 0 /\ low = 1
  OBVIOUS
<1>11. FrameFits(g)' /\ ~Stepping(g)
  <2>1. app'.lib[g.ptr] = s /\ InUse(g)
    BY <1>a, <1>b, <1>1, <1>9 DEF InUse
  <2> QED BY <1>a, <1>b, <1>1, <1>2, <1>5, <1>9, <2>1 DEF FrameFits, Stepping
<1>12. Carry(t, d, G, low, 0) /\ \A h \in G : FrameFits(h)' /\ (h.ctx # Null => H[h.ctx] = h.ptr)
  BY <1>h, <1>2, <1>9, <1>10, <1>11
<1>13. \A w \in 0 .. Len(agent.queue) : Still(w) => app'.truth = app.truth /\ Still(w - 0)'
  <2>1. ASSUME NEW b \in DOMAIN agent'.known, agent'.known[b].active # Null
        PROVE  /\ b \in DOMAIN agent.known /\ agent.known[b].active # Null
               /\ agent'.known[b].owner = agent.known[b].owner
    BY <1>a, <1>b, <1>3, <1>7, <2>1
  <2>2. \A q \in Pointers : Live(q)' => Live(q) /\ app'.lib[q].runner = app.lib[q].runner
    BY <1>a, <1>b, <1>1 DEF Live
  <2>3. \A h \in G : ~Stepping(h)
    BY <1>h, <1>11
  <2> QED BY <1>h, <1>1, <1>10, <1>12, <2>1, <2>2, <2>3, QuietCalm
<1>14. ASSUME FrameInv', RunInv(Z) PROVE RunInv(Z)'
  <2>1. Runs(c, Z) /\ CallFits(t, f) /\ ~Stepping(f)
    BY <1>a, <1>b, <1>1, <1>2, <1>14 DEF Stepping
  <2>2. /\ l.active # Null /\ Running(s) /\ (f.op = "reset" => l.owner = t)
        /\ (v # Null => v = s.counter)
    BY <1>a, <1>b, <1>1, <2>1 DEF CallFits
  <2>3. Lonely(t, c) /\ l.depth = 0
    <3>1. Lonely(t, c)
      BY <1>a, <1>b, <1>0, <1>1, <1>2, <2>1, <2>2, Solo
    <3> QED BY <1>a, <1>b, <1>0, <1>1, <1>2, <2>1, <3>1, NoDepth
  <2>4. s.n = l.next /\ Level(c, s.counter, s.work)
    <3>1. Stands(c, s)
      BY <1>a, <1>b, <1>2, <1>5, <2>1 DEF Runs
    <3>2. ASSUME NEW u \in Threads PROVE ~MeteredBy(u, c)
      <4>1. CASE u = t
        <5>1. frames[t][1] = f
          BY <1>a, <1>b, <1>1, <1>2, TopOK
        <5> QED BY <1>a, <1>b, <1>1, <4>1, <5>1 DEF MeteredBy, Metered
      <4>2. CASE u # t
        BY <1>2, <2>3, <4>2, LonelyEnds
      <4> QED BY <4>1, <4>2
    <3> QED BY <1>a, <1>b, <2>2, <3>1, <3>2 DEF Stands
  <2>5. r # Null => r = s.work
    <3> SUFFICES ASSUME r # Null PROVE r = s.work
      OBVIOUS
    <3>1. v # Null /\ l.last # Null /\ r = v - l.last
      BY <1>a, <1>b DEF Metrics
    <3>2. v = l.last + s.work
      <4>1. agent.known[c].last # Null => s.counter = agent.known[c].last + s.work
        BY <1>a, <1>b, <2>4 DEF Level
      <4>2. s.counter = l.last + s.work
        BY <1>a, <1>b, <3>1, <4>1, Zenon
      <4> QED BY <1>a, <1>b, <2>2, <3>1, <4>2
    <3>3. l.last \in Nat /\ s.work \in Nat
      <4>1. l.last \in Counts /\ s.work \in Nat
        BY <1>2, <3>1 DEF Known, Statement
      <4> QED BY <4>1 DEF Counts
    <3>4. r = (l.last + s.work) - l.last
      BY <1>a, <1>b, <3>1, <3>2
    <3> QED BY <3>3, <3>4, TakenAway
  <2>6. app'.lib[p] = s /\ agent'.known[c] = k /\ \A q \in Pointers : \A b : Of(b, q)' <=> Of(b, q)
    BY <1>a, <1>b, <1>1, <1>7, SameApp, Zenon
  <2>7. CallFits(t, g)' /\ Metered(t, g)'
    <3>1. Metered(t, g)'
      <4>1. k.active = l.active /\ k.owner = l.owner
        BY <1>a, <1>b, <1>3
      <4>2. k.active # Null /\ c # Null /\ (f.op = "reset" => k.owner = t)
        BY <1>2, <2>2, <4>1
      <4>3. g.op = f.op /\ g.op # "step" /\ g.ctx = c /\ g.at = "inside"
        BY <1>a, <1>b, <1>1, <1>9
      <4>4. agent'.known[g.ctx] = k
        BY <2>6, <4>3, Zenon
      <4> QED BY <4>2, <4>3, <4>4, Zenon DEF Metered
    <3>2. Running(s) /\ (g.value # Null => g.value = s.work) /\ (k.last # Null => k.last = s.counter)
      BY <1>a, <1>b, <1>3, <1>9, <2>2, <2>5
    <3>3. ~Stepping(g) /\ ~Ends1(g) /\ g.op # "step" /\ g.at \notin {"measure", "freed"}
      BY <1>a, <1>b, <1>1, <1>9 DEF Stepping, Ends1
    <3>4. app'.lib[g.ptr] = s /\ agent'.known[g.ctx] = k
      BY <1>a, <1>b, <1>9, <2>6
    <3> QED BY <1>a, <1>b, <3>1, <3>2, <3>3, <3>4 DEF CallFits
  <2>8. MeteredBy(t, c)'
    BY <1>a, <1>b, <1>9, <1>10, <2>7, Zenon DEF MeteredBy
  <2>9. ASSUME NEW q \in Pointers, Of(c, q)' PROVE Stands(c, app.lib[q])'
    <3>1. q = p
      BY <1>a, <1>b, <1>0, <1>2, <1>5, <2>6, <2>9, OnePointer
    <3>2. app'.lib[q] = s
      BY <1>a, <1>b, <2>6, <3>1, Zenon
    <3> QED BY <1>a, <1>b, <1>3, <2>2, <2>4, <2>6, <2>8, <3>2 DEF Stands
  <2>10. Opened(c, Z)'
    <3>1. Opened(c, Z)
      BY <1>a, <1>b, <2>1 DEF Runs
    <3> QED BY <1>a, <1>b, <1>1, <1>3, <2>6, <3>1 DEF Opened
  <2>11. CallsFit(c)' /\ OneStep(c)'
    <3>1. /\ agent'.known[c].active = agent.known[c].active
          /\ agent'.known[c].owner = agent.known[c].owner /\ agent'.known[c].next = agent.known[c].next
          /\ agent'.known[c].depth = 0 /\ app.truth \subseteq app'.truth
      BY <1>a, <1>b, <1>1, <1>3, <2>3, <2>6
    <3>2. (\A h \in G : ~Stepping(h) /\ (h.ctx = c => CallFits(t, h)')) /\ Carry(t, d, G, 1, 0)
      BY <1>h, <1>10, <1>11, <2>7
    <3> QED BY <1>a, <1>b, <1>0, <1>2, <2>1, <2>3, <3>1, <3>2, AloneRuns
  <2>12. Runs(c, Z)'
    BY <1>a, <1>b, <2>9, <2>10, <2>11 DEF Runs
  <2>13. \A b \in DOMAIN agent.known : b # c => agent'.known[b] = agent.known[b] /\ NotEnding(t, low, b)
    <3>1. \A b : b # c => NotEnding(t, 1, b)
      BY <1>a, <1>b, <1>1, <1>2, OthersEnd
    <3> QED BY <1>h, <1>7, <3>1
  <2>14. /\ \A q \in Pointers : \A b : b # c => (Of(b, q)' => Of(b, q) /\ app'.lib[q] = app.lib[q])
         /\ \A q \in Pointers : Live(q)' => Live(q) /\ app'.lib[q].life = app.lib[q].life
         /\ app.truth \subseteq app'.truth /\ \A x \in app'.truth : x \in app.truth \/ x.life = c
         /\ Z.begun \subseteq Z.begun /\ \A x \in Z.told : x \in Z.told \/ x.life = c
         /\ \A h \in G : h.ctx = c
    BY <1>a, <1>b, <1>h, <1>1, <1>9, <2>6 DEF Live
  <2> QED BY <1>a, <1>b, <1>h, <1>0, <1>2, <1>7, <1>12, <1>14, <2>12, <2>13, <2>14, OthersRun
<1> QED BY <1>a, <1>e, <1>h, <1>1, <1>6, <1>7, <1>8, <1>10, <1>12, <1>13, <1>14, SilentTrue

\* A step makes s of the statement o, and z once the execution is over or goes on.
Went(t, w, more, o, s, z) ==
    /\ o \in Statement /\ s \in Statement /\ z \in Statement
    /\ s.life = o.life /\ s.module = o.module
    /\ (Running(o) => s.n = o.n /\ s.work = w + o.work)
    /\ (~Running(o) => s.n = o.n + 1 /\ s.work = w)
    /\ s.counter = (o.counter + w) % Wrap
    /\ z.life = o.life /\ z.module = o.module /\ z.n = s.n /\ z.work = s.work /\ z.counter = s.counter
    /\ Running(s) /\ (Running(z) <=> more)

LEMMA StepWent ==
    ASSUME AppOK, NEW o \in Statement, NEW t \in Threads, NEW w \in Nat, NEW more \in BOOLEAN,
           NEW s, s = Stepped(o, t, w), NEW z, z = IF more THEN s ELSE [s EXCEPT !.runner = Null]
    PROVE  Went(t, w, more, o, s, z)
<1>1. Wrap \in Nat /\ Wrap > 0 /\ Null \notin Threads
  BY Bounds DEF AppOK
<1>2. /\ s \in Statement /\ s.runner = t /\ s.life = o.life /\ s.module = o.module
      /\ s.n = (IF Running(o) THEN o.n ELSE o.n + 1)
      /\ s.work = w + (IF Running(o) THEN o.work ELSE 0)
      /\ s.counter = (o.counter + w) % Wrap
  BY <1>1, SteppedParts
<1>3. (Running(o) => s.n = o.n /\ s.work = w + o.work) /\ (~Running(o) => s.n = o.n + 1 /\ s.work = w)
  <2>1. ASSUME ~Running(o) PROVE s.work = w
    <3>1. s.work = w + 0
      BY <1>2, <2>1
    <3> QED BY <3>1
  <2> QED BY <1>2, <2>1
<1>4. /\ z \in Statement /\ z.life = s.life /\ z.module = s.module /\ z.n = s.n /\ z.work = s.work
      /\ z.counter = s.counter /\ z.runner = (IF more THEN t ELSE Null)
  BY <1>2 DEF Statement
<1> QED BY <1>1, <1>2, <1>3, <1>4 DEF Went, Running

\* What it had done.
Before(o) == IF Running(o) THEN o.work ELSE 0

\* What a step makes of the counter is what the execution did more than it had before.
LEMMA StepCounts ==
    ASSUME AppOK, NEW t, NEW w \in Nat, NEW more, NEW o, NEW s, NEW z, Went(t, w, more, o, s, z), s.work <= setting.work,
           NEW v \in Nat, Within(v), o.counter = v + Before(o)
    PROVE  s.counter = v + s.work
<1>1. Wrap \in Nat /\ Wrap > 0 /\ setting.work \in Nat
  BY Bounds DEF AppOK
<1>2. s.work \in Nat /\ o.work \in Nat
  BY DEF Went, Statement
<1>3. v + setting.work < Wrap
  BY NullAssumption DEF Within
<1>4. o.counter + w = v + s.work
  <2>1. CASE Running(o)
    <3>1. o.counter = v + o.work /\ s.work = w + o.work
      BY <2>1 DEF Went, Before
    <3> QED BY <1>2, <3>1
  <2>2. CASE ~Running(o)
    <3>1. o.counter = v + 0 /\ s.work = w
      BY <2>2 DEF Went, Before
    <3> QED BY <1>2, <3>1
  <2> QED BY <2>1, <2>2
<1>5. v + s.work \in Nat /\ v + s.work < Wrap
  BY <1>1, <1>2, <1>3
<1>6. (v + s.work) % Wrap = v + s.work
  BY <1>1, <1>5
<1> QED BY <1>4, <1>6 DEF Went

\* The step f of t returns from its statement o at p.
StepGoes(t, w, more, f, p, o, s, z) ==
    /\ Went(t, w, more, o, s, z) /\ p \in Pointers /\ Live(p) /\ o = app.lib[p] /\ s.work <= setting.work
    /\ app'.lib = [app.lib EXCEPT ![p] = z] /\ app'.truth = app.truth \cup IF more THEN {} ELSE Ended(s)
    /\ app'.lives = app.lives /\ app'.used = app.used

\* The agent keeps what it knows of the statements but for where their executions stand.
CountsKept ==
    /\ setting' = setting /\ KnownStays
    /\ \A b \in DOMAIN agent.known : agent'.known[b].last = agent.known[b].last
    /\ agent'.contexts = agent.contexts /\ agent'.unknown = agent.unknown /\ (told.lossy => told'.lossy)

\* What the step makes of the application, x the execution if it is over.
StepMade(En, p, z, x, more) ==
    /\ AppMoves(En) /\ LibFits
    /\ app'.lib[p] = z /\ (\A q \in Pointers : q # p => app'.lib[q] = app.lib[q])
    /\ \A y \in app'.truth : y \in app.truth \/ (y = x /\ ~more)
    /\ (~more => x \in app'.truth) /\ app.truth \subseteq app'.truth

LEMMA StepApp ==
    ASSUME Inv, AppInv, NEW t, NEW w \in Nat, NEW more \in BOOLEAN, NEW f, NEW p, NEW o, NEW s, NEW z,
           StepGoes(t, w, more, f, p, o, s, z), CountsKept, NEW En, En = [q \in Pointers |-> EndOf(s)]
    PROVE  StepMade(En, p, z, EndOf(s), more)
<1> PICK x : x = EndOf(s)
  OBVIOUS
<1>0. Went(t, w, more, o, s, z) /\ p \in Pointers /\ Live(p) /\ o = app.lib[p]
  BY DEF StepGoes
<1>1. app'.lib[p] = z /\ \A q \in Pointers : q # p => app'.lib[q] = app.lib[q]
  BY DEF StepGoes, Inv, Shape, AppOK
<1>2. o.n \in Nat /\ s.n \in Nat /\ s # NoStatement /\ z # NoStatement /\ x.life = o.life /\ x.n = s.n
  <2>1. NoStatement \notin Statement
    BY DEF NoStatement, Statement
  <2> QED BY <1>0, <2>1 DEF Went, Statement, EndOf
<1>3. Ended(s) = {x}
  BY <1>0, <1>2 DEF Ended, EndOf, Went
<1>4. (\A y \in app'.truth : y \in app.truth \/ (y = x /\ ~more)) /\ (~more => x \in app'.truth)
      /\ app.truth \subseteq app'.truth
  BY <1>3 DEF StepGoes
<1>5. Advances(p)
  BY <1>0, <1>1, <1>2 DEF Advances, Live, Went
<1>6. ASSUME ~more PROVE Ends2(p, x)
  <2>1. \A y \in app.truth : y.life = x.life => y.n < x.n
    <3> SUFFICES ASSUME NEW y \in app.truth, y.life = o.life PROVE y.n < s.n
      BY <1>2
    <3>1. y.n <= o.n /\ (Running(o) => y.n < o.n) /\ y.n \in Nat
      BY <1>0 DEF AppInv, Inv, Shape, AppOK
    <3> QED BY <1>0, <1>2, <3>1 DEF Went
  <2>2. Live(p)' => x.n <= app'.lib[p].n /\ ~Running(app'.lib[p])
    BY <1>0, <1>1, <1>2, <1>6 DEF Went
  <2> QED BY <1>0, <1>2, <2>1, <2>2 DEF Ends2
<1>7. \A y \in app'.truth : y \in app.truth \/ (y = x /\ Ends2(p, x))
  BY <1>4, <1>6
<1>8. AppMoves([q \in Pointers |-> x]) /\ LibFits
  <2>1. app'.lives = app.lives /\ app'.used = app.used
    BY DEF StepGoes
  <2>2. p \in Pointers /\ Live(p) /\ \A q \in Pointers : q # p => app'.lib[q] = app.lib[q]
    BY <1>0, <1>1
  <2>3. LibFits
    BY <1>5, <2>2 DEF LibFits, Advances, Live
  <2>4. AppMoves([q \in Pointers |-> x])
    BY <1>5, <1>7, <2>1, <2>2, LibApp DEF CountsKept
  <2> QED BY <2>3, <2>4
<1> QED BY <1>1, <1>4, <1>8 DEF StepMade

\* The last step under way on a statement returns, with the execution g goes on to report.
StepLast(Z, H, t, w, more, f, c, p, o, s, z, l, g, d, G) ==
    /\ Inv /\ Inv' /\ AppInv /\ FrameInv /\ FrameInv' /\ RunInv(Z) /\ AgentInv(Z, H)
    /\ t \in Threads /\ w \in Nat /\ more \in BOOLEAN /\ f = Top(t) /\ frames[t] # << >>
    /\ f.op = "step" /\ f.at = "inside" /\ c = f.ctx /\ c \in DOMAIN agent.known /\ p = f.ptr
    /\ StepGoes(t, w, more, f, p, o, s, z) /\ Of(c, p)
    /\ app'.lib[p] = z /\ (\A q \in Pointers : q # p => app'.lib[q] = app.lib[q])
    /\ \A y \in app'.truth : y \in app.truth \/ (y = EndOf(s) /\ ~more)
    /\ (~more => EndOf(s) \in app'.truth) /\ app.truth \subseteq app'.truth
    /\ l = Returning(agent.known[c]) /\ OneEntry(c, l) /\ agent.known[c].depth <= 1
    /\ g = Placed(f, "measure", Reading(s))
    /\ Carry(t, d, G, 1, 0) /\ (more => G = {})
    /\ ~more => G = {g} /\ 1 \in DOMAIN frames'[t] /\ frames'[t][1] = g

LEMMA StepRuns ==
    ASSUME Held, NEW Z, NEW H, NEW t, NEW w, NEW more, NEW f, NEW c, NEW p, NEW o, NEW s, NEW z, NEW l, NEW g,
           NEW d, NEW G, StepLast(Z, H, t, w, more, f, c, p, o, s, z, l, g, d, G)
    PROVE  RunInv(Z)'
<1>a. Inv /\ Inv' /\ AppInv /\ FrameInv /\ FrameInv' /\ RunInv(Z) /\ AgentInv(Z, H)
  BY DEF StepLast
<1>b. /\ t \in Threads /\ w \in Nat /\ more \in BOOLEAN /\ f = Top(t) /\ frames[t] # << >>
      /\ f.op = "step" /\ f.at = "inside" /\ c = f.ctx /\ c \in DOMAIN agent.known /\ p = f.ptr
  BY DEF StepLast
<1>c. StepGoes(t, w, more, f, p, o, s, z) /\ Of(c, p)
  BY DEF StepLast
<1>d. /\ app'.lib[p] = z /\ (\A q \in Pointers : q # p => app'.lib[q] = app.lib[q])
      /\ \A y \in app'.truth : y \in app.truth \/ (y = EndOf(s) /\ ~more)
      /\ (~more => EndOf(s) \in app'.truth) /\ app.truth \subseteq app'.truth
  BY DEF StepLast
<1>e. l = Returning(agent.known[c]) /\ OneEntry(c, l) /\ agent.known[c].depth <= 1
  BY DEF StepLast
<1>f. /\ g = Placed(f, "measure", Reading(s)) /\ Carry(t, d, G, 1, 0) /\ (more => G = {})
      /\ ~more => G = {g} /\ 1 \in DOMAIN frames'[t] /\ frames'[t][1] = g
  BY DEF StepLast
<1> PICK k : k = agent.known[c]
  OBVIOUS
<1>0. /\ Went(t, w, more, o, s, z) /\ p \in Pointers /\ Live(p) /\ o = app.lib[p] /\ o.life = c
      /\ s.work <= setting.work /\ Shape /\ AppOK
  BY <1>a, <1>c DEF StepGoes, Of, Inv, Shape
<1>1. /\ agent'.known[c] = l /\ DOMAIN agent'.known = DOMAIN agent.known
      /\ \A b \in DOMAIN agent.known : b # c => agent'.known[b] = agent.known[b]
  BY <1>e, OneEntryMoves
<1>2. k \in Known /\ f \in Call /\ f = frames[t][1] /\ 1 \in DOMAIN frames[t] /\ c # Null
  BY <1>0, <1>b, TopOK, NullAssumption DEF Shape, AgentOK, AppOK
<1>3. Runs(c, Z) /\ CallFits(t, f) /\ Stepping(f) /\ InUse(f)
  BY <1>2, <1>a, <1>b DEF RunInv, Runs, CallsFit, Stepping, InUse
<1>4. /\ k.active # Null /\ k.owner = t /\ k.depth = 1
      /\ l.next = k.next /\ l.active = k.active /\ l.last = k.last /\ l.owner = k.owner /\ l.depth = 0
  <2>1. k.active # Null /\ k.owner = t /\ k.depth >= 1 /\ k.depth \in Int
    BY <1>2, <1>3, <1>b DEF CallFits, Known
  <2>2. k.depth = 1
    BY <2>1, <1>e
  <2>3. /\ Returning(k).next = k.next /\ Returning(k).active = k.active /\ Returning(k).last = k.last
        /\ Returning(k).owner = k.owner /\ Returning(k).depth = k.depth - 1
    BY <1>2, EntryMoves
  <2> QED BY <1>e, <2>1, <2>2, <2>3
<1>5. Lonely(t, c)
  BY <1>a, <1>b, <1>e, <1>3, Solo
<1>6. \A u \in Threads : ~MeteredBy(u, c) /\ ~EndedBy(u, c)
  <2>1. ~MeteredBy(t, c) /\ ~EndedBy(t, c)
    BY <1>2, <1>b DEF MeteredBy, EndedBy, Metered, Ends1
  <2> QED BY <1>b, <1>5, <2>1, LonelyEnds
<1>7. s.n = k.next /\ (k.last # Null => o.counter = k.last + Before(o))
  <2>1. Stands(c, o)
    BY <1>0, <1>3, <1>c DEF Runs
  <2>2. k.next \in Nat /\ o.n \in Nat
    <3>1. k.next \in Nat
      BY <1>2 DEF Known
    <3>2. o.n \in Nat
      BY <1>0 DEF Went, Statement
    <3> QED BY <3>1, <3>2
  <2>3. CASE Running(o)
    <3>1. o.n = k.next /\ Level(c, o.counter, o.work)
      BY <1>6, <2>1, <2>3 DEF Stands
    <3> QED BY <1>0, <2>3, <3>1 DEF Went, Level, Before
  <2>4. CASE ~Running(o)
    <3>1. o.n = k.next - 1 /\ Level(c, o.counter, 0)
      BY <1>4, <1>6, <2>1, <2>4 DEF Stands
    <3>2. s.n = k.next
      BY <1>0, <2>2, <2>4, <3>1 DEF Went
    <3> QED BY <2>4, <3>1, <3>2 DEF Level, Before
  <2> QED BY <2>3, <2>4
<1>8. k.last # Null => k.last \in Nat /\ s.counter = k.last + s.work
  <2> SUFFICES ASSUME k.last # Null PROVE k.last \in Nat /\ s.counter = k.last + s.work
    OBVIOUS
  <2> PICK v : v = k.last
    OBVIOUS
  <2>1. v \in Nat
    BY <1>2 DEF Known, Counts
  <2>2. Within(v)
    BY <1>a, <1>b DEF AppInv
  <2>3. o.counter = v + Before(o)
    BY <1>7
  <2>4. s.counter = v + s.work
    BY <1>0, <1>b, <2>1, <2>2, <2>3, StepCounts
  <2> QED BY <2>1, <2>4
<1>9. EndOf(s) = [life |-> c, n |-> k.next, work |-> s.work]
  BY <1>0, <1>7 DEF EndOf, Went
<1>10. Opened(c, Z)'
  <2>1. Opened(c, Z)
    BY <1>3 DEF Runs
  <2>2. \A x \in app'.truth : x.life = c => <<c, x.n>> \in Z.begun
    BY <1>4, <1>9, <1>d, <2>1 DEF Opened
  <2> QED BY <1>1, <1>4, <2>1, <2>2 DEF Opened
<1>11. ASSUME ~more
       PROVE  g \in Call /\ CallFits(t, g)' /\ EndedBy(t, c)' /\ ~Stepping(g) /\ g.ctx = c
  <2> PICK v : v = Reading(s)
    OBVIOUS
  <2>1. v \in Counts \cup {Null} /\ (v # Null => v = s.counter)
    BY <1>0, ReadingWithin DEF Went
  <2>2. g \in Call /\ g.op = "step" /\ g.ptr = p /\ g.ctx = c /\ g.at = "measure" /\ g.value = v
    <3>1. Same(g, f) /\ g.at = "measure" /\ g.value = v
      BY <1>2, <1>f, <2>1, PlacedSame
    <3> QED BY <1>b, <3>1 DEF Same
  <2>3. Ends1(g) /\ ~Stepping(g) /\ ~Metered(t, g)' /\ InUse(g)
    BY <2>2 DEF Ends1, Stepping, Metered, InUse
  <2>4. EndedBy(t, c)'
    BY <1>11, <1>f, <2>2, <2>3 DEF EndedBy, Ends1
  <2>5. ~Running(z) /\ z.n = k.next /\ (v # Null => v = z.counter)
    BY <1>0, <1>7, <1>11, <2>1 DEF Went
  <2>6. ASSUME v # Null, k.last # Null
        PROVE  [[life |-> c, n |-> k.next, work |-> v] EXCEPT !.work = v - k.last] \in app'.truth
    <3>1. v = k.last + s.work /\ k.last \in Nat /\ s.work \in Nat
      BY <1>0, <1>8, <2>1, <2>6 DEF Went, Statement
    <3>2. \A a, b \in Nat : (a + b) - a = b
      OBVIOUS
    <3>3. v - k.last = s.work
      BY <3>1, <3>2
    <3> QED BY <1>9, <1>11, <1>d, <3>3
  <2>7. app'.lib[g.ptr] = z /\ agent'.known[g.ctx] = l
    BY <1>1, <1>d, <2>2
  <2>8. CallFits(t, g)'
    BY <1>4, <2>2, <2>3, <2>5, <2>6, <2>7 DEF CallFits
  <2> QED BY <2>2, <2>3, <2>4, <2>8
<1>12. \A h \in G : ~Stepping(h) /\ h.ctx = c /\ CallFits(t, h)'
  BY <1>11, <1>b, <1>f
<1>13. CallsFit(c)' /\ OneStep(c)'
  <2>1. /\ agent'.known[c].active = agent.known[c].active
        /\ agent'.known[c].owner = agent.known[c].owner /\ agent'.known[c].next = agent.known[c].next
        /\ agent'.known[c].depth = 0
    BY <1>1, <1>4
  <2>2. \A h \in G : ~Stepping(h) /\ (h.ctx = c => CallFits(t, h)')
    BY <1>12
  <2> QED BY <1>a, <1>b, <1>d, <1>f, <1>3, <1>5, <2>1, <2>2, AloneRuns
<1>14. ASSUME NEW q \in Pointers, Of(c, q)' PROVE Stands(c, app.lib[q])'
  <2>1. q = p
    <3>1. CASE q # p
      <4>1. Of(c, q)
        BY <1>14, <1>d, <3>1 DEF Of, Live
      <4> QED BY <1>0, <1>a, <1>c, <3>1, <4>1, OnePointer
    <3> QED BY <3>1
  <2>2. app'.lib[q] = z /\ z.n = k.next /\ (Running(z) <=> more) /\ z.counter = s.counter /\ z.work = s.work
    BY <1>0, <1>7, <1>b, <1>d, <2>1 DEF Went
  <2>3. k.last # Null => z.counter = k.last + z.work
    BY <1>8, <2>2
  <2>4. CASE more
    BY <1>1, <1>4, <2>2, <2>3, <2>4 DEF Stands, Level
  <2>5. CASE ~more
    BY <1>1, <1>4, <1>11, <1>b, <2>2, <2>5 DEF Stands
  <2> QED BY <2>4, <2>5
<1>15. Runs(c, Z)'
  BY <1>10, <1>13, <1>14 DEF Runs
<1> PICK low : low = 1
  OBVIOUS
<1>16. \A b \in DOMAIN agent.known : b # c => agent'.known[b] = agent.known[b] /\ NotEnding(t, low, b)
  <2>1. \A b : b # c => NotEnding(t, 1, b)
    BY <1>0, <1>b, OthersEnd
  <2> QED BY <1>1, <2>1
<1>17. ASSUME NEW q \in Pointers, NEW b, b # c, Of(b, q)' PROVE Of(b, q) /\ app'.lib[q] = app.lib[q]
  <2>1. q # p
    BY <1>0, <1>17, <1>c, <1>d DEF Of, Went
  <2> QED BY <1>17, <1>d, <2>1 DEF Of, Live
<1>18. ASSUME NEW q \in Pointers, Live(q)' PROVE Live(q) /\ app'.lib[q].life = app.lib[q].life
  BY <1>0, <1>18, <1>d DEF Live, Went
<1>19. \A x \in app'.truth : x \in app.truth \/ x.life = c
  BY <1>9, <1>d
<1>20. /\ Z.begun \subseteq Z.begun /\ \A x \in Z.told : x \in Z.told \/ x.life = c
       /\ Carry(t, d, G, low, 0) /\ \A h \in G : h.ctx = c
  BY <1>12, <1>f
<1> QED BY <1>a, <1>b, <1>d, <1>1, <1>15, <1>16, <1>17, <1>18, <1>19, <1>20, OthersRun

LEMMA StepReturnsTrue ==
    ASSUME Held, NEW J, NEW H, TruthInv(J, H), NEW t \in Threads, NEW w \in 0 .. setting.work, NEW more \in BOOLEAN,
           StepReturns(t, w, more)
    PROVE  TruthInv(J, H)'
<1>a. PICK Z, f, c, p, o, k : /\ Z = Last(J) /\ f = Top(t) /\ c = f.ctx /\ p = f.ptr /\ o = app.lib[p]
                              /\ k = agent.known[c]
  OBVIOUS
<1>b. PICK s, z, l : s = Stepped(o, t, w) /\ z = Now(t, w, more) /\ l = Returning(k)
  OBVIOUS
<1>c. PICK v : v = Reading(s)
  OBVIOUS
<1>d. PICK g : g = Placed(f, "measure", v)
  OBVIOUS
<1>0. /\ Inv /\ Inv' /\ Sound(Z, H) /\ AppInv /\ FrameInv /\ AgentInv(Z, H) /\ setting' = setting /\ Shape
      /\ UseOK /\ Aside /\ AppOK
  BY <1>a, SoundNow DEF Held, Sound, Inv, Shape
<1>1. Returned(t, w, more, f, s, k)
  BY <1>0, <1>a, <1>b, StepReturnsDoes
<1>2. /\ frames[t] # << >> /\ f.op = "step" /\ f.at = "inside" /\ p \in Pointers /\ Live(p) /\ o \in Statement
      /\ app'.lives = app.lives /\ app'.used = app.used /\ w \in Nat
      /\ app'.lib = [app.lib EXCEPT ![p] = z] /\ app'.truth = app.truth \cup IF more THEN {} ELSE Ended(s)
      /\ wire' = wire
  BY <1>1, <1>a, <1>b DEF Returned
<1>3. s.work <= setting.work
  BY <1>a, <1>b DEF StepReturns
<1>4. StepGoes(t, w, more, f, p, o, s, z)
  <2>1. z = IF more THEN s ELSE [s EXCEPT !.runner = Null]
    BY <1>a, <1>b DEF Now
  <2>2. Went(t, w, more, o, s, z)
    BY <1>0, <1>2, <1>b, <2>1, StepWent
  <2> QED BY <1>2, <1>3, <1>a, <1>b, <2>2 DEF StepGoes
<1>5. /\ f \in Call /\ FrameFits(f) /\ f = frames[t][1] /\ 1 \in DOMAIN frames[t] /\ f.behind = 0 /\ InUse(f)
      /\ c # Null => c \in DOMAIN agent.known /\ k \in Known /\ H[c] = p
  <2>1. InUse(f)
    BY <1>2 DEF InUse
  <2>2. FrameOK(f, DOMAIN agent.known, Len(agent.queue)) /\ f = frames[t][1] /\ 1 \in DOMAIN frames[t]
    BY <1>0, <1>2, <1>a, TopOK
  <2>3. /\ f \in Call /\ FrameFits(f)
        /\ c # Null => c \in DOMAIN agent.known /\ k \in Known /\ H[c] = p
    BY <1>0, <1>2, <1>a, TopFits
  <2> QED BY <1>2, <2>1, <2>2, <2>3 DEF FrameOK
<1>6. ASSUME c = Null PROVE ~Unharmed
  BY <1>2, <1>5, <1>6, <1>a DEF FrameFits
<1>7. ASSUME c # Null
      PROVE  /\ OneEntry(c, l) /\ l.last = k.last /\ agent'.queue = agent.queue
             /\ told'.lossy = (told.lossy \/ (k.depth - 1 > 0))
             /\ \/ (k.depth - 1 > 0 \/ more) /\ Leave(t)
                \/ ~(k.depth - 1 > 0) /\ ~more /\ Move(t, g)
  <2>1. /\ c \in DOMAIN agent.known /\ k \in Known /\ l \in Known
        /\ agent' = [agent EXCEPT !.known[c] = l, !.queue = agent.queue]
        /\ Say(Loses(k.depth - 1 > 0))
        /\ \/ (k.depth - 1 > 0 \/ more) /\ Leave(t)
           \/ ~(k.depth - 1 > 0) /\ ~more /\ Move(t, g)
    BY <1>1, <1>7, <1>a, <1>b, <1>c, <1>d DEF Returned
  <2>2. l.module = k.module /\ l.last = k.last
    BY <2>1, <1>b, EntryMoves
  <2>3. /\ agent'.known = [agent.known EXCEPT ![c] = l] /\ agent'.contexts = agent.contexts
        /\ agent'.unknown = agent.unknown /\ agent'.partial = agent.partial /\ agent'.queue = agent.queue
    <3> PICK q : q = agent.queue
      OBVIOUS
    <3>1. AgentOK /\ agent' = [agent EXCEPT !.known[c] = l, !.queue = q]
      BY <1>0, <2>1 DEF Shape
    <3> QED BY <3>1 DEF AgentOK
  <2>4. OneEntry(c, l)
    BY <1>a, <2>1, <2>2, <2>3 DEF OneEntry
  <2>5. told'.lossy = (told.lossy \/ (k.depth - 1 > 0))
    <3>1. ToldOK /\ (k.depth - 1 > 0) \in BOOLEAN /\ Len(agent.queue) \in Nat
      BY <1>0 DEF Shape, RecordsOK
    <3> QED BY <2>1, <3>1, ToldMoves
  <2> QED BY <2>1, <2>2, <2>3, <2>4, <2>5
<1>8. c = Null => agent' = agent /\ told' = told /\ Leave(t)
  BY <1>1, <1>a DEF Returned
<1>9. /\ KnownStays /\ agent'.contexts = agent.contexts /\ agent'.unknown = agent.unknown
      /\ agent'.queue = agent.queue /\ (told.lossy => told'.lossy) /\ (Unharmed' => Unharmed)
      /\ \A b \in DOMAIN agent.known : agent'.known[b].last = agent.known[b].last
  <2>1. CASE c = Null
    BY <1>8, <2>1 DEF KnownStays, Unharmed
  <2>2. CASE c # Null
    <3>1. \A b \in DOMAIN agent.known : agent'.known[b].last = agent.known[b].last
      BY <1>7, <1>a, <2>2, OneEntryMoves
    <3> QED BY <1>7, <2>2, <3>1, OneEntryMoves DEF OneEntry, Unharmed
  <2> QED BY <2>1, <2>2
<1>e. PICK En : En = [q \in Pointers |-> EndOf(s)]
  OBVIOUS
<1>10. /\ AppMoves(En) /\ LibFits
       /\ app'.lib[p] = z /\ (\A q \in Pointers : q # p => app'.lib[q] = app.lib[q])
       /\ \A y \in app'.truth : y \in app.truth \/ (y = EndOf(s) /\ ~more)
       /\ (~more => EndOf(s) \in app'.truth) /\ app.truth \subseteq app'.truth
  <2>1. CountsKept
    BY <1>0, <1>9 DEF CountsKept
  <2>2. StepMade(En, p, z, EndOf(s), more)
    BY <1>0, <1>2, <1>4, <1>e, <1>a, <1>b, <2>1, StepApp
  <2> QED BY <2>2 DEF StepMade
<1>11. s \in Statement /\ z.life = o.life
  BY <1>4 DEF StepGoes, Went
<1>12. g \in Call /\ g.op = f.op /\ g.ptr = p /\ g.ctx = c /\ g.at = "measure" /\ Within(g.value)
  <2>1. v \in Counts \cup {Null} /\ Within(v)
    BY <1>0, <1>11, <1>c, ReadingWithin
  <2>2. Same(g, f) /\ g.at = "measure" /\ g.value = v
    BY <1>5, <1>d, <2>1 DEF Placed, Same, Call
  <2> QED BY <2>1, <2>2, <1>a DEF Same
<1>13. \E d, G : /\ Carry(t, d, G, 1, 0) /\ Apart(frames'[t]) /\ G \subseteq {g} /\ (c = Null => G = {})
                 /\ k.depth - 1 > 0 \/ more => G = {}
                 /\ ~(k.depth - 1 > 0) /\ ~more /\ c # Null =>
                       G = {g} /\ 1 \in DOMAIN frames'[t] /\ frames'[t][1] = g
  <2>1. CASE Leave(t) /\ (c = Null \/ k.depth - 1 > 0 \/ more)
    <3>1. Carry(t, 1, {}, 1, 0) /\ Apart(frames'[t])
      BY <1>0, <1>2, <2>1, LeaveCarry, PopApart DEF Inv
    <3> PICK d, G : d = 1 /\ G = {}
      OBVIOUS
    <3> QED BY <2>1, <3>1
  <2>2. CASE Move(t, g) /\ ~(k.depth - 1 > 0) /\ ~more /\ c # Null
    <3>1. Carry(t, 0, {g}, 1, 0) /\ 1 \in DOMAIN frames'[t] /\ frames'[t][1] = g
      BY <1>0, <1>2, <1>12, <2>2, MoveCarry DEF Inv
    <3>2. Apart(frames'[t])
      BY <1>2, <1>12, <3>1 DEF Apart
    <3> PICK d, G : d = 0 /\ G = {g}
      OBVIOUS
    <3> QED BY <2>2, <3>1, <3>2
  <2> QED BY <1>7, <1>8, <2>1, <2>2
<1>g. PICK d, G : /\ Carry(t, d, G, 1, 0) /\ Apart(frames'[t]) /\ G \subseteq {g} /\ (c = Null => G = {})
                  /\ k.depth - 1 > 0 \/ more => G = {}
                  /\ ~(k.depth - 1 > 0) /\ ~more /\ c # Null =>
                        G = {g} /\ 1 \in DOMAIN frames'[t] /\ frames'[t][1] = g
  BY <1>13
<1>h. PICK low : low = 1
  OBVIOUS
<1>14. c # Null => o.life = c /\ Of(c, p)
  BY <1>2, <1>5, <1>a DEF FrameFits, Of
<1>15. c # Null => FrameFits(g)'
  <2> SUFFICES ASSUME c # Null PROVE FrameFits(g)'
    OBVIOUS
  <2>1. app'.lib[g.ptr].life = c
    BY <1>10, <1>11, <1>12, <1>14
  <2>2. Within(g.value)'
    BY <1>0, <1>12 DEF Within
  <2> QED BY <1>2, <1>12, <2>1, <2>2 DEF FrameFits
<1>16. Carry(t, d, G, low, 0) /\ \A h \in G : FrameFits(h)' /\ (h.ctx # Null => H[h.ctx] = h.ptr)
  BY <1>5, <1>12, <1>15, <1>g, <1>h, <1>a
<1>17. \A x \in 0 .. Len(agent.queue) : Unharmed' /\ Still(x) => app'.truth = app.truth /\ Still(x - 0)'
  <2> SUFFICES ASSUME NEW x \in 0 .. Len(agent.queue), Still(x) PROVE FALSE
    OBVIOUS
  <2>1. Stepping(f)
    BY <1>2 DEF Stepping
  <2>2. f.behind > x
    BY <1>5, <2>1 DEF Still
  <2> QED BY <1>5, <2>2
<1>18. ASSUME FrameInv', Unharmed', Unharmed, RunInv(Z) PROVE RunInv(Z)'
  <2>1. c # Null
    BY <1>6, <1>18
  <2>2. c \in DOMAIN agent.known /\ Of(c, p) /\ OneEntry(c, l) /\ ~(k.depth - 1 > 0) /\ k.depth \in Int
    BY <1>5, <1>7, <1>14, <1>18, <2>1 DEF Unharmed, Known
  <2>3. k.depth <= 1
    BY <2>2
  <2>4. (more => G = {}) /\ (~more => G = {g} /\ 1 \in DOMAIN frames'[t] /\ frames'[t][1] = g)
    BY <2>1, <2>2, <1>g
  <2>5. Inv /\ Inv' /\ AppInv /\ FrameInv /\ FrameInv' /\ RunInv(Z) /\ AgentInv(Z, H)
    BY <1>0, <1>18
  <2>6. f = Top(t) /\ frames[t] # << >> /\ f.op = "step" /\ f.at = "inside" /\ c = f.ctx /\ p = f.ptr
        /\ g = Placed(f, "measure", Reading(s)) /\ w \in Nat
    BY <1>2, <1>a, <1>c, <1>d
  <2>7. /\ app'.lib[p] = z /\ (\A q \in Pointers : q # p => app'.lib[q] = app.lib[q])
        /\ \A y \in app'.truth : y \in app.truth \/ (y = EndOf(s) /\ ~more)
        /\ (~more => EndOf(s) \in app'.truth) /\ app.truth \subseteq app'.truth
    BY <1>10
  <2>8. agent.known[c].depth <= 1 /\ l = Returning(agent.known[c])
    BY <2>2, <2>3, <1>a, <1>b
  <2>9. StepLast(Z, H, t, w, more, f, c, p, o, s, z, l, g, d, G)
    BY <1>4, <1>g, <2>2, <2>4, <2>5, <2>6, <2>7, <2>8 DEF StepLast
  <2> QED BY <2>9, StepRuns
<1> QED BY <1>2, <1>9, <1>10, <1>16, <1>17, <1>18, <1>a, <1>e, <1>h, <1>g, SilentTrue

\* t enters a step of the statement s = app.lib[p], that the agent knows as c.
Joining(Z, H, t, p, c, k) ==
    /\ Inv /\ Inv' /\ AppInv /\ FrameInv /\ AgentInv(Z, H) /\ Shape /\ app' = app
    /\ t \in Threads /\ p \in Pointers /\ MayUse(t, "step", p) /\ MayCall(t)
    /\ c \in DOMAIN agent.known /\ c # Null /\ k = agent.known[c] /\ k \in Known /\ H[c] = p /\ Of(c, p)
    /\ k.owner \in {Null, t}

\* What the other calls on it can be doing.
Beside(u, t, k, f) ==
    \/ f.at = "leave"
    \/ Stepping(f) /\ k.active # Null /\ k.owner = u /\ k.depth >= 1
    \/ f.op = "reset" /\ f.at \in {"enter", "inside"} /\ (f.at = "inside" => f.value = Null) /\ u # t

LEMMA MayCallIs ==
    ASSUME Shape, NEW t \in Threads, MayCall(t), NEW i \in DOMAIN frames[t]
    PROVE  frames[t][i].op = "step" /\ frames[t][i].at = "inside"
<1>1. frames[t] # << >>
  OBVIOUS
<1>2. Top(t).op = "step" /\ Top(t).at = "inside" /\ Top(t) = frames[t][1]
  BY <1>1, TopOK DEF MayCall, At
<1>3. i \in Nat /\ (i = 1 \/ i > 1)
  BY FrameIsCall
<1> QED BY <1>2, <1>3, FrameIsCall

LEMMA BesideAll ==
    ASSUME NEW Z, NEW H, NEW t, NEW p, NEW c, NEW k, Joining(Z, H, t, p, c, k), RunInv(Z),
           NEW u \in Threads, NEW i \in DOMAIN frames[u], NEW f, f = frames[u][i], f.ctx = c
    PROVE  Beside(u, t, k, f) /\ CallFits(u, f)
<1>0. /\ Shape /\ t \in Threads /\ p \in Pointers /\ MayUse(t, "step", p) /\ MayCall(t) /\ c # Null /\ Of(c, p)
      /\ c \in DOMAIN agent.known /\ k = agent.known[c] /\ H[c] = p /\ k.owner \in {Null, t} /\ Null \notin Threads
  BY Bounds DEF Joining, Shape, AppOK
<1>1. f \in Call /\ FrameFits(f) /\ CallFits(u, f) /\ f.ptr = p
  <2>1. f \in Call
    BY <1>0, FrameIsCall
  <2>2. Runs(c, Z)
    BY <1>0 DEF RunInv
  <2>3. CallFits(u, f)
    BY <2>2 DEF Runs, CallsFit
  <2>4. FrameFits(f) /\ f.ptr = p
    BY <1>0 DEF Joining, FrameInv, AgentInv
  <2> QED BY <2>1, <2>3, <2>4
<1>2. f.at # "freed"
  BY <1>0, <1>1 DEF FrameFits
<1>3. f.op = "finalize" => ~InUse(f)
  BY <1>0, <1>1 DEF MayUse, On, InUse
<1>4. f.op = "prepare" => ~InUse(f)
  BY <1>1 DEF FrameFits
<1>5. u = t => f.op = "step" /\ f.at = "inside"
  BY <1>0, MayCallIs
<1>6. CASE f.op = "step" /\ InUse(f)
  <2>1. k.active # Null /\ k.owner = u /\ (Stepping(f) => k.depth >= 1)
    BY <1>0, <1>1, <1>6 DEF CallFits
  <2>2. u = t
    BY <1>0, <2>1
  <2> QED BY <1>1, <1>5, <2>1, <2>2 DEF Beside, Stepping
<1>7. CASE f.op = "reset" /\ InUse(f)
  <2>1. u # t
    BY <1>5, <1>7
  <2>2. f.at # "measure"
    BY <1>0, <1>1, <1>7, <2>1 DEF CallFits
  <2>3. f.at \in {"enter", "inside"}
    BY <1>7, <2>2 DEF InUse
  <2>4. f.at = "inside" => f.value = Null
    BY <1>0, <1>1, <1>7, <2>1 DEF CallFits, Metered
  <2> QED BY <1>1, <1>7, <2>1, <2>3, <2>4 DEF Beside
<1>8. CASE ~InUse(f)
  BY <1>1, <1>2, <1>8 DEF InUse, Beside, Call
<1> QED BY <1>1, <1>3, <1>4, <1>6, <1>7, <1>8 DEF Call, HookNames

\* What the agent then has of it, l, and g, the call.
Joined(Z, Y, t, p, c, k, l, g) ==
    /\ l.last = k.last /\ l.owner = t /\ l.depth = k.depth + 1 /\ l.module = k.module
    /\ \/ k.active # Null /\ l.active = k.active /\ l.next = k.next /\ Y.begun = Z.begun
       \/ /\ k.active = Null /\ l.active = k.next + 1 /\ l.next = k.next + 1
          /\ Y.begun = Z.begun \cup {<<c, k.next + 1>>}
    /\ Y.told = Z.told /\ OneEntry(c, l)
    /\ g \in Call /\ g.op = "step" /\ g.ptr = p /\ g.ctx = c /\ g.at \in {"enter", "inside"} /\ g.value = Null
    /\ Carry(t, -1, {g}, 0, 0) /\ 1 \in DOMAIN frames'[t] /\ frames'[t][1] = g

\* A call goes on fitting its statement.
LEMMA BesideFits ==
    ASSUME NEW Z, NEW H, NEW t, NEW p, NEW c, NEW k, Joining(Z, H, t, p, c, k),
           NEW Y, NEW l, NEW h, Joined(Z, Y, t, p, c, k, l, h),
           NEW u \in Threads, NEW f, f.ctx = c, Beside(u, t, k, f), NEW g, Alike(g, f, 0)
    PROVE  CallFits(u, g)'
<1>0. /\ t \in Threads /\ k \in Known /\ agent'.known[c] = l /\ l.owner = t /\ l.depth = k.depth + 1
      /\ (k.active # Null => l.active = k.active) /\ k.depth \in Int
  BY OneEntryMoves DEF Joining, Joined, Known
<1>1. g.ctx = c /\ g.op = f.op /\ g.value = f.value /\ (g.at = f.at \/ (Stepping(f) /\ g.at = "inside"))
  BY DEF Alike
<1>2. CASE f.at = "leave"
  <2>1. g.at = "leave"
    BY <1>1, <1>2 DEF Stepping
  <2> QED BY <2>1 DEF CallFits, InUse, Stepping, Ends1, Metered
<1>3. CASE Stepping(f) /\ k.active # Null /\ k.owner = u /\ k.depth >= 1
  <2>1. u = t /\ l.active # Null /\ l.depth >= 1
    BY <1>0, <1>3, NullAssumption, Bounds DEF Joining, Shape, AppOK
  <2>2. g.op = "step" /\ g.at \in {"enter", "inside"}
    BY <1>1, <1>3 DEF Stepping
  <2> QED BY <1>0, <1>1, <2>1, <2>2 DEF CallFits, Ends1, Metered
<1>4. CASE f.op = "reset" /\ f.at \in {"enter", "inside"} /\ (f.at = "inside" => f.value = Null) /\ u # t
  <2>1. g.op = "reset" /\ g.at \in {"enter", "inside"} /\ (g.at = "inside" => g.value = Null)
    BY <1>1, <1>4 DEF Stepping
  <2>2. ~Metered(u, g)'
    BY <1>0, <1>1, <1>4, <2>1 DEF Metered
  <2> QED BY <2>1, <2>2 DEF CallFits, Stepping, Ends1
<1> QED BY <1>2, <1>3, <1>4 DEF Beside

LEMMA EnterRuns ==
    ASSUME NEW Z, NEW H, NEW t, NEW p, NEW c, NEW k, Joining(Z, H, t, p, c, k), RunInv(Z), FrameInv', k.active # Null \/ Z.told \subseteq app.truth,
           NEW Y, NEW l, NEW g, Joined(Z, Y, t, p, c, k, l, g)
    PROVE  RunInv(Y)'
<1> PICK s : s = app.lib[p]
  OBVIOUS
<1>0. /\ Shape /\ t \in Threads /\ p \in Pointers /\ MayCall(t) /\ c # Null /\ Of(c, p)
      /\ c \in DOMAIN agent.known /\ k = agent.known[c] /\ Null \notin Threads /\ app' = app
      /\ k \in Known /\ k.depth \in Int /\ k.next \in Nat /\ Inv /\ Inv' /\ AppInv
  <2>1. /\ Shape /\ t \in Threads /\ p \in Pointers /\ MayCall(t) /\ c # Null /\ Of(c, p)
        /\ c \in DOMAIN agent.known /\ k = agent.known[c] /\ app' = app
        /\ k \in Known /\ Inv /\ Inv' /\ AppInv
    BY DEF Joining
  <2>2. Null \notin Threads /\ MaxNumber \in Nat
    BY <2>1, Bounds DEF Shape, AppOK
  <2>3. k.depth \in Int /\ k.next \in Nat
    BY <2>1, <2>2 DEF Known
  <2> QED BY <2>1, <2>2, <2>3
<1>1. /\ agent'.known[c] = l /\ DOMAIN agent'.known = DOMAIN agent.known
      /\ \A b \in DOMAIN agent.known : b # c => agent'.known[b] = agent.known[b]
  BY OneEntryMoves DEF Joined
<1>2. /\ l.last = k.last /\ l.owner = t /\ l.depth = k.depth + 1
      /\ g \in Call /\ g.op = "step" /\ g.ctx = c /\ g.at \in {"enter", "inside"} /\ g.value = Null
      /\ Carry(t, -1, {g}, 0, 0) /\ 1 \in DOMAIN frames'[t] /\ frames'[t][1] = g
      /\ Y.told = Z.told
  BY DEF Joined
<1>3. Runs(c, Z) /\ Opened(c, Z) /\ OneStep(c) /\ CallsFit(c) /\ Stands(c, s)
  BY <1>0 DEF RunInv, Runs
<1>4. /\ k.depth >= 0
      /\ \/ k.active # Null /\ l.active = k.active /\ l.next = k.next /\ Y.begun = Z.begun
         \/ /\ k.active = Null /\ l.active = k.next + 1 /\ l.next = k.next + 1
            /\ Y.begun = Z.begun \cup {<<c, k.next + 1>>}
  BY <1>0, <1>3 DEF OneStep, Joined
<1>5. l.active # Null /\ l.active = l.next /\ <<c, l.next>> \in Y.begun /\ ~HasTold(Y, <<c, l.next>>)
      /\ l.depth >= 1 /\ k.next <= l.next
  <2>1. CASE k.active # Null
    BY <1>0, <1>2, <1>3, <1>4, <2>1 DEF Opened, HasTold
  <2>2. CASE k.active = Null
    <3>1. l.active = k.next + 1 /\ l.next = k.next + 1 /\ <<c, l.next>> \in Y.begun
      BY <1>4, <2>2
    <3>2. l.active # Null /\ k.next + 1 \in Nat
      BY <1>0, <3>1, NullAssumption
    <3>3. ASSUME NEW x \in Z.told, x.life = c, x.n = k.next + 1 PROVE FALSE
      BY <1>0, <1>3, <3>3 DEF Opened
    <3> QED BY <1>0, <1>2, <1>4, <3>1, <3>2, <3>3 DEF HasTold
  <2> QED BY <2>1, <2>2
<1>6. Opened(c, Y)'
  <2>1. \A x \in Y.told : x.life = c => x.n <= l.next
    <3>1. CASE k.active # Null
      BY <1>0, <1>2, <1>3, <1>4, <3>1 DEF Opened
    <3>2. CASE k.active = Null
      <4>1. ASSUME NEW x \in Z.told, x.life = c PROVE x.n <= l.next
        <5>1. x.n <= k.next /\ l.next = k.next + 1
          BY <1>0, <1>3, <1>4, <3>2, <4>1 DEF Opened
        <5>2. x.n \in Nat
          BY <1>0, <3>2, <4>1 DEF Shape, AppOK
        <5> QED BY <1>0, <5>1, <5>2
      <4> QED BY <1>2, <4>1
    <3> QED BY <3>1, <3>2
  <2>2. \A x \in app'.truth : x.life = c => <<c, x.n>> \in Y.begun
    BY <1>0, <1>3, <1>4 DEF Opened
  <2> QED BY <1>0, <1>1, <1>2, <1>5, <2>1, <2>2 DEF Opened
<1>7. ASSUME NEW u \in Threads, NEW i \in DOMAIN frames'[u], frames'[u][i].ctx = c, frames'[u][i] # g \/ u # t \/ i # 1
      PROVE  /\ CallFits(u, frames[u][i])'
             /\ Stepping(frames'[u][i]) => k.active # Null /\ k.depth >= 1
  <2> PICK j, f, h : j = Was(t, -1, u, i) /\ f = frames[u][j] /\ h = frames'[u][i]
    OBVIOUS
  <2>1. Goes1(t, -1, 0, 0, u, i)
    BY <1>2, <1>7 DEF Carry
  <2>2. j \in DOMAIN frames[u] /\ Alike(h, f, 0) /\ f.ctx = c
    BY <1>7, <2>1 DEF Goes1, Alike
  <2>3. Beside(u, t, k, f)
    BY <2>2, BesideAll
  <2>4. CallFits(u, h)'
    BY <2>2, <2>3, BesideFits
  <2>5. Stepping(h) => k.active # Null /\ k.depth >= 1
    BY <2>2, <2>3 DEF Beside, Alike, Stepping
  <2> QED BY <2>4, <2>5
<1>8. CallFits(t, g)'
  <2>1. g.op = "step" /\ ~Ends1(g) /\ ~Metered(t, g)' /\ agent'.known[g.ctx] = l /\ g.at # "freed"
    BY <1>1, <1>2 DEF Ends1, Metered
  <2> QED BY <1>2, <1>5, <2>1 DEF CallFits
<1>9. CallsFit(c)'
  <2> SUFFICES ASSUME NEW u \in Threads, NEW i \in DOMAIN frames'[u], frames'[u][i].ctx = c
               PROVE  CallFits(u, frames[u][i])'
    BY DEF CallsFit
  <2>1. CASE u = t /\ i = 1
    <3> PICK h : h = frames'[u][i]
      OBVIOUS
    <3>1. h = g
      BY <1>2, <2>1
    <3>2. CallFits(u, h)'
      BY <1>8, <2>1, <3>1
    <3> QED BY <3>2
  <2>2. CASE u # t \/ i # 1
    BY <1>7, <2>2
  <2> QED BY <2>1, <2>2
<1>10. OneStep(c)'
  <2>1. Stepping(g)
    BY <1>2 DEF Stepping
  <2>2. \E u \in Threads : \E i \in DOMAIN frames'[u] : Stepping(frames'[u][i]) /\ frames'[u][i].ctx = c
    BY <1>0, <1>2, <2>1
  <2>3. ASSUME l.depth <= 1, NEW u \in Threads, NEW i \in DOMAIN frames'[u],
               frames'[u][i].ctx = c, Stepping(frames'[u][i])
        PROVE  u = t /\ i = 1
    <3>1. ~(k.depth >= 1)
      BY <1>0, <1>2, <2>3
    <3> QED BY <1>7, <2>3, <3>1
  <2>4. l.depth >= 0
    BY <1>0, <1>2, <1>5
  <2> QED BY <1>1, <2>2, <2>3, <2>4 DEF OneStep
<1>11. ASSUME NEW u \in Threads PROVE ~MeteredBy(u, c) /\ ~EndedBy(u, c)
  <2> SUFFICES ASSUME 1 \in DOMAIN frames[u], frames[u][1].ctx = c
               PROVE  ~Metered(u, frames[u][1]) /\ ~Ends1(frames[u][1])
    BY DEF MeteredBy, EndedBy
  <2> PICK f : f = frames[u][1]
    OBVIOUS
  <2>1. Beside(u, t, k, f)
    BY BesideAll
  <2>2. ~Ends1(f)
    BY <2>1 DEF Beside, Ends1, Stepping
  <2>3. ASSUME Metered(u, f) PROVE FALSE
    <3>1. f.op # "step" /\ f.at = "inside" /\ k.active # Null /\ (f.op = "reset" => k.owner = u)
      BY <1>0, <2>3 DEF Metered
    <3>2. f.op = "reset" /\ u # t
      BY <2>1, <3>1 DEF Beside, Stepping
    <3> QED BY <1>0, <3>1, <3>2 DEF Joining
  <2> QED BY <2>2, <2>3
<1>12. ASSUME NEW q \in Pointers, Of(c, q)' PROVE Stands(c, app.lib[q])'
  <2>1. q = p /\ app'.lib[q] = s
    <3>1. Of(c, q)
      BY <1>0, <1>12 DEF Of, Live
    <3> QED BY <1>0, <3>1, OnePointer
  <2>2. s.n \in Nat
    <3>1. s \in Statement
      BY <1>0 DEF Shape, AppOK, Of, Live
    <3> QED BY <3>1 DEF Statement
  <2>3. CASE k.active # Null
    <3>1. \/ Running(s) /\ s.n = k.next /\ Level(c, s.counter, s.work)
          \/ ~Running(s) /\ s.n = k.next - 1 /\ Level(c, s.counter, 0)
      BY <1>0, <1>3, <1>11, <2>3 DEF Stands
    <3>2. l.next = k.next
      BY <1>4, <2>3
    <3> QED BY <1>1, <1>2, <1>0, <1>5, <2>1, <3>1, <3>2 DEF Stands, Level
  <2>4. CASE k.active = Null
    <3>1. ~Running(s) /\ s.n = k.next /\ Level(c, s.counter, 0)
      BY <1>0, <1>3, <2>4 DEF Stands
    <3>2. l.next = k.next + 1 /\ s.n = l.next - 1
      BY <1>4, <2>2, <2>4, <3>1
    <3> QED BY <1>0, <1>1, <1>2, <1>5, <2>1, <3>1, <3>2 DEF Stands, Level
  <2> QED BY <2>3, <2>4
<1>13. Runs(c, Y)'
  BY <1>6, <1>9, <1>10, <1>12 DEF Runs
<1> PICK G, d, low : G = {g} /\ d = -1 /\ low = 0
  OBVIOUS
<1>14. \A b \in DOMAIN agent.known : b # c => agent'.known[b] = agent.known[b] /\ NotEnding(t, low, b)
  <2>1. \A b : NotEnding(t, 0, b)
    BY <1>0, FreeCall
  <2> QED BY <1>1, <2>1
<1>15. /\ \A q \in Pointers : \A b : b # c => (Of(b, q)' => Of(b, q) /\ app'.lib[q] = app.lib[q])
       /\ \A q \in Pointers : Live(q)' => Live(q) /\ app'.lib[q].life = app.lib[q].life
       /\ app.truth \subseteq app'.truth /\ \A x \in app'.truth : x \in app.truth \/ x.life = c
  BY <1>0 DEF Of, Live
<1>16. /\ Z.begun \subseteq Y.begun /\ (\A x \in Y.told : x \in Z.told \/ x.life = c)
       /\ (\A h \in G : h.ctx = c) /\ Carry(t, d, G, low, 0)
  BY <1>2, <1>4
<1> QED BY <1>0, <1>1, <1>13, <1>14, <1>15, <1>16, OthersRun

\* What the tracker makes of a start.
LEMMA AfterStarted ==
    ASSUME NEW Z, NEW e, e.type = "started", Matched(Z, e), NEW c, c = Z.cur[e.ptr].life, NEW n, n = e.number,
           NEW Y, Y = After(Z, e)
    PROVE  /\ Y.cur = Z.cur /\ Y.begun = Z.begun \cup {<<c, n>>} /\ Y.told = Z.told /\ (Y.lost <=> Z.lost)
           /\ Fresh1(Z, e) /\ (Clean(Y) => Clean(Z))
<1>1. Y.cur = Z.cur /\ Y.begun = Z.begun \cup {<<c, n>>} /\ Y.told = Z.told /\ (Y.lost <=> Z.lost)
  BY DEF After
<1>2. Clean(Y) => Clean(Z)
  BY <1>1 DEF Clean, Doomed, HasTold
<1> QED BY <1>1, <1>2 DEF Fresh1

LEMMA EnteredFrame ==
    ASSUME Shape, Shape', ~agent.broken, NEW t \in Threads, NEW p \in Pointers, Live(p),
           NEW c \in DOMAIN agent.known, NEW g,
           g = Inside("step", p, c) \/ g = Waiting(Inside("step", p, c), "enter")
    PROVE  /\ g \in Call /\ g.op = "step" /\ g.ptr = p /\ g.ctx = c /\ g.at \in {"enter", "inside"} /\ g.value = Null
           /\ g = Waiting(Inside("step", p, c), "enter") => g.at = "enter" /\ g.behind = Len(agent'.queue)
<1> PICK f, n : f = Inside("step", p, c) /\ n = Len(agent'.queue)
  OBVIOUS
<1>1. app.lib[p].module \in Modules
  BY DEF Shape, AppOK, Live, Statement
<1>2. c \in Nat
  BY DEF Shape, AgentOK, AppOK
<1>3. /\ f \in Call /\ f.op = "step" /\ f.ptr = p /\ f.ctx = c /\ f.at = "inside" /\ f.value = Null
  BY <1>1, <1>2 DEF Inside, Frame, Call, HookNames
<1>4. n \in Nat
  BY DEF Shape, RecordsOK
<1>5. ASSUME NEW h, h = [f EXCEPT !.at = "enter", !.behind = n]
      PROVE  /\ h \in Call /\ h.op = "step" /\ h.ptr = p /\ h.ctx = c /\ h.at = "enter" /\ h.value = Null
             /\ h.behind = n
  BY <1>3, <1>4, <1>5 DEF Call
<1>6. CASE g = f
  <2>1. f # Waiting(f, "enter")
    BY <1>3, <1>5 DEF Waiting
  <2> QED BY <1>3, <1>6, <2>1
<1>7. CASE g = Waiting(f, "enter")
  BY <1>5, <1>7 DEF Waiting
<1> QED BY <1>6, <1>7

\* A call g that finds the entry of c made l.
Enters2(En, H, t, p, c, l, q, g) ==
    /\ OneEntry(c, l) /\ agent'.queue = q /\ agent'.contexts = agent.contexts /\ KnownStays
    /\ (Unharmed' <=> Unharmed) /\ agent'.known[c] = l /\ DOMAIN agent'.known = DOMAIN agent.known
    /\ (\A b \in DOMAIN agent.known : b # c => agent'.known[b] = agent.known[b])
    /\ AppMoves(En) /\ LibFits
    /\ Carry(t, -1, {g}, 0, 0) /\ 1 \in DOMAIN frames'[t] /\ frames'[t][1] = g
    /\ Apart(frames'[t]) /\ FrameFits(g)' /\ H[c] = g.ptr
    /\ g \in Call /\ g.op = "step" /\ g.ptr = p /\ g.ctx = c /\ g.at \in {"enter", "inside"}
    /\ g.value = Null

GoesIn(t, c, l, q, g) ==
    l \in Known /\ agent' = [agent EXCEPT !.known[c] = l, !.queue = q] /\ Enter(t, g)

\* It waits for the records that are queued, if it waits.
Enters3(En, H, t, p, c, l, q, g, f2) ==
    Enters2(En, H, t, p, c, l, q, g) /\ (g = f2 => g.at = "enter" /\ g.behind = Len(agent'.queue))

LEMMA StepEntersTrue ==
    ASSUME Held, NEW J, NEW H, TruthInv(J, H), NEW t \in Threads, NEW p \in Pointers, StepEnters(t, p)
    PROVE  \E K : TruthInv(K, H)'
<1> PICK Z, c, k, s : Z = Last(J) /\ c = Found("step", p) /\ k = agent.known[c] /\ s = app.lib[p]
  OBVIOUS
<1> PICK L : L = Len(agent.queue)
  OBVIOUS
<1>0. /\ Inv /\ Inv' /\ Sound(Z, H) /\ AppInv /\ FrameInv /\ AgentInv(Z, H) /\ setting' = setting /\ Shape /\ Shape'
      /\ AgentOK /\ wire = << >> /\ L \in Nat /\ ~agent.broken
  BY SoundNow, QueueOnly DEF Held, Whole, Sound, Inv, Shape
<1>1. /\ c \in DOMAIN agent.known /\ c # Null /\ c = agent.contexts[p] /\ p \in DOMAIN agent.contexts
      /\ MayUse(t, "step", p) /\ ~Owned(c, t) /\ UNCHANGED <<app, told, wire>>
      /\ Entering(c, t) \in Known
      /\ \/ /\ IsActive(c) /\ agent' = [agent EXCEPT !.known[c] = Entering(c, t), !.queue = agent.queue]
            /\ Enter(t, Inside("step", p, c))
         \/ /\ ~IsActive(c) /\ Begun(Entering(c, t)) \in Known
            /\ Starting(p, c, t) \in Event /\ Starting(p, c, t).type = "started"
            /\ agent' = [agent EXCEPT !.known[c] = Begun(Entering(c, t)),
                                     !.queue = Append(agent.queue, Starting(p, c, t))]
            /\ Enter(t, Waiting(Inside("step", p, c), "enter"))
  <2>1. Queued(Starting(p, c, t)) = Append(agent.queue, Starting(p, c, t))
    BY <1>0 DEF Queued
  <2>2. /\ c \in DOMAIN agent.known /\ c # Null /\ c = agent.contexts[p] /\ p \in DOMAIN agent.contexts
        /\ MayUse(t, "step", p) /\ ~Owned(c, t) /\ UNCHANGED <<app, told, unheard, wire>>
        /\ Entering(c, t) \in Known
        /\ \/ /\ IsActive(c) /\ agent' = [agent EXCEPT !.known[c] = Entering(c, t), !.queue = agent.queue]
              /\ Enter(t, Inside("step", p, c))
           \/ /\ ~IsActive(c) /\ Begun(Entering(c, t)) \in Known
              /\ Starting(p, c, t) \in Event /\ Starting(p, c, t).type = "started"
              /\ agent' = [agent EXCEPT !.known[c] = Begun(Entering(c, t)), !.queue = Queued(Starting(p, c, t))]
              /\ Enter(t, Waiting(Inside("step", p, c), "enter"))
    BY <1>0, StepEntersDoes, Zenon
  <2> QED BY <2>1, <2>2
<1> PICK e, l1, l2, f1, f2 : /\ e = Starting(p, c, t) /\ l1 = Entering(c, t) /\ l2 = Begun(Entering(c, t))
                             /\ f1 = Inside("step", p, c) /\ f2 = Waiting(Inside("step", p, c), "enter")
  OBVIOUS
<1>2. Live(p) /\ MayCall(t) /\ k \in Known /\ Of(c, p) /\ H[c] = p /\ k.owner \in {Null, t}
      /\ p \in DOMAIN Z.cur /\ Z.cur[p] = [life |-> c, module |-> k.module]
  <2>1. Live(p) /\ MayCall(t)
    BY <1>1 DEF MayUse
  <2>2. /\ s.life = c /\ p \in DOMAIN Z.cur /\ Z.cur[p] = [life |-> c, module |-> k.module]
    BY <1>0, <1>1, <2>1, ContextFits
  <2>3. H[c] = p
    BY <1>0, <1>1, <2>1, HomeFits
  <2>4. k \in Known
    BY <1>0, <1>1 DEF AgentOK
  <2> QED BY <1>1, <2>1, <2>2, <2>3, <2>4 DEF Of, Owned
<1>3. Joining(Z, H, t, p, c, k)
  BY <1>0, <1>1, <1>2, Zenon DEF Joining
<1>4. /\ l1 \in Known /\ l1.last = k.last /\ l1.owner = t /\ l1.depth = k.depth + 1 /\ l1.module = k.module
      /\ l1.active = k.active /\ l1.next = k.next
  BY <1>1, <1>2 DEF Entering, Known
<1>5. l2.last = k.last /\ l2.owner = t /\ l2.depth = k.depth + 1 /\ l2.module = k.module
      /\ l2.active = k.next + 1 /\ l2.next = k.next + 1
  BY <1>4 DEF Begun, Known
<1>6. IsActive(c) <=> k.active # Null
  BY <1>1 DEF IsActive
<1> PICK En : En = [r \in Pointers |-> r]
  OBVIOUS
<1>7. ASSUME NEW l, NEW q, NEW g, GoesIn(t, c, l, q, g), l.last = k.last, l.module = k.module, g = f1 \/ g = f2
      PROVE  Enters3(En, H, t, p, c, l, q, g, f2)
  <2>0. l \in Known /\ agent' = [agent EXCEPT !.known[c] = l, !.queue = q] /\ Enter(t, g)
    BY <1>7 DEF GoesIn
  <2>1. /\ agent'.known = [agent.known EXCEPT ![c] = l] /\ agent'.contexts = agent.contexts
        /\ agent'.unknown = agent.unknown /\ agent'.partial = agent.partial /\ agent'.queue = q
    BY <1>0, <1>1, <2>0 DEF AgentOK
  <2>2. OneEntry(c, l)
    BY <1>1, <1>7, <2>1 DEF OneEntry
  <2>3. /\ KnownStays /\ agent'.known[c] = l /\ DOMAIN agent'.known = DOMAIN agent.known
        /\ \A b \in DOMAIN agent.known : b # c => agent'.known[b] = agent.known[b]
    BY <2>2, OneEntryMoves
  <2>4. AppMoves([r \in Pointers |-> r]) /\ LibFits
    <3>1. Within(l.last) /\ (told.lossy => told'.lossy) /\ app' = app
      BY <1>0, <1>1, <1>7 DEF AppInv
    <3> QED BY <1>0, <2>2, <3>1, EntryApp
  <2>5. /\ g \in Call /\ g.op = "step" /\ g.ptr = p /\ g.ctx = c /\ g.at \in {"enter", "inside"} /\ g.value = Null
        /\ (g = f2 => g.at = "enter" /\ g.behind = Len(agent'.queue))
    BY <1>0, <1>1, <1>2, <1>7, EnteredFrame
  <2>6. /\ Carry(t, -1, {g}, 0, 0) /\ 1 \in DOMAIN frames'[t] /\ frames'[t][1] = g
    BY <1>0, <2>0, <2>5, EnterCarry
  <2>7. Apart(frames'[t])
    BY <1>0, <2>0, <2>5, StepApart
  <2>8. FrameFits(g)'
    <3>1. app'.lib[g.ptr].life = c
      BY <1>1, <1>2, <2>5 DEF Of
    <3> QED BY <1>1, <2>5, <3>1 DEF FrameFits
  <2>9. Unharmed' <=> Unharmed
    BY <1>1, <2>1 DEF Unharmed
  <2> QED BY <1>2, <2>1, <2>2, <2>3, <2>4, <2>5, <2>6, <2>7, <2>8, <2>9 DEF Enters2, Enters3
<1>8. (\A w : ~WaitsFor(t, w)) /\ \A r \in Pointers : Live(r)' => Live(r) /\ app'.lib[r].runner = app.lib[r].runner
  BY <1>0, <1>1, <1>2, FreeCall DEF Live
<1>9. CASE IsActive(c)
  <2> PICK q : q = agent.queue
    OBVIOUS
  <2>1. agent' = [agent EXCEPT !.known[c] = l1, !.queue = q] /\ Enter(t, f1) /\ f1 = f1
    BY <1>1, <1>9
  <2>2. /\ OneEntry(c, l1) /\ agent'.queue = q /\ agent'.contexts = agent.contexts /\ KnownStays
        /\ (Unharmed' <=> Unharmed)
        /\ AppMoves(En) /\ LibFits
        /\ Carry(t, -1, {f1}, 0, 0) /\ 1 \in DOMAIN frames'[t] /\ frames'[t][1] = f1
        /\ Apart(frames'[t]) /\ FrameFits(f1)' /\ H[c] = f1.ptr
        /\ f1 \in Call /\ f1.op = "step" /\ f1.ptr = p /\ f1.ctx = c /\ f1.at \in {"enter", "inside"}
        /\ f1.value = Null
    <3>1. Enters2(En, H, t, p, c, l1, q, f1)
      <4>1. GoesIn(t, c, l1, q, f1)
        BY <1>4, <2>1 DEF GoesIn
      <4> QED BY <1>4, <1>7, <4>1 DEF Enters3
    <3> QED BY <3>1 DEF Enters2
  <2>3. Joined(Z, Z, t, p, c, k, l1, f1)
    BY <1>4, <1>6, <1>9, <2>2 DEF Joined
  <2>4. FrameInv' /\ Unharmed' /\ Unharmed /\ RunInv(Z) => RunInv(Z)'
    <3>1. k.active # Null
      BY <1>6, <1>9
    <3> QED BY <1>3, <2>3, <3>1, EnterRuns
  <2>5. \A w \in 0 .. L : Unharmed' /\ Still(w) => app'.truth = app.truth /\ Still(w - 0)'
    <3> SUFFICES ASSUME NEW w \in 0 .. L, Still(w) PROVE FALSE
      OBVIOUS
    <3>1. k.owner \in Threads /\ WaitsFor(k.owner, w)
      BY <1>1, <1>6, <1>9 DEF Still
    <3>2. k.owner = t
      BY <1>0, <1>2, <3>1, Bounds DEF Shape, AppOK
    <3> QED BY <1>8, <3>1, <3>2
  <2> PICK G, d, low : G = {f1} /\ d = -1 /\ low = 0
    OBVIOUS
  <2>6. Carry(t, d, G, low, 0) /\ \A g \in G : FrameFits(g)' /\ (g.ctx # Null => H[g.ctx] = g.ptr)
    BY <2>2
  <2>7. wire' = wire /\ agent'.queue = agent.queue /\ app.truth \subseteq app'.truth
    BY <1>1, <2>2
  <2>8. TruthInv(J, H)'
    BY <2>2, <2>4, <2>5, <2>6, <2>7, SilentTrue
  <2> QED BY <2>8
<1>10. CASE ~IsActive(c)
  <2> PICK Y, q : Y = After(Z, e) /\ q = Append(agent.queue, e)
    OBVIOUS
  <2>1. agent' = [agent EXCEPT !.known[c] = l2, !.queue = q] /\ Enter(t, f2) /\ f2 = f2 /\ l2 \in Known /\ e \in Event
        /\ k.active = Null
    BY <1>1, <1>6, <1>10
  <2>2. /\ OneEntry(c, l2) /\ agent'.queue = q /\ agent'.contexts = agent.contexts /\ KnownStays
        /\ (Unharmed' <=> Unharmed) /\ agent'.known[c] = l2 /\ DOMAIN agent'.known = DOMAIN agent.known
        /\ (\A b \in DOMAIN agent.known : b # c => agent'.known[b] = agent.known[b])
        /\ AppMoves(En) /\ LibFits
        /\ Carry(t, -1, {f2}, 0, 0) /\ 1 \in DOMAIN frames'[t] /\ frames'[t][1] = f2
        /\ Apart(frames'[t]) /\ FrameFits(f2)' /\ H[c] = f2.ptr
        /\ f2 \in Call /\ f2.op = "step" /\ f2.ptr = p /\ f2.ctx = c /\ f2.at \in {"enter", "inside"}
        /\ f2.value = Null /\ f2.at = "enter" /\ f2.behind = Len(agent'.queue)
    <3>1. GoesIn(t, c, l2, q, f2)
      BY <2>1 DEF GoesIn
    <3>2. Enters3(En, H, t, p, c, l2, q, f2, f2)
      BY <1>5, <1>7, <3>1
    <3>3. Enters2(En, H, t, p, c, l2, q, f2) /\ f2.at = "enter" /\ f2.behind = Len(agent'.queue)
      BY <3>2 DEF Enters3
    <3> QED BY <3>3 DEF Enters2
  <2>3. e.type = "started" /\ e.ptr = p /\ e.module = k.module /\ e.number = k.next + 1
    BY DEF Starting, Record
  <2>4. Matched(Z, e) /\ Z.cur[e.ptr].life = c
    BY <1>2, <2>3 DEF Matched
  <2> PICK m : m = k.next + 1
    OBVIOUS
  <2>5. /\ Y.cur = Z.cur /\ Y.begun = Z.begun \cup {<<c, m>>} /\ Y.told = Z.told /\ (Y.lost <=> Z.lost)
        /\ Fresh1(Z, e) /\ (Clean(Y) => Clean(Z))
    BY <2>3, <2>4, AfterStarted
  <2>6. Joined(Z, Y, t, p, c, k, l2, f2)
    BY <1>5, <2>1, <2>2, <2>5 DEF Joined
  <2>7. FrameInv' /\ Unharmed' /\ Unharmed /\ Clean(Y) /\ RunInv(Z) /\ Z.told \subseteq app.truth
        => RunInv(Y)' /\ Y.told \subseteq app'.truth
    BY <1>1, <1>3, <2>5, <2>6, EnterRuns
  <2> PICK G, d, low : G = {f2} /\ d = -1 /\ low = 0
    OBVIOUS
  <2>8. Carry(t, d, G, low, 0) /\ \A g \in G : FrameFits(g)' /\ (g.ctx # Null => H[g.ctx] = g.ptr)
    BY <2>2
  <2>9. Stream' = q /\ wire' = wire /\ Len(agent'.queue) = L + 1
    <3>1. Stream' = agent'.queue
      BY <1>0, <1>1, StreamStays
    <3>2. agent.queue \in Seq(Event)
      BY <1>0, QueueOnly
    <3> QED BY <1>1, <2>1, <2>2, <3>1, <3>2
  <2>10. \A w \in 0 .. L : Unharmed' /\ Still(w) => app'.truth = app.truth /\ Still(w - 0)'
    <3> SUFFICES ASSUME NEW w \in 0 .. L, Still(w) PROVE Still(w - 0)'
      BY <1>1
    <3>1. w \in Nat /\ 0 \in Nat /\ 0 <= w /\ w - 0 = w /\ f2.behind > w
      BY <1>0, <2>2, <2>9
    <3>2. \A g \in G : Stepping(g) => g.behind > w - 0
      BY <3>1
    <3>3. WaitsFor(t, w - 0)'
      BY <2>2, <3>1 DEF WaitsFor
    <3>4. ASSUME NEW b \in DOMAIN agent'.known, agent'.known[b].active # Null
          PROVE  \/ /\ b \in DOMAIN agent.known /\ agent.known[b].active # Null
                    /\ agent'.known[b].owner = agent.known[b].owner
                 \/ t \in Threads /\ agent'.known[b].owner = t /\ WaitsFor(t, w - 0)'
      BY <1>5, <2>2, <3>3, <3>4
    <3>5. t \in Threads => ~WaitsFor(t, 0)
      BY <1>8
    <3> PICK z : z = 0
      OBVIOUS
    <3>6. /\ z \in Nat /\ z <= w /\ Carry(t, d, G, low, z) /\ (\A g \in G : Stepping(g) => g.behind > w - z)
          /\ (t \in Threads => ~WaitsFor(t, z))
          /\ \A b \in DOMAIN agent'.known : agent'.known[b].active # Null =>
                \/ /\ b \in DOMAIN agent.known /\ agent.known[b].active # Null
                   /\ agent'.known[b].owner = agent.known[b].owner
                \/ t \in Threads /\ agent'.known[b].owner = t /\ WaitsFor(t, w - z)'
      BY <2>8, <3>1, <3>2, <3>4, <3>5
    <3>7. Still(w - z)'
      BY <1>0, <1>8, <3>1, <3>6, StillKept
    <3> QED BY <3>7
  <2>11. Steps(0)
    BY <1>1, <2>2, <2>10, StepsOnce
  <2>12. AgentMoves(Z, Y)
    BY <1>0, <1>1, <2>2, <2>5, EntryAgent
  <2>13. Sound(Y, H)'
    BY <1>0, <2>2, <2>5, <2>7, <2>8, <2>12, ActiveSound
  <2> QED BY <1>0, <2>1, <2>5, <2>9, <2>11, <2>13, OneRecord
<1> QED BY <1>9, <1>10

-----------------------------------------------------------------------------
(* A preparation. *)

NewEntry(m) == [module |-> m, last |-> IF m \in Readable THEN 0 ELSE Null,
                next |-> 0, active |-> Null, owner |-> Null, depth |-> 0]
NewRecord(p, m, L) == [type |-> "prepared", ptr |-> p, module |-> m, number |-> L, value |-> Null]

\* The statement L at p, the entry k the agent makes for it, the record e.
NewLib(p, m, L) ==
    /\ app'.lives = L /\ app'.used = app.used \cup {m} /\ app'.truth = app.truth
    /\ app'.lib[p] = Fresh(L, m) /\ Fresh(L, m) \in Statement /\ Fresh(L, m) # NoStatement
    /\ \A q \in Pointers : q # p => app'.lib[q] = app.lib[q]
NewKnown(p, L, k) ==
    /\ DOMAIN agent'.contexts = DOMAIN agent.contexts \cup {p} /\ agent'.contexts[p] = L
    /\ \A q \in DOMAIN agent.contexts : q # p => agent'.contexts[q] = agent.contexts[q]
    /\ DOMAIN agent'.known = DOMAIN agent.known \cup {L} /\ agent'.known[L] = k
    /\ \A c \in DOMAIN agent.known : agent'.known[c] = agent.known[c]
NewOne(t, p, m, L, k, e) ==
    /\ L = app.lives + 1 /\ L \in Nat /\ L # Null /\ L \notin DOMAIN agent.known /\ L \notin Pointers
    /\ \A c \in DOMAIN agent.known : c # L
    /\ MayCall(t) /\ ~Live(p) /\ Shape
    /\ NewLib(p, m, L) /\ NewKnown(p, L, k) /\ k = NewEntry(m) /\ e = NewRecord(p, m, L) /\ e \in Event
    /\ agent'.unknown \subseteq agent.unknown /\ (agent.partial => agent'.partial)
    /\ agent'.queue = Append(agent.queue, e)
    /\ told'.lossy = told.lossy /\ wire' = wire
NewCall(t, p, L, g) ==
    /\ g \in Call /\ g.op = "prepare" /\ g.ptr = p /\ g.ctx = L /\ g.at = "leave"
    /\ (frames' = frames \/ Enter(t, g))

LEMMA PrepareMakes ==
    ASSUME Whole, Whole', Shape, Shape', NEW t \in Threads, NEW p \in Pointers, NEW m \in Modules, Prepare(t, p, m),
           NEW L, L = app.lives + 1, NEW k, k = NewEntry(m), NEW e, e = NewRecord(p, m, L)
    PROVE  NewOne(t, p, m, L, k, e) /\ \E g : NewCall(t, p, L, g)
<1>1. /\ app.lives \in Nat /\ L \in Nat /\ L # 0 /\ Null \notin Nat /\ Pointers \cap Nat = {}
      /\ "prepare" \in Hooked[m] /\ 0 \in Counts /\ ~agent.broken
  <2>1. setting \in Settings /\ app.lives \in Nat
    BY DEF Shape, AppOK
  <2>2. 0 \in Counts /\ Null \notin Nat
    BY <2>1, Bounds
  <2>3. "prepare" \in Hooked[m] /\ ~agent.broken
    <3>1. m \in app'.used
      BY DEF Prepare, Shape, AppOK
    <3> QED BY <3>1 DEF Whole, Observed
  <2> QED BY <2>1, <2>2, <2>3, PointersAssumption
<1>2. NewLib(p, m, L)
  <2>1. app' = [app EXCEPT !.lives = L, !.used = @ \cup {m}, !.lib[p] = Fresh(L, m)]
    BY DEF Prepare
  <2>2. Fresh(L, m) \in Statement
    BY <1>1, Bounds DEF Fresh, Statement
  <2>3. Fresh(L, m) # NoStatement
    BY <2>2 DEF NoStatement, Statement
  <2> QED BY <2>1, <2>2, <2>3 DEF NewLib, Shape, AppOK
<1>3. /\ agent'.contexts = Put(agent.contexts, p, L) /\ agent'.known = Put(agent.known, L, k)
      /\ agent'.unknown = agent.unknown \ {p} /\ (agent.partial => agent'.partial)
      /\ agent'.queue = Append(agent.queue, e)
  <2>1. agent' = Prepared(p, m, L)
    BY <1>1 DEF Prepare
  <2>2. Queued(e) = Append(agent.queue, e)
    BY <1>1 DEF Queued
  <2> PICK q : q = Queued(e)
    OBVIOUS
  <2>3. Prepared(p, m, L) =
            [agent EXCEPT !.contexts = Put(@, p, L), !.known = Put(@, L, k), !.unknown = @ \ {p},
                          !.complete = @ \/ Complete(m), !.partial = @ \/ ~Complete(m), !.queue = Queued(e)]
    BY DEF Prepared, NewEntry, NewRecord
  <2>4. agent' = [agent EXCEPT !.contexts = Put(@, p, L), !.known = Put(@, L, k), !.unknown = @ \ {p},
                               !.complete = @ \/ Complete(m), !.partial = @ \/ ~Complete(m), !.queue = q]
    BY <2>1, <2>3
  <2> QED BY <2>2, <2>4 DEF Shape, AgentOK
<1>4. NewKnown(p, L, k)
  <2>1. L \notin DOMAIN agent.known
    BY <1>1 DEF Shape, AgentOK
  <2>2. agent'.contexts = Put(agent.contexts, p, L) /\ agent'.known = Put(agent.known, L, k)
    BY <1>3
  <2> QED BY <2>1, <2>2 DEF NewKnown, Put
<1>5. L \notin DOMAIN agent.known /\ \A c \in DOMAIN agent.known : c # L
  BY <1>1 DEF Shape, AgentOK
<1>6. e \in Event
  BY <1>1, Bounds DEF Event, NewRecord
<1>7. /\ agent'.unknown \subseteq agent.unknown /\ (agent.partial => agent'.partial)
      /\ agent'.queue = Append(agent.queue, e)
  BY <1>3
<1>8. told'.lossy = told.lossy /\ wire' = wire /\ MayCall(t) /\ ~Live(p)
  <2>1. told' = [told EXCEPT !.status = CurrentStatus(app.loaded, agent')]
    BY <1>1 DEF Prepare, Say
  <2> QED BY <2>1 DEF Prepare, Shape, ToldOK, Telling
<1>9. NewOne(t, p, m, L, k, e)
  BY <1>1, <1>2, <1>4, <1>5, <1>6, <1>7, <1>8 DEF NewOne
<1>10. \E g : NewCall(t, p, L, g)
  <2> PICK f, n, g : f = Frame("prepare", p, m, L, "leave") /\ n = Len(agent'.queue)
                     /\ g = [f EXCEPT !.at = "leave", !.behind = n]
    OBVIOUS
  <2>1. n \in Nat /\ Waiting(f, "leave") = g
    BY <1>1 DEF Shape, RecordsOK, Waiting
  <2>2. f \in Call /\ f.op = "prepare" /\ f.ptr = p /\ f.ctx = L
    BY <1>1 DEF Frame, Call, HookNames
  <2>3. g \in Call /\ g.op = "prepare" /\ g.ptr = p /\ g.ctx = L /\ g.at = "leave"
    BY <2>1, <2>2 DEF Call
  <2>4. frames' = frames \/ Enter(t, g)
    BY <1>1, <2>1 DEF Prepare
  <2> QED BY <2>3, <2>4 DEF NewCall
<1> QED BY <1>9, <1>10

LEMMA PrepareApp ==
    ASSUME Inv, Inv', AppInv, setting' = setting,
           NEW t, NEW p \in Pointers, NEW m \in Modules, NEW L, NEW k, NEW e, NewOne(t, p, m, L, k, e)
    PROVE  AppInv' /\ LibFits
<1> PICK s : s = Fresh(L, m)
  OBVIOUS
<1>0. /\ app'.lives = L /\ app'.used = app.used \cup {m} /\ app'.truth = app.truth /\ app'.lib[p] = s
      /\ s.life = L /\ s.module = m /\ ~Running(s) /\ s # NoStatement /\ s.n = 0 /\ L = app.lives + 1
      /\ L \in Nat /\ L \notin DOMAIN agent.known /\ L \notin Pointers /\ ~Live(p) /\ Shape /\ Shape' /\ app.lives \in Nat
      /\ \A q \in Pointers : q # p => app'.lib[q] = app.lib[q]
  BY DEF NewOne, NewLib, Fresh, Running, Inv, Shape, AppOK
<1>1. /\ DOMAIN agent'.contexts = DOMAIN agent.contexts \cup {p} /\ agent'.contexts[p] = L
      /\ \A q \in DOMAIN agent.contexts : q # p => agent'.contexts[q] = agent.contexts[q]
      /\ DOMAIN agent'.known = DOMAIN agent.known \cup {L} /\ agent'.known[L] = k /\ k.module = m
      /\ \A c \in DOMAIN agent.known : agent'.known[c] = agent.known[c]
  BY DEF NewOne, NewKnown, NewEntry
<1>2. ASSUME NEW q \in Pointers, Live(q)', q # p PROVE Live(q) /\ app'.lib[q] = app.lib[q] /\ app'.lib[q].life # L
  <2>1. Live(q) /\ app'.lib[q] = app.lib[q]
    BY <1>0, <1>2 DEF Live
  <2> QED BY <1>0, <2>1 DEF AppInv
<1>3. ASSUME NEW q \in Pointers, Live(q)'
      PROVE  LET z == app'.lib[q] IN
             /\ \/ z.life = q
                \/ z.life \in DOMAIN agent'.known /\ agent'.known[z.life].module = z.module /\ z.module \in app'.used
             /\ q \in DOMAIN agent'.contexts => z.life = agent'.contexts[q]
             /\ \A x \in app'.truth : x.life = z.life => x.n <= z.n /\ (Running(z) => x.n < z.n)
  <2>1. CASE q = p
    <3>1. \A x \in app'.truth : x.life # L
      BY <1>0 DEF AppInv
    <3> QED BY <1>0, <1>1, <2>1, <3>1
  <2>2. CASE q # p
    BY <1>0, <1>1, <1>2, <1>3, <2>2 DEF AppInv
  <2> QED BY <2>1, <2>2
<1>4. ASSUME NEW q \in Pointers, NEW r \in Pointers, Live(q)', Live(r)', app'.lib[q].life = app'.lib[r].life
      PROVE  q = r
  <2>1. CASE q = p \/ r = p
    BY <1>0, <1>2, <1>4, <2>1
  <2>2. CASE q # p /\ r # p
    BY <1>2, <1>4, <2>2 DEF AppInv
  <2> QED BY <2>1, <2>2
<1>5. \A x \in app'.truth : x.life \in 1 .. app'.lives \/ x.life \in Pointers
  BY <1>0 DEF AppInv
<1>6. \A x, y \in app'.truth : x.life = y.life /\ x.n = y.n => x = y
  BY <1>0 DEF AppInv
<1>7. agent'.unknown # {} => told'.lossy
  BY DEF NewOne, AppInv
<1>8. \A c \in DOMAIN agent'.known : Within(agent.known[c].last)'
  <2>1. \A c \in DOMAIN agent.known : Within(agent.known[c].last)'
    BY <1>1 DEF AppInv, Within
  <2>2. Within(k.last)'
    <3>1. k.last = Null \/ k.last = 0
      BY DEF NewOne, NewEntry
    <3>2. setting.work \in Nat /\ 2 * setting.work < Wrap /\ Wrap \in Nat
      BY <1>0, Bounds DEF Shape, AppOK, Setting
    <3>3. 0 + setting.work < Wrap
      BY <3>2
    <3> QED BY <3>1, <3>3 DEF Within
  <2> QED BY <1>1, <2>1, <2>2 DEF Within
<1>9. LibFits
  BY <1>0, <1>2 DEF LibFits
<1> QED BY <1>3, <1>4, <1>5, <1>6, <1>7, <1>8, <1>9 DEF AppInv

\* What the tracker makes of a preparation.
AfterNew(Z, Y, p, m, L, e) ==
    /\ DOMAIN Y.cur = DOMAIN Z.cur \cup {p} /\ Y.cur[p] = [life |-> L, module |-> m]
    /\ \A q \in DOMAIN Z.cur : q # p => Y.cur[q] = Z.cur[q]
    /\ Y.begun = Z.begun /\ Y.told = Z.told /\ (Y.lost <=> Z.lost) /\ Fresh1(Z, e)
    /\ Clean(Y) => Clean(Z)

LEMMA AfterPrepared ==
    ASSUME NEW Z, NEW p, NEW m, NEW L, NEW e, e = NewRecord(p, m, L), NEW Y, Y = After(Z, e),
           \A b \in Z.begun : b[1] # L
    PROVE  AfterNew(Z, Y, p, m, L, e)
<1>1. e.type = "prepared" /\ e.ptr = p /\ e.module = m /\ e.number = L
  BY DEF NewRecord
<1>2. Y.cur = Put(Z.cur, p, [life |-> L, module |-> m]) /\ Y.begun = Z.begun /\ Y.told = Z.told
      /\ (Y.lost <=> Z.lost)
  BY <1>1 DEF After
<1>3. /\ DOMAIN Y.cur = DOMAIN Z.cur \cup {p} /\ Y.cur[p] = [life |-> L, module |-> m]
      /\ \A q \in DOMAIN Z.cur : q # p => Y.cur[q] = Z.cur[q]
  BY <1>2 DEF Put
<1>4. Doomed(Z) => Doomed(Y)
  BY <1>2, <1>3 DEF Doomed, HasTold
<1>5. Clean(Y) => Clean(Z)
  BY <1>2, <1>4 DEF Clean
<1> QED BY <1>1, <1>2, <1>3, <1>5 DEF Fresh1, AfterNew

\* The agent's table and the pointer of each statement, with the new one.
NewHome(H, Hn, p, L) ==
    Hn = [c \in DOMAIN agent.known \cup {L} |-> IF c = L THEN p ELSE H[c]]

LEMMA PrepareAgent ==
    ASSUME Inv, NEW Z, NEW H, AgentInv(Z, H),
           NEW t, NEW p \in Pointers, NEW m \in Modules, NEW L, NEW k, NEW e, NewOne(t, p, m, L, k, e),
           NEW Y, Y = After(Z, e), NEW Hn, NewHome(H, Hn, p, L),
           NEW d, NEW G, NEW low, Carry(t, d, G, low, 0), \A g \in G : g.ctx = L /\ g.ptr = p
    PROVE  AgentInv(Y, Hn)'
<1>1. /\ DOMAIN agent'.contexts = DOMAIN agent.contexts \cup {p} /\ agent'.contexts[p] = L
      /\ \A q \in DOMAIN agent.contexts : q # p => agent'.contexts[q] = agent.contexts[q]
      /\ DOMAIN agent'.known = DOMAIN agent.known \cup {L} /\ agent'.known[L] = k /\ k.module = m
      /\ \A c \in DOMAIN agent.known : agent'.known[c] = agent.known[c]
      /\ L \notin DOMAIN agent.known /\ e = NewRecord(p, m, L) /\ Shape
  BY DEF NewOne, NewKnown, NewEntry
<1>2. \A b \in Z.begun : b[1] # L
  BY <1>1 DEF AgentInv
<1>3. /\ DOMAIN Y.cur = DOMAIN Z.cur \cup {p} /\ Y.cur[p] = [life |-> L, module |-> m]
      /\ \A q \in DOMAIN Z.cur : q # p => Y.cur[q] = Z.cur[q]
      /\ Y.begun = Z.begun
  <2>1. AfterNew(Z, Y, p, m, L, e)
    BY <1>1, <1>2, AfterPrepared
  <2> QED BY <2>1 DEF AfterNew
<1>4. Hn \in [DOMAIN agent'.known -> Pointers] /\ Hn[L] = p /\ \A c \in DOMAIN agent.known : Hn[c] = H[c]
  BY <1>1 DEF NewHome, AgentInv
<1>5. ASSUME NEW q \in DOMAIN agent'.contexts
      PROVE  q \in DOMAIN Y.cur /\ Y.cur[q] = [life   |-> agent'.contexts[q],
                                               module |-> agent'.known[agent'.contexts[q]].module]
  <2>1. CASE q = p
    BY <1>1, <1>3, <2>1
  <2>2. CASE q # p
    <3>1. q \in DOMAIN agent.contexts /\ agent'.contexts[q] = agent.contexts[q]
      BY <1>1, <1>5, <2>2
    <3>2. agent.contexts[q] \in DOMAIN agent.known
      BY <1>1, <3>1 DEF Shape, AgentOK
    <3>3. q \in DOMAIN Z.cur /\ Z.cur[q] = [life   |-> agent.contexts[q],
                                            module |-> agent.known[agent.contexts[q]].module]
      BY <3>1 DEF AgentInv
    <3> QED BY <1>1, <1>3, <2>2, <3>1, <3>2, <3>3
  <2> QED BY <2>1, <2>2
<1>6. \A q \in DOMAIN Y.cur : Y.cur[q].life \in DOMAIN agent'.known /\ Hn[Y.cur[q].life] = q
  BY <1>1, <1>3, <1>4 DEF AgentInv
<1>7. DOMAIN Y.cur \subseteq Pointers /\ \A b \in Y.begun : b[1] \in DOMAIN agent'.known
  BY <1>1, <1>3 DEF AgentInv
<1>8. ASSUME NEW u \in Threads, NEW i \in DOMAIN frames'[u], frames'[u][i].ctx # Null
      PROVE  Hn[frames'[u][i].ctx] = frames'[u][i].ptr
  <2>1. CASE frames'[u][i] \in G
    BY <1>4, <2>1
  <2>2. CASE Goes1(t, d, low, 0, u, i)
    <3> PICK j, f : j = Was(t, d, u, i) /\ f = frames[u][j]
      OBVIOUS
    <3>1. j \in DOMAIN frames[u] /\ f.ctx = frames'[u][i].ctx /\ f.ptr = frames'[u][i].ptr
      BY <2>2 DEF Goes1, Alike
    <3>2. f.ctx \in DOMAIN agent.known
      BY <1>1, <1>8, <3>1, FrameIsCall DEF FrameOK
    <3> QED BY <1>4, <1>8, <3>1, <3>2 DEF AgentInv
  <2> QED BY <2>1, <2>2 DEF Carry
<1> QED BY <1>4, <1>5, <1>6, <1>7, <1>8 DEF AgentInv

LEMMA PrepareRuns ==
    ASSUME Inv, Inv', FrameInv', AppInv, NEW Z, NEW H, AgentInv(Z, H), RunInv(Z), Z.told \subseteq app.truth,
           NEW t \in Threads, NEW p \in Pointers, NEW m \in Modules, NEW L, NEW k, NEW e, NewOne(t, p, m, L, k, e),
           NEW Y, Y = After(Z, e),
           NEW d, NEW G, NEW low, low = 0, Carry(t, d, G, low, 0),
           \A g \in G : g.op = "prepare" /\ g.ctx = L /\ g.at = "leave"
    PROVE  RunInv(Y)'
<1> PICK s : s = Fresh(L, m)
  OBVIOUS
<1>0. /\ app'.truth = app.truth /\ app'.lib[p] = s /\ s.life = L /\ s.n = 0 /\ s.counter = 0 /\ ~Running(s)
      /\ L \notin DOMAIN agent.known /\ L \notin Pointers /\ ~Live(p) /\ Shape /\ MayCall(t)
      /\ L = app.lives + 1 /\ app.lives \in Nat /\ (\A c \in DOMAIN agent.known : c # L)
      /\ (\A q \in Pointers : q # p => app'.lib[q] = app.lib[q]) /\ e = NewRecord(p, m, L) /\ L # Null
  BY DEF NewOne, NewLib, Fresh, Running, Shape, AppOK
<1>1. /\ DOMAIN agent'.known = DOMAIN agent.known \cup {L} /\ agent'.known[L] = k
      /\ \A c \in DOMAIN agent.known : agent'.known[c] = agent.known[c]
  BY DEF NewOne, NewKnown
<1>2. k.active = Null /\ k.depth = 0 /\ k.next = 0 /\ (k.last # Null => k.last = 0)
  BY DEF NewOne, NewEntry
<1>3. Y.begun = Z.begun /\ Y.told = Z.told
  <2>1. \A b \in Z.begun : b[1] # L
    BY <1>0 DEF AgentInv
  <2>2. AfterNew(Z, Y, p, m, L, e)
    BY <1>0, <2>1, AfterPrepared
  <2> QED BY <2>2 DEF AfterNew
<1>4. ASSUME NEW c \in DOMAIN agent.known PROVE Runs(c, Y)'
  <2>1. Undisturbed(c, Z, Y)
    <3>1. ASSUME NEW q \in Pointers, Of(c, q)' PROVE Of(c, q) /\ app'.lib[q] = app.lib[q]
      <4>1. q # p
        BY <1>0, <3>1 DEF Of
      <4> QED BY <1>0, <3>1, <4>1 DEF Of, Live
    <3> QED BY <1>0, <1>1, <1>3, <3>1 DEF Undisturbed
  <2>2. NotEnding(t, low, c)
    BY <1>0, FreeCall
  <2>3. \A g \in G : g.ctx = c => ~Stepping(g) /\ CallFits(t, g)'
    BY <1>0
  <2>4. Runs(c, Z)
    BY DEF RunInv
  <2> QED BY <2>1, <2>2, <2>3, <2>4, RunKept
<1>5. \A x \in app'.truth : x.life # L
  BY <1>0 DEF AppInv
<1>6. ASSUME NEW u \in Threads, NEW i \in DOMAIN frames'[u], frames'[u][i].ctx = L
      PROVE  frames'[u][i].op = "prepare" /\ frames'[u][i].at = "leave"
  <2>1. CASE Goes1(t, d, low, 0, u, i)
    <3> PICK j, f : j = Was(t, d, u, i) /\ f = frames[u][j]
      OBVIOUS
    <3>1. j \in DOMAIN frames[u] /\ f.ctx = L
      BY <1>6, <2>1 DEF Goes1, Alike
    <3>2. f.ctx \in DOMAIN agent.known
      BY <1>0, <3>1, FrameIsCall DEF FrameOK
    <3> QED BY <1>0, <3>1, <3>2
  <2>2. CASE frames'[u][i] \in G
    BY <2>2
  <2> QED BY <2>1, <2>2 DEF Carry
<1>7. CallsFit(L)'
  <2> SUFFICES ASSUME NEW u \in Threads, NEW i \in DOMAIN frames'[u], frames'[u][i].ctx = L
               PROVE  CallFits(u, frames[u][i])'
    BY DEF CallsFit
  <2>1. frames'[u][i].op = "prepare" /\ frames'[u][i].at = "leave"
    BY <1>6
  <2> QED BY <2>1 DEF CallFits, InUse, Stepping, Ends1, Metered
<1>8. OneStep(L)'
  <2>1. \A u \in Threads : \A i \in DOMAIN frames'[u] : frames'[u][i].ctx = L => ~Stepping(frames'[u][i])
    BY <1>6 DEF Stepping
  <2> QED BY <1>1, <1>2, <2>1 DEF OneStep
<1>9. Opened(L, Y)'
  <2>1. \A x \in Y.told : x.life # L
    BY <1>0, <1>3, <1>5
  <2> QED BY <1>1, <1>2, <1>5, <2>1 DEF Opened
<1>10. ASSUME NEW q \in Pointers, Of(L, q)' PROVE Stands(L, app.lib[q])'
  <2>1. q = p
    <3> SUFFICES ASSUME q # p PROVE FALSE
      OBVIOUS
    <3>1. Live(q) /\ app.lib[q].life = L
      BY <1>0, <1>10 DEF Of, Live
    <3> QED BY <1>0, <3>1 DEF AppInv
  <2>2. app'.lib[q] = s
    BY <1>0, <2>1
  <2>3. k.last # Null => 0 = k.last + 0
    BY <1>2
  <2> QED BY <1>0, <1>1, <1>2, <2>2, <2>3 DEF Stands, Level
<1>11. Runs(L, Y)'
  BY <1>7, <1>8, <1>9, <1>10 DEF Runs
<1>12. \A x \in app'.truth : x.life \in DOMAIN agent'.known
  BY <1>0, <1>1 DEF RunInv
<1>13. ASSUME NEW q \in Pointers, Live(q)', Running(app'.lib[q]) PROVE app'.lib[q].life \in DOMAIN agent'.known
  <2>1. q # p
    BY <1>0, <1>13
  <2>2. Live(q) /\ app'.lib[q] = app.lib[q]
    BY <1>0, <1>13, <2>1 DEF Live
  <2> QED BY <1>1, <1>13, <2>2 DEF RunInv
<1> QED BY <1>1, <1>4, <1>11, <1>12, <1>13 DEF RunInv

LEMMA PrepareTrue ==
    ASSUME Held, NEW J, NEW H, TruthInv(J, H), NEW t \in Threads, NEW p \in Pointers, NEW m \in Modules,
           Prepare(t, p, m)
    PROVE  \E K, Hn : TruthInv(K, Hn)'
<1> PICK Z, L, k, e, Y : /\ Z = Last(J) /\ L = app.lives + 1 /\ k = NewEntry(m) /\ e = NewRecord(p, m, L)
                         /\ Y = After(Z, e)
  OBVIOUS
<1> PICK Hn : NewHome(H, Hn, p, L)
  BY DEF NewHome
<1>0. /\ Inv /\ Inv' /\ Sound(Z, H) /\ AppInv /\ FrameInv /\ AgentInv(Z, H) /\ setting' = setting /\ Shape /\ Shape'
      /\ wire = << >>
  BY SoundNow DEF Held, Sound, Inv
<1>1. NewOne(t, p, m, L, k, e) /\ \E g : NewCall(t, p, L, g)
  BY <1>0, PrepareMakes DEF Held
<1> PICK g : NewCall(t, p, L, g)
  BY <1>1
<1>2. AppInv' /\ LibFits
  BY <1>0, <1>1, PrepareApp
<1>3. /\ e \in Event /\ MayCall(t) /\ wire' = wire /\ app'.truth = app.truth /\ e = NewRecord(p, m, L)
      /\ L \notin DOMAIN agent.known /\ agent'.queue = Append(agent.queue, e)
      /\ k.active = Null /\ DOMAIN agent'.known = DOMAIN agent.known \cup {L} /\ agent'.known[L] = k
      /\ \A c \in DOMAIN agent.known : agent'.known[c] = agent.known[c]
  BY <1>1 DEF NewOne, NewLib, NewKnown, NewEntry
<1>4. Unharmed' => Unharmed
  BY <1>1 DEF NewOne, Unharmed
<1>5. (\A c : NotEnding(t, 0, c)) /\ (\A w : ~WaitsFor(t, w))
  BY <1>0, <1>3, FreeCall
<1>6. g \in Call /\ g.op = "prepare" /\ g.ptr = p /\ g.ctx = L /\ g.at = "leave" /\ (frames' = frames \/ Enter(t, g))
  BY DEF NewCall
<1>7. \E d, G : Carry(t, d, G, 0, 0) /\ Apart(frames'[t]) /\ G \subseteq {g}
  <2>1. CASE frames' = frames
    <3>1. Carry(t, 0, {}, 0, 0) /\ Apart(frames'[t])
      BY <1>0, <2>1, SameCarry DEF FrameInv
    <3> QED BY <3>1
  <2>2. CASE Enter(t, g)
    <3>1. Carry(t, -1, {g}, 0, 0) /\ frames'[t][1] = g
      BY <1>0, <1>6, <2>2, EnterCarry
    <3>2. Apart(frames'[t])
      BY <1>6, <3>1 DEF Apart
    <3> QED BY <3>1, <3>2
  <2> QED BY <1>6, <2>1, <2>2
<1> PICK low : low = 0
  OBVIOUS
<1> PICK d, G : Carry(t, d, G, 0, 0) /\ Apart(frames'[t]) /\ G \subseteq {g}
  BY <1>7
<1>8. Carry(t, d, G, low, 0) /\ \A h \in G : h.op = "prepare" /\ h.ctx = L /\ h.ptr = p /\ h.at = "leave"
  BY <1>6
<1>9. FrameInv'
  <2>1. \A h \in G : FrameFits(h)'
    BY <1>8 DEF FrameFits, InUse
  <2> QED BY <1>0, <1>2, <1>4, <1>8, <2>1, FramesKept
<1>10. AgentInv(Y, Hn)'
  BY <1>0, <1>1, <1>8, PrepareAgent
<1>11. /\ Y.told = Z.told /\ Fresh1(Z, e) /\ (Clean(Y) => Clean(Z))
  <2>1. \A b \in Z.begun : b[1] # L
    BY <1>0, <1>3 DEF AgentInv
  <2>2. e = NewRecord(p, m, L) /\ Y = After(Z, e)
    BY <1>3
  <2>3. AfterNew(Z, Y, p, m, L, e)
    BY <2>1, <2>2, AfterPrepared
  <2> QED BY <2>3 DEF AfterNew
<1>12. ASSUME Unharmed', Clean(Y) PROVE RunInv(Y)' /\ Y.told \subseteq app'.truth
  <2>1. RunInv(Z) /\ Z.told \subseteq app.truth
    BY <1>0, <1>4, <1>11, <1>12 DEF Sound
  <2>2. \A h \in G : h.op = "prepare" /\ h.ctx = L /\ h.at = "leave"
    BY <1>8
  <2>3. RunInv(Y)'
    BY <1>0, <1>1, <1>8, <1>9, <2>1, <2>2, PrepareRuns
  <2> QED BY <1>3, <1>11, <2>1, <2>3
<1>13. Sound(Y, Hn)'
  BY <1>2, <1>9, <1>10, <1>12 DEF Sound
<1>14. \A w \in 0 .. Len(agent.queue) : Still(w) => app'.truth = app.truth /\ Still(w - 0)'
  <2>1. \A h \in G : ~Stepping(h)
    BY <1>8 DEF Stepping
  <2>2. \A q \in Pointers : Live(q)' => \/ Live(q) /\ app'.lib[q].runner = app.lib[q].runner
                                        \/ app'.lib[q].runner = Null
    <3>1. app'.lib[p].runner = Null /\ \A q \in Pointers : q # p => app'.lib[q] = app.lib[q]
      BY <1>1 DEF NewOne, NewLib, Fresh
    <3> QED BY <3>1 DEF Live
  <2>3. \A c \in DOMAIN agent'.known : agent'.known[c].active # Null =>
              /\ c \in DOMAIN agent.known /\ agent.known[c].active # Null
              /\ agent'.known[c].owner = agent.known[c].owner
    BY <1>3
  <2> QED BY <1>3, <1>5, <1>8, <2>1, <2>2, <2>3, QuietCalm
<1>15. Steps(0)
  BY <1>3, <1>4, <1>14, StepsOnce
<1>16. Stream' = Append(agent.queue, e)
  BY <1>0, <1>3, StreamStays
<1>17. \E K : TruthInv(K, Hn)'
  BY <1>0, <1>3, <1>11, <1>13, <1>15, <1>16, OneRecord
<1> QED BY <1>17

\* Statements that go with their module: what ends with each of them.
Leaves(m, us) ==
    /\ us \subseteq Pointers /\ \A p \in us : Live(p)
    /\ \A p \in us : app'.lib[p] = NoStatement
    /\ \A p \in Pointers : p \notin us => app'.lib[p] = app.lib[p]
    /\ app.truth \subseteq app'.truth
    /\ \A x \in app'.truth : x \in app.truth \/ \E p \in us : Running(app.lib[p]) /\ x = EndOf(app.lib[p])
    /\ app'.lives = app.lives /\ app'.used = app.used
    /\ agent'.known = agent.known /\ agent'.queue = agent.queue /\ agent'.unknown = agent.unknown
    /\ \A p \in DOMAIN agent'.contexts : p \in DOMAIN agent.contexts /\ agent'.contexts[p] = agent.contexts[p]
    /\ frames' = frames /\ wire' = wire /\ (Unharmed' => Unharmed) /\ (told.lossy => told'.lossy)

LEMMA UnloadLeaves ==
    ASSUME Inv, Aside, NEW m \in Modules, Unload(m)
    PROVE  Leaves(m, Ours(m))
<1>a. PICK us : us = Ours(m)
  OBVIOUS
<1>0. Shape /\ AppOK /\ us \subseteq Pointers /\ \A p \in us : Live(p)
  BY <1>a DEF Inv, Shape, Ours
<1>1. /\ UNCHANGED <<frames, wire>> /\ agent'.known = agent.known
      /\ agent'.queue = agent.queue /\ agent'.contexts = Drop(agent.contexts, Gone(m))
      /\ agent'.partial = agent.partial
      /\ app'.lib = [p \in Pointers |-> IF p \in us THEN NoStatement ELSE app.lib[p]]
      /\ app'.lives = app.lives /\ app'.used = app.used
  BY <1>0, <1>a, UnloadShape
<1>2. app'.truth = app.truth \cup UNION {Ended(app.lib[p]) : p \in us}
  BY <1>0, <1>a, Zenon DEF Unload, Ours, AppOK
<1>3. agent'.unknown = agent.unknown /\ (told.lossy => told'.lossy)
  <2>1. agent'.unknown = agent.unknown
    <3>1. PICK cs : agent' = [agent EXCEPT !.contexts = cs]
      BY Zenon DEF Unload
    <3> QED BY <1>0, <3>1 DEF Shape, AgentOK
  <2>2. told.lossy => told'.lossy
    <3>a. PICK status, a, b : told' = [status |-> status, lossy |-> told.lossy \/ a, fatal |-> b]
      BY Zenon DEF Unload, Say
    <3>1. told'.lossy = (told.lossy \/ a)
      BY <3>a
    <3> QED BY <3>1
  <2> QED BY <2>1, <2>2
<1>4. \A p \in DOMAIN agent'.contexts : p \in DOMAIN agent.contexts /\ agent'.contexts[p] = agent.contexts[p]
  BY <1>1 DEF Drop
<1>5. ASSUME NEW x \in app'.truth, x \notin app.truth
      PROVE  \E p \in us : Running(app.lib[p]) /\ x = EndOf(app.lib[p])
  <2>1. PICK p \in us : x \in Ended(app.lib[p])
    BY <1>2, <1>5
  <2>2. Running(app.lib[p]) /\ x = EndOf(app.lib[p])
    BY <2>1 DEF Ended, EndOf
  <2> QED BY <2>2
<1>6. Unharmed' => Unharmed
  BY <1>1, <1>3 DEF Unharmed
<1> QED BY <1>a, <1>0, <1>1, <1>2, <1>3, <1>4, <1>5, <1>6 DEF Leaves

LEMMA UnloadTrue ==
    ASSUME Held, NEW J, NEW H, TruthInv(J, H), NEW m \in Modules, Unload(m)
    PROVE  TruthInv(J, H)'
<1> PICK Z, us : Z = Last(J) /\ us = Ours(m)
  OBVIOUS
<1>0. /\ Inv /\ Inv' /\ Sound(Z, H) /\ AppInv /\ FrameInv /\ AgentInv(Z, H) /\ setting' = setting /\ wire = << >>
      /\ Shape /\ Null \notin Threads /\ Aside
  BY SoundNow, NullAssumption DEF Held, Sound, Inv
<1>1. Leaves(m, us)
  BY <1>0, UnloadLeaves
<1>2. /\ us \subseteq Pointers /\ \A p \in us : Live(p)
      /\ \A p \in us : app'.lib[p] = NoStatement
      /\ \A p \in Pointers : p \notin us => app'.lib[p] = app.lib[p]
      /\ app.truth \subseteq app'.truth
      /\ \A x \in app'.truth : x \in app.truth \/ \E p \in us : Running(app.lib[p]) /\ x = EndOf(app.lib[p])
      /\ app'.lives = app.lives /\ app'.used = app.used
  BY <1>1 DEF Leaves
<1>3. /\ agent'.known = agent.known /\ agent'.queue = agent.queue /\ agent'.unknown = agent.unknown
      /\ \A p \in DOMAIN agent'.contexts : p \in DOMAIN agent.contexts /\ agent'.contexts[p] = agent.contexts[p]
      /\ frames' = frames /\ wire' = wire /\ (Unharmed' => Unharmed) /\ (told.lossy => told'.lossy)
  BY <1>1 DEF Leaves
<1>4. \A p \in Pointers : Live(p)' => Live(p) /\ app'.lib[p] = app.lib[p]
  BY <1>2 DEF Live
<1>5. \A p \in us : app.lib[p] \in Statement /\ EndOf(app.lib[p]).life = app.lib[p].life
                    /\ EndOf(app.lib[p]).n = app.lib[p].n
  BY <1>0, <1>2, LiveStatement DEF EndOf, Shape
<1> PICK En : En = [p \in Pointers |-> EndOf(app.lib[p])]
  OBVIOUS
<1>6. AppMoves(En)
  <2>1. \A p \in Pointers : Advances(p)
    <3> SUFFICES ASSUME NEW p \in Pointers, Live(p)' PROVE Advances(p)
      BY DEF Advances
    <3>1. Live(p) /\ app'.lib[p] = app.lib[p] /\ app.lib[p] \in Statement
      BY <1>0, <1>4, LiveStatement DEF Shape
    <3>2. app.lib[p].n <= app.lib[p].n
      BY <3>1 DEF Statement
    <3> QED BY <3>1, <3>2 DEF Advances
  <2>2. ASSUME NEW x \in app'.truth, x \notin app.truth PROVE \E p \in Pointers : x = En[p] /\ Ends2(p, x)
    <3>1. PICK p \in us : Running(app.lib[p]) /\ x = EndOf(app.lib[p])
      BY <1>2, <2>2
    <3>2. p \in Pointers /\ Live(p) /\ ~Live(p)' /\ x.life = app.lib[p].life /\ x.n = app.lib[p].n /\ x = En[p]
      BY <1>2, <1>5, <3>1 DEF Live
    <3>3. \A y \in app.truth : y.life = x.life => y.n < x.n
      BY <1>0, <3>1, <3>2 DEF AppInv
    <3> QED BY <3>2, <3>3 DEF Ends2
  <2>3. KnownStays /\ \A c \in DOMAIN agent.known : Within(agent.known[c].last)'
    BY <1>0, <1>3 DEF KnownStays, AppInv, Within
  <2>4. agent'.unknown # {} => told'.lossy
    BY <1>0, <1>3 DEF AppInv
  <2> QED BY <1>2, <1>3, <2>1, <2>2, <2>3, <2>4 DEF AppMoves
<1>7. LibFits
  BY <1>4 DEF LibFits
<1>8. AgentMoves(Z, Z)
  <2>1. KnownStays
    BY <1>3 DEF KnownStays
  <2> QED BY <1>0, <1>3, <2>1 DEF AgentMoves, AgentInv
<1> PICK t : t = Null
  OBVIOUS
<1> PICK d, G, low : d = 0 /\ G = {} /\ low = 0
  OBVIOUS
<1> PICK n \in Nat : n = 0
  OBVIOUS
<1>9. t \notin Threads /\ Carry(t, d, G, low, n) /\ \A c : NotEnding(t, low, c)
  BY <1>0, <1>3, IdleCarry DEF NotEnding
<1>10. ASSUME FrameInv', Unharmed, RunInv(Z) PROVE RunInv(Z)'
  <2> PICK cs : cs = {}
    BY Zenon
  <2>1. \A p \in us : Running(app.lib[p]) =>
           /\ app.lib[p].life \in DOMAIN agent.known
           /\ <<app.lib[p].life, app.lib[p].n>> \in Z.begun
    <3> SUFFICES ASSUME NEW p \in us, Running(app.lib[p])
                 PROVE  /\ app.lib[p].life \in DOMAIN agent.known
                        /\ <<app.lib[p].life, app.lib[p].n>> \in Z.begun
      OBVIOUS
    <3> PICK c : c = app.lib[p].life
      OBVIOUS
    <3>1. c \in DOMAIN agent.known /\ Of(c, p) /\ p \in Pointers
      BY <1>2, <1>10 DEF RunInv, Of
    <3>2. Runs(c, Z) /\ Stands(c, app.lib[p])
      BY <1>10, <3>1, Zenon DEF RunInv, Runs
    <3>3. agent.known[c].active # Null /\ app.lib[p].n = agent.known[c].next
      BY <3>2 DEF Stands
    <3> QED BY <3>1, <3>2, <3>3 DEF Runs, Opened
  <2>2. ASSUME NEW c \in DOMAIN agent.known, c \notin cs
        PROVE  /\ Undisturbed(c, Z, Z) /\ NotEnding(t, low, c)
               /\ \A g \in G : g.ctx = c => ~Stepping(g) /\ CallFits(t, g)'
    <3>1. \A p \in Pointers : Of(c, p)' => Of(c, p) /\ app'.lib[p] = app.lib[p]
      BY <1>4 DEF Of
    <3>2. ASSUME NEW x \in app'.truth, x.life = c, x \notin app.truth PROVE <<c, x.n>> \in Z.begun
      <4>1. PICK p \in us : Running(app.lib[p]) /\ x = EndOf(app.lib[p])
        BY <1>2, <3>2
      <4> QED BY <1>5, <2>1, <3>2, <4>1
    <3>3. Undisturbed(c, Z, Z)
      BY <1>2, <1>3, <3>1, <3>2 DEF Undisturbed
    <3> QED BY <1>9, <3>3
  <2>3. ASSUME NEW x \in app'.truth PROVE x \in app.truth \/ x.life \in DOMAIN agent.known
    <3> SUFFICES ASSUME x \notin app.truth PROVE x.life \in DOMAIN agent.known
      OBVIOUS
    <3>1. PICK p \in us : Running(app.lib[p]) /\ x = EndOf(app.lib[p])
      BY <1>2
    <3> QED BY <1>5, <2>1, <3>1
  <2>4. \A p \in Pointers : Live(p)' /\ Running(app'.lib[p]) =>
           app'.lib[p].life \in DOMAIN agent.known
           \/ (Live(p) /\ Running(app.lib[p]) /\ app'.lib[p].life = app.lib[p].life)
    BY <1>4
  <2>5. DOMAIN agent'.known = DOMAIN agent.known /\ \A c \in DOMAIN agent.known : c \in cs => Runs(c, Z)'
    BY <1>3
  <2> QED BY <1>0, <1>9, <1>10, <2>2, <2>3, <2>4, <2>5, RunsKept
<1>11. Sound(Z, H)'
  <2>1. /\ FrameInv' /\ Unharmed' /\ Unharmed /\ Clean(Z) /\ RunInv(Z) /\ Z.told \subseteq app.truth
        => RunInv(Z)' /\ Z.told \subseteq app'.truth
    BY <1>2, <1>10
  <2>2. Unharmed' /\ Clean(Z) => Clean(Z)
    OBVIOUS
  <2>3. /\ t \in Threads => Apart(frames'[t])
        /\ \A g \in G : FrameFits(g)' /\ (g.ctx # Null => H[g.ctx] = g.ptr)
    BY <1>9
  <2>4. Unharmed' => Unharmed
    BY <1>3
  <2> QED BY <1>0, <1>6, <1>7, <1>8, <1>9, <2>1, <2>2, <2>3, <2>4, ActiveSound
<1>12. Steps(0)
  <2>1. ASSUME NEW w \in 0 .. Len(agent.queue), Still(w) PROVE app'.truth = app.truth /\ Still(w - 0)'
    <3>1. w \in Nat /\ n <= w
      OBVIOUS
    <3>2. app'.truth = app.truth
      BY <1>2, <2>1 DEF Still
    <3>3. \A g \in G : Stepping(g) => g.behind > w - n
      OBVIOUS
    <3>4. \A p \in Pointers : Live(p)' => \/ Live(p) /\ app'.lib[p].runner = app.lib[p].runner
                                          \/ app'.lib[p].runner = Null
      BY <1>4
    <3>5. \A c \in DOMAIN agent'.known : agent'.known[c].active # Null =>
              \/ /\ c \in DOMAIN agent.known /\ agent.known[c].active # Null
                 /\ agent'.known[c].owner = agent.known[c].owner
              \/ t \in Threads /\ agent'.known[c].owner = t /\ WaitsFor(t, w - n)'
      BY <1>3
    <3>6. t \in Threads => ~WaitsFor(t, n)
      BY <1>9
    <3>7. Still(w - n)'
      BY <1>0, <1>9, <2>1, <3>1, <3>3, <3>4, <3>5, <3>6, StillKept
    <3> QED BY <3>2, <3>7
  <2> QED BY <1>2, <1>3, <2>1, StepsOnce
<1>13. Stream' = Stream
  BY <1>0, <1>3, StreamStays, QueueOnly
<1> QED BY <1>0, <1>11, <1>12, <1>13, NoRecord

\* The process ends where it is; the first n of the queued records arrive.
Quits(n) == /\ \A p \in Pointers : ~Live(p)'
            /\ app.truth \subseteq app'.truth
            /\ \A x \in app'.truth : x \in app.truth \/ \E p \in Pointers : Live(p) /\ Running(app.lib[p]) /\ x = EndOf(app.lib[p])
            /\ app'.lives = app.lives /\ app'.used = app.used /\ app'.exited
            /\ agent'.known = agent.known /\ agent'.unknown = agent.unknown /\ agent'.contexts = agent.contexts
            /\ agent'.partial = agent.partial /\ agent'.queue = << >> /\ told' = told
            /\ frames' = [t \in Threads |-> << >>] /\ wire' = SubSeq(agent.queue, 1, n)

LEMMA ExitQuits ==
    ASSUME Inv, Aside, wire = << >>, NEW n \in 0 .. Len(agent.queue), NEW heard, Exit(n, heard), Whole',
           heard = told \/ \E e \in unheard : heard = e.told
    PROVE  Quits(n)
<1>0. Shape /\ AppOK /\ AgentOK
  BY DEF Inv, Shape
<1> PICK es, lib : /\ es = UNION {Ended(app.lib[p]) : p \in Pointers}
                   /\ lib = [p \in Pointers |-> NoStatement]
  OBVIOUS
<1>1. /\ app' = [app EXCEPT !.exited = TRUE, !.lib = lib, !.truth = @ \cup es]
      /\ frames' = [t \in Threads |-> << >>] /\ wire' = wire \o SubSeq(agent.queue, 1, n)
      /\ agent' = [agent EXCEPT !.queue = << >>] /\ told' = heard
      /\ unheard' = IF heard = told THEN {} ELSE unheard
  BY DEF Exit, Arrive
<1>2. app'.lib = lib /\ app'.truth = app.truth \cup es /\ app'.lives = app.lives /\ app'.used = app.used /\ app'.exited
  BY <1>0, <1>1 DEF AppOK
<1>3. /\ agent'.known = agent.known /\ agent'.unknown = agent.unknown /\ agent'.contexts = agent.contexts
      /\ agent'.partial = agent.partial /\ agent'.queue = << >>
  BY <1>0, <1>1 DEF AgentOK
<1>4. wire' = SubSeq(agent.queue, 1, n)
  <2> PICK s : s = SubSeq(agent.queue, 1, n)
    OBVIOUS
  <2>1. s \in Seq(Event)
    BY <1>0 DEF Shape, RecordsOK
  <2>2. << >> \o s = s
    BY <2>1
  <2> QED BY <1>1, <2>2
<1>5. \A p \in Pointers : ~Live(p)'
  BY <1>2 DEF Live
<1>6. ASSUME NEW x \in app'.truth, x \notin app.truth
      PROVE  \E p \in Pointers : Live(p) /\ Running(app.lib[p]) /\ x = EndOf(app.lib[p])
  <2>1. PICK p \in Pointers : x \in Ended(app.lib[p])
    BY <1>2, <1>6
  <2>2. Live(p) /\ Running(app.lib[p]) /\ x = EndOf(app.lib[p])
    BY <2>1 DEF Ended, EndOf, Live
  <2> QED BY <2>2
<1>7. told' = told
  BY <1>1, <1>2 DEF Whole, Heard
<1> QED BY <1>1, <1>2, <1>3, <1>4, <1>5, <1>6, <1>7 DEF Quits

LEMMA ExitTrue ==
    ASSUME Inv, Inv', Aside, ~app.exited, wire = << >>,
           UNCHANGED <<active, begun, cited, quality, finished, occurrences, lifeOf>>,
           NEW J, NEW H, TruthInv(J, H), Whole', NEW n \in 0 .. Len(agent.queue), NEW heard, Exit(n, heard),
           heard = told \/ \E e \in unheard : heard = e.told
    PROVE  \E K : TruthInv(K, H)'
<1> PICK q : q = agent.queue
  OBVIOUS
<1>0. /\ AppInv /\ Stream = q /\ q \in Seq(Event) /\ Len(q) \in Nat /\ Len(wire) = 0 /\ Follows(J, q)
      /\ n \in 0 .. Len(q) /\ n \in Nat /\ setting' = setting
  BY QueueOnly DEF TruthInv, Aside
<1>1. Quits(n)
  BY ExitQuits
<1>2. /\ \A p \in Pointers : ~Live(p)'
      /\ app.truth \subseteq app'.truth
      /\ \A x \in app'.truth : x \in app.truth \/ \E p \in Pointers : Live(p) /\ Running(app.lib[p]) /\ x = EndOf(app.lib[p])
      /\ app'.lives = app.lives /\ app'.used = app.used /\ app'.exited
  BY <1>1 DEF Quits
<1>3. /\ agent'.known = agent.known /\ agent'.unknown = agent.unknown /\ agent'.contexts = agent.contexts
      /\ agent'.partial = agent.partial /\ agent'.queue = << >> /\ told' = told
      /\ \A t \in Threads : frames'[t] = << >>
      /\ wire' = SubSeq(q, 1, n)
  BY <1>1 DEF Quits
<1> PICK En : En = [p \in Pointers |-> EndOf(app.lib[p])]
  OBVIOUS
<1>4. AppMoves(En)
  <2>1. ASSUME NEW x \in app'.truth, x \notin app.truth PROVE \E p \in Pointers : x = En[p] /\ Ends2(p, x)
    <3>1. PICK p \in Pointers : Live(p) /\ Running(app.lib[p]) /\ x = EndOf(app.lib[p])
      BY <1>2, <2>1
    <3>2. ~Live(p)' /\ x.life = app.lib[p].life /\ x.n = app.lib[p].n /\ x = En[p]
      BY <1>2, <3>1 DEF EndOf
    <3>3. \A y \in app.truth : y.life = x.life => y.n < x.n
      BY <1>0, <3>1, <3>2 DEF AppInv
    <3> QED BY <3>1, <3>2, <3>3 DEF Ends2
  <2>2. KnownStays /\ \A c \in DOMAIN agent.known : Within(agent.known[c].last)'
    BY <1>0, <1>3 DEF KnownStays, AppInv, Within
  <2>3. \A p \in Pointers : Advances(p)
    BY <1>2 DEF Advances
  <2> QED BY <1>0, <1>2, <1>3, <2>1, <2>2, <2>3 DEF AppMoves, AppInv
<1>5. AppInv'
  BY <1>0, <1>4, AppKept
<1>6. FrameInv'
  <2>1. \A t \in Threads : DOMAIN frames'[t] = {}
    BY <1>3
  <2>2. \A t \in Threads : Apart(frames'[t])
    BY <2>1 DEF Apart
  <2> QED BY <2>1, <2>2 DEF FrameInv
<1>7. PICK K : Follows(K, SubSeq(q, 1, n)) /\ \A k \in 0 .. n : K[k] = J[k]
  BY <1>0, FollowsLess
<1>8. Stream' = SubSeq(q, 1, n) /\ Len(Stream') = n /\ Len(wire') = n
  <2> PICK s : s = SubSeq(q, 1, n)
    OBVIOUS
  <2>1. s \in Seq(Event) /\ Len(s) = n /\ s \o << >> = s
    BY <1>0
  <2> QED BY <1>3, <2>1 DEF Stream
<1>9. Unharmed' <=> Unharmed
  BY <1>3 DEF Unharmed
<1>10. ASSUME Unharmed', NEW k \in 0 .. n PROVE PartInv(K[k], k)'
  <2> PICK S : S = J[k]
    OBVIOUS
  <2>1. K[k] = S /\ PartInv(S, k) /\ k \in Nat /\ k >= Len(wire)
    BY <1>0, <1>7, <1>9, <1>10 DEF TruthInv
  <2>2. Clean(S) => S.told \subseteq app'.truth
    BY <1>2, <2>1 DEF PartInv
  <2>3. ASSUME Settled(S) PROVE \A x \in app'.truth : HasTold(S, <<x.life, x.n>>)
    <3>1. /\ \A x \in app.truth : HasTold(S, <<x.life, x.n>>)
          /\ \A w \in 0 .. k : w = k - 0 => Still(w)
      BY <1>0, <2>1, <2>3 DEF PartInv
    <3>2. Still(k)
      BY <2>1, <3>1
    <3>3. app'.truth = app.truth
      BY <1>2, <3>2 DEF Still
    <3> QED BY <3>1, <3>3
  <2>4. PartInv(S, k)'
    BY <1>2, <2>2, <2>3 DEF PartInv
  <2> QED BY <2>1, <2>4
<1>11. TrackerInv' /\ Book(K[0])'
  <2>1. ~finished
    BY DEF TruthInv, TrackerInv
  <2>2. TrackerInv'
    BY <1>3, <2>1 DEF TruthInv, TrackerInv
  <2>3. K[0] = J[0]
    BY <1>0, <1>7
  <2>4. Book(J[0])'
    BY DEF TruthInv, Book
  <2> QED BY <2>2, <2>3, <2>4
<1>12. TruthInv(K, H)'
  BY <1>2, <1>5, <1>6, <1>7, <1>8, <1>10, <1>11 DEF TruthInv
<1> QED BY <1>12

-----------------------------------------------------------------------------
(* What the tracker makes of a record that it consumes. *)

\* What its counters say was lost to it.
LosesOne(q) == q["unmatched"] > 0 \/ q["null_metric"] > 0
Misses(e) == \/ e.type \in {"started", "executed"} /\ ~Tracker!Matches(e.ptr, e.module)
             \/ e.type = "executed" /\ e.value = Null
Hits(e, type) == e.type = type /\ Tracker!Matches(e.ptr, e.module)
Keeps(p) == /\ active'[p].occurrence = active[p].occurrence /\ active'[p].source = active[p].source
Takes(e) ==
    /\ begun' = begun \cup IF Hits(e, "started") THEN {<<active[e.ptr].occurrence, e.number>>} ELSE {}
    /\ cited' = cited \cup IF Hits(e, "executed") THEN {Tracker!Told(active[e.ptr], e.number, e.value)} ELSE {}
    /\ finished' = finished /\ ~finished
    /\ LosesOne(quality') <=> (LosesOne(quality) \/ Misses(e))
    /\ e.type = "prepared" =>
          /\ occurrences' = occurrences + 1 /\ DOMAIN active' = DOMAIN active \cup {e.ptr}
          /\ active'[e.ptr].occurrence = occurrences + 1 /\ active'[e.ptr].source = e.module
          /\ \A p \in DOMAIN active : p # e.ptr => Keeps(p)
    /\ e.type # "prepared" =>
          /\ occurrences' = occurrences /\ \A p \in DOMAIN active' : p \in DOMAIN active /\ Keeps(p)
          /\ DOMAIN active' = IF Hits(e, "finalized") THEN DOMAIN active \ {e.ptr} ELSE DOMAIN active

LEMMA Counting ==
    ASSUME quality \in [Tracker!Counters -> Nat], NEW ns, quality' = Tracker!Count(ns)
    PROVE  LosesOne(quality') <=> (LosesOne(quality) \/ "unmatched" \in ns \/ "null_metric" \in ns)
<1>1. "unmatched" \in Tracker!Counters /\ "null_metric" \in Tracker!Counters
  BY DEF Tracker!Counters
<1>2. ASSUME NEW c \in Tracker!Counters PROVE quality'[c] > 0 <=> (quality[c] > 0 \/ c \in ns)
  <2>1. quality'[c] = quality[c] + IF c \in ns THEN 1 ELSE 0
    BY DEF Tracker!Count
  <2>2. quality[c] \in Nat
    OBVIOUS
  <2> QED BY <2>1, <2>2
<1> QED BY <1>1, <1>2 DEF LosesOne

LEMMA Flushing ==
    ASSUME quality \in [Tracker!Counters -> Nat], NEW ps, Tracker!Flush(ps)
    PROVE  LosesOne(quality') <=> LosesOne(quality)
<1>1. "unmatched" \in Tracker!Counters /\ "null_metric" \in Tracker!Counters
  BY DEF Tracker!Counters
<1>2. quality'["unmatched"] = quality["unmatched"] /\ quality'["null_metric"] = quality["null_metric"]
  <2> PICK n : quality' = [quality EXCEPT !["unfinished"] = n]
    BY DEF Tracker!Flush
  <2> QED BY <1>1
<1> QED BY <1>2 DEF LosesOne

LEMMA PreparedTakes ==
    ASSUME quality \in [Tracker!Counters -> Nat], NEW e, e.type = "prepared", Tracker!Prepared(e.ptr, e.module, "whole")
    PROVE  Takes(e)
<1>1. /\ begun' = begun /\ cited' = cited /\ finished' = finished /\ ~finished /\ occurrences' = occurrences + 1
      /\ Tracker!Flush({e.ptr} \cap DOMAIN active)
  BY DEF Tracker!Prepared, Tracker!Consume, Tracker!history
<1>2. LosesOne(quality') <=> LosesOne(quality)
  BY <1>1, Flushing
<1>3. ~Misses(e) /\ ~Hits(e, "started") /\ ~Hits(e, "executed")
  BY DEF Misses, Hits
<1> PICK r : r = [occurrence |-> occurrences + 1, source |-> e.module, capture |-> "whole", pending |-> << >>,
                  started |-> << >>, committed |-> 0]
  OBVIOUS
<1>4. active' = Tracker!Put(active, e.ptr, r)
  BY DEF Tracker!Prepared
<1>5. /\ DOMAIN active' = DOMAIN active \cup {e.ptr} /\ active'[e.ptr] = r
      /\ \A p \in DOMAIN active : p # e.ptr => active'[p] = active[p]
  BY <1>4 DEF Tracker!Put
<1> QED BY <1>1, <1>2, <1>3, <1>5 DEF Takes, Keeps

LEMMA FinalizedTakes ==
    ASSUME quality \in [Tracker!Counters -> Nat], NEW e, e.type = "finalized", Tracker!Finalized(e.ptr, e.module)
    PROVE  Takes(e)
<1>1. /\ begun' = begun /\ cited' = cited /\ finished' = finished /\ ~finished /\ occurrences' = occurrences
  BY DEF Tracker!Finalized, Tracker!Consume, Tracker!history
<1>2. ~Misses(e) /\ ~Hits(e, "started") /\ ~Hits(e, "executed")
  BY DEF Misses, Hits
<1>3. CASE Tracker!Matches(e.ptr, e.module)
  <2>1. Tracker!Flush({e.ptr}) /\ active' = Tracker!Drop(active, {e.ptr})
    BY <1>3 DEF Tracker!Finalized, Tracker!Forget
  <2>2. LosesOne(quality') <=> LosesOne(quality)
    BY <2>1, Flushing
  <2>3. DOMAIN active' = DOMAIN active \ {e.ptr} /\ \A p \in DOMAIN active' : active'[p] = active[p]
    BY <2>1 DEF Tracker!Drop
  <2>4. Hits(e, "finalized")
    BY <1>3 DEF Hits
  <2> QED BY <1>1, <1>2, <2>2, <2>3, <2>4 DEF Takes, Keeps
<1>4. CASE ~Tracker!Matches(e.ptr, e.module)
  <2>1. active' = active /\ quality' = quality /\ ~Hits(e, "finalized")
    BY <1>4 DEF Tracker!Finalized, Hits
  <2> QED BY <1>1, <1>2, <2>1 DEF Takes, Keeps, LosesOne
<1> QED BY <1>3, <1>4

LEMMA StartedTakes ==
    ASSUME quality \in [Tracker!Counters -> Nat], NEW e, e.type = "started",
           \A p \in DOMAIN active : active[p] \in Tracker!Lifetime,
           \/ Tracker!Started(e.ptr, e.module, e.number, e.value)
           \/ Tracker!StartedUnmatched(e.ptr, e.module)
    PROVE  Takes(e)
<1>1. /\ cited' = cited /\ finished' = finished /\ ~finished /\ occurrences' = occurrences
      /\ ~Hits(e, "executed") /\ ~Hits(e, "finalized")
  BY DEF Tracker!Started, Tracker!StartedUnmatched, Tracker!Consume, Tracker!history, Hits
<1> PICK p, l : p = e.ptr /\ l = active[p]
  OBVIOUS
<1>2. CASE Tracker!Started(e.ptr, e.module, e.number, e.value)
  <2>1. /\ Tracker!Matches(p, e.module) /\ begun' = begun \cup {<<l.occurrence, e.number>>}
        /\ \/ active' = active
           \/ active' = [active EXCEPT ![p].started = Tracker!Put(l.started, e.number, e.value)]
    BY <1>2 DEF Tracker!Started
  <2>2. quality' = quality \/ quality' = Tracker!Count({"duplicate"}) \/ quality' = Tracker!Count({"conflicted"})
    BY <1>2 DEF Tracker!Started
  <2>3. LosesOne(quality') <=> LosesOne(quality)
    <3> PICK a, b : a = {"duplicate"} /\ b = {"conflicted"}
      OBVIOUS
    <3>1. "unmatched" \notin a /\ "null_metric" \notin a /\ "unmatched" \notin b /\ "null_metric" \notin b
      OBVIOUS
    <3>2. quality' = Tracker!Count(a) => (LosesOne(quality') <=> LosesOne(quality))
      BY <3>1, Counting
    <3>3. quality' = Tracker!Count(b) => (LosesOne(quality') <=> LosesOne(quality))
      BY <3>1, Counting
    <3> QED BY <2>2, <3>2, <3>3
  <2>4. p \in DOMAIN active /\ l \in Tracker!Lifetime
    BY <2>1 DEF Tracker!Matches
  <2>5. DOMAIN active' = DOMAIN active /\ \A q \in DOMAIN active : Keeps(q)
    <3>1. CASE active' = active
      BY <3>1 DEF Keeps
    <3>2. CASE active' = [active EXCEPT ![p].started = Tracker!Put(l.started, e.number, e.value)]
      <4> PICK m : m = [l EXCEPT !.started = Tracker!Put(l.started, e.number, e.value)]
        OBVIOUS
      <4>1. m.occurrence = l.occurrence /\ m.source = l.source
        BY <2>4 DEF Tracker!Lifetime
      <4>2. active' = [active EXCEPT ![p] = m]
        BY <3>2
      <4> QED BY <2>4, <4>1, <4>2 DEF Keeps
    <3> QED BY <2>1, <3>1, <3>2
  <2>6. ~Misses(e) /\ Hits(e, "started")
    BY <2>1 DEF Misses, Hits
  <2> QED BY <1>1, <2>1, <2>3, <2>5, <2>6 DEF Takes
<1>3. CASE Tracker!StartedUnmatched(e.ptr, e.module)
  <2>1. /\ ~Tracker!Matches(p, e.module) /\ begun' = begun /\ active' = active
        /\ quality' = Tracker!Count({"unmatched"})
    BY <1>3 DEF Tracker!StartedUnmatched, Tracker!history
  <2>2. LosesOne(quality')
    <3> PICK a : a = {"unmatched"}
      OBVIOUS
    <3> QED BY <2>1, Counting
  <2>3. Misses(e) /\ ~Hits(e, "started")
    BY <2>1 DEF Misses, Hits
  <2> QED BY <1>1, <2>1, <2>2, <2>3 DEF Takes, Keeps
<1> QED BY <1>2, <1>3

\* The parts of a lifetime that tell executions apart, whatever a report does to it.
SameLife(l, m) == m.occurrence = l.occurrence /\ m.source = l.source

LEMMA ReplacesLife ==
    ASSUME NEW p \in DOMAIN active, NEW m, SameLife(active[p], m), active' = [active EXCEPT ![p] = m]
    PROVE  DOMAIN active' = DOMAIN active /\ \A q \in DOMAIN active : Keeps(q)
BY DEF Keeps, SameLife

LEMMA LifeParts ==
    ASSUME NEW l \in Tracker!Lifetime
    PROVE  /\ \A s : SameLife(l, [l EXCEPT !.started = s])
           /\ \A s, q : SameLife(l, [l EXCEPT !.started = s, !.pending = q])
           /\ \A s, q, c : /\ SameLife(l, [[l EXCEPT !.started = s] EXCEPT !.pending = q, !.committed = c])
                           /\ SameLife(l, [[l EXCEPT !.started = s] EXCEPT !.pending = q])
BY DEF SameLife, Tracker!Lifetime

LEMMA ExecutedTakes ==
    ASSUME quality \in [Tracker!Counters -> Nat], NEW e, e.type = "executed", e.value \in Counts \cup {Null},
           \A p \in DOMAIN active : active[p] \in Tracker!Lifetime,
           \/ Tracker!ExecutedUnmatched(e.ptr, e.module, e.value)
           \/ Tracker!ExecutedFirst(e.ptr, e.module, e.number, e.value)
           \/ Tracker!ExecutedAgain(e.ptr, e.module, e.number, e.value)
           \/ Tracker!ExecutedLate(e.ptr, e.module, e.number, e.value)
    PROVE  Takes(e)
<1>a. PICK p, l, n, v : p = e.ptr /\ l = active[p] /\ n = e.number /\ v = e.value
  OBVIOUS
<1>0. "null_metric" \in Tracker!Seen(v) <=> v = Null
  <2>1. Null \notin Counts
    BY NullAssumption DEF Counts
  <2> QED BY <1>a, <2>1 DEF Tracker!Seen
<1>1. "unmatched" \notin Tracker!Seen(v) /\ ~Hits(e, "started") /\ ~Hits(e, "finalized")
  BY DEF Tracker!Seen, Hits
<1>2. CASE Tracker!ExecutedUnmatched(e.ptr, e.module, e.value)
  <2>1. /\ ~Tracker!Matches(p, e.module) /\ UNCHANGED <<active, occurrences, finished, cited, begun>> /\ ~finished
        /\ quality' = Tracker!Count(Tracker!Seen(v) \cup {"unmatched"})
    BY <1>2, <1>a DEF Tracker!ExecutedUnmatched, Tracker!history, Tracker!Consume
  <2>2. LosesOne(quality')
    <3> PICK a : a = Tracker!Seen(v) \cup {"unmatched"}
      OBVIOUS
    <3>1. "unmatched" \in a
      OBVIOUS
    <3> QED BY <2>1, <3>1, Counting
  <2>3. Misses(e) /\ ~Hits(e, "executed")
    BY <2>1, <1>a DEF Misses, Hits
  <2> QED BY <1>1, <1>a, <2>1, <2>2, <2>3 DEF Takes, Keeps
<1>3. CASE ~Tracker!ExecutedUnmatched(e.ptr, e.module, e.value)
  <2>1. Tracker!Executed(p, e.module, n, v)
    BY <1>3, <1>a DEF Tracker!ExecutedFirst, Tracker!ExecutedAgain, Tracker!ExecutedLate
  <2>2. /\ Tracker!Matches(p, e.module) /\ cited' = cited \cup {Tracker!Told(l, n, v)} /\ ~finished
        /\ UNCHANGED <<occurrences, finished, begun>> /\ p \in DOMAIN active /\ l \in Tracker!Lifetime
    BY <2>1, <1>a DEF Tracker!Executed, Tracker!Consume, Tracker!Matches
  <2>3. (Misses(e) <=> v = Null) /\ Hits(e, "executed")
    BY <2>2, <1>a DEF Misses, Hits
  <2>4. LosesOne(quality') <=> (LosesOne(quality) \/ v = Null)
    <3>1. \E a : /\ quality' = Tracker!Count(Tracker!Seen(v) \cup a) /\ "unmatched" \notin a /\ "null_metric" \notin a
      <4>1. ASSUME Tracker!ExecutedFirst(e.ptr, e.module, e.number, e.value)
            PROVE  \E a : /\ quality' = Tracker!Count(Tracker!Seen(v) \cup a) /\ "unmatched" \notin a /\ "null_metric" \notin a
        <5>a. PICK a : a = Tracker!Excluded(l)
          OBVIOUS
        <5>1. quality' = Tracker!Count(Tracker!Seen(v) \cup a)
          BY <4>1, <5>a, <1>a, Zenon DEF Tracker!ExecutedFirst
        <5>2. "unmatched" \notin a /\ "null_metric" \notin a
          BY <5>a DEF Tracker!Excluded
        <5> QED BY <5>1, <5>2
      <4>2. ASSUME Tracker!ExecutedAgain(e.ptr, e.module, e.number, e.value)
            PROVE  \E a : /\ quality' = Tracker!Count(Tracker!Seen(v) \cup a) /\ "unmatched" \notin a /\ "null_metric" \notin a
        <5>1. PICK b : quality' = Tracker!Count(Tracker!Seen(v) \cup {IF b THEN "duplicate" ELSE "conflicted"})
          BY <4>2, <1>a DEF Tracker!ExecutedAgain
        <5>a. PICK a : a = {IF b THEN "duplicate" ELSE "conflicted"}
          OBVIOUS
        <5>2. "unmatched" \notin a /\ "null_metric" \notin a
          BY <5>a
        <5> QED BY <5>1, <5>a, <5>2
      <4>3. ASSUME Tracker!ExecutedLate(e.ptr, e.module, e.number, e.value)
            PROVE  \E a : /\ quality' = Tracker!Count(Tracker!Seen(v) \cup a) /\ "unmatched" \notin a /\ "null_metric" \notin a
        <5>a. PICK a : a = {"conflicted"}
          OBVIOUS
        <5>1. quality' = Tracker!Count(Tracker!Seen(v) \cup a)
          BY <4>3, <5>a, <1>a DEF Tracker!ExecutedLate
        <5>2. "unmatched" \notin a /\ "null_metric" \notin a
          BY <5>a
        <5> QED BY <5>1, <5>2
      <4> QED BY <1>3, <4>1, <4>2, <4>3
    <3>2. PICK a : /\ quality' = Tracker!Count(Tracker!Seen(v) \cup a) /\ "unmatched" \notin a /\ "null_metric" \notin a
      BY <3>1
    <3>a. PICK ns : ns = Tracker!Seen(v) \cup a
      OBVIOUS
    <3>3. ("null_metric" \in ns <=> v = Null) /\ "unmatched" \notin ns /\ quality' = Tracker!Count(ns)
      BY <1>0, <1>1, <3>2, <3>a
    <3> QED BY <3>3, Counting
  <2>5. \E m : SameLife(l, m) /\ active' = [active EXCEPT ![p] = m]
    <3>a. PICK s : s = Tracker!Drop(l.started, {n})
      OBVIOUS
    <3>1. ASSUME Tracker!ExecutedFirst(e.ptr, e.module, e.number, e.value)
          PROVE  \E m : SameLife(l, m) /\ active' = [active EXCEPT ![p] = m]
      <4>a. PICK k : k = [l EXCEPT !.started = s]
        OBVIOUS
      <4>1. \/ \E q, c : active' = [active EXCEPT ![p] = [k EXCEPT !.pending = q, !.committed = c]]
            \/ \E q : active' = [active EXCEPT ![p] = [k EXCEPT !.pending = q]]
        <5>a. PICK w : w = Append(l.pending, Tracker!NewEntry(l, n, v))
          OBVIOUS
        <5>1. CASE Tracker!Overflows(w)
          <6>1. active' = [active EXCEPT ![p] = [k EXCEPT !.pending = Tail(w),
                                                          !.committed = Tracker!Max2(l.committed, Head(w).number)]]
            BY <3>1, <5>1, <1>a, <3>a, <4>a, <5>a, Zenon DEF Tracker!ExecutedFirst
          <6> QED BY <6>1
        <5>2. CASE ~Tracker!Overflows(w)
          <6>1. active' = [active EXCEPT ![p] = [k EXCEPT !.pending = w]]
            BY <3>1, <5>2, <1>a, <3>a, <4>a, <5>a, Zenon DEF Tracker!ExecutedFirst
          <6> QED BY <6>1
        <5> QED BY <5>1, <5>2
      <4>2. /\ \A q, c : SameLife(l, [k EXCEPT !.pending = q, !.committed = c])
            /\ \A q : SameLife(l, [k EXCEPT !.pending = q])
        BY <2>2, <4>a, LifeParts
      <4> QED BY <4>1, <4>2
    <3>2. ASSUME Tracker!ExecutedAgain(e.ptr, e.module, e.number, e.value)
          PROVE  \E m : SameLife(l, m) /\ active' = [active EXCEPT ![p] = m]
      <4>1. PICK q : active' = [active EXCEPT ![p] = [l EXCEPT !.started = s, !.pending = q]]
        BY <3>2, <1>a, <3>a, Zenon DEF Tracker!ExecutedAgain
      <4>2. SameLife(l, [l EXCEPT !.started = s, !.pending = q])
        BY <2>2, LifeParts
      <4> QED BY <4>1, <4>2
    <3>3. ASSUME Tracker!ExecutedLate(e.ptr, e.module, e.number, e.value)
          PROVE  \E m : SameLife(l, m) /\ active' = [active EXCEPT ![p] = m]
      <4>a. PICK m : m = [l EXCEPT !.started = s]
        OBVIOUS
      <4>1. active' = [active EXCEPT ![p] = m]
        BY <3>3, <1>a, <3>a, <4>a DEF Tracker!ExecutedLate
      <4>2. SameLife(l, m)
        BY <2>2, <4>a, LifeParts
      <4> QED BY <4>1, <4>2
    <3> QED BY <1>3, <3>1, <3>2, <3>3
  <2>6. DOMAIN active' = DOMAIN active /\ \A q \in DOMAIN active : Keeps(q)
    BY <2>2, <2>5, <1>a, ReplacesLife
  <2> QED BY <1>1, <1>a, <2>2, <2>3, <2>4, <2>6 DEF Takes
<1> QED BY <1>2, <1>3

LEMMA ConsumeTakes ==
    ASSUME Inv, Tracker!TypeOK, Consume, NEW e, e = Head(wire)
    PROVE  Takes(e) /\ e \in Event
<1>1. e \in Event /\ Consumes(e)
  BY ConsumeShape DEF Inv, Consume
<1>2. quality \in [Tracker!Counters -> Nat] /\ \A p \in DOMAIN active : active[p] \in Tracker!Lifetime
  BY DEF Tracker!TypeOK
<1>3. e.type = "executed" => e.value \in Counts \cup {Null}
  BY <1>1, EventFields
<1>4. CASE e.type = "prepared"
  <2>1. Tracker!Prepared(e.ptr, e.module, "whole")
    BY <1>1, <1>4 DEF Consumes
  <2> QED BY <1>1, <1>2, <1>4, <2>1, PreparedTakes
<1>5. CASE e.type = "started"
  <2>1. \/ Tracker!Started(e.ptr, e.module, e.number, e.value)
        \/ Tracker!StartedUnmatched(e.ptr, e.module)
    BY <1>1, <1>5 DEF Consumes
  <2> QED BY <1>1, <1>2, <1>5, <2>1, StartedTakes
<1>6. CASE e.type = "executed"
  <2>1. \/ Tracker!ExecutedUnmatched(e.ptr, e.module, e.value)
        \/ Tracker!ExecutedFirst(e.ptr, e.module, e.number, e.value)
        \/ Tracker!ExecutedAgain(e.ptr, e.module, e.number, e.value)
        \/ Tracker!ExecutedLate(e.ptr, e.module, e.number, e.value)
    BY <1>1, <1>6 DEF Consumes
  <2> QED BY <1>1, <1>2, <1>3, <1>6, <2>1, ExecutedTakes
<1>7. CASE e.type = "finalized"
  <2>1. Tracker!Finalized(e.ptr, e.module)
    BY <1>1, <1>7 DEF Consumes
  <2> QED BY <1>1, <1>2, <1>7, <2>1, FinalizedTakes
<1> QED BY <1>1, <1>4, <1>5, <1>6, <1>7 DEF Consumes

\* The statements that the tracker has numbered, as the history names them.
Names(e) ==
    /\ lifeOf' = IF e.type = "prepared" THEN Append(lifeOf, e.number) ELSE lifeOf
    /\ lifeOf \in Seq(DOMAIN agent.known)

LEMMA NamesStay ==
    ASSUME TrackerInv, NEW e, Names(e), Takes(e)
    PROVE  /\ occurrences \in Nat /\ Len(lifeOf') = occurrences'
           /\ \A i \in 1 .. occurrences : lifeOf'[i] = lifeOf[i] /\ i \in 1 .. occurrences'
           /\ e.type = "prepared" => lifeOf'[occurrences + 1] = e.number /\ occurrences + 1 \in 1 .. occurrences'
<1>1. occurrences = Len(lifeOf) /\ occurrences \in Nat
  BY DEF TrackerInv, Names
<1>2. CASE e.type = "prepared"
  <2> PICK s, n : s = lifeOf /\ n = e.number
    OBVIOUS
  <2>1. lifeOf' = Append(s, n) /\ s \in Seq(DOMAIN agent.known) /\ occurrences' = occurrences + 1
    BY <1>2 DEF Names, Takes
  <2>2. Len(Append(s, n)) = Len(s) + 1 /\ Append(s, n)[Len(s) + 1] = n
        /\ \A i \in 1 .. Len(s) : Append(s, n)[i] = s[i]
    BY <2>1
  <2> QED BY <1>1, <1>2, <2>1, <2>2
<1>3. CASE e.type # "prepared"
  BY <1>1, <1>3 DEF Names, Takes
<1> QED BY <1>2, <1>3

LEMMA TrackerMoves ==
    ASSUME TrackerInv, NEW e, Names(e), Takes(e), UNCHANGED <<app, agent>>
    PROVE  TrackerInv'
<1>1. /\ occurrences \in Nat /\ Len(lifeOf') = occurrences'
      /\ \A i \in 1 .. occurrences : i \in 1 .. occurrences'
      /\ e.type = "prepared" => occurrences + 1 \in 1 .. occurrences'
  BY NamesStay
<1>2. ASSUME NEW p \in DOMAIN active' PROVE active'[p].occurrence \in 1 .. occurrences'
  <2>1. CASE e.type = "prepared"
    BY <1>1, <1>2, <2>1 DEF Takes, Keeps, TrackerInv
  <2>2. CASE e.type # "prepared"
    BY <1>1, <1>2, <2>2 DEF Takes, Keeps, TrackerInv
  <2> QED BY <2>1, <2>2
<1>3. ASSUME NEW b \in begun' PROVE b[1] \in 1 .. occurrences'
  <2>1. CASE b \in begun
    BY <1>1, <2>1 DEF TrackerInv
  <2>2. CASE b \notin begun
    <3>1. Hits(e, "started") /\ b = <<active[e.ptr].occurrence, e.number>>
      BY <2>2 DEF Takes
    <3>2. e.ptr \in DOMAIN active
      BY <3>1 DEF Hits, Tracker!Matches
    <3> QED BY <1>1, <3>1, <3>2 DEF TrackerInv
  <2> QED BY <2>1, <2>2
<1>4. ASSUME NEW x \in cited' PROVE x.occurrence \in 1 .. occurrences'
  <2>1. CASE x \in cited
    BY <1>1, <2>1 DEF TrackerInv
  <2>2. CASE x \notin cited
    <3>1. Hits(e, "executed") /\ x = Tracker!Told(active[e.ptr], e.number, e.value)
      BY <2>2 DEF Takes
    <3>2. e.ptr \in DOMAIN active /\ x.occurrence = active[e.ptr].occurrence
      BY <3>1 DEF Hits, Tracker!Matches, Tracker!Told
    <3> QED BY <1>1, <3>2 DEF TrackerInv
  <2> QED BY <2>1, <2>2
<1>5. ~finished'
  BY DEF Takes
<1> QED BY <1>1, <1>2, <1>3, <1>4, <1>5 DEF TrackerInv

LEMMA BookMoves ==
    ASSUME TrackerInv, NEW e, Names(e), Takes(e), NEW S, Book(S), NEW A, A = After(S, e)
    PROVE  Book(A)'
<1> PICK p, M : p = e.ptr /\ M = Matched(S, e)
  OBVIOUS
<1>0. /\ occurrences \in Nat
      /\ \A i \in 1 .. occurrences : lifeOf'[i] = lifeOf[i]
      /\ e.type = "prepared" => lifeOf'[occurrences + 1] = e.number
  BY NamesStay
<1>1. /\ S.begun = {<<lifeOf[b[1]], b[2]>> : b \in begun}
      /\ S.told  = {[life |-> lifeOf[x.occurrence], n |-> x.number, work |-> x.report] : x \in cited}
      /\ S.lost <=> LosesOne(quality)
      /\ DOMAIN S.cur = DOMAIN active
      /\ \A q \in DOMAIN active : S.cur[q] = [life |-> lifeOf[active[q].occurrence], module |-> active[q].source]
  BY DEF Book, LosesOne, Takes
<1>3. ASSUME NEW q \in DOMAIN active
      PROVE  S.cur[q].life = lifeOf'[active[q].occurrence] /\ S.cur[q].module = active[q].source
  <2>1. S.cur[q] = [life |-> lifeOf[active[q].occurrence], module |-> active[q].source]
    BY <1>1
  <2>2. active[q].occurrence \in 1 .. occurrences
    BY DEF TrackerInv
  <2> QED BY <1>0, <2>1, <2>2
<1>2. Matched(S, e) <=> Tracker!Matches(p, e.module)
  BY <1>1, <1>3 DEF Matched, Tracker!Matches
<1>4. A.begun = {<<lifeOf'[b[1]], b[2]>> : b \in begun'}
  <2>1. S.begun = {<<lifeOf'[b[1]], b[2]>> : b \in begun}
    BY <1>0, <1>1 DEF TrackerInv
  <2>2. CASE Hits(e, "started")
    <3> PICK z : z = <<active[p].occurrence, e.number>>
      OBVIOUS
    <3>1. p \in DOMAIN active /\ begun' = begun \cup {z} /\ z[1] = active[p].occurrence /\ z[2] = e.number
      BY <2>2 DEF Takes, Hits, Tracker!Matches
    <3>2. A.begun = S.begun \cup {<<S.cur[p].life, e.number>>}
      BY <1>2, <2>2 DEF After, Hits
    <3>3. S.cur[p].life = lifeOf'[z[1]]
      BY <1>3, <3>1
    <3>4. <<S.cur[p].life, e.number>> = <<lifeOf'[z[1]], z[2]>>
      BY <3>1, <3>3
    <3> QED BY <2>1, <3>1, <3>2, <3>4
  <2>3. CASE ~Hits(e, "started")
    <3>1. begun' = begun
      BY <2>3 DEF Takes
    <3>2. A.begun = S.begun
      BY <1>2, <2>3 DEF After, Hits
    <3> QED BY <2>1, <3>1, <3>2
  <2> QED BY <2>2, <2>3
<1>5. A.told = {[life |-> lifeOf'[x.occurrence], n |-> x.number, work |-> x.report] : x \in cited'}
  <2>1. S.told = {[life |-> lifeOf'[x.occurrence], n |-> x.number, work |-> x.report] : x \in cited}
    BY <1>0, <1>1 DEF TrackerInv
  <2>2. CASE Hits(e, "executed")
    <3> PICK y : y = Tracker!Told(active[p], e.number, e.value)
      OBVIOUS
    <3>1. p \in DOMAIN active /\ cited' = cited \cup {y}
      BY <2>2 DEF Takes, Hits, Tracker!Matches
    <3>2. y.occurrence = active[p].occurrence /\ y.number = e.number /\ y.report = e.value
      BY DEF Tracker!Told
    <3>3. A.told = S.told \cup {[life |-> S.cur[p].life, n |-> e.number, work |-> e.value]}
      BY <1>2, <2>2 DEF After, Hits
    <3>4. S.cur[p].life = lifeOf'[y.occurrence]
      BY <1>3, <3>1, <3>2
    <3> QED BY <2>1, <3>1, <3>2, <3>3, <3>4
  <2>3. CASE ~Hits(e, "executed")
    <3>1. cited' = cited
      BY <2>3 DEF Takes
    <3>2. A.told = S.told
      BY <1>2, <2>3 DEF After, Hits
    <3> QED BY <2>1, <3>1, <3>2
  <2> QED BY <2>2, <2>3
<1>6. A.lost <=> LosesOne(quality')
  <2>1. A.lost <=> (\/ S.lost \/ (e.type \in {"started", "executed"} /\ ~Matched(S, e))
                    \/ (e.type = "executed" /\ e.value = Null))
    BY DEF After
  <2>2. Misses(e) <=> \/ e.type \in {"started", "executed"} /\ ~Matched(S, e)
                      \/ e.type = "executed" /\ e.value = Null
    BY <1>2 DEF Misses
  <2> QED BY <1>1, <2>1, <2>2 DEF Takes
<1>7. A.cur = [q \in DOMAIN active' |-> [life |-> lifeOf'[active'[q].occurrence], module |-> active'[q].source]]
  <2>1. CASE e.type = "prepared"
    <3> PICK r : r = [life |-> e.number, module |-> e.module]
      OBVIOUS
    <3>1. A.cur = Put(S.cur, p, r)
      BY <2>1 DEF After
    <3>2. /\ DOMAIN active' = DOMAIN active \cup {p} /\ active'[p].occurrence = occurrences + 1
          /\ active'[p].source = e.module /\ \A q \in DOMAIN active : q # p => Keeps(q)
      BY <2>1 DEF Takes
    <3>3. ASSUME NEW q \in DOMAIN active'
          PROVE  (IF q = p THEN r ELSE S.cur[q]) = [life |-> lifeOf'[active'[q].occurrence], module |-> active'[q].source]
      <4>1. CASE q = p
        BY <1>0, <2>1, <3>2, <4>1
      <4>2. CASE q # p
        <5>1. q \in DOMAIN active /\ active'[q].occurrence = active[q].occurrence /\ active'[q].source = active[q].source
          BY <3>2, <4>2 DEF Keeps
        <5>2. lifeOf'[active[q].occurrence] = lifeOf[active[q].occurrence]
          BY <1>0, <5>1 DEF TrackerInv
        <5> QED BY <1>1, <4>2, <5>1, <5>2
      <4> QED BY <4>1, <4>2
    <3>4. A.cur = [q \in DOMAIN active' |-> IF q = p THEN r ELSE S.cur[q]]
      BY <1>1, <3>1, <3>2 DEF Put
    <3> QED BY <3>3, <3>4
  <2>2. CASE e.type # "prepared"
    <3>1. ASSUME NEW q \in DOMAIN active'
          PROVE  q \in DOMAIN active /\ S.cur[q] = [life |-> lifeOf'[active'[q].occurrence], module |-> active'[q].source]
      <4>1. q \in DOMAIN active /\ active'[q].occurrence = active[q].occurrence /\ active'[q].source = active[q].source
        BY <2>2 DEF Takes, Keeps
      <4>2. lifeOf'[active[q].occurrence] = lifeOf[active[q].occurrence]
        BY <1>0, <4>1 DEF TrackerInv
      <4> QED BY <1>1, <4>1, <4>2
    <3>2. A.cur = [q \in DOMAIN active' |-> S.cur[q]]
      <4>1. CASE Hits(e, "finalized")
        <5>1. A.cur = Drop(S.cur, {p}) /\ DOMAIN active' = DOMAIN active \ {p}
          BY <1>2, <2>2, <4>1 DEF After, Takes, Hits
        <5> QED BY <1>1, <5>1 DEF Drop
      <4>2. CASE ~Hits(e, "finalized")
        <5>1. A.cur = S.cur /\ DOMAIN active' = DOMAIN active
          BY <1>2, <2>2, <4>2 DEF After, Takes, Hits
        <5>2. S.cur = [q \in DOMAIN active |-> S.cur[q]]
          <6>1. S.cur = [q \in DOMAIN active |-> [life |-> lifeOf[active[q].occurrence], module |-> active[q].source]]
            BY DEF Book, Takes
          <6> QED BY <6>1
        <5> QED BY <5>1, <5>2
      <4> QED BY <4>1, <4>2
    <3> QED BY <3>1, <3>2
  <2> QED BY <2>1, <2>2
<1> QED BY <1>4, <1>5, <1>6, <1>7 DEF Book, LosesOne

\* The tracker's steps leave the process as it is.
Untouched == UNCHANGED <<setting, app, frames, agent, told>>

LEMMA SameProcess ==
    ASSUME Untouched, NEW Z, NEW H
    PROVE  /\ AppInv => AppInv'
           /\ FrameInv => FrameInv'
           /\ AgentInv(Z, H) => AgentInv(Z, H)'
           /\ Unharmed' <=> Unharmed
           /\ \A w : Still(w) => Still(w)'
<1>1. setting' = setting /\ app' = app /\ frames' = frames /\ agent' = agent /\ told' = told
  BY DEF Untouched
<1>2. AppInv => AppInv'
  BY <1>1 DEF AppInv, Live, Running, Within
<1>3. Unharmed' <=> Unharmed
  BY <1>1 DEF Unharmed
<1>4. FrameInv => FrameInv'
  BY <1>1 DEF FrameInv, FrameFits, Apart, InUse, Unharmed, Of, Live, Within
<1>5. AgentInv(Z, H) => AgentInv(Z, H)'
  BY <1>1 DEF AgentInv
<1>6. \A w : Still(w) => Still(w)'
  BY <1>1 DEF Still, Live, Running, WaitsFor
<1> QED BY <1>2, <1>3, <1>4, <1>5, <1>6

LEMMA SameExecutions ==
    ASSUME Untouched, NEW Z, RunInv(Z)
    PROVE  RunInv(Z)'
<1>1. setting' = setting /\ app' = app /\ frames' = frames /\ agent' = agent /\ told' = told
  BY DEF Untouched
<1>2. ASSUME NEW c PROVE Opened(c, Z) => Opened(c, Z)'
  BY <1>1 DEF Opened
<1>3. ASSUME NEW c PROVE OneStep(c) => OneStep(c)'
  BY <1>1 DEF OneStep
<1>4. ASSUME NEW c, CallsFit(c) PROVE CallsFit(c)'
  <2> SUFFICES ASSUME NEW t \in Threads, NEW i \in DOMAIN frames'[t], frames'[t][i].ctx = c
               PROVE  CallFits(t, frames[t][i])'
    BY DEF CallsFit
  <2> PICK f : f = frames[t][i]
    OBVIOUS
  <2>1. frames'[t][i] = f /\ f.ctx = c /\ i \in DOMAIN frames[t] /\ CallFits(t, f)
    BY <1>1, <1>4, Zenon DEF CallsFit
  <2>2. CallFits(t, f)'
    BY <1>1, <2>1 DEF CallFits, Metered, InUse, Running
  <2> QED BY <2>1, <2>2 DEF CallFits, Metered, InUse, Stepping, Ends1
<1>5. ASSUME NEW c, NEW p \in Pointers PROVE Stands(c, app.lib[p]) => Stands(c, app.lib[p])'
  <2> PICK s : s = app.lib[p]
    OBVIOUS
  <2>1. (\E t \in Threads : MeteredBy(t, c)) <=> \E t \in Threads : MeteredBy(t, c)'
    BY <1>1 DEF MeteredBy, Metered
  <2>2. (\E t \in Threads : EndedBy(t, c)) <=> \E t \in Threads : EndedBy(t, c)'
    BY <1>1 DEF EndedBy
  <2>3. app'.lib[p] = s /\ \A v, w : Level(c, v, w) <=> Level(c, v, w)'
    BY <1>1 DEF Level
  <2> QED BY <1>1, <2>1, <2>2, <2>3 DEF Stands
<1>6. ASSUME NEW c \in DOMAIN agent.known PROVE Runs(c, Z)'
  <2>1. Runs(c, Z)
    BY DEF RunInv
  <2>2. \A p \in Pointers : Of(c, p)' => Of(c, p)
    BY <1>1 DEF Of, Live
  <2> QED BY <1>2, <1>3, <1>4, <1>5, <2>1, <2>2 DEF Runs
<1>7. \A p \in Pointers : Live(p)' => Live(p)
  BY <1>1 DEF Live
<1> QED BY <1>1, <1>6, <1>7 DEF RunInv

\* What of the invariant is not about the records and the tracker.
Rests(Z, H) ==
    /\ AppInv /\ FrameInv
    /\ ~app.exited => AgentInv(Z, H)
    /\ ~app.exited /\ Unharmed /\ Clean(Z) => RunInv(Z)
LEMMA SameRests ==
    ASSUME Untouched, NEW Z, NEW H, Rests(Z, H)
    PROVE  Rests(Z, H)'
<1>1. app' = app
  BY DEF Untouched
<1>2. /\ AppInv => AppInv'
      /\ FrameInv => FrameInv'
      /\ AgentInv(Z, H) => AgentInv(Z, H)'
      /\ Unharmed' <=> Unharmed
  BY SameProcess
<1>3. RunInv(Z) => RunInv(Z)'
  BY SameExecutions
<1> QED BY <1>1, <1>2, <1>3 DEF Rests

LEMMA TruthParts ==
    ASSUME NEW J, NEW H
    PROVE  TruthInv(J, H) <=> /\ TrackerInv /\ Book(J[0]) /\ Follows(J, Stream) /\ Rests(Last(J), H)
                              /\ Unharmed => \A k \in 0 .. Len(Stream) : PartInv(J[k], k)
BY DEF TruthInv, Rests

LEMMA ConsumeTrue ==
    ASSUME Inv, Inv', Tracker!TypeOK, NEW J, NEW H, TruthInv(J, H), Consume
    PROVE  \E K : TruthInv(K, H)'
<1> PICK e, q, s, Z : e = Head(wire) /\ q = agent.queue /\ s = wire \o q /\ Z = Last(J)
  OBVIOUS
<1>0. /\ TrackerInv /\ Book(J[0]) /\ Follows(J, s) /\ Rests(Z, H) /\ s = Stream
      /\ Unharmed => \A k \in 0 .. Len(s) : PartInv(J[k], k)
  BY TruthParts DEF Stream
<1>1. Takes(e) /\ e \in Event
  BY ConsumeTakes
<1>2. Untouched /\ wire # << >> /\ wire' = Tail(wire) /\ app' = app /\ agent' = agent
  BY DEF Consume, Untouched
<1>3. Names(e)
  BY DEF Consume, Names, Inv, Shape
<1>4. /\ wire \in Seq(Event) /\ q \in Seq(Event) /\ s \in Seq(Event)
      /\ s # << >> /\ Tail(s) = Tail(wire) \o q /\ s[1] = e /\ Len(s) \in Nat \ {0} /\ Len(wire) \in Nat \ {0}
      /\ Len(wire) <= Len(s) /\ Len(Tail(wire)) = Len(wire) - 1
  <2> PICK w : w = wire
    OBVIOUS
  <2>1. w \in Seq(Event) /\ q \in Seq(Event) /\ w # << >>
    BY <1>2 DEF Inv, Shape, RecordsOK
  <2>2. /\ w \o q \in Seq(Event) /\ Len(w \o q) = Len(w) + Len(q) /\ Len(w) \in Nat \ {0} /\ Len(q) \in Nat
        /\ (w \o q)[1] = w[1] /\ Head(w) = w[1] /\ w \o q # << >> /\ Len(Tail(w)) = Len(w) - 1
    BY <2>1
  <2>3. Tail(w \o q) = Tail(w) \o q
    BY <2>1
  <2> QED BY <2>1, <2>2, <2>3
<1>5. PICK K : /\ Follows(K, Tail(s)) /\ Len(Tail(s)) = Len(s) - 1
               /\ \A k \in 0 .. Len(s) - 1 : K[k] = J[k + 1]
  BY <1>0, <1>4, FollowsRest
<1>6. Stream' = Tail(s)
  BY <1>2, <1>4 DEF Stream
<1>7. Book(K[0])'
  <2>1. K[0] = J[1] /\ J[1] = After(J[0], e)
    <3>1. 1 \in 1 .. Len(s) /\ 0 \in 0 .. Len(s) - 1 /\ 0 + 1 = 1 /\ 1 - 1 = 0
      BY <1>4
    <3>2. K[0] = J[1]
      BY <1>5, <3>1
    <3>3. J[1] = After(J[0], s[1])
      BY <1>0, <3>1 DEF Follows
    <3> QED BY <1>4, <3>2, <3>3
  <2> PICK S, A : S = J[0] /\ A = After(S, e)
    OBVIOUS
  <2>2. Book(A)'
    BY <1>0, <1>1, <1>3, BookMoves
  <2> QED BY <2>1, <2>2
<1>8. TrackerInv'
  BY <1>0, <1>1, <1>2, <1>3, TrackerMoves
<1>9. Last(K)' = Z
  <2> PICK n : n = Len(s) - 1
    OBVIOUS
  <2>1. n \in 0 .. Len(s) - 1 /\ n + 1 = Len(s) /\ Len(Stream') = n
    BY <1>4, <1>5, <1>6
  <2> QED BY <1>0, <1>5, <2>1 DEF Last
<1>10. ASSUME Unharmed', NEW k \in 0 .. Len(Tail(s)) PROVE PartInv(K[k], k)'
  <2> PICK j, S, m : j = k + 1 /\ S = J[j] /\ m = Len(wire)
    OBVIOUS
  <2>1. Unharmed
    BY <1>2, <1>10, SameProcess
  <2>2. K[k] = S /\ j \in 0 .. Len(s) /\ k \in Nat /\ m \in Nat /\ Len(wire') = m - 1 /\ m >= 1
    BY <1>2, <1>4, <1>5, <1>10
  <2>3. PartInv(S, j)
    BY <1>0, <2>1, <2>2
  <2>4. ASSUME k >= Len(wire'), Settled(S)
        PROVE  /\ \A x \in app.truth : HasTold(S, <<x.life, x.n>>)
               /\ ~app.exited => \A w \in 0 .. k : w = k - Len(wire') => Still(w)'
    <3>1. /\ \A x \in app.truth : HasTold(S, <<x.life, x.n>>)
          /\ ~app.exited => \A w \in 0 .. j : w = j - m => Still(w)
      BY <2>2, <2>3, <2>4 DEF PartInv
    <3>2. ASSUME ~app.exited, NEW w \in 0 .. k, w = k - Len(wire') PROVE Still(w)'
      <4>1. w \in 0 .. j /\ w = j - m
        BY <2>2, <3>2
      <4>2. Still(w)
        BY <3>1, <3>2, <4>1
      <4> QED BY <1>2, <4>2, SameProcess
    <3> QED BY <3>1, <3>2
  <2>5. Clean(S) => S.told \subseteq app.truth
    BY <2>3 DEF PartInv
  <2>6. PartInv(S, k)'
    BY <1>2, <2>4, <2>5 DEF PartInv
  <2> QED BY <2>2, <2>6
<1>11. Rests(Z, H)'
  BY <1>0, <1>2, SameRests
<1>12. TruthInv(K, H)'
  BY <1>5, <1>6, <1>7, <1>8, <1>9, <1>10, <1>11 DEF TruthInv, Rests
<1> QED BY <1>12

LEMMA StutterTrue ==
    ASSUME NEW J, NEW H, TruthInv(J, H), Untouched, wire' = wire, TrackerInv', Book(J[0])'
    PROVE  TruthInv(J, H)'
<1>1. Stream' = Stream /\ app' = app
  BY DEF Stream, Untouched
<1> PICK Z : Z = Last(J)
  OBVIOUS
<1>2. Rests(Z, H)'
  BY SameRests, TruthParts
<1>3. Last(J)' = Z /\ Follows(J, Stream)'
  BY <1>1 DEF Last, TruthInv
<1>4. ASSUME Unharmed', NEW k \in 0 .. Len(Stream) PROVE PartInv(J[k], k)'
  <2> PICK S : S = J[k]
    OBVIOUS
  <2>1. Unharmed /\ \A w : Still(w) => Still(w)'
    BY <1>4, SameProcess
  <2>2. PartInv(S, k)
    BY <1>4, <2>1 DEF TruthInv
  <2>3. PartInv(S, k)'
    BY <1>1, <2>1, <2>2 DEF PartInv
  <2> QED BY <2>3
<1> QED BY <1>1, <1>2, <1>3, <1>4 DEF TruthInv, Rests

LEMMA FinishTrue ==
    ASSUME Tracker!TypeOK, NEW J, NEW H, TruthInv(J, H), Finish
    PROVE  TruthInv(J, H)'
<1>1. /\ Untouched /\ wire' = wire /\ wire = << >> /\ app.exited /\ app' = app /\ agent' = agent /\ lifeOf' = lifeOf
      /\ begun' = begun /\ cited' = cited /\ occurrences' = occurrences /\ active' = << >> /\ finished' = TRUE
      /\ Tracker!Flush(DOMAIN active)
  BY DEF Finish, hookVars, historyVars, Untouched, Tracker!Finish, Tracker!history
<1>2. quality \in [Tracker!Counters -> Nat]
  BY DEF Tracker!TypeOK
<1> PICK ps : ps = DOMAIN active
  OBVIOUS
<1>3. LosesOne(quality') <=> LosesOne(quality)
  BY <1>1, <1>2, Flushing
<1>4. TrackerInv /\ Book(J[0])
  BY DEF TruthInv
<1>5. TrackerInv'
  <2>1. DOMAIN active' = {}
    BY <1>1
  <2> QED BY <1>1, <1>4, <2>1 DEF TrackerInv
<1>6. Book(J[0])'
  BY <1>1, <1>3, <1>4 DEF Book, LosesOne
<1> QED BY <1>1, <1>5, <1>6, StutterTrue

-----------------------------------------------------------------------------
(* Every step, and the report. *)

LEMMA HookRuns ==
    ASSUME Inv, NEW t \in Threads, Hook(t)
    PROVE  app'.exited = app.exited
<1>0. AppOK
  BY DEF Inv, Shape
<1>1. ASSUME NEW p \in Pointers, NEW m \in Modules, Prepare(t, p, m) PROVE app'.exited = app.exited
  BY <1>0, <1>1 DEF Prepare, AppOK
<1>2. ASSUME NEW p \in Pointers, NEW op \in HookNames, Unobserved(t, op, p) \/ Conflicts(t, op, p) \/ Enters(t, op, p)
      PROVE  app'.exited = app.exited
  BY <1>2 DEF Unobserved, Conflicts, Enters
<1>3. ASSUME NEW p \in Pointers, StepEnters(t, p) PROVE app'.exited = app.exited
  BY <1>3 DEF StepEnters
<1>4. ASSUME NEW w, NEW more, StepReturns(t, w, more) PROVE app'.exited = app.exited
  BY <1>0, <1>4 DEF StepReturns, AppOK
<1>5. ResetReturns(t) => app'.exited = app.exited
  BY <1>0 DEF ResetReturns, AppOK
<1>6. FinalizeReturns(t) => app'.exited = app.exited
  BY <1>0 DEF FinalizeReturns, AppOK
<1>7. StepBegins(t) \/ StepFinishes(t) \/ HookEnds(t) \/ Measures(t) \/ FinalizeFinishes(t) \/ FinalizeEnds(t)
      \/ Refused(t) => app' = app
  BY DEF StepBegins, StepFinishes, HookEnds, Measures, FinalizeFinishes, FinalizeEnds, Refused
<1>8. HookNames \ {"prepare"} \subseteq HookNames /\ {"reset", "finalize"} \subseteq HookNames
  BY DEF HookNames
<1> QED BY <1>1, <1>2, <1>3, <1>4, <1>5, <1>6, <1>7, <1>8 DEF Hook

\* The invariant, with what it says of the records and the pointers left open.
Truth == \E J, H : TruthInv(J, H)
TrueIfWhole == Whole => Truth

LEMMA HookTruth ==
    ASSUME DoctorInv, Held, Truth, NEW t \in Threads, Hook(t)
    PROVE  Truth'
<1> PICK J, H : TruthInv(J, H)
  BY DEF Truth
<1>1. ASSUME NEW p \in Pointers, NEW m \in Modules, Prepare(t, p, m) PROVE \E K, G : TruthInv(K, G)'
  BY <1>1, PrepareTrue
<1>2. ASSUME NEW p \in Pointers, NEW op \in HookNames \ {"prepare"}, Unobserved(t, op, p) PROVE TruthInv(J, H)'
  BY <1>2, UnobservedTrue
<1>3. ASSUME NEW p \in Pointers, NEW op \in HookNames \ {"prepare"}, Conflicts(t, op, p) PROVE TruthInv(J, H)'
  BY <1>3, ConflictsTrue
<1>4. ASSUME NEW p \in Pointers, StepEnters(t, p) PROVE \E K : TruthInv(K, H)'
  BY <1>4, StepEntersTrue
<1>5. ASSUME NEW p \in Pointers, NEW op \in {"reset", "finalize"}, Enters(t, op, p) PROVE TruthInv(J, H)'
  BY <1>5, EntersTrue
<1>6. ASSUME NEW w \in 0 .. setting.work, NEW more \in BOOLEAN, StepReturns(t, w, more) PROVE TruthInv(J, H)'
  BY <1>6, StepReturnsTrue
<1>7. StepBegins(t) => TruthInv(J, H)'
  BY StepBeginsTrue
<1>8. StepFinishes(t) => \E K : TruthInv(K, H)'
  BY StepFinishesTrue
<1>9. HookEnds(t) => TruthInv(J, H)'
  BY HookEndsTrue
<1>10. Measures(t) => TruthInv(J, H)'
  BY MeasuresTrue
<1>11. ResetReturns(t) => \E K : TruthInv(K, H)'
  BY ResetReturnsTrue
<1>12. FinalizeReturns(t) => TruthInv(J, H)'
  BY FinalizeReturnsTrue
<1>13. FinalizeFinishes(t) => \E K : TruthInv(K, H)'
  BY FinalizeFinishesTrue
<1>14. FinalizeEnds(t) => \E K : TruthInv(K, H)'
  BY FinalizeEndsTrue
<1>15. ~Refused(t)
  <2>1. Refused(t) => agent'.broken
    BY DEF Refused, Removed, Held, Inv, Shape, AgentOK
  <2> QED BY <2>1 DEF Held, Whole
<1>16. \E K, G : TruthInv(K, G)'
  BY <1>1, <1>2, <1>3, <1>4, <1>5, <1>6, <1>7, <1>8, <1>9, <1>10, <1>11, <1>12, <1>13, <1>14, <1>15 DEF Hook
<1> QED BY <1>16 DEF Truth

\* No statement comes but from a preparation, which leaves its module among the ones used.
FromUsed == /\ app.used \subseteq app'.used
        /\ \A p \in Pointers : Live(p)' => \/ app'.lib[p].module \in app'.used
                                           \/ Live(p) /\ app'.lib[p].module = app.lib[p].module

LEMMA SameLibUsed ==
    ASSUME app'.used = app.used, NEW p, NEW z, Live(p), z.module = app.lib[p].module,
           app'.lib[p] = z \/ app'.lib[p] = NoStatement, \A q \in Pointers : q # p => app'.lib[q] = app.lib[q]
    PROVE  FromUsed
BY DEF FromUsed, Live

LEMMA HookUses ==
    ASSUME Inv, NEW t \in Threads, Hook(t)
    PROVE  FromUsed /\ (agent.broken => agent'.broken)
<1>0. Shape /\ AppOK /\ AgentOK
  BY DEF Inv, Shape
<1>1. ASSUME NEW p \in Pointers, NEW m \in Modules, Prepare(t, p, m)
      PROVE  FromUsed /\ (agent.broken => agent'.broken)
  <2> PICK L : L = app.lives + 1
    OBVIOUS
  <2>1. app' = [app EXCEPT !.lives = L, !.used = @ \cup {m}, !.lib[p] = Fresh(L, m)]
    BY <1>1 DEF Prepare
  <2>2. app'.used = app.used \cup {m} /\ app'.lib = [app.lib EXCEPT ![p] = Fresh(L, m)]
    BY <1>0, <2>1 DEF AppOK
  <2>3. app'.lib[p].module = m /\ \A q \in Pointers : q # p => app'.lib[q] = app.lib[q]
    BY <1>0, <2>2 DEF AppOK, Fresh
  <2>4. agent'.broken = agent.broken
    <3>1. agent' = agent \/ agent' = Prepared(p, m, L)
      BY <1>1 DEF Prepare
    <3> QED BY <1>0, <3>1 DEF Prepared, AgentOK
  <2>5. FromUsed
    BY <2>2, <2>3 DEF FromUsed, Live
  <2> QED BY <2>4, <2>5
<1>2. ASSUME ~ \E p \in Pointers, m \in Modules : Prepare(t, p, m)
      PROVE  FromUsed /\ (agent.broken => agent'.broken)
  <2>1. app'.used = app.used /\ (agent.broken => agent'.broken)
    BY <1>0, <1>2, HookKept DEF Kept
  <2>2. ASSUME app'.lib = app.lib PROVE FromUsed
    BY <2>1, <2>2 DEF FromUsed, Live
  <2>3. ASSUME NEW w, NEW more, StepReturns(t, w, more) PROVE FromUsed
    <3> PICK f, p, o, s, z : /\ f = Top(t) /\ p = f.ptr /\ o = app.lib[p] /\ s = Stepped(o, t, w)
                             /\ z = IF more THEN s ELSE [s EXCEPT !.runner = Null]
      OBVIOUS
    <3>1. p \in Pointers /\ Live(p) /\ o \in Statement
      BY <1>0, <2>3, TopUse, LiveStatement DEF StepReturns, At, Inv, InUse
    <3>2. app'.lib = [app.lib EXCEPT ![p] = z]
      BY <1>0, <2>3 DEF StepReturns, AppOK
    <3>3. z.module = o.module
      BY <3>1 DEF Stepped, Statement
    <3>4. app'.lib[p] = z /\ \A q \in Pointers : q # p => app'.lib[q] = app.lib[q]
      BY <1>0, <3>1, <3>2 DEF AppOK
    <3> QED BY <2>1, <3>1, <3>3, <3>4, SameLibUsed
  <2>4. ASSUME ResetReturns(t) PROVE FromUsed
    <3> PICK p, o, z : p = Top(t).ptr /\ o = app.lib[p] /\ z = [o EXCEPT !.runner = Null]
      OBVIOUS
    <3>1. p \in Pointers /\ Live(p) /\ o \in Statement
      BY <1>0, <2>4, TopUse, LiveStatement DEF ResetReturns, At, Inv, InUse
    <3>2. app'.lib = [app.lib EXCEPT ![p] = z]
      BY <1>0, <2>4 DEF ResetReturns, AppOK
    <3>3. z.module = o.module
      BY <3>1 DEF Statement
    <3>4. app'.lib[p] = z /\ \A q \in Pointers : q # p => app'.lib[q] = app.lib[q]
      BY <1>0, <3>1, <3>2 DEF AppOK
    <3> QED BY <2>1, <3>1, <3>3, <3>4, SameLibUsed
  <2>5. ASSUME FinalizeReturns(t) PROVE FromUsed
    <3> PICK p : p = Top(t).ptr
      OBVIOUS
    <3>1. p \in Pointers /\ Live(p)
      BY <1>0, <2>5, TopUse DEF FinalizeReturns, At, Inv, InUse
    <3>2. app'.lib = [app.lib EXCEPT ![p] = NoStatement]
      BY <1>0, <2>5 DEF FinalizeReturns, AppOK
    <3> QED BY <1>0, <2>1, <3>1, <3>2, SameLibUsed DEF AppOK
  <2>6. ASSUME NEW p \in Pointers, NEW op \in HookNames, Unobserved(t, op, p) \/ Conflicts(t, op, p) \/ Enters(t, op, p)
        PROVE  FromUsed
    BY <2>2, <2>6 DEF Unobserved, Conflicts, Enters
  <2>7. ASSUME NEW p \in Pointers, StepEnters(t, p) PROVE FromUsed
    BY <2>2, <2>7 DEF StepEnters
  <2>8. StepBegins(t) \/ StepFinishes(t) \/ HookEnds(t) \/ Measures(t) \/ FinalizeFinishes(t) \/ FinalizeEnds(t)
        \/ Refused(t) => FromUsed
    BY <2>2 DEF StepBegins, StepFinishes, HookEnds, Measures, FinalizeFinishes, FinalizeEnds, Refused
  <2>9. HookNames \ {"prepare"} \subseteq HookNames /\ {"reset", "finalize"} \subseteq HookNames
    BY DEF HookNames
  <2> QED BY <1>2, <2>1, <2>3, <2>4, <2>5, <2>6, <2>7, <2>8, <2>9 DEF Hook
<1> QED BY <1>1, <1>2

LEMMA NextUses ==
    ASSUME Inv, Inv', [Next]_vars
    PROVE  FromUsed /\ (agent.broken => agent'.broken) /\ setting' = setting
<1>0. Shape /\ AppOK /\ AgentOK
  BY DEF Inv, Shape
<1>1. CASE HooksNext
  <2>1. ASSUME NEW t \in setting.threads, Hook(t) PROVE FromUsed /\ (agent.broken => agent'.broken)
    <3>1. t \in Threads
      BY <1>0, <2>1, Bounds DEF AppOK
    <3> QED BY <2>1, <3>1, HookUses
  <2>2. ASSUME NEW m \in Modules, Unload(m) PROVE FromUsed /\ (agent.broken => agent'.broken)
    <3>1. agent'.broken = agent.broken
      BY <1>0, <2>2 DEF Unload, AgentOK
    <3>2. app'.used = app.used /\ \A p \in Pointers : app'.lib[p] \in {NoStatement, app.lib[p]}
      BY <1>0, <2>2 DEF Unload, AppOK
    <3> QED BY <3>1, <3>2 DEF FromUsed, Live
  <2>3. ASSUME NEW m \in Modules, Load(m) PROVE FromUsed /\ (agent.broken => agent'.broken)
    BY <1>0, <2>3 DEF Load, AppOK, FromUsed, Live
  <2>4. ASSUME NEW n, NEW heard, Exit(n, heard) PROVE FromUsed /\ (agent.broken => agent'.broken)
    <3>1. agent'.broken = agent.broken
      BY <1>0, <2>4 DEF Exit, AgentOK
    <3>2. app'.used = app.used /\ \A p \in Pointers : app'.lib[p] = NoStatement
      BY <1>0, <2>4 DEF Exit, AppOK
    <3> QED BY <3>1, <3>2 DEF FromUsed, Live
  <2> QED BY <1>1, <2>1, <2>2, <2>3, <2>4 DEF HooksNext
<1>2. CASE Consume \/ Finish \/ UNCHANGED vars
  BY <1>2 DEF Consume, Finish, vars, hookVars, FromUsed, Live
<1> QED BY <1>1, <1>2 DEF Next, HooksNext

\* A transport that failed stays failed, a module that was used stays used, and what was
\* lost at the end is not told later.
LEMMA WholeBefore ==
    ASSUME Inv, Inv', [Next]_vars, Whole'
    PROVE  Whole
<1>0. app.used \subseteq app'.used /\ (agent.broken => agent'.broken) /\ setting' = setting
  BY NextUses DEF FromUsed
<1>1. Observed
  BY <1>0 DEF Observed, Whole
<1>2. ASSUME app.exited PROVE unheard' = unheard /\ app'.exited
  BY <1>2 DEF Next, HooksNext, Consume, Finish, vars, hookVars
<1> QED BY <1>0, <1>1, <1>2 DEF Whole, Heard

LEMMA NextUsed ==
    ASSUME Inv, Inv', LibUsed, [Next]_vars
    PROVE  LibUsed'
<1>1. FromUsed /\ setting' = setting
  BY NextUses
<1> QED BY <1>1 DEF FromUsed, LibUsed

LEMMA InitUsed ==
    ASSUME Init
    PROVE  LibUsed
<1> SUFFICES ASSUME NEW p \in Pointers, Live(p) PROVE app.lib[p].module \in Range(setting.inherited)
  BY DEF LibUsed
<1> PICK lib : lib = [q \in Pointers |-> IF q \in DOMAIN setting.inherited
                                         THEN Fresh(q, setting.inherited[q]) ELSE NoStatement]
  OBVIOUS
<1>1. app.lib = lib
  BY DEF Init, HooksInit
<1>2. p \in DOMAIN setting.inherited /\ app.lib[p] = Fresh(p, setting.inherited[p])
  BY <1>1 DEF Live
<1> QED BY <1>2 DEF Fresh, Range

LEMMA NextTruth ==
    ASSUME Inv, Inv', DoctorInv, LibUsed, Whole, Whole', Tracker!TypeOK, Truth, [Next]_vars
    PROVE  Truth'
<1> PICK J, H : TruthInv(J, H)
  BY DEF Truth
<1>0. Shape
  BY DEF Inv
<1>1. CASE HooksNext /\ orderly' = (orderly /\ Orderly) /\ UNCHANGED <<trackerVars, lifeOf>>
  <2>1. Aside
    <3>1. orderly \in BOOLEAN
      BY <1>0 DEF Shape, AppOK
    <3> QED BY <1>1, <3>1 DEF Aside, HooksNext, Orderly
  <2>2. ~app.exited /\ wire = << >> /\ UNCHANGED <<setting, active, begun, cited, quality, finished, occurrences, lifeOf>>
    BY <1>1 DEF HooksNext, trackerVars
  <2>3. ASSUME app'.exited = app.exited PROVE Held
    BY <2>1, <2>2, <2>3 DEF Held
  <2>4. ASSUME NEW t \in setting.threads, Hook(t) PROVE Truth'
    <3>1. t \in Threads
      BY <1>0, <2>4, Bounds DEF Shape, AppOK
    <3>2. Held
      BY <2>3, <2>4, <3>1, HookRuns
    <3> QED BY <2>4, <3>1, <3>2, HookTruth
  <2>5. ASSUME NEW m \in Modules, Unload(m) PROVE Truth'
    <3>1. Held
      BY <1>0, <2>1, <2>3, <2>5, UnloadShape
    <3>2. TruthInv(J, H)'
      BY <2>5, <3>1, UnloadTrue
    <3> QED BY <3>2 DEF Truth
  <2>6. ASSUME NEW m \in Modules, Load(m) PROVE Truth'
    <3>1. app'.exited = app.exited
      BY <1>0, <2>6 DEF Load, Shape, AppOK
    <3>2. TruthInv(J, H)'
      BY <2>3, <2>6, <3>1, LoadTrue
    <3> QED BY <3>2 DEF Truth
  <2>7. ASSUME NEW n \in 0 .. Len(agent.queue),
               NEW heard \in {told} \cup {e.told : e \in {d \in unheard : n <= d.at}}, Exit(n, heard)
        PROVE  Truth'
    <3>1. heard = told \/ \E e \in unheard : heard = e.told
      OBVIOUS
    <3>2. \E K : TruthInv(K, H)'
      BY <2>1, <2>2, <2>7, <3>1, ExitTrue
    <3> QED BY <3>2 DEF Truth
  <2> QED BY <1>1, <2>4, <2>5, <2>6, <2>7 DEF HooksNext
<1>2. CASE Consume
  <2>1. \E K : TruthInv(K, H)'
    BY <1>2, ConsumeTrue
  <2> QED BY <2>1 DEF Truth
<1>3. CASE Finish
  <2>1. TruthInv(J, H)'
    BY <1>3, FinishTrue
  <2> QED BY <2>1 DEF Truth
<1>4. CASE UNCHANGED vars
  <2>1. /\ Untouched /\ wire' = wire /\ active' = active /\ begun' = begun /\ cited' = cited /\ quality' = quality
        /\ finished' = finished /\ occurrences' = occurrences /\ lifeOf' = lifeOf /\ app' = app /\ agent' = agent
    BY <1>4 DEF vars, hookVars, trackerVars, historyVars, Untouched
  <2>2. TrackerInv /\ Book(J[0])
    BY DEF TruthInv
  <2>3. TrackerInv' /\ Book(J[0])'
    BY <2>1, <2>2 DEF TrackerInv, Book
  <2>4. TruthInv(J, H)'
    BY <2>1, <2>3, StutterTrue
  <2> QED BY <2>4 DEF Truth
<1> QED BY <1>1, <1>2, <1>3, <1>4 DEF Next

LEMMA InitTruth ==
    ASSUME Init
    PROVE  Truth
<1>1. /\ setting \in Settings /\ lifeOf = << >> /\ wire = << >>
      /\ app = [lib |-> app.lib, lives |-> 0, loaded |-> setting.modules, truth |-> {}, used |-> {},
                exited |-> FALSE]
      /\ app.lib = [p \in Pointers |-> IF p \in DOMAIN setting.inherited
                                       THEN Fresh(p, setting.inherited[p]) ELSE NoStatement]
      /\ agent = [contexts |-> << >>, known |-> << >>, unknown |-> {},
                  complete |-> FALSE, partial |-> FALSE, queue |-> << >>, broken |-> FALSE, stuck |-> {}]
      /\ frames = [t \in Threads |-> << >>]
  BY DEF Init, HooksInit
<1>2. active = << >> /\ occurrences = 0 /\ begun = {} /\ cited = {} /\ finished = FALSE
      /\ quality = [c \in Tracker!Counters |-> 0]
  BY DEF Init, Tracker!Init
<1>3. app.truth = {} /\ app.exited = FALSE /\ agent.queue = << >> /\ agent.unknown = {} /\ DOMAIN agent.known = {}
      /\ DOMAIN agent.contexts = {} /\ (\A t \in Threads : frames[t] = << >> /\ DOMAIN frames[t] = {})
  BY <1>1
<1> PICK S : S = [cur |-> << >>, begun |-> {}, told |-> {}, lost |-> FALSE]
  OBVIOUS
<1> PICK J, H : J = [i \in {0} |-> S] /\ H = [c \in {} |-> 0]
  OBVIOUS
<1>4. TrackerInv
  BY <1>1, <1>2, <1>3 DEF TrackerInv
<1>5. ASSUME NEW p \in Pointers, Live(p) PROVE app.lib[p].life = p /\ ~Running(app.lib[p])
  <2>1. app.lib[p] = Fresh(p, setting.inherited[p])
    BY <1>1, <1>5 DEF Live
  <2> QED BY <2>1 DEF Fresh, Running
<1>6. AppInv
  BY <1>3, <1>5 DEF AppInv
<1>7. FrameInv
  BY <1>3 DEF FrameInv, Apart
<1>8. Stream = << >> /\ Len(Stream) = 0
  BY <1>1, <1>3 DEF Stream
<1>9. J[0] = S /\ DOMAIN J = 0 .. 0 /\ Last(J) = S /\ 0 .. 0 = {0}
  BY <1>8 DEF Last
<1>10. Follows(J, Stream)
  <2>1. 1 .. 0 = {}
    OBVIOUS
  <2> QED BY <1>8, <1>9, <2>1 DEF Follows
<1>11. Book(J[0])
  <2>1. quality["unmatched"] = 0 /\ quality["null_metric"] = 0
    BY <1>2 DEF Tracker!Counters
  <2>2. S.cur = [p \in DOMAIN active |-> [life |-> lifeOf[active[p].occurrence], module |-> active[p].source]]
    BY <1>2
  <2> QED BY <1>2, <1>9, <2>1, <2>2 DEF Book
<1>12. AgentInv(S, H)
  BY <1>3 DEF AgentInv
<1>13. RunInv(S)
  BY <1>3, <1>5 DEF RunInv
<1>14. PartInv(S, 0)
  <2>1. Still(0)
    BY <1>3, <1>5 DEF Still
  <2>2. \A w \in 0 .. 0 : Still(w)
    BY <1>9, <2>1
  <2> QED BY <1>3, <2>2 DEF PartInv
<1>15. TruthInv(J, H)
  BY <1>4, <1>6, <1>7, <1>8, <1>9, <1>10, <1>11, <1>12, <1>13, <1>14 DEF TruthInv
<1> QED BY <1>15 DEF Truth

LEMMA TruthReports ==
    ASSUME Inv, DoctorInv, TrueIfWhole, Tracker!TypeOK, Tracker!ConclusiveIsComplete
    PROVE  ReportIsTrue
<1> SUFFICES ASSUME finished, Heard, Observed, Reasons = {}, told.status = "ACTIVE", ~told.fatal
             PROVE  Emitted = app.truth
  BY DEF ReportIsTrue
<1>0. ~agent.broken /\ ~agent.partial /\ Truth
  BY DEF DoctorInv, TrueIfWhole, Whole
<1> PICK J, H : TruthInv(J, H)
  BY <1>0 DEF Truth
<1> PICK S : S = J[0]
  OBVIOUS
<1>1. Unharmed
  <2>1. ~told.lossy
    BY DEF Reasons
  <2> QED BY <1>0, <2>1 DEF Unharmed
<1>2. \A c \in Tracker!Losses : quality[c] = 0
  <2>1. \A c \in Tracker!Losses : ~(quality[c] > 0) /\ quality[c] \in Nat
    BY DEF Reasons, Tracker!TypeOK, Tracker!Losses, Tracker!Counters
  <2> QED BY <2>1
<1>3. DOMAIN executions = cited /\ \A b \in begun : \E x \in cited : b = <<x.occurrence, x.number>>
  BY <1>2 DEF Tracker!ConclusiveIsComplete, Tracker!Conclusive
<1>4. Emitted = S.told
  BY <1>3 DEF TruthInv, Book, Emitted
<1>5. Settled(S)
  <2>1. ~S.lost
    <3>1. quality["unmatched"] = 0 /\ quality["null_metric"] = 0
      BY <1>2 DEF Tracker!Losses
    <3> QED BY <3>1 DEF TruthInv, Book
  <2>2. ASSUME NEW b \in S.begun PROVE HasTold(S, b)
    <3>1. PICK d \in begun : b = <<lifeOf[d[1]], d[2]>>
      BY <2>2 DEF TruthInv, Book
    <3>2. PICK x \in cited : d = <<x.occurrence, x.number>>
      BY <1>3
    <3> PICK y : y = [life |-> lifeOf[x.occurrence], n |-> x.number, work |-> x.report]
      OBVIOUS
    <3>3. y \in S.told
      BY DEF TruthInv, Book
    <3>4. y.life = b[1] /\ y.n = b[2]
      BY <3>1, <3>2
    <3> QED BY <3>3, <3>4 DEF HasTold
  <2> QED BY <2>1, <2>2 DEF Settled
<1>6. wire = << >> /\ agent.queue = << >>
  BY DEF TruthInv, TrackerInv
<1>7. Len(Stream) = 0 /\ Len(wire) = 0
  BY <1>6 DEF Stream
<1>8. PartInv(S, 0)
  BY <1>1, <1>7 DEF TruthInv
<1>9. S.told \subseteq app.truth /\ \A x \in app.truth : HasTold(S, <<x.life, x.n>>)
  BY <1>5, <1>7, <1>8, SettledClean DEF PartInv
<1>10. ASSUME NEW x \in app.truth PROVE x \in S.told
  <2>1. PICK y \in S.told : y.life = x.life /\ y.n = x.n
    BY <1>9 DEF HasTold
  <2>2. y = x
    BY <1>9, <2>1 DEF TruthInv, AppInv
  <2> QED BY <2>1, <2>2
<1> QED BY <1>4, <1>9, <1>10

\* A report without a reason to call it incomplete has every execution of the
\* application, each once, under its own statement and with the work it did, where the
\* modules it used have the hooks of prepare and step and the agent's messages have all
\* been heard: even when the transport failed on the way.
THEOREM ReportIsTheTruth == Spec => []ReportIsTrue
<1>1. Init => TrueIfWhole /\ DoctorInv /\ LibUsed
  <2>1. Init => TrueIfWhole
    BY InitTruth DEF TrueIfWhole
  <2>2. Init => DoctorInv
    BY DEF Init, HooksInit, DoctorInv, Heard
  <2> QED BY <2>1, <2>2, InitUsed
<1>2. Inv /\ Inv' /\ DoctorInv /\ LibUsed /\ Tracker!TypeOK /\ TrueIfWhole /\ [Next]_vars => TrueIfWhole'
  BY NextTruth, WholeBefore DEF TrueIfWhole
<1>3. Inv /\ Inv' /\ LibUsed /\ [Next]_vars => LibUsed'
  BY NextUsed
<1>4. Inv /\ DoctorInv /\ TrueIfWhole /\ Tracker!TypeOK /\ Tracker!ConclusiveIsComplete => ReportIsTrue
  BY TruthReports
<1> QED BY <1>1, <1>2, <1>3, <1>4, NextDoctor, PipelineInvariant, TrackerKeeps, PTL DEF Spec

-----------------------------------------------------------------------------
(* What a query's executions amount to. *)

\* A set of finite sets that is not empty has one that no other is a part of.
LEMMA LeastSet ==
    ASSUME NEW S, IsFiniteSet(S), NEW B \in SUBSET (SUBSET S), B # {}
    PROVE  \E s \in B : \A r \in SUBSET s : r # s => r \notin B
<1> DEFINE R == StrictSubsetOrdering(S)
<1>1. IsWellFoundedOn(R, SUBSET S)
  BY FS_StrictSubsetOrderingWellFounded, FS_FiniteSubsetsOfFinite
<1>2. PICK s \in B : \A r \in B : <<r, s>> \notin R
  <2> HIDE DEF R
  <2> QED BY <1>1, WFMin
<1>3. ASSUME NEW r \in SUBSET s, r # s, r \in B PROVE FALSE
  <2>1. <<r, s>> \in R
    BY <1>3 DEF StrictSubsetOrdering
  <2> QED BY <1>2, <1>3, <2>1
<1> QED BY <1>2, <1>3

\* A finite set of numbers has a greatest one.
LEMMA MaxOfSet ==
    ASSUME NEW S \in SUBSET Int, IsFiniteSet(S), S # {}
    PROVE  Verdict!Max(S) \in S /\ \A y \in S : Verdict!Max(S) >= y
<1> DEFINE B == {s \in SUBSET S : s # {} /\ ~\E x \in s : \A y \in s : x >= y}
<1>1. B = {}
  <2> SUFFICES ASSUME B # {} PROVE FALSE
    OBVIOUS
  <2>1. PICK s \in B : \A r \in SUBSET s : r # s => r \notin B
    <3>1. B \in SUBSET (SUBSET S)
      OBVIOUS
    <3> HIDE DEF B
    <3> QED BY <3>1, LeastSet
  <2>2. PICK x \in s : TRUE
    OBVIOUS
  <2>3. s \ {x} \in SUBSET s /\ s \ {x} # s /\ s \ {x} \in SUBSET S
    OBVIOUS
  <2>4. s \ {x} = {} \/ \E u \in s \ {x} : \A y \in s \ {x} : u >= y
    BY <2>1, <2>3
  <2>5. CASE s \ {x} = {}
    <3>1. \A y \in s : y = x
      BY <2>5
    <3>2. x \in Int /\ x >= x
      OBVIOUS
    <3> QED BY <3>1, <3>2
  <2>6. ASSUME NEW u \in s \ {x}, \A y \in s \ {x} : u >= y PROVE FALSE
    <3>1. u \in Int /\ x \in Int /\ \A y \in s : y \in Int /\ (y = x \/ u >= y)
      BY <2>6
    <3>2. CASE u >= x
      <4>1. \A y \in s : u >= y
        BY <3>1, <3>2
      <4> QED BY <4>1
    <3>3. CASE ~(u >= x)
      <4>1. \A y \in s : x >= y
        BY <3>1, <3>3
      <4> QED BY <4>1
    <3> QED BY <3>2, <3>3
  <2> QED BY <2>4, <2>5, <2>6
<1>2. \E x \in S : \A y \in S : x >= y
  BY <1>1
<1> QED BY <1>2 DEF Verdict!Max

\* The sum as it is defined, over the parts of a set.
Chosen(s)  == CHOOSE x \in s : TRUE
Part(g, s) == IF s = {} THEN 0 ELSE Verdict!Volume(Chosen(s)) + g[s \ {Chosen(s)}]
Sums(g, S) == g = [s \in SUBSET S |-> Part(g, s)]

\* Up to the parts of n elements.
Upto(g, S, n) == /\ DOMAIN g = {s \in SUBSET S : Cardinality(s) <= n}
                 /\ \A s \in DOMAIN g : g[s] = Part(g, s)

LEMMA ChosenIn == ASSUME NEW s, s # {} PROVE Chosen(s) \in s
BY DEF Chosen

LEMMA SumToMore ==
    ASSUME NEW S, IsFiniteSet(S), NEW n \in Nat, NEW g, Upto(g, S, n)
    PROVE  \E h : Upto(h, S, n + 1)
<1> PICK D : D = {s \in SUBSET S : Cardinality(s) <= n + 1}
  OBVIOUS
<1> DEFINE h == [s \in D |-> Part(g, s)]
<1>1. \A s \in D : IsFiniteSet(s) /\ Cardinality(s) \in Nat
  BY FS_Subset, FS_CardinalityType
<1>2. ASSUME NEW s \in DOMAIN g PROVE s \in D /\ h[s] = g[s]
  <2>1. s \in SUBSET S /\ Cardinality(s) <= n
    BY <1>2 DEF Upto
  <2>2. IsFiniteSet(s)
    BY <2>1, FS_Subset
  <2>3. Cardinality(s) \in Nat
    BY <2>2, FS_CardinalityType
  <2>4. s \in D
    BY <2>1, <2>3
  <2>5. g[s] = Part(g, s)
    BY <1>2 DEF Upto
  <2> QED BY <2>4, <2>5
<1>3. ASSUME NEW s \in D, s # {} PROVE h[s \ {Chosen(s)}] = g[s \ {Chosen(s)}]
  <2> PICK c : c = Chosen(s)
    OBVIOUS
  <2>1. c \in s
    BY <1>3, ChosenIn
  <2>2. Cardinality(s \ {c}) = Cardinality(s) - 1
    BY <1>1, <2>1, FS_RemoveElement
  <2>3. s \ {c} \in SUBSET S /\ Cardinality(s \ {c}) <= n
    BY <1>1, <2>2
  <2>4. s \ {c} \in DOMAIN g
    BY <2>3 DEF Upto
  <2> QED BY <1>2, <2>4
<1>4. DOMAIN h = D /\ \A s \in D : h[s] = Part(g, s)
  OBVIOUS
<1> HIDE DEF h
<1>5. ASSUME NEW s \in D PROVE h[s] = Part(h, s)
  BY <1>3, <1>4 DEF Part
<1> QED BY <1>4, <1>5 DEF Upto

LEMMA SumExists ==
    ASSUME NEW S, IsFiniteSet(S)
    PROVE  \E g : Sums(g, S)
<1> DEFINE B == {n \in Nat : ~\E g : Upto(g, S, n)}
           R == OpToRel(<, Nat)
<1>1. B = {}
  <2> SUFFICES ASSUME B # {} PROVE FALSE
    OBVIOUS
  <2>1. IsWellFoundedOn(R, Nat)
    BY NatLessThanWellFounded
  <2>2. PICK n \in B : \A k \in B : <<k, n>> \notin R
    <3>1. B \subseteq Nat
      OBVIOUS
    <3> HIDE DEF B, R
    <3> QED BY <2>1, <3>1, WFMin
  <2>3. \A k \in B : ~(k < n)
    BY <2>2 DEF OpToRel
  <2>4. CASE n = 0
    <3> DEFINE g == [s \in {{}} |-> 0]
    <3>1. {s \in SUBSET S : Cardinality(s) <= 0} = {{}}
      <4>1. ASSUME NEW s \in SUBSET S, Cardinality(s) <= 0 PROVE s = {}
        <5>1. IsFiniteSet(s)
          BY FS_Subset
        <5>2. Cardinality(s) = 0
          BY <4>1, <5>1, FS_CardinalityType
        <5> QED BY <5>1, <5>2, FS_EmptySet
      <4>2. Cardinality({}) <= 0
        BY FS_EmptySet
      <4> QED BY <4>1, <4>2
    <3>2. Upto(g, S, 0)
      BY <3>1 DEF Upto, Part
    <3> QED BY <2>4, <3>2
  <2>5. CASE n # 0
    <3>1. n - 1 \in Nat /\ n - 1 < n /\ (n - 1) + 1 = n
      BY <2>5
    <3>2. PICK g : Upto(g, S, n - 1)
      BY <2>3, <3>1
    <3>3. \E h : Upto(h, S, n)
      BY <3>1, <3>2, SumToMore
    <3> QED BY <3>3
  <2> QED BY <2>4, <2>5
<1>2. Cardinality(S) \in Nat
  BY FS_CardinalityType
<1>3. PICK g : Upto(g, S, Cardinality(S))
  BY <1>1, <1>2
<1>4. \A s \in SUBSET S : Cardinality(s) <= Cardinality(S)
  BY FS_Subset
<1>5. DOMAIN g = SUBSET S /\ \A s \in SUBSET S : g[s] = Part(g, s)
  BY <1>3, <1>4 DEF Upto
<1> PICK h : h = [s \in SUBSET S |-> Part(g, s)]
  OBVIOUS
<1>6. ASSUME NEW s \in SUBSET S PROVE h[s] = Part(h, s)
  <2>1. s # {} => s \ {Chosen(s)} \in SUBSET S
    OBVIOUS
  <2>2. \A r \in SUBSET S : h[r] = g[r]
    BY <1>5
  <2> QED BY <1>5, <2>1, <2>2 DEF Part
<1>7. h = [s \in SUBSET S |-> Part(h, s)]
  BY <1>6
<1> QED BY <1>7 DEF Sums

\* A sum of numbers is over zero where one of them is.
LEMMA SumOverZero ==
    ASSUME NEW S, IsFiniteSet(S), \A x \in S : Verdict!Volume(x) \in Nat
    PROVE  /\ Verdict!MapThenSumSet(Verdict!Volume, S) \in Nat
           /\ Verdict!MapThenSumSet(Verdict!Volume, S) > 0 <=> \E x \in S : Verdict!Volume(x) > 0
<1> PICK g : g = (CHOOSE it : it = [s \in SUBSET S |-> IF s = {} THEN 0
                              ELSE Verdict!Volume(CHOOSE x \in s : TRUE) + it[s \ {CHOOSE x \in s : TRUE}]])
  OBVIOUS
<1>1. Verdict!MapThenSumSet(Verdict!Volume, S) = g[S]
  BY DEF Verdict!MapThenSumSet, Verdict!MapThenFoldSet
<1>2. g = CHOOSE it : Sums(it, S)
  BY DEF Sums, Part, Chosen
<1>3. Sums(g, S)
  BY <1>2, SumExists
<1>4. \A s \in SUBSET S : g[s] = Part(g, s)
  BY <1>3 DEF Sums
<1> DEFINE Good(s) == g[s] \in Nat /\ (g[s] > 0 <=> \E x \in s : Verdict!Volume(x) > 0)
           B == {s \in SUBSET S : ~Good(s)}
<1>5. B = {}
  <2> SUFFICES ASSUME B # {} PROVE FALSE
    OBVIOUS
  <2>1. PICK s \in B : \A r \in SUBSET s : r # s => r \notin B
    <3>1. B \in SUBSET (SUBSET S)
      OBVIOUS
    <3> HIDE DEF B
    <3> QED BY <3>1, LeastSet
  <2>2. s \in SUBSET S /\ ~Good(s)
    OBVIOUS
  <2>3. CASE s = {}
    <3>1. g[s] = 0
      BY <1>4, <2>2, <2>3 DEF Part
    <3> QED BY <2>2, <2>3, <3>1
  <2>4. CASE s # {}
    <3> PICK c : c = Chosen(s)
      OBVIOUS
    <3>1. c \in s
      BY <2>4, ChosenIn
    <3> PICK r : r = s \ {c}
      OBVIOUS
    <3>2. r \in SUBSET s /\ r # s /\ r \in SUBSET S
      BY <2>2, <3>1
    <3>3. Good(r)
      BY <2>1, <3>2
    <3>4. g[s] = Verdict!Volume(c) + g[r]
      BY <1>4, <2>2, <2>4 DEF Part
    <3>5. Verdict!Volume(c) \in Nat /\ \A x : x \in s <=> x = c \/ x \in r
      BY <2>2, <3>1
    <3> PICK v, w : v = Verdict!Volume(c) /\ w = g[r]
      OBVIOUS
    <3>6. v \in Nat /\ w \in Nat /\ g[s] = v + w
      BY <3>3, <3>4, <3>5
    <3>7. g[s] \in Nat /\ (g[s] > 0 <=> v > 0 \/ w > 0)
      BY <3>6
    <3> HIDE DEF B
    <3>8. (\E x \in s : Verdict!Volume(x) > 0) <=> (v > 0 \/ \E x \in r : Verdict!Volume(x) > 0)
      BY <3>5
    <3> QED BY <2>2, <3>3, <3>7, <3>8
  <2> QED BY <2>3, <2>4
<1>6. Good(S)
  BY <1>5
<1> QED BY <1>1, <1>6

\* What a table has for finitely many keys is finite.
LEMMA ImageFinite ==
    ASSUME NEW f, IsFiniteSet(DOMAIN f)
    PROVE  IsFiniteSet({f[x] : x \in DOMAIN f})
<1> PICK S, T : S = DOMAIN f /\ T = {f[x] : x \in DOMAIN f}
  OBVIOUS
<1> PICK g : g = [x \in S |-> f[x]]
  OBVIOUS
<1>1. g \in [S -> T] /\ \A y \in T : \E x \in S : g[x] = y
  OBVIOUS
<1>2. g \in Surjection(S, T)
  BY <1>1 DEF Surjection
<1> QED BY <1>2, FS_Surjection

-----------------------------------------------------------------------------
(* The verdict. *)

\* A record adds one report at most to the ones within a lifetime.
FewCited == IsFiniteSet(cited)

LEMMA CitedFinite == IsFiniteSet(cited) /\ [Next]_vars => IsFiniteSet(cited')
<1> SUFFICES ASSUME IsFiniteSet(cited), [Next]_vars PROVE IsFiniteSet(cited')
  OBVIOUS
<1>1. ASSUME NEW x, cited' = cited \cup {x} PROVE IsFiniteSet(cited')
  BY <1>1, FS_AddElement
<1>2. CASE Consume
  <2> PICK e : e = Head(wire)
    OBVIOUS
  <2>1. Consumes(e)
    BY <1>2 DEF Consume
  <2>2. CASE Tracker!Prepared(e.ptr, e.module, "whole") \/ Tracker!Finalized(e.ptr, e.module)
    BY <2>2 DEF Tracker!Prepared, Tracker!Finalized, Tracker!history
  <2>3. CASE Tracker!Started(e.ptr, e.module, e.number, e.value)
    BY <2>3 DEF Tracker!Started
  <2>4. CASE Tracker!StartedUnmatched(e.ptr, e.module)
    BY <2>4 DEF Tracker!StartedUnmatched, Tracker!history
  <2>5. CASE Tracker!ExecutedUnmatched(e.ptr, e.module, e.value)
    BY <2>5 DEF Tracker!ExecutedUnmatched, Tracker!history
  <2>6. CASE Tracker!Executed(e.ptr, e.module, e.number, e.value)
    BY <1>1, <2>6, Zenon DEF Tracker!Executed
  <2>7. \/ Tracker!ExecutedFirst(e.ptr, e.module, e.number, e.value)
        \/ Tracker!ExecutedAgain(e.ptr, e.module, e.number, e.value)
        \/ Tracker!ExecutedLate(e.ptr, e.module, e.number, e.value)
        => Tracker!Executed(e.ptr, e.module, e.number, e.value)
    BY Zenon DEF Tracker!ExecutedFirst, Tracker!ExecutedAgain, Tracker!ExecutedLate
  <2> QED BY <2>1, <2>2, <2>3, <2>4, <2>5, <2>6, <2>7 DEF Consumes
<1>3. CASE Finish
  BY <1>3 DEF Finish, Tracker!Finish, Tracker!history
<1>4. CASE UNCHANGED <<trackerVars, lifeOf>>
  BY <1>4 DEF trackerVars
<1>5. CASE UNCHANGED vars
  BY <1>5 DEF vars, trackerVars
<1> QED BY <1>2, <1>3, <1>4, <1>5 DEF Next

\* The executions of the report, as they are aggregated.
LEMMA MeasuredFacts ==
    ASSUME Tracker!EmittedOnce, Tracker!NothingInvented, IsFiniteSet(cited)
    PROVE  /\ IsFiniteSet(Measured)
           /\ \A m \in Measured : m.amount \in Nat /\ Verdict!Volume(m) = m.amount
           /\ \A m \in Measured : \E x \in Emitted : x.work = m.amount
           /\ \A x \in Emitted : \E m \in Measured : x.work = m.amount
<1> DEFINE M(x) == [query |-> Texts[lifeOf[x.occurrence]], amount |-> x.report, times |-> executions[x],
                    id |-> <<x.occurrence, x.number>>]
<1>1. Measured = {M(x) : x \in DOMAIN executions}
  BY DEF Measured
<1>2. IsFiniteSet(DOMAIN executions)
  <2>1. DOMAIN executions \in SUBSET cited
    BY DEF Tracker!NothingInvented
  <2> QED BY <2>1, FS_Subset
<1>3. IsFiniteSet(Measured)
  <2> PICK f : f = [x \in DOMAIN executions |-> M(x)]
    OBVIOUS
  <2>1. DOMAIN f = DOMAIN executions /\ Measured = {f[x] : x \in DOMAIN f}
    BY <1>1
  <2> QED BY <1>2, <2>1, ImageFinite
<1>4. ASSUME NEW x \in DOMAIN executions
      PROVE  M(x).amount = x.report /\ M(x).amount \in Nat /\ Verdict!Volume(M(x)) = M(x).amount
  <2>1. x.report \in Counts /\ executions[x] = 1
    BY DEF Tracker!NothingInvented, Tracker!EmittedOnce
  <2>2. x.report \in Nat
    BY <2>1, CountersAssumption DEF Counts
  <2> QED BY <2>1, <2>2 DEF Verdict!Volume
<1>5. Emitted = {[life |-> lifeOf[x.occurrence], n |-> x.number, work |-> x.report] : x \in DOMAIN executions}
  BY DEF Emitted
<1> HIDE DEF M
<1>6. ASSUME NEW m \in Measured
      PROVE  m.amount \in Nat /\ Verdict!Volume(m) = m.amount /\ \E x \in Emitted : x.work = m.amount
  <2>1. PICK y \in DOMAIN executions : m = M(y)
    BY <1>1
  <2> PICK x : x = [life |-> lifeOf[y.occurrence], n |-> y.number, work |-> y.report]
    OBVIOUS
  <2>2. x \in Emitted /\ x.work = y.report
    BY <1>5
  <2> QED BY <1>4, <2>1, <2>2
<1>7. ASSUME NEW x \in Emitted PROVE \E m \in Measured : x.work = m.amount
  <2>1. PICK y \in DOMAIN executions : x = [life |-> lifeOf[y.occurrence], n |-> y.number, work |-> y.report]
    BY <1>5
  <2>2. x.work = y.report /\ M(y) \in Measured
    BY <1>1, <2>1
  <2> QED BY <1>4, <2>2
<1> QED BY <1>3, <1>6, <1>7

\* An aggregate is over a limit, or over zero in total, where one of its executions is.
LEMMA AggregateFacts ==
    ASSUME IsFiniteSet(Measured), NEW q \in Verdict!Queries(Measured),
           \A m \in Measured : m.amount \in Nat /\ Verdict!Volume(m) = m.amount
    PROVE  LET a == Verdict!Aggregate(q, Measured) IN
           /\ a.query = q
           /\ \A n \in Nat : a.highest > n <=> \E m \in Verdict!Of(q, Measured) : m.amount > n
           /\ a.total > 0 <=> \E m \in Verdict!Of(q, Measured) : m.amount > 0
<1> PICK S, T : S = Verdict!Of(q, Measured) /\ T = {m.amount : m \in S}
  OBVIOUS
<1>1. S \in SUBSET Measured /\ S # {}
  BY DEF Verdict!Of, Verdict!Queries
<1>2. IsFiniteSet(S)
  BY <1>1, FS_Subset
<1>3. \A m \in S : m.amount \in Nat /\ Verdict!Volume(m) = m.amount
  BY <1>1
<1>4. Verdict!MapThenSumSet(Verdict!Volume, S) > 0 <=> \E m \in S : m.amount > 0
  <2>1. Verdict!MapThenSumSet(Verdict!Volume, S) > 0 <=> \E m \in S : Verdict!Volume(m) > 0
    BY <1>2, <1>3, SumOverZero
  <2> QED BY <1>3, <2>1
<1>5. IsFiniteSet(T)
  <2> PICK f : f = [m \in S |-> m.amount]
    OBVIOUS
  <2>1. DOMAIN f = S /\ T = {f[m] : m \in DOMAIN f}
    OBVIOUS
  <2> QED BY <1>2, <2>1, ImageFinite
<1>6. T \in SUBSET Int /\ T # {} /\ T \subseteq Nat
  BY <1>1, <1>3
<1> PICK h : h = Verdict!Max(T)
  OBVIOUS
<1>7. h \in T /\ \A y \in T : h >= y
  BY <1>5, <1>6, MaxOfSet
<1>8. ASSUME NEW n \in Nat PROVE h > n <=> \E m \in S : m.amount > n
  <2>1. ASSUME h > n PROVE \E m \in S : m.amount > n
    BY <1>7, <2>1
  <2>2. ASSUME NEW m \in S, m.amount > n PROVE h > n
    <3>1. m.amount \in T /\ m.amount \in Nat /\ h \in Nat
      BY <1>3, <1>6, <1>7
    <3>2. h >= m.amount
      BY <1>7, <3>1
    <3> QED BY <2>2, <3>1, <3>2
  <2> QED BY <2>1, <2>2
<1>9. /\ Verdict!Aggregate(q, Measured).query = q /\ Verdict!Aggregate(q, Measured).highest = h
      /\ Verdict!Aggregate(q, Measured).total = Verdict!MapThenSumSet(Verdict!Volume, S)
  BY DEF Verdict!Aggregate
<1> QED BY <1>4, <1>8, <1>9

\* A rule is violated where an execution of the report is too much.
LEMMA ViolatedWhereTooMuch ==
    ASSUME Tracker!EmittedOnce, Tracker!NothingInvented, IsFiniteSet(cited), NEW config \in Configs
    PROVE  Verdict!Violations(Verdict!Aggregates(Measured), config) # {} <=> \E x \in Emitted : TooMuch(x, config)
<1>1. /\ IsFiniteSet(Measured)
      /\ \A m \in Measured : m.amount \in Nat /\ Verdict!Volume(m) = m.amount
      /\ \A m \in Measured : \E x \in Emitted : x.work = m.amount
      /\ \A x \in Emitted : \E m \in Measured : x.work = m.amount
  BY MeasuredFacts
<1>2. config.limit \in Nat \cup {Null} /\ config.autoindex \in BOOLEAN
  BY ConfigsAssumption
<1> DEFINE A == Verdict!Aggregates(Measured)
           Exceeding(v) == (config.limit # Null /\ v > config.limit) \/ (config.autoindex /\ v > 0)
<1>3. \A a \in A : \E q \in Verdict!Queries(Measured) : a = Verdict!Aggregate(q, Measured)
  BY DEF Verdict!Aggregates
<1>4. \A q \in Verdict!Queries(Measured) : Verdict!Aggregate(q, Measured) \in A
  BY DEF Verdict!Aggregates
<1>5. Verdict!Violations(A, config) # {}
      <=> \E a \in A : (config.limit # Null /\ a.highest > config.limit) \/ (config.autoindex /\ a.total > 0)
  BY DEF Verdict!Violations
<1>6. \A x : TooMuch(x, config) <=> Exceeding(x.work)
  BY DEF TooMuch
<1>7. ASSUME NEW q \in Verdict!Queries(Measured)
      PROVE  (\/ config.limit # Null /\ Verdict!Aggregate(q, Measured).highest > config.limit
              \/ config.autoindex /\ Verdict!Aggregate(q, Measured).total > 0)
             <=> \E m \in Verdict!Of(q, Measured) : Exceeding(m.amount)
  <2>1. /\ \A n \in Nat : Verdict!Aggregate(q, Measured).highest > n
                             <=> \E m \in Verdict!Of(q, Measured) : m.amount > n
        /\ Verdict!Aggregate(q, Measured).total > 0 <=> \E m \in Verdict!Of(q, Measured) : m.amount > 0
    BY <1>1, AggregateFacts
  <2>2. config.limit # Null => (Verdict!Aggregate(q, Measured).highest > config.limit
                                   <=> \E m \in Verdict!Of(q, Measured) : m.amount > config.limit)
    BY <1>2, <2>1
  <2> QED BY <2>1, <2>2
<1> HIDE DEF A, Exceeding
<1>8. ASSUME NEW x \in Emitted, TooMuch(x, config) PROVE Verdict!Violations(A, config) # {}
  <2>1. PICK m \in Measured : x.work = m.amount
    BY <1>1
  <2>2. m.query \in Verdict!Queries(Measured) /\ m \in Verdict!Of(m.query, Measured)
    BY DEF Verdict!Queries, Verdict!Of
  <2>3. Exceeding(m.amount)
    BY <1>6, <1>8, <2>1
  <2> QED BY <1>4, <1>5, <1>7, <2>2, <2>3
<1>9. ASSUME Verdict!Violations(A, config) # {} PROVE \E x \in Emitted : TooMuch(x, config)
  <2>1. PICK q \in Verdict!Queries(Measured) : \E m \in Verdict!Of(q, Measured) : Exceeding(m.amount)
    BY <1>3, <1>5, <1>7, <1>9
  <2>2. PICK m \in Verdict!Of(q, Measured) : Exceeding(m.amount)
    BY <2>1
  <2>3. m \in Measured
    BY DEF Verdict!Of
  <2>4. PICK x \in Emitted : x.work = m.amount
    BY <1>1, <2>3
  <2> QED BY <1>6, <2>2, <2>4
<1> QED BY <1>8, <1>9 DEF A

\* Exit codes 0 and 1 are what the report says, where it has everything; any reason to
\* doubt it is 70.
LEMMA CodeFollows ==
    ASSUME ReportIsTrue, finished, Heard, Observed, NEW config \in Configs,
           Tracker!EmittedOnce, Tracker!NothingInvented, IsFiniteSet(cited)
    PROVE  /\ Code(config) = 0 => \A x \in app.truth : ~TooMuch(x, config)
           /\ Code(config) = 1 => \E x \in app.truth : TooMuch(x, config)
<1> DEFINE V == Verdict!Violations(Verdict!Aggregates(Measured), config)
           F == Verdict!InstrumentationFailed(Run, config, Reasons)
<1>1. V # {} <=> \E x \in Emitted : TooMuch(x, config)
  BY ViolatedWhereTooMuch
<1>2. Verdict!TargetCode(Run) = 0
  BY DEF Verdict!TargetCode, Run
<1>3. Code(config) = IF F THEN 70 ELSE IF V # {} THEN 1 ELSE 0
  BY <1>2 DEF Code, Verdict!ExitCode
<1>4. F <=> \/ told.fatal \/ told.status = "FAILED"
            \/ Verdict!Enabled(config) /\ (told.status # "ACTIVE" \/ Reasons # {})
  BY DEF Verdict!InstrumentationFailed, Run
<1> HIDE DEF V, F
<1>5. Verdict!Enabled(config) /\ ~F => Emitted = app.truth
  BY <1>4 DEF ReportIsTrue
<1>6. ~Verdict!Enabled(config) => \A x : ~TooMuch(x, config)
  BY DEF Verdict!Enabled, TooMuch
<1>7. CASE F
  BY <1>3, <1>7
<1>8. CASE ~F /\ V = {}
  BY <1>1, <1>3, <1>5, <1>6, <1>8
<1>9. CASE ~F /\ V # {}
  BY <1>1, <1>3, <1>5, <1>6, <1>9
<1> QED BY <1>7, <1>8, <1>9

\* Exit code 0 with a rule enabled says that no execution of the application was over
\* the limit, 1 that one was ("incomplete measurement fails safely instead of reporting a
\* misleading pass"), for any rules and any aggregation of the executions by query.
THEOREM VerdictIsTheTruth == Spec => []VerdictIsTrue
<1>1. Init => FewCited
  BY FS_EmptySet DEF Init, Tracker!Init, FewCited
<1>2. FewCited /\ [Next]_vars => FewCited'
  BY CitedFinite DEF FewCited
<1>3. Spec => []FewCited
  BY <1>1, <1>2, PTL DEF Spec
<1>4. ReportIsTrue /\ Tracker!EmittedOnce /\ Tracker!NothingInvented /\ FewCited => VerdictIsTrue
  BY CodeFollows DEF VerdictIsTrue, FewCited
<1> QED BY <1>3, <1>4, ReportIsTheTruth, TrackerKeeps, PTL
=============================================================================
