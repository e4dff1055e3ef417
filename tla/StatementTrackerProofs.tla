----------------------- MODULE StatementTrackerProofs -----------------------
(***************************************************************************)
(* Proofs about StatementTracker, for any number of statements, any window  *)
(* and any sequence of events.  The inductive invariant relates what is in  *)
(* the window, what has left it, and what was told.                         *)
(***************************************************************************)
EXTENDS StatementTracker, FiniteSetTheorems, TLAPS

\* A window holds an execution once.
Distinct(q) == \A j, k \in DOMAIN q : q[j].number = q[k].number => j = k

\* What is told of an execution of l is one thing only, x.
OnlyTold(x) == \A y \in told : SameExecution(x, y) => x = y

\* Every entry of the window was told, and an entry that is still a candidate
\* is the only thing told of its execution.
WindowInv(l) ==
    /\ Distinct(l.pending)
    /\ \A p \in Range(l.pending) :
          /\ Told(l, p.number, p.report) \in told
          /\ p.candidate = "tracked" => IsCandidate(l, p.report) /\ OnlyTold(Told(l, p.number, p.report))

\* Everything told of a lifetime is in its window or at most its committed
\* number; what was emitted is the latter only.
EdgeInv(s, l) ==
    /\ l.occurrence <= occurrences
    /\ \A u \in DOMAIN active : active[u].occurrence = l.occurrence => u = s
    /\ \A x \in told : x.occurrence = l.occurrence => x.capture = l.capture /\ Past(l, x.number)
    /\ \A x \in DOMAIN executions : x.occurrence = l.occurrence
           => x.number <= l.committed /\ x.number \notin PendingNumbers(l)

\* Without a loss on the counters, what was told is emitted or about to be, and
\* what was begun is told or still running.
Accounted(x) == x \in DOMAIN executions \/ \E s \in DOMAIN active : x \in Safe(active[s])
Running(b)   == \E s \in DOMAIN active : /\ b[1] = active[s].occurrence
                                        /\ b[2] \in DOMAIN active[s].started
Reported(b)  == \E x \in told : b = <<x.occurrence, x.number>>
LossInv ==
    Conclusive => /\ \A x \in told : Accounted(x)
                  /\ \A b \in begun : Reported(b) \/ Running(b)

\* Finiteness, which TLC takes for granted and the count of unfinished needs.
FiniteInv == IsFiniteSet(DOMAIN active) /\ \A s \in DOMAIN active : IsFiniteSet(DOMAIN active[s].started)

IInv ==
    /\ TypeOK /\ FiniteInv
    /\ \A s \in DOMAIN active : WindowInv(active[s]) /\ EdgeInv(s, active[s])
    /\ \A x \in told : x.occurrence <= occurrences
    /\ EmittedOnce /\ NothingInvented /\ ConflictsSurface /\ LossInv

-----------------------------------------------------------------------------
(* An entry of a fresh number appended to a window is its one new member.   *)
LEMMA AppendEntry ==
    ASSUME NEW q \in Seq(Entry), NEW e \in Entry, Distinct(q),
           \A p \in Range(q) : p.number # e.number
    PROVE  /\ Append(q, e) \in Seq(Entry) /\ Append(q, e) # << >>
           /\ Len(Append(q, e)) = Len(q) + 1
           /\ Range(Append(q, e)) = Range(q) \cup {e}
           /\ Distinct(Append(q, e))
<1> DEFINE r == Append(q, e)
<1>1. /\ r \in Seq(Entry) /\ r # << >> /\ Len(r) = Len(q) + 1
      /\ DOMAIN q = 1 .. Len(q) /\ DOMAIN r = 1 .. Len(q) + 1 /\ Len(q) \in Nat
      /\ \A i \in 1 .. Len(q) : r[i] = q[i]
      /\ r[Len(q) + 1] = e
  OBVIOUS
<1> HIDE DEF r
<1>2. Range(r) = Range(q) \cup {e}
  <2>1. \A i \in DOMAIN r : r[i] \in Range(q) \cup {e}
    BY <1>1 DEF Range
  <2>2. \A i \in DOMAIN q : i \in DOMAIN r /\ r[i] = q[i]
    BY <1>1
  <2>3. e \in Range(r)
    BY <1>1 DEF Range
  <2> QED BY <2>1, <2>2, <2>3 DEF Range
<1>3. Distinct(r)
  <2> SUFFICES ASSUME NEW j \in DOMAIN r, NEW k \in DOMAIN r, r[j].number = r[k].number
               PROVE  j = k
    BY DEF Distinct
  <2>1. \A i \in DOMAIN q : q[i].number # e.number
    BY DEF Range
  <2>2. CASE j \in DOMAIN q /\ k \in DOMAIN q
    BY <2>2, <1>1 DEF Distinct
  <2>3. CASE j \notin DOMAIN q \/ k \notin DOMAIN q
    BY <2>3, <2>1, <1>1
  <2> QED BY <2>2, <2>3
<1> QED BY <1>1, <1>2, <1>3 DEF r

\* The oldest of an extended window that was not empty was in it before.
LEMMA AppendHead ==
    ASSUME NEW q \in Seq(Entry), NEW e \in Entry, Len(q) >= 1
    PROVE  Head(Append(q, e)) \in Range(q)
<1>1. 1 \in DOMAIN q /\ Append(q, e)[1] = q[1] /\ Append(q, e) # << >>
  OBVIOUS
<1>2. Head(Append(q, e)) = Append(q, e)[1]
  BY <1>1
<1> QED BY <1>1, <1>2 DEF Range

(* The oldest entry of a window leaves the rest of it.                      *)
LEMMA PopEntry ==
    ASSUME NEW q \in Seq(Entry), q # << >>, Distinct(q)
    PROVE  /\ Head(q) \in Entry /\ Tail(q) \in Seq(Entry) /\ Len(Tail(q)) = Len(q) - 1
           /\ Range(q) = Range(Tail(q)) \cup {Head(q)}
           /\ Distinct(Tail(q))
           /\ \A p \in Range(Tail(q)) : p.number # Head(q).number
<1> DEFINE r == Tail(q)
<1>1. /\ r \in Seq(Entry) /\ Len(r) = Len(q) - 1 /\ Len(q) \in Nat /\ Len(q) >= 1
      /\ DOMAIN q = 1 .. Len(q) /\ DOMAIN r = 1 .. Len(q) - 1
      /\ \A i \in 1 .. Len(q) - 1 : r[i] = q[i + 1]
      /\ Head(q) = q[1] /\ q[1] \in Entry
  OBVIOUS
<1> HIDE DEF r
<1>2. Range(q) = Range(r) \cup {q[1]}
  <2>1. \A i \in DOMAIN q : i = 1 \/ (i - 1 \in DOMAIN r /\ r[i - 1] = q[i])
    BY <1>1
  <2>2. \A i \in DOMAIN r : i + 1 \in DOMAIN q /\ r[i] = q[i + 1]
    BY <1>1
  <2>3. 1 \in DOMAIN q
    BY <1>1
  <2> QED BY <2>1, <2>2, <2>3 DEF Range
<1>3. Distinct(r)
  <2> SUFFICES ASSUME NEW j \in DOMAIN r, NEW k \in DOMAIN r, r[j].number = r[k].number
               PROVE  j = k
    BY DEF Distinct
  <2>1. j + 1 \in DOMAIN q /\ k + 1 \in DOMAIN q /\ q[j + 1].number = q[k + 1].number
    BY <1>1
  <2>2. j + 1 = k + 1
    BY <2>1 DEF Distinct
  <2> QED BY <2>2, <1>1
<1>4. \A p \in Range(r) : p.number # q[1].number
  <2> SUFFICES ASSUME NEW i \in DOMAIN r, r[i].number = q[1].number PROVE FALSE
    BY DEF Range
  <2>1. i + 1 \in DOMAIN q /\ 1 \in DOMAIN q /\ q[i + 1].number = q[1].number /\ i + 1 # 1
    BY <1>1
  <2> QED BY <2>1 DEF Distinct
<1> QED BY <1>1, <1>2, <1>3, <1>4 DEF r

(* A disputed entry stays in the window and is no longer a candidate.       *)
LEMMA DisputeEntry ==
    ASSUME NEW q \in Seq(Entry), NEW n \in Numbers, Distinct(q)
    PROVE  LET r == Disputed(q, n) IN
           /\ r \in Seq(Entry) /\ Len(r) = Len(q)
           /\ Distinct(r)
           /\ \A p \in Range(r) : p.candidate = "tracked" => p \in Range(q) /\ p.number # n
           /\ \A p \in Range(r) : \E o \in Range(q) : o.number = p.number /\ o.report = p.report
           /\ {p.number : p \in Range(r)} = {p.number : p \in Range(q)}
<1> DEFINE r == Disputed(q, n)
<1>1. /\ DOMAIN r = DOMAIN q
      /\ r = [i \in DOMAIN q |-> r[i]]
      /\ \A i \in DOMAIN q :
            r[i] = IF q[i].number = n THEN [q[i] EXCEPT !.candidate = "none"] ELSE q[i]
  BY DEF Disputed
<1> HIDE DEF r
<1>2. DOMAIN q = 1 .. Len(q) /\ Len(q) \in Nat /\ \A i \in DOMAIN q : q[i] \in Entry
  OBVIOUS
<1>3. \A i \in DOMAIN q : /\ r[i] \in Entry
                         /\ r[i].number = q[i].number /\ r[i].report = q[i].report
  BY <1>1, <1>2 DEF Entry
<1>4. \A i \in DOMAIN q : r[i].candidate = "tracked" => r[i] = q[i] /\ q[i].number # n
  BY <1>1, <1>2 DEF Entry
<1>5. r \in Seq(Entry) /\ Len(r) = Len(q)
  <2>1. r \in [1 .. Len(q) -> Entry]
    BY <1>1, <1>2, <1>3
  <2> QED BY <2>1, <1>2
<1>6. Distinct(r)
  BY <1>1, <1>3 DEF Distinct
<1>7. \A p \in Range(r) : p.candidate = "tracked" => p \in Range(q) /\ p.number # n
  BY <1>1, <1>4 DEF Range
<1>8. \A p \in Range(r) : \E o \in Range(q) : o.number = p.number /\ o.report = p.report
  BY <1>1, <1>3 DEF Range
<1>9. {p.number : p \in Range(r)} = {p.number : p \in Range(q)}
  <2>1. \A o \in Range(q) : \E p \in Range(r) : o.number = p.number
    BY <1>1, <1>3 DEF Range
  <2> QED BY <1>8, <2>1
<1> QED BY <1>5, <1>6, <1>7, <1>8, <1>9 DEF r

(* Counting: no counter goes down, and the counters named go up.            *)
LEMMA CountUp ==
    ASSUME NEW names, quality \in [Counters -> Nat], quality' = Count(names)
    PROVE  /\ quality' \in [Counters -> Nat]
           /\ \A c \in Counters : quality[c] <= quality'[c]
           /\ \A c \in Counters \cap names : quality'[c] > 0
           /\ Conclusive' => Conclusive /\ names \cap Losses = {}
<1>1. \A c \in Counters : /\ quality'[c] = quality[c] + (IF c \in names THEN 1 ELSE 0)
                          /\ quality[c] \in Nat
  BY DEF Count
<1>2. quality' \in [Counters -> Nat]
  <2>1. quality' = [c \in Counters |-> quality'[c]]
    BY DEF Count
  <2>2. \A c \in Counters : quality'[c] \in Nat
    BY <1>1
  <2> QED BY <2>1, <2>2
<1>3. /\ \A c \in Counters : quality[c] <= quality'[c]
      /\ \A c \in Counters \cap names : quality'[c] > 0
  BY <1>1
<1>4. Conclusive' => Conclusive /\ names \cap Losses = {}
  <2>1. Losses \subseteq Counters
    BY DEF Losses, Counters
  <2> QED BY <1>1, <1>3, <2>1 DEF Conclusive
<1> QED BY <1>2, <1>3, <1>4

(* The threads that started the executions of a lifetime.                   *)
LEMMA StartedTable ==
    ASSUME NEW ns \in SUBSET Numbers, NEW f \in [ns -> Threads],
           NEW n \in Numbers, NEW t \in Threads, IsFiniteSet(DOMAIN f)
    PROVE  /\ Put(f, n, t) \in UNION {[ms -> Threads] : ms \in SUBSET Numbers}
           /\ Drop(f, {n}) \in UNION {[ms -> Threads] : ms \in SUBSET Numbers}
           /\ DOMAIN Put(f, n, t) = DOMAIN f \cup {n}
           /\ DOMAIN Drop(f, {n}) = DOMAIN f \ {n}
           /\ IsFiniteSet(DOMAIN Put(f, n, t)) /\ IsFiniteSet(DOMAIN Drop(f, {n}))
<1>1. DOMAIN Put(f, n, t) = DOMAIN f \cup {n} /\ DOMAIN Drop(f, {n}) = DOMAIN f \ {n}
  BY DEF Put, Drop
<1>2. Put(f, n, t) \in [ns \cup {n} -> Threads]
  BY DEF Put
<1>3. Drop(f, {n}) \in [ns \ {n} -> Threads]
  BY DEF Drop
<1>4. ns \cup {n} \in SUBSET Numbers /\ ns \ {n} \in SUBSET Numbers
  OBVIOUS
<1>5. IsFiniteSet(DOMAIN f \cup {n}) /\ IsFiniteSet(DOMAIN f \ {n})
  BY FS_AddElement, FS_Subset
<1> QED BY <1>1, <1>2, <1>3, <1>4, <1>5

(* What a flush would emit of a lifetime is told of alone, and new.         *)
LEMMA SafeToEmit ==
    ASSUME IInv, NEW s \in DOMAIN active, NEW x \in Safe(active[s])
    PROVE  /\ x \in told /\ x.report \in Measured /\ x.capture = "whole" /\ OnlyTold(x)
           /\ x.occurrence = active[s].occurrence /\ x.number \in PendingNumbers(active[s])
           /\ \A y \in DOMAIN executions : ~SameExecution(x, y)
<1> DEFINE l == active[s]
<1>1. PICK p \in Range(l.pending) : p.candidate = "tracked" /\ x = Told(l, p.number, p.report)
  BY DEF Safe
<1>2. x \in told /\ OnlyTold(x) /\ IsCandidate(l, p.report)
  BY <1>1 DEF IInv, WindowInv
<1>3. /\ x.occurrence = l.occurrence /\ x.number = p.number /\ x.report = p.report
      /\ x.capture = l.capture
  BY <1>1 DEF Told
<1>4. x.number \in PendingNumbers(l)
  BY <1>3 DEF PendingNumbers
<1>5. ASSUME NEW y \in DOMAIN executions, SameExecution(x, y) PROVE FALSE
  BY <1>3, <1>4, <1>5 DEF IInv, EdgeInv, SameExecution
<1> QED BY <1>2, <1>3, <1>4, <1>5 DEF IsCandidate

(* Emitting what is told of alone, and new, keeps what was emitted sound.   *)
LEMMA EmitSound ==
    ASSUME IInv, NEW es, executions' = Emitted(es),
           \A x \in es : /\ x \in told /\ x.report \in Measured /\ x.capture = "whole"
                        /\ OnlyTold(x)
                        /\ \A y \in DOMAIN executions : ~SameExecution(x, y)
    PROVE  /\ DOMAIN executions' = DOMAIN executions \cup es
           /\ DOMAIN executions' \subseteq told
           /\ \A x \in DOMAIN executions' : x.report \in Measured /\ x.capture = "whole"
           /\ EmittedOnce'
           /\ EmitsUndisputed(executions, executions')
<1>1. DOMAIN executions' = DOMAIN executions \cup es
  BY DEF Emitted
<1>2. \A x \in DOMAIN executions : /\ x \in told /\ x.report \in Measured /\ x.capture = "whole"
                                  /\ executions[x] = 1
  BY DEF IInv, NothingInvented, EmittedOnce
<1>3. \A x \in es : x \notin DOMAIN executions
  BY DEF SameExecution
<1>4. \A x \in DOMAIN executions' : executions'[x] = 1
  <2> SUFFICES ASSUME NEW x \in DOMAIN executions' PROVE executions'[x] = 1
    OBVIOUS
  <2>1. executions'[x] = (IF x \in DOMAIN executions THEN executions[x] ELSE 0)
                             + (IF x \in es THEN 1 ELSE 0)
    BY <1>1 DEF Emitted
  <2> QED BY <2>1, <1>1, <1>2, <1>3
<1>5. ASSUME NEW x \in DOMAIN executions', NEW y \in DOMAIN executions', SameExecution(x, y)
      PROVE  x = y
  <2>1. CASE x \in es
    BY <2>1, <1>1, <1>5 DEF OnlyTold
  <2>2. CASE y \in es
    <3>1. SameExecution(y, x)
      BY <1>5 DEF SameExecution
    <3> QED BY <2>2, <3>1, <1>1 DEF OnlyTold
  <2>3. CASE x \in DOMAIN executions /\ y \in DOMAIN executions
    BY <2>3, <1>5 DEF IInv, EmittedOnce
  <2> QED BY <2>1, <2>2, <2>3, <1>1
<1>6. EmitsUndisputed(executions, executions')
  BY <1>1 DEF EmitsUndisputed, OnlyTold
<1> QED BY <1>1, <1>2, <1>4, <1>5, <1>6 DEF EmittedOnce

(* The executions left running are counted, none is left out of the count.  *)
LEMMA UnfinishedCount ==
    ASSUME IInv, NEW ss \in SUBSET DOMAIN active
    PROVE  /\ Cardinality(Unfinished(ss)) \in Nat
           /\ Cardinality(Unfinished(ss)) = 0 => \A s \in ss : DOMAIN active[s].started = {}
<1> DEFINE f == [s \in ss |-> {s} \X DOMAIN active[s].started]
           T == {{s} \X DOMAIN active[s].started : s \in ss}
<1>1. IsFiniteSet(ss)
  BY FS_Subset DEF IInv, FiniteInv
<1>2. f \in Surjection(ss, T)
  BY DEF Surjection
<1>3. IsFiniteSet(T)
  BY <1>1, <1>2, FS_Surjection
<1>4. \A U \in T : IsFiniteSet(U)
  <2> SUFFICES ASSUME NEW s \in ss PROVE IsFiniteSet({s} \X DOMAIN active[s].started)
    OBVIOUS
  <2>1. IsFiniteSet({s}) /\ IsFiniteSet(DOMAIN active[s].started)
    BY FS_Singleton DEF IInv, FiniteInv
  <2> QED BY <2>1, FS_Product
<1>5. IsFiniteSet(Unfinished(ss))
  <2> HIDE DEF T
  <2>1. IsFiniteSet(UNION T)
    BY <1>3, <1>4, FS_UNION
  <2> QED BY <2>1 DEF Unfinished, T
<1>6. Unfinished(ss) = {} => \A s \in ss : DOMAIN active[s].started = {}
  <2> SUFFICES ASSUME NEW s \in ss, NEW n \in DOMAIN active[s].started
               PROVE  Unfinished(ss) # {}
    OBVIOUS
  <2>1. <<s, n>> \in Unfinished(ss)
    BY DEF Unfinished
  <2> QED BY <2>1
<1> QED BY <1>5, <1>6, FS_CardinalityType, FS_EmptySet

(* A flush keeps what was emitted sound, counts what it leaves running, and *)
(* emits nothing of the lifetimes that stay.                                *)
LEMMA FlushSound ==
    ASSUME IInv, NEW ss \in SUBSET DOMAIN active, Flush(ss)
    PROVE  /\ DOMAIN executions' = DOMAIN executions \cup UNION {Safe(active[s]) : s \in ss}
           /\ DOMAIN executions' \subseteq told
           /\ \A x \in DOMAIN executions' : x.report \in Measured /\ x.capture = "whole"
           /\ EmittedOnce'
           /\ EmitsUndisputed(executions, executions')
           /\ \A s \in DOMAIN active \ ss : \A x \in DOMAIN executions' :
                 x.occurrence = active[s].occurrence => x \in DOMAIN executions
           /\ quality' \in [Counters -> Nat]
           /\ quality'["conflicted"] = quality["conflicted"]
           /\ Conclusive' => Conclusive /\ \A s \in ss : DOMAIN active[s].started = {}
<1> DEFINE es == UNION {Safe(active[s]) : s \in ss}
<1>1. \A x \in es : \E s \in ss : s \in DOMAIN active /\ x \in Safe(active[s])
  OBVIOUS
<1>2. \A x \in es : /\ x \in told /\ x.report \in Measured /\ x.capture = "whole"
                    /\ OnlyTold(x)
                    /\ \A y \in DOMAIN executions : ~SameExecution(x, y)
  BY <1>1, SafeToEmit
<1>3. executions' = Emitted(es)
  BY DEF Flush
<1>4. /\ DOMAIN executions' = DOMAIN executions \cup es
      /\ DOMAIN executions' \subseteq told
      /\ \A x \in DOMAIN executions' : x.report \in Measured /\ x.capture = "whole"
      /\ EmittedOnce'
      /\ EmitsUndisputed(executions, executions')
  <2> HIDE DEF es
  <2> QED BY <1>2, <1>3, EmitSound
<1>5. ASSUME NEW s \in DOMAIN active \ ss, NEW x \in DOMAIN executions',
             x.occurrence = active[s].occurrence
      PROVE  x \in DOMAIN executions
  <2> SUFFICES ASSUME x \in es PROVE FALSE
    BY <1>4
  <2>1. PICK u \in ss : u \in DOMAIN active /\ x \in Safe(active[u])
    BY <1>1
  <2>2. x.occurrence = active[u].occurrence
    BY <2>1, SafeToEmit
  <2>3. u = s
    BY <1>5, <2>1, <2>2 DEF IInv, EdgeInv
  <2> QED BY <2>3
<1>6. /\ quality' \in [Counters -> Nat]
      /\ quality'["conflicted"] = quality["conflicted"]
      /\ Conclusive' => Conclusive /\ \A s \in ss : DOMAIN active[s].started = {}
  <2>1. quality \in [Counters -> Nat]
    BY DEF IInv, TypeOK
  <2>2. quality' = [quality EXCEPT !["unfinished"] =
                       quality["unfinished"] + Cardinality(Unfinished(ss))]
    BY DEF Flush
  <2>3. /\ "unfinished" \in Counters /\ "conflicted" \in Counters
        /\ "unfinished" \in Losses /\ Losses \subseteq Counters
    BY DEF Counters, Losses
  <2>4. quality' \in [Counters -> Nat] /\ quality'["conflicted"] = quality["conflicted"]
    BY <2>1, <2>2, <2>3, UnfinishedCount
  <2>5. \A c \in Counters : c # "unfinished" => quality'[c] = quality[c]
    BY <2>1, <2>2
  <2>6. /\ quality'["unfinished"] = quality["unfinished"] + Cardinality(Unfinished(ss))
        /\ quality["unfinished"] \in Nat
    BY <2>1, <2>2, <2>3
  <2>7. ASSUME Conclusive'
        PROVE  Conclusive /\ \A s \in ss : DOMAIN active[s].started = {}
    <3>1. \A c \in Losses : quality'[c] = 0
      BY <2>7 DEF Conclusive
    <3>2. quality["unfinished"] = 0 /\ Cardinality(Unfinished(ss)) = 0
      BY <3>1, <2>3, <2>6, UnfinishedCount
    <3>3. \A c \in Losses : quality[c] = 0
      BY <3>1, <3>2, <2>3, <2>5
    <3> QED BY <3>2, <3>3, UnfinishedCount DEF Conclusive
  <2> QED BY <2>4, <2>7
<1> QED BY <1>4, <1>5, <1>6

(* Lifetimes that are flushed and dropped, and at most one that is new.     *)
LEMMA FlushStep ==
    ASSUME IInv, NEW ss \in SUBSET DOMAIN active, Flush(ss), UNCHANGED history,
           NEW fresh \in SUBSET Statements, \A s, u \in fresh : s = u,
           occurrences' \in Nat, occurrences <= occurrences',
           DOMAIN active' = (DOMAIN active \ ss) \cup fresh,
           \A s \in (DOMAIN active \ ss) \ fresh : active'[s] = active[s],
           \A s \in fresh : /\ s \notin DOMAIN active \ ss
                            /\ active'[s] \in Lifetime
                            /\ active'[s].occurrence = occurrences' /\ occurrences < occurrences'
                            /\ active'[s].pending = << >> /\ active'[s].started = << >>,
           consumed' \in Nat, finished' \in BOOLEAN, finished' => active' = << >>
    PROVE  IInv' /\ EmitsUndisputed(executions, executions')
<1>a. DOMAIN executions' = DOMAIN executions \cup UNION {Safe(active[s]) : s \in ss}
  BY FlushSound
<1>b. /\ DOMAIN executions' \subseteq told
      /\ \A x \in DOMAIN executions' : x.report \in Measured /\ x.capture = "whole"
      /\ EmittedOnce' /\ EmitsUndisputed(executions, executions')
  BY FlushSound
<1>c. \A s \in DOMAIN active \ ss : \A x \in DOMAIN executions' :
         x.occurrence = active[s].occurrence => x \in DOMAIN executions
  BY FlushSound
<1>d. /\ quality' \in [Counters -> Nat]
      /\ quality'["conflicted"] = quality["conflicted"]
      /\ Conclusive' => Conclusive /\ \A s \in ss : DOMAIN active[s].started = {}
  BY FlushSound
<1>1. told' = told /\ begun' = begun
  BY DEF history
<1>2. \A s \in DOMAIN active' : \/ s \in DOMAIN active \ ss /\ active'[s] = active[s]
                                \/ s \in fresh
  OBVIOUS
<1>3. TypeOK'
  <2>1. \A s \in fresh : Len(active'[s].pending) <= Window
    BY WindowAssumption
  <2>2. DOMAIN active' \subseteq Statements
    BY DEF IInv, TypeOK
  <2>3. \A s \in DOMAIN active' : active'[s] \in Lifetime /\ Len(active'[s].pending) <= Window
    BY <1>2, <2>1 DEF IInv, TypeOK
  <2>4. DOMAIN executions' \subseteq Execution /\ \A x \in DOMAIN executions' : executions'[x] \in Nat
    BY <1>b DEF IInv, TypeOK, EmittedOnce
  <2>5. told' \subseteq Execution /\ begun' \subseteq Nat \X Numbers
    BY <1>1 DEF IInv, TypeOK
  <2> QED BY <1>d, <2>2, <2>3, <2>4, <2>5 DEF IInv, TypeOK
<1>4. FiniteInv'
  <2>1. IsFiniteSet(DOMAIN active \ ss)
    BY FS_Difference DEF IInv, FiniteInv
  <2>2. fresh = {} \/ \E s \in fresh : fresh = {s}
    OBVIOUS
  <2>3. IsFiniteSet(fresh)
    <3>1. IsFiniteSet({}) /\ \A s \in fresh : IsFiniteSet({s})
      BY FS_EmptySet, FS_Singleton
    <3> QED BY <2>2, <3>1
  <2>4. IsFiniteSet(DOMAIN active')
    <3>1. IsFiniteSet((DOMAIN active \ ss) \cup fresh)
      BY ONLY <2>1, <2>3, FS_Union
    <3> QED BY <3>1
  <2>5. \A s \in fresh : DOMAIN active'[s].started = {}
    OBVIOUS
  <2>6. \A s \in DOMAIN active' : IsFiniteSet(DOMAIN active'[s].started)
    BY <1>2, <2>5, FS_EmptySet DEF IInv, FiniteInv
  <2> QED BY <2>4, <2>6 DEF FiniteInv
<1>5. ASSUME NEW s \in DOMAIN active' PROVE (WindowInv(active[s]) /\ EdgeInv(s, active[s]))'
  <2>1. CASE s \in DOMAIN active \ ss /\ active'[s] = active[s]
    <3>1. WindowInv(active[s]) /\ EdgeInv(s, active[s])
      BY <2>1 DEF IInv
    <3>2. WindowInv(active[s])'
      BY <2>1, <1>1, <3>1 DEF WindowInv, OnlyTold
    <3>3. ASSUME NEW u \in DOMAIN active', active'[u].occurrence = active'[s].occurrence
          PROVE  u = s
      <4>1. CASE u \in DOMAIN active \ ss /\ active'[u] = active[u]
        BY <2>1, <3>1, <3>3, <4>1 DEF EdgeInv
      <4>2. CASE u \in fresh
        <5>1. active[s].occurrence \in Nat
          BY <2>1 DEF IInv, TypeOK, Lifetime
        <5>2. active[s].occurrence <= occurrences /\ occurrences \in Nat
          BY <3>1 DEF EdgeInv, IInv, TypeOK
        <5> QED BY <2>1, <4>2, <5>1, <5>2, <3>3
      <4> QED BY <1>2, <4>1, <4>2
    <3>4. EdgeInv(s, active[s])'
      <4>1. active[s].occurrence <= occurrences'
        <5>1. active[s].occurrence \in Nat /\ occurrences \in Nat
          BY <2>1 DEF IInv, TypeOK, Lifetime
        <5> QED BY <5>1, <3>1 DEF EdgeInv
      <4>2. \A x \in told : x.occurrence = active[s].occurrence
               => x.capture = active[s].capture /\ Past(active[s], x.number)
        BY <3>1 DEF EdgeInv
      <4>3. \A x \in DOMAIN executions' : x.occurrence = active[s].occurrence
               => x.number <= active[s].committed /\ x.number \notin PendingNumbers(active[s])
        BY <1>c, <2>1, <3>1 DEF EdgeInv
      <4> QED BY <2>1, <1>1, <3>3, <4>1, <4>2, <4>3 DEF EdgeInv, Past, PendingNumbers
    <3> QED BY <3>2, <3>4
  <2>2. CASE s \in fresh
    <3>1. Range(active'[s].pending) = {} /\ Distinct(active'[s].pending)
      BY <2>2 DEF Range, Distinct
    <3>2. WindowInv(active[s])'
      BY <3>1 DEF WindowInv
    <3>3. \A x \in told : x.occurrence # active'[s].occurrence
      <4>1. \A x \in told : x.occurrence <= occurrences /\ x.occurrence \in Nat
        BY DEF IInv, TypeOK, Execution
      <4> QED BY <4>1, <2>2 DEF IInv, TypeOK
    <3>4. ASSUME NEW u \in DOMAIN active', active'[u].occurrence = active'[s].occurrence
          PROVE  u = s
      <4>1. CASE u \in DOMAIN active \ ss /\ active'[u] = active[u]
        <5>1. active[u].occurrence \in Nat
          BY <4>1 DEF IInv, TypeOK, Lifetime
        <5>2. active[u].occurrence <= occurrences /\ occurrences \in Nat
          BY <4>1 DEF EdgeInv, IInv, TypeOK
        <5> QED BY <2>2, <4>1, <5>1, <5>2, <3>4
      <4>2. CASE u \in fresh
        BY <2>2, <4>2
      <4> QED BY <1>2, <4>1, <4>2
    <3>5. EdgeInv(s, active[s])'
      <4>1. active'[s].occurrence <= occurrences'
        BY <2>2
      <4>2. \A x \in DOMAIN executions' : x.occurrence # active'[s].occurrence
        BY <1>b, <3>3
      <4> QED BY <1>1, <3>3, <3>4, <4>1, <4>2 DEF EdgeInv
    <3> QED BY <3>2, <3>5
  <2> QED BY <1>2, <2>1, <2>2
<1>6. \A x \in told' : x.occurrence <= occurrences'
  <2>1. \A x \in told : x.occurrence <= occurrences /\ x.occurrence \in Nat
    BY DEF IInv, TypeOK, Execution
  <2> QED BY <1>1, <2>1 DEF IInv, TypeOK
<1>7. EmittedOnce' /\ NothingInvented' /\ ConflictsSurface'
  BY <1>1, <1>b, <1>d DEF IInv, NothingInvented, ConflictsSurface
<1>8. LossInv'
  <2> SUFFICES ASSUME Conclusive'
               PROVE  /\ \A x \in told : Accounted(x)'
                      /\ \A b \in begun : Reported(b) \/ Running(b)'
    BY <1>1 DEF LossInv, Reported
  <2>1. /\ \A x \in told : Accounted(x)
        /\ \A b \in begun : Reported(b) \/ Running(b)
        /\ \A s \in ss : DOMAIN active[s].started = {}
    BY <1>d DEF IInv, LossInv
  <2>2. \A s \in DOMAIN active \ ss : s \in DOMAIN active' /\ active'[s] = active[s]
    OBVIOUS
  <2>3. ASSUME NEW x \in told PROVE Accounted(x)'
    <3>1. CASE x \in DOMAIN executions
      BY <1>a, <3>1 DEF Accounted
    <3>2. ASSUME NEW s \in DOMAIN active, x \in Safe(active[s]) PROVE Accounted(x)'
      <4>1. CASE s \in ss
        <5>1. x \in DOMAIN executions'
          BY <1>a, <3>2, <4>1
        <5> QED BY <5>1 DEF Accounted
      <4>2. CASE s \notin ss
        <5>1. s \in DOMAIN active' /\ x \in Safe(active'[s])
          BY <2>2, <3>2, <4>2
        <5> QED BY <5>1 DEF Accounted, Safe, Told
      <4> QED BY <4>1, <4>2
    <3> QED BY <2>1, <3>1, <3>2 DEF Accounted
  <2>4. ASSUME NEW b \in begun PROVE Reported(b) \/ Running(b)'
    <3> SUFFICES ASSUME Running(b) PROVE Running(b)'
      BY <2>1
    <3>1. PICK s \in DOMAIN active : b[1] = active[s].occurrence /\ b[2] \in DOMAIN active[s].started
      BY DEF Running
    <3>2. s \notin ss
      BY <2>1, <3>1
    <3> QED BY <2>2, <3>1, <3>2 DEF Running
  <2> QED BY <2>3, <2>4
<1> QED BY <1>b, <1>3, <1>4, <1>5, <1>6, <1>7, <1>8 DEF IInv

-----------------------------------------------------------------------------
(* An event that only counts: what was begun and is neither told of nor     *)
(* running is a loss.                                                       *)
LEMMA CountStep ==
    ASSUME IInv, NEW names, quality' = Count(names),
           UNCHANGED <<active, occurrences, executions, finished, told>>, consumed' \in Nat,
           begun' \subseteq Nat \X Numbers,
           \A b \in begun' : b \in begun \/ Running(b) \/ names \cap Losses # {}
    PROVE  IInv'
<1>1. /\ quality' \in [Counters -> Nat]
      /\ quality["conflicted"] <= quality'["conflicted"]
      /\ quality["conflicted"] \in Nat /\ quality'["conflicted"] \in Nat
      /\ Conclusive' => Conclusive /\ names \cap Losses = {}
  <2>1. quality \in [Counters -> Nat]
    BY DEF IInv, TypeOK
  <2>2. "conflicted" \in Counters
    BY DEF Counters
  <2> QED BY <2>1, <2>2, CountUp
<1>2. TypeOK' /\ FiniteInv'
  BY <1>1 DEF IInv, TypeOK, FiniteInv
<1>3. ASSUME NEW s \in DOMAIN active' PROVE (WindowInv(active[s]) /\ EdgeInv(s, active[s]))'
  BY DEF IInv, WindowInv, EdgeInv, OnlyTold
<1>4. \A x \in told' : x.occurrence <= occurrences'
  BY DEF IInv
<1>5. EmittedOnce' /\ NothingInvented'
  BY DEF IInv, EmittedOnce, NothingInvented
<1>6. ConflictsSurface'
  BY <1>1 DEF IInv, ConflictsSurface
<1>7. LossInv'
  <2>1. \A x : Accounted(x)' <=> Accounted(x)
    BY DEF Accounted
  <2>2. \A b : (Reported(b)' <=> Reported(b)) /\ (Running(b)' <=> Running(b))
    BY DEF Reported, Running
  <2> QED BY <1>1, <2>1, <2>2 DEF IInv, LossInv
<1> QED BY <1>2, <1>3, <1>4, <1>5, <1>6, <1>7 DEF IInv

(* An event that changes one lifetime keeps the others as they are.         *)
LEMMA LifetimeStep ==
    ASSUME IInv, NEW s \in DOMAIN active,
           DOMAIN active' = DOMAIN active,
           \A u \in DOMAIN active : u # s => active'[u] = active[u],
           active'[s] \in Lifetime, Len(active'[s].pending) <= Window,
           active'[s].occurrence = active[s].occurrence,
           IsFiniteSet(DOMAIN active'[s].started),
           occurrences' = occurrences, consumed' \in Nat, finished' = FALSE,
           told' \subseteq Execution, told \subseteq told', begun' \subseteq Nat \X Numbers,
           \A x \in told' \ told : x.occurrence = active[s].occurrence,
           \A x \in DOMAIN executions' \ DOMAIN executions : x.occurrence = active[s].occurrence,
           EmittedOnce', NothingInvented', ConflictsSurface', LossInv',
           quality' \in [Counters -> Nat],
           WindowInv(active[s])',
           \A x \in told' : x.occurrence = active[s].occurrence
               => x.capture = active'[s].capture /\ Past(active'[s], x.number),
           \A x \in DOMAIN executions' : x.occurrence = active[s].occurrence
               => x.number <= active'[s].committed /\ x.number \notin PendingNumbers(active'[s])
    PROVE  IInv'
<1>1. TypeOK'
  <2>1. \A u \in DOMAIN active' : active'[u] \in Lifetime /\ Len(active'[u].pending) <= Window
    BY DEF IInv, TypeOK
  <2>2. DOMAIN executions' \subseteq Execution /\ \A x \in DOMAIN executions' : executions'[x] \in Nat
    BY DEF NothingInvented, EmittedOnce
  <2> QED BY <2>1, <2>2 DEF IInv, TypeOK
<1>2. FiniteInv'
  BY DEF IInv, FiniteInv
<1>3. \A u, v \in DOMAIN active : active[u].occurrence = active[v].occurrence => u = v
  BY DEF IInv, EdgeInv
<1>4. \A u \in DOMAIN active : active'[u].occurrence = active[u].occurrence
  OBVIOUS
<1>5. ASSUME NEW u \in DOMAIN active' PROVE (WindowInv(active[u]) /\ EdgeInv(u, active[u]))'
  <2>1. /\ active'[u].occurrence <= occurrences'
        /\ \A v \in DOMAIN active' : active'[v].occurrence = active'[u].occurrence => v = u
    BY <1>3, <1>4 DEF IInv, EdgeInv
  <2>2. CASE u = s
    <3>1. EdgeInv(s, active[s])'
      BY <2>1, <2>2 DEF EdgeInv
    <3> QED BY <2>2, <3>1
  <2>3. CASE u # s
    <3>1. active'[u] = active[u] /\ WindowInv(active[u]) /\ EdgeInv(u, active[u])
      BY <2>3 DEF IInv
    <3>2. \A x \in told' : x.occurrence = active[u].occurrence => x \in told
      BY <1>3, <2>3
    <3>3. \A x \in DOMAIN executions' : x.occurrence = active[u].occurrence => x \in DOMAIN executions
      BY <1>3, <2>3
    <3>4. WindowInv(active[u])'
      <4>1. Distinct(active[u].pending)
        BY <3>1 DEF WindowInv
      <4>2. ASSUME NEW p \in Range(active[u].pending)
            PROVE  /\ Told(active[u], p.number, p.report) \in told'
                   /\ p.candidate = "tracked"
                         => /\ IsCandidate(active[u], p.report)
                            /\ OnlyTold(Told(active[u], p.number, p.report))'
        <5>1. Told(active[u], p.number, p.report) \in told
          BY <3>1 DEF WindowInv
        <5>2. ASSUME p.candidate = "tracked"
              PROVE  /\ IsCandidate(active[u], p.report)
                     /\ OnlyTold(Told(active[u], p.number, p.report))'
          <6>1. IsCandidate(active[u], p.report) /\ OnlyTold(Told(active[u], p.number, p.report))
            BY <3>1, <5>2 DEF WindowInv
          <6>2. ASSUME NEW y \in told', SameExecution(Told(active[u], p.number, p.report), y)
                PROVE  y \in told
            BY <3>2, <6>2 DEF SameExecution, Told
          <6>3. ASSUME NEW y \in told', SameExecution(Told(active[u], p.number, p.report), y)
                PROVE  Told(active[u], p.number, p.report) = y
            BY <6>1, <6>2, <6>3 DEF OnlyTold
          <6>4. OnlyTold(Told(active[u], p.number, p.report))'
            BY <3>1, <6>3 DEF OnlyTold, Told, SameExecution
          <6> QED BY <6>1, <6>4
        <5> QED BY <5>1, <5>2
      <4> QED BY <3>1, <4>1, <4>2 DEF WindowInv, Told, IsCandidate, OnlyTold, Distinct
    <3>5. EdgeInv(u, active[u])'
      <4>1. \A x \in told' : x.occurrence = active[u].occurrence
               => x.capture = active[u].capture /\ Past(active[u], x.number)
        BY <3>1, <3>2 DEF EdgeInv
      <4>2. \A x \in DOMAIN executions' : x.occurrence = active[u].occurrence
               => x.number <= active[u].committed /\ x.number \notin PendingNumbers(active[u])
        BY <3>1, <3>3 DEF EdgeInv
      <4> QED BY <2>1, <3>1, <4>1, <4>2 DEF EdgeInv, Past, PendingNumbers
    <3> QED BY <3>4, <3>5
  <2> QED BY <2>2, <2>3
<1>6. \A x \in told' : x.occurrence <= occurrences'
  <2>1. active[s].occurrence <= occurrences
    BY DEF IInv, EdgeInv
  <2> QED BY <2>1 DEF IInv
<1> QED BY <1>1, <1>2, <1>5, <1>6 DEF IInv

(* What was told stays accounted for, and what runs keeps running.          *)
LEMMA StillAccounted ==
    ASSUME NEW s \in DOMAIN active, DOMAIN active' = DOMAIN active,
           \A u \in DOMAIN active : u # s => active'[u] = active[u],
           DOMAIN executions \subseteq DOMAIN executions',
           Safe(active[s]) \subseteq Safe(active[s])' \cup DOMAIN executions',
           NEW x, Accounted(x)
    PROVE  Accounted(x)'
<1>1. CASE x \in DOMAIN executions
  BY <1>1 DEF Accounted
<1>2. ASSUME NEW u \in DOMAIN active, x \in Safe(active[u]) PROVE Accounted(x)'
  <2>1. CASE u = s
    BY <1>2, <2>1 DEF Accounted
  <2>2. CASE u # s
    <3>1. active'[u] = active[u]
      BY <2>2
    <3> QED BY <1>2, <3>1 DEF Accounted, Safe, Told
  <2> QED BY <2>1, <2>2
<1> QED BY <1>1, <1>2 DEF Accounted

\* All but the execution n of s keep running.
LEMMA StillRunning ==
    ASSUME NEW s \in DOMAIN active, DOMAIN active' = DOMAIN active, NEW n,
           \A u \in DOMAIN active : u # s => active'[u] = active[u],
           active'[s].occurrence = active[s].occurrence,
           DOMAIN active[s].started \ {n} \subseteq DOMAIN active'[s].started,
           NEW b \in Nat \X Numbers, Running(b)
    PROVE  Running(b)' \/ b = <<active[s].occurrence, n>>
<1>1. PICK u \in DOMAIN active : b[1] = active[u].occurrence /\ b[2] \in DOMAIN active[u].started
  BY DEF Running
<1>2. b = <<b[1], b[2]>>
  OBVIOUS
<1>3. CASE u # s
  BY <1>1, <1>3 DEF Running
<1>4. CASE u = s /\ b[2] # n
  BY <1>1, <1>4 DEF Running
<1>5. CASE u = s /\ b[2] = n
  BY <1>1, <1>2, <1>5
<1> QED BY <1>3, <1>4, <1>5

-----------------------------------------------------------------------------
(* One lemma per event: it keeps the invariant.                             *)
LEMMA StartedStep ==
    ASSUME IInv, NEW s \in Statements, NEW source, NEW n \in Numbers, NEW t \in Threads,
           Started(s, source, n, t)
    PROVE  IInv'
<1> DEFINE l == active[s]
           b == <<l.occurrence, n>>
<1>1. /\ s \in DOMAIN active /\ l \in Lifetime /\ Len(l.pending) <= Window
      /\ consumed' \in Nat /\ finished = FALSE /\ occurrences \in Nat
      /\ begun' = begun \cup {b} /\ begun' \subseteq Nat \X Numbers
      /\ UNCHANGED <<occurrences, executions, finished, told>>
  BY DEF Started, Consume, Matches, IInv, TypeOK, Lifetime
<1>2. CASE n \in DOMAIN l.started
  <2> DEFINE names == {IF l.started[n] = t THEN "duplicate" ELSE "conflicted"}
  <2>1. quality' = Count(names) /\ UNCHANGED active
    BY <1>2 DEF Started
  <2>2. Running(b)
    BY <1>1, <1>2 DEF Running
  <2> HIDE DEF names, b
  <2> QED BY <1>1, <2>1, <2>2, CountStep
<1>3. CASE n \notin DOMAIN l.started /\ Past(l, n)
  <2>1. quality' = Count({"conflicted"}) /\ UNCHANGED active
    BY <1>3 DEF Started
  <2>2. {"conflicted"} \cap Losses # {}
    BY DEF Losses
  <2> HIDE DEF b
  <2> QED BY <1>1, <2>1, <2>2, CountStep
<1>4. CASE n \notin DOMAIN l.started /\ ~Past(l, n)
  <2> DEFINE m == [l EXCEPT !.started = Put(l.started, n, t)]
  <2>1. active' = [active EXCEPT ![s] = m] /\ quality' = quality
    <3>1. active' = [active EXCEPT ![s].started = Put(l.started, n, t)] /\ quality' = quality
      BY <1>4 DEF Started
    <3> QED BY <3>1
  <2>2. /\ Put(l.started, n, t) \in UNION {[ms -> Threads] : ms \in SUBSET Numbers}
        /\ DOMAIN Put(l.started, n, t) = DOMAIN l.started \cup {n}
        /\ IsFiniteSet(DOMAIN Put(l.started, n, t))
    <3>1. PICK ns \in SUBSET Numbers : l.started \in [ns -> Threads]
      BY <1>1 DEF Lifetime
    <3>2. IsFiniteSet(DOMAIN l.started)
      BY <1>1 DEF IInv, FiniteInv
    <3> QED BY <3>1, <3>2, StartedTable
  <2>3. /\ m \in Lifetime /\ m.occurrence = l.occurrence /\ m.capture = l.capture
        /\ m.pending = l.pending /\ m.committed = l.committed
        /\ m.started = Put(l.started, n, t)
    BY <1>1, <2>2 DEF Lifetime
  <2>4. /\ DOMAIN active' = DOMAIN active /\ active'[s] = m
        /\ \A u \in DOMAIN active : u # s => active'[u] = active[u]
    BY <1>1, <2>1
  <2>5. WindowInv(l) /\ EdgeInv(s, l)
    BY <1>1 DEF IInv
  <2> HIDE DEF m
  <2>6. WindowInv(active[s])'
    BY <1>1, <2>3, <2>4, <2>5 DEF WindowInv, Told, IsCandidate, OnlyTold
  <2>7. /\ \A x \in told' : x.occurrence = l.occurrence
              => x.capture = m.capture /\ Past(m, x.number)
        /\ \A x \in DOMAIN executions' : x.occurrence = l.occurrence
              => x.number <= m.committed /\ x.number \notin PendingNumbers(m)
    BY <1>1, <2>3, <2>5 DEF EdgeInv, Past, PendingNumbers
  <2>8. EmittedOnce' /\ NothingInvented' /\ ConflictsSurface' /\ quality' \in [Counters -> Nat]
    BY <1>1, <2>1 DEF IInv, TypeOK, EmittedOnce, NothingInvented, ConflictsSurface
  <2>9. LossInv'
    <3> SUFFICES ASSUME Conclusive'
                 PROVE  /\ \A x \in told' : Accounted(x)'
                        /\ \A c \in begun' : Reported(c)' \/ Running(c)'
      BY DEF LossInv
    <3>1. /\ \A x \in told : Accounted(x)
          /\ \A c \in begun : Reported(c) \/ Running(c)
      BY <2>1 DEF IInv, LossInv, Conclusive
    <3>2. Safe(active[s]) = Safe(active[s])'
      BY <2>3, <2>4 DEF Safe, Told
    <3>3. \A x \in told' : Accounted(x)'
      BY <1>1, <2>4, <3>1, <3>2, StillAccounted
    <3>4. \A c \in begun : Reported(c) => Reported(c)'
      BY <1>1 DEF Reported
    <3>5. ASSUME NEW c, c = b PROVE Running(c)'
      BY <1>1, <2>2, <2>3, <2>4, <3>5 DEF Running
    <3>6. ASSUME NEW c \in begun, Running(c) PROVE Running(c)'
      <4>1. c \in Nat \X Numbers
        BY <1>1
      <4>2. DOMAIN active[s].started \ {n} \subseteq DOMAIN active'[s].started
        BY <2>2, <2>3, <2>4
      <4>3. Running(c)' \/ c = b
        BY <1>1, <2>3, <2>4, <3>6, <4>1, <4>2, StillRunning
      <4> QED BY <3>5, <4>3
    <3> QED BY <1>1, <3>1, <3>3, <3>4, <3>5, <3>6
  <2>10. /\ told' = told /\ told' \subseteq Execution
         /\ DOMAIN executions' \ DOMAIN executions = {}
         /\ finished' = FALSE /\ occurrences' = occurrences
         /\ IsFiniteSet(DOMAIN active'[s].started)
         /\ active'[s] \in Lifetime /\ Len(active'[s].pending) <= Window
         /\ active'[s].occurrence = active[s].occurrence
    BY <1>1, <2>2, <2>3, <2>4 DEF IInv, TypeOK
  <2> QED BY <1>1, <2>4, <2>6, <2>7, <2>8, <2>9, <2>10, LifetimeStep
<1> QED BY <1>2, <1>3, <1>4

(* What every report of a known lifetime has in common.                     *)
LEMMA ReportFacts ==
    ASSUME IInv, NEW s \in Statements, NEW source, NEW n \in Numbers, NEW r \in Reports,
           Executed(s, source, n, r)
    PROVE  /\ s \in DOMAIN active /\ active[s] \in Lifetime
           /\ WindowInv(active[s]) /\ EdgeInv(s, active[s])
           /\ IsFiniteSet(DOMAIN active[s].started)
           /\ Len(active[s].pending) <= Window
           /\ told' = told \cup {Told(active[s], n, r)} /\ told' \subseteq Execution
           /\ occurrences' = occurrences /\ begun' = begun /\ begun' \subseteq Nat \X Numbers
           /\ consumed' \in Nat /\ finished' = FALSE
           /\ DOMAIN Drop(active[s].started, {n}) = DOMAIN active[s].started \ {n}
           /\ IsFiniteSet(DOMAIN Drop(active[s].started, {n}))
           /\ Drop(active[s].started, {n}) \in UNION {[ms -> Threads] : ms \in SUBSET Numbers}
<1>1. /\ s \in DOMAIN active /\ active[s] \in Lifetime /\ Len(active[s].pending) <= Window
      /\ IsFiniteSet(DOMAIN active[s].started)
      /\ WindowInv(active[s]) /\ EdgeInv(s, active[s])
  BY DEF Executed, Matches, IInv, TypeOK, FiniteInv
<1>2. /\ occurrences' = occurrences /\ begun' = begun /\ begun' \subseteq Nat \X Numbers
      /\ consumed' \in Nat /\ finished' = FALSE
      /\ told' = told \cup {Told(active[s], n, r)} /\ told \subseteq Execution
  BY DEF Executed, Consume, IInv, TypeOK
<1>3. Told(active[s], n, r) \in Execution
  BY <1>1 DEF Told, Execution, Lifetime
<1>4. /\ DOMAIN Drop(active[s].started, {n}) = DOMAIN active[s].started \ {n}
      /\ IsFiniteSet(DOMAIN Drop(active[s].started, {n}))
      /\ Drop(active[s].started, {n}) \in UNION {[ms -> Threads] : ms \in SUBSET Numbers}
  <2>1. PICK ns \in SUBSET Numbers : active[s].started \in [ns -> Threads]
    BY <1>1 DEF Lifetime
  <2>2. DOMAIN Drop(active[s].started, {n}) = DOMAIN active[s].started \ {n}
    BY DEF Drop
  <2>3. Drop(active[s].started, {n}) \in [ns \ {n} -> Threads]
    BY <2>1 DEF Drop
  <2>4. IsFiniteSet(DOMAIN active[s].started \ {n})
    BY <1>1, FS_RemoveElement
  <2>5. ns \ {n} \in SUBSET Numbers
    OBVIOUS
  <2> QED BY <2>2, <2>3, <2>4, <2>5
<1> QED BY <1>1, <1>2, <1>3, <1>4

(* After a report of n nothing begun is lost: n is told, the rest runs on.  *)
LEMMA ReportAccounts ==
    ASSUME IInv, NEW s \in Statements, NEW source, NEW n \in Numbers, NEW r \in Reports,
           Executed(s, source, n, r),
           DOMAIN active' = DOMAIN active,
           \A u \in DOMAIN active : u # s => active'[u] = active[u],
           active'[s].occurrence = active[s].occurrence,
           active'[s].started = Drop(active[s].started, {n}),
           DOMAIN executions \subseteq DOMAIN executions',
           Safe(active[s]) \subseteq Safe(active[s])' \cup DOMAIN executions',
           Conclusive' => Conclusive /\ \A x \in told' : x \in told \/ Accounted(x)'
    PROVE  LossInv'
<1> SUFFICES ASSUME Conclusive'
             PROVE  /\ \A x \in told' : Accounted(x)'
                    /\ \A c \in begun' : Reported(c)' \/ Running(c)'
  BY DEF LossInv
<1>1. /\ s \in DOMAIN active /\ told' = told \cup {Told(active[s], n, r)} /\ begun' = begun
      /\ begun' \subseteq Nat \X Numbers
      /\ DOMAIN Drop(active[s].started, {n}) = DOMAIN active[s].started \ {n}
  BY ReportFacts
<1>2. /\ \A x \in told : Accounted(x)
      /\ \A c \in begun : Reported(c) \/ Running(c)
  BY DEF IInv, LossInv
<1>3. \A x \in told : Accounted(x)'
  BY <1>1, <1>2, StillAccounted
<1>4. \A c \in begun : Reported(c) => Reported(c)'
  BY <1>1 DEF Reported
<1>5. ASSUME NEW c \in begun, Running(c) PROVE Reported(c)' \/ Running(c)'
  <2>1. Running(c)' \/ c = <<active[s].occurrence, n>>
    BY <1>1, <1>5, StillRunning
  <2>2. CASE c = <<active[s].occurrence, n>>
    <3>1. Told(active[s], n, r).occurrence = active[s].occurrence /\ Told(active[s], n, r).number = n
      BY DEF Told
    <3> QED BY <1>1, <2>2, <3>1 DEF Reported
  <2> QED BY <2>1, <2>2
<1> QED BY <1>1, <1>2, <1>3, <1>4, <1>5

(* A report that counts as a conflict: nothing is claimed of the counters.  *)
LEMMA ConflictCounted ==
    ASSUME IInv, NEW r, quality' = Count(Seen(r) \cup {"conflicted"})
    PROVE  quality' \in [Counters -> Nat] /\ ~Conclusive' /\ ConflictsSurface'
<1>1. quality \in [Counters -> Nat]
  BY DEF IInv, TypeOK
<1>2. "conflicted" \in Counters /\ "conflicted" \in Losses
  BY DEF Counters, Losses
<1> DEFINE names == Seen(r) \cup {"conflicted"}
<1>3. "conflicted" \in names
  OBVIOUS
<1> HIDE DEF names
<1>4. /\ quality' \in [Counters -> Nat] /\ quality'["conflicted"] > 0
      /\ ~Conclusive'
  BY <1>1, <1>2, <1>3, CountUp DEF names
<1> QED BY <1>1, <1>2, <1>4 DEF ConflictsSurface

\* A report of an execution in the window: the same again, or a conflict.
LEMMA ExecutedAgainStep ==
    ASSUME IInv, NEW s \in Statements, NEW source, NEW n \in Numbers, NEW r \in Reports,
           ExecutedAgain(s, source, n, r)
    PROVE  IInv'
<1> DEFINE l    == active[s]
           x    == Told(l, n, r)
           same == \E p \in Range(l.pending) : p.number = n /\ p.report = r
           q    == IF same THEN l.pending ELSE Disputed(l.pending, n)
           m    == [l EXCEPT !.started = Drop(l.started, {n}), !.pending = q]
<1>0. Executed(s, source, n, r)
  BY DEF ExecutedAgain
<1>1. /\ s \in DOMAIN active /\ l \in Lifetime /\ WindowInv(l) /\ EdgeInv(s, l)
      /\ Len(l.pending) <= Window
      /\ told' = told \cup {x} /\ told' \subseteq Execution
      /\ occurrences' = occurrences /\ begun' = begun /\ begun' \subseteq Nat \X Numbers
      /\ consumed' \in Nat /\ finished' = FALSE
      /\ IsFiniteSet(DOMAIN Drop(l.started, {n}))
      /\ Drop(l.started, {n}) \in UNION {[ms -> Threads] : ms \in SUBSET Numbers}
  BY <1>0, ReportFacts
<1>2. /\ n \in PendingNumbers(l)
      /\ quality' = Count(Seen(r) \cup {IF same THEN "duplicate" ELSE "conflicted"})
      /\ active' = [active EXCEPT ![s] = m]
      /\ executions' = executions
  BY DEF ExecutedAgain
<1>3. /\ l.pending \in Seq(Entry) /\ Distinct(l.pending)
      /\ x.occurrence = l.occurrence /\ x.number = n /\ x.report = r /\ x.capture = l.capture
  BY <1>1 DEF Lifetime, WindowInv, Told
<1>4. /\ q \in Seq(Entry) /\ Len(q) = Len(l.pending) /\ Distinct(q)
      /\ \A p \in Range(q) : p.candidate = "tracked" => p \in Range(l.pending) /\ (same \/ p.number # n)
      /\ \A p \in Range(q) : \E o \in Range(l.pending) : o.number = p.number /\ o.report = p.report
      /\ {p.number : p \in Range(q)} = {p.number : p \in Range(l.pending)}
  <2>1. CASE same
    BY <2>1, <1>3
  <2>2. CASE ~same
    <3>1. q = Disputed(l.pending, n)
      BY <2>2
    <3> HIDE DEF q
    <3>2. /\ q \in Seq(Entry) /\ Len(q) = Len(l.pending) /\ Distinct(q)
          /\ \A p \in Range(q) : p.candidate = "tracked" => p \in Range(l.pending) /\ p.number # n
          /\ \A p \in Range(q) : \E o \in Range(l.pending) : o.number = p.number /\ o.report = p.report
          /\ {p.number : p \in Range(q)} = {p.number : p \in Range(l.pending)}
      BY <3>1, <1>3, DisputeEntry
    <3> HIDE DEF same, l
    <3> QED BY <3>2
  <2> QED BY <2>1, <2>2
<1> HIDE DEF q
<1>5. /\ m \in Lifetime /\ m.occurrence = l.occurrence /\ m.capture = l.capture
      /\ m.pending = q /\ m.committed = l.committed /\ m.started = Drop(l.started, {n})
  BY <1>1, <1>4 DEF Lifetime
<1> HIDE DEF m
<1>6. /\ DOMAIN active' = DOMAIN active /\ active'[s] = m
      /\ \A u \in DOMAIN active : u # s => active'[u] = active[u]
  BY <1>1, <1>2
<1>7. PendingNumbers(m) = PendingNumbers(l)
  BY <1>4, <1>5 DEF PendingNumbers
<1>8. same => x \in told
  BY <1>1 DEF WindowInv
<1>9. WindowInv(active[s])'
  <2>1. ASSUME NEW p \in Range(q)
        PROVE  /\ Told(m, p.number, p.report) \in told'
               /\ p.candidate = "tracked"
                     => /\ IsCandidate(m, p.report)
                        /\ \A y \in told' : SameExecution(Told(m, p.number, p.report), y)
                                               => Told(m, p.number, p.report) = y
    <3>1. Told(m, p.number, p.report) = Told(l, p.number, p.report)
      BY <1>5 DEF Told
    <3>2. Told(l, p.number, p.report) \in told
      BY <1>1, <1>4 DEF WindowInv
    <3>3. ASSUME p.candidate = "tracked"
          PROVE  /\ IsCandidate(m, p.report)
                 /\ \A y \in told' : SameExecution(Told(l, p.number, p.report), y)
                                        => Told(l, p.number, p.report) = y
      <4>1. /\ IsCandidate(l, p.report) /\ OnlyTold(Told(l, p.number, p.report))
            /\ (same \/ p.number # n)
        BY <1>1, <1>4, <3>3 DEF WindowInv
      <4>2. IsCandidate(m, p.report)
        BY <1>5, <4>1 DEF IsCandidate
      <4>3. SameExecution(Told(l, p.number, p.report), x) => p.number = n
        BY <1>3 DEF SameExecution, Told
      <4>4. \A y \in told' : SameExecution(Told(l, p.number, p.report), y) => y \in told
        BY <1>1, <1>8, <4>1, <4>3
      <4> QED BY <4>1, <4>2, <4>4 DEF OnlyTold
    <3> QED BY <1>1, <3>1, <3>2, <3>3
  <2> QED BY <1>4, <1>5, <1>6, <2>1 DEF WindowInv, OnlyTold
<1>10. /\ \A y \in told' : y.occurrence = l.occurrence
              => y.capture = m.capture /\ Past(m, y.number)
       /\ \A y \in DOMAIN executions' : y.occurrence = l.occurrence
              => y.number <= m.committed /\ y.number \notin PendingNumbers(m)
  <2>1. \A k : Past(m, k) <=> Past(l, k)
    BY <1>5, <1>7 DEF Past
  <2>2. Past(l, n)
    BY <1>2 DEF Past
  <2> QED BY <1>1, <1>2, <1>3, <1>5, <1>7, <2>1, <2>2 DEF EdgeInv
<1>11. /\ quality' \in [Counters -> Nat] /\ ConflictsSurface'
       /\ Conclusive' => Conclusive /\ same
  <2>1. CASE same
    <3>1. quality' = Count(Seen(r) \cup {"duplicate"})
      BY <1>2, <2>1
    <3>2. quality \in [Counters -> Nat]
      BY DEF IInv, TypeOK
    <3>3. /\ quality' \in [Counters -> Nat] /\ quality["conflicted"] <= quality'["conflicted"]
          /\ Conclusive' => Conclusive
      <4>1. "conflicted" \in Counters
        BY DEF Counters
      <4> QED BY <3>1, <3>2, <4>1, CountUp
    <3>4. quality["conflicted"] \in Nat /\ quality'["conflicted"] \in Nat
      BY <3>2, <3>3 DEF Counters
    <3>5. told' = told
      BY <1>1, <1>8, <2>1
    <3> QED BY <2>1, <3>3, <3>4, <3>5 DEF IInv, ConflictsSurface
  <2>2. CASE ~same
    <3>1. quality' = Count(Seen(r) \cup {"conflicted"})
      BY <1>2, <2>2
    <3> QED BY <3>1, ConflictCounted
  <2> QED BY <2>1, <2>2
<1>12. EmittedOnce' /\ NothingInvented'
  BY <1>1, <1>2 DEF IInv, EmittedOnce, NothingInvented
<1>13. LossInv'
  <2>1. ASSUME Conclusive'
        PROVE  Conclusive /\ told' = told /\ Safe(active[s])' = Safe(active[s])
    <3>1. Conclusive /\ same
      BY <1>11, <2>1
    <3>2. m.pending = l.pending
      BY <1>5, <3>1 DEF q
    <3> QED BY <1>1, <1>5, <1>6, <1>8, <3>1, <3>2 DEF Safe, Told
  <2>2. CASE ~Conclusive'
    BY <2>2 DEF LossInv
  <2>3. CASE Conclusive'
    <3>1. Safe(active[s]) \subseteq Safe(active[s])' \cup DOMAIN executions'
      BY <2>1, <2>3
    <3>2. active'[s].occurrence = active[s].occurrence
      BY <1>5, <1>6
    <3>3. active'[s].started = Drop(active[s].started, {n})
      BY <1>5, <1>6
    <3> QED BY <1>0, <1>2, <1>6, <2>1, <2>3, <3>1, <3>2, <3>3, ReportAccounts
  <2> QED BY <2>2, <2>3
<1>14. /\ told \subseteq told' /\ \A y \in told' \ told : y.occurrence = active[s].occurrence
       /\ DOMAIN executions' \ DOMAIN executions = {}
       /\ active'[s] \in Lifetime /\ Len(active'[s].pending) <= Window
       /\ active'[s].occurrence = active[s].occurrence
       /\ IsFiniteSet(DOMAIN active'[s].started)
  BY <1>1, <1>2, <1>3, <1>4, <1>5, <1>6
<1> QED BY <1>1, <1>5, <1>6, <1>9, <1>10, <1>11, <1>12, <1>13, <1>14, LifetimeStep

\* A report that may have left the window is a conflict.
LEMMA ExecutedLateStep ==
    ASSUME IInv, NEW s \in Statements, NEW source, NEW n \in Numbers, NEW r \in Reports,
           ExecutedLate(s, source, n, r)
    PROVE  IInv'
<1> DEFINE l == active[s]
           x == Told(l, n, r)
           m == [l EXCEPT !.started = Drop(l.started, {n})]
<1>0. Executed(s, source, n, r)
  BY DEF ExecutedLate
<1>1. /\ s \in DOMAIN active /\ l \in Lifetime /\ WindowInv(l) /\ EdgeInv(s, l)
      /\ Len(l.pending) <= Window
      /\ told' = told \cup {x} /\ told' \subseteq Execution
      /\ occurrences' = occurrences /\ begun' = begun /\ begun' \subseteq Nat \X Numbers
      /\ consumed' \in Nat /\ finished' = FALSE
      /\ IsFiniteSet(DOMAIN Drop(l.started, {n}))
      /\ Drop(l.started, {n}) \in UNION {[ms -> Threads] : ms \in SUBSET Numbers}
  BY <1>0, ReportFacts
<1>2. /\ n <= l.committed /\ n \notin PendingNumbers(l)
      /\ quality' = Count(Seen(r) \cup {"conflicted"})
      /\ active' = [active EXCEPT ![s] = m]
      /\ executions' = executions
  BY DEF ExecutedLate, Late
<1>3. x.occurrence = l.occurrence /\ x.number = n /\ x.report = r /\ x.capture = l.capture
  BY <1>1 DEF Told
<1>4. /\ m \in Lifetime /\ m.occurrence = l.occurrence /\ m.capture = l.capture
      /\ m.pending = l.pending /\ m.committed = l.committed /\ m.started = Drop(l.started, {n})
  BY <1>1 DEF Lifetime
<1> HIDE DEF m
<1>5. /\ DOMAIN active' = DOMAIN active /\ active'[s] = m
      /\ \A u \in DOMAIN active : u # s => active'[u] = active[u]
  BY <1>1, <1>2
<1>6. WindowInv(active[s])'
  <2>1. ASSUME NEW p \in Range(l.pending)
        PROVE  /\ Told(m, p.number, p.report) \in told'
               /\ p.candidate = "tracked"
                     => /\ IsCandidate(m, p.report)
                        /\ \A y \in told' : SameExecution(Told(m, p.number, p.report), y)
                                               => Told(m, p.number, p.report) = y
    <3>1. Told(m, p.number, p.report) = Told(l, p.number, p.report)
      BY <1>4 DEF Told
    <3>2. ~SameExecution(Told(l, p.number, p.report), x)
      BY <1>2, <1>3 DEF SameExecution, Told, PendingNumbers
    <3> QED BY <1>1, <1>4, <3>1, <3>2 DEF WindowInv, OnlyTold, IsCandidate
  <2> QED BY <1>1, <1>4, <1>5, <2>1 DEF WindowInv, OnlyTold
<1>7. /\ \A y \in told' : y.occurrence = l.occurrence
             => y.capture = m.capture /\ Past(m, y.number)
      /\ \A y \in DOMAIN executions' : y.occurrence = l.occurrence
             => y.number <= m.committed /\ y.number \notin PendingNumbers(m)
  BY <1>1, <1>2, <1>3, <1>4 DEF EdgeInv, Past, PendingNumbers
<1>8. /\ quality' \in [Counters -> Nat] /\ ConflictsSurface' /\ ~Conclusive'
      /\ EmittedOnce' /\ NothingInvented' /\ LossInv'
  <2>1. quality' \in [Counters -> Nat] /\ ConflictsSurface' /\ ~Conclusive'
    BY <1>2, ConflictCounted
  <2> QED BY <1>1, <1>2, <2>1 DEF IInv, EmittedOnce, NothingInvented, LossInv
<1>9. /\ told \subseteq told' /\ \A y \in told' \ told : y.occurrence = active[s].occurrence
      /\ DOMAIN executions' \ DOMAIN executions = {}
      /\ active'[s] \in Lifetime /\ Len(active'[s].pending) <= Window
      /\ active'[s].occurrence = active[s].occurrence
      /\ IsFiniteSet(DOMAIN active'[s].started)
  BY <1>1, <1>2, <1>3, <1>4, <1>5
<1> QED BY <1>1, <1>4, <1>5, <1>6, <1>7, <1>8, <1>9, LifetimeStep

\* A first report enters the window, and the oldest may leave it.
LEMMA ExecutedFirstStep ==
    ASSUME IInv, NEW s \in Statements, NEW source, NEW n \in Numbers, NEW r \in Reports,
           ExecutedFirst(s, source, n, r)
    PROVE  IInv' /\ EmitsUndisputed(executions, executions')
<1> DEFINE l       == active[s]
           x       == Told(l, n, r)
           e       == NewEntry(l, n, r)
           pending == Append(l.pending, e)
           oldest  == Head(pending)
           full    == Overflows(pending)
           es      == IF full /\ oldest.candidate = "tracked"
                      THEN {Told(l, oldest.number, oldest.report)} ELSE {}
           q       == IF full THEN Tail(pending) ELSE pending
           edge    == IF full THEN Max2(l.committed, oldest.number) ELSE l.committed
           m       == [l EXCEPT !.started = Drop(l.started, {n}), !.pending = q, !.committed = edge]
<1>0. Executed(s, source, n, r)
  BY DEF ExecutedFirst
<1>1. /\ s \in DOMAIN active /\ l \in Lifetime /\ WindowInv(l) /\ EdgeInv(s, l)
      /\ Len(l.pending) <= Window
      /\ told' = told \cup {x} /\ told' \subseteq Execution
      /\ occurrences' = occurrences /\ begun' = begun /\ begun' \subseteq Nat \X Numbers
      /\ consumed' \in Nat /\ finished' = FALSE
      /\ IsFiniteSet(DOMAIN Drop(l.started, {n}))
      /\ Drop(l.started, {n}) \in UNION {[ms -> Threads] : ms \in SUBSET Numbers}
  BY <1>0, ReportFacts
<1>2. /\ l.pending \in Seq(Entry) /\ Distinct(l.pending) /\ l.committed \in Nat /\ n \in Nat
      /\ x.occurrence = l.occurrence /\ x.number = n /\ x.report = r /\ x.capture = l.capture
      /\ e \in Entry /\ e.number = n /\ e.report = r
      /\ e.candidate = "tracked" <=> IsCandidate(l, r)
  BY <1>1, EventsAssumption DEF Lifetime, WindowInv, Told, NewEntry, Entry
<1>3. /\ n \notin PendingNumbers(l) /\ n > l.committed
      /\ quality' = Count(Seen(r) \cup Excluded(l))
  BY <1>2 DEF ExecutedFirst, Late
<1>4. active' = [active EXCEPT ![s] = m] /\ (es = {} => executions' = executions)
      /\ (es # {} => executions' = Emitted(es))
  <2>1. CASE full
    BY <2>1 DEF ExecutedFirst
  <2>2. CASE ~full
    BY <2>2 DEF ExecutedFirst
  <2> QED BY <2>1, <2>2
<1> HIDE DEF x, e
<1>5. /\ pending \in Seq(Entry) /\ pending # << >> /\ Len(pending) = Len(l.pending) + 1
      /\ Range(pending) = Range(l.pending) \cup {e} /\ Distinct(pending)
  <2>1. \A p \in Range(l.pending) : p.number # e.number
    BY <1>2, <1>3 DEF PendingNumbers
  <2> QED BY <1>2, <2>1, AppendEntry
<1>a. full => oldest \in Range(l.pending)
  <2> SUFFICES ASSUME full PROVE oldest \in Range(l.pending)
    OBVIOUS
  <2>1. Len(l.pending) \in Nat /\ Len(l.pending) + 1 > Window /\ Window >= 1
    BY <1>2, <1>5, WindowAssumption DEF Overflows
  <2>2. Len(l.pending) >= 1
    BY <2>1, WindowAssumption
  <2> QED BY <1>2, <2>2, AppendHead
<1> HIDE DEF pending
<1>6. /\ oldest \in Entry /\ Tail(pending) \in Seq(Entry) /\ Len(Tail(pending)) = Len(pending) - 1
      /\ Range(pending) = Range(Tail(pending)) \cup {oldest} /\ Distinct(Tail(pending))
      /\ \A p \in Range(Tail(pending)) : p.number # oldest.number
  BY <1>5, PopEntry
<1> HIDE DEF oldest
<1>7. /\ q \in Seq(Entry) /\ Len(q) <= Window /\ Distinct(q)
      /\ Range(q) \subseteq Range(pending)
      /\ \A p \in Range(pending) : p \in Range(q) \/ (full /\ p = oldest)
      /\ full => \A p \in Range(q) : p.number # oldest.number
  <2>1. Len(l.pending) \in Nat /\ Len(pending) <= Window + 1 /\ Window \in Nat
    BY <1>1, <1>2, <1>5, WindowAssumption
  <2>2. CASE full
    BY <1>5, <1>6, <2>1, <2>2
  <2>3. CASE ~full
    <3>1. Len(pending) <= Window
      BY <1>5, <2>1, <2>3 DEF Overflows
    <3> QED BY <1>5, <2>3, <3>1
  <2> QED BY <2>2, <2>3
<1>8. /\ edge \in Nat /\ l.committed <= edge
      /\ full => oldest.number <= edge
  <2>1. oldest.number \in Nat
    BY <1>6, EventsAssumption DEF Entry
  <2>2. CASE full
    BY <1>2, <2>1, <2>2 DEF Max2
  <2>3. CASE ~full
    BY <1>2, <2>3
  <2> QED BY <2>2, <2>3
<1> HIDE DEF q, edge, full
<1>9. /\ m \in Lifetime /\ m.occurrence = l.occurrence /\ m.capture = l.capture
      /\ m.pending = q /\ m.committed = edge /\ m.started = Drop(l.started, {n})
  BY <1>1, <1>7, <1>8 DEF Lifetime
<1> HIDE DEF m
<1>10. /\ DOMAIN active' = DOMAIN active /\ active'[s] = m
       /\ \A u \in DOMAIN active : u # s => active'[u] = active[u]
  BY <1>1, <1>4
<1>11. \A y \in told : y.occurrence = l.occurrence => y.number # n
  BY <1>1, <1>2, <1>3 DEF EdgeInv, Past
<1>12. ASSUME NEW p \in Range(pending)
       PROVE  /\ Told(l, p.number, p.report) \in told'
              /\ p.candidate = "tracked"
                    => /\ IsCandidate(l, p.report)
                       /\ \A y \in told' : SameExecution(Told(l, p.number, p.report), y)
                                              => Told(l, p.number, p.report) = y
  <2>1. CASE p = e
    <3>1. Told(l, p.number, p.report) = x
      BY <1>2, <2>1 DEF x
    <3>2. \A y \in told : ~SameExecution(x, y)
      BY <1>2, <1>11 DEF SameExecution
    <3> QED BY <1>1, <1>2, <2>1, <3>1, <3>2
  <2>2. CASE p \in Range(l.pending)
    <3>1. ~SameExecution(Told(l, p.number, p.report), x)
      BY <1>2, <1>3, <2>2 DEF SameExecution, Told, PendingNumbers
    <3> QED BY <1>1, <2>2, <3>1 DEF WindowInv, OnlyTold
  <2> QED BY <1>5, <2>1, <2>2
<1>13. WindowInv(active[s])'
  <2>1. \A p \in Range(q) : Told(m, p.number, p.report) = Told(l, p.number, p.report)
    BY <1>9 DEF Told
  <2>2. \A p \in Range(q) : IsCandidate(m, p.report) <=> IsCandidate(l, p.report)
    BY <1>9 DEF IsCandidate
  <2> QED BY <1>7, <1>9, <1>10, <1>12, <2>1, <2>2 DEF WindowInv, OnlyTold
<1>14. \A y \in told' : y.occurrence = l.occurrence => y.capture = m.capture /\ Past(m, y.number)
  <2> SUFFICES ASSUME NEW y \in told', y.occurrence = l.occurrence
               PROVE  y.capture = m.capture /\ Past(m, y.number)
    OBVIOUS
  <2>1. y.capture = l.capture /\ y.number \in Nat
    <3>1. y.number \in Nat
      BY <1>1, EventsAssumption DEF Execution
    <3> QED BY <1>1, <1>2, <3>1 DEF EdgeInv
  <2>2. \A p \in Range(pending) : p.number = y.number => Past(m, y.number)
    <3> SUFFICES ASSUME NEW p \in Range(pending), p.number = y.number
                 PROVE  Past(m, y.number)
      OBVIOUS
    <3>1. CASE p \in Range(q)
      BY <1>9, <3>1 DEF Past, PendingNumbers
    <3>2. CASE full /\ p = oldest
      BY <1>8, <1>9, <3>2 DEF Past
    <3> QED BY <1>7, <3>1, <3>2
  <2>3. CASE y = x
    <3>1. e \in Range(pending) /\ e.number = y.number
      BY <1>2, <1>5, <2>3
    <3> QED BY <1>9, <2>1, <2>2, <3>1
  <2>4. CASE y \in told /\ y.number <= l.committed
    BY <1>2, <1>8, <1>9, <2>1, <2>4 DEF Past
  <2>5. CASE y \in told /\ y.number \in PendingNumbers(l)
    <3>1. PICK p \in Range(l.pending) : p.number = y.number
      BY <2>5 DEF PendingNumbers
    <3>2. p \in Range(pending)
      BY <1>5
    <3> QED BY <1>9, <2>1, <2>2, <3>1, <3>2
  <2> QED BY <1>1, <1>9, <2>1, <2>3, <2>4, <2>5 DEF EdgeInv, Past
<1>15. \A y \in es : /\ full /\ y.occurrence = l.occurrence /\ y.number = oldest.number
                     /\ y \in told /\ y.report \in Measured /\ y.capture = "whole" /\ OnlyTold(y)
                     /\ \A z \in DOMAIN executions : ~SameExecution(y, z)
  <2> SUFFICES ASSUME full, oldest.candidate = "tracked", NEW y,
                      y = Told(l, oldest.number, oldest.report)
               PROVE  /\ y.occurrence = l.occurrence /\ y.number = oldest.number
                      /\ y \in told /\ y.report \in Measured /\ y.capture = "whole" /\ OnlyTold(y)
                      /\ \A z \in DOMAIN executions : ~SameExecution(y, z)
    OBVIOUS
  <2>1. y \in Safe(active[s])
    BY <1>a DEF Safe
  <2>2. y.occurrence = l.occurrence /\ y.number = oldest.number
    BY DEF Told
  <2> QED BY <1>1, <2>1, <2>2, SafeToEmit
<1>16. es = (IF full /\ oldest.candidate = "tracked"
             THEN {Told(l, oldest.number, oldest.report)} ELSE {})
  OBVIOUS
<1> HIDE DEF es
<1>17. /\ DOMAIN executions' = DOMAIN executions \cup es
       /\ EmittedOnce' /\ NothingInvented' /\ EmitsUndisputed(executions, executions')
  <2>1. CASE es = {}
    <3>1. executions' = executions
      BY <1>4, <2>1
    <3> QED BY <1>1, <2>1, <3>1 DEF IInv, EmittedOnce, NothingInvented, EmitsUndisputed
  <2>2. CASE es # {}
    <3>1. /\ DOMAIN executions' = DOMAIN executions \cup es
          /\ DOMAIN executions' \subseteq told
          /\ \A y \in DOMAIN executions' : y.report \in Measured /\ y.capture = "whole"
          /\ EmittedOnce' /\ EmitsUndisputed(executions, executions')
      BY <1>4, <1>15, <2>2, EmitSound
    <3> QED BY <1>1, <3>1 DEF NothingInvented
  <2> QED BY <2>1, <2>2
<1>18. \A y \in DOMAIN executions' : y.occurrence = l.occurrence
          => y.number <= m.committed /\ y.number \notin PendingNumbers(m)
  <2>1. ASSUME NEW y \in DOMAIN executions, y.occurrence = l.occurrence
        PROVE  y.number <= m.committed /\ y.number \notin PendingNumbers(m)
    <3>1. y.number <= l.committed /\ y.number \notin PendingNumbers(l)
      BY <1>1, <2>1 DEF EdgeInv
    <3>2. y.number \in Nat
      BY EventsAssumption DEF IInv, TypeOK, Execution
    <3>3. y.number <= edge /\ y.number # n
      BY <1>2, <1>3, <1>8, <3>1, <3>2
    <3>4. \A p \in Range(q) : p \in Range(l.pending) \/ p.number = n
      BY <1>2, <1>5, <1>7
    <3> QED BY <1>9, <3>1, <3>3, <3>4 DEF PendingNumbers
  <2>2. ASSUME NEW y \in es
        PROVE  y.number <= m.committed /\ y.number \notin PendingNumbers(m)
    BY <1>7, <1>8, <1>9, <1>15 DEF PendingNumbers
  <2> QED BY <1>17, <2>1, <2>2
<1>19. /\ quality' \in [Counters -> Nat] /\ ConflictsSurface'
       /\ Conclusive' => Conclusive /\ IsCandidate(l, r)
  <2> DEFINE names == Seen(r) \cup Excluded(l)
  <2>1. quality \in [Counters -> Nat] /\ "conflicted" \in Counters
    BY DEF IInv, TypeOK, Counters
  <2>2. names \cap Losses = {} => IsCandidate(l, r)
    <3>1. l.capture \in Captures
      BY <1>1 DEF Lifetime
    <3> QED BY <3>1 DEF Seen, Excluded, Losses, IsCandidate, Captures
  <2>3. quality' = Count(names)
    BY <1>3
  <2> HIDE DEF names
  <2>4. /\ quality' \in [Counters -> Nat] /\ quality["conflicted"] <= quality'["conflicted"]
        /\ Conclusive' => Conclusive /\ names \cap Losses = {}
    BY <2>1, <2>3, CountUp
  <2>5. quality["conflicted"] \in Nat /\ quality'["conflicted"] \in Nat
    BY <2>1, <2>4
  <2>6. ASSUME quality'["conflicted"] = 0, NEW y \in told', NEW z \in told', SameExecution(y, z)
        PROVE  y = z
    <3>1. \A u, v \in told : SameExecution(u, v) => u = v
      BY <2>4, <2>5, <2>6 DEF IInv, ConflictsSurface
    <3>2. \A u \in told : ~SameExecution(u, x) /\ ~SameExecution(x, u)
      BY <1>2, <1>11 DEF SameExecution
    <3> QED BY <1>1, <2>6, <3>1, <3>2
  <2> QED BY <2>2, <2>4, <2>6 DEF ConflictsSurface
<1>20. LossInv'
  <2>1. ASSUME NEW p \in Range(pending), p.candidate = "tracked"
        PROVE  Told(l, p.number, p.report) \in Safe(active[s])' \cup DOMAIN executions'
    <3>1. CASE p \in Range(q)
      BY <1>9, <1>10, <2>1, <3>1 DEF Safe, Told
    <3>2. CASE full /\ p = oldest
      BY <1>16, <1>17, <2>1, <3>2
    <3> QED BY <1>7, <3>1, <3>2
  <2>2. Safe(active[s]) \subseteq Safe(active[s])' \cup DOMAIN executions'
    BY <1>5, <2>1 DEF Safe
  <2>3. Conclusive' => Conclusive /\ \A y \in told' : y \in told \/ Accounted(y)'
    <3> SUFFICES ASSUME Conclusive', NEW y, y = x PROVE Conclusive /\ Accounted(y)'
      BY <1>1, <1>19
    <3>1. Conclusive /\ e.candidate = "tracked"
      BY <1>2, <1>19
    <3>2. Told(l, e.number, e.report) = x
      BY <1>2 DEF x
    <3>3. y \in Safe(active[s])' \cup DOMAIN executions'
      BY <1>5, <2>1, <3>1, <3>2
    <3>4. s \in DOMAIN active'
      BY <1>1, <1>10
    <3> QED BY <3>1, <3>3, <3>4 DEF Accounted
  <2>4. /\ active'[s].occurrence = active[s].occurrence
        /\ active'[s].started = Drop(active[s].started, {n})
        /\ DOMAIN executions \subseteq DOMAIN executions'
    BY <1>9, <1>10, <1>17
  <2> QED BY <1>0, <1>10, <2>2, <2>3, <2>4, ReportAccounts
<1>21. /\ told \subseteq told' /\ \A y \in told' \ told : y.occurrence = active[s].occurrence
       /\ \A y \in DOMAIN executions' \ DOMAIN executions : y.occurrence = active[s].occurrence
       /\ active'[s] \in Lifetime /\ Len(active'[s].pending) <= Window
       /\ active'[s].occurrence = active[s].occurrence
       /\ IsFiniteSet(DOMAIN active'[s].started)
  BY <1>1, <1>2, <1>7, <1>9, <1>10, <1>15, <1>17
<1> QED BY <1>1, <1>9, <1>10, <1>13, <1>14, <1>17, <1>18, <1>19, <1>20, <1>21, LifetimeStep

-----------------------------------------------------------------------------
\* The invariant holds of every behaviour.
LEMMA InitInv == Init => IInv
<1> SUFFICES ASSUME Init PROVE IInv
  OBVIOUS
<1>1. /\ DOMAIN active = {} /\ DOMAIN executions = {} /\ told = {} /\ begun = {}
      /\ occurrences = 0 /\ consumed = 0 /\ finished = FALSE /\ quality \in [Counters -> Nat]
  BY DEF Init
<1>2. TypeOK
  BY <1>1 DEF TypeOK
<1>3. FiniteInv
  BY <1>1, FS_EmptySet DEF FiniteInv
<1> QED BY <1>1, <1>2, <1>3 DEF IInv, EmittedOnce, NothingInvented, ConflictsSurface, LossInv

\* A preparation flushes the lifetime it replaces.
LEMMA PreparedStep ==
    ASSUME IInv, NEW s \in Statements, NEW source \in Sources, NEW capture \in Captures,
           Prepared(s, source, capture)
    PROVE  IInv' /\ EmitsUndisputed(executions, executions')
<1> DEFINE ss == {s} \cap DOMAIN active
           l  == [occurrence |-> occurrences + 1, source |-> source, capture |-> capture,
                  pending |-> << >>, started |-> << >>, committed |-> 0]
<1>1. /\ Flush(ss) /\ active' = Put(active, s, l)
      /\ occurrences' = occurrences + 1 /\ occurrences \in Nat
      /\ consumed' \in Nat /\ finished' = FALSE
      /\ UNCHANGED history
  BY DEF Prepared, Consume, IInv, TypeOK
<1>2. l \in Lifetime
  <2> DEFINE none == << >>
  <2>1. none \in [{} -> Threads] /\ none \in Seq(Entry)
    OBVIOUS
  <2>2. {} \in SUBSET Numbers
    OBVIOUS
  <2>3. none \in UNION {[ms -> Threads] : ms \in SUBSET Numbers}
    BY <2>1, <2>2
  <2>4. occurrences + 1 \in Nat
    BY <1>1
  <2>5. l = [occurrence |-> occurrences + 1, source |-> source, capture |-> capture,
             pending |-> none, started |-> none, committed |-> 0]
    OBVIOUS
  <2> HIDE DEF none, l
  <2> QED BY <2>1, <2>3, <2>4, <2>5 DEF Lifetime
<1>3. /\ l.occurrence = occurrences + 1 /\ l.pending = << >> /\ l.started = << >>
  OBVIOUS
<1> HIDE DEF l
<1>4. /\ DOMAIN active' = (DOMAIN active \ ss) \cup {s} /\ active'[s] = l
      /\ \A u \in DOMAIN active \ ss : u # s => active'[u] = active[u]
  BY <1>1 DEF Put
<1> DEFINE fresh == {s}
<1>5. /\ ss \in SUBSET DOMAIN active /\ fresh \in SUBSET Statements
      /\ \A u, v \in fresh : u = v
      /\ DOMAIN active' = (DOMAIN active \ ss) \cup fresh
      /\ \A u \in (DOMAIN active \ ss) \ fresh : active'[u] = active[u]
  BY <1>4
<1>6. \A u \in fresh : /\ u \notin DOMAIN active \ ss
                       /\ active'[u] \in Lifetime
                       /\ active'[u].occurrence = occurrences' /\ occurrences < occurrences'
                       /\ active'[u].pending = << >> /\ active'[u].started = << >>
  BY <1>1, <1>2, <1>3, <1>4
<1>7. occurrences' \in Nat /\ occurrences <= occurrences'
  BY <1>1
<1>8. finished' \in BOOLEAN /\ ~finished'
  <2>1. finished' = FALSE
    BY <1>1
  <2> QED BY <2>1, Zenon
<1> HIDE DEF ss, fresh
<1> QED BY <1>1, <1>5, <1>6, <1>7, <1>8, FlushStep

\* A finalization flushes its own lifetime only.
LEMMA FinalizedStep ==
    ASSUME IInv, NEW s \in Statements, NEW source, Finalized(s, source)
    PROVE  IInv' /\ EmitsUndisputed(executions, executions')
<1>1. /\ UNCHANGED <<occurrences, finished, told, begun>> /\ consumed' \in Nat /\ finished = FALSE
      /\ occurrences \in Nat
  BY DEF Finalized, Consume, history, IInv, TypeOK
<1>2. CASE Matches(s, source)
  <2>1. s \in DOMAIN active /\ Flush({s}) /\ active' = Drop(active, {s})
    BY <1>2 DEF Finalized, Forget, Matches
  <2> DEFINE ss == {s}
             fresh == {}
  <2>2. /\ DOMAIN active' = (DOMAIN active \ ss) \cup fresh
        /\ \A u \in (DOMAIN active \ ss) \ fresh : active'[u] = active[u]
    BY <2>1 DEF Drop
  <2>3. /\ ss \in SUBSET DOMAIN active /\ fresh \in SUBSET Statements /\ fresh = {}
        /\ Flush(ss) /\ UNCHANGED history
    BY <1>1, <2>1 DEF history
  <2>4. occurrences <= occurrences' /\ occurrences' \in Nat
    BY <1>1
  <2>5. finished' \in BOOLEAN /\ ~finished'
    <3>1. finished' = finished /\ finished = FALSE
      BY <1>1
    <3> QED BY <3>1, Zenon
  <2> HIDE DEF ss, fresh
  <2> QED BY <1>1, <2>2, <2>3, <2>4, <2>5, FlushStep
<1>3. CASE ~Matches(s, source)
  <2>1. UNCHANGED <<active, executions, quality>>
    BY <1>3 DEF Finalized
  <2> QED BY <1>1, <2>1 DEF IInv, TypeOK, FiniteInv, WindowInv, EdgeInv, OnlyTold, EmittedOnce,
         NothingInvented, ConflictsSurface, LossInv, Conclusive, Accounted, Reported, Running,
         EmitsUndisputed
<1> QED BY <1>2, <1>3

\* The end of the run flushes every lifetime.
LEMMA FinishStep ==
    ASSUME IInv, Finish
    PROVE  IInv' /\ EmitsUndisputed(executions, executions')
<1>1. /\ Flush(DOMAIN active) /\ active' = << >> /\ DOMAIN active' = {}
      /\ finished' = TRUE /\ UNCHANGED <<occurrences, consumed, history>>
      /\ occurrences \in Nat /\ consumed \in Nat
  BY DEF Finish, IInv, TypeOK
<1>2. /\ DOMAIN active' = (DOMAIN active \ DOMAIN active) \cup {}
      /\ occurrences <= occurrences' /\ occurrences' \in Nat /\ consumed' \in Nat
  BY <1>1
<1>3. {} \subseteq Statements /\ DOMAIN active \subseteq DOMAIN active
  OBVIOUS
<1> QED BY <1>1, <1>2, <1>3, FlushStep

\* The events that only count.
LEMMA UnmatchedStep ==
    ASSUME IInv, NEW s, NEW source, NEW r,
           StartedUnmatched(s, source) \/ ExecutedUnmatched(s, source, r)
    PROVE  IInv'
<1>1. /\ UNCHANGED <<active, occurrences, executions, finished, told>> /\ begun' = begun
      /\ consumed' \in Nat /\ begun' \subseteq Nat \X Numbers
  BY DEF StartedUnmatched, ExecutedUnmatched, Consume, history, IInv, TypeOK
<1>2. \E names : quality' = Count(names)
  BY DEF StartedUnmatched, ExecutedUnmatched
<1> QED BY <1>1, <1>2, CountStep

\* A step that changes nothing.
LEMMA Stutter == IInv /\ UNCHANGED vars => IInv'
BY DEF vars, history, IInv, TypeOK, FiniteInv, WindowInv, EdgeInv, OnlyTold, EmittedOnce,
   NothingInvented, ConflictsSurface, LossInv, Conclusive, Accounted, Reported, Running

\* Every step keeps the invariant and emits nothing contradicted.
LEMMA NextInv == IInv /\ [Next]_vars => IInv' /\ EmitsUndisputed(executions, executions')
<1> SUFFICES ASSUME IInv, [Next]_vars
             PROVE  IInv' /\ EmitsUndisputed(executions, executions')
  OBVIOUS
<1>1. executions' = executions => EmitsUndisputed(executions, executions')
  BY DEF EmitsUndisputed
<1>2. CASE UNCHANGED vars
  BY <1>1, <1>2, Stutter DEF vars
<1>3. CASE Finish
  BY <1>3, FinishStep
<1>4. ASSUME NEW s \in Statements, NEW source \in Sources, NEW capture \in Captures,
             Prepared(s, source, capture)
      PROVE  IInv' /\ EmitsUndisputed(executions, executions')
  BY <1>4, PreparedStep
<1>5. ASSUME NEW s \in Statements, NEW source \in Sources, Finalized(s, source)
      PROVE  IInv' /\ EmitsUndisputed(executions, executions')
  BY <1>5, FinalizedStep
<1>6. ASSUME NEW s \in Statements, NEW source \in Sources, NEW n \in Numbers, NEW t \in Threads,
             Started(s, source, n, t)
      PROVE  IInv' /\ EmitsUndisputed(executions, executions')
  BY <1>1, <1>6, StartedStep DEF Started
<1>7. ASSUME NEW s \in Statements, NEW source \in Sources, NEW n \in Numbers, NEW r \in Reports,
             ExecutedAgain(s, source, n, r) \/ ExecutedLate(s, source, n, r)
                 \/ ExecutedFirst(s, source, n, r)
      PROVE  IInv' /\ EmitsUndisputed(executions, executions')
  <2>1. CASE ExecutedAgain(s, source, n, r)
    BY <1>1, <2>1, ExecutedAgainStep DEF ExecutedAgain
  <2>2. CASE ExecutedLate(s, source, n, r)
    BY <1>1, <2>2, ExecutedLateStep DEF ExecutedLate
  <2>3. CASE ExecutedFirst(s, source, n, r)
    BY <2>3, ExecutedFirstStep
  <2> QED BY <1>7, <2>1, <2>2, <2>3
<1>8. ASSUME NEW s \in Statements, NEW source \in Sources, StartedUnmatched(s, source)
      PROVE  IInv' /\ EmitsUndisputed(executions, executions')
  BY <1>1, <1>8, UnmatchedStep DEF StartedUnmatched
<1>9. ASSUME NEW s \in Statements, NEW source \in Sources, NEW r \in Reports,
             ExecutedUnmatched(s, source, r)
      PROVE  IInv' /\ EmitsUndisputed(executions, executions')
  BY <1>1, <1>9, UnmatchedStep DEF ExecutedUnmatched
<1> QED BY <1>2, <1>3, <1>4, <1>5, <1>6, <1>7, <1>8, <1>9 DEF Next

\* The inductive invariant holds whatever the events, the statements and the window.
THEOREM TrackerInvariant == Spec => []IInv
BY InitInv, NextInv, PTL DEF Spec

\* The tables keep their shape and the window its bound.
THEOREM TypeCorrect == Spec => []TypeOK
<1>1. IInv => TypeOK
  BY DEF IInv
<1> QED BY <1>1, TrackerInvariant, PTL

\* No execution is emitted twice or with two reports (_flush_lifetime, _emit).
THEOREM EmittedAtMostOnce == Spec => []EmittedOnce
<1>1. IInv => EmittedOnce
  BY DEF IInv
<1> QED BY <1>1, TrackerInvariant, PTL

\* What is emitted was reported, measured and captured whole.
THEOREM NothingIsInvented == Spec => []NothingInvented
<1>1. IInv => NothingInvented
  BY DEF IInv
<1> QED BY <1>1, TrackerInvariant, PTL

\* Two reports of one execution always show in the counters.
THEOREM ConflictsAreCounted == Spec => []ConflictsSurface
<1>1. IInv => ConflictsSurface
  BY DEF IInv
<1> QED BY <1>1, TrackerInvariant, PTL

\* An evaluation without losses has every execution, and every start its report.
THEOREM ConclusiveMeansComplete == Spec => []ConclusiveIsComplete
<1>1. IInv => ConclusiveIsComplete
  <2> SUFFICES ASSUME IInv, finished, Conclusive
               PROVE  /\ DOMAIN executions = told
                      /\ \A b \in begun : \E x \in told : b = <<x.occurrence, x.number>>
    BY DEF ConclusiveIsComplete
  <2>1. DOMAIN active = {}
    BY DEF IInv, TypeOK
  <2> QED BY <2>1 DEF IInv, NothingInvented, LossInv, Accounted, Running, Reported
<1> QED BY <1>1, TrackerInvariant, PTL

\* No step emits an execution that a report so far contradicts.
THEOREM DisputedNeverEmitted == Spec => NothingDisputedEmitted
<1>1. IInv /\ [Next]_vars => [EmitsUndisputed(executions, executions')]_vars
  BY NextInv
<1> QED BY <1>1, TrackerInvariant, PTL DEF Spec, NothingDisputedEmitted
=============================================================================
