---------------------- MODULE LifecycleTransportProofs ----------------------
(***************************************************************************)
(* Proofs about LifecycleTransport, for any threads, queue limits, number of *)
(* records and faults.  The inductive invariant says which records each      *)
(* batch holds, where the acknowledgement of each batch is, and what is known *)
(* of a transport that broke.                                                *)
(***************************************************************************)
EXTENDS LifecycleTransport, TLAPS

Message == [type: {"batch"}, seq: Nat, ack: BOOLEAN, records: Seq(Nat)]
               \cup [type: {"acknowledged"}, seq: Nat] \cup [type: {"error"}]

\* Messages sent and not handled.
InFlight == ToSet(wire) \cup IF at.step = "idle" THEN {} ELSE {at.msg}

Inside(t) == hooks[t].state # "outside"

NumberInv ==
    /\ sequence \in Nat /\ queued \in Nat /\ expected \in 1 .. sequence + 1
    /\ queue \in Seq(Nat) /\ Len(queue) < FlushAt
    /\ alive \in BOOLEAN /\ broken \in BOOLEAN
    /\ pending \subseteq 1 .. sequence /\ expired \subseteq 1 .. sequence
    /\ delivered \in Seq(Nat) /\ passed \subseteq 1 .. queued
HookInv ==
    /\ hooks \in [Threads -> [state: {"outside", "waiting", "acknowledged", "refused"},
                              seq: Nat, record: Nat]]
    /\ slot \in Threads \cup {NoThread}
    /\ slot \in Threads => hooks[slot].state = "waiting"
    /\ ~alive => posted = << >> /\ \A t \in Threads : ~Inside(t)
WireInv ==
    /\ wire \in Seq(Message) /\ posted \in Seq(1 .. sequence)
    /\ stream \in {"on", "popped", "detached"}
    /\ at \in [step: {"idle", "checked", "accepted", "registered"}, msg: Message \cup {<< >>}]
    /\ at.step # "idle" => at.msg \in Message
    /\ at.step \in {"accepted", "registered"} => at.msg.type = "batch"
ShapeInv == NumberInv /\ HookInv /\ WireInv

\* The records that follow record base, one after the other.
Run(q, base) == \A j \in 1 .. Len(q) : q[j] = base + j

\* Batch s holds the records after the first cut[s], up to cut[s + 1]; the queue holds
\* the rest, as long as none is dropped; what is delivered are the batches accepted.
BatchCut(cut, m) ==
    /\ m.type \in {"batch", "acknowledged"} => m.seq \in 1 .. sequence
    /\ m.type = "batch" => /\ cut[m.seq] + Len(m.records) = cut[m.seq + 1]
                           /\ Run(m.records, cut[m.seq])
HookCut(cut, t) ==
    Inside(t) => hooks[t].seq \in 1 .. sequence /\ hooks[t].record = cut[hooks[t].seq + 1]

CutOrder(cut) == /\ cut[1] = 0 /\ \A s \in 1 .. sequence + 1 : cut[s] \in Nat
                 /\ \A a, b \in 1 .. sequence + 1 : a < b => cut[a] < cut[b]
Keeps == alive /\ ~broken
CutQueue(cut) ==
    /\ cut[sequence + 1] + Len(queue) <= queued
    /\ Keeps => cut[sequence + 1] + Len(queue) = queued
    /\ Run(queue, cut[sequence + 1])
CutDelivered(cut) == Len(delivered) = cut[expected] /\ Run(delivered, 0)
Cuts(cut) ==
    /\ CutOrder(cut) /\ CutQueue(cut) /\ CutDelivered(cut)
    /\ \A m \in InFlight : BatchCut(cut, m)
    /\ \A t \in Threads : HookCut(cut, t)
CutInv == \E cut : Cuts(cut)

\* Where the acknowledgement of batch s may be, on its way to the agent and back.
OnPost(s)  == s \in ToSet(posted)
OnHook(s)  == \E t \in Threads : hooks[t].state = "acknowledged" /\ hooks[t].seq = s
OnWire(s)  == \E m \in ToSet(wire) : m.type = "acknowledged" /\ m.seq = s
AtHand(s)  == at.step \in {"accepted", "registered"} /\ at.msg.seq = s
AtEnd(s)   == at.step = "checked" /\ at.msg.type = "acknowledged" /\ at.msg.seq = s
UnderWay(s) == OnPost(s) \/ OnHook(s) \/ OnWire(s) \/ AtEnd(s)

\* It is still expected, or known to be late.
Open(s) == s \in pending \/ s \in expired \/ <<"timeout", s>> \in errors \/ stream # "on"

Once(q)    == \A i, j \in DOMAIN q : q[i] = q[j] => i = j
OnceAck(q) == \A i, j \in DOMAIN q :
    q[i].type = "acknowledged" /\ q[j].type = "acknowledged" /\ q[i].seq = q[j].seq => i = j

\* It is in one place at a time, and once the batch has been registered it is expected.
Place(s) ==
    /\ UnderWay(s) \/ AtHand(s) => s < expected
    /\ UnderWay(s) \/ (AtHand(s) /\ at.step = "registered") => Open(s)
    /\ AtHand(s) => ~UnderWay(s)
    /\ OnPost(s) => ~OnHook(s) /\ ~OnWire(s) /\ ~AtEnd(s)
    /\ OnHook(s) => ~OnWire(s) /\ ~AtEnd(s)
    /\ OnWire(s) => ~AtEnd(s)
PlaceInv == \A s \in Nat : Place(s)
DistinctHooks ==
    \A t, u \in Threads : Inside(t) /\ Inside(u) /\ hooks[t].seq = hooks[u].seq => t = u
OnceInv == Once(posted) /\ OnceAck(wire) /\ DistinctHooks
Refused(s) == <<"unexpected", s>> \in errors
Late(s) == <<"timeout", s>> \in errors \/ s \in expired \/ stream # "on"
LateInv == \A s \in Nat : Refused(s) => Late(s)

\* A boundary is passed with its record delivered, or after the transport broke; and of
\* that the controller is told, unless it no longer listens or the process has ended.
PassedInv == \A r \in passed : r \in ToSet(delivered) \/ broken
Told == \/ errors # {} \/ stream # "on" \/ ~alive
        \/ \E m \in InFlight : m.type = "error"
TellInv == broken => Told

IInv == ShapeInv /\ CutInv /\ PlaceInv /\ OnceInv /\ LateInv /\ PassedInv /\ TellInv

-----------------------------------------------------------------------------
(* Sequences: what an element more or less changes. *)

\* One more element.
LEMMA AppendSet ==
    ASSUME NEW S, NEW q \in Seq(S), NEW x \in S
    PROVE  /\ Append(q, x) \in Seq(S) /\ Len(Append(q, x)) = Len(q) + 1
           /\ ToSet(Append(q, x)) = ToSet(q) \cup {x}
           /\ ToSet(q) \subseteq S
<1> DEFINE r == Append(q, x)
<1>1. /\ r \in Seq(S) /\ Len(r) = Len(q) + 1 /\ Len(q) \in Nat
      /\ DOMAIN q = 1 .. Len(q) /\ DOMAIN r = 1 .. Len(q) + 1
      /\ \A i \in 1 .. Len(q) : r[i] = q[i] /\ q[i] \in S
      /\ r[Len(q) + 1] = x
  OBVIOUS
<1> HIDE DEF r
<1>2. \A i \in DOMAIN r : r[i] \in ToSet(q) \cup {x}
  BY <1>1 DEF ToSet
<1>3. \A i \in DOMAIN q : q[i] \in ToSet(r) /\ q[i] \in S
  BY <1>1 DEF ToSet
<1>4. x \in ToSet(r)
  BY <1>1 DEF ToSet
<1> QED BY <1>1, <1>2, <1>3, <1>4 DEF ToSet, r

\* One element less.
LEMMA TailSet ==
    ASSUME NEW S, NEW q \in Seq(S), q # << >>
    PROVE  /\ Head(q) \in S /\ Tail(q) \in Seq(S) /\ Len(Tail(q)) = Len(q) - 1
           /\ ToSet(q) = ToSet(Tail(q)) \cup {Head(q)}
<1> DEFINE r == Tail(q)
<1>1. /\ r \in Seq(S) /\ Len(r) = Len(q) - 1 /\ Len(q) \in Nat /\ Len(q) >= 1
      /\ DOMAIN q = 1 .. Len(q) /\ DOMAIN r = 1 .. Len(q) - 1
      /\ \A i \in 1 .. Len(q) - 1 : r[i] = q[i + 1]
      /\ Head(q) = q[1] /\ q[1] \in S
  OBVIOUS
<1> HIDE DEF r
<1>2. \A i \in DOMAIN q : i = 1 \/ (i - 1 \in DOMAIN r /\ r[i - 1] = q[i])
  BY <1>1
<1>3. \A i \in DOMAIN r : i + 1 \in DOMAIN q /\ r[i] = q[i + 1]
  BY <1>1
<1>4. 1 \in DOMAIN q
  BY <1>1
<1>5. ToSet(q) = ToSet(r) \cup {q[1]}
  BY <1>2, <1>3, <1>4 DEF ToSet
<1> QED BY <1>1, <1>5 DEF r

\* What an ended process leaves of what it sent.
LEMMA PrefixSet ==
    ASSUME NEW S, NEW q \in Seq(S), NEW n \in 0 .. Len(q)
    PROVE  /\ SubSeq(q, 1, n) \in Seq(S) /\ ToSet(SubSeq(q, 1, n)) \subseteq ToSet(q)
           /\ \A i \in DOMAIN SubSeq(q, 1, n) : i \in DOMAIN q /\ SubSeq(q, 1, n)[i] = q[i]
<1> DEFINE r == SubSeq(q, 1, n)
<1>1. /\ r \in Seq(S) /\ Len(r) = n /\ Len(q) \in Nat
      /\ DOMAIN q = 1 .. Len(q) /\ DOMAIN r = 1 .. n
      /\ \A i \in 1 .. n : r[i] = q[i]
  OBVIOUS
<1> HIDE DEF r
<1>2. \A i \in DOMAIN r : i \in DOMAIN q /\ r[i] = q[i]
  BY <1>1
<1> QED BY <1>1, <1>2 DEF ToSet, r

\* A new element leaves all different.
LEMMA AppendOnce ==
    ASSUME NEW S, NEW q \in Seq(S), NEW x \in S, Once(q), x \notin ToSet(q)
    PROVE  Once(Append(q, x))
<1> DEFINE r == Append(q, x)
<1>1. /\ DOMAIN q = 1 .. Len(q) /\ DOMAIN r = 1 .. Len(q) + 1 /\ Len(q) \in Nat
      /\ \A i \in 1 .. Len(q) : r[i] = q[i]
      /\ r[Len(q) + 1] = x
  OBVIOUS
<1> HIDE DEF r
<1>2. \A i \in DOMAIN q : q[i] # x
  BY DEF ToSet
<1> QED BY <1>1, <1>2 DEF Once, r

\* The first of elements that are all different is not among the rest.
LEMMA TailOnce ==
    ASSUME NEW S, NEW q \in Seq(S), q # << >>, Once(q)
    PROVE  Once(Tail(q)) /\ Head(q) \notin ToSet(Tail(q))
<1> DEFINE r == Tail(q)
<1>1. /\ Len(q) \in Nat /\ Len(q) >= 1
      /\ DOMAIN q = 1 .. Len(q) /\ DOMAIN r = 1 .. Len(q) - 1
      /\ \A i \in 1 .. Len(q) - 1 : r[i] = q[i + 1]
      /\ Head(q) = q[1]
  OBVIOUS
<1> HIDE DEF r
<1>2. \A i, j \in DOMAIN r : r[i] = r[j] => i = j
  <2> SUFFICES ASSUME NEW i \in DOMAIN r, NEW j \in DOMAIN r, r[i] = r[j] PROVE i + 1 = j + 1
    BY <1>1
  <2> QED BY <1>1 DEF Once
<1>3. \A i \in DOMAIN r : r[i] # q[1]
  <2> SUFFICES ASSUME NEW i \in DOMAIN r, r[i] = q[1] PROVE i + 1 = 1
    BY <1>1
  <2> QED BY <1>1 DEF Once
<1> QED BY <1>1, <1>2, <1>3 DEF Once, ToSet, r

\* The same of confirmations, among messages of other types.
LEMMA AppendOnceAck ==
    ASSUME NEW S, NEW q \in Seq(S), NEW x \in S, OnceAck(q),
           x.type = "acknowledged" =>
               \A m \in ToSet(q) : m.type = "acknowledged" => m.seq # x.seq
    PROVE  OnceAck(Append(q, x))
<1> DEFINE r == Append(q, x)
<1>1. /\ DOMAIN q = 1 .. Len(q) /\ DOMAIN r = 1 .. Len(q) + 1 /\ Len(q) \in Nat
      /\ \A i \in 1 .. Len(q) : r[i] = q[i]
      /\ r[Len(q) + 1] = x
  OBVIOUS
<1> HIDE DEF r
<1>2. \A i \in DOMAIN q : q[i] \in ToSet(q)
  BY DEF ToSet
<1> SUFFICES ASSUME NEW i \in DOMAIN r, NEW j \in DOMAIN r, r[i].type = "acknowledged",
                    r[j].type = "acknowledged", r[i].seq = r[j].seq
             PROVE  i = j
  BY DEF OnceAck, r
<1>3. CASE i \in DOMAIN q /\ j \in DOMAIN q
  BY <1>1, <1>3 DEF OnceAck
<1>4. CASE i \in DOMAIN q /\ j \notin DOMAIN q
  BY <1>1, <1>2, <1>4
<1>5. CASE i \notin DOMAIN q /\ j \in DOMAIN q
  BY <1>1, <1>2, <1>5
<1> QED BY <1>1, <1>3, <1>4, <1>5

\* And of the first confirmation.
LEMMA TailOnceAck ==
    ASSUME NEW S, NEW q \in Seq(S), q # << >>, OnceAck(q)
    PROVE  /\ OnceAck(Tail(q))
           /\ Head(q).type = "acknowledged" =>
                  \A m \in ToSet(Tail(q)) : m.type = "acknowledged" => m.seq # Head(q).seq
<1> DEFINE r == Tail(q)
<1>1. /\ Len(q) \in Nat /\ Len(q) >= 1
      /\ DOMAIN q = 1 .. Len(q) /\ DOMAIN r = 1 .. Len(q) - 1
      /\ \A i \in 1 .. Len(q) - 1 : r[i] = q[i + 1]
      /\ Head(q) = q[1]
  OBVIOUS
<1> HIDE DEF r
<1>2. OnceAck(r)
  <2> SUFFICES ASSUME NEW i \in DOMAIN r, NEW j \in DOMAIN r, r[i].type = "acknowledged",
                      r[j].type = "acknowledged", r[i].seq = r[j].seq
               PROVE  i + 1 = j + 1
    BY <1>1 DEF OnceAck
  <2> QED BY <1>1 DEF OnceAck
<1>3. ASSUME q[1].type = "acknowledged", NEW i \in DOMAIN r, r[i].type = "acknowledged",
             r[i].seq = q[1].seq
      PROVE  FALSE
  <2>1. i + 1 = 1
    BY <1>1, <1>3 DEF OnceAck
  <2> QED BY <2>1, <1>1
<1> QED BY <1>1, <1>2, <1>3 DEF ToSet, r

\* A prefix repeats no confirmation that the whole does not.
LEMMA PrefixOnceAck ==
    ASSUME NEW S, NEW q \in Seq(S), NEW n \in 0 .. Len(q), OnceAck(q)
    PROVE  OnceAck(SubSeq(q, 1, n))
BY PrefixSet DEF OnceAck

\* A channel that repeats all it holds.
LEMMA TwiceSet ==
    ASSUME NEW S, NEW q \in Seq(S)
    PROVE  q \o q \in Seq(S) /\ ToSet(q \o q) = ToSet(q)
<1> DEFINE r == q \o q
<1>1. /\ r \in Seq(S) /\ Len(q) \in Nat
      /\ DOMAIN q = 1 .. Len(q) /\ DOMAIN r = 1 .. Len(q) + Len(q)
      /\ \A i \in 1 .. Len(q) : r[i] = q[i]
      /\ \A i \in 1 .. Len(q) + Len(q) : i > Len(q) => r[i] = q[i - Len(q)]
  OBVIOUS
<1> HIDE DEF r
<1>2. \A i \in DOMAIN r : r[i] \in ToSet(q)
  BY <1>1 DEF ToSet
<1>3. \A i \in DOMAIN q : q[i] \in ToSet(r)
  BY <1>1 DEF ToSet
<1> QED BY <1>1, <1>2, <1>3 DEF ToSet, r

\* The next record goes on with a run.
LEMMA RunAppend ==
    ASSUME NEW q \in Seq(Nat), NEW base \in Nat, Run(q, base)
    PROVE  Run(Append(q, base + Len(q) + 1), base)
<1> DEFINE r == Append(q, base + Len(q) + 1)
<1>1. /\ Len(r) = Len(q) + 1 /\ r[Len(q) + 1] = base + Len(q) + 1 /\ Len(q) \in Nat
      /\ \A j \in 1 .. Len(q) : r[j] = q[j]
  OBVIOUS
<1> HIDE DEF r
<1> SUFFICES ASSUME NEW j \in 1 .. Len(r) PROVE r[j] = base + j
  BY DEF Run, r
<1>2. CASE j \in 1 .. Len(q)
  BY <1>1, <1>2 DEF Run
<1>3. CASE j = Len(q) + 1
  BY <1>1, <1>3
<1> QED BY <1>1, <1>2, <1>3

\* Two runs that meet are one.
LEMMA RunConcat ==
    ASSUME NEW p \in Seq(Nat), NEW q \in Seq(Nat), NEW base \in Nat, Run(p, base),
           Run(q, base + Len(p))
    PROVE  /\ Run(p \o q, base) /\ p \o q \in Seq(Nat) /\ Len(p \o q) = Len(p) + Len(q)
           /\ ToSet(p) \subseteq ToSet(p \o q)
<1> DEFINE r == p \o q
<1>1. /\ r \in Seq(Nat) /\ Len(r) = Len(p) + Len(q) /\ Len(p) \in Nat /\ Len(q) \in Nat
      /\ \A j \in 1 .. Len(p) : r[j] = p[j]
      /\ DOMAIN p = 1 .. Len(p) /\ DOMAIN r = 1 .. Len(p) + Len(q)
  OBVIOUS
<1>2. \A j \in 1 .. Len(p) + Len(q) : j > Len(p) => r[j] = q[j - Len(p)]
  OBVIOUS
<1> HIDE DEF r
<1>3. ASSUME NEW j \in 1 .. Len(r) PROVE r[j] = base + j
  <2>1. CASE j \in 1 .. Len(p)
    BY <1>1, <2>1 DEF Run
  <2>2. CASE j > Len(p)
    <3>1. j - Len(p) \in 1 .. Len(q)
      BY <1>1, <2>2
    <3>2. q[j - Len(p)] = base + Len(p) + (j - Len(p))
      BY <3>1 DEF Run
    <3> QED BY <1>1, <1>2, <2>2, <3>2, SMTT(30)
  <2> QED BY <1>1, <2>1, <2>2
<1>4. \A i \in DOMAIN p : i \in DOMAIN r /\ r[i] = p[i]
  BY <1>1
<1>5. ToSet(p) \subseteq ToSet(r)
  BY <1>4 DEF ToSet
<1> QED BY <1>1, <1>3, <1>5 DEF Run, r

\* No records are a run after any record.
LEMMA RunEmpty == \A base : Len(<< >>) = 0 /\ Run(<< >>, base)
BY DEF Run

(* Messages.                                                                *)
LEMMA Fields ==
    ASSUME NEW m \in Message
    PROVE  /\ m.type \in {"batch", "acknowledged", "error"}
           /\ m.type # "error" => m.seq \in Nat
           /\ m.type = "batch" => m.ack \in BOOLEAN /\ m.records \in Seq(Nat)
           /\ m # << >>
BY DEF Message

\* What the agent sends are messages.
LEMMA Messages ==
    ASSUME NEW s \in Nat, NEW a \in BOOLEAN, NEW r \in Seq(Nat)
    PROVE  /\ Batch(s, a, r) \in Message /\ Acknowledged(s) \in Message /\ AgentError \in Message
           /\ Batch(s, a, r).type = "batch" /\ Batch(s, a, r).seq = s /\ Batch(s, a, r).records = r
           /\ Acknowledged(s).type = "acknowledged" /\ Acknowledged(s).seq = s
           /\ AgentError.type = "error"
BY DEF Message, Batch, Acknowledged, AgentError

-----------------------------------------------------------------------------
(* Steps that send no batch, accept none and lose no more than messages.    *)

\* No batch is new, and no hook is inside for another batch.
NoNewBatch == \A m \in InFlight' : \/ m \in InFlight \/ m.type = "error"
                                   \/ m.type = "acknowledged" /\ m.seq \in 1 .. sequence
NoNewHook  == \A t \in Threads : Inside(t)' =>
                 Inside(t) /\ hooks'[t].seq = hooks[t].seq /\ hooks'[t].record = hooks[t].record
LessQueue  == /\ queue' = queue \/ queue' = << >>
              /\ queued' \in Nat /\ queued' >= queued
              /\ Keeps' => Keeps /\ queue' = queue /\ queued' = queued

\* The cuts that the queue and the controller are at.
LEMMA NextCut ==
    ASSUME NumberInv, NEW cut, Cuts(cut)
    PROVE  cut[sequence + 1] \in Nat /\ cut[expected] \in Nat
<1>1. sequence \in Nat /\ expected \in 1 .. sequence + 1
  BY DEF NumberInv
<1>2. \A s \in 1 .. sequence + 1 : cut[s] \in Nat
  BY DEF Cuts, CutOrder
<1> QED BY <1>1, <1>2

\* Such a step keeps the cuts.
LEMMA CutFrame ==
    ASSUME NumberInv, CutInv, UNCHANGED <<sequence, expected, delivered>>,
           NoNewBatch, NoNewHook, LessQueue
    PROVE  CutInv'
<1>1. PICK cut : Cuts(cut)
  BY DEF CutInv
<1>2. sequence + 1 \in Nat /\ Len(queue) \in Nat /\ queued \in Nat
  BY DEF NumberInv
<1>3. CutQueue(cut)'
  <2> DEFINE base == cut[sequence + 1]
  <2>1. base + Len(queue) <= queued /\ Run(queue, base) /\ base \in Nat
    BY <1>1, NextCut DEF Cuts, CutQueue
  <2>2. Keeps => base + Len(queue) = queued
    BY <1>1 DEF Cuts, CutQueue
  <2> HIDE DEF base
  <2>3. queued' \in Nat /\ queued' >= queued
    BY DEF LessQueue
  <2>4. Keeps' => base + Len(queue') = queued'
    BY <2>2 DEF LessQueue
  <2>5. base + Len(queue') <= queued' /\ Run(queue', base)
    <3>1. CASE queue' = queue
      BY <1>2, <2>1, <2>3, <3>1
    <3>2. CASE queue' = << >>
      <4>1. Len(queue') = 0 /\ Run(queue', base)
        BY <3>2, RunEmpty
      <4> QED BY <1>2, <2>1, <2>3, <4>1
    <3> QED BY <3>1, <3>2 DEF LessQueue
  <2> QED BY <2>4, <2>5 DEF CutQueue, base
<1>4. CutOrder(cut)' /\ CutDelivered(cut)'
  BY <1>1 DEF Cuts, CutOrder, CutDelivered
<1>5. \A m \in InFlight' : BatchCut(cut, m)'
  BY <1>1 DEF Cuts, BatchCut, NoNewBatch
<1>6. \A t \in Threads : HookCut(cut, t)'
  BY <1>1 DEF Cuts, HookCut, NoNewHook
<1>7. Cuts(cut)'
  BY <1>3, <1>4, <1>5, <1>6 DEF Cuts
<1> QED BY <1>7 DEF CutInv

\* What is in flight are messages.
LEMMA InFlightMessage ==
    ASSUME WireInv
    PROVE  InFlight \subseteq Message
<1>1. wire \in Seq(Message) /\ (at.step # "idle" => at.msg \in Message)
  BY DEF WireInv
<1>2. ToSet(wire) \subseteq Message
  BY <1>1 DEF ToSet
<1> QED BY <1>1, <1>2 DEF InFlight

\* A message in flight is about a batch that was sent.
LEMMA InFlightSeq ==
    ASSUME CutInv, NEW m \in InFlight, m.type \in {"batch", "acknowledged"}
    PROVE  m.seq \in 1 .. sequence
BY DEF CutInv, Cuts, BatchCut

-----------------------------------------------------------------------------
(* Steps that queue a record, send a batch or accept one.                   *)

Grows == /\ queue' = Append(queue, queued + 1) /\ queued' = queued + 1
         /\ UNCHANGED <<alive, broken, sequence, expected, delivered, wire, at, hooks>>

\* A record queued, and no batch sent, keeps the cuts.
LEMMA CutGrows ==
    ASSUME NumberInv, CutInv, Keeps, Grows
    PROVE  CutInv'
<1>1. PICK cut : Cuts(cut)
  BY DEF CutInv
<1> DEFINE base == cut[sequence + 1]
<1>2. base \in Nat /\ queued \in Nat /\ queue \in Seq(Nat)
  BY <1>1, NextCut DEF NumberInv
<1>3. base + Len(queue) = queued /\ Run(queue, base)
  BY <1>1 DEF Cuts, CutQueue
<1> HIDE DEF base
<1>4. queue' = Append(queue, base + Len(queue) + 1)
  BY <1>3 DEF Grows
<1>5. Run(queue', base) /\ Len(queue') = Len(queue) + 1 /\ Len(queue) \in Nat
  BY <1>2, <1>3, <1>4, RunAppend, AppendSet
<1>6. queued' \in Nat /\ base + Len(queue') = queued'
  <2>1. queued' = queued + 1
    BY DEF Grows
  <2> QED BY <1>2, <1>3, <1>5, <2>1
<1>7. CutQueue(cut)'
  <2>1. base' = base
    BY DEF Grows, base
  <2> QED BY <1>2, <1>5, <1>6, <2>1 DEF CutQueue, base
<1>8. CutOrder(cut)' /\ CutDelivered(cut)'
  BY <1>1 DEF Cuts, CutOrder, CutDelivered, Grows
<1>9. \A m \in InFlight' : BatchCut(cut, m)'
  BY <1>1 DEF Cuts, BatchCut, InFlight, Grows
<1>10. \A t \in Threads : HookCut(cut, t)'
  BY <1>1 DEF Cuts, HookCut, Inside, Grows
<1>11. Cuts(cut)'
  BY <1>7, <1>8, <1>9, <1>10 DEF Cuts
<1> QED BY <1>11 DEF CutInv

\* What Send sends: the queue, with or without a new record at its end.
Sends(records) ==
    /\ records # << >>
    /\ \/ records = queue /\ queued' = queued
       \/ records = Append(queue, queued + 1) /\ queued' = queued + 1
    /\ UNCHANGED <<expected, delivered, at>>
\* The only hook that goes inside waits for the batch sent, up to the new record.
NewHook == \A t \in Threads : Inside(t)' =>
              \/ Inside(t) /\ hooks'[t].seq = hooks[t].seq /\ hooks'[t].record = hooks[t].record
              \/ hooks'[t].seq = sequence + 1 /\ hooks'[t].record = queued'

\* Batches sent before keep their records when the next batch has its own.
LEMMA BatchKeeps ==
    ASSUME NEW cut, NEW new, NEW m \in Message, BatchCut(cut, m), sequence \in Nat,
           sequence' = sequence + 1, \A i \in 1 .. sequence + 1 : new[i] = cut[i]
    PROVE  BatchCut(new, m)'
<1>1. CASE m.type \in {"batch", "acknowledged"}
  <2>1. m.seq \in 1 .. sequence
    BY <1>1 DEF BatchCut
  <2>2. m.seq \in 1 .. sequence' /\ new[m.seq] = cut[m.seq] /\ new[m.seq + 1] = cut[m.seq + 1]
    BY <2>1
  <2> QED BY <2>2 DEF BatchCut
<1> QED BY <1>1 DEF BatchCut

\* A batch sent adds a cut, at the last record queued.
LEMMA CutSends ==
    ASSUME NumberInv, WireInv, CutInv, Keeps, NEW records \in Seq(Nat), NEW ack \in BOOLEAN,
           Sends(records), Send(records, ack), NewHook
    PROVE  CutInv'
<1>1. PICK cut : Cuts(cut)
  BY DEF CutInv
<1> DEFINE base == cut[sequence + 1]
<1>2. /\ base \in Nat /\ queued \in Nat /\ queue \in Seq(Nat) /\ sequence \in Nat
      /\ expected \in 1 .. sequence + 1
  BY <1>1, NextCut DEF NumberInv
<1>3. base + Len(queue) = queued /\ Run(queue, base)
  BY <1>1 DEF Cuts, CutQueue
<1>4. \A i \in 1 .. sequence + 1 : cut[i] \in Nat
  BY <1>1 DEF Cuts, CutOrder
<1>5. base = cut[sequence + 1]
  OBVIOUS
<1> HIDE DEF base
<1>6. Run(records, base) /\ base + Len(records) = queued' /\ Len(records) \in Nat \ {0}
  <2>1. Len(records) \in Nat \ {0} /\ Len(queue) \in Nat
    BY <1>2 DEF Sends
  <2>2. CASE records = queue /\ queued' = queued
    BY <1>3, <2>1, <2>2
  <2>3. CASE records = Append(queue, queued + 1) /\ queued' = queued + 1
    <3>1. records = Append(queue, base + Len(queue) + 1)
      BY <1>3, <2>3
    <3>2. Run(records, base) /\ Len(records) = Len(queue) + 1
      BY <1>2, <1>3, <2>1, <3>1, RunAppend, AppendSet
    <3>3. queued' = queued + 1
      BY <2>3
    <3> QED BY <1>2, <1>3, <2>1, <3>2, <3>3
  <2> QED BY <2>2, <2>3 DEF Sends
<1>7. queued' \in Nat /\ base < queued'
  <2> DEFINE n == Len(records)
  <2>1. base + n = queued' /\ n \in Nat \ {0}
    BY <1>6
  <2> HIDE DEF n
  <2> QED BY <1>2, <2>1
<1>8. PICK new : new[sequence + 2] = queued' /\ \A i \in 1 .. sequence + 1 : new[i] = cut[i]
  <2> DEFINE f == [i \in Nat |-> IF i = sequence + 2 THEN queued' ELSE cut[i]]
  <2>1. f[sequence + 2] = queued' /\ \A i \in 1 .. sequence + 1 : f[i] = cut[i]
    BY <1>2
  <2> QED BY <2>1
<1>9. \A i \in 1 .. sequence + 1 : new[i] = cut[i]
  BY <1>8
<1>10. sequence' = sequence + 1 /\ sequence' + 1 = sequence + 2
  BY <1>2 DEF Send
<1>11. CutOrder(new)'
  <2>1. cut[1] = 0 /\ \A a, b \in 1 .. sequence + 1 : a < b => cut[a] < cut[b]
    BY <1>1 DEF Cuts, CutOrder
  <2>2. new[1] = 0
    BY <1>2, <1>9, <2>1
  <2>5. \A i \in 1 .. sequence + 2 : new[i] \in Nat
    <3> SUFFICES ASSUME NEW i \in 1 .. sequence + 2 PROVE new[i] \in Nat
      OBVIOUS
    <3>1. i \in 1 .. sequence + 1 \/ i = sequence + 2
      BY <1>2
    <3> QED BY <1>4, <1>7, <1>8, <1>9, <3>1
  <2>3. ASSUME NEW a \in 1 .. sequence + 2, NEW b \in 1 .. sequence + 2, a < b
        PROVE  new[a] < new[b]
    <3>1. a \in 1 .. sequence + 1
      BY <1>2, <2>3
    <3>2. CASE b \in 1 .. sequence + 1
      BY <1>9, <2>1, <2>3, <3>1, <3>2
    <3>3. CASE b = sequence + 2
      <4>1. a = sequence + 1 \/ cut[a] < base
        BY <1>2, <1>5, <2>1, <3>1
      <4>2. new[a] = cut[a] /\ cut[a] \in Nat /\ new[b] = queued'
        BY <1>4, <1>8, <1>9, <3>1, <3>3
      <4> QED BY <1>2, <1>5, <1>7, <4>1, <4>2
    <3> QED BY <1>2, <3>2, <3>3
  <2> QED BY <1>10, <2>2, <2>3, <2>5 DEF CutOrder
<1>12. CutQueue(new)'
  <2>1. queue' = << >>
    BY DEF Send
  <2>2. Len(queue') = 0 /\ Run(queue', new[sequence' + 1])
    BY <2>1, RunEmpty
  <2>3. new[sequence' + 1] + Len(queue') = queued'
    BY <1>7, <1>8, <1>10, <2>2
  <2> QED BY <1>7, <2>2, <2>3 DEF CutQueue
<1>13. CutDelivered(new)'
  <2>1. UNCHANGED <<expected, delivered>>
    BY DEF Sends
  <2> QED BY <1>1, <1>2, <1>9, <2>1 DEF Cuts, CutDelivered
<1>14. ASSUME NEW m \in InFlight' PROVE BatchCut(new, m)'
  <2>1. InFlight \subseteq Message
    BY InFlightMessage
  <2>2. m \in InFlight \/ m = Batch(sequence + 1, ack, records)
    <3>1. ToSet(wire') = ToSet(wire) \cup {Batch(sequence + 1, ack, records)}
      <4>1. Batch(sequence + 1, ack, records) \in Message /\ wire \in Seq(Message)
        BY <1>2, Messages DEF WireInv
      <4>2. wire' = Append(wire, Batch(sequence + 1, ack, records))
        BY DEF Send
      <4> QED BY <4>1, <4>2, AppendSet
    <3> QED BY <3>1 DEF InFlight, Sends
  <2>3. CASE m \in InFlight
    <3>1. BatchCut(cut, m) /\ m \in Message
      BY <1>1, <2>1, <2>3 DEF Cuts
    <3> QED BY <1>2, <1>9, <1>10, <3>1, BatchKeeps
  <2>4. CASE m = Batch(sequence + 1, ack, records)
    <3>1. m.type = "batch" /\ m.seq = sequence + 1 /\ m.records = records
      BY <2>4 DEF Batch
    <3>2. m.seq \in 1 .. sequence'
      BY <1>2, <1>10, <3>1
    <3>3. new[m.seq] = base /\ new[m.seq + 1] = queued'
      BY <1>2, <1>5, <1>8, <1>9, <3>1
    <3> QED BY <1>6, <3>1, <3>2, <3>3 DEF BatchCut
  <2> QED BY <2>2, <2>3, <2>4
<1>15. ASSUME NEW t \in Threads PROVE HookCut(new, t)'
  <2>1. CASE Inside(t) /\ hooks'[t].seq = hooks[t].seq /\ hooks'[t].record = hooks[t].record
    <3>1. hooks[t].seq \in 1 .. sequence /\ hooks[t].record = cut[hooks[t].seq + 1]
      BY <1>1, <2>1 DEF Cuts, HookCut
    <3>2. hooks[t].seq \in 1 .. sequence' /\ new[hooks[t].seq + 1] = cut[hooks[t].seq + 1]
      BY <1>2, <1>9, <1>10, <3>1
    <3> QED BY <2>1, <3>1, <3>2 DEF HookCut
  <2>2. CASE hooks'[t].seq = sequence + 1 /\ hooks'[t].record = queued'
    <3>1. hooks'[t].seq \in 1 .. sequence' /\ new[hooks'[t].seq + 1] = queued'
      BY <1>2, <1>8, <1>10, <2>2
    <3> QED BY <2>2, <3>1 DEF HookCut
  <2> QED BY <2>1, <2>2 DEF NewHook, HookCut
<1>16. Cuts(new)'
  BY <1>11, <1>12, <1>13, <1>14, <1>15 DEF Cuts
<1> QED BY <1>16 DEF CutInv

\* The batch at hand is in sequence.
Accepts == /\ Dispatching("batch") /\ InSequence(at.msg)
           /\ delivered' = delivered \o at.msg.records /\ expected' = expected + 1
           /\ at'.step = "idle" \/ at'.msg = at.msg
           /\ UNCHANGED <<alive, broken, queue, sequence, queued, wire, hooks>>

\* A batch accepted goes on where the last one ended.
LEMMA CutAccepts ==
    ASSUME NumberInv, WireInv, CutInv, Accepts
    PROVE  /\ CutInv' /\ expected \in 1 .. sequence
           /\ delivered' \in Seq(Nat) /\ ToSet(delivered) \subseteq ToSet(delivered')
           /\ Len(delivered) < Len(delivered')
<1> DEFINE m == at.msg
           r == m.records
<1>1. PICK cut : Cuts(cut)
  BY DEF CutInv
<1>2. m \in InFlight /\ m.type = "batch" /\ m \in Message /\ m.seq = expected
  BY DEF InFlight, Dispatching, WireInv, InSequence, Accepts
<1>3. expected' = expected + 1 /\ delivered' = delivered \o r
  BY DEF Accepts
<1> HIDE DEF m
<1>4. /\ expected \in 1 .. sequence /\ r \in Seq(Nat)
      /\ cut[expected] + Len(r) = cut[expected + 1] /\ Run(r, cut[expected])
  BY <1>1, <1>2, Fields DEF Cuts, BatchCut
<1> HIDE DEF r
<1>5. delivered \in Seq(Nat) /\ Len(delivered) = cut[expected] /\ Run(delivered, 0)
  BY <1>1 DEF NumberInv, Cuts, CutDelivered
<1>6. Run(r, 0 + Len(delivered))
  <2> DEFINE n == Len(delivered)
  <2>1. n \in Nat /\ n = cut[expected]
    BY <1>5
  <2> HIDE DEF n
  <2>2. 0 + n = cut[expected]
    BY <2>1
  <2> QED BY <1>4, <2>2 DEF n
<1>7. /\ Run(delivered', 0) /\ delivered' \in Seq(Nat)
      /\ Len(delivered') = Len(delivered) + Len(r) /\ ToSet(delivered) \subseteq ToSet(delivered')
  BY <1>3, <1>4, <1>5, <1>6, RunConcat
<1>8. CutDelivered(cut)'
  <2>1. Len(delivered') = cut[expected']
    BY <1>3, <1>4, <1>5, <1>7
  <2> QED BY <1>7, <2>1 DEF CutDelivered
<1>9. CutOrder(cut)' /\ CutQueue(cut)'
  BY <1>1 DEF Cuts, CutOrder, CutQueue, Keeps, Accepts
<1>10. \A n \in InFlight' : BatchCut(cut, n)'
  BY <1>1 DEF Cuts, InFlight, BatchCut, Accepts, Dispatching
<1>11. \A t \in Threads : HookCut(cut, t)'
  BY <1>1 DEF Cuts, HookCut, Inside, Accepts
<1>12. Cuts(cut)'
  BY <1>8, <1>9, <1>10, <1>11 DEF Cuts
<1>13. Len(delivered) < Len(delivered')
  <2>1. expected \in Nat /\ expected + 1 \in 1 .. sequence + 1 /\ expected \in 1 .. sequence + 1
    BY <1>4 DEF NumberInv
  <2>2. cut[expected] < cut[expected + 1]
    BY <1>1, <2>1 DEF Cuts, CutOrder
  <2> QED BY <1>3, <1>5, <1>8, <2>2 DEF CutDelivered
<1> QED BY <1>4, <1>7, <1>12, <1>13 DEF CutInv

\* A hook inside waits for a batch that was sent.
LEMMA HookSeq ==
    ASSUME CutInv, NEW t \in Threads, Inside(t)
    PROVE  hooks[t].seq \in 1 .. sequence
BY DEF CutInv, Cuts, HookCut

-----------------------------------------------------------------------------
(* What a step leaves of the rest of the invariant.                         *)

\* The acknowledgement of batch s goes nowhere new, and is no less expected.
Stays(s) ==
    /\ OnPost(s)' => OnPost(s)
    /\ OnHook(s)' => OnHook(s)
    /\ OnWire(s)' => OnWire(s)
    /\ AtEnd(s)' => AtEnd(s)
    /\ AtHand(s)' => AtHand(s)
    /\ AtHand(s)' /\ at'.step = "registered" => at.step = "registered"
    /\ Open(s) => Open(s)'
    /\ s < expected => s < expected'
Gone(s) == ~UnderWay(s)' /\ ~AtHand(s)'

\* The acknowledgement of a batch stays in its one place, or has none.
LEMMA PlaceFrame ==
    ASSUME NEW s, Place(s), Stays(s) \/ Gone(s)
    PROVE  Place(s)'
BY DEF Place, Stays, Gone, UnderWay

\* No error message is lost unless it is counted, and nothing reported is forgotten.
Tells ==
    /\ UNCHANGED <<alive, broken>>
    /\ errors \subseteq errors'
    /\ stream # "on" => stream' # "on"
    /\ \A m \in InFlight : m.type = "error" => m \in InFlight' \/ errors' # {} \/ stream' # "on"

\* A transport that broke is still told of.
LEMMA TellFrame ==
    ASSUME TellInv, Tells
    PROVE  TellInv'
BY DEF TellInv, Told, Tells

\* A step of the backend that accepts no batch, and leaves the message at hand, or
\* is done with it.
Rests ==
    /\ UNCHANGED <<agent, wire, expected, delivered, queued, passed>>
    /\ at' = Idle \/ at' = at \/ (at.step # "idle" /\ at'.msg = at.msg)

\* Such a step keeps what the agent and the channel hold.
LEMMA RestFrame ==
    ASSUME IInv, Rests
    PROVE  /\ InFlight' \subseteq InFlight /\ CutInv' /\ PassedInv' /\ DistinctHooks'
           /\ \A s : OnHook(s)' = OnHook(s) /\ OnWire(s)' = OnWire(s)
<1>1. InFlight' \subseteq InFlight
  BY DEF InFlight, Rests, Idle
<1>2. CutInv'
  <2>1. NoNewBatch /\ NoNewHook
    BY <1>1 DEF NoNewBatch, NoNewHook, Inside, Rests, agent
  <2>2. LessQueue
    <3>1. queued \in Nat /\ queued' = queued /\ queue' = queue /\ (Keeps' => Keeps)
      BY DEF IInv, ShapeInv, NumberInv, Rests, agent, Keeps
    <3> QED BY <3>1 DEF LessQueue
  <2>3. UNCHANGED <<sequence, expected, delivered>>
    BY DEF Rests, agent
  <2> QED BY <2>1, <2>2, <2>3, CutFrame DEF IInv, ShapeInv
<1>3. PassedInv' /\ DistinctHooks'
  BY DEF IInv, PassedInv, OnceInv, DistinctHooks, Inside, Rests, agent
<1>4. \A s : OnHook(s)' = OnHook(s) /\ OnWire(s)' = OnWire(s)
  BY DEF OnHook, OnWire, Rests, agent
<1> QED BY <1>1, <1>2, <1>3, <1>4

\* The steps of the watchdog and of the retirement touch the tables only.
LEMMA QuietFrame ==
    ASSUME IInv, Rests, UNCHANGED <<posted, at>>, NumberInv', WireInv', LateInv', Tells,
           \A s : Open(s) => Open(s)'
    PROVE  IInv'
<1>1. HookInv'
  BY DEF IInv, ShapeInv, HookInv, Inside, Rests, agent
<1>2. PlaceInv'
  <2> SUFFICES ASSUME NEW s \in Nat PROVE Place(s)'
    BY DEF PlaceInv
  <2>1. expected' = expected
    BY DEF Rests
  <2>2. Stays(s)
    BY <2>1, RestFrame DEF Stays, OnPost, AtEnd, AtHand
  <2> QED BY <2>2, PlaceFrame DEF IInv, PlaceInv
<1>3. OnceInv'
  <2>1. wire' = wire
    BY DEF Rests
  <2> QED BY <2>1, RestFrame DEF IInv, OnceInv
<1> QED BY <1>1, <1>2, <1>3, RestFrame, TellFrame DEF IInv, ShapeInv

\* _watch_acknowledgements takes an acknowledgement that is late ...
LEMMA ExpireStep ==
    ASSUME IInv, NEW seq, Expire(seq)
    PROVE  IInv'
<1>1. Rests /\ UNCHANGED <<posted, at>>
  BY DEF Expire, Rests
<1>2. NumberInv' /\ WireInv'
  BY DEF IInv, ShapeInv, NumberInv, WireInv, Expire, agent
<1>3. \A s : Open(s) => Open(s)'
  BY DEF Open, Expire
<1>4. LateInv'
  BY DEF IInv, LateInv, Refused, Late, Expire
<1>5. Tells
  BY DEF Tells, Expire, agent, InFlight
<1> QED BY <1>1, <1>2, <1>3, <1>4, <1>5, QuietFrame

\* ... and reports it.
LEMMA ReportExpiredStep ==
    ASSUME IInv, NEW seq, ReportExpired(seq)
    PROVE  IInv'
<1>1. Rests /\ UNCHANGED <<posted, at>>
  BY DEF ReportExpired, Rests
<1>2. NumberInv' /\ WireInv'
  BY DEF IInv, ShapeInv, NumberInv, WireInv, ReportExpired, agent
<1>3. \A s : Open(s) => Open(s)'
  BY DEF Open, ReportExpired
<1>4. LateInv'
  BY DEF IInv, LateInv, Refused, Late, ReportExpired
<1>5. Tells
  BY DEF Tells, ReportExpired, agent, InFlight
<1> QED BY <1>1, <1>2, <1>3, <1>4, <1>5, QuietFrame

\* detach_process takes the stream out of the table ...
LEMMA PopStreamStep ==
    ASSUME IInv, PopStream
    PROVE  IInv'
<1>1. Rests /\ UNCHANGED <<posted, at>>
  BY DEF PopStream, Rests
<1>2. NumberInv' /\ WireInv'
  BY DEF IInv, ShapeInv, NumberInv, WireInv, PopStream, agent
<1>3. \A s : Open(s) => Open(s)'
  BY DEF Open, PopStream
<1>4. LateInv'
  BY DEF IInv, LateInv, Refused, Late, PopStream
<1>5. Tells
  BY DEF Tells, PopStream, agent, InFlight
<1> QED BY <1>1, <1>2, <1>3, <1>4, <1>5, QuietFrame

\* ... and cancels what it waits for.
LEMMA CancelAcksStep ==
    ASSUME IInv, CancelAcks
    PROVE  IInv'
<1>1. Rests /\ UNCHANGED <<posted, at>>
  BY DEF CancelAcks, Rests
<1>2. NumberInv' /\ WireInv'
  BY DEF IInv, ShapeInv, NumberInv, WireInv, CancelAcks, agent
<1>3. \A s : Open(s) => Open(s)'
  BY DEF Open, CancelAcks
<1>4. LateInv'
  BY DEF IInv, LateInv, Refused, Late, CancelAcks
<1>5. Tells
  BY DEF Tells, CancelAcks, agent, InFlight
<1> QED BY <1>1, <1>2, <1>3, <1>4, <1>5, QuietFrame

-----------------------------------------------------------------------------
(* The dispatch thread, but for the messages it takes and the batches it accepts. *)

\* The message at hand is about a batch that was sent.
LEMMA AtHandMessage ==
    ASSUME IInv, at.step # "idle", at.msg.type \in {"batch", "acknowledged"}
    PROVE  at.msg \in Message /\ at.msg.seq \in 1 .. sequence /\ at.msg.seq \in Nat
<1>1. at.msg \in Message /\ at.msg \in InFlight
  BY DEF IInv, ShapeInv, WireInv, InFlight
<1>2. at.msg.seq \in 1 .. sequence
  BY <1>1, InFlightSeq DEF IInv
<1> QED BY <1>1, <1>2, Fields

\* The thread is free for the next message.
LEMMA IdleFrame ==
    ASSUME WireInv, at' = Idle, UNCHANGED <<wire, posted, sequence, stream>>
    PROVE  WireInv'
<1>1. at'.step = "idle" /\ at'.msg = << >>
  BY DEF Idle
<1>2. at' \in [step: {"idle", "checked", "accepted", "registered"}, msg: Message \cup {<< >>}]
  BY DEF Idle
<1> QED BY <1>1, <1>2 DEF WireInv

\* A step that is done with the message at hand, and so far has told of it if it was
\* an error.
LEMMA DoneFrame ==
    ASSUME IInv, Rests, posted' = posted, at' = Idle, NumberInv', LateInv', Tells,
           \A s \in Nat : Gone(s) \/ (Open(s) => Open(s)'), stream' = stream
    PROVE  IInv'
<1>1. HookInv' /\ WireInv'
  <2>1. HookInv'
    BY DEF IInv, ShapeInv, HookInv, Inside, Rests, agent
  <2>2. UNCHANGED <<wire, sequence>>
    BY DEF Rests, agent
  <2>3. WireInv'
    BY <2>2, IdleFrame DEF IInv, ShapeInv
  <2> QED BY <2>1, <2>3
<1>2. PlaceInv'
  <2> SUFFICES ASSUME NEW s \in Nat PROVE Place(s)'
    BY DEF PlaceInv
  <2>1. expected' = expected
    BY DEF Rests
  <2>2. Stays(s) \/ Gone(s)
    BY <2>1, RestFrame DEF Stays, OnPost, AtEnd, AtHand, Idle
  <2> QED BY <2>2, PlaceFrame DEF IInv, PlaceInv
<1>3. OnceInv'
  <2>1. wire' = wire
    BY DEF Rests
  <2> QED BY <2>1, RestFrame DEF IInv, OnceInv
<1> QED BY <1>1, <1>2, <1>3, RestFrame, TellFrame DEF IInv, ShapeInv

\* The session ends after its messages: no acknowledgement is under way.
LEMMA SessionDetachedStep ==
    ASSUME IInv, SessionDetached
    PROVE  IInv'
<1>1. Rests /\ posted' = posted
  BY DEF SessionDetached, Rests
<1>2. at' = Idle \/ at' = at
  BY DEF SessionDetached
<1>3. NumberInv' /\ WireInv' /\ HookInv'
  BY DEF IInv, ShapeInv, NumberInv, WireInv, HookInv, Inside, SessionDetached, agent
<1>4. LateInv'
  BY DEF IInv, LateInv, Refused, Late, SessionDetached
<1>5. Tells
  BY DEF Tells, SessionDetached, agent, InFlight
<1>6. PlaceInv'
  <2> SUFFICES ASSUME NEW s \in Nat PROVE Place(s)'
    BY DEF PlaceInv
  <2>1. ~OnHook(s) /\ ~OnWire(s)
    <3>1. ToSet(wire) = {}
      BY DEF SessionDetached, ToSet
    <3>2. \A t \in Threads : hooks[t].state = "outside"
      BY DEF IInv, ShapeInv, HookInv, Inside, SessionDetached
    <3> QED BY <3>1, <3>2 DEF OnHook, OnWire
  <2>2. ~OnPost(s)
    <3>1. posted = << >>
      BY DEF IInv, ShapeInv, HookInv, SessionDetached
    <3> QED BY <3>1 DEF OnPost, ToSet
  <2>3. ~AtEnd(s) /\ ~AtHand(s)
    BY DEF AtEnd, AtHand, SessionDetached
  <2>4. Gone(s)
    BY <1>1, <2>1, <2>2, <2>3, RestFrame
       DEF Gone, UnderWay, OnPost, AtEnd, AtHand, SessionDetached
  <2> QED BY <2>4, PlaceFrame DEF IInv, PlaceInv
<1>7. OnceInv'
  <2>1. wire' = wire
    BY DEF Rests, SessionDetached
  <2> QED BY <1>1, <2>1, RestFrame DEF IInv, OnceInv
<1> QED BY <1>1, <1>3, <1>4, <1>5, <1>6, <1>7, RestFrame, TellFrame DEF IInv, ShapeInv

\* _confirm_pending_ack: what is confirmed is expected, or known to be late.
LEMMA HandleAcknowledgedStep ==
    ASSUME IInv, HandleAcknowledged
    PROVE  IInv'
<1> DEFINE q == at.msg.seq
<1>1. at.step = "checked" /\ at.msg.type = "acknowledged"
  BY DEF HandleAcknowledged, Dispatching
<1>2. q \in 1 .. sequence /\ q \in Nat
  BY <1>1, AtHandMessage
<1>3. AtEnd(q)
  BY <1>1 DEF AtEnd
<1>4. /\ ~AtHand(q) /\ ~OnPost(q) /\ ~OnHook(q) /\ ~OnWire(q) /\ Open(q)
  BY <1>2, <1>3 DEF IInv, PlaceInv, Place, UnderWay
<1>5. /\ pending' = pending \ {q} /\ errors \subseteq errors'
      /\ errors' \subseteq errors \cup {<<"unexpected", q>>}
      /\ q \in pending => errors' = errors
      /\ at' = Idle /\ posted' = posted /\ UNCHANGED <<expired, stream, agent, wire, sequence>>
  BY DEF HandleAcknowledged, agent
<1>6. Rests
  BY DEF HandleAcknowledged, Rests
<1> HIDE DEF q
<1>7. NumberInv'
  BY <1>5, <1>6 DEF IInv, ShapeInv, NumberInv, Rests, agent
<1>8. LateInv'
  <2> SUFFICES ASSUME NEW s \in Nat, Refused(s)' PROVE Late(s)'
    BY DEF LateInv
  <2>1. CASE Refused(s)
    BY <1>5, <2>1 DEF IInv, LateInv, Late
  <2>2. CASE ~Refused(s)
    <3>1. s = q
      BY <1>5, <2>2 DEF Refused
    <3>2. q \notin pending
      BY <1>5, <2>2 DEF Refused
    <3> QED BY <1>4, <1>5, <3>1, <3>2 DEF Open, Late
  <2> QED BY <2>1, <2>2
<1>9. Tells
  <2>1. \A m \in InFlight : m.type = "error" => m \in InFlight'
    BY <1>1, <1>5 DEF InFlight, Idle
  <2> QED BY <1>5, <2>1 DEF Tells, agent
<1>10. ASSUME NEW s \in Nat PROVE Gone(s) \/ (Open(s) => Open(s)')
  <2>1. CASE s = q
    BY <1>4, <1>5, <1>6, <2>1, RestFrame DEF Gone, UnderWay, OnPost, AtEnd, AtHand, Idle
  <2>2. CASE s # q
    BY <1>5, <2>2 DEF Open
  <2> QED BY <2>1, <2>2
<1>11. stream' = stream
  BY <1>5
<1> QED BY <1>5, <1>6, <1>7, <1>8, <1>9, <1>10, <1>11, DoneFrame

\* An error message is counted.
LEMMA HandleErrorStep ==
    ASSUME IInv, HandleError
    PROVE  IInv'
<1>1. Rests /\ posted' = posted /\ at' = Idle
  BY DEF HandleError, Rests
<1>2. /\ errors' = errors \cup {<<"agent", 0>>} /\ errors' # {}
      /\ UNCHANGED <<stream, pending, expired, agent>>
  BY DEF HandleError
<1>3. NumberInv'
  BY <1>1, <1>2 DEF IInv, ShapeInv, NumberInv, Rests, agent
<1>4. LateInv'
  BY <1>2 DEF IInv, LateInv, Refused, Late
<1>5. Tells
  BY <1>2 DEF Tells, agent
<1>6. \A s \in Nat : Open(s) => Open(s)'
  BY <1>2 DEF Open
<1> QED BY <1>1, <1>2, <1>3, <1>4, <1>5, <1>6, DoneFrame

\* _register_pending_ack, before the acknowledgement is posted.
LEMMA RegisterStep ==
    ASSUME IInv, Register
    PROVE  IInv'
<1> DEFINE q == at.msg.seq
<1>1. at.step = "accepted" /\ at.msg.type = "batch"
  BY DEF IInv, ShapeInv, WireInv, Register
<1>2. q \in 1 .. sequence /\ q \in Nat
  BY <1>1, AtHandMessage
<1>3. /\ at'.step = "registered" /\ at'.msg = at.msg /\ pending' = pending \cup {q}
      /\ UNCHANGED <<posted, expired, errors, stream, agent, wire>>
  BY DEF Register, IInv, ShapeInv, WireInv
<1>4. Rests
  BY <1>1, <1>3 DEF Register, Rests
<1>5. NumberInv'
  BY <1>2, <1>3, <1>4 DEF IInv, ShapeInv, NumberInv, Rests, agent
<1>6. HookInv' /\ WireInv'
  <2>1. at' \in [step: {"idle", "checked", "accepted", "registered"}, msg: Message \cup {<< >>}]
    BY DEF Register, IInv, ShapeInv, WireInv
  <2> QED BY <1>1, <1>3, <2>1 DEF IInv, ShapeInv, HookInv, WireInv, Inside, agent
<1>7. PlaceInv'
  <2> SUFFICES ASSUME NEW s \in Nat PROVE Place(s)'
    BY DEF PlaceInv
  <2>1. Place(s) /\ expected' = expected
    BY DEF IInv, PlaceInv, Register
  <2>2. /\ OnPost(s)' = OnPost(s) /\ OnHook(s)' = OnHook(s) /\ OnWire(s)' = OnWire(s)
        /\ ~AtEnd(s) /\ ~AtEnd(s)' /\ AtHand(s)' = AtHand(s) /\ (Open(s) => Open(s)')
    BY <1>1, <1>3, <1>4, RestFrame DEF OnPost, AtEnd, AtHand, Open
  <2>3. AtHand(s) => Open(s)'
    BY <1>3 DEF AtHand, Open
  <2> QED BY <2>1, <2>2, <2>3 DEF Place, UnderWay
<1>8. OnceInv'
  BY <1>3, <1>4, RestFrame DEF IInv, OnceInv
<1>9. LateInv'
  BY <1>3 DEF IInv, LateInv, Refused, Late
<1>10. Tells
  BY <1>1, <1>3 DEF Tells, agent, InFlight
<1> QED BY <1>4, <1>5, <1>6, <1>7, <1>8, <1>9, <1>10, RestFrame, TellFrame DEF IInv, ShapeInv

\* script.post: the acknowledgement is under way, or given up.
LEMMA PostStep ==
    ASSUME IInv, Post
    PROVE  IInv'
<1> DEFINE q == at.msg.seq
<1>1. at.step = "registered" /\ at.msg.type = "batch"
  BY DEF IInv, ShapeInv, WireInv, Post
<1>2. q \in 1 .. sequence /\ q \in Nat
  BY <1>1, AtHandMessage
<1>3. AtHand(q)
  BY <1>1 DEF AtHand
<1>4. ~UnderWay(q) /\ q < expected /\ Open(q)
  BY <1>1, <1>2, <1>3 DEF IInv, PlaceInv, Place
<1>5. Rests /\ at' = Idle /\ UNCHANGED <<agent, wire, stream, expired>>
  BY DEF Post, Rests
<1>6. errors \subseteq errors' /\ errors' \subseteq errors \cup {<<"post", q>>}
  BY DEF Post
<1>7. \/ posted' = Append(posted, q) /\ alive /\ pending' = pending
      \/ posted' = posted /\ pending \ {q} \subseteq pending' /\ pending' \subseteq pending
  BY DEF Post
<1> HIDE DEF q
<1>8. posted \in Seq(1 .. sequence) /\ q \notin ToSet(posted)
  BY <1>4 DEF IInv, ShapeInv, WireInv, UnderWay, OnPost
<1>9. /\ posted' \in Seq(1 .. sequence) /\ Once(posted')
      /\ ToSet(posted') \subseteq ToSet(posted) \cup {q}
  <2>1. Once(posted)
    BY DEF IInv, OnceInv
  <2>2. CASE posted' = Append(posted, q)
    <3> DEFINE S == 1 .. sequence
    <3>1. posted \in Seq(S) /\ q \in S
      BY <1>2, <1>8
    <3> HIDE DEF S
    <3>2. Append(posted, q) \in Seq(S) /\ ToSet(Append(posted, q)) = ToSet(posted) \cup {q}
      BY <3>1, AppendSet
    <3>3. Once(Append(posted, q))
      BY <1>8, <2>1, <3>1, AppendOnce
    <3> QED BY <2>2, <3>2, <3>3 DEF S
  <2>3. CASE posted' = posted
    BY <1>8, <2>1, <2>3
  <2> QED BY <1>7, <2>2, <2>3
<1>10. NumberInv'
  <2>1. pending' \subseteq pending
    BY <1>7
  <2> QED BY <1>5, <2>1 DEF IInv, ShapeInv, NumberInv, Rests, agent
<1>11. HookInv'
  BY <1>5, <1>7 DEF IInv, ShapeInv, HookInv, Inside, agent
<1>12. WireInv'
  <2>1. at'.step = "idle" /\ at' \in [step: {"idle", "checked", "accepted", "registered"},
                                     msg: Message \cup {<< >>}]
    BY <1>5 DEF Idle
  <2>2. UNCHANGED <<wire, stream, sequence>>
    BY <1>5 DEF agent
  <2> QED BY <1>9, <2>1, <2>2 DEF IInv, ShapeInv, WireInv
<1>13. PlaceInv'
  <2> SUFFICES ASSUME NEW s \in Nat PROVE Place(s)'
    BY DEF PlaceInv
  <2>1. /\ Place(s) /\ expected' = expected /\ ~AtHand(s)' /\ ~AtEnd(s)'
        /\ OnHook(s)' = OnHook(s) /\ OnWire(s)' = OnWire(s)
    BY <1>5, RestFrame DEF IInv, PlaceInv, Rests, AtHand, AtEnd, Idle
  <2>2. CASE s = q
    <3>1. ~OnHook(s)' /\ ~OnWire(s)'
      BY <1>4, <2>1, <2>2 DEF UnderWay
    <3>2. OnPost(s)' => Open(s)'
      <4>1. CASE pending' = pending
        BY <1>4, <1>5, <1>6, <2>2, <4>1 DEF Open
      <4>2. CASE posted' = posted
        BY <1>8, <2>2, <4>2 DEF OnPost
      <4> QED BY <1>7, <4>1, <4>2
    <3> QED BY <1>4, <2>1, <2>2, <3>1, <3>2 DEF Place, UnderWay
  <2>3. CASE s # q
    <3>1. (OnPost(s)' => OnPost(s))
      BY <1>9, <2>3 DEF OnPost
    <3>2. Open(s) => Open(s)'
      BY <1>5, <1>6, <1>7, <2>3 DEF Open
    <3>3. Stays(s)
      BY <2>1, <3>1, <3>2 DEF Stays
    <3> QED BY <2>1, <3>3, PlaceFrame
  <2> QED BY <2>2, <2>3
<1>14. OnceInv'
  BY <1>5, <1>9, RestFrame DEF IInv, OnceInv
<1>15. LateInv'
  <2> SUFFICES ASSUME NEW s \in Nat, Refused(s)' PROVE Late(s)'
    BY DEF LateInv
  <2>1. Refused(s)
    BY <1>6 DEF Refused
  <2> QED BY <1>5, <1>6, <2>1 DEF IInv, LateInv, Late
<1>16. Tells
  <2>1. \A m \in InFlight : m.type = "error" => m \in InFlight'
    BY <1>1, <1>5 DEF InFlight, Idle
  <2> QED BY <1>5, <1>6, <2>1 DEF Tells, agent
<1> QED BY <1>5, <1>10, <1>11, <1>12, <1>13, <1>14, <1>15, <1>16, RestFrame, TellFrame
        DEF IInv, ShapeInv

\* A batch is accepted in sequence, or refused.
LEMMA HandleBatchStep ==
    ASSUME IInv, HandleBatch
    PROVE  IInv'
<1> DEFINE q == at.msg.seq
<1>1. at.step = "checked" /\ at.msg.type = "batch"
  BY DEF HandleBatch, Dispatching
<1>2. q \in 1 .. sequence /\ q \in Nat
  BY <1>1, AtHandMessage
<1>3. UNCHANGED <<agent, wire, posted, stream, pending, expired, queued, passed>>
  BY DEF HandleBatch
<1>4. CASE stream = "on" /\ InSequence(at.msg)
  <2>1. /\ delivered' = delivered \o at.msg.records /\ expected' = expected + 1 /\ errors' = errors
        /\ at' = Idle \/ (at'.step = "accepted" /\ at'.msg = at.msg)
        /\ q = expected
    BY <1>4 DEF HandleBatch, InSequence, IInv, ShapeInv, WireInv
  <2>2. at' \in [step: {"idle", "checked", "accepted", "registered"}, msg: Message \cup {<< >>}]
    BY <1>4, SMTT(30) DEF HandleBatch, IInv, ShapeInv, WireInv, Idle
  <2>3. Accepts
    BY <1>1, <1>3, <1>4, <2>1 DEF Accepts, agent, Idle, Dispatching
  <2>4. /\ CutInv' /\ expected \in 1 .. sequence
        /\ delivered' \in Seq(Nat) /\ ToSet(delivered) \subseteq ToSet(delivered')
    BY <2>3, CutAccepts DEF IInv, ShapeInv
  <2>5. NumberInv'
    <3>1. expected' \in 1 .. sequence' + 1
      <4>1. sequence' = sequence /\ sequence \in Nat
        BY <1>3 DEF IInv, ShapeInv, NumberInv, agent
      <4> QED BY <2>1, <2>4, <4>1
    <3> QED BY <1>3, <2>4, <3>1 DEF IInv, ShapeInv, NumberInv, agent
  <2>6. HookInv'
    BY <1>3 DEF IInv, ShapeInv, HookInv, Inside, agent
  <2>7. WireInv'
    <3>1. at'.step = "idle" \/ (at'.step = "accepted" /\ at'.msg = at.msg)
      BY <2>1 DEF Idle
    <3>2. UNCHANGED <<wire, posted, stream, sequence>>
      BY <1>3 DEF agent
    <3> QED BY <1>1, <2>2, <3>1, <3>2 DEF IInv, ShapeInv, WireInv
  <2>8. PlaceInv'
    <3> SUFFICES ASSUME NEW s \in Nat PROVE Place(s)'
      BY DEF PlaceInv
    <3>1. /\ Place(s) /\ OnHook(s)' = OnHook(s) /\ OnWire(s)' = OnWire(s)
          /\ OnPost(s)' = OnPost(s) /\ Open(s)' = Open(s)
      BY <1>3, <2>1 DEF IInv, PlaceInv, OnHook, OnWire, OnPost, Open, agent
    <3>2. ~AtEnd(s)' /\ (AtHand(s)' => s = q /\ at'.step = "accepted")
      BY <2>1 DEF AtEnd, AtHand, Idle
    <3>3. s < expected => s < expected'
      BY <1>2, <2>1
    <3>4. CASE s = q
      <4>1. s < expected' /\ ~(s < expected)
        BY <1>2, <2>1, <3>4
      <4>2. ~UnderWay(s)'
        BY <3>1, <3>2, <4>1 DEF Place, UnderWay
      <4> QED BY <3>2, <4>1, <4>2 DEF Place, UnderWay
    <3>5. CASE s # q
      <4>1. Stays(s)
        BY <3>1, <3>2, <3>3, <3>5 DEF Stays
      <4> QED BY <3>1, <4>1, PlaceFrame
    <3> QED BY <3>4, <3>5
  <2>9. OnceInv' /\ LateInv'
    BY <1>3, <2>1 DEF IInv, OnceInv, DistinctHooks, Inside, LateInv, Refused, Late, agent
  <2>10. PassedInv'
    BY <1>3, <2>4 DEF IInv, PassedInv, agent
  <2>11. TellInv'
    <3>1. \A m \in InFlight : m.type = "error" => m \in InFlight'
      BY <1>1, <1>3, <2>1 DEF InFlight, Idle
    <3>2. Tells
      BY <1>3, <2>1, <3>1 DEF Tells, agent
    <3> QED BY <3>2, TellFrame DEF IInv
  <2> QED BY <2>4, <2>5, <2>6, <2>7, <2>8, <2>9, <2>10, <2>11 DEF IInv, ShapeInv
<1>5. CASE ~(stream = "on" /\ InSequence(at.msg))
  <2>1. /\ UNCHANGED <<expected, delivered>> /\ at' = Idle
        /\ errors \subseteq errors' /\ errors' \subseteq errors \cup {<<"protocol", q>>}
    BY <1>5 DEF HandleBatch
  <2> HIDE DEF q
  <2>2. Rests
    BY <1>3, <2>1 DEF Rests
  <2>3. NumberInv'
    BY <1>3, <2>1 DEF IInv, ShapeInv, NumberInv, agent
  <2>4. LateInv'
    <3> SUFFICES ASSUME NEW s \in Nat, Refused(s)' PROVE Late(s)'
      BY DEF LateInv
    <3>1. Refused(s)
      BY <2>1 DEF Refused
    <3> QED BY <1>3, <2>1, <3>1 DEF IInv, LateInv, Late
  <2>5. Tells
    <3>1. \A m \in InFlight : m.type = "error" => m \in InFlight'
      BY <1>1, <1>3, <2>1 DEF InFlight, Idle
    <3> QED BY <1>3, <2>1, <3>1 DEF Tells, agent
  <2>6. \A s \in Nat : Open(s) => Open(s)'
    BY <1>3, <2>1 DEF Open
  <2> QED BY <1>3, <2>1, <2>2, <2>3, <2>4, <2>5, <2>6, DoneFrame
<1> QED BY <1>4, <1>5

\* A message is taken, and counts as long as the stream is on.
LEMMA TakeStep ==
    ASSUME IInv, Take
    PROVE  IInv'
<1> DEFINE m == Head(wire)
<1>1. /\ at.step = "idle" /\ wire # << >> /\ wire' = Tail(wire)
      /\ at' = IF stream = "on" THEN [step |-> "checked", msg |-> m] ELSE Idle
      /\ UNCHANGED <<agent, posted, stream, expected, pending, expired, errors, delivered,
                     queued, passed>>
  BY DEF Take
<1>2. wire \in Seq(Message) /\ OnceAck(wire)
  BY DEF IInv, ShapeInv, WireInv, OnceInv
<1>3. /\ m \in Message /\ wire' \in Seq(Message) /\ ToSet(wire) = ToSet(wire') \cup {m}
      /\ OnceAck(wire')
      /\ m.type = "acknowledged" =>
             \A n \in ToSet(wire') : n.type = "acknowledged" => n.seq # m.seq
  BY <1>1, <1>2, TailSet, TailOnceAck
<1> HIDE DEF m
<1>4. \/ at'.step = "checked" /\ at'.msg = m /\ stream = "on"
      \/ at'.step = "idle" /\ stream # "on"
  BY <1>1 DEF Idle
<1>5. InFlight' \subseteq InFlight
  BY <1>1, <1>3, <1>4 DEF InFlight
<1>6. NumberInv' /\ HookInv'
  BY <1>1 DEF IInv, ShapeInv, NumberInv, HookInv, Inside, agent
<1>7. WireInv'
  <2>1. at' \in [step: {"idle", "checked", "accepted", "registered"}, msg: Message \cup {<< >>}]
    BY <1>1, <1>3 DEF Idle
  <2>2. UNCHANGED <<posted, stream, sequence>>
    BY <1>1 DEF agent
  <2> QED BY <1>3, <1>4, <2>1, <2>2 DEF IInv, ShapeInv, WireInv
<1>8. CutInv'
  <2>1. NoNewBatch /\ NoNewHook
    BY <1>1, <1>5 DEF NoNewBatch, NoNewHook, Inside, agent
  <2>2. LessQueue
    <3>1. queued \in Nat /\ queued' = queued /\ queue' = queue /\ (Keeps' => Keeps)
      BY <1>1 DEF IInv, ShapeInv, NumberInv, agent, Keeps
    <3> QED BY <3>1 DEF LessQueue
  <2>3. UNCHANGED <<sequence, expected, delivered>>
    BY <1>1 DEF agent
  <2> QED BY <2>1, <2>2, <2>3, CutFrame DEF IInv, ShapeInv
<1>9. PlaceInv'
  <2> SUFFICES ASSUME NEW s \in Nat PROVE Place(s)'
    BY DEF PlaceInv
  <2>1. /\ Place(s) /\ expected' = expected /\ OnHook(s)' = OnHook(s) /\ OnPost(s)' = OnPost(s)
        /\ Open(s)' = Open(s) /\ ~AtHand(s) /\ ~AtHand(s)' /\ ~AtEnd(s)
    BY <1>1, <1>4 DEF IInv, PlaceInv, OnHook, OnPost, Open, AtHand, AtEnd, agent
  <2>2. OnWire(s)' => OnWire(s)
    BY <1>3 DEF OnWire
  <2>3. CASE AtEnd(s)'
    <3>1. m.type = "acknowledged" /\ m.seq = s
      BY <1>4, <2>3 DEF AtEnd
    <3>2. OnWire(s) /\ ~OnWire(s)'
      BY <1>3, <3>1 DEF OnWire
    <3> QED BY <2>1, <3>2 DEF Place, UnderWay
  <2>4. CASE ~AtEnd(s)'
    <3>1. Stays(s)
      BY <2>1, <2>2, <2>4 DEF Stays
    <3> QED BY <2>1, <3>1, PlaceFrame
  <2> QED BY <2>3, <2>4
<1>10. OnceInv' /\ LateInv' /\ PassedInv'
  BY <1>1, <1>3 DEF IInv, OnceInv, DistinctHooks, Inside, LateInv, Refused, Late, PassedInv, agent
<1>11. TellInv'
  <2>1. \A n \in InFlight : n.type = "error" => n \in InFlight' \/ stream' # "on"
    BY <1>1, <1>3, <1>4 DEF InFlight
  <2>2. Tells
    BY <1>1, <2>1 DEF Tells, agent
  <2> QED BY <2>2, TellFrame DEF IInv
<1> QED BY <1>6, <1>7, <1>8, <1>9, <1>10, <1>11 DEF IInv, ShapeInv
-----------------------------------------------------------------------------
(* The agent sends.                                                         *)

\* A sequence over a set is one over a larger set.
LEMMA SeqWider ==
    ASSUME NEW S, NEW T, S \subseteq T, NEW q \in Seq(S)
    PROVE  q \in Seq(T)
OBVIOUS

\* Only thread u may go inside, to wait for the batch that the step sends.
Enters(u) ==
    /\ \A t \in Threads \ {u} : hooks'[t] = hooks[t]
    /\ \/ hooks'[u] = hooks[u]
       \/ hooks'[u] = [state |-> "waiting", seq |-> sequence + 1, record |-> queued']
SendsOnly(records, ack) ==
    /\ Sends(records) /\ Send(records, ack)
    /\ UNCHANGED <<alive, broken, posted, backend, passed>>

\* A step of the agent that sends a batch keeps the invariant.
LEMMA SendFrame ==
    ASSUME IInv, Keeps, NEW records \in Seq(Nat), NEW ack \in BOOLEAN, SendsOnly(records, ack),
           NEW u, Enters(u), HookInv'
    PROVE  IInv'
<1> DEFINE b == Batch(sequence + 1, ack, records)
<1>1. /\ sequence \in Nat /\ queued \in Nat /\ sequence' = sequence + 1
      /\ wire' = Append(wire, b) /\ queue' = << >>
  BY DEF IInv, ShapeInv, NumberInv, SendsOnly, Send
<1>2. UNCHANGED <<alive, broken, posted, stream, expected, at, pending, expired, errors, delivered,
                  passed>>
  BY DEF SendsOnly, backend
<1>3. b \in Message /\ b.type = "batch"
  BY <1>1, Messages
<1> HIDE DEF b
<1>4. wire \in Seq(Message) /\ OnceAck(wire)
  BY DEF IInv, ShapeInv, WireInv, OnceInv
<1>5. wire' \in Seq(Message) /\ ToSet(wire') = ToSet(wire) \cup {b}
  BY <1>1, <1>3, <1>4, AppendSet
<1>6. OnceAck(wire')
  BY <1>1, <1>3, <1>4, AppendOnceAck
<1>7. \A t \in Threads : Inside(t)' =>
         \/ hooks'[t] = hooks[t]
         \/ t = u /\ hooks'[t].state = "waiting" /\ hooks'[t].seq = sequence + 1
            /\ hooks'[t].record = queued'
  BY DEF Enters
<1>8. NumberInv'
  <2>1. queued' \in Nat /\ queued' >= queued
    <3>1. queued' = queued \/ queued' = queued + 1
      BY DEF SendsOnly, Sends
    <3> QED BY <1>1, <3>1
  <2>2. \A n \in Nat : n <= queued => n <= queued'
    BY <1>1, <2>1
  <2>3. /\ expected \in 1 .. sequence + 1 /\ passed \subseteq 1 .. queued
        /\ pending \subseteq 1 .. sequence /\ expired \subseteq 1 .. sequence
    BY DEF IInv, ShapeInv, NumberInv
  <2>4. /\ expected \in 1 .. sequence' + 1 /\ passed \subseteq 1 .. queued'
        /\ pending \subseteq 1 .. sequence' /\ expired \subseteq 1 .. sequence'
    BY <1>1, <2>1, <2>3
  <2>5. queue' \in Seq(Nat) /\ Len(queue') < FlushAt
    BY <1>1, QueueAssumption
  <2> QED BY <1>1, <1>2, <2>1, <2>4, <2>5 DEF IInv, ShapeInv, NumberInv
<1>9. WireInv'
  <2>1. posted \in Seq(1 .. sequence) /\ 1 .. sequence \subseteq 1 .. sequence'
    BY <1>1 DEF IInv, ShapeInv, WireInv
  <2>2. posted \in Seq(1 .. sequence')
    BY <2>1, SeqWider
  <2> QED BY <1>2, <1>5, <2>2 DEF IInv, ShapeInv, WireInv
<1>10. CutInv'
  <2>1. NewHook
    BY <1>7 DEF NewHook, Inside
  <2>2. Sends(records) /\ Send(records, ack)
    BY DEF SendsOnly
  <2> QED BY <2>1, <2>2, CutSends DEF IInv, ShapeInv
<1>11. PlaceInv'
  <2> SUFFICES ASSUME NEW s \in Nat PROVE Place(s)'
    BY DEF PlaceInv
  <2>1. OnHook(s)' => OnHook(s)
    BY <1>7 DEF OnHook, Inside
  <2>2. OnWire(s)' => OnWire(s)
    BY <1>3, <1>5 DEF OnWire
  <2>3. Stays(s)
    BY <1>2, <2>1, <2>2 DEF Stays, OnPost, AtEnd, AtHand, Open
  <2> QED BY <2>3, PlaceFrame DEF IInv, PlaceInv
<1>12. DistinctHooks'
  <2> SUFFICES ASSUME NEW t \in Threads, NEW v \in Threads, Inside(t)', Inside(v)',
                      hooks'[t].seq = hooks'[v].seq
               PROVE  t = v
    BY DEF DistinctHooks
  <2>1. ASSUME NEW x \in Threads, hooks'[x] = hooks[x], Inside(x)'
        PROVE  Inside(x) /\ hooks'[x].seq # sequence + 1
    <3>1. Inside(x)
      BY <2>1 DEF Inside
    <3>2. hooks[x].seq \in 1 .. sequence
      BY <3>1, HookSeq DEF IInv
    <3> QED BY <1>1, <2>1, <3>1, <3>2
  <2>2. CASE hooks'[t] = hooks[t] /\ hooks'[v] = hooks[v]
    BY <2>1, <2>2 DEF IInv, OnceInv, DistinctHooks
  <2>3. CASE hooks'[t] # hooks[t] \/ hooks'[v] # hooks[v]
    BY <1>7, <2>1, <2>3
  <2> QED BY <2>2, <2>3
<1>13. OnceInv' /\ LateInv' /\ PassedInv'
  BY <1>2, <1>6, <1>12 DEF IInv, OnceInv, LateInv, Refused, Late, PassedInv
<1>14. TellInv'
  <2>1. \A m \in InFlight : m \in InFlight'
    BY <1>2, <1>5 DEF InFlight
  <2>2. Tells
    BY <1>2, <2>1 DEF Tells
  <2> QED BY <2>2, TellFrame DEF IInv
<1> QED BY <1>8, <1>9, <1>10, <1>11, <1>13, <1>14 DEF IInv, ShapeInv

\* The queue has room when a hook begins.
LEMMA QueueNotFull ==
    ASSUME NumberInv
    PROVE  ~Full
<1>1. Len(queue) \in Nat /\ Len(queue) < FlushAt /\ FlushAt \in Nat /\ MaxQueue \in Nat
  BY QueueAssumption DEF NumberInv
<1> QED BY <1>1, QueueAssumption DEF Full

\* A record is dropped by a transport that has broken before.
Drops ==
    /\ broken /\ queued' = Record
    /\ UNCHANGED <<alive, broken, queue, sequence, hooks, slot, wire, posted, backend>>
    /\ passed' = passed \/ passed' = passed \cup {Record}

\* What is dropped then changes nothing.
LEMMA DropFrame ==
    ASSUME IInv, Drops
    PROVE  IInv'
<1>1. queued \in Nat /\ queued' = queued + 1
  BY DEF IInv, ShapeInv, NumberInv, Drops, Record
<1>2. UNCHANGED <<alive, broken, queue, sequence, hooks, slot, wire, posted, stream, expected, at,
                  pending, expired, errors, delivered>>
  BY DEF Drops, backend
<1>3. NumberInv'
  <2>1. passed' \subseteq 1 .. queued'
    <3>1. passed \subseteq 1 .. queued /\ passed' \subseteq passed \cup {queued + 1}
      BY DEF IInv, ShapeInv, NumberInv, Drops, Record
    <3> QED BY <1>1, <3>1
  <2> QED BY <1>1, <1>2, <2>1 DEF IInv, ShapeInv, NumberInv
<1>4. HookInv' /\ WireInv'
  BY <1>2 DEF IInv, ShapeInv, HookInv, WireInv, Inside
<1>5. InFlight' = InFlight
  BY <1>2 DEF InFlight
<1>6. CutInv'
  <2>1. NoNewBatch /\ NoNewHook
    BY <1>2, <1>5 DEF NoNewBatch, NoNewHook, Inside
  <2>2. LessQueue
    <3>1. queue' = queue /\ ~Keeps'
      BY <1>2 DEF Keeps, Drops
    <3>2. queued' \in Nat /\ queued' >= queued
      BY <1>1
    <3> QED BY <3>1, <3>2 DEF LessQueue
  <2> QED BY <1>2, <2>1, <2>2, CutFrame DEF IInv, ShapeInv
<1>7. PlaceInv'
  <2> SUFFICES ASSUME NEW s \in Nat PROVE Place(s)'
    BY DEF PlaceInv
  <2>1. Stays(s)
    BY <1>2 DEF Stays, OnPost, OnHook, OnWire, AtEnd, AtHand, Open
  <2> QED BY <2>1, PlaceFrame DEF IInv, PlaceInv
<1>8. OnceInv' /\ LateInv'
  BY <1>2 DEF IInv, OnceInv, DistinctHooks, Inside, LateInv, Refused, Late
<1>9. PassedInv'
  <2>1. broken'
    BY <1>2 DEF Drops
  <2> QED BY <2>1 DEF PassedInv
<1>10. TellInv'
  BY <1>2, <1>5 DEF IInv, TellInv, Told
<1> QED BY <1>3, <1>4, <1>6, <1>7, <1>8, <1>9, <1>10 DEF IInv, ShapeInv

\* The timer's flush.
LEMMA FlushStep ==
    ASSUME IInv, Flush
    PROVE  IInv'
<1>1. Keeps /\ queue \in Seq(Nat) /\ queue # << >>
  BY DEF Flush, Keeps, IInv, ShapeInv, NumberInv
<1>2. SendsOnly(queue, FALSE)
  BY DEF Flush, SendsOnly, Sends, backend
<1>3. Enters(NoThread)
  BY DEF Flush, Enters
<1>4. HookInv'
  BY DEF Flush, IInv, ShapeInv, HookInv, Inside
<1>5. FALSE \in BOOLEAN
  OBVIOUS
<1> QED BY <1>1, <1>2, <1>3, <1>4, <1>5, SendFrame

\* What Append gives, without its definition.
LEMMA NewRecords ==
    ASSUME NumberInv
    PROVE  /\ Append(queue, Record) \in Seq(Nat) /\ Append(queue, Record) # << >>
           /\ Append(queue, Record) = Append(queue, queued + 1)
<1>1. queue \in Seq(Nat) /\ Record \in Nat
  BY DEF NumberInv, Record
<1> DEFINE r == Append(queue, Record)
<1>2. r \in Seq(Nat) /\ Len(r) = Len(queue) + 1 /\ Len(queue) \in Nat
  BY <1>1, AppendSet
<1> HIDE DEF r
<1>3. r # << >>
  BY <1>2
<1> QED BY <1>2, <1>3 DEF r, Record

\* queueLifecycle: the record is queued, sent at once, or dropped.
LEMMA QueueRecordStep ==
    ASSUME IInv, QueueRecord
    PROVE  IInv'
<1> DEFINE records == Append(queue, Record)
<1>1. /\ alive /\ queued' = Record /\ UNCHANGED <<alive, hooks, slot, posted, backend, passed>>
  BY DEF QueueRecord, NewRecord
<1>2. records \in Seq(Nat) /\ records # << >> /\ records = Append(queue, queued + 1)
  BY NewRecords DEF IInv, ShapeInv
<1>3. HookInv'
  BY <1>1 DEF IInv, ShapeInv, HookInv, Inside
<1>4. CASE Taken /\ Due(records)
  <2>1. Keeps /\ broken' = broken /\ Send(records, FALSE)
    BY <1>1, <1>4 DEF QueueRecord, Taken, Keeps
  <2> HIDE DEF records
  <2>2. SendsOnly(records, FALSE)
    BY <1>1, <1>2, <2>1 DEF SendsOnly, Sends, Record, backend
  <2>3. Enters(NoThread)
    BY <1>1 DEF Enters
  <2>4. FALSE \in BOOLEAN
    OBVIOUS
  <2> QED BY <1>2, <1>3, <2>1, <2>2, <2>3, <2>4, SendFrame
<1>5. CASE Taken /\ ~Due(records)
  <2>1. Keeps /\ broken' = broken /\ queue' = records /\ UNCHANGED <<wire, sequence>>
    BY <1>1, <1>5 DEF QueueRecord, Taken, Keeps
  <2>2. Len(records) < FlushAt
    <3>1. Len(records) \in Nat /\ FlushAt \in Nat /\ ~(Len(records) >= FlushAt)
      BY <1>2, <1>5, QueueAssumption DEF Due
    <3> HIDE DEF records
    <3> QED BY <3>1
  <2> HIDE DEF records
  <2>3. UNCHANGED <<stream, expected, at, pending, expired, errors, delivered>>
    BY <1>1 DEF backend
  <2>4. NumberInv'
    <3>1. queued' \in Nat /\ passed' \subseteq 1 .. queued'
      <4>1. /\ queued \in Nat /\ passed \subseteq 1 .. queued
            /\ passed' = passed /\ queued' = queued + 1
        BY <1>1 DEF IInv, ShapeInv, NumberInv, Record
      <4> QED BY <4>1
    <3>2. queue' \in Seq(Nat) /\ Len(queue') < FlushAt
      BY <1>2, <2>1, <2>2
    <3> QED BY <1>1, <2>1, <2>3, <3>1, <3>2 DEF IInv, ShapeInv, NumberInv
  <2>5. WireInv'
    BY <1>1, <2>1, <2>3 DEF IInv, ShapeInv, WireInv
  <2>6. CutInv'
    <3>1. Grows
      BY <1>1, <1>2, <2>1, <2>3 DEF Grows, Record
    <3> QED BY <2>1, <3>1, CutGrows DEF IInv, ShapeInv
  <2>7. PlaceInv'
    <3> SUFFICES ASSUME NEW s \in Nat PROVE Place(s)'
      BY DEF PlaceInv
    <3>1. Stays(s)
      BY <1>1, <2>1, <2>3 DEF Stays, OnPost, OnHook, OnWire, AtEnd, AtHand, Open
    <3> QED BY <3>1, PlaceFrame DEF IInv, PlaceInv
  <2>8. OnceInv' /\ LateInv' /\ PassedInv'
    BY <1>1, <2>1, <2>3
       DEF IInv, OnceInv, DistinctHooks, Inside, LateInv, Refused, Late, PassedInv
  <2>9. TellInv'
    BY <1>1, <2>1, <2>3 DEF IInv, TellInv, Told, InFlight
  <2> QED BY <1>3, <2>4, <2>5, <2>6, <2>7, <2>8, <2>9 DEF IInv, ShapeInv
<1>6. CASE ~Taken
  <2>1. broken /\ ~Overflowed
    BY <1>6, QueueNotFull DEF IInv, ShapeInv, Taken, Overflowed
  <2>2. Drops
    BY <1>1, <1>6, <2>1 DEF QueueRecord, Drop, Drops, IInv, ShapeInv, NumberInv
  <2> QED BY <2>2, DropFrame
<1> QED BY <1>4, <1>5, <1>6

\* flushLifecycle(true), up to the wait.
LEMMA BoundaryStep ==
    ASSUME IInv, NEW t \in Threads, Boundary(t)
    PROVE  IInv'
<1> DEFINE records == Append(queue, Record)
<1>1. hooks[t] = Outside /\ alive /\ queued' = Record /\ UNCHANGED <<alive, posted, backend>>
  BY DEF Boundary, NewRecord
<1>2. records \in Seq(Nat) /\ records # << >> /\ records = Append(queue, queued + 1)
  BY NewRecords DEF IInv, ShapeInv
<1>3. CASE Taken
  <2> DEFINE inside == [state |-> "waiting", seq |-> sequence + 1, record |-> Record]
  <2>1. /\ Keeps /\ Send(records, TRUE) /\ UNCHANGED <<broken, passed>> /\ slot' = t
        /\ hooks' = [hooks EXCEPT ![t] = inside]
    BY <1>1, <1>3 DEF Boundary, Taken, Keeps
  <2> HIDE DEF records
  <2>2. SendsOnly(records, TRUE)
    BY <1>1, <1>2, <2>1 DEF SendsOnly, Sends, Record, backend
  <2>3. /\ inside \in [state: {"outside", "waiting", "acknowledged", "refused"},
                       seq: Nat, record: Nat]
        /\ inside.state = "waiting"
    BY DEF IInv, ShapeInv, NumberInv, Record
  <2>4. hooks'[t] = inside /\ \A v \in Threads \ {t} : hooks'[v] = hooks[v]
    BY <2>1 DEF IInv, ShapeInv, HookInv
  <2>5. Enters(t)
    BY <1>1, <2>4 DEF Enters
  <2> HIDE DEF inside
  <2>6. HookInv'
    BY <1>1, <2>1, <2>3, <2>4 DEF IInv, ShapeInv, HookInv, Inside
  <2>7. TRUE \in BOOLEAN
    OBVIOUS
  <2> QED BY <1>2, <2>1, <2>2, <2>5, <2>6, <2>7, SendFrame
<1>4. CASE ~Taken
  <2>1. broken /\ ~Overflowed
    BY <1>4, QueueNotFull DEF IInv, ShapeInv, Taken, Overflowed
  <2>2. Drops
    BY <1>1, <1>4, <2>1 DEF Boundary, Drop, Drops, IInv, ShapeInv, NumberInv
  <2> QED BY <2>2, DropFrame
<1> QED BY <1>3, <1>4

-----------------------------------------------------------------------------
(* The agent receives an acknowledgement and goes on.                       *)

\* A step of the agent that queues nothing, sends no batch and lets nobody inside.
Goes ==
    /\ UNCHANGED <<sequence, queued, backend>>
    /\ queue' = queue \/ (queue' = << >> /\ ~alive')
    /\ alive' => alive
    /\ broken => broken'
    /\ NoNewHook
    /\ \A m \in ToSet(wire') : m \in ToSet(wire) \/ m = AgentError
                               \/ (m.type = "acknowledged" /\ m.seq \in 1 .. sequence)

\* Such a step keeps the cuts and the reports.
LEMMA GoesFrame ==
    ASSUME IInv, Goes
    PROVE  CutInv' /\ LateInv'
<1>1. NoNewBatch
  BY DEF NoNewBatch, InFlight, Goes, backend, AgentError
<1>2. LessQueue
  <2>1. queued \in Nat /\ queued' = queued
    BY DEF IInv, ShapeInv, NumberInv, Goes
  <2>2. Keeps' => Keeps /\ queue' = queue
    BY DEF Keeps, Goes
  <2>3. queue' = queue \/ queue' = << >>
    BY DEF Goes
  <2> QED BY <2>1, <2>2, <2>3 DEF LessQueue
<1>3. NoNewHook /\ UNCHANGED <<sequence, expected, delivered>>
  BY DEF Goes, backend
<1>4. CutInv'
  BY <1>1, <1>2, <1>3, CutFrame DEF IInv, ShapeInv
<1>5. LateInv'
  BY DEF IInv, LateInv, Refused, Late, Goes, backend
<1> QED BY <1>4, <1>5

\* The acknowledgement is of the batch the hook waits for, or refused.
LEMMA AckArrivesStep ==
    ASSUME IInv, AckArrives
    PROVE  IInv'
<1> DEFINE q == Head(posted)
           state == IF q = hooks[slot].seq THEN "acknowledged" ELSE "refused"
<1>1. /\ alive /\ slot # NoThread /\ posted # << >> /\ posted' = Tail(posted) /\ slot' = NoThread
      /\ UNCHANGED <<alive, queue, sequence, broken, wire, backend, queued, passed>>
      /\ hooks' = [hooks EXCEPT ![slot].state = state]
  BY DEF AckArrives
<1>2. posted \in Seq(1 .. sequence) /\ Once(posted)
  BY DEF IInv, ShapeInv, WireInv, OnceInv
<1>3. /\ q \in 1 .. sequence /\ posted' \in Seq(1 .. sequence)
      /\ ToSet(posted) = ToSet(posted') \cup {q} /\ Once(posted') /\ q \notin ToSet(posted')
  <2> DEFINE S == 1 .. sequence
  <2>1. posted \in Seq(S)
    BY <1>2
  <2> HIDE DEF S
  <2>2. /\ q \in S /\ Tail(posted) \in Seq(S) /\ ToSet(posted) = ToSet(Tail(posted)) \cup {q}
        /\ Once(Tail(posted)) /\ q \notin ToSet(Tail(posted))
    BY <1>1, <1>2, <2>1, TailSet, TailOnce
  <2> QED BY <1>1, <2>2 DEF S
<1>4. slot \in Threads /\ hooks[slot].state = "waiting"
  BY <1>1 DEF IInv, ShapeInv, HookInv
<1>5. /\ hooks'[slot].state = state /\ hooks'[slot].seq = hooks[slot].seq
      /\ hooks'[slot].record = hooks[slot].record
      /\ \A t \in Threads \ {slot} : hooks'[t] = hooks[t]
      /\ hooks' \in [Threads -> [state: {"outside", "waiting", "acknowledged", "refused"},
                                 seq: Nat, record: Nat]]
  BY <1>1, <1>4 DEF IInv, ShapeInv, HookInv
<1>6. state # "outside" /\ (state = "acknowledged" => q = hooks[slot].seq)
  OBVIOUS
<1> HIDE DEF q, state
<1>7. UNCHANGED <<stream, expected, at, pending, expired, errors, delivered>>
  BY <1>1 DEF backend
<1>8. NumberInv'
  BY <1>1, <1>7 DEF IInv, ShapeInv, NumberInv
<1>9. HookInv'
  BY <1>1, <1>5, ThreadsAssumption DEF IInv, ShapeInv, HookInv, Inside
<1>10. WireInv'
  BY <1>1, <1>3, <1>7 DEF IInv, ShapeInv, WireInv
<1>11. NoNewHook
  BY <1>4, <1>5 DEF NoNewHook, Inside
<1>12. CutInv' /\ LateInv'
  <2>1. Goes
    BY <1>1, <1>11 DEF Goes
  <2> QED BY <2>1, GoesFrame
<1>13. PlaceInv'
  <2> SUFFICES ASSUME NEW s \in Nat PROVE Place(s)'
    BY DEF PlaceInv
  <2>1. /\ Place(s) /\ OnWire(s)' = OnWire(s) /\ AtEnd(s)' = AtEnd(s) /\ AtHand(s)' = AtHand(s)
        /\ Open(s)' = Open(s) /\ at' = at /\ expected' = expected
    BY <1>1, <1>7 DEF IInv, PlaceInv, OnWire, AtEnd, AtHand, Open
  <2>2. OnPost(s)' => OnPost(s)
    BY <1>3 DEF OnPost
  <2>3. OnHook(s)' => OnHook(s) \/ s = q
    BY <1>5, <1>6 DEF OnHook
  <2>4. CASE s = q
    <3>1. OnPost(s) /\ ~OnPost(s)'
      BY <1>3, <2>4 DEF OnPost
    <3> QED BY <2>1, <3>1 DEF Place, UnderWay
  <2>5. CASE s # q
    <3>1. Stays(s)
      BY <2>1, <2>2, <2>3, <2>5 DEF Stays
    <3> QED BY <2>1, <3>1, PlaceFrame
  <2> QED BY <2>4, <2>5
<1>14. OnceInv'
  <2>1. DistinctHooks'
    BY <1>11 DEF IInv, OnceInv, DistinctHooks, NoNewHook
  <2> QED BY <1>1, <1>3, <2>1 DEF IInv, OnceInv
<1>15. PassedInv' /\ TellInv'
  BY <1>1, <1>7 DEF IInv, PassedInv, TellInv, Told, InFlight
<1> QED BY <1>8, <1>9, <1>10, <1>12, <1>13, <1>14, <1>15 DEF IInv, ShapeInv

\* The record of a boundary is the last of its batch, so that it is delivered
\* when the batch is accepted.
LEMMA HookRecord ==
    ASSUME NumberInv, CutInv, NEW t \in Threads, Inside(t)
    PROVE  /\ hooks[t].record \in 1 .. queued
           /\ hooks[t].seq < expected => hooks[t].record \in ToSet(delivered)
<1>1. PICK cut : Cuts(cut)
  BY DEF CutInv
<1> DEFINE s == hooks[t].seq
<1>2. s \in 1 .. sequence /\ hooks[t].record = cut[s + 1]
  BY <1>1 DEF Cuts, HookCut
<1> HIDE DEF s
<1>3. sequence \in Nat /\ queued \in Nat /\ expected \in 1 .. sequence + 1
  BY DEF NumberInv
<1>4. /\ cut[1] = 0 /\ \A a \in 1 .. sequence + 1 : cut[a] \in Nat
      /\ \A a, b \in 1 .. sequence + 1 : a < b => cut[a] < cut[b]
  BY <1>1 DEF Cuts, CutOrder
<1>5. cut[s + 1] \in Nat /\ 0 < cut[s + 1]
  BY <1>2, <1>3, <1>4
<1>6. cut[s + 1] <= queued
  <2>1. cut[sequence + 1] <= queued
    <3> DEFINE n == Len(queue)
    <3>1. n \in Nat /\ cut[sequence + 1] + n <= queued
      BY <1>1 DEF NumberInv, Cuts, CutQueue
    <3>2. cut[sequence + 1] \in Nat
      BY <1>3, <1>4
    <3> HIDE DEF n
    <3> QED BY <1>3, <3>1, <3>2
  <2>2. s + 1 = sequence + 1 \/ cut[s + 1] < cut[sequence + 1]
    BY <1>2, <1>3, <1>4
  <2>3. cut[sequence + 1] \in Nat
    BY <1>3, <1>4
  <2> QED BY <1>3, <1>5, <2>1, <2>2, <2>3
<1>7. ASSUME s < expected PROVE cut[s + 1] \in ToSet(delivered)
  <2>1. s + 1 = expected \/ cut[s + 1] < cut[expected]
    BY <1>2, <1>3, <1>4, <1>7
  <2>2. cut[expected] \in Nat
    BY <1>3, <1>4
  <2>3. cut[s + 1] \in 1 .. cut[expected]
    BY <1>5, <2>1, <2>2
  <2>4. delivered \in Seq(Nat) /\ Len(delivered) = cut[expected] /\ Run(delivered, 0)
    BY <1>1 DEF NumberInv, Cuts, CutDelivered
  <2> DEFINE r == cut[s + 1]
  <2>5. r \in 1 .. Len(delivered) /\ r \in Nat
    BY <1>5, <2>3, <2>4
  <2> HIDE DEF r
  <2>6. delivered[r] = 0 + r
    BY <2>4, <2>5 DEF Run
  <2>7. delivered[r] = r /\ r \in DOMAIN delivered
    BY <2>4, <2>5, <2>6
  <2>8. r \in ToSet(delivered)
    BY <2>7 DEF ToSet
  <2> QED BY <2>8 DEF r
<1> QED BY <1>2, <1>3, <1>5, <1>6, <1>7 DEF s

\* The hook confirms and returns, or gives the transport up.
LEMMA HookReturnsStep ==
    ASSUME IInv, NEW t \in Threads, HookReturns(t)
    PROVE  IInv'
<1> DEFINE q == hooks[t].seq
           record == hooks[t].record
<1>1. /\ alive /\ hooks[t].state \in {"acknowledged", "refused"}
      /\ hooks' = [hooks EXCEPT ![t] = Outside] /\ passed' = passed \cup {record}
      /\ UNCHANGED <<alive, queue, sequence, slot, posted, backend, queued>>
  BY DEF HookReturns
<1>2. Inside(t)
  BY <1>1 DEF Inside
<1>3. q \in 1 .. sequence /\ q \in Nat /\ record \in 1 .. queued
  BY <1>2, HookSeq, HookRecord DEF IInv, ShapeInv
<1>4. \/ /\ hooks[t].state = "acknowledged"
         /\ wire' = Append(wire, Acknowledged(q)) /\ broken' = broken
      \/ wire' = Append(wire, AgentError) /\ broken' = TRUE
  BY DEF HookReturns
<1>5. /\ hooks'[t] = Outside /\ \A u \in Threads \ {t} : hooks'[u] = hooks[u]
      /\ hooks' \in [Threads -> [state: {"outside", "waiting", "acknowledged", "refused"},
                                 seq: Nat, record: Nat]]
  BY <1>1 DEF IInv, ShapeInv, HookInv, Outside
<1>6. hooks[t].state = "acknowledged" => OnHook(q)
  BY DEF OnHook
<1>7. hooks[t].state = "acknowledged" => record \in ToSet(delivered)
  <2> SUFFICES ASSUME hooks[t].state = "acknowledged" PROVE record \in ToSet(delivered)
    OBVIOUS
  <2>1. OnHook(q)
    BY <1>6
  <2>2. q < expected
    BY <1>3, <2>1 DEF IInv, PlaceInv, Place, UnderWay
  <2> QED BY <1>2, <2>2, HookRecord DEF IInv, ShapeInv
<1>8. ASSUME NEW u \in Threads, Inside(u), hooks[u].seq = q PROVE u = t
  BY <1>2, <1>8 DEF IInv, OnceInv, DistinctHooks
<1> HIDE DEF q, record
<1>9. UNCHANGED <<stream, expected, at, pending, expired, errors, delivered>>
  BY <1>1 DEF backend
<1>10. wire \in Seq(Message) /\ OnceAck(wire)
  BY DEF IInv, ShapeInv, WireInv, OnceInv
<1>11. PICK b \in {Acknowledged(q), AgentError} :
          /\ wire' = Append(wire, b)
          /\ \/ b = AgentError /\ broken' = TRUE
             \/ b = Acknowledged(q) /\ broken' = broken /\ hooks[t].state = "acknowledged"
  BY <1>4
<1>12. b \in Message /\ (b = AgentError => b.type = "error")
       /\ (b = Acknowledged(q) => b.type = "acknowledged" /\ b.seq = q)
  BY <1>3, Messages DEF Message, Acknowledged, AgentError
<1>13. wire' \in Seq(Message) /\ ToSet(wire') = ToSet(wire) \cup {b}
  BY <1>10, <1>11, <1>12, AppendSet
<1>14. b = Acknowledged(q) =>
          /\ OnHook(q) /\ ~OnWire(q) /\ ~OnPost(q) /\ ~AtEnd(q) /\ ~AtHand(q)
          /\ Open(q) /\ q < expected
  <2> SUFFICES ASSUME b = Acknowledged(q)
               PROVE  OnHook(q) /\ ~OnWire(q) /\ ~OnPost(q) /\ ~AtEnd(q) /\ ~AtHand(q) /\ Open(q)
                      /\ q < expected
    OBVIOUS
  <2>1. OnHook(q)
    BY <1>6, <1>11, <1>12
  <2> QED BY <1>3, <2>1 DEF IInv, PlaceInv, Place, UnderWay
<1>15. NumberInv'
  <2>1. broken' \in BOOLEAN
    BY <1>11 DEF IInv, ShapeInv, NumberInv
  <2> QED BY <1>1, <1>3, <1>9, <2>1 DEF IInv, ShapeInv, NumberInv
<1>16. HookInv'
  BY <1>1, <1>5 DEF IInv, ShapeInv, HookInv, Inside
<1>17. WireInv'
  BY <1>1, <1>9, <1>13 DEF IInv, ShapeInv, WireInv
<1>18. NoNewHook
  BY <1>5 DEF NoNewHook, Inside, Outside
<1>19. CutInv' /\ LateInv'
  <2>1. \A m \in ToSet(wire') : m \in ToSet(wire) \/ m = AgentError
                               \/ (m.type = "acknowledged" /\ m.seq \in 1 .. sequence)
    BY <1>3, <1>12, <1>13
  <2>2. Goes
    BY <1>1, <1>11, <1>18, <2>1 DEF Goes
  <2> QED BY <2>2, GoesFrame
<1>20. PlaceInv'
  <2> SUFFICES ASSUME NEW s \in Nat PROVE Place(s)'
    BY DEF PlaceInv
  <2>1. /\ Place(s) /\ OnPost(s)' = OnPost(s) /\ AtEnd(s)' = AtEnd(s) /\ AtHand(s)' = AtHand(s)
        /\ Open(s)' = Open(s) /\ at' = at /\ expected' = expected
    BY <1>1, <1>9 DEF IInv, PlaceInv, OnPost, AtEnd, AtHand, Open
  <2>2. OnHook(s)' => OnHook(s) /\ s # q
    <3> SUFFICES ASSUME NEW u \in Threads, hooks'[u].state = "acknowledged", hooks'[u].seq = s
                 PROVE  OnHook(s) /\ s # q
      BY DEF OnHook
    <3>1. u # t /\ hooks'[u] = hooks[u]
      BY <1>5 DEF Outside
    <3>2. Inside(u) /\ OnHook(s)
      BY <3>1 DEF Inside, OnHook
    <3> QED BY <1>8, <3>1, <3>2
  <2>3. OnWire(s)' => OnWire(s) \/ (b = Acknowledged(q) /\ s = q)
    BY <1>11, <1>12, <1>13 DEF OnWire
  <2>4. CASE s = q /\ b = Acknowledged(q)
    BY <1>14, <2>1, <2>2, <2>4 DEF Place, UnderWay
  <2>5. CASE ~(s = q /\ b = Acknowledged(q))
    <3>1. Stays(s)
      BY <2>1, <2>2, <2>3, <2>5 DEF Stays
    <3> QED BY <2>1, <3>1, PlaceFrame
  <2> QED BY <2>4, <2>5
<1>21. OnceInv'
  <2>1. DistinctHooks'
    BY <1>18 DEF IInv, OnceInv, DistinctHooks, NoNewHook
  <2>2. b.type = "acknowledged" => \A m \in ToSet(wire) : m.type = "acknowledged" => m.seq # b.seq
    BY <1>11, <1>12, <1>14 DEF OnWire
  <2>3. OnceAck(wire')
    BY <1>10, <1>11, <1>12, <2>2, AppendOnceAck
  <2> QED BY <1>1, <2>1, <2>3 DEF IInv, OnceInv
<1>22. PassedInv'
  BY <1>1, <1>7, <1>9, <1>11 DEF IInv, PassedInv
<1>23. TellInv'
  <2>1. \A m \in InFlight : m \in InFlight'
    BY <1>9, <1>13 DEF InFlight
  <2>2. CASE b = AgentError
    <3>1. b \in InFlight' /\ b.type = "error"
      BY <1>12, <1>13, <2>2 DEF InFlight
    <3> QED BY <3>1 DEF TellInv, Told
  <2>3. CASE b # AgentError
    <3>1. Tells
      BY <1>1, <1>9, <1>11, <2>1, <2>3 DEF Tells
    <3> QED BY <3>1, TellFrame DEF IInv
  <2> QED BY <2>2, <2>3
<1> QED BY <1>15, <1>16, <1>17, <1>19, <1>20, <1>21, <1>22, <1>23 DEF IInv, ShapeInv
-----------------------------------------------------------------------------
(* The channel.                                                             *)

\* The process ends with what it had not sent.
LEMMA ExitStep ==
    ASSUME IInv, Exit
    PROVE  IInv'
<1>1. /\ ~alive' /\ queue' = << >> /\ hooks' = [t \in Threads |-> Outside] /\ slot' = NoThread
      /\ posted' = << >> /\ alive' = FALSE
      /\ UNCHANGED <<sequence, broken, backend, queued, passed>>
  BY DEF Exit
<1>2. PICK n \in 0 .. Len(wire) : wire' = SubSeq(wire, 1, n)
  BY DEF Exit
<1>3. wire \in Seq(Message) /\ OnceAck(wire)
  BY DEF IInv, ShapeInv, WireInv, OnceInv
<1>4. wire' \in Seq(Message) /\ ToSet(wire') \subseteq ToSet(wire) /\ OnceAck(wire')
  BY <1>2, <1>3, PrefixSet, PrefixOnceAck
<1>5. UNCHANGED <<stream, expected, at, pending, expired, errors, delivered>>
  BY <1>1 DEF backend
<1>6. \A t \in Threads : hooks'[t].state = "outside" /\ ~Inside(t)'
  BY <1>1 DEF Inside, Outside
<1>7. NumberInv'
  <2>1. queue' \in Seq(Nat) /\ Len(queue') < FlushAt
    BY <1>1, QueueAssumption
  <2>2. alive' \in BOOLEAN
    BY <1>1
  <2> QED BY <1>1, <1>5, <2>1, <2>2 DEF IInv, ShapeInv, NumberInv
<1>8. HookInv'
  <2>1. hooks' \in [Threads -> [state: {"outside", "waiting", "acknowledged", "refused"},
                                seq: Nat, record: Nat]]
    BY <1>1 DEF Outside
  <2> QED BY <1>1, <1>6, <2>1, ThreadsAssumption DEF HookInv
<1>9. WireInv'
  <2>1. posted' \in Seq(1 .. sequence')
    BY <1>1
  <2> QED BY <1>4, <1>5, <2>1 DEF IInv, ShapeInv, WireInv
<1>10. CutInv' /\ LateInv'
  <2>1. NoNewHook
    BY <1>6 DEF NoNewHook
  <2>2. Goes
    BY <1>1, <1>4, <2>1 DEF Goes
  <2> QED BY <2>2, GoesFrame
<1>11. PlaceInv'
  <2> SUFFICES ASSUME NEW s \in Nat PROVE Place(s)'
    BY DEF PlaceInv
  <2>1. ~OnHook(s)' /\ ~OnPost(s)'
    BY <1>1, <1>6 DEF OnHook, OnPost, ToSet
  <2>2. Stays(s)
    BY <1>4, <1>5, <2>1 DEF Stays, OnWire, AtEnd, AtHand, Open
  <2> QED BY <2>2, PlaceFrame DEF IInv, PlaceInv
<1>12. OnceInv'
  <2>1. Once(posted')
    BY <1>1 DEF Once
  <2> QED BY <1>4, <1>6, <2>1 DEF OnceInv, DistinctHooks
<1>13. PassedInv'
  BY <1>1, <1>5 DEF IInv, PassedInv
<1>14. TellInv'
  BY <1>1 DEF TellInv, Told
<1> QED BY <1>7, <1>8, <1>9, <1>10, <1>11, <1>12, <1>13, <1>14 DEF IInv, ShapeInv

\* A batch that comes twice is the same batch.
LEMMA RepeatStep ==
    ASSUME IInv, Repeat
    PROVE  IInv'
<1>1. /\ wire' = wire \o wire /\ UNCHANGED <<agent, posted, backend, queued, passed>>
      /\ Len(wire) = 1 /\ Head(wire).type = "batch"
  BY DEF Repeat
<1>2. wire \in Seq(Message)
  BY DEF IInv, ShapeInv, WireInv
<1>3. wire' \in Seq(Message) /\ ToSet(wire') = ToSet(wire)
  BY <1>1, <1>2, TwiceSet
<1>4. \A m \in ToSet(wire) : m.type = "batch"
  <2>1. DOMAIN wire = 1 .. 1 /\ Head(wire) = wire[1]
    BY <1>1, <1>2
  <2> QED BY <1>1, <2>1 DEF ToSet
<1>5. OnceAck(wire')
  <2>1. \A i \in DOMAIN wire' : wire'[i].type = "batch"
    BY <1>3, <1>4 DEF ToSet
  <2> QED BY <2>1 DEF OnceAck
<1>6. UNCHANGED <<alive, queue, sequence, broken, hooks, slot, stream, expected, at, pending,
                  expired, errors, delivered>>
  BY <1>1 DEF agent, backend
<1>7. NumberInv' /\ HookInv' /\ WireInv'
  BY <1>1, <1>3, <1>6 DEF IInv, ShapeInv, NumberInv, HookInv, WireInv, Inside
<1>8. CutInv' /\ LateInv'
  <2>1. NoNewHook
    BY <1>6 DEF NoNewHook, Inside
  <2>2. Goes
    BY <1>1, <1>3, <1>6, <2>1 DEF Goes
  <2> QED BY <2>2, GoesFrame
<1>9. PlaceInv'
  <2> SUFFICES ASSUME NEW s \in Nat PROVE Place(s)'
    BY DEF PlaceInv
  <2>1. Stays(s)
    BY <1>1, <1>3, <1>6 DEF Stays, OnPost, OnHook, OnWire, AtEnd, AtHand, Open
  <2> QED BY <2>1, PlaceFrame DEF IInv, PlaceInv
<1>10. OnceInv' /\ PassedInv'
  BY <1>1, <1>5, <1>6 DEF IInv, OnceInv, DistinctHooks, Inside, PassedInv
<1>11. TellInv'
  BY <1>3, <1>6 DEF IInv, TellInv, Told, InFlight
<1> QED BY <1>7, <1>8, <1>9, <1>10, <1>11 DEF IInv, ShapeInv

-----------------------------------------------------------------------------
(* The invariant.                                                           *)

\* A run starts with nothing queued, sent or expected.
LEMMA InitInv == Init => IInv
<1> SUFFICES ASSUME Init PROVE IInv
  OBVIOUS
<1>1. /\ alive = TRUE /\ queue = << >> /\ sequence = 0 /\ broken = FALSE
      /\ hooks = [t \in Threads |-> Outside] /\ slot = NoThread
      /\ wire = << >> /\ posted = << >> /\ stream = "on" /\ expected = 1 /\ at = Idle
      /\ pending = {} /\ expired = {} /\ errors = {} /\ delivered = << >>
      /\ queued = 0 /\ passed = {}
  BY DEF Init
<1>2. ToSet(wire) = {} /\ ToSet(posted) = {} /\ InFlight = {}
  BY <1>1 DEF ToSet, InFlight, Idle
<1>3. \A t \in Threads : hooks[t].state = "outside" /\ ~Inside(t)
  BY <1>1 DEF Inside, Outside
<1>4. NumberInv
  <2>1. queue \in Seq(Nat) /\ Len(queue) < FlushAt /\ delivered \in Seq(Nat)
    BY <1>1, QueueAssumption
  <2>2. alive \in BOOLEAN /\ broken \in BOOLEAN
    BY <1>1
  <2>3. sequence \in Nat /\ queued \in Nat /\ expected \in 1 .. sequence + 1
    BY <1>1
  <2> QED BY <1>1, <2>1, <2>2, <2>3 DEF NumberInv
<1>5. HookInv
  <2>1. hooks \in [Threads -> [state: {"outside", "waiting", "acknowledged", "refused"},
                               seq: Nat, record: Nat]]
    BY <1>1 DEF Outside
  <2> QED BY <1>1, <1>3, <2>1, ThreadsAssumption DEF HookInv
<1>6. WireInv
  <2>1. at \in [step: {"idle", "checked", "accepted", "registered"}, msg: Message \cup {<< >>}]
    BY <1>1 DEF Idle
  <2>2. wire \in Seq(Message) /\ posted \in Seq(1 .. sequence) /\ at.step = "idle"
    BY <1>1 DEF Idle
  <2> QED BY <1>1, <2>1, <2>2 DEF WireInv
<1>7. CutInv
  <2> DEFINE cut == [s \in Nat |-> 0]
  <2>1. CutOrder(cut)
    BY <1>1 DEF CutOrder
  <2>2. CutQueue(cut)
    <3>1. Len(queue) = 0 /\ Run(queue, cut[sequence + 1])
      BY <1>1, RunEmpty
    <3>2. cut[sequence + 1] = 0 /\ queued = 0
      BY <1>1
    <3> HIDE DEF cut
    <3> QED BY <3>1, <3>2 DEF CutQueue
  <2>3. CutDelivered(cut)
    <3>1. Len(delivered) = 0 /\ Run(delivered, 0)
      BY <1>1, RunEmpty
    <3>2. cut[expected] = 0
      BY <1>1
    <3> HIDE DEF cut
    <3> QED BY <3>1, <3>2 DEF CutDelivered
  <2>4. Cuts(cut)
    BY <1>2, <1>3, <2>1, <2>2, <2>3 DEF Cuts, HookCut
  <2> QED BY <2>4 DEF CutInv
<1>8. PlaceInv
  <2>1. \A s \in Nat : ~OnPost(s) /\ ~OnHook(s) /\ ~OnWire(s) /\ ~AtEnd(s) /\ ~AtHand(s)
    BY <1>1, <1>2, <1>3 DEF OnPost, OnHook, OnWire, AtEnd, AtHand, Idle
  <2> QED BY <2>1 DEF PlaceInv, Place, UnderWay
<1>9. OnceInv
  BY <1>1, <1>3 DEF OnceInv, Once, OnceAck, DistinctHooks
<1>10. LateInv /\ PassedInv /\ TellInv
  BY <1>1 DEF LateInv, Refused, PassedInv, TellInv
<1> QED BY <1>4, <1>5, <1>6, <1>7, <1>8, <1>9, <1>10 DEF IInv, ShapeInv

\* A step of nobody.
LEMMA StutterInv == IInv /\ UNCHANGED vars => IInv'
<1> SUFFICES ASSUME IInv, UNCHANGED vars PROVE IInv'
  OBVIOUS
<1>1. UNCHANGED <<alive, queue, sequence, broken, hooks, slot, wire, posted, stream, expected, at,
                  pending, expired, errors, delivered, queued, passed>>
  BY DEF vars, agent, backend
<1>2. Rests
  BY <1>1 DEF Rests, agent
<1>3. NumberInv' /\ WireInv' /\ LateInv'
  BY <1>1 DEF IInv, ShapeInv, NumberInv, WireInv, LateInv, Refused, Late
<1>4. Tells
  BY <1>1 DEF Tells, InFlight
<1>5. \A s : Open(s) => Open(s)'
  BY <1>1 DEF Open
<1> QED BY <1>1, <1>2, <1>3, <1>4, <1>5, QuietFrame

\* Every step keeps the invariant.
LEMMA NextInv == IInv /\ Next => IInv'
<1> SUFFICES ASSUME IInv, Next PROVE IInv'
  OBVIOUS
<1>1. CASE Agent
  <2>1. CASE QueueRecord \/ Flush \/ AckArrives
    BY <2>1, QueueRecordStep, FlushStep, AckArrivesStep
  <2>2. CASE \E t \in Threads : Boundary(t) \/ HookReturns(t)
    BY <2>2, BoundaryStep, HookReturnsStep
  <2> QED BY <1>1, <2>1, <2>2 DEF Agent
<1>2. CASE Dispatch
  BY <1>2, TakeStep, HandleBatchStep, HandleAcknowledgedStep, HandleErrorStep, RegisterStep,
     PostStep, SessionDetachedStep DEF Dispatch
<1>3. CASE Watchdog
  BY <1>3, ExpireStep, ReportExpiredStep DEF Watchdog
<1>4. CASE Channel
  BY <1>4, ExitStep, RepeatStep DEF Channel
<1>5. CASE Retire
  BY <1>5, PopStreamStep, CancelAcksStep DEF Retire
<1> QED BY <1>1, <1>2, <1>3, <1>4, <1>5 DEF Next

\* The invariant is one of the whole transport: the cuts of the batches, the place of
\* each acknowledgement, and what is known of a loss.
THEOREM Invariant == Spec => []IInv
<1>1. IInv /\ [Next]_vars => IInv'
  BY NextInv, StutterInv
<1> QED BY InitInv, <1>1, PTL DEF Spec

\* TypeOK, for any instance: in particular the queue never reaches FlushAt between two
\* hooks, so that lifecycleQueue never overflows.
THEOREM TypeCorrect == Spec => []TypeOK
<1>1. IInv => TypeOK
  <2> SUFFICES ASSUME IInv PROVE TypeOK
    OBVIOUS
  <2>1. NumberInv /\ HookInv /\ WireInv
    BY DEF IInv, ShapeInv
  <2>2. /\ DOMAIN hooks = Threads
        /\ \A t \in Threads : hooks[t].state \in {"outside", "waiting", "acknowledged", "refused"}
    BY <2>1 DEF HookInv
  <2>3. at.step \in {"idle", "checked", "accepted", "registered"}
    BY <2>1 DEF WireInv
  <2>4. /\ alive \in BOOLEAN /\ broken \in BOOLEAN /\ slot \in Threads \cup {NoThread}
        /\ stream \in {"on", "popped", "detached"} /\ posted \in Seq(1 .. sequence)
    BY <2>1 DEF NumberInv, HookInv, WireInv
  <2>5. /\ queue \in Seq(Nat) /\ Len(queue) < FlushAt /\ sequence \in Nat /\ queued \in Nat
        /\ expected \in 1 .. sequence + 1 /\ delivered \in Seq(Nat) /\ passed \subseteq 1 .. queued
        /\ pending \subseteq 1 .. sequence /\ expired \subseteq 1 .. sequence
    BY <2>1 DEF NumberInv
  <2> QED BY <2>2, <2>3, <2>4, <2>5 DEF TypeOK
<1> QED BY <1>1, Invariant, PTL

\* flushLifecycle(true): a hook returns past a boundary only with the record delivered, or
\* with the loss told, on its way, or of no interest any more; but for a process that ends
\* right after its transport has failed.
THEOREM BoundariesDurable == Spec => []BoundariesAreDurable
<1>1. IInv => BoundariesAreDurable
  <2> SUFFICES ASSUME IInv, NEW r \in passed, r \notin ToSet(delivered)
               PROVE  LossInView \/ (broken /\ ~alive)
    BY DEF BoundariesAreDurable
  <2>1. broken
    BY DEF IInv, PassedInv
  <2>2. Told
    BY <2>1 DEF IInv, TellInv
  <2>3. ASSUME NEW m \in InFlight, m.type = "error" PROVE LossInView
    <3>1. m \in Message
      BY InFlightMessage DEF IInv, ShapeInv
    <3>2. m # << >> /\ m \in ToSet(wire) \cup {at.msg}
      BY <3>1, Fields DEF InFlight
    <3> QED BY <2>3, <3>2 DEF LossInView
  <2> QED BY <2>1, <2>2, <2>3 DEF Told, LossInView
<1> QED BY <1>1, Invariant, PTL

\* _confirm_pending_ack refuses a confirmation only if its deadline passed or the stream
\* was retired.
THEOREM Confirmations == Spec => []ConfirmationsExpected
<1>1. IInv => ConfirmationsExpected
  <2> SUFFICES ASSUME IInv, NEW s \in 1 .. sequence, <<"unexpected", s>> \in errors
               PROVE  <<"timeout", s>> \in errors \/ s \in expired \/ stream # "on"
    BY DEF ConfirmationsExpected
  <2>1. s \in Nat
    BY DEF IInv, ShapeInv, NumberInv
  <2> QED BY <2>1 DEF IInv, LateInv, Refused, Late
<1> QED BY <1>1, Invariant, PTL

\* The controller has the first records queued.
FirstRecords == /\ delivered = [i \in 1 .. Len(delivered) |-> i]
                /\ Len(delivered) \in Nat /\ Len(delivered) <= queued

\* The invariant says so.
LEMMA DeliveredRun ==
    ASSUME NumberInv, CutInv
    PROVE  FirstRecords
<1>1. PICK cut : Cuts(cut)
  BY DEF CutInv
<1> DEFINE n == Len(delivered)
<1>2. delivered \in Seq(Nat) /\ n \in Nat /\ n = cut[expected] /\ Run(delivered, 0)
  BY <1>1 DEF NumberInv, Cuts, CutDelivered
<1>3. delivered = [i \in 1 .. n |-> i]
  <2>1. \A i \in 1 .. n : delivered[i] = i
    BY <1>2 DEF Run
  <2>2. DOMAIN delivered = 1 .. n /\ delivered = [i \in DOMAIN delivered |-> delivered[i]]
    BY <1>2
  <2> QED BY <2>1, <2>2
<1> HIDE DEF n
<1>4. cut[expected] = cut[sequence + 1] \/ cut[expected] < cut[sequence + 1]
  <2>1. sequence \in Nat /\ expected \in 1 .. sequence + 1
    BY DEF NumberInv
  <2>2. \A a, b \in 1 .. sequence + 1 : a < b => cut[a] < cut[b]
    BY <1>1 DEF Cuts, CutOrder
  <2> QED BY <2>1, <2>2
<1>5. cut[sequence + 1] <= queued
  <2> DEFINE k == Len(queue)
  <2>1. k \in Nat /\ cut[sequence + 1] + k <= queued /\ queued \in Nat
    BY <1>1 DEF NumberInv, Cuts, CutQueue
  <2>2. cut[sequence + 1] \in Nat
    BY <1>1, NextCut
  <2> HIDE DEF k
  <2> QED BY <2>1, <2>2
<1>6. cut[sequence + 1] \in Nat /\ queued \in Nat
  BY <1>1, NextCut DEF NumberInv
<1>7. n <= queued
  BY <1>2, <1>4, <1>5, <1>6
<1> QED BY <1>2, <1>3, <1>7 DEF n, FirstRecords

\* The transport implements RecordStream: the controller gets the records in their order,
\* none twice and none skipped, whatever is lost, repeated or retired (next_sequence).
THEOREM InOrder == Spec => DeliversInOrder
<1>1. Init => Records!Init
  BY DEF Init, Records!Init
<1>2. IInv => FirstRecords
  BY DeliveredRun DEF IInv, ShapeInv
<1>3. IInv /\ FirstRecords /\ FirstRecords' /\ [Next]_vars => [Records!Next]_<<queued, delivered>>
  <2> SUFFICES ASSUME IInv, FirstRecords, FirstRecords', [Next]_vars
               PROVE  Records!Next \/ UNCHANGED <<queued, delivered>>
    OBVIOUS
  <2>1. ASSUME queued' = Record, UNCHANGED backend PROVE Records!Next
    BY <2>1 DEF Records!Next, Records!Queue, Record, backend
  <2>2. CASE QueueRecord
    BY <2>1, <2>2 DEF QueueRecord, NewRecord
  <2>3. ASSUME NEW t \in Threads, Boundary(t) PROVE Records!Next
    BY <2>1, <2>3 DEF Boundary, NewRecord
  <2>4. CASE HandleBatch
    <3>1. CASE stream = "on" /\ InSequence(at.msg)
      <4>1. Accepts /\ queued' = queued
        BY <2>4, <3>1 DEF HandleBatch, Accepts, agent, Idle, Dispatching, IInv, ShapeInv, WireInv
      <4>2. Len(delivered) < Len(delivered')
        BY <4>1, CutAccepts DEF IInv, ShapeInv
      <4>3. /\ delivered' = [i \in 1 .. Len(delivered') |-> i]
            /\ Len(delivered') \in Nat /\ Len(delivered') <= queued'
        BY DEF FirstRecords
      <4>4. Len(delivered) \in Nat /\ queued \in Nat
        BY DEF FirstRecords, IInv, ShapeInv, NumberInv
      <4> DEFINE n == Len(delivered')
                 k == Len(delivered)
      <4>5. n \in k + 1 .. queued
        <5>1. n \in Nat /\ k \in Nat /\ queued \in Nat /\ k < n /\ n <= queued
          BY <4>1, <4>2, <4>3, <4>4
        <5> HIDE DEF n, k
        <5> QED BY <5>1
      <4> QED BY <4>1, <4>3, <4>5 DEF Records!Next, Records!Deliver
    <3>2. CASE ~(stream = "on" /\ InSequence(at.msg))
      BY <2>4, <3>2 DEF HandleBatch
    <3> QED BY <3>1, <3>2
  <2>5. CASE Flush \/ AckArrives \/ \E t \in Threads : HookReturns(t)
    BY <2>5 DEF Flush, AckArrives, HookReturns, backend
  <2>6. CASE Take \/ HandleAcknowledged \/ HandleError \/ Register \/ Post \/ SessionDetached
    BY <2>6 DEF Take, HandleAcknowledged, HandleError, Register, Post, SessionDetached
  <2>7. CASE Watchdog \/ Channel \/ Retire \/ UNCHANGED vars
    BY <2>7 DEF Watchdog, Channel, Retire, Expire, ReportExpired, Exit, Repeat, PopStream,
                CancelAcks, vars, backend
  <2> QED BY <2>2, <2>3, <2>4, <2>5, <2>6, <2>7 DEF Next, Agent, Dispatch
<1> QED BY <1>1, <1>2, <1>3, Invariant, PTL DEF Spec, DeliversInOrder, Records!Spec
=============================================================================
