------------------------- MODULE ProcessTreeLemmas -------------------------
(***************************************************************************)
(* Lemmas about the registry's operators.  Each method is shown once, as a   *)
(* lemma about the operator that models it, to keep a registry well formed   *)
(* (TreeOK) and to withdraw nothing it recorded (Keeps).  They hold for any   *)
(* module that drives the operators: ProcessTreeProofs and ControllerProofs.  *)
(***************************************************************************)
EXTENDS ProcessTree, FiniteSetTheorems, TLAPS

\* Finiteness, which TLC takes for granted and the caps need.
TreeFinite(t) == IsFiniteSet(Known(t)) /\ IsFiniteSet(KnownImgs(t))

\* The latch of _complete: an omission closes it for good, and an image is
\* covered only while it is instrumented.
TreeLatch(t) == /\ t.omitted > 0 => ~t.complete
                /\ \A i \in KnownImgs(t) : t.images[i].covered => t.images[i].instrumented

\* Every process runs an image.
TreeRuns(t) == \A p \in Known(t) : t.processes[p].generation >= 1

TreeOK(t) == /\ TreeType(t)
             /\ TreeFinite(t)
             /\ TreeCaps(t)
             /\ TreeAncestry(t)
             /\ TreeImages(t)
             /\ TreeLatch(t)
             /\ TreeRuns(t)

(* The registry __init__ builds is well formed.                              *)
LEMMA EmptyTreeOK == TreeOK(EmptyTree)
  BY FS_EmptySet, CapsAssumption DEF TreeOK, TreeType, TreeFinite, TreeCaps, TreeAncestry, TreeImages,
     TreeLatch, TreeRuns, EmptyTree, Known, KnownImgs

(* note_omitted_image keeps the registry well formed.                        *)
LEMMA NoteOmittedOK ==
    ASSUME NEW t, TreeOK(t)
    PROVE  TreeOK(NoteOmittedImage(t))
  BY DEF TreeOK, TreeType, TreeFinite, TreeCaps, TreeAncestry, TreeImages,
     TreeLatch, TreeRuns, NoteOmittedImage, Known, KnownImgs

(* A mark that changes only one image, keeping it an image whose coverage    *)
(* implies instrumentation and whose explanation is never withdrawn.         *)
LEMMA MarkImageOK ==
    ASSUME NEW t, TreeOK(t), NEW i \in KnownImgs(t), NEW img \in Image,
           img.covered => img.instrumented,
           t.images[i].detach # NoReason => img.detach # NoReason
    PROVE  TreeOK([t EXCEPT !.images[i] = img])
<1> DEFINE u == [t EXCEPT !.images[i] = img]
<1>1. /\ DOMAIN u = DOMAIN t
      /\ u.root = t.root /\ u.processes = t.processes
      /\ u.complete = t.complete /\ u.omitted = t.omitted
      /\ u.images = [t.images EXCEPT ![i] = img]
  BY DEF TreeOK, TreeType
<1>2. Known(u) = Known(t) /\ KnownImgs(u) = KnownImgs(t)
  BY <1>1 DEF Known, KnownImgs
<1>3. \A j \in KnownImgs(t) : u.images[j] = IF j = i THEN img ELSE t.images[j]
  BY <1>1 DEF KnownImgs
<1> HIDE DEF u
<1>4. TreeType(u)
  BY <1>1, <1>2 DEF TreeOK, TreeType
<1>5. TreeFinite(u) /\ TreeCaps(u) /\ TreeAncestry(u)
  BY <1>1, <1>2 DEF TreeOK, TreeFinite, TreeCaps, TreeAncestry
<1>6. TreeImages(u)
  BY <1>1, <1>2, <1>3 DEF TreeOK, TreeImages
<1>7. TreeLatch(u) /\ TreeRuns(u)
  BY <1>1, <1>2, <1>3 DEF TreeOK, TreeLatch, TreeRuns
<1> QED BY <1>4, <1>5, <1>6, <1>7 DEF TreeOK, u

(* Each mark on an admitted image keeps the registry well formed.            *)
LEMMA MarksOK ==
    ASSUME NEW t, TreeOK(t), NEW i \in KnownImgs(t)
    PROVE  /\ TreeOK(MarkInstrumented(t, i))
           /\ \A status \in Statuses : TreeOK(MarkStatus(t, i, status))
           /\ \A reason \in Reasons : TreeOK(MarkDetached(t, i, reason))
           /\ \A reason \in Reasons : TreeOK(MarkCoverageLoss(t, i, reason))
<1> DEFINE img == t.images[i]
<1>0. img \in Image /\ DOMAIN t.images = KnownImgs(t)
  BY DEF TreeOK, TreeType, KnownImgs
<1>1. TreeOK(MarkInstrumented(t, i))
  <2> DEFINE new == [img EXCEPT !.instrumented = TRUE, !.covered = TRUE]
  <2>1. new \in Image /\ new.detach = img.detach /\ new.instrumented
    BY <1>0 DEF Image
  <2>2. TreeOK([t EXCEPT !.images[i] = new])
    BY <2>1, MarkImageOK
  <2>3. MarkInstrumented(t, i) = [t EXCEPT !.images[i] = new]
    BY <1>0 DEF MarkInstrumented, TreeOK, TreeType
  <2> QED BY <2>2, <2>3
<1>2. ASSUME NEW status \in Statuses PROVE TreeOK(MarkStatus(t, i, status))
  <2> DEFINE new == [img EXCEPT !.status = status]
  <2>1. /\ new \in Image /\ new.detach = img.detach
        /\ new.instrumented = img.instrumented /\ new.covered = img.covered
    BY <1>0 DEF Image
  <2>2. img.covered => img.instrumented
    BY DEF TreeOK, TreeLatch
  <2>3. TreeOK([t EXCEPT !.images[i] = new])
    BY <2>1, <2>2, MarkImageOK
  <2> QED BY <2>3 DEF MarkStatus
<1>3. ASSUME NEW reason \in Reasons PROVE TreeOK(MarkDetached(t, i, reason))
  <2> DEFINE new == [img EXCEPT !.detach = reason]
  <2>1. /\ new \in Image /\ new.detach # NoReason
        /\ new.instrumented = img.instrumented /\ new.covered = img.covered
    BY <1>0, ReasonsAssumption DEF Image
  <2>2. img.covered => img.instrumented
    BY DEF TreeOK, TreeLatch
  <2>3. TreeOK([t EXCEPT !.images[i] = new])
    BY <2>1, <2>2, MarkImageOK
  <2> QED BY <2>3 DEF MarkDetached
<1>4. ASSUME NEW reason \in Reasons PROVE TreeOK(MarkCoverageLoss(t, i, reason))
  <2> DEFINE new == [status |-> "PARTIAL", instrumented |-> FALSE, covered |-> FALSE,
                     detach |-> IF img.detach = NoReason THEN reason ELSE img.detach]
             u   == [t EXCEPT !.images[i] = new]
             v   == MarkCoverageLoss(t, i, reason)
  <2>1. /\ new \in Image /\ ~new.covered
        /\ img.detach # NoReason => new.detach # NoReason
    BY <1>0 DEF Image, Statuses
  <2>2. TreeOK(u)
    BY <2>1, MarkImageOK
  <2>3. /\ DOMAIN v = DOMAIN u /\ v.root = u.root /\ v.processes = u.processes
        /\ v.images = u.images /\ v.omitted = u.omitted /\ v.complete = FALSE
    BY DEF MarkCoverageLoss, TreeOK, TreeType
  <2> HIDE DEF u, v, new
  <2>4. Known(v) = Known(u) /\ KnownImgs(v) = KnownImgs(u)
    BY <2>3 DEF Known, KnownImgs
  <2>5. TreeType(v)
    BY <2>2, <2>3, <2>4 DEF TreeOK, TreeType
  <2>6. TreeFinite(v) /\ TreeCaps(v)
    BY <2>2, <2>4 DEF TreeOK, TreeFinite, TreeCaps
  <2>7. TreeAncestry(v)
    BY <2>2, <2>3, <2>4 DEF TreeOK, TreeAncestry
  <2>8. TreeImages(v) /\ TreeLatch(v) /\ TreeRuns(v)
    BY <2>2, <2>3, <2>4 DEF TreeOK, TreeImages, TreeLatch, TreeRuns
  <2> QED BY <2>5, <2>6, <2>7, <2>8 DEF TreeOK, v
<1> QED BY <1>1, <1>2, <1>3, <1>4

(* Marking or learning about one process keeps its ancestry and images.      *)
LEMMA MarkProcessOK ==
    ASSUME NEW t, TreeOK(t), NEW p \in Known(t), NEW s \in Process,
           s.parent = t.processes[p].parent, s.depth = t.processes[p].depth,
           s.root = t.processes[p].root, s.generation = t.processes[p].generation
    PROVE  TreeOK([t EXCEPT !.processes[p] = s])
<1> DEFINE u == [t EXCEPT !.processes[p] = s]
<1>1. /\ DOMAIN u = DOMAIN t
      /\ u.root = t.root /\ u.images = t.images
      /\ u.complete = t.complete /\ u.omitted = t.omitted
      /\ u.processes = [t.processes EXCEPT ![p] = s]
  BY DEF TreeOK, TreeType
<1>2. Known(u) = Known(t) /\ KnownImgs(u) = KnownImgs(t)
  BY <1>1 DEF Known, KnownImgs
<1>3. \A q \in Known(t) : u.processes[q] = IF q = p THEN s ELSE t.processes[q]
  BY <1>1 DEF Known
<1>4. \A q \in Known(t) :
        /\ u.processes[q].parent = t.processes[q].parent
        /\ u.processes[q].depth = t.processes[q].depth
        /\ u.processes[q].root = t.processes[q].root
        /\ u.processes[q].generation = t.processes[q].generation
  BY <1>3
<1> HIDE DEF u
<1>5. TreeType(u)
  BY <1>1, <1>2 DEF TreeOK, TreeType
<1>6. TreeFinite(u) /\ TreeCaps(u) /\ TreeLatch(u) /\ TreeRuns(u)
  BY <1>1, <1>2, <1>4 DEF TreeOK, TreeFinite, TreeCaps, TreeLatch, TreeRuns
<1>7. TreeAncestry(u)
  BY <1>1, <1>2, <1>4 DEF TreeOK, TreeAncestry
<1>8. TreeImages(u)
  <2>1. KnownImgs(u) = UNION {{q} \X (1..u.processes[q].generation) : q \in Known(u)}
    BY <1>2, <1>4 DEF TreeOK, TreeImages
  <2>2. \A i \in KnownImgs(t) : i[1] \in Known(t)
    BY DEF TreeOK, TreeImages
  <2> QED BY <1>1, <1>2, <1>4, <2>1, <2>2 DEF TreeOK, TreeImages
<1> QED BY <1>5, <1>6, <1>7, <1>8 DEF TreeOK, u

(* Marks on several images at once keep it well formed, and what is not an   *)
(* image as it was.                                                          *)
LEMMA MarkImagesOK ==
    ASSUME NEW t, TreeOK(t), NEW f \in [KnownImgs(t) -> Image],
           \A i \in KnownImgs(t) : /\ f[i].covered => f[i].instrumented
                                   /\ t.images[i].detach # NoReason => f[i].detach # NoReason
    PROVE  LET u == [t EXCEPT !.images = f] IN
           /\ TreeOK(u) /\ u.images = f /\ u.processes = t.processes
           /\ Known(u) = Known(t) /\ KnownImgs(u) = KnownImgs(t)
           /\ u.complete = t.complete /\ u.root = t.root
<1> DEFINE u == [t EXCEPT !.images = f]
<1>1. /\ DOMAIN u = DOMAIN t /\ u.images = f /\ u.processes = t.processes
      /\ u.root = t.root /\ u.complete = t.complete /\ u.omitted = t.omitted
  BY DEF TreeOK, TreeType
<1>2. Known(u) = Known(t) /\ KnownImgs(u) = KnownImgs(t)
  BY <1>1 DEF Known, KnownImgs
<1> HIDE DEF u
<1>3. TreeType(u) /\ TreeFinite(u) /\ TreeCaps(u) /\ TreeAncestry(u) /\ TreeRuns(u)
  BY <1>1, <1>2 DEF TreeOK, TreeType, TreeFinite, TreeCaps, TreeAncestry, TreeRuns
<1>4. TreeImages(u) /\ TreeLatch(u)
  BY <1>1, <1>2 DEF TreeOK, TreeImages, TreeLatch
<1> QED BY <1>1, <1>2, <1>3, <1>4 DEF TreeOK, u

(* So do marks on several processes.                                         *)
LEMMA MarkProcessesOK ==
    ASSUME NEW t, TreeOK(t), NEW f \in [Known(t) -> Process],
           \A p \in Known(t) : /\ f[p].parent = t.processes[p].parent
                               /\ f[p].depth = t.processes[p].depth
                               /\ f[p].root = t.processes[p].root
                               /\ f[p].generation = t.processes[p].generation
    PROVE  LET u == [t EXCEPT !.processes = f] IN
           /\ TreeOK(u) /\ u.images = t.images /\ u.processes = f
           /\ Known(u) = Known(t) /\ KnownImgs(u) = KnownImgs(t)
           /\ u.complete = t.complete /\ u.root = t.root
<1> DEFINE u == [t EXCEPT !.processes = f]
<1>1. /\ DOMAIN u = DOMAIN t /\ u.images = t.images /\ u.processes = f
      /\ u.root = t.root /\ u.complete = t.complete /\ u.omitted = t.omitted
  BY DEF TreeOK, TreeType
<1>2. Known(u) = Known(t) /\ KnownImgs(u) = KnownImgs(t)
  BY <1>1 DEF Known, KnownImgs
<1>3. \A p \in Known(t) : /\ u.processes[p].parent = t.processes[p].parent
                          /\ u.processes[p].depth = t.processes[p].depth
                          /\ u.processes[p].root = t.processes[p].root
                          /\ u.processes[p].generation = t.processes[p].generation
  BY <1>1
<1> HIDE DEF u
<1>4. TreeType(u) /\ TreeFinite(u) /\ TreeCaps(u) /\ TreeLatch(u)
  BY <1>1, <1>2 DEF TreeOK, TreeType, TreeFinite, TreeCaps, TreeLatch
<1>5. TreeAncestry(u) /\ TreeRuns(u)
  BY <1>1, <1>2, <1>3 DEF TreeOK, TreeAncestry, TreeRuns
<1>6. TreeImages(u)
  <2>1. KnownImgs(u) = UNION {{p} \X (1..u.processes[p].generation) : p \in Known(u)}
    BY <1>2, <1>3 DEF TreeOK, TreeImages
  <2>2. \A i \in KnownImgs(t) : i[1] \in Known(t)
    BY DEF TreeOK, TreeImages
  <2> QED BY <1>1, <1>2, <1>3, <2>1, <2>2 DEF TreeOK, TreeImages
<1> QED BY <1>1, <1>2, <1>4, <1>5, <1>6 DEF TreeOK, u

(* Learning a start token keeps the registry well formed.                    *)
LEMMA LearnTokenOK ==
    ASSUME NEW t, TreeOK(t), NEW p \in Known(t), NEW token \in Tokens \cup {NoToken}
    PROVE  TreeOK(LearnToken(t, p, token))
<1> DEFINE old == t.processes[p]
           s == [old EXCEPT !.token = IF old.token = NoToken THEN token ELSE old.token]
<1>1. old \in Process
  BY DEF TreeOK, TreeType, Known
<1>2. /\ s \in Process /\ s.parent = old.parent /\ s.depth = old.depth
      /\ s.root = old.root /\ s.generation = old.generation
  BY <1>1 DEF Process
<1>3. TreeOK([t EXCEPT !.processes[p] = s])
  BY <1>2, MarkProcessOK
<1> QED BY <1>3 DEF LearnToken

(* mark_active_at_root_exit does, whether or not it knows the PID.           *)
LEMMA MarkActiveOK ==
    ASSUME NEW t, TreeOK(t), NEW p
    PROVE  TreeOK(MarkActiveAtRootExit(t, p))
<1> SUFFICES ASSUME p \in Known(t) PROVE TreeOK([t EXCEPT !.processes[p].active = TRUE])
  BY DEF MarkActiveAtRootExit
<1> DEFINE old == t.processes[p]
           s == [old EXCEPT !.active = TRUE]
<1>1. old \in Process
  BY DEF TreeOK, TreeType, Known
<1>2. /\ s \in Process /\ s.parent = old.parent /\ s.depth = old.depth
      /\ s.root = old.root /\ s.generation = old.generation
  BY <1>1 DEF Process
<1>3. TreeOK([t EXCEPT !.processes[p] = s])
  BY <1>2, MarkProcessOK
<1> QED BY <1>3

(* A process is added under the caps, with a parent in scope one level up.   *)
LEMMA AddProcessOK ==
    ASSUME NEW t, TreeOK(t), NEW p \in Pids \ Known(t), NEW s \in Process,
           ~ProcessesFull(t), ~ImagesFull(t), s.generation = 1,
           s.root => /\ t.root = NoPid /\ s.parent = NoPid /\ s.depth = 0,
           ~s.root => /\ t.root # NoPid /\ s.parent \in Known(t)
                      /\ s.depth = t.processes[s.parent].depth + 1
    PROVE  TreeOK(AddProcess(t, p, s))
<1> DEFINE u == AddProcess(t, p, s)
           i == <<p, 1>>
<1>1. /\ DOMAIN u = DOMAIN t
      /\ u.root = IF s.root THEN p ELSE t.root
      /\ u.processes = Put(t.processes, p, s)
      /\ u.images = Put(t.images, i, NewImage)
      /\ u.complete = t.complete /\ u.omitted = t.omitted
  BY DEF TreeOK, TreeType, AddProcess
<1>2. Known(u) = Known(t) \cup {p} /\ KnownImgs(u) = KnownImgs(t) \cup {i}
  BY <1>1 DEF Known, KnownImgs, Put
<1>3. /\ \A q \in Known(u) : u.processes[q] = IF q = p THEN s ELSE t.processes[q]
      /\ \A j \in KnownImgs(u) : u.images[j] = IF j = i THEN NewImage ELSE t.images[j]
  BY <1>1 DEF Known, KnownImgs, Put
<1>4. \A j \in KnownImgs(t) : j[1] \in Known(t)
  BY DEF TreeOK, TreeImages
<1>5. i \notin KnownImgs(t) /\ i \in Instances
  BY <1>4 DEF Instances
<1>6. NewImage \in Image
  BY DEF NewImage, Image, Statuses
<1> HIDE DEF u, i
<1>7. TreeType(u)
  <2>1. u.processes \in [Known(u) -> Process]
    BY <1>1, <1>2, <1>3 DEF TreeOK, TreeType, Put, Known
  <2>2. u.images \in [KnownImgs(u) -> Image]
    BY <1>1, <1>2, <1>3, <1>6 DEF TreeOK, TreeType, Put, KnownImgs
  <2> QED BY <1>1, <1>2, <1>5, <2>1, <2>2 DEF TreeOK, TreeType
<1>8. TreeFinite(u) /\ TreeCaps(u)
  <2>1. /\ IsFiniteSet(Known(u)) /\ Cardinality(Known(u)) = Cardinality(Known(t)) + 1
        /\ IsFiniteSet(KnownImgs(u))
        /\ Cardinality(KnownImgs(u)) = Cardinality(KnownImgs(t)) + 1
    BY <1>2, <1>5, FS_AddElement DEF TreeOK, TreeFinite
  <2>2. Cardinality(Known(t)) \in Nat /\ Cardinality(KnownImgs(t)) \in Nat
    BY FS_CardinalityType DEF TreeOK, TreeFinite
  <2> QED BY <2>1, <2>2, CapsAssumption
          DEF TreeFinite, TreeCaps, ProcessesFull, ImagesFull
<1>9. TreeAncestry(u)
  <2>1. u.root # NoPid
    BY <1>1, PidsAssumption
  <2>2. ASSUME s.root PROVE TreeAncestry(u)
    <3>1. Known(t) = {}
      BY <2>2 DEF TreeOK, TreeAncestry
    <3> QED BY <1>1, <1>2, <1>3, <2>1, <2>2, <3>1 DEF TreeAncestry
  <2>3. ASSUME ~s.root PROVE TreeAncestry(u)
    <3>1. u.root = t.root /\ t.root \in Known(t) /\ u.root \in Known(u)
      BY <1>1, <1>2, <2>3 DEF TreeOK, TreeAncestry
    <3>2. ASSUME NEW q \in Known(t)
          PROVE  u.processes[q] = t.processes[q]
      BY <1>2, <1>3
    <3>3. p # u.root /\ u.processes[p] = s
      BY <1>2, <1>3, <3>1
    <3>4. ASSUME NEW q \in Known(t)
          PROVE  LET r == u.processes[q] IN
                 /\ r.root = (q = u.root)
                 /\ r.root  => r.parent = NoPid /\ r.depth = 0
                 /\ ~r.root => /\ r.parent \in Known(u)
                               /\ r.depth = u.processes[r.parent].depth + 1
      BY <1>2, <3>1, <3>2 DEF TreeOK, TreeAncestry
    <3>5. s.root \in BOOLEAN
      BY DEF Process
    <3>6. u.processes[s.parent] = t.processes[s.parent]
      BY <2>3, <3>2
    <3> QED BY <1>2, <2>1, <2>3, <3>1, <3>3, <3>4, <3>5, <3>6 DEF TreeAncestry
  <2>4. s.root \in BOOLEAN
    BY DEF Process
  <2> QED BY <2>2, <2>3, <2>4
<1>10. TreeImages(u)
  <2>1. \A q \in Known(t) : u.processes[q].generation = t.processes[q].generation
    BY <1>2, <1>3
  <2>2. {p} \X (1..u.processes[p].generation) = {i}
    BY <1>2, <1>3 DEF i
  <2>3. KnownImgs(t) = UNION {{q} \X (1..u.processes[q].generation) : q \in Known(t)}
    BY <2>1 DEF TreeOK, TreeImages
  <2>4. KnownImgs(u) = UNION {{q} \X (1..u.processes[q].generation) : q \in Known(u)}
    BY <1>2, <2>2, <2>3
  <2>5. i[1] = p /\ i[2] = 1 /\ u.processes[p].generation = 1
    BY <1>2, <1>3 DEF i
  <2>6. ASSUME NEW j \in KnownImgs(u), j[2] < u.processes[j[1]].generation
        PROVE  u.images[j].detach # NoReason
    <3>1. j \in KnownImgs(t)
      BY <1>2, <2>5, <2>6
    <3>2. u.images[j] = t.images[j]
      BY <1>3, <1>2, <1>5, <3>1
    <3>3. u.processes[j[1]].generation = t.processes[j[1]].generation
      BY <1>4, <2>1, <3>1
    <3> QED BY <2>6, <3>1, <3>2, <3>3 DEF TreeOK, TreeImages
  <2> QED BY <2>4, <2>6 DEF TreeImages
<1>11. TreeLatch(u)
  <2>1. ~NewImage.covered
    BY DEF NewImage
  <2>2. ASSUME NEW j \in KnownImgs(u), u.images[j].covered
        PROVE  u.images[j].instrumented
    BY <1>2, <1>3, <2>1, <2>2 DEF TreeOK, TreeLatch
  <2> QED BY <1>1, <2>2 DEF TreeOK, TreeLatch
<1>12. TreeRuns(u)
  BY <1>2, <1>3 DEF TreeOK, TreeRuns
<1> QED BY <1>7, <1>8, <1>9, <1>10, <1>11, <1>12 DEF TreeOK, u

(* An exec appends the next image of a PID and explains the previous one.    *)
LEMMA AppendExecOK ==
    ASSUME NEW t, TreeOK(t), NEW p \in Known(t), ~ImagesFull(t)
    PROVE  TreeOK(AppendExecImage(t, p))
<1> DEFINE g == t.processes[p].generation
           i == <<p, g + 1>>
           old == t.images[<<p, g>>]
           seen == [old EXCEPT !.detach = IF old.detach = NoReason THEN "process-replaced"
                                          ELSE old.detach]
           u == AppendExecImage(t, p)
<1>1. p \in Pids /\ t.processes[p] \in Process /\ g \in Nat
  BY DEF TreeOK, TreeType, Known, Process
<1>2. ASSUME NEW q, NEW n
      PROVE  <<q, n>> \in KnownImgs(t) <=> q \in Known(t) /\ n \in 1..t.processes[q].generation
  BY DEF TreeOK, TreeImages
<1>3. \A j \in KnownImgs(t) : j = <<j[1], j[2]>> /\ j[1] \in Known(t) /\ j[2] \in Nat
  <2>1. \A j \in KnownImgs(t) : j = <<j[1], j[2]>> /\ j[2] \in Nat
    BY DEF TreeOK, TreeType, Instances
  <2> QED BY <1>2, <2>1
<1>4. i \notin KnownImgs(t) /\ i \in Instances
  BY <1>1, <1>2 DEF Instances
<1>5. /\ DOMAIN u = DOMAIN t
      /\ u.root = t.root /\ u.complete = t.complete /\ u.omitted = t.omitted
      /\ u.processes = [t.processes EXCEPT ![p].generation = g + 1]
      /\ u.images = Put([t.images EXCEPT ![<<p, g>>] = seen], i, NewImage)
  <2>1. u = [t EXCEPT !.processes = [t.processes EXCEPT ![p].generation = g + 1],
                      !.images = Put([t.images EXCEPT ![<<p, g>>] = seen], i, NewImage)]
    BY DEF AppendExecImage
  <2>2. DOMAIN t = {"root", "processes", "images", "complete", "omitted"}
    BY DEF TreeOK, TreeType
  <2> DEFINE ps == [t.processes EXCEPT ![p].generation = g + 1]
             is == Put([t.images EXCEPT ![<<p, g>>] = seen], i, NewImage)
  <2>3. u = [t EXCEPT !.processes = ps, !.images = is]
    BY <2>1
  <2> HIDE DEF u, seen, i, ps, is
  <2>4. /\ DOMAIN u = DOMAIN t /\ u.root = t.root /\ u.complete = t.complete
        /\ u.omitted = t.omitted /\ u.processes = ps /\ u.images = is
    BY <2>2, <2>3
  <2> QED BY <2>4 DEF ps, is
<1>6. Known(u) = Known(t) /\ KnownImgs(u) = KnownImgs(t) \cup {i}
  BY <1>5 DEF Known, KnownImgs, Put
<1>7. \A q \in Known(t) :
        /\ u.processes[q] = [t.processes[q] EXCEPT !.generation =
                                 IF q = p THEN g + 1 ELSE @]
        /\ u.processes[q] \in Process
        /\ u.processes[q].generation = IF q = p THEN g + 1 ELSE t.processes[q].generation
        /\ u.processes[q].parent = t.processes[q].parent
        /\ u.processes[q].depth = t.processes[q].depth
        /\ u.processes[q].root = t.processes[q].root
  BY <1>1, <1>5 DEF TreeOK, TreeType, Known, Process
<1>8. \A j \in KnownImgs(u) :
        u.images[j] = IF j = i THEN NewImage
                      ELSE IF j = <<p, g>> THEN seen ELSE t.images[j]
  BY <1>5, <1>6 DEF KnownImgs, Put
<1>9. <<p, g>> \in KnownImgs(t) =>
        /\ seen \in Image /\ seen.detach # NoReason
        /\ seen.covered = old.covered /\ seen.instrumented = old.instrumented
  BY ReasonsAssumption DEF TreeOK, TreeType, KnownImgs, Image, Reasons
<1>10. NewImage \in Image
  BY DEF NewImage, Image, Statuses
<1> HIDE DEF u, i, g, old, seen
<1>11. TreeType(u)
  <2>1. u.processes \in [Known(u) -> Process]
    BY <1>5, <1>6, <1>7 DEF TreeOK, TreeType
  <2>2. ASSUME NEW j \in KnownImgs(u) PROVE u.images[j] \in Image
    BY <1>6, <1>8, <1>9, <1>10 DEF TreeOK, TreeType
  <2>3. u.images \in [KnownImgs(u) -> Image]
    BY <1>5, <2>2 DEF KnownImgs, Put
  <2> QED BY <1>4, <1>5, <1>6, <2>1, <2>3 DEF TreeOK, TreeType
<1>12. TreeFinite(u) /\ TreeCaps(u)
  <2>1. /\ IsFiniteSet(KnownImgs(u))
        /\ Cardinality(KnownImgs(u)) = Cardinality(KnownImgs(t)) + 1
    BY <1>4, <1>6, FS_AddElement DEF TreeOK, TreeFinite
  <2>2. Cardinality(KnownImgs(t)) \in Nat
    BY FS_CardinalityType DEF TreeOK, TreeFinite
  <2> QED BY <1>6, <2>1, <2>2, CapsAssumption
          DEF TreeOK, TreeFinite, TreeCaps, ImagesFull
<1>13. TreeAncestry(u)
  BY <1>5, <1>6, <1>7 DEF TreeOK, TreeAncestry
<1>14. TreeImages(u)
  <2>1. ASSUME NEW q, NEW n
        PROVE  <<q, n>> \in KnownImgs(u)
                 <=> q \in Known(u) /\ n \in 1..u.processes[q].generation
    <3>1. <<q, n>> = i <=> q = p /\ n = g + 1
      BY DEF i
    <3>2. q = p => u.processes[q].generation = g + 1
      BY <1>7
    <3>3. q # p /\ q \in Known(t) => u.processes[q].generation = t.processes[q].generation
      BY <1>7
    <3>4. g = t.processes[p].generation /\ g \in Nat
      BY <1>1 DEF g
    <3>5. CASE q = p
      <4>1. <<q, n>> \in KnownImgs(t) <=> n \in 1..g
        BY <1>2, <3>4, <3>5
      <4>2. n \in 1..(g + 1) <=> n \in 1..g \/ n = g + 1
        BY <3>4
      <4> QED BY <1>6, <3>1, <3>2, <3>5, <4>1, <4>2
    <3>6. CASE q # p
      BY <1>2, <1>6, <3>1, <3>3, <3>6
    <3> QED BY <3>5, <3>6
  <2>2. \A j \in KnownImgs(u) : j = <<j[1], j[2]>>
    BY <1>3, <1>6 DEF i
  <2>3. KnownImgs(u) = UNION {{q} \X (1..u.processes[q].generation) : q \in Known(u)}
    BY <2>1, <2>2
  <2>4. ASSUME NEW j \in KnownImgs(u), j[2] < u.processes[j[1]].generation
        PROVE  u.images[j].detach # NoReason
    <3>1. j # i
      <4>1. i[1] = p /\ i[2] = g + 1 /\ u.processes[p].generation = g + 1
        BY <1>7 DEF i
      <4>2. g \in Nat
        BY <1>1 DEF g
      <4> QED BY <2>4, <4>1, <4>2
    <3>2. j \in KnownImgs(t)
      BY <1>6, <3>1
    <3>3. CASE j = <<p, g>>
      BY <1>8, <1>9, <3>1, <3>2, <3>3
    <3>4. CASE j # <<p, g>>
      <4>1. j[2] < t.processes[j[1]].generation
        <5>1. CASE j[1] = p
          <6>1. j[2] \in Nat /\ g \in Nat /\ j[2] < g + 1 /\ j = <<p, j[2]>>
            BY <1>1, <1>3, <1>7, <2>4, <3>2, <5>1 DEF g
          <6>2. j[2] # g
            BY <3>4, <6>1
          <6> QED BY <5>1, <6>1, <6>2 DEF g
        <5>2. CASE j[1] # p
          BY <1>3, <1>7, <2>4, <3>2, <5>2
        <5> QED BY <5>1, <5>2
      <4> QED BY <1>8, <2>4, <3>1, <3>2, <3>4, <4>1 DEF TreeOK, TreeImages
    <3> QED BY <3>3, <3>4
  <2> QED BY <2>3, <2>4 DEF TreeImages
<1>15. TreeLatch(u)
  <2>1. ASSUME NEW j \in KnownImgs(u), u.images[j].covered
        PROVE  u.images[j].instrumented
    <3>1. NewImage.covered = FALSE
      BY DEF NewImage
    <3>2. j \in KnownImgs(t) /\ j # i
      BY <1>6, <1>8, <2>1, <3>1
    <3>3. CASE j = <<p, g>>
      BY <1>8, <1>9, <2>1, <3>2, <3>3 DEF TreeOK, TreeLatch, old
    <3>4. CASE j # <<p, g>>
      BY <1>8, <2>1, <3>2, <3>4 DEF TreeOK, TreeLatch
    <3> QED BY <3>3, <3>4
  <2> QED BY <1>5, <2>1 DEF TreeOK, TreeLatch
<1>16. TreeRuns(u)
  <2>1. g \in Nat
    BY <1>1 DEF g
  <2>2. u.processes[p].generation >= 1
    <3>1. u.processes[p].generation = g + 1
      BY <1>7
    <3> QED BY <2>1, <3>1
  <2>3. \A q \in Known(t) \ {p} : u.processes[q].generation = t.processes[q].generation
    BY <1>7
  <2> QED BY <1>6, <2>2, <2>3 DEF TreeOK, TreeRuns
<1> QED BY <1>11, <1>12, <1>13, <1>14, <1>15, <1>16 DEF TreeOK, u

(* admit_root on a registry without a root.                                  *)
LEMMA AdmitRootOK ==
    ASSUME NEW t, TreeOK(t), t.root = NoPid, NEW p \in Pids, NEW token \in Tokens \cup {NoToken}
    PROVE  TreeOK(AdmitRoot(t, p, token))
<1> DEFINE s == NewProcess(NoPid, 0, TRUE, token)
<1>1. Known(t) = {}
  BY DEF TreeOK, TreeAncestry
<1>2. s \in Process /\ s.root /\ s.generation = 1 /\ s.parent = NoPid /\ s.depth = 0
  BY DEF NewProcess, Process
<1> HIDE DEF s
<1>3. CASE ProcessesFull(t) \/ ImagesFull(t)
  BY <1>3, NoteOmittedOK DEF AdmitRoot, AdmitNewProcess
<1>4. CASE ~(ProcessesFull(t) \/ ImagesFull(t))
  <2>1. TreeOK(AddProcess(t, p, s))
    BY <1>1, <1>2, <1>4, AddProcessOK
  <2> QED BY <1>4, <2>1 DEF AdmitRoot, AdmitNewProcess, s
<1> QED BY <1>3, <1>4

(* admit_child for a PID seen for the first time, under a parent in scope.   *)
LEMMA AdmitFreshOK ==
    ASSUME NEW t, TreeOK(t), NEW p \in Pids \ Known(t), NEW parent \in Known(t),
           NEW token \in Tokens \cup {NoToken}
    PROVE  TreeOK(AdmitFresh(t, p, parent, token))
<1> DEFINE s == NewProcess(parent, t.processes[parent].depth + 1, FALSE, token)
<1>1. t.processes[parent] \in Process /\ parent \in Pids
  BY DEF TreeOK, TreeType, Known
<1>2. /\ s \in Process /\ ~s.root /\ s.generation = 1 /\ s.parent = parent
      /\ s.depth = t.processes[parent].depth + 1
  BY <1>1 DEF NewProcess, Process
<1>3. t.root # NoPid
  BY DEF TreeOK, TreeAncestry
<1> HIDE DEF s
<1>4. CASE ProcessesFull(t) \/ ImagesFull(t)
  BY <1>4, NoteOmittedOK DEF AdmitFresh, AdmitNewProcess
<1>5. CASE ~(ProcessesFull(t) \/ ImagesFull(t))
  <2>1. TreeOK(AddProcess(t, p, s))
    BY <1>2, <1>3, <1>5, AddProcessOK
  <2> QED BY <1>5, <2>1 DEF AdmitFresh, AdmitNewProcess, s
<1> QED BY <1>4, <1>5

(* _admit_exec does, whether it admits the image or omits it.                *)
LEMMA AdmitExecOK ==
    ASSUME NEW t, TreeOK(t), NEW p \in Known(t)
    PROVE  TreeOK(AdmitExec(t, p))
  BY NoteOmittedOK, AppendExecOK DEF AdmitExec

(* admit_child keeps the registry well formed whether it returns or raises.  *)
LEMMA AdmitChildOK ==
    ASSUME NEW t, TreeOK(t), NEW p \in Pids, NEW parent, NEW origin,
           NEW token \in Tokens \cup {NoToken}
    PROVE  TreeOK(AdmitChild(t, p, parent, origin, token))
<1> DEFINE verdict == ChildVerdict(t, p, parent, origin, token)
           learned == IF p \in Known(t) /\ ~TokenChanged(t, p, token)
                      THEN LearnToken(t, p, token) ELSE t
           refused == verdict \in {"DuplicateProcessImage", "UnknownProcessParent"}
<1>1. TreeOK(learned)
  BY LearnTokenOK
<1>2. p \in Known(t) => p \in Known(learned)
  BY DEF LearnToken, Known, TreeOK, TreeType
<1>3. AdmitChild(t, p, parent, origin, token) =
        IF refused THEN learned
        ELSE IF p \in Known(t) THEN AdmitExec(learned, p)
        ELSE AdmitFresh(t, p, parent, token)
  BY DEF AdmitChild
<1>4. CASE refused
  BY <1>1, <1>3, <1>4
<1>5. CASE ~refused /\ p \in Known(t)
  <2> HIDE DEF learned, refused
  <2>1. TreeOK(AdmitExec(learned, p))
    BY <1>1, <1>2, <1>5, AdmitExecOK
  <2> QED BY <1>3, <1>5, <2>1
<1>6. CASE ~refused /\ p \notin Known(t)
  <2>1. parent \in Known(t)
    BY <1>6 DEF ChildVerdict, FreshVerdict
  <2>2. TreeOK(AdmitFresh(t, p, parent, token))
    BY <1>6, <2>1, AdmitFreshOK
  <2> HIDE DEF learned, refused
  <2> QED BY <1>3, <1>6, <2>2
<1> QED BY <1>4, <1>5, <1>6

-----------------------------------------------------------------------------
(* Nothing withdrawn in two steps if nothing is in either.                   *)
LEMMA KeepsTransitive ==
    ASSUME NEW t, NEW u, NEW v, Keeps(t, u), Keeps(u, v)
    PROVE  Keeps(t, v)
  BY DEF Keeps

(* note_omitted_image withdraws nothing.                                     *)
LEMMA NoteOmittedKeeps ==
    ASSUME NEW t, TreeOK(t)
    PROVE  Keeps(t, NoteOmittedImage(t))
  BY DEF Keeps, NoteOmittedImage, TreeOK, TreeType, Known, KnownImgs

(* No mark on an image withdraws anything, and a coverage loss closes the    *)
(* latch.                                                                    *)
LEMMA MarksKeep ==
    ASSUME NEW t, TreeOK(t), NEW i \in KnownImgs(t), NEW x
    PROVE  /\ Keeps(t, MarkInstrumented(t, i))
           /\ Keeps(t, MarkStatus(t, i, x))
           /\ Keeps(t, MarkDetached(t, i, x))
           /\ Keeps(t, MarkCoverageLoss(t, i, x))
           /\ ~MarkCoverageLoss(t, i, x).complete
  BY DEF Keeps, MarkInstrumented, MarkStatus, MarkDetached, MarkCoverageLoss,
         TreeOK, TreeType, Known, KnownImgs

(* No mark on a process withdraws anything.                                  *)
LEMMA ProcessMarksKeep ==
    ASSUME NEW t, TreeOK(t), NEW p \in Known(t), NEW token
    PROVE  /\ Keeps(t, LearnToken(t, p, token))
           /\ Keeps(t, MarkActiveAtRootExit(t, p))
<1>1. DOMAIN t = {"root", "processes", "images", "complete", "omitted"}
      /\ t.processes \in [Known(t) -> Process]
  BY DEF TreeOK, TreeType
<1>2. Keeps(t, LearnToken(t, p, token))
  <2> DEFINE s == [t.processes[p] EXCEPT !.token =
                       IF t.processes[p].token = NoToken THEN token ELSE t.processes[p].token]
             u == LearnToken(t, p, token)
  <2>1. /\ u.processes = [t.processes EXCEPT ![p] = s]
        /\ u.images = t.images /\ u.complete = t.complete
    BY <1>1 DEF LearnToken
  <2>2. /\ s.parent = t.processes[p].parent /\ s.depth = t.processes[p].depth
        /\ s.active = t.processes[p].active
        /\ t.processes[p].token # NoToken => s.token = t.processes[p].token
    BY <1>1 DEF Process
  <2> HIDE DEF s, u
  <2> QED BY <1>1, <2>1, <2>2 DEF Keeps, Known, KnownImgs, u
<1>3. Keeps(t, MarkActiveAtRootExit(t, p))
  <2> DEFINE s == [t.processes[p] EXCEPT !.active = TRUE]
             u == MarkActiveAtRootExit(t, p)
  <2>1. /\ u.processes = [t.processes EXCEPT ![p] = s]
        /\ u.images = t.images /\ u.complete = t.complete
    BY <1>1 DEF MarkActiveAtRootExit
  <2>2. /\ s.parent = t.processes[p].parent /\ s.depth = t.processes[p].depth
        /\ s.active /\ s.token = t.processes[p].token
    BY <1>1 DEF Process
  <2> HIDE DEF s, u
  <2> QED BY <1>1, <2>1, <2>2 DEF Keeps, Known, KnownImgs, u
<1> QED BY <1>2, <1>3

(* Adding a process leaves the others alone.                                 *)
LEMMA AddProcessKeeps ==
    ASSUME NEW t, TreeOK(t), NEW p \in Pids \ Known(t), NEW s
    PROVE  Keeps(t, AddProcess(t, p, s))
<1> DEFINE u == AddProcess(t, p, s)
<1>1. /\ u.processes = Put(t.processes, p, s) /\ u.complete = t.complete
      /\ u.images = Put(t.images, <<p, 1>>, NewImage)
  BY DEF AddProcess, TreeOK, TreeType
<1> HIDE DEF u
<1>2. /\ Known(t) \subseteq Known(u) /\ KnownImgs(t) \subseteq KnownImgs(u)
      /\ \A q \in Known(t) : u.processes[q] = t.processes[q]
  BY <1>1 DEF Known, KnownImgs, Put
<1> QED BY <1>1, <1>2 DEF Keeps, u

(* Adding an exec image leaves ancestry and the other images alone.          *)
LEMMA AppendExecKeeps ==
    ASSUME NEW t, TreeOK(t), NEW p \in Known(t)
    PROVE  Keeps(t, AppendExecImage(t, p))
<1> DEFINE u == AppendExecImage(t, p)
           s == [t.processes[p] EXCEPT !.generation = t.processes[p].generation + 1]
<1>1. /\ u.processes = [t.processes EXCEPT ![p] = s] /\ u.complete = t.complete
      /\ KnownImgs(t) \subseteq DOMAIN u.images
  BY DEF AppendExecImage, TreeOK, TreeType, Put, KnownImgs
<1>2. /\ s.parent = t.processes[p].parent /\ s.depth = t.processes[p].depth
      /\ s.active = t.processes[p].active /\ s.token = t.processes[p].token
  BY DEF TreeOK, TreeType, Known, Process
<1> HIDE DEF u, s
<1> QED BY <1>1, <1>2 DEF Keeps, Known, KnownImgs, u

(* So does admitting a process, or refusing it at a cap.                     *)
LEMMA AdmitNewProcessKeeps ==
    ASSUME NEW t, TreeOK(t), NEW p \in Pids \ Known(t), NEW s
    PROVE  Keeps(t, AdmitNewProcess(t, p, s))
  BY NoteOmittedKeeps, AddProcessKeeps DEF AdmitNewProcess

(* So does admit_child, whether it returns or raises.                        *)
LEMMA AdmitChildKeeps ==
    ASSUME NEW t, TreeOK(t), NEW p \in Pids, NEW parent, NEW origin,
           NEW token \in Tokens \cup {NoToken}
    PROVE  Keeps(t, AdmitChild(t, p, parent, origin, token))
<1> DEFINE verdict == ChildVerdict(t, p, parent, origin, token)
           learned == IF p \in Known(t) /\ ~TokenChanged(t, p, token)
                      THEN LearnToken(t, p, token) ELSE t
           refused == verdict \in {"DuplicateProcessImage", "UnknownProcessParent"}
<1>1. TreeOK(learned) /\ Keeps(t, learned)
  <2>1. Keeps(t, t)
    BY DEF Keeps
  <2> QED BY <2>1, LearnTokenOK, ProcessMarksKeep
<1>2. p \in Known(t) => p \in Known(learned)
  BY <1>1 DEF Keeps
<1>3. AdmitChild(t, p, parent, origin, token) =
        IF refused THEN learned
        ELSE IF p \in Known(t) THEN AdmitExec(learned, p)
        ELSE AdmitFresh(t, p, parent, token)
  BY DEF AdmitChild
<1> HIDE DEF learned, refused
<1>4. p \in Known(t) => Keeps(learned, AdmitExec(learned, p))
  BY <1>1, <1>2, NoteOmittedKeeps, AppendExecKeeps DEF AdmitExec
<1>5. p \notin Known(t) => Keeps(t, AdmitFresh(t, p, parent, token))
  BY AdmitNewProcessKeeps DEF AdmitFresh
<1> QED BY <1>1, <1>3, <1>4, <1>5, KeepsTransitive

-----------------------------------------------------------------------------
(* u knows the processes and images t does, each process in the same image.   *)
Steady(t, u) ==
    /\ Known(u) = Known(t) /\ KnownImgs(u) = KnownImgs(t) /\ u.root = t.root
    /\ \A p \in Known(t) : /\ u.processes[p].generation = t.processes[p].generation
                           /\ u.processes[p].root = t.processes[p].root
                           /\ t.processes[p].active => u.processes[p].active

(* u is t with one new image, of p; no other image gains or loses coverage.   *)
Entered(t, u, p) ==
    /\ Known(u) = Known(t) \cup {p}
    /\ KnownImgs(u) = KnownImgs(t) \cup {Current(u, p)} /\ Current(u, p) \notin KnownImgs(t)
    /\ ~u.images[Current(u, p)].covered
    /\ \A i \in KnownImgs(t) : u.images[i].covered = t.images[i].covered
    /\ \A q \in Known(t) \ {p} : u.processes[q] = t.processes[q]
    /\ p \in Known(t) => /\ u.processes[p].generation = t.processes[p].generation + 1
                         /\ u.processes[p].root = t.processes[p].root
    /\ u.complete = t.complete

LEMMA SteadyTransitive ==
    ASSUME NEW t, NEW u, NEW v, Steady(t, u), Steady(u, v)
    PROVE  Steady(t, v)
  BY DEF Steady

(* An omission, and every mark, leaves the registry steady.                  *)
LEMMA MarksSteady ==
    ASSUME NEW t, TreeOK(t), NEW i \in KnownImgs(t), NEW x
    PROVE  /\ Steady(t, MarkInstrumented(t, i)) /\ Steady(t, MarkStatus(t, i, x))
           /\ Steady(t, MarkDetached(t, i, x)) /\ Steady(t, MarkCoverageLoss(t, i, x))
  BY DEF Steady, MarkInstrumented, MarkStatus, MarkDetached, MarkCoverageLoss,
         TreeOK, TreeType, Known, KnownImgs

LEMMA NoteOmittedSteady ==
    ASSUME NEW t, TreeOK(t)
    PROVE  /\ Steady(t, NoteOmittedImage(t)) /\ NoteOmittedImage(t).images = t.images
           /\ ~NoteOmittedImage(t).complete
  BY DEF Steady, NoteOmittedImage, TreeOK, TreeType, Known, KnownImgs

LEMMA LearnTokenSteady ==
    ASSUME NEW t, TreeOK(t), NEW p \in Known(t), NEW token
    PROVE  LET u == LearnToken(t, p, token) IN
           /\ Steady(t, u) /\ u.images = t.images /\ u.complete = t.complete
           /\ \A q \in Known(t) \ {p} : u.processes[q] = t.processes[q]
<1> DEFINE s == [t.processes[p] EXCEPT !.token =
                     IF t.processes[p].token = NoToken THEN token ELSE t.processes[p].token]
           u == LearnToken(t, p, token)
<1>1. /\ u.processes = [t.processes EXCEPT ![p] = s]
      /\ u.images = t.images /\ u.complete = t.complete /\ u.root = t.root
  BY DEF LearnToken, TreeOK, TreeType
<1>2. /\ s.generation = t.processes[p].generation /\ s.root = t.processes[p].root
      /\ s.active = t.processes[p].active
  BY DEF TreeOK, TreeType, Process
<1>3. t.processes \in [Known(t) -> Process]
  BY DEF TreeOK, TreeType
<1> HIDE DEF s, u
<1>4. \A q \in Known(t) : u.processes[q] = IF q = p THEN s ELSE t.processes[q]
  BY <1>1, <1>3 DEF Known
<1> QED BY <1>1, <1>2, <1>4 DEF Steady, Known, KnownImgs, u

(* A process is added.                                                       *)
LEMMA AddProcessEnters ==
    ASSUME NEW t, TreeOK(t), NEW p \in Pids \ Known(t), NEW s \in Process, s.generation = 1
    PROVE  LET u == AddProcess(t, p, s) IN
           /\ Entered(t, u, p) /\ u.processes[p] = s
           /\ u.root = IF s.root THEN p ELSE t.root
<1> DEFINE u == AddProcess(t, p, s)
<1>1. /\ u.root = IF s.root THEN p ELSE t.root
      /\ u.processes = Put(t.processes, p, s)
      /\ u.images = Put(t.images, <<p, 1>>, NewImage)
      /\ u.complete = t.complete
  BY DEF TreeOK, TreeType, AddProcess
<1> HIDE DEF u
<1>2. Known(u) = Known(t) \cup {p} /\ KnownImgs(u) = KnownImgs(t) \cup {<<p, 1>>}
  BY <1>1 DEF Known, KnownImgs, Put
<1>3. u.processes[p] = s /\ \A q \in Known(t) : u.processes[q] = t.processes[q]
  BY <1>1 DEF Known, Put
<1>4. Current(u, p) = <<p, 1>>
  BY <1>3 DEF Current
<1>5. <<p, 1>> \notin KnownImgs(t)
  <2>1. \A j \in KnownImgs(t) : j[1] \in Known(t)
    BY DEF TreeOK, TreeImages
  <2> QED BY <2>1
<1>6. /\ ~u.images[<<p, 1>>].covered
      /\ \A i \in KnownImgs(t) : u.images[i] = t.images[i]
  BY <1>1, <1>5 DEF KnownImgs, Put, NewImage
<1> QED BY <1>1, <1>2, <1>3, <1>4, <1>5, <1>6 DEF Entered, u

(* An exec image is appended.                                                *)
LEMMA AppendExecEnters ==
    ASSUME NEW t, TreeOK(t), NEW p \in Known(t)
    PROVE  LET u == AppendExecImage(t, p) IN
           /\ Entered(t, u, p) /\ u.root = t.root
           /\ t.processes[p].active => u.processes[p].active
<1> DEFINE g == t.processes[p].generation
           s == [t.processes[p] EXCEPT !.generation = g + 1]
           old  == t.images[<<p, g>>]
           seen == [old EXCEPT !.detach = IF old.detach = NoReason THEN "process-replaced"
                                          ELSE old.detach]
           is   == [t.images EXCEPT ![<<p, g>>] = seen]
           i == <<p, g + 1>>
           u == AppendExecImage(t, p)
<1>0. /\ g \in Nat /\ t.processes \in [Known(t) -> Process]
      /\ t.images \in [KnownImgs(t) -> Image]
  BY DEF TreeOK, TreeType, Process
<1>1. u.processes = [t.processes EXCEPT ![p] = s] /\ u.complete = t.complete /\ u.root = t.root
  BY DEF AppendExecImage, TreeOK, TreeType
<1>2. u.images = Put(is, i, NewImage)
  BY DEF AppendExecImage, TreeOK, TreeType
<1>3. /\ s.generation = g + 1 /\ s.root = t.processes[p].root
      /\ s.active = t.processes[p].active
  BY <1>0 DEF Process
<1>4. DOMAIN is = KnownImgs(t) /\ \A j \in KnownImgs(t) : is[j].covered = t.images[j].covered
  BY <1>0 DEF Image
<1> HIDE DEF is, s, u
<1>5. Known(u) = Known(t) /\ KnownImgs(u) = KnownImgs(t) \cup {i}
  BY <1>1, <1>2, <1>4 DEF Known, KnownImgs, Put
<1>6. u.processes[p] = s /\ \A q \in Known(t) \ {p} : u.processes[q] = t.processes[q]
  BY <1>0, <1>1
<1>7. Current(u, p) = i
  BY <1>3, <1>6 DEF Current
<1>8. i \notin KnownImgs(t)
  <2>1. \A n : <<p, n>> \in KnownImgs(t) => n \in 1 .. g
    BY DEF TreeOK, TreeImages
  <2> HIDE DEF g
  <2> QED BY <1>0, <2>1
<1>9. ~u.images[i].covered /\ \A j \in KnownImgs(t) : u.images[j] = is[j]
  BY <1>2, <1>4, <1>8 DEF Put, NewImage
<1> QED BY <1>1, <1>3, <1>4, <1>5, <1>6, <1>7, <1>8, <1>9 DEF Entered, u

(* admit_child adds the child's image when it admits it, and no other way.    *)
LEMMA AdmitChildAdds ==
    ASSUME NEW t, TreeOK(t), NEW p \in Pids, NEW parent, NEW origin,
           NEW token \in Tokens \cup {NoToken}
    PROVE  LET verdict == ChildVerdict(t, p, parent, origin, token)
               u == AdmitChild(t, p, parent, origin, token)
           IN  /\ verdict = "admitted" => /\ Entered(t, u, p) /\ u.root = t.root
                                          /\ p \notin Known(t) => ~u.processes[p].root
               /\ verdict # "admitted" =>
                     /\ Steady(t, u)
                     /\ \A i \in KnownImgs(t) : u.images[i].covered = t.images[i].covered
               /\ verdict = "ProcessTreeLimitExceeded" => ~u.complete
               /\ verdict \in {"admitted", "UnknownProcessParent", "DuplicateProcessImage"}
                     => u.complete = t.complete
<1> DEFINE verdict == ChildVerdict(t, p, parent, origin, token)
           learned == IF p \in Known(t) /\ ~TokenChanged(t, p, token)
                      THEN LearnToken(t, p, token) ELSE t
           u == AdmitChild(t, p, parent, origin, token)
           refused == verdict \in {"DuplicateProcessImage", "UnknownProcessParent"}
<1>1. /\ TreeOK(learned) /\ Steady(t, learned)
      /\ learned.images = t.images /\ learned.complete = t.complete
      /\ \A q \in Known(t) \ {p} : learned.processes[q] = t.processes[q]
  <2>1. Steady(t, t)
    BY DEF Steady
  <2> QED BY <2>1, LearnTokenOK, LearnTokenSteady
<1>2. u = IF refused THEN learned
          ELSE IF p \in Known(t) THEN AdmitExec(learned, p)
          ELSE AdmitFresh(t, p, parent, token)
  BY DEF AdmitChild
<1>3. verdict \in {"DuplicateProcessImage", "UnknownProcessParent", "ProcessTreeLimitExceeded",
                   "admitted"}
  BY DEF ChildVerdict, KnownVerdict, FreshVerdict
<1>4. ~refused /\ p \in Known(t) => (verdict = "admitted") = ~ImagesFull(t)
  BY DEF ChildVerdict, KnownVerdict
<1>5. ~refused /\ p \notin Known(t) => /\ (verdict = "admitted") = ~(ProcessesFull(t) \/ ImagesFull(t))
                                     /\ parent \in Known(t)
  BY DEF ChildVerdict, FreshVerdict
<1>6. ImagesFull(learned) = ImagesFull(t)
  BY <1>1 DEF ImagesFull, KnownImgs
<1> HIDE DEF u, learned, verdict
<1>7. CASE refused
  BY <1>1, <1>2, <1>7 DEF u, verdict
<1>8. CASE ~refused /\ p \in Known(t)
  <2>0. p \in Known(learned)
    BY <1>1, <1>8 DEF Steady
  <2>1. CASE ImagesFull(t)
    <3>1. u = NoteOmittedImage(learned) /\ verdict = "ProcessTreeLimitExceeded"
      BY <1>2, <1>3, <1>4, <1>6, <1>8, <2>1 DEF AdmitExec
    <3>2. Steady(t, u) /\ u.images = t.images /\ ~u.complete
      BY <1>1, <3>1, NoteOmittedSteady, SteadyTransitive
    <3> QED BY <3>1, <3>2 DEF u, verdict
  <2>2. CASE ~ImagesFull(t)
    <3>1. u = AppendExecImage(learned, p) /\ verdict = "admitted"
      BY <1>2, <1>3, <1>4, <1>6, <1>8, <2>2 DEF AdmitExec
    <3>2. Entered(learned, u, p) /\ u.root = learned.root
      BY <1>1, <2>0, <3>1, AppendExecEnters
    <3>3. Entered(t, u, p) /\ u.root = t.root
      BY <1>1, <1>8, <3>2 DEF Entered, Steady
    <3>4. u.complete = t.complete
      BY <3>3 DEF Entered
    <3> QED BY <1>8, <3>1, <3>3, <3>4 DEF u, verdict
  <2> QED BY <2>1, <2>2
<1>9. CASE ~refused /\ p \notin Known(t)
  <2> DEFINE s == NewProcess(parent, t.processes[parent].depth + 1, FALSE, token)
  <2>1. CASE ProcessesFull(t) \/ ImagesFull(t)
    <3>1. u = NoteOmittedImage(t) /\ verdict = "ProcessTreeLimitExceeded"
      BY <1>2, <1>3, <1>5, <1>9, <2>1 DEF AdmitFresh, AdmitNewProcess
    <3> QED BY <3>1, NoteOmittedSteady DEF u, verdict
  <2>2. CASE ~(ProcessesFull(t) \/ ImagesFull(t))
    <3>1. u = AddProcess(t, p, s) /\ verdict = "admitted"
      BY <1>2, <1>3, <1>5, <1>9, <2>2 DEF AdmitFresh, AdmitNewProcess
    <3>2. s \in Process /\ s.generation = 1 /\ ~s.root
      <4>1. t.processes[parent] \in Process /\ parent \in Pids
        BY <1>5, <1>9 DEF TreeOK, TreeType
      <4>2. t.processes[parent].depth + 1 \in Nat
        BY <4>1 DEF Process
      <4> QED BY <4>1, <4>2 DEF NewProcess, Process
    <3> HIDE DEF s
    <3>3. Entered(t, u, p) /\ u.processes[p] = s /\ u.root = t.root
      BY <1>9, <3>1, <3>2, AddProcessEnters
    <3>4. u.complete = t.complete
      BY <3>3 DEF Entered
    <3> QED BY <3>1, <3>2, <3>3, <3>4 DEF u, verdict
  <2> QED BY <2>1, <2>2
<1> QED BY <1>7, <1>8, <1>9

(* admit_root on a registry without a root admits it: the caps are positive. *)
LEMMA AdmitRootAdds ==
    ASSUME NEW t, TreeOK(t), t.root = NoPid, NEW p \in Pids, NEW token \in Tokens \cup {NoToken}
    PROVE  LET u == AdmitRoot(t, p, token) IN
           /\ Known(t) = {} /\ Entered(t, u, p) /\ u.root = p /\ u.processes[p].root
           /\ u.processes[p].generation = 1
<1> DEFINE s == NewProcess(NoPid, 0, TRUE, token)
           u == AdmitRoot(t, p, token)
<1>1. Known(t) = {} /\ KnownImgs(t) = {}
  BY DEF TreeOK, TreeAncestry, TreeImages
<1>2. ~ProcessesFull(t) /\ ~ImagesFull(t)
  BY <1>1, FS_EmptySet, CapsAssumption DEF ProcessesFull, ImagesFull
<1>3. s \in Process /\ s.generation = 1 /\ s.root
  BY DEF NewProcess, Process
<1>4. u = AddProcess(t, p, s)
  BY <1>2 DEF AdmitRoot, AdmitNewProcess
<1> HIDE DEF s, u
<1>5. Entered(t, u, p) /\ u.processes[p] = s /\ u.root = p
  BY <1>1, <1>3, <1>4, AddProcessEnters
<1> QED BY <1>1, <1>3, <1>5 DEF u
=============================================================================
