--------------------------- MODULE ShutdownProofs ---------------------------
(***************************************************************************)
(* Proofs about the end of a run: nobody the run answers for is left behind  *)
(* unnamed, the status is the target's, and one Ctrl-C in a healthy run is   *)
(* no failure, for any number of descendants, any depths and any situations. *)
(***************************************************************************)
EXTENDS Shutdown, TLAPS

-----------------------------------------------------------------------------
(* The inductive invariant *)

\* Who is where: a process has a fate once it died, the launcher has reaped the target
\* before it connects, and the connection holds a record from then until it is read.
Reaped   == at \in {"reaped", "connected", "sent", "left"}
Reported == at \in {"sent", "left"}
Received == ctl.received

FatesOK ==
    /\ \A p \in Procs : os[p].fate = None <=> os[p].state \in {"none", "running"}
    /\ os[Launcher].state # "none"
    /\ os[Launcher].fate = <<"exit", 0>> <=> at = "left"

LauncherOK ==
    /\ at = "start" => ~Admitted /\ Target \notin setting.known /\ os[Target].state = "none"
    /\ Admitted /\ ~Reaped => os[Target].state # "none"
    /\ Admitted /\ ~Reaped /\ Running(Launcher) => os[Target].state # "gone"
    /\ Admitted /\ Reaped => os[Target].state = "gone"

SocketOK ==
    /\ socket = "open" => at = "connected"
    /\ socket = "written" => Reported
    /\ socket = "closed" => at = "connected" \/ Reported
    /\ at = "connected" => socket \in {"open", "closed"}
    /\ Admitted /\ Reported => socket \in {"written", "closed"} \/ Received
    /\ Received => Admitted /\ Reported /\ socket = "none"
    /\ pc = "read" => socket \in {"open", "written"}

WorldOK == FatesOK /\ LauncherOK /\ SocketOK

\* Where the main thread can be in each pass.
Verifying == {"launcher", "launcher killed", "each"}
PhaseOK ==
    /\ setting.start = "running" => Target \in setting.known
    /\ ctl.todo \subseteq setting.known
    /\ pc \in {"accept", "read", "drain", "target"} => Admitted
    /\ pc \in {"accept", "read"} => ~Received
    /\ pc \in {"accept", "read"} => (ctl.pass = 0 <=> ctl.round = "run")
    /\ pc \in {"starting", "drain", "target"} => ctl.pass = 0
    /\ pc \in {"signal", "wait", "kill"} => ctl.pass \in {1, 2}
    /\ ctl.pass = 0 /\ Admitted /\ pc \in {"drain", "target", "end"} \cup Verifying => Received
    /\ ctl.pass = 0 /\ pc = "each" => ctl.todo = {}
    /\ ctl.pass = 3 => pc = "end" /\ ctl.raised

\* A cleanup that verifies has received the record or says that it has not; whom it looked
\* at is gone or among its errors; a launcher that was killed dies of it.
VerifiedOK ==
    /\ Admitted /\ ctl.pass \in {1, 2} /\ pc \in Verifying => Received \/ "no report" \in ctl.errors
    /\ pc = "launcher killed" /\ Running(Launcher) => "KILL" \in os[Launcher].signals
    /\ pc = "each" /\ Alive(Launcher) => setting.slow /\ Launcher \in ctl.errors
    /\ ctl.pass \in {1, 2} /\ pc = "each" =>
           \A p \in setting.known \ ctl.todo : Alive(p) => p \in ctl.errors
    /\ NobodyLeftUnreported

\* The status found and the one reported are the target's.
StatusOK ==
    /\ ctl.found # None => Reaped /\ Admitted /\ ctl.found = os[Target].fate
    /\ Admitted /\ ctl.result # None => Reaped /\ ctl.result = os[Target].fate
    /\ Received => ctl.result # None \/ ctl.raised \/ (ctl.pass > 0 /\ pc # "end" /\ ctl.found # None)

\* Without early timeouts the second pass begins with the launcher gone, and receives what
\* the launcher wrote.
SecondPassOK ==
    /\ Admitted /\ pc = "end" => Received \/ ctl.raised \/ ctl.pass = 2
    /\ Admitted /\ ctl.pass = 2 /\ ~setting.slow /\ ~ctl.raised =>
           /\ ~Running(Launcher)
           /\ pc \in Verifying \cup {"end"} => Received \/ at # "left" \/ socket = "closed"

\* A run that nothing went wrong with has no errors, and whoever is still alive when its
\* cleanup waits for the last time has been sent SIGKILL.
Undisturbed ==
    /\ Admitted /\ ~setting.slow /\ setting.stuck = {} /\ setting.denied = {} /\ ~ctl.raised
    /\ os[Launcher].fate \in {None, <<"exit", 0>>} /\ socket # "closed" /\ "run" \notin ctl.failures
Doomed(p) == Running(p) => "KILL" \in os[p].signals
CleanOK ==
    Undisturbed =>
        /\ ctl.failures = {} /\ ctl.errors = {}
        /\ pc = "kill" => \A p \in setting.known \ ctl.todo : Doomed(p)
        /\ (ctl.pass > 0 /\ (pc \in Verifying \/ (pc \in {"accept", "read"} /\ ctl.round = "second")))
               => \A p \in setting.known : Doomed(p)

Inv == TypeOK /\ WorldOK /\ PhaseOK /\ VerifiedOK /\ StatusOK /\ SecondPassOK /\ CleanOK

LEMMA Limits == 0 \in 0..3 /\ \A n \in Nat : n \in 0..n
  OBVIOUS

LEMMA InitOK == Init => Inv
<1> SUFFICES ASSUME Init PROVE Inv
  OBVIOUS
<1> USE DEF Init
<1>0. /\ setting.start \in {"starting", "running", "launch failed"} /\ setting.interrupts \in Nat
      /\ setting.known \subseteq Application /\ (Admitted => Target \in setting.known)
  BY SettingsAssumption DEF Admitted, Setting
<1>a. /\ ctl.pass = 0 /\ ctl.todo = {} /\ ctl.found = None /\ ~ctl.received /\ ctl.errors = {}
      /\ ctl.failures = {} /\ ~ctl.raised /\ (Admitted => ctl.result = None) /\ ctl.round = "run"
  BY DEF Admitted
<1>b. /\ Admitted <=> pc = "accept"
      /\ pc \in {"starting", "accept", "launcher"} /\ socket = "none"
      /\ at \in {"start", "spawned", "sent"} /\ (Admitted => at = "spawned")
      /\ at = "start" => Target \notin setting.known /\ ~Admitted
  BY <1>0 DEF Admitted, Spawned
<1>c. ASSUME NEW p \in Procs
      PROVE  /\ os[p].state = (IF p # Target \/ Spawned THEN "running" ELSE "none")
             /\ os[p].fate = None /\ os[p].signals = {}
  OBVIOUS
<1>d. os \in [Procs -> Process]
  BY DEF Fates, Process
<1>e. ctl \in Control
  <2> DEFINE status == IF setting.start = "launch failed" THEN <<"exit", 127>> ELSE None
  <2>1. status \in Fates /\ None \in Fates
    <3> HIDE DEF Init
    <3> QED BY DEF Fates, Deaths
  <2>2. setting.interrupts \in 0..setting.interrupts /\ 0 \in 0..3
    <3> HIDE DEF Init
    <3> QED BY <1>0, Limits
  <2>3. ctl = [round |-> "run", pass |-> 0, signal |-> "TERM", todo |-> {}, found |-> None,
              result |-> status, received |-> FALSE, errors |-> {}, failures |-> {},
              interrupts |-> setting.interrupts, raised |-> FALSE]
    OBVIOUS
  <2> HIDE DEF Init, status
  <2> QED BY <2>1, <2>2, <2>3 DEF Control
<1>f. setting \in Settings
  OBVIOUS
<1> HIDE DEF Init
<1>1. TypeOK
  BY <1>b, <1>d, <1>e, <1>f DEF TypeOK
<1>2. WorldOK
  <2>1. Target \in Procs /\ Launcher \in Procs /\ Launcher # Target
    BY ProcsAssumption DEF Procs, Application
  <2>2. FatesOK
    BY <1>b, <1>c, <2>1, NoneAssumption DEF FatesOK, Deaths
  <2>3. at = "start" => ~Spawned
    BY <1>b DEF Spawned
  <2>4. LauncherOK
    BY <1>b, <1>c, <2>1, <2>3 DEF LauncherOK, Reaped, Spawned
  <2>5. SocketOK
    BY <1>a, <1>b DEF SocketOK, Reaped, Reported, Received
  <2> QED BY <2>2, <2>4, <2>5 DEF WorldOK
<1>3. PhaseOK
  <2>1. setting.start = "running" => Target \in setting.known
    BY <1>0 DEF Admitted
  <2>2. pc = "accept" => ctl.pass = 0 /\ ctl.round = "run"
    BY <1>a
  <2>3. ctl.todo \subseteq setting.known
    BY <1>a
  <2>4. pc = "launcher" => ~Admitted
    BY <1>b
  <2>5. pc \in {"accept", "read"} => ~Received
    BY <1>a DEF Received
  <2>6. pc \notin {"read", "drain", "target", "signal", "wait", "kill", "end", "each"}
    BY <1>b
  <2>7. ctl.pass # 3
    BY <1>a
  <2> QED BY <1>a, <1>b, <2>1, <2>2, <2>3, <2>4, <2>5, <2>6, <2>7 DEF PhaseOK, Verifying
<1>4. VerifiedOK
  BY <1>a, <1>b DEF VerifiedOK, NobodyLeftUnreported, Received, Verifying
<1>6. StatusOK
  BY <1>a, <1>b DEF StatusOK, Received
<1>7. SecondPassOK
  BY <1>a, <1>b DEF SecondPassOK
<1>5. CleanOK
  BY <1>a, <1>b DEF CleanOK
<1> QED BY <1>1, <1>2, <1>3, <1>4, <1>5, <1>6, <1>7 DEF Inv

-----------------------------------------------------------------------------
(* The system's steps *)

\* What a step of the controller leaves of the processes: at most more signals on their way.
MoreSignals ==
    /\ os' \in [Procs -> Process]
    /\ \A p \in Procs : /\ os'[p].state = os[p].state /\ os'[p].fate = os[p].fate
                        /\ os[p].signals \subseteq os'[p].signals

(* Sending a signal changes nobody's fate, and reaches whoever runs.          *)
LEMMA Sending ==
    ASSUME TypeOK, NEW p \in Procs, NEW s \in Signals, os' = Sent(p, s)
    PROVE  MoreSignals /\ (Running(p) => s \in os'[p].signals)
  BY DEF TypeOK, MoreSignals, Sent, Running, Process

\* What a step of the application, the operating system or the launcher does: a process that
\* has died stays dead with its fate, one that runs keeps a SIGKILL until it dies.
ProcessesAge ==
    /\ os' \in [Procs -> Process]
    /\ \A p \in Procs :
          /\ os'[p].fate = None <=> os'[p].state \in {"none", "running"}
          /\ os[p].fate # None => os'[p].fate = os[p].fate
          /\ os[p].state = "gone" => os'[p].state = "gone"
          /\ os'[p].state = "none" => os[p].state = "none"
          /\ os[p].state = "none" /\ os'[p].state # "none" => p = Target /\ at = "start" /\ at' = "spawned"
          /\ Running(p) /\ os'[p].state = "running" /\ "KILL" \in os[p].signals => "KILL" \in os'[p].signals
          /\ os'[p].state = "gone" => os[p].state \in {"zombie", "gone"}

(* A process dies, or is waited for, once.                                    *)
LEMMA Dying ==
    ASSUME TypeOK, FatesOK, NEW p \in Procs
    PROVE  /\ \A fate \in Deaths : Running(p) /\ os' = Dead(os, p, fate) => ProcessesAge
           /\ os[p].state = "zombie" /\ os' = Gone(os, p) => ProcessesAge
<1>0. os \in [Procs -> Process]
  BY DEF TypeOK
<1>1. ASSUME NEW fate \in Deaths, Running(p), os' = Dead(os, p, fate) PROVE ProcessesAge
  <2>1. fate \in Fates /\ fate # None
    BY NoneAssumption DEF Fates
  <2>2. \A q \in Procs \ {p} : os'[q] = os[q]
    BY <1>0, <1>1 DEF Dead, Process
  <2>3. os'[p].state = "zombie" /\ os'[p].fate = fate /\ os'[p].signals = {}
    BY <1>0, <1>1 DEF Dead, Process
  <2>4. os' \in [Procs -> Process]
    BY <1>0, <1>1, <2>1 DEF Dead, Process
  <2> QED BY <1>1, <2>1, <2>2, <2>3, <2>4 DEF ProcessesAge, FatesOK, Running
<1>2. ASSUME os[p].state = "zombie", os' = Gone(os, p) PROVE ProcessesAge
  <2>2. \A q \in Procs \ {p} : os'[q] = os[q]
    BY <1>0, <1>2 DEF Gone, Process
  <2>3. os'[p].state = "gone" /\ os'[p].fate = os[p].fate
    BY <1>0, <1>2 DEF Gone, Process
  <2>4. os' \in [Procs -> Process]
    BY <1>0, <1>2 DEF Gone, Process
  <2> QED BY <1>2, <2>2, <2>3, <2>4 DEF ProcessesAge, FatesOK, Running
<1> QED BY <1>1, <1>2

\* The system ends the launcher by a signal only, and waits for its child only when it is gone.
Outside == /\ os'[Launcher].fate \in {os[Launcher].fate, <<"signal", "KILL">>}
           /\ os'[Target].state = "gone" => os[Target].state = "gone" \/ ~Running(Launcher)

LEMMA SystemAges ==
    ASSUME TypeOK, FatesOK, System
    PROVE  ProcessesAge /\ Outside
<1>0. os \in [Procs -> Process]
  BY DEF TypeOK
<1>1. /\ Launcher \in Procs \ Application /\ Application \subseteq Procs
      /\ Target \in Application /\ <<"exit", 0>> \in Deaths
      /\ \A s \in Signals : <<"signal", s>> \in Deaths
      /\ "KILL" \in Signals
  BY ProcsAssumption DEF Procs, Application, Deaths, Signals
<1>2. ASSUME NEW p \in Procs, NEW fate \in Deaths, Running(p), os' = Dead(os, p, fate),
             p # Launcher \/ fate = <<"signal", "KILL">>
      PROVE  ProcessesAge /\ Outside
  BY <1>0, <1>1, <1>2, Dying DEF Dead, Outside, Process
<1>3. CASE Harm
  BY <1>1, <1>2, <1>3 DEF Harm
<1>4. ASSUME NEW p \in Procs, Exits(p) \/ Kills(p)
      PROVE  ProcessesAge /\ Outside
  BY <1>1, <1>2, <1>4 DEF Exits, Kills
<1>5. ASSUME NEW p \in Procs, Waits(p)
      PROVE  ProcessesAge /\ Outside
  BY <1>0, <1>1, <1>5, Dying DEF Waits, Gone, Outside, Orphan, Process
<1>6. ASSUME NEW p \in Procs, NEW s \in Signals, Reacts(p, s)
      PROVE  ProcessesAge /\ Outside
  <2>1. CASE os' = Dead(os, p, <<"signal", s>>)
    BY <1>1, <1>2, <1>6, <2>1 DEF Reacts
  <2>2. CASE os' = [os EXCEPT ![p].signals = @ \ {s}]
    <3>1. s # "KILL"
      BY <1>6 DEF Reacts
    <3>2. /\ os' \in [Procs -> Process]
          /\ \A q \in Procs : /\ os'[q].state = os[q].state /\ os'[q].fate = os[q].fate
                              /\ "KILL" \in os[q].signals => "KILL" \in os'[q].signals
      BY <1>0, <2>2, <3>1 DEF Process
    <3> QED BY <1>1, <3>2 DEF ProcessesAge, FatesOK, Running, Outside
  <2> QED BY <1>6, <2>1, <2>2 DEF Reacts
<1> QED BY <1>3, <1>4, <1>5, <1>6 DEF System

(* What does not move the main thread, and harms no process twice, keeps what *)
(* its place says of them: the parts of the invariant about phases, the       *)
(* verification, the status, the second pass and the undisturbed run.         *)
LEMMA AgesKeep ==
    ASSUME Inv, ProcessesAge, UNCHANGED <<setting, pc, ctl>>,
           at' = "left" => at = "left" \/ Running(Launcher),
           socket = "closed" => socket' = "closed",
           Reaped => Reaped'
    PROVE  PhaseOK' /\ VerifiedOK' /\ StatusOK' /\ SecondPassOK' /\ CleanOK'
<1>0. /\ Launcher \in Procs /\ Target \in Procs /\ Launcher # Target
      /\ setting.known \subseteq Procs
  BY SettingsAssumption, ProcsAssumption DEF Procs, Application, Inv, TypeOK, Setting
<1>1. /\ setting' = setting /\ pc' = pc /\ ctl' = ctl
  OBVIOUS
<1>2. ASSUME NEW p \in Procs, p \in setting.known \/ p = Launcher \/ (p = Target /\ Admitted)
      PROVE  (Running(p)' => Running(p)) /\ (Alive(p)' => Alive(p)) /\ (Doomed(p) => Doomed(p)')
  <2>1. os[p].state = "none" => os'[p].state = "none"
    BY <1>0, <1>2 DEF ProcessesAge, Inv, WorldOK, LauncherOK, FatesOK
  <2>2. /\ os[p].state \in {"none", "running", "zombie", "gone"}
        /\ os'[p].state \in {"none", "running", "zombie", "gone"}
    BY DEF ProcessesAge, Inv, TypeOK, Process
  <2>3. os[p].state = "zombie" => os'[p].state # "running"
    BY DEF ProcessesAge, Inv, WorldOK, FatesOK
  <2>4. Running(p)' => Running(p)
    BY <2>1, <2>2, <2>3 DEF ProcessesAge, Running
  <2> QED BY <2>1, <2>2, <2>4 DEF ProcessesAge, Running, Alive, Doomed
<1>3. \A p \in Procs : os[p].fate # None => os'[p].fate = os[p].fate
  BY DEF ProcessesAge
<1>4. PhaseOK'
  BY <1>1 DEF Inv, PhaseOK, Admitted, Received, Verifying
<1>5. VerifiedOK'
  <2>1. Answerable' = Answerable /\ Answerable \subseteq Procs /\ Abandoned' = Abandoned
        /\ \A p \in Answerable : p \in setting.known \/ p = Launcher \/ (p = Target /\ Admitted)
    BY <1>0, <1>1 DEF Answerable, Admitted, Abandoned
  <2>2. NobodyLeftUnreported'
    BY <1>1, <1>2, <2>1 DEF Inv, VerifiedOK, NobodyLeftUnreported
  <2>3. pc = "launcher killed" /\ Running(Launcher)' => "KILL" \in os'[Launcher].signals
    BY <1>0, <1>2 DEF Inv, VerifiedOK, Doomed
  <2>4. pc = "each" /\ Alive(Launcher)' => setting.slow /\ Launcher \in ctl.errors
    BY <1>0, <1>2 DEF Inv, VerifiedOK
  <2>5. ctl.pass \in {1, 2} /\ pc = "each" =>
           \A p \in setting.known \ ctl.todo : Alive(p)' => p \in ctl.errors
    BY <1>0, <1>2 DEF Inv, VerifiedOK
  <2>6. Admitted /\ ctl.pass \in {1, 2} /\ pc \in Verifying => Received \/ "no report" \in ctl.errors
    BY DEF Inv, VerifiedOK
  <2> QED BY <1>1, <2>2, <2>3, <2>4, <2>5, <2>6 DEF VerifiedOK, Admitted, Received, Verifying
<1>6. StatusOK'
  <2>1. ctl.found # None => os[Target].fate # None
    BY DEF Inv, StatusOK
  <2>2. Admitted /\ ctl.result # None => os[Target].fate # None
    BY DEF Inv, StatusOK
  <2> QED BY <1>0, <1>1, <1>3, <2>1, <2>2 DEF Inv, StatusOK, Admitted, Received
<1>7. SecondPassOK'
  BY <1>0, <1>1, <1>2 DEF Inv, SecondPassOK, Admitted, Received, Verifying
<1>8. CleanOK'
  <2>1. Undisturbed' => Undisturbed
    BY <1>0, <1>1, <1>3 DEF Undisturbed, Admitted
  <2>2. \A p \in setting.known : Doomed(p) => Doomed(p)'
    BY <1>0, <1>2
  <2> QED BY <1>1, <2>1, <2>2 DEF Inv, CleanOK, Verifying
<1> QED BY <1>4, <1>5, <1>6, <1>7, <1>8

(* The steps of the application, the operating system and a launcher's       *)
(* killer.                                                                    *)
LEMMA SystemStep == ASSUME Inv, System PROVE Inv'
<1>0. /\ Launcher \in Procs /\ Target \in Procs /\ Launcher # Target
  BY ProcsAssumption DEF Procs, Application
<1>1. ProcessesAge /\ Outside /\ UNCHANGED <<setting, at, socket, pc, ctl>>
  BY SystemAges DEF Inv, WorldOK, System
<1>2. TypeOK'
  <2>1. Control' = Control
    BY <1>1 DEF Control
  <2> QED BY <1>1, <2>1 DEF Inv, TypeOK, ProcessesAge
<1>3. FatesOK'
  <2>1. <<"signal", "KILL">> # <<"exit", 0>>
    OBVIOUS
  <2>2. os'[Launcher].fate = <<"exit", 0>> <=> os[Launcher].fate = <<"exit", 0>>
    BY <1>0, <1>1, <2>1, NoneAssumption DEF ProcessesAge, Outside, Deaths
  <2> QED BY <1>0, <1>1, <2>2 DEF Inv, WorldOK, FatesOK, ProcessesAge, Outside
<1>4. LauncherOK'
  BY <1>0, <1>1 DEF Inv, WorldOK, FatesOK, LauncherOK, ProcessesAge, Outside, Admitted, Reaped, Running
<1>5. SocketOK'
  BY <1>1 DEF Inv, WorldOK, SocketOK, Admitted, Reaped, Reported, Received
<1>6. PhaseOK' /\ VerifiedOK' /\ StatusOK' /\ SecondPassOK' /\ CleanOK'
  BY <1>1, AgesKeep DEF Reaped
<1> QED BY <1>2, <1>3, <1>4, <1>5, <1>6 DEF Inv, WorldOK

-----------------------------------------------------------------------------
(* The launcher's steps *)

LEMMA LauncherStepKeeps == ASSUME Inv, LauncherStep PROVE Inv'
<1>0. /\ Launcher \in Procs /\ Target \in Procs /\ Launcher # Target
      /\ os \in [Procs -> Process] /\ TypeOK /\ FatesOK
  BY ProcsAssumption DEF Procs, Application, Inv, TypeOK, WorldOK
<1>1. /\ Running(Launcher) /\ UNCHANGED <<setting, pc, ctl>> /\ Control' = Control
  BY DEF LauncherStep, Control
<1>2. /\ <<"exit", 0>> \in Deaths /\ \A s \in Signals : <<"signal", s>> \in Deaths
      /\ \A s \in Signals : <<"signal", s>> # <<"exit", 0>>
  BY DEF Deaths
\* Each step: what it does to the processes, to the connection and to the launcher's place.
<1> DEFINE Fine == /\ ProcessesAge /\ FatesOK' /\ LauncherOK' /\ SocketOK'
                   /\ at' \in {"start", "spawned", "wait", "reaped", "connected", "sent", "left"}
                   /\ socket' \in {"none", "open", "written", "closed"}
                   /\ (socket = "closed" => socket' = "closed") /\ (Reaped => Reaped')
<1>3. SUFFICES Fine
  <2>1. TypeOK'
    BY <1>0, <1>1 DEF TypeOK, ProcessesAge
  <2> QED BY <1>1, <2>1, AgesKeep DEF Inv, WorldOK
<1>4. ASSUME os' = os PROVE ProcessesAge
  BY <1>0, <1>4 DEF ProcessesAge, FatesOK, Running
<1>5. CASE Spawns
  <2>1. /\ os[Target].state = "none" /\ os[Target].fate = None /\ ~Admitted
    BY <1>0, <1>5 DEF Spawns, Inv, WorldOK, LauncherOK, FatesOK
  <2>2. /\ os' \in [Procs -> Process] /\ \A p \in Procs \ {Target} : os'[p] = os[p]
        /\ os'[Target].state = "running" /\ os'[Target].fate = None
    BY <1>0, <1>5, <2>1 DEF Spawns, Process
  <2>3. at = "start" /\ at' = "spawned" /\ socket' = socket
    BY <1>5 DEF Spawns
  <2>4. ProcessesAge
    BY <1>0, <2>1, <2>2, <2>3 DEF ProcessesAge, FatesOK, Running
  <2>5. FatesOK'
    BY <1>0, <2>1, <2>2, <2>3 DEF FatesOK
  <2>6. LauncherOK'
    BY <1>1, <2>1, <2>3 DEF LauncherOK, Admitted
  <2>7. SocketOK' /\ ~Reaped /\ socket # "closed"
    BY <1>1, <2>3 DEF Inv, WorldOK, SocketOK, Reaped, Reported, Received, Admitted
  <2> QED BY <2>3, <2>4, <2>5, <2>6, <2>7, <1>0 DEF TypeOK
<1>6. CASE Arms
  BY <1>0, <1>1, <1>4, <1>6 DEF Arms, TypeOK, FatesOK, Inv, WorldOK, LauncherOK, SocketOK, Reaped,
     Reported, Received, Admitted, Running
<1>7. CASE Reaps
  <2>1. ProcessesAge
    BY <1>0, <1>7, Dying DEF Reaps
  <2>2. os'[Target].state = "gone" /\ os'[Launcher] = os[Launcher] /\ \A p \in Procs : os'[p].fate = os[p].fate
    BY <1>0, <1>7 DEF Reaps, Gone, Process
  <2>3. at = "wait" /\ at' = "reaped" /\ socket' = socket
    BY <1>7 DEF Reaps
  <2>4. FatesOK'
    BY <1>0, <2>1, <2>2, <2>3 DEF FatesOK, ProcessesAge
  <2>5. LauncherOK'
    BY <2>2, <2>3 DEF LauncherOK, Reaped
  <2>6. SocketOK' /\ ~Reaped
    BY <1>1, <2>3 DEF Inv, WorldOK, SocketOK, Reaped, Reported, Received, Admitted
  <2> QED BY <1>0, <2>1, <2>3, <2>4, <2>5, <2>6 DEF TypeOK
<1>8. CASE Connects
  <2>1. os' = os /\ at = "reaped" /\ at' = "connected" /\ socket' = "open"
    BY <1>8 DEF Connects
  <2>2. FatesOK' /\ LauncherOK'
    BY <1>1, <2>1 DEF Inv, WorldOK, FatesOK, LauncherOK, Reaped, Admitted, Running
  <2>3. SocketOK' /\ socket # "closed"
    BY <1>1, <2>1 DEF Inv, WorldOK, SocketOK, Reaped, Reported, Received, Admitted
  <2> QED BY <1>4, <2>1, <2>2, <2>3 DEF Reaped
<1>9. CASE Sends
  <2>1. /\ os' = os /\ at = "connected" /\ at' = "sent"
        /\ socket' = IF socket = "open" THEN "written" ELSE socket
    BY <1>9 DEF Sends
  <2>2. FatesOK' /\ LauncherOK'
    BY <1>1, <2>1 DEF Inv, WorldOK, FatesOK, LauncherOK, Reaped, Admitted, Running
  <2>3. SocketOK' /\ socket' \in {"written", "closed"} /\ (socket = "closed" => socket' = "closed")
    BY <1>1, <2>1 DEF Inv, WorldOK, SocketOK, Reaped, Reported, Received, Admitted
  <2> QED BY <1>4, <2>1, <2>2, <2>3 DEF Reaped
<1>10. CASE Leaves
  <2>1. os' = Dead(os, Launcher, <<"exit", 0>>) /\ at = "sent" /\ at' = "left" /\ socket' = socket
    BY <1>10 DEF Leaves
  <2>2. ProcessesAge
    BY <1>0, <1>1, <1>2, <2>1, Dying
  <2>3. /\ os'[Launcher].state = "zombie" /\ os'[Launcher].fate = <<"exit", 0>> /\ os'[Target] = os[Target]
    BY <1>0, <2>1 DEF Dead, Process
  <2>4. FatesOK'
    BY <1>0, <2>1, <2>2, <2>3 DEF FatesOK, ProcessesAge
  <2>5. LauncherOK'
    BY <1>1, <2>1, <2>3 DEF Inv, WorldOK, LauncherOK, Reaped, Admitted
  <2>6. SocketOK'
    BY <1>1, <2>1 DEF Inv, WorldOK, SocketOK, Reaped, Reported, Received, Admitted
  <2> QED BY <1>0, <2>1, <2>2, <2>4, <2>5, <2>6 DEF TypeOK, Reaped
<1>11. ASSUME NEW s \in Signals, Forward(s) PROVE Fine
  <2>0. at' = at /\ socket' = socket /\ SocketOK' /\ (Reaped => Reaped')
    BY <1>1, <1>11 DEF Forward, Inv, WorldOK, SocketOK, Reaped, Reported, Received, Admitted
  <2>1. CASE os' = Dead(os, Launcher, <<"signal", s>>)
    <3>1. ProcessesAge
      BY <1>0, <1>1, <1>2, <2>1, Dying
    <3>2. /\ os'[Launcher].state = "zombie" /\ os'[Launcher].fate = <<"signal", s>> /\ os'[Target] = os[Target]
      BY <1>0, <2>1 DEF Dead, Process
    <3>3. at # "left"
      BY <1>0, <1>1, NoneAssumption, <1>2 DEF FatesOK, Running
    <3>4. FatesOK'
      BY <1>0, <1>2, <2>0, <3>1, <3>2, <3>3 DEF FatesOK, ProcessesAge
    <3>5. LauncherOK'
      BY <1>1, <2>0, <3>2 DEF Inv, WorldOK, LauncherOK, Reaped, Admitted, Running
    <3> QED BY <1>0, <2>0, <3>1, <3>4, <3>5 DEF TypeOK
  <2>2. CASE os' = [Sent(Target, s) EXCEPT ![Launcher].signals = @ \ {s}]
    <3> DEFINE o == Sent(Target, s)
    <3>a. /\ o \in [Procs -> Process]
          /\ \A p \in Procs : /\ o[p].state = os[p].state /\ o[p].fate = os[p].fate
                              /\ "KILL" \in os[p].signals => "KILL" \in o[p].signals
      BY <1>0 DEF Sent, Process
    <3>b. s # "KILL"
      BY <1>11 DEF Forward
    <3>c. os' = [o EXCEPT ![Launcher].signals = @ \ {s}]
      BY <2>2
    <3> HIDE DEF o
    <3>d. os' \in [Procs -> Process]
      BY <1>0, <3>a, <3>c DEF Process
    <3>e. \A p \in Procs : /\ os'[p].state = o[p].state /\ os'[p].fate = o[p].fate
                           /\ "KILL" \in o[p].signals => "KILL" \in os'[p].signals
      BY <1>0, <3>a, <3>b, <3>c DEF Process
    <3>1. /\ os' \in [Procs -> Process] /\ s # "KILL"
          /\ \A p \in Procs : /\ os'[p].state = os[p].state /\ os'[p].fate = os[p].fate
                              /\ "KILL" \in os[p].signals => "KILL" \in os'[p].signals
      BY <3>a, <3>b, <3>d, <3>e
    <3>2. ProcessesAge /\ FatesOK' /\ LauncherOK'
      BY <1>0, <1>1, <2>0, <3>1 DEF ProcessesAge, FatesOK, Running, Inv, WorldOK, LauncherOK, Reaped, Admitted
    <3> QED BY <1>0, <2>0, <3>2 DEF TypeOK
  <2> QED BY <1>11, <2>1, <2>2 DEF Forward
<1> QED BY <1>5, <1>6, <1>7, <1>8, <1>9, <1>10, <1>11 DEF LauncherStep

-----------------------------------------------------------------------------
(* The main thread's steps *)

(* Whatever the main thread does, it ends no process itself.                  *)
LEMMA ProcessesLast ==
    ASSUME Inv, MoreSignals, UNCHANGED <<setting, at>>
    PROVE  /\ FatesOK' /\ LauncherOK' /\ Control' = Control
           /\ Launcher \in Procs /\ Target \in Procs /\ setting.known \subseteq Application
           /\ Application \subseteq Procs
           /\ \A p \in Procs : /\ Running(p)' = Running(p) /\ Alive(p)' = Alive(p)
                               /\ os'[p].fate = os[p].fate /\ (Doomed(p) => Doomed(p)')
           /\ Admitted' = Admitted /\ Reaped' = Reaped /\ Reported' = Reported
<1>1. /\ Launcher \in Procs /\ Target \in Procs /\ setting.known \subseteq Application /\ Application \subseteq Procs
  BY SettingsAssumption DEF Procs, Application, Inv, TypeOK, Setting
<1>2. FatesOK'
  BY <1>1 DEF MoreSignals, Inv, WorldOK, FatesOK
<1>3. LauncherOK'
  BY <1>1 DEF MoreSignals, Inv, WorldOK, LauncherOK, Admitted, Reaped, Running
<1>4. \A p \in Procs : /\ Running(p)' = Running(p) /\ Alive(p)' = Alive(p)
                      /\ os'[p].fate = os[p].fate /\ (Doomed(p) => Doomed(p)')
  BY DEF MoreSignals, Running, Alive, Doomed
<1>5. Control' = Control /\ Admitted' = Admitted /\ Reaped' = Reaped /\ Reported' = Reported
  BY DEF Control, Admitted, Reaped, Reported
<1> QED BY <1>1, <1>2, <1>3, <1>4, <1>5

LEMMA Unmoved ==
    ASSUME TypeOK, os' = os
    PROVE  MoreSignals
  BY DEF TypeOK, MoreSignals

\* The run's variables as a cleanup finds them: c, with the connection new.
Ready(c, pass, new) ==
    /\ c \in Control /\ c.received = ctl.received
    /\ Admitted /\ c.result # None => Reaped /\ c.result = os[Target].fate
    /\ c.received => c.result # None \/ c.raised
    /\ Admitted /\ pass = 2 /\ ~setting.slow /\ ~c.raised => ~Running(Launcher)
    /\ (/\ Admitted /\ ~setting.slow /\ setting.stuck = {} /\ setting.denied = {} /\ ~c.raised
        /\ os[Launcher].fate \in {None, <<"exit", 0>>} /\ new # "closed" /\ "run" \notin c.failures)
       => c.failures = {}
    /\ new = socket \/ (new = "closed" /\ pc = "read")

(* A cleanup begins.                                                          *)
LEMMA Begins ==
    ASSUME Inv, NEW c, NEW pass \in {1, 2}, NEW s \in {"INT", "TERM"}, Ready(c, pass, socket'),
           Shutdown(c, pass, s), UNCHANGED <<setting, at, os>>
    PROVE  Inv'
<1>0. MoreSignals
  BY Unmoved DEF Inv
<1>1. /\ FatesOK' /\ LauncherOK' /\ Control' = Control
      /\ Launcher \in Procs /\ Target \in Procs /\ setting.known \subseteq Application
      /\ Admitted' = Admitted /\ Reaped' = Reaped /\ Reported' = Reported
  BY <1>0, ProcessesLast
<1>2. /\ pc' = "signal" /\ ctl' \in Control
      /\ ctl'.pass = pass /\ ctl'.todo = OrderedDescendants /\ ctl'.found = None
      /\ ctl'.errors \in SUBSET {"refused"} /\ (setting.denied = {} => ctl'.errors = {})
      /\ ctl'.received = c.received /\ ctl'.result = c.result /\ ctl'.raised = c.raised
      /\ ctl'.failures = c.failures
  <2>1. OrderedDescendants \subseteq Application
    BY <1>1 DEF OrderedDescendants, Ordered
  <2>2. None \in Fates /\ pass \in 0..3
    BY DEF Fates
  <2> QED BY <2>1, <2>2 DEF Ready, Shutdown, GoOn, Control
<1>3. TypeOK'
  BY <1>0, <1>1, <1>2 DEF Inv, TypeOK, Ready, MoreSignals
<1>4. SocketOK'
  <2>1. ctl'.received = ctl.received /\ (pc = "read" => ~ctl.received)
    BY <1>2 DEF Ready, Inv, PhaseOK, Received
  <2>2. socket' = socket \/ (socket' = "closed" /\ pc = "read")
    BY DEF Ready
  <2> QED BY <1>1, <1>2, <2>1, <2>2 DEF Inv, WorldOK, SocketOK, Received, Reported
<1>5. PhaseOK'
  <2>1. OrderedDescendants \subseteq setting.known
    BY DEF OrderedDescendants, Ordered
  <2>2. pass # 0 /\ pass # 3 /\ setting' = setting
    OBVIOUS
  <2> QED BY <1>1, <1>2, <2>1, <2>2 DEF PhaseOK, Verifying, Inv
<1>6. VerifiedOK'
  BY <1>2 DEF VerifiedOK, Verifying, NobodyLeftUnreported
<1>7. StatusOK'
  BY <1>1, <1>2 DEF Ready, StatusOK, Received
<1>8. SecondPassOK'
  BY <1>1, <1>2 DEF Ready, SecondPassOK, Verifying, Running
<1>9. CleanOK'
  BY <1>1, <1>2 DEF Ready, CleanOK, Undisturbed, Verifying
<1> QED BY <1>1, <1>3, <1>4, <1>5, <1>6, <1>7, <1>8, <1>9 DEF Inv, WorldOK

\* A step of a cleanup or of the verification: it may send a signal, choose whom to look at
\* next, or find an error; the connection and the record are as before.
Tidies ==
    /\ MoreSignals /\ UNCHANGED <<setting, at, socket>>
    /\ ctl' \in Control
    /\ ctl'.pass = ctl.pass /\ ctl'.found = ctl.found /\ ctl'.result = ctl.result
    /\ ctl'.received = ctl.received /\ ctl'.failures = ctl.failures /\ ctl'.raised = ctl.raised
    /\ ctl.errors \subseteq ctl'.errors /\ ctl'.todo \subseteq setting.known

LEMMA PhaseTidied ==
    ASSUME Inv, Tidies, ctl.pass \in {1, 2},
           \/ pc' \in {"signal", "wait", "kill"} \cup Verifying
           \/ pc' = "accept" /\ ctl'.round # "run" /\ ~Received /\ Admitted
    PROVE  PhaseOK'
<1>1. /\ ctl'.pass = ctl.pass /\ ctl'.received = ctl.received /\ ctl'.todo \subseteq setting.known
      /\ setting' = setting /\ ctl.pass # 0 /\ ctl.pass # 3
      /\ setting.start = "running" => Target \in setting.known
  BY DEF Tidies, Inv, PhaseOK
<1>2. CASE pc' \in {"signal", "wait", "kill"} \cup Verifying
  BY <1>1, <1>2 DEF PhaseOK, Verifying
<1>3. CASE pc' = "accept" /\ ctl'.round # "run" /\ ~Received /\ Admitted
  BY <1>1, <1>3 DEF PhaseOK, Verifying, Admitted, Received
<1> QED BY <1>2, <1>3

LEMMA Tidied ==
    ASSUME Inv, Tidies, pc' \in {"signal", "wait", "kill", "accept", "target"} \cup Verifying,
           PhaseOK', VerifiedOK', CleanOK',
           pc \in Verifying \/ pc' \notin Verifying \/ ctl.pass = 0 \/ Received \/ ~Admitted
    PROVE  Inv'
<1>1. FatesOK' /\ LauncherOK' /\ Control' = Control /\ Launcher \in Procs /\ Target \in Procs
      /\ Admitted' = Admitted /\ Reaped' = Reaped /\ Reported' = Reported
      /\ os'[Target].fate = os[Target].fate /\ Running(Launcher)' = Running(Launcher)
  BY ProcessesLast DEF Tidies
<1>2. TypeOK'
  BY <1>1 DEF Tidies, MoreSignals, TypeOK, Inv, Verifying
<1>3. SocketOK'
  BY <1>1 DEF Tidies, Inv, WorldOK, SocketOK, Received, Verifying
<1>4. StatusOK'
  BY <1>1 DEF Tidies, Inv, StatusOK, Received, Verifying
<1>5. SecondPassOK'
  <2>1. /\ ctl'.pass = ctl.pass /\ ctl'.received = ctl.received /\ ctl'.raised = ctl.raised
        /\ setting' = setting /\ at' = at /\ socket' = socket
    BY DEF Tidies
  <2>2. pc' # "end" /\ pc' \in {"signal", "wait", "kill", "accept", "target"} \cup Verifying
    BY DEF Verifying
  <2>3. ctl.pass = 0 => ctl.pass # 2
    OBVIOUS
  <2> QED BY <1>1, <2>1, <2>2, <2>3 DEF Inv, SecondPassOK, Received
<1> QED BY <1>1, <1>2, <1>3, <1>4, <1>5 DEF Inv, WorldOK

(* A cleanup signals, waits and kills.                                        *)
LEMMA SignalNextKeeps == ASSUME Inv, SignalNext, UNCHANGED <<setting, at>> PROVE Inv'
<1>1. PICK p \in Deepest(ctl.todo) : SignalOne(p, ctl.signal)
  BY DEF SignalNext
<1>2. /\ ctl \in Control /\ ctl.todo \subseteq Application /\ ctl.signal \in {"INT", "TERM"} /\ TypeOK
      /\ ctl.todo \subseteq setting.known
  BY DEF Inv, TypeOK, Control, PhaseOK
<1>a. /\ os' = os \/ os' = Sent(p, ctl.signal)
      /\ ctl' = [ctl EXCEPT !.todo = @ \ {p},
                            !.errors = IF Denied(p) THEN @ \cup {"refused"} ELSE @]
  BY <1>1 DEF SignalOne
<1>3. MoreSignals
  BY <1>2, <1>a, Sending, Unmoved DEF Deepest, Signals, Procs
<1>4. Tidies /\ (Undisturbed => ctl'.errors = ctl.errors)
  <2>1. UNCHANGED <<setting, at, socket>>
    BY DEF SignalNext
  <2>2. Undisturbed => ~Denied(p)
    BY DEF Undisturbed, Denied
  <2> QED BY <1>2, <1>3, <1>a, <2>1, <2>2 DEF Tidies, Control
<1>5. pc = "signal" /\ pc' = "signal"
  BY DEF SignalNext
<1>6. PhaseOK'
  BY <1>4, <1>5, PhaseTidied DEF Inv, PhaseOK
<1>7. VerifiedOK'
  BY <1>5 DEF VerifiedOK, Verifying, NobodyLeftUnreported
<1>8. Undisturbed' => Undisturbed
  BY <1>3, <1>4, ProcessesLast DEF Undisturbed, Tidies
<1>9. CleanOK'
  BY <1>4, <1>5, <1>8 DEF Inv, CleanOK, Tidies, Verifying
<1> QED BY <1>4, <1>5, <1>6, <1>7, <1>9, Tidied DEF Verifying

LEMMA SignalRootKeeps == ASSUME Inv, SignalRoot, UNCHANGED <<setting, at>> PROVE Inv'
<1>1. /\ ctl \in Control /\ ctl.signal \in {"INT", "TERM"} /\ TypeOK /\ ctl.todo \subseteq setting.known
      /\ pc = "signal" /\ Launcher \in Procs /\ Target \in Procs
  BY DEF Inv, TypeOK, Control, PhaseOK, SignalRoot, Procs, Application
<1>2. MoreSignals
  BY <1>1, Sending, Unmoved DEF SignalRoot, Signals
<1>3. /\ ctl' \in Control /\ ctl'.errors = ctl.errors /\ ctl'.todo = ctl.todo
      /\ (pc' = "accept" /\ ctl'.round = "first" /\ ~Received /\ Admitted) \/ (pc' = "wait" /\ ctl' = ctl)
      /\ Tidies
  <2>1. CASE ~Received /\ Admitted
    <3>1. ctl' = [ctl EXCEPT !.round = "first"] /\ pc' = "accept"
      BY <2>1 DEF SignalRoot, Receives, GoOn, Received
    <3>2. ctl' \in Control
      BY <1>1, <3>1 DEF Control
    <3> QED BY <1>1, <1>2, <2>1, <3>1, <3>2 DEF SignalRoot, Control, Tidies, Received
  <2>2. CASE ~(~Received /\ Admitted)
    <3>1. ctl' = ctl /\ pc' = "wait"
      BY <2>2 DEF SignalRoot, Receives, GoOn, Received
    <3> QED BY <1>1, <1>2, <2>2, <3>1 DEF SignalRoot, Tidies
  <2> QED BY <2>1, <2>2
<1>4. ctl.pass \in {1, 2} /\ ctl'.pass = ctl.pass
  BY <1>1, <1>3 DEF Inv, PhaseOK, Tidies
<1>5. PhaseOK'
  BY <1>3, <1>4, PhaseTidied
<1>6. VerifiedOK'
  BY <1>3 DEF VerifiedOK, Verifying, NobodyLeftUnreported
<1>7. Undisturbed' => Undisturbed
  BY <1>2, <1>3, ProcessesLast DEF Undisturbed, Tidies
<1>8. CleanOK'
  BY <1>3, <1>7 DEF Inv, CleanOK, Tidies, Verifying
<1> QED BY <1>3, <1>5, <1>6, <1>8, Tidied DEF Verifying

LEMMA WaitKeeps == ASSUME Inv, Wait, UNCHANGED <<setting, at>> PROVE Inv'
<1>1. /\ ctl \in Control /\ TypeOK /\ setting.known \subseteq Application /\ pc = "wait" /\ pc' = "kill"
      /\ ctl' = [ctl EXCEPT !.todo = setting.known]
  BY SettingsAssumption DEF Inv, TypeOK, Wait, GoOn, Setting, Ordered
<1>2. MoreSignals
  BY <1>1, Unmoved DEF Wait
<1>3. Tidies /\ ctl'.errors = ctl.errors /\ ctl'.todo = setting.known /\ ctl'.round = ctl.round
  BY <1>1, <1>2 DEF Wait, Control, Tidies
<1>4. ctl.pass \in {1, 2} /\ ctl'.pass = ctl.pass
  BY <1>1, <1>3 DEF Inv, PhaseOK, Tidies
<1>5. PhaseOK'
  BY <1>1, <1>3, <1>4, PhaseTidied DEF Verifying
<1>6. VerifiedOK'
  BY <1>1 DEF VerifiedOK, Verifying, NobodyLeftUnreported
<1>7. Undisturbed' => Undisturbed
  BY <1>2, <1>3, ProcessesLast DEF Undisturbed, Tidies
<1>8. CleanOK'
  BY <1>1, <1>3, <1>7 DEF Inv, CleanOK, Tidies, Verifying
<1> QED BY <1>1, <1>3, <1>5, <1>6, <1>8, Tidied DEF Verifying

LEMMA KillNextKeeps == ASSUME Inv, KillNext, UNCHANGED <<setting, at>> PROVE Inv'
<1>1. PICK p \in Deepest(ctl.todo) : SignalOne(p, "KILL")
  BY DEF KillNext
<1>2. /\ ctl \in Control /\ ctl.todo \subseteq Application /\ TypeOK
      /\ ctl.todo \subseteq setting.known
  BY DEF Inv, TypeOK, Control, PhaseOK
<1>a. /\ IF Denied(p) THEN os' = os ELSE os' = Sent(p, "KILL")
      /\ ctl' = [ctl EXCEPT !.todo = @ \ {p},
                            !.errors = IF Denied(p) THEN @ \cup {"refused"} ELSE @]
      /\ Undisturbed => ~Denied(p)
  BY <1>1 DEF SignalOne, Undisturbed, Denied
<1>3. MoreSignals /\ (Undisturbed => Doomed(p)')
  <2>1. p \in Procs /\ "KILL" \in Signals
    BY <1>2 DEF Deepest, Procs, Signals
  <2>2. CASE Denied(p)
    BY <1>2, <1>a, <2>2, Unmoved
  <2>3. CASE ~Denied(p)
    <3>1. MoreSignals /\ (Running(p) => "KILL" \in os'[p].signals)
      BY <1>2, <1>a, <2>1, <2>3, Sending
    <3> QED BY <2>1, <3>1 DEF MoreSignals, Doomed, Running
  <2> QED BY <2>2, <2>3
<1>4. Tidies /\ (Undisturbed => ctl'.errors = ctl.errors) /\ ctl'.todo = ctl.todo \ {p}
  <2>1. UNCHANGED <<setting, at, socket>>
    BY DEF KillNext
  <2> QED BY <1>2, <1>3, <1>a, <2>1 DEF Tidies, Control
<1>5. pc = "kill" /\ pc' = "kill"
  BY DEF KillNext
<1>6. PhaseOK'
  BY <1>4, <1>5, PhaseTidied DEF Inv, PhaseOK
<1>7. VerifiedOK'
  BY <1>5 DEF VerifiedOK, Verifying, NobodyLeftUnreported
<1>8. Undisturbed' => Undisturbed
  BY <1>3, <1>4, ProcessesLast DEF Undisturbed, Tidies
<1>9. \A q \in setting.known : Doomed(q) => Doomed(q)'
  BY <1>3, ProcessesLast
<1>10. CleanOK'
  BY <1>3, <1>4, <1>5, <1>8, <1>9 DEF Inv, CleanOK, Tidies, Verifying
<1> QED BY <1>4, <1>5, <1>6, <1>7, <1>10, Tidied DEF Verifying

LEMMA KilledKeeps == ASSUME Inv, Killed, UNCHANGED <<setting, at>> PROVE Inv'
<1>1. /\ ctl \in Control /\ TypeOK /\ ctl.todo = {} /\ pc = "kill"
  BY DEF Inv, TypeOK, Killed
<1>2. MoreSignals
  BY <1>1, Unmoved DEF Killed
<1>3. /\ ctl' \in Control /\ ctl'.errors = ctl.errors /\ ctl'.todo = {}
      /\ \/ pc' = "accept" /\ ctl'.round = "second" /\ ~Received /\ Admitted
         \/ pc' = "launcher" /\ ctl' = ctl /\ (Received \/ ~Admitted)
      /\ Tidies
  <2>1. CASE ~Received /\ Admitted
    <3>1. ctl' = [ctl EXCEPT !.round = "second"] /\ pc' = "accept"
      BY <2>1 DEF Killed, Receives, GoOn, Received
    <3>2. ctl' \in Control
      BY <1>1, <3>1 DEF Control
    <3> QED BY <1>1, <1>2, <2>1, <3>1, <3>2 DEF Killed, Control, Tidies, Received
  <2>2. CASE ~(~Received /\ Admitted)
    <3>1. ctl' = ctl /\ pc' = "launcher"
      BY <2>2 DEF Killed, Receives, GoOn, Received
    <3> QED BY <1>1, <1>2, <2>2, <3>1 DEF Killed, Tidies
  <2> QED BY <2>1, <2>2
<1>4. ctl.pass \in {1, 2} /\ ctl'.pass = ctl.pass
  BY <1>1, <1>3 DEF Inv, PhaseOK, Tidies
<1>5. PhaseOK'
  BY <1>1, <1>3, <1>4, PhaseTidied DEF Verifying
<1>6. VerifiedOK'
  BY <1>3 DEF VerifiedOK, Verifying, NobodyLeftUnreported, Admitted, Received
<1>7. Undisturbed' => Undisturbed
  BY <1>2, <1>3, ProcessesLast DEF Undisturbed, Tidies
<1>8. \A q \in setting.known : Doomed(q) => Doomed(q)'
  BY <1>2, ProcessesLast
<1>9. CleanOK'
  BY <1>1, <1>3, <1>7, <1>8 DEF Inv, CleanOK, Tidies, Verifying
<1> QED BY <1>3, <1>5, <1>6, <1>9, Tidied DEF Verifying

-----------------------------------------------------------------------------
(* It looks at who is gone.                                                   *)

(* Without early timeouts, one passes only when the launcher neither has a    *)
(* signal to take, nor is on its way, nor waits to be waited for.             *)
LEMMA Idle ==
    ASSUME Inv, TimeoutPasses, ~setting.slow
    PROVE  /\ Running(Launcher) => os[Launcher].signals = {}
           /\ os[Launcher].state # "zombie"
           /\ Running(Launcher) => at \in {"wait", "left"}
           /\ Running(Launcher) /\ at = "wait" => os[Target].state # "zombie"
           /\ \A p \in Procs \ setting.stuck : Running(p) => os[p].signals = {}
           /\ \A p \in Procs : os[p].state = "zombie" => ~Orphan(p)
  BY SettingsAssumption, ProcsAssumption
     DEF TimeoutPasses, Busy, Orphan, Inv, TypeOK, Setting, Procs, Application, Running

LEMMA TargetGoneKeeps == ASSUME Inv, TargetGone, UNCHANGED <<setting, at>> PROVE Inv'
<1>1. /\ ctl \in Control /\ TypeOK /\ pc = "target" /\ pc' = "launcher" /\ Admitted /\ ctl.pass = 0
      /\ Received /\ Reaped /\ Target \in Procs
  BY DEF Inv, TypeOK, PhaseOK, TargetGone, GoOn, WorldOK, SocketOK, Reported, Reaped, Procs, Application
<1>2. MoreSignals
  BY <1>1, Unmoved DEF TargetGone
<1>3. ~Alive(Target)
  BY <1>1 DEF Inv, WorldOK, LauncherOK, Alive
<1>4. ctl' = ctl
  BY <1>1, <1>3 DEF TargetGone, GoOn, Control
<1>5. Tidies
  BY <1>1, <1>2, <1>4 DEF TargetGone, Tidies, Inv, PhaseOK
<1>6. PhaseOK'
  BY <1>1, <1>4, <1>5 DEF Inv, PhaseOK, Tidies, Verifying, Received, Admitted
<1>7. VerifiedOK'
  <2>1. ctl'.pass \notin {1, 2} /\ pc' = "launcher"
    BY <1>1, <1>4
  <2> QED BY <2>1 DEF VerifiedOK, NobodyLeftUnreported
<1>8. Undisturbed' => Undisturbed
  BY <1>2, <1>5, ProcessesLast DEF Undisturbed, Tidies
<1>9. CleanOK'
  BY <1>1, <1>4, <1>5, <1>8 DEF Inv, CleanOK, Tidies
<1> QED BY <1>1, <1>5, <1>6, <1>7, <1>9, Tidied DEF Verifying

(* The third pass is the end.                                                 *)
LEMMA Passes == ASSUME Inv, pc # "end" PROVE ctl.pass \in {0, 1, 2}
<1>1. ctl.pass \in 0..3 /\ ctl.pass # 3
  BY DEF Inv, TypeOK, Control, PhaseOK
<1> QED BY <1>1

LEMMA NotCleaning == 0 \notin {1, 2} /\ 3 \notin {0, 1, 2}
  OBVIOUS

(* Whom to look at next, and who was not gone.                                *)
Notes(todo, lost) == [ctl EXCEPT !.todo = todo, !.errors = @ \cup lost]
LEMMA Noted ==
    ASSUME ctl \in Control, NEW todo \in SUBSET Application, NEW lost \in SUBSET (Procs \cup {"no report"}),
           ctl' = Notes(todo, lost)
    PROVE  /\ ctl' \in Control /\ ctl'.todo = todo /\ ctl'.errors = ctl.errors \cup lost
           /\ ctl'.round = ctl.round /\ ctl'.pass = ctl.pass /\ ctl'.found = ctl.found
           /\ ctl'.result = ctl.result /\ ctl'.received = ctl.received
           /\ ctl'.failures = ctl.failures /\ ctl'.raised = ctl.raised
  BY DEF Control, Notes

\* Whom the last loop looks at: the launcher is gone, or was not in spite of SIGKILL.
LEMMA Looks ==
    ASSUME Inv, pc \in {"launcher", "launcher killed"}, pc' = "each", NEW lost \in SUBSET {Launcher},
           ctl' = Notes(IF ctl.pass = 0 THEN {} ELSE Ordered, lost),
           Alive(Launcher) => setting.slow /\ lost = {Launcher},
           Undisturbed => lost = {},
           UNCHANGED <<setting, at, os, socket>>
    PROVE  Inv'
<1>1. /\ ctl \in Control /\ TypeOK /\ Launcher \in Procs /\ setting.known \subseteq Application
      /\ ctl.pass \in {0, 1, 2} /\ lost \subseteq Procs
  BY SettingsAssumption, Passes DEF Inv, TypeOK, Procs, Setting
<1>2. MoreSignals
  BY <1>1, Unmoved
<1> DEFINE todo == IF ctl.pass = 0 THEN {} ELSE Ordered
<1>3. todo \subseteq setting.known /\ (ctl.pass = 0 => todo = {}) /\ (ctl.pass # 0 => todo = setting.known)
  BY DEF Ordered
<1>4. ctl' = Notes(todo, lost)
  OBVIOUS
<1> HIDE DEF todo
<1>5. /\ Tidies /\ ctl'.todo = todo /\ ctl'.errors = ctl.errors \cup lost
  <2>1. todo \in SUBSET Application /\ lost \in SUBSET (Procs \cup {"no report"})
    BY <1>1, <1>3
  <2>2. /\ ctl' \in Control /\ ctl'.todo = todo /\ ctl'.errors = ctl.errors \cup lost
        /\ ctl'.round = ctl.round /\ ctl'.pass = ctl.pass /\ ctl'.found = ctl.found
        /\ ctl'.result = ctl.result /\ ctl'.received = ctl.received
        /\ ctl'.failures = ctl.failures /\ ctl'.raised = ctl.raised
    BY <1>1, <1>4, <2>1, Noted
  <2> QED BY <1>2, <1>3, <2>2 DEF Tidies
<1>6. PhaseOK'
  <2>1. CASE ctl.pass \in {1, 2}
    BY <1>5, <2>1, PhaseTidied DEF Verifying
  <2>2. CASE ctl.pass = 0
    BY <1>3, <1>5, <2>2 DEF Inv, PhaseOK, Tidies, Verifying, Received, Admitted
  <2> QED BY <1>1, <2>1, <2>2
<1>7. VerifiedOK'
  <2>1. Alive(Launcher)' = Alive(Launcher) /\ setting' = setting /\ ctl'.pass = ctl.pass /\ ctl'.received = ctl.received
    BY <1>5 DEF Alive, Tidies
  <2>2. ctl.pass \in {1, 2} => ctl'.todo = setting.known
    BY <1>3, <1>5, NotCleaning
  <2>3. Admitted /\ ctl.pass \in {1, 2} => Received \/ "no report" \in ctl'.errors
    BY <1>5 DEF Inv, VerifiedOK, Verifying
  <2>4. Alive(Launcher) => setting.slow /\ Launcher \in ctl'.errors
    BY <1>5
  <2> QED BY <2>1, <2>2, <2>3, <2>4 DEF VerifiedOK, NobodyLeftUnreported, Admitted, Received
<1>8. Undisturbed' => Undisturbed
  BY <1>2, <1>5, ProcessesLast DEF Undisturbed, Tidies
<1>9. \A q \in setting.known : Doomed(q) => Doomed(q)'
  BY <1>2, ProcessesLast
<1>10. CleanOK'
  BY <1>5, <1>8, <1>9 DEF Inv, CleanOK, Tidies, Verifying
<1> QED BY <1>5, <1>6, <1>7, <1>10, Tidied DEF Verifying

LEMMA LauncherGoneKeeps == ASSUME Inv, LauncherGone, UNCHANGED <<setting, at>> PROVE Inv'
<1>1. ctl \in Control
  BY DEF Inv, TypeOK
<1>2. ctl' = Notes(IF ctl.pass = 0 THEN {} ELSE Ordered, {})
  BY <1>1 DEF LauncherGone, GoOn, Control, Notes
<1> QED BY <1>2, Looks DEF LauncherGone, GoOn

LEMMA LauncherStaysKeeps == ASSUME Inv, LauncherStays, UNCHANGED <<setting, at>> PROVE Inv'
<1>1. /\ ctl \in Control /\ TypeOK /\ pc = "launcher" /\ pc' = "launcher killed" /\ ctl' = ctl /\ Launcher \in Procs
      /\ ctl.pass \in {0, 1, 2} /\ "KILL" \in Signals
  BY Passes DEF Inv, TypeOK, LauncherStays, Procs, Go, Signals
<1>2. MoreSignals /\ (Running(Launcher) => "KILL" \in os'[Launcher].signals)
  BY <1>1, Sending DEF LauncherStays
<1>3. Tidies
  BY <1>1, <1>2 DEF Tidies, LauncherStays, Inv, PhaseOK
<1>4. PhaseOK'
  <2>1. CASE ctl.pass \in {1, 2}
    BY <1>1, <1>3, <2>1, PhaseTidied DEF Verifying
  <2>2. CASE ctl.pass = 0
    BY <1>1, <1>3, <2>2 DEF Inv, PhaseOK, Tidies, Verifying, Received, Admitted
  <2> QED BY <1>1, <2>1, <2>2
<1>5. VerifiedOK'
  <2>1. Running(Launcher)' = Running(Launcher) /\ setting' = setting
    BY <1>1, <1>2 DEF MoreSignals, Running
  <2> QED BY <1>1, <1>2, <2>1 DEF VerifiedOK, NobodyLeftUnreported, Admitted, Received, Inv, Verifying
<1>6. Undisturbed' => Undisturbed
  BY <1>2, <1>3, ProcessesLast DEF Undisturbed, Tidies
<1>7. \A q \in setting.known : Doomed(q) => Doomed(q)'
  BY <1>2, ProcessesLast DEF LauncherStays
<1>8. CleanOK'
  BY <1>1, <1>3, <1>6, <1>7 DEF Inv, CleanOK, Tidies, Verifying
<1> QED BY <1>1, <1>3, <1>4, <1>5, <1>8, Tidied DEF Verifying

LEMMA LauncherKilledKeeps == ASSUME Inv, LauncherKilled, UNCHANGED <<setting, at>> PROVE Inv'
<1>1. /\ ctl \in Control /\ pc = "launcher killed" /\ pc' = "each"
  BY DEF Inv, TypeOK, LauncherKilled, GoOn
<1> DEFINE lost == IF Alive(Launcher) THEN {Launcher} ELSE {}
<1>2. ctl' = Notes(IF ctl.pass = 0 THEN {} ELSE Ordered, lost)
  BY <1>1 DEF LauncherKilled, GoOn, Control, Notes
<1>3. ~setting.slow => ~Alive(Launcher)
  <2>1. SUFFICES ASSUME ~setting.slow, Alive(Launcher) PROVE FALSE
    OBVIOUS
  <2>2. TimeoutPasses
    BY <2>1 DEF LauncherKilled
  <2>3. ~Running(Launcher) /\ os[Launcher].state # "zombie"
    BY <1>1, <2>1, <2>2, Idle DEF Inv, VerifiedOK
  <2> QED BY <2>1, <2>3 DEF Alive, Running, Inv, TypeOK, Process, Procs
<1>4. lost \in SUBSET {Launcher} /\ (Alive(Launcher) => setting.slow /\ lost = {Launcher}) /\ (Undisturbed => lost = {})
  BY <1>3 DEF Undisturbed
<1> HIDE DEF lost
<1> QED BY <1>1, <1>2, <1>4, Looks DEF LauncherKilled

LEMMA EachGoneKeeps == ASSUME Inv, EachGone, UNCHANGED <<setting, at>> PROVE Inv'
<1>1. PICK p \in Deepest(ctl.todo) :
          /\ Alive(p) => TimeoutPasses
          /\ ctl' = [ctl EXCEPT !.todo = @ \ {p}, !.errors = IF Alive(p) THEN @ \cup {p} ELSE @]
  BY DEF EachGone
<1>2. /\ ctl \in Control /\ TypeOK /\ pc = "each" /\ pc' = "each" /\ p \in ctl.todo /\ ctl.todo \subseteq setting.known
      /\ setting.known \subseteq Application /\ Application \subseteq Procs /\ Target \in Procs
      /\ ctl.pass \in {1, 2} /\ Launcher \in Procs
  <2>1. ctl \in Control /\ TypeOK /\ pc = "each" /\ pc' = "each" /\ p \in ctl.todo
    BY <1>1 DEF Inv, TypeOK, EachGone, Deepest
  <2>2. /\ setting.known \subseteq Application /\ Application \subseteq Procs /\ Target \in Procs /\ Launcher \in Procs
    BY SettingsAssumption DEF Inv, TypeOK, Setting, Procs, Application
  <2>3. ctl.todo \subseteq setting.known /\ ctl.pass # 0
    BY <2>1 DEF Inv, PhaseOK
  <2> QED BY <2>1, <2>2, <2>3, Passes
<1>3. MoreSignals
  BY <1>2, Unmoved DEF EachGone
<1>4. /\ Tidies /\ ctl'.todo = ctl.todo \ {p} /\ (Alive(p) => p \in ctl'.errors)
      /\ (~Alive(p) => ctl'.errors = ctl.errors)
  <2> DEFINE lost == IF Alive(p) THEN {p} ELSE {}
             left == ctl.todo \ {p}
  <2>1. ctl' = Notes(left, lost)
    BY <1>1, <1>2 DEF Control, Notes
  <2>0. UNCHANGED <<os, socket, pc>>
    BY DEF EachGone
  <2>2. /\ lost \subseteq Procs /\ left \subseteq setting.known /\ (Alive(p) => p \in lost) /\ (~Alive(p) => lost = {})
    BY <1>2
  <2>3. left = ctl.todo \ {p}
    OBVIOUS
  <2> HIDE DEF lost, left
  <2>4. left \in SUBSET Application /\ lost \in SUBSET (Procs \cup {"no report"})
    BY <1>2, <2>2
  <2>5. /\ ctl' \in Control /\ ctl'.todo = left /\ ctl'.errors = ctl.errors \cup lost
        /\ ctl'.round = ctl.round /\ ctl'.pass = ctl.pass /\ ctl'.found = ctl.found
        /\ ctl'.result = ctl.result /\ ctl'.received = ctl.received
        /\ ctl'.failures = ctl.failures /\ ctl'.raised = ctl.raised
    BY <1>2, <2>1, <2>4, Noted
  <2> QED BY <1>3, <2>0, <2>2, <2>3, <2>5 DEF Tidies
<1>5. PhaseOK'
  BY <1>2, <1>4, PhaseTidied DEF Verifying
<1>6. VerifiedOK'
  <2>1. \A q \in setting.known : Alive(q)' = Alive(q)
    BY <1>2, <1>3, ProcessesLast
  <2>2. /\ ctl'.pass = ctl.pass /\ setting' = setting /\ ctl'.received = ctl.received /\ Alive(Launcher)' = Alive(Launcher)
        /\ ctl.errors \subseteq ctl'.errors
    BY <1>2, <1>3, <1>4, ProcessesLast DEF Tidies
  <2>3. \A q \in setting.known \ ctl'.todo : Alive(q)' => q \in ctl'.errors
    BY <1>2, <1>4, <2>1, <2>2 DEF Inv, VerifiedOK
  <2>4. Admitted => Received \/ "no report" \in ctl'.errors
    BY <1>2, <2>2 DEF Inv, VerifiedOK, Verifying
  <2>5. Alive(Launcher) => setting.slow /\ Launcher \in ctl'.errors
    BY <1>2, <2>2 DEF Inv, VerifiedOK
  <2> QED BY <1>2, <2>2, <2>3, <2>4, <2>5 DEF VerifiedOK, NobodyLeftUnreported, Admitted, Received
<1>7. Undisturbed' => Undisturbed
  BY <1>3, <1>4, ProcessesLast DEF Undisturbed, Tidies
<1>8. Undisturbed => ~Alive(p)
  <2>1. SUFFICES ASSUME Undisturbed, Alive(p) PROVE FALSE
    OBVIOUS
  <2>2. /\ Admitted /\ ~setting.slow /\ setting.stuck = {} /\ setting.denied = {} /\ TimeoutPasses /\ Target \in setting.known
    BY <1>1, <2>1 DEF Undisturbed, Inv, PhaseOK, Admitted
  <2>3. Doomed(p) /\ Doomed(Target)
    BY <1>2, <2>1, <2>2 DEF Inv, CleanOK, Verifying
  <2>4. ~Running(p) /\ ~Running(Target)
    BY <1>2, <2>2, <2>3, Idle DEF Doomed
  <2>5. ~Alive(Launcher)
    BY <1>2, <2>2 DEF Inv, VerifiedOK
  <2>6. os[p].state = "zombie" => Orphan(p)
    BY <1>2, <2>4, <2>5, ProcsAssumption DEF Orphan, Alive, Running, Application
  <2>7. os[p].state # "zombie"
    BY <1>2, <2>2, <2>6, Idle
  <2> QED BY <1>2, <2>1, <2>4, <2>7 DEF Alive, Running, TypeOK, Process
<1>9. \A q \in setting.known : Doomed(q) => Doomed(q)'
  BY <1>2, <1>3, ProcessesLast
<1>10. CleanOK'
  BY <1>2, <1>4, <1>7, <1>8, <1>9 DEF Inv, CleanOK, Tidies, Verifying
<1> QED BY <1>2, <1>4, <1>5, <1>6, <1>10, Tidied DEF Verifying

(* A cleanup returns: run keeps the status it had, or takes the one found.    *)
LEMMA AllVerifiedKeeps == ASSUME Inv, AllVerified, UNCHANGED <<setting, at>> PROVE Inv'
<1> DEFINE c == [ctl EXCEPT !.result = IF @ = None THEN ctl.found ELSE @, !.failures = @ \cup ctl.errors]
<1>1. /\ ctl \in Control /\ TypeOK /\ pc = "each" /\ ctl.todo = {} /\ os' = os /\ socket' = socket
      /\ ctl.pass \in {0, 1, 2}
  BY Passes DEF Inv, TypeOK, AllVerified
<1>2. /\ c \in Control /\ c.result = (IF ctl.result = None THEN ctl.found ELSE ctl.result)
      /\ c.failures = ctl.failures \cup ctl.errors
      /\ c.round = ctl.round /\ c.pass = ctl.pass /\ c.todo = ctl.todo /\ c.found = ctl.found
      /\ c.received = ctl.received /\ c.errors = ctl.errors /\ c.raised = ctl.raised
  BY <1>1 DEF Control
<1>3. \/ ctl.pass \in {0, 1} /\ ctl.errors # {} /\ Shutdown(c, 2, "TERM")
      \/ (ctl.pass = 2 \/ ctl.errors = {}) /\ pc' = "end" /\ ctl' = c
  BY <1>1 DEF AllVerified, Returns, Cleaned, GoOn
<1> HIDE DEF c
<1>4. /\ Admitted /\ c.result # None => Reaped /\ c.result = os[Target].fate
      /\ c.received => c.result # None \/ c.raised
  BY <1>1, <1>2 DEF Inv, StatusOK, Received
<1>5. Alive(Launcher) => setting.slow /\ Launcher \in ctl.errors
  BY <1>1 DEF Inv, VerifiedOK
<1>6. /\ Admitted /\ ~setting.slow /\ setting.stuck = {} /\ setting.denied = {} /\ ~c.raised
      /\ os[Launcher].fate \in {None, <<"exit", 0>>} /\ socket' # "closed" /\ "run" \notin c.failures
      => c.failures = {} /\ ctl.errors = {}
  BY <1>1, <1>2 DEF Inv, CleanOK, Undisturbed
<1>7. CASE ctl.pass \in {0, 1} /\ ctl.errors # {} /\ Shutdown(c, 2, "TERM")
  <2>1. ~setting.slow => ~Running(Launcher)
    BY <1>5 DEF Alive, Running
  <2>2. Ready(c, 2, socket')
    BY <1>1, <1>2, <1>4, <1>6, <2>1 DEF Ready
  <2> QED BY <1>1, <1>7, <2>2, Begins
<1>8. CASE (ctl.pass = 2 \/ ctl.errors = {}) /\ pc' = "end" /\ ctl' = c
  <2>1. MoreSignals
    BY <1>1, Unmoved
  <2>2. /\ FatesOK' /\ LauncherOK' /\ Control' = Control /\ Launcher \in Procs /\ Target \in Procs
        /\ Admitted' = Admitted /\ Reaped' = Reaped /\ Reported' = Reported /\ Running(Launcher)' = Running(Launcher)
        /\ setting.known \subseteq Application /\ Application \subseteq Procs
        /\ \A p \in Procs : Alive(p)' = Alive(p)
    BY <2>1, ProcessesLast
  <2>3. TypeOK'
    BY <1>1, <1>2, <1>8, <2>2 DEF TypeOK
  <2>4. SocketOK'
    BY <1>1, <1>2, <1>8, <2>2 DEF Inv, WorldOK, SocketOK, Received
  <2>5. PhaseOK'
    <3>1. ctl.pass = 0 /\ Admitted => Received
      BY <1>1 DEF Inv, PhaseOK, Verifying
    <3>2. ctl.pass # 3 /\ (setting.start = "running" => Target \in setting.known) /\ setting' = setting
      BY <1>1, NotCleaning DEF Inv, PhaseOK
    <3> QED BY <1>1, <1>2, <1>8, <2>2, <3>1, <3>2 DEF PhaseOK, Verifying, Received
  <2>6. VerifiedOK'
    <3>1. ASSUME NEW p \in Answerable, Alive(p) PROVE p \in ctl.errors
      <4>1. CASE p = Launcher
        BY <1>5, <3>1, <4>1
      <4>2. CASE p \in setting.known /\ ctl.pass \in {1, 2}
        BY <1>1, <3>1, <4>2 DEF Inv, VerifiedOK
      <4>3. CASE ctl.pass = 0 /\ Admitted /\ p = Target
        <5>1. Received /\ Reaped
          BY <1>1, <4>3 DEF Inv, PhaseOK, Verifying, WorldOK, SocketOK, Reaped, Reported
        <5> QED BY <3>1, <4>3, <5>1 DEF Inv, WorldOK, LauncherOK, Alive
      <4> QED BY <1>1, <4>1, <4>2, <4>3, NotCleaning DEF Answerable
    <3>2. Answerable' = Answerable /\ Answerable \subseteq Procs
      BY <1>2, <1>8, <2>2 DEF Answerable
    <3>3. NobodyLeftUnreported'
      BY <1>2, <1>8, <2>2, <3>1, <3>2 DEF NobodyLeftUnreported
    <3> QED BY <1>8, <3>3 DEF VerifiedOK, Verifying
  <2>7. StatusOK'
    BY <1>1, <1>2, <1>4, <1>8, <2>2 DEF Inv, StatusOK, Received
  <2>8. SecondPassOK'
    <3>1. Admitted => Received \/ ctl.pass = 2
      BY <1>1, <1>8 DEF Inv, VerifiedOK, PhaseOK, Verifying
    <3>2. Admitted /\ ctl.pass = 2 /\ ~setting.slow /\ ~ctl.raised =>
              /\ ~Running(Launcher) /\ (Received \/ at # "left" \/ socket = "closed")
      BY <1>1 DEF Inv, SecondPassOK, Verifying
    <3> QED BY <1>1, <1>2, <1>8, <2>2, <3>1, <3>2 DEF SecondPassOK, Received
  <2>9. CleanOK'
    <3>1. Undisturbed' => c.failures = {} /\ ctl.errors = {}
      BY <1>1, <1>2, <1>6, <1>8 DEF Undisturbed, Admitted
    <3> QED BY <1>2, <1>8, <3>1 DEF CleanOK, Verifying
  <2> QED BY <2>2, <2>3, <2>4, <2>5, <2>6, <2>7, <2>8, <2>9 DEF Inv, WorldOK
<1> QED BY <1>3, <1>7, <1>8

-----------------------------------------------------------------------------
(* It receives the record.                                                    *)

LEMMA AcceptKeeps == ASSUME Inv, Accept, UNCHANGED <<setting, at>> PROVE Inv'
<1>1. /\ TypeOK /\ pc = "accept" /\ pc' = "read" /\ ctl' = ctl /\ os' = os /\ socket' = socket
      /\ socket \in {"open", "written"} /\ setting' = setting /\ at' = at
  BY DEF Inv, Accept, Go
<1>2. Control' = Control
  BY DEF Control
<1>3. TypeOK'
  BY <1>1, <1>2 DEF TypeOK
<1>4. WorldOK'
  BY <1>1 DEF Inv, WorldOK, FatesOK, LauncherOK, SocketOK, Admitted, Reaped, Reported, Received, Running
<1>5. PhaseOK'
  BY <1>1 DEF Inv, PhaseOK, Admitted, Received, Verifying
<1>6. VerifiedOK'
  BY <1>1 DEF VerifiedOK, NobodyLeftUnreported, Verifying
<1>7. StatusOK' /\ SecondPassOK'
  BY <1>1 DEF Inv, StatusOK, SecondPassOK, Admitted, Reaped, Received, Verifying, Running
<1>8. CleanOK'
  BY <1>1 DEF Inv, CleanOK, Undisturbed, Admitted, Doomed, Running, Verifying
<1> QED BY <1>3, <1>4, <1>5, <1>6, <1>7, <1>8 DEF Inv

LEMMA DrainedKeeps == ASSUME Inv, Drained, UNCHANGED <<setting, at>> PROVE Inv'
<1>1. /\ TypeOK /\ pc = "drain" /\ pc' = "target" /\ ctl' = ctl /\ os' = os /\ socket' = socket
      /\ setting' = setting /\ at' = at
  BY DEF Inv, Drained, Go
<1>2. MoreSignals
  BY <1>1, Unmoved
<1>3. Tidies
  BY <1>1, <1>2 DEF Tidies, Inv, TypeOK, PhaseOK
<1>4. PhaseOK'
  BY <1>1 DEF Inv, PhaseOK, Admitted, Received, Verifying
<1>5. VerifiedOK'
  BY <1>1 DEF VerifiedOK, NobodyLeftUnreported, Verifying
<1>6. CleanOK'
  BY <1>1 DEF Inv, CleanOK, Undisturbed, Admitted, Verifying
<1> QED BY <1>1, <1>3, <1>4, <1>5, <1>6, Tidied DEF Verifying

(* A failure of the run itself begins a cleanup, whatever it is called.       *)
LEMMA Failing ==
    ASSUME Inv, ctl.pass = 0, NEW what \in {"run", "controller"},
           what = "controller" => socket' = "closed",
           socket' = socket \/ (socket' = "closed" /\ pc = "read"),
           Shutdown([ctl EXCEPT !.failures = @ \cup {what}], 1, "TERM"),
           UNCHANGED <<setting, at, os>>
    PROVE  Inv'
<1> DEFINE c == [ctl EXCEPT !.failures = @ \cup {what}]
<1>1. /\ c \in Control /\ c.received = ctl.received /\ c.result = ctl.result /\ c.raised = ctl.raised
      /\ what \in c.failures
  BY DEF Inv, TypeOK, Control
<1> HIDE DEF c
<1>2. /\ Admitted /\ c.result # None => Reaped /\ c.result = os[Target].fate
      /\ c.received => c.result # None \/ c.raised
  BY <1>1 DEF Inv, StatusOK, Received
<1>3. Ready(c, 1, socket')
  BY <1>1, <1>2 DEF Ready
<1> QED BY <1>3, Begins DEF c

LEMMA RunFailsKeeps == ASSUME Inv, Fails \/ RootNeverComes, UNCHANGED <<setting, at>> PROVE Inv'
<1>1. ctl.pass = 0
  BY DEF Fails, RootNeverComes, Inv, PhaseOK
<1>2. RunFails
  BY DEF Fails, RootNeverComes
<1> QED BY <1>1, <1>2, Failing DEF RunFails

(* A reception that gives up: in the run a failure, in a cleanup the second   *)
(* time an error.                                                             *)
LEMMA NotReceivedKeeps ==
    ASSUME Inv, NotReceived, pc \in {"accept", "read"}, UNCHANGED <<setting, at, os>>,
           socket' = socket \/ (socket' = "closed" /\ pc = "read"),
           pc = "read" => socket' = "closed",
           ctl.round # "run" \/ pc = "read",
           Admitted /\ ~setting.slow /\ at = "left" => socket' = "closed",
           ~(ctl.round = "second" /\ Undisturbed')
    PROVE  Inv'
<1>1. /\ ctl \in Control /\ TypeOK /\ ctl.round \in {"run", "first", "second"} /\ Admitted /\ ~Received
      /\ (ctl.pass = 0 <=> ctl.round = "run") /\ ctl.pass \in {0, 1, 2}
  BY Passes DEF Inv, TypeOK, Control, PhaseOK
<1>2. MoreSignals
  BY <1>1, Unmoved
<1>3. /\ FatesOK' /\ LauncherOK' /\ Control' = Control /\ Launcher \in Procs /\ Target \in Procs
      /\ Admitted' = Admitted /\ Reaped' = Reaped /\ Reported' = Reported /\ Running(Launcher)' = Running(Launcher)
  BY <1>2, ProcessesLast
<1>4. CASE ctl.round = "run"
  <2>1. Shutdown([ctl EXCEPT !.failures = @ \cup {"controller"}], 1, "TERM")
    BY <1>4 DEF NotReceived
  <2> QED BY <1>1, <1>4, <2>1, Failing
<1>5. CASE ctl.round = "first"
  <2>1. pc' = "wait" /\ ctl' = ctl /\ setting' = setting /\ at' = at /\ os' = os
    BY <1>5 DEF NotReceived, Go
  <2>2. TypeOK'
    BY <1>1, <1>3, <2>1 DEF TypeOK
  <2>3. SocketOK'
    BY <1>1, <1>3, <2>1 DEF Inv, WorldOK, SocketOK, Received
  <2>4. PhaseOK'
    <3>1. ctl.pass \in {1, 2} /\ ctl.pass # 3 /\ (ctl.pass = 0 => FALSE)
      BY <1>1, <1>5, NotCleaning
    <3>2. (setting.start = "running" => Target \in setting.known) /\ ctl.todo \subseteq setting.known
      BY DEF Inv, PhaseOK
    <3> QED BY <2>1, <3>1, <3>2 DEF PhaseOK, Verifying
  <2>5. VerifiedOK'
    BY <2>1 DEF VerifiedOK, NobodyLeftUnreported, Verifying
  <2>6. StatusOK' /\ SecondPassOK'
    BY <1>1, <1>3, <2>1 DEF Inv, StatusOK, SecondPassOK, Received, Verifying
  <2>7. CleanOK'
    BY <2>1 DEF Inv, CleanOK, Undisturbed, Admitted, Verifying
  <2> QED BY <1>3, <2>2, <2>3, <2>4, <2>5, <2>6, <2>7 DEF Inv, WorldOK
<1>6. CASE ctl.round = "second"
  <2> DEFINE c == [ctl EXCEPT !.errors = @ \cup {"no report"}]
  <2>1. /\ pc' = "launcher" /\ ctl' = c /\ setting' = setting /\ at' = at /\ os' = os
    BY <1>6 DEF NotReceived, GoOn
  <2>2. /\ c \in Control /\ c.errors = ctl.errors \cup {"no report"} /\ c.round = ctl.round
        /\ c.result = ctl.result /\ c.failures = ctl.failures /\ c.pass = ctl.pass /\ c.todo = ctl.todo
        /\ c.found = ctl.found /\ c.received = ctl.received /\ c.raised = ctl.raised
    BY <1>1 DEF Control
  <2> HIDE DEF c
  <2>3. TypeOK'
    BY <1>1, <1>3, <2>1, <2>2 DEF TypeOK
  <2>4. SocketOK'
    BY <1>1, <1>3, <2>1, <2>2 DEF Inv, WorldOK, SocketOK, Received
  <2>5. PhaseOK'
    <3>1. ctl.pass \in {1, 2} /\ ctl.pass # 3 /\ ctl.pass # 0
      BY <1>1, <1>6, NotCleaning
    <3>2. (setting.start = "running" => Target \in setting.known) /\ ctl.todo \subseteq setting.known
      BY DEF Inv, PhaseOK
    <3> QED BY <2>1, <2>2, <3>1, <3>2 DEF PhaseOK, Verifying
  <2>6. VerifiedOK'
    BY <2>1, <2>2 DEF VerifiedOK, NobodyLeftUnreported, Verifying
  <2>7. StatusOK'
    BY <1>1, <1>3, <2>1, <2>2 DEF Inv, StatusOK, Received
  <2>8. SecondPassOK'
    BY <1>1, <1>3, <2>1, <2>2 DEF Inv, SecondPassOK, Received, Verifying
  <2>9. CleanOK'
    BY <1>6 DEF CleanOK
  <2> QED BY <1>3, <2>3, <2>4, <2>5, <2>6, <2>7, <2>8, <2>9 DEF Inv, WorldOK
<1> QED BY <1>1, <1>4, <1>5, <1>6

LEMMA AcceptTimeoutKeeps == ASSUME Inv, AcceptTimeout, UNCHANGED <<setting, at>> PROVE Inv'
<1>1. /\ pc = "accept" /\ ctl.round # "run" /\ NotReceived /\ os' = os /\ socket' = socket
      /\ setting.slow \/ (socket \in {"none", "closed"} /\ (ctl.failures # {} \/ ~Busy))
  BY DEF AcceptTimeout
<1>2. ~Received /\ Admitted
  BY <1>1 DEF Inv, PhaseOK
<1>3. Admitted /\ ~setting.slow /\ at = "left" => socket' = "closed"
  BY <1>1, <1>2 DEF Inv, WorldOK, SocketOK, Reported
<1>4. ~(ctl.round = "second" /\ Undisturbed')
  <2>1. SUFFICES ASSUME ctl.round = "second", Undisturbed' PROVE FALSE
    OBVIOUS
  <2>2. /\ ~setting.slow /\ setting.stuck = {} /\ setting.denied = {} /\ os[Launcher].fate \in {None, <<"exit", 0>>} /\ socket # "closed"
        /\ socket' = socket /\ os' = os
    BY <1>1, <2>1 DEF Undisturbed
  <2>3. Undisturbed
    <3>1. ctl'.raised = ctl.raised /\ ctl'.failures = ctl.failures
      BY <1>1, <2>1 DEF NotReceived, GoOn, Inv, TypeOK, Control
    <3> QED BY <1>2, <2>1, <2>2, <3>1 DEF Undisturbed
  <2>4. socket = "none" /\ TimeoutPasses
    BY <1>1, <2>2, <2>3 DEF Inv, CleanOK, TimeoutPasses
  <2>5. Target \in setting.known /\ setting.known \subseteq Procs
    BY <1>2, SettingsAssumption DEF Inv, PhaseOK, Admitted, TypeOK, Setting, Procs
  <2>6. Doomed(Target)
    <3>1. ctl.pass > 0
      <4>1. ctl.pass # 0 /\ ctl.pass \in {0, 1, 2}
        BY <1>1, Passes DEF Inv, PhaseOK
      <4> QED BY <4>1
    <3> QED BY <1>1, <2>1, <2>3, <2>5, <3>1 DEF Inv, CleanOK
  <2>7. ~Running(Target)
    BY <2>2, <2>4, <2>5, <2>6, Idle DEF Doomed
  <2>8. at # "left"
    BY <1>2, <2>4 DEF Inv, WorldOK, SocketOK, Reported
  <2>9. os[Launcher].fate = None /\ Launcher \in Procs
    BY <2>2, <2>8 DEF Inv, WorldOK, FatesOK, Procs
  <2>10. Running(Launcher)
    BY <2>9 DEF Inv, WorldOK, FatesOK, Running
  <2>11. at = "wait" /\ os[Target].state # "zombie"
    BY <2>2, <2>4, <2>8, <2>10, Idle
  <2>12. os[Target].state \notin {"none", "gone"} /\ os[Target].state \in {"none", "running", "zombie", "gone"}
    BY <1>2, <2>5, <2>10, <2>11 DEF Inv, WorldOK, LauncherOK, Reaped, TypeOK, Process
  <2> QED BY <2>7, <2>11, <2>12 DEF Running
<1> QED BY <1>1, <1>3, <1>4, NotReceivedKeeps

LEMMA ReadFailsKeeps == ASSUME Inv, ReadFails, UNCHANGED <<setting, at>> PROVE Inv'
<1>1. pc = "read" /\ socket' = "closed" /\ NotReceived /\ os' = os
  BY DEF ReadFails
<1>2. ~Undisturbed'
  BY <1>1 DEF Undisturbed
<1> QED BY <1>1, <1>2, NotReceivedKeeps
(* The record arrives: it is of a target that is gone.                        *)
Learns(fate, result) == [ctl EXCEPT !.received = TRUE, !.found = fate, !.result = result]
LEMMA Learned ==
    ASSUME ctl \in Control, NEW fate \in Fates, NEW result \in Fates, ctl' = Learns(fate, result)
    PROVE  /\ ctl' \in Control /\ ctl'.received = TRUE /\ ctl'.found = fate /\ ctl'.result = result
           /\ ctl'.todo = ctl.todo /\ ctl'.errors = ctl.errors /\ ctl'.pass = ctl.pass
           /\ ctl'.round = ctl.round /\ ctl'.failures = ctl.failures /\ ctl'.raised = ctl.raised
  BY DEF Control, Learns

LEMMA ReadKeeps == ASSUME Inv, Read, UNCHANGED <<setting, at>> PROVE Inv'
<1>1. /\ ctl \in Control /\ TypeOK /\ ctl.round \in {"run", "first", "second"} /\ Admitted /\ ~Received
      /\ (ctl.pass = 0 <=> ctl.round = "run") /\ ctl.pass \in {0, 1, 2} /\ pc = "read"
      /\ socket = "written" /\ socket' = "none" /\ os' = os /\ setting' = setting /\ at' = at
  BY Passes DEF Inv, TypeOK, Control, PhaseOK, Read
<1>2. MoreSignals
  BY <1>1, Unmoved
<1>3. /\ FatesOK' /\ LauncherOK' /\ Control' = Control /\ Launcher \in Procs /\ Target \in Procs
      /\ Admitted' = Admitted /\ Reaped' = Reaped /\ Reported' = Reported /\ Running(Launcher)' = Running(Launcher)
  BY <1>1, <1>2, ProcessesLast
<1>4. Reported /\ Reaped /\ os[Target].state = "gone"
  BY <1>1 DEF Inv, WorldOK, SocketOK, LauncherOK, Reported, Reaped
<1> DEFINE fate == os[Target].fate
           result == IF ctl.round = "run" THEN fate ELSE ctl.result
<1>5. fate # None /\ fate \in Fates
  BY <1>1, <1>3, <1>4 DEF Inv, WorldOK, FatesOK, TypeOK, Process
<1>6. result \in Fates /\ (result # None => result = fate) /\ (ctl.round = "run" => result = fate)
  BY <1>1, <1>5 DEF Inv, StatusOK, Control
<1>7. /\ ctl' = Learns(fate, result)
      /\ ctl.round = "run" => pc' = "drain"
      /\ ctl.round = "first" => pc' = "wait"
      /\ ctl.round = "second" => pc' = "launcher"
  BY <1>1 DEF Read, Learns, GoOn, Control
<1> HIDE DEF result
<1>8. /\ ctl' \in Control /\ ctl'.received = TRUE /\ ctl'.found = fate /\ ctl'.result = result
      /\ ctl'.todo = ctl.todo /\ ctl'.errors = ctl.errors /\ ctl'.pass = ctl.pass
      /\ ctl'.round = ctl.round /\ ctl'.failures = ctl.failures /\ ctl'.raised = ctl.raised
  BY <1>1, <1>5, <1>6, <1>7, Learned
<1>9. TypeOK'
  BY <1>1, <1>3, <1>7, <1>8 DEF TypeOK
<1>10. SocketOK'
  BY <1>1, <1>3, <1>4, <1>7, <1>8 DEF Inv, WorldOK, SocketOK, Received, Reported
<1>11. PhaseOK'
  <2>1. (setting.start = "running" => Target \in setting.known) /\ ctl.todo \subseteq setting.known /\ Received'
    BY <1>8 DEF Inv, PhaseOK, Received
  <2>2. ctl.pass # 3 /\ (ctl.round = "run" => ctl.pass = 0) /\ (ctl.round # "run" => ctl.pass \in {1, 2} /\ ctl.pass # 0)
    BY <1>1, NotCleaning
  <2> QED BY <1>1, <1>3, <1>7, <1>8, <2>1, <2>2 DEF PhaseOK, Verifying
<1>12. VerifiedOK'
  BY <1>1, <1>7, <1>8 DEF VerifiedOK, NobodyLeftUnreported, Verifying, Received
<1>13. StatusOK'
  <2>1. ctl.round = "run" => ctl'.result # None
    BY <1>5, <1>6, <1>8
  <2>2. ctl.round # "run" => ctl.pass > 0 /\ pc' # "end"
    BY <1>1, <1>7
  <2> HIDE DEF fate
  <2>3. os'[Target].fate = fate
    BY <1>1 DEF fate
  <2> QED BY <1>1, <1>3, <1>4, <1>5, <1>6, <1>8, <2>1, <2>2, <2>3 DEF StatusOK, Received
<1>14. SecondPassOK'
  BY <1>1, <1>3, <1>7, <1>8 DEF Inv, SecondPassOK, Received, Verifying
<1>15. CleanOK'
  <2>1. Undisturbed' => Undisturbed
    BY <1>1, <1>8 DEF Undisturbed, Admitted
  <2>2. ctl.round = "second" /\ Undisturbed => \A p \in setting.known : Doomed(p)
    <3>1. ctl.round = "second" => ctl.pass > 0
      BY <1>1
    <3> QED BY <1>1, <3>1 DEF Inv, CleanOK
  <2>3. pc' # "kill" /\ (pc' \in Verifying => ctl.round = "second") /\ pc' \notin {"accept", "read"}
    BY <1>1, <1>7 DEF Verifying
  <2> QED BY <1>1, <1>8, <2>1, <2>2, <2>3 DEF Inv, CleanOK, Doomed, Running
<1> QED BY <1>3, <1>9, <1>10, <1>11, <1>12, <1>13, <1>14, <1>15 DEF Inv, WorldOK

(* Ctrl-C: the run's failures may have one more, and a second one raises.     *)
Interrupted(left, raised, failures) ==
    [ctl EXCEPT !.interrupts = left, !.raised = raised, !.failures = failures]
LEMMA FirstPass ==
    ASSUME NEW n
    PROVE  (n = 0 => n # 1 /\ n # 2 /\ ~(n > 0)) /\ (n = 2 => n # 0 /\ n # 1) /\ (n = 1 => n # 0 /\ n # 2)
  OBVIOUS
LEMMA Fewer == ASSUME NEW n \in Nat, NEW m \in 0..n, m > 0 PROVE m - 1 \in 0..n
  OBVIOUS

Failures == SUBSET (Procs \cup {"run", "controller", "no report", "refused", "not started"})
Counted(c, raised, failures) ==
    /\ c \in Control /\ c.received = ctl.received /\ c.found = ctl.found /\ c.result = ctl.result
    /\ c.todo = ctl.todo /\ c.errors = ctl.errors /\ c.pass = ctl.pass
    /\ c.round = ctl.round /\ c.failures = failures /\ c.raised = raised
LEMMA Hit ==
    ASSUME ctl \in Control, NEW left \in 0..setting.interrupts, NEW raised \in BOOLEAN,
           NEW failures \in Failures
    PROVE  Counted(Interrupted(left, raised, failures), raised, failures)
<1> DEFINE c == Interrupted(left, raised, failures)
<1>1. /\ c.received = ctl.received /\ c.found = ctl.found /\ c.result = ctl.result
      /\ c.todo = ctl.todo /\ c.errors = ctl.errors /\ c.pass = ctl.pass
      /\ c.round = ctl.round /\ c.failures = failures /\ c.raised = raised
  BY DEF Control, Interrupted
<1>2. c \in Control
  BY DEF Control, Interrupted, Failures
<1> HIDE DEF c
<1>3. Counted(c, raised, failures)
  BY <1>1, <1>2 DEF Counted
<1> QED BY <1>3 DEF c

LEMMA InterruptKeeps == ASSUME Inv, Interrupt, UNCHANGED <<setting, at>> PROVE Inv'
<1>1. /\ ctl \in Control /\ TypeOK /\ ctl.pass \in {0, 1, 2} /\ pc # "end" /\ ctl.interrupts > 0 /\ os' = os
      /\ socket' = socket \/ (socket' = "closed" /\ pc = "read")
      /\ pc = "read" => socket' = "closed"
  BY Passes DEF Inv, TypeOK, Interrupt
<1> DEFINE left == ctl.interrupts - 1
<1>l. left \in 0..setting.interrupts
  <2>1. setting.interrupts \in Nat /\ ctl.interrupts \in 0..setting.interrupts
    BY <1>1, SettingsAssumption DEF TypeOK, Control, Setting
  <2> QED BY <1>1, <2>1, Fewer
<1>f. ctl.failures \in Failures /\ ctl.failures \cup {"not started"} \in Failures
  BY <1>1 DEF Control, Failures
<1>c. /\ ctl.pass = 2 => GoOn("end", [[ctl EXCEPT !.interrupts = left] EXCEPT !.raised = TRUE, !.pass = 3])
      /\ ctl.pass = 1 \/ (ctl.pass = 0 /\ setting.start = "launch failed")
            => Shutdown([[ctl EXCEPT !.interrupts = left] EXCEPT !.raised = TRUE], 2, "TERM")
      /\ ctl.pass = 0 /\ setting.start # "launch failed"
            => Shutdown([[ctl EXCEPT !.interrupts = left] EXCEPT
                            !.failures = IF Admitted THEN @ ELSE @ \cup {"not started"}], 1, "INT")
  <2> DEFINE e == [ctl EXCEPT !.interrupts = left]
  <2>1. e = [ctl EXCEPT !.interrupts = @ - 1]
    OBVIOUS
  <2>2. CASE ctl.pass = 2
    <3>1. ctl.pass # 0 /\ ctl.pass # 1
      BY <2>2, FirstPass
    <3> QED BY <2>2, <3>1, <2>1 DEF Interrupt
  <2>3. CASE ctl.pass = 1 \/ (ctl.pass = 0 /\ setting.start = "launch failed")
    <3>1. ~(ctl.pass = 0 /\ setting.start # "launch failed") /\ ctl.pass # 2
      BY <2>3, FirstPass
    <3> QED BY <2>3, <3>1, <2>1 DEF Interrupt
  <2>4. CASE ctl.pass = 0 /\ setting.start # "launch failed"
    <3>1. ctl.pass # 1 /\ ctl.pass # 2
      BY <2>4, FirstPass
    <3> QED BY <2>4, <3>1, <2>1 DEF Interrupt
  <2> QED BY <1>1, <2>2, <2>3, <2>4
<1> HIDE DEF left
<1>2. MoreSignals
  BY <1>1, Unmoved
<1>3. /\ FatesOK' /\ LauncherOK' /\ Control' = Control /\ Launcher \in Procs /\ Target \in Procs
      /\ Admitted' = Admitted /\ Reaped' = Reaped /\ Reported' = Reported
  BY <1>1, <1>2, ProcessesLast
<1>4. CASE ctl.pass = 2
  <2> DEFINE c == Interrupted(left, TRUE, ctl.failures)
             d == [c EXCEPT !.pass = 3]
  <2>0. Counted(c, TRUE, ctl.failures)
    BY <1>1, <1>l, <1>f, Hit
  <2>2. pc' = "end" /\ ctl' = d /\ setting' = setting /\ at' = at
    BY <1>1, <1>4, <1>c DEF Interrupted, GoOn, Control
  <2> HIDE DEF c
  <2>1. /\ c \in Control /\ c.received = ctl.received /\ c.found = ctl.found /\ c.result = ctl.result
        /\ c.todo = ctl.todo /\ c.raised = TRUE
    BY <2>0 DEF Counted
  <2>3. 3 \in 0..3
    OBVIOUS
  <2>4. /\ d \in Control /\ d.received = ctl.received /\ d.found = ctl.found /\ d.result = ctl.result
        /\ d.todo = ctl.todo /\ d.raised = TRUE /\ d.pass = 3
    BY <2>1, <2>3 DEF Control
  <2> HIDE DEF d
  <2>5. TypeOK'
    BY <1>1, <1>3, <2>2, <2>4 DEF TypeOK
  <2>6. SocketOK'
    BY <1>1, <1>3, <2>2, <2>4 DEF Inv, WorldOK, SocketOK, Received, PhaseOK
  <2>7. PhaseOK'
    <3>1. (setting.start = "running" => Target \in setting.known) /\ ctl.todo \subseteq setting.known
      BY DEF Inv, PhaseOK
    <3>2. 3 # 0
      OBVIOUS
    <3> QED BY <2>2, <2>4, <3>1, <3>2 DEF PhaseOK
  <2>8. VerifiedOK'
    BY <2>2, <2>4 DEF VerifiedOK, NobodyLeftUnreported, Abandoned
  <2>9. StatusOK'
    BY <1>1, <1>3, <2>2, <2>4 DEF Inv, StatusOK, Received
  <2>10. SecondPassOK' /\ CleanOK'
    BY <2>2, <2>4 DEF SecondPassOK, CleanOK, Undisturbed
  <2> QED BY <1>3, <2>5, <2>6, <2>7, <2>8, <2>9, <2>10 DEF Inv, WorldOK
<1>5. CASE ctl.pass = 1 \/ (ctl.pass = 0 /\ setting.start = "launch failed")
  <2> DEFINE c == Interrupted(left, TRUE, ctl.failures)
  <2>0. Counted(c, TRUE, ctl.failures)
    BY <1>1, <1>l, <1>f, Hit
  <2>2. Shutdown(c, 2, "TERM")
    <3>1. [[ctl EXCEPT !.interrupts = left] EXCEPT !.raised = TRUE] = c
      BY <1>1 DEF Interrupted, Control
    <3> QED BY <1>5, <1>c, <3>1
  <2> HIDE DEF c
  <2>1. /\ c \in Control /\ c.received = ctl.received /\ c.result = ctl.result /\ c.raised = TRUE
    BY <2>0 DEF Counted
  <2>3. Admitted /\ c.result # None => Reaped /\ c.result = os[Target].fate
    BY <2>1 DEF Inv, StatusOK
  <2>4. Ready(c, 2, socket')
    BY <1>1, <2>1, <2>3 DEF Ready
  <2> QED BY <1>1, <2>2, <2>4, Begins
<1>6. CASE ctl.pass = 0 /\ setting.start # "launch failed"
  <2> DEFINE failures == IF Admitted THEN ctl.failures ELSE ctl.failures \cup {"not started"}
             c == Interrupted(left, ctl.raised, failures)
  <2>0. failures \in Failures /\ ctl.raised \in BOOLEAN
    BY <1>1, <1>f DEF Control
  <2>n. Counted(c, ctl.raised, failures)
    <3> HIDE DEF failures
    <3> QED BY <1>1, <1>l, <2>0, Hit
  <2>2. Shutdown(c, 1, "INT")
    <3>1. [[ctl EXCEPT !.interrupts = left] EXCEPT !.failures = IF Admitted THEN @ ELSE @ \cup {"not started"}] = c
      BY <1>1 DEF Interrupted, Control
    <3> QED BY <1>6, <1>c, <3>1
  <2> HIDE DEF c
  <2>1. /\ c \in Control /\ c.received = ctl.received /\ c.result = ctl.result /\ c.raised = ctl.raised
        /\ c.failures = failures
    BY <2>n DEF Counted
  <2>3. /\ Admitted /\ c.result # None => Reaped /\ c.result = os[Target].fate
        /\ c.received => c.result # None \/ c.raised
    <3>1. ~(ctl.pass > 0)
      BY <1>6, FirstPass
    <3> QED BY <2>1, <3>1 DEF Inv, StatusOK, Received
  <2>4. (/\ Admitted /\ ~setting.slow /\ setting.stuck = {} /\ setting.denied = {} /\ ~c.raised
         /\ os[Launcher].fate \in {None, <<"exit", 0>>} /\ socket' # "closed" /\ "run" \notin c.failures)
       => c.failures = {}
    <3>1. Admitted => c.failures = ctl.failures
      BY <2>1
    <3> QED BY <1>1, <2>1, <3>1 DEF Inv, CleanOK, Undisturbed
  <2>5. Ready(c, 1, socket')
    <3>1. ~(1 = 2)
      OBVIOUS
    <3> HIDE DEF failures
    <3> QED BY <1>1, <2>1, <2>3, <2>4, <3>1 DEF Ready
  <2> QED BY <1>1, <2>2, <2>5, Begins
<1> QED BY <1>1, <1>4, <1>5, <1>6

-----------------------------------------------------------------------------
(* The invariant holds, and with it what the run promises.                    *)
LEMMA Stutter == ASSUME Inv, UNCHANGED vars PROVE Inv'
<1>0. setting' = setting /\ os' = os /\ at' = at /\ socket' = socket /\ pc' = pc /\ ctl' = ctl
  BY DEF vars
<1>1. TypeOK'
  <2>1. Control' = Control
    BY <1>0 DEF Control
  <2> QED BY <1>0, <2>1 DEF Inv, TypeOK
<1>2. WorldOK'
  BY <1>0 DEF Inv, WorldOK, FatesOK, LauncherOK, SocketOK, Admitted, Reaped, Reported, Received, Running
<1>3. PhaseOK'
  BY <1>0 DEF Inv, PhaseOK, Admitted, Received, Verifying
<1>6. StatusOK' /\ SecondPassOK'
  BY <1>0 DEF Inv, StatusOK, SecondPassOK, Admitted, Reaped, Received, Verifying, Running
<1>4. VerifiedOK'
  BY <1>0 DEF Inv, VerifiedOK, NobodyLeftUnreported, Answerable, Abandoned, Admitted, Received, Verifying,
              Running, Alive
<1>5. CleanOK'
  BY <1>0 DEF Inv, CleanOK, Undisturbed, Admitted, Doomed, Running, Verifying
<1> QED BY <1>1, <1>2, <1>3, <1>4, <1>5, <1>6 DEF Inv

LEMMA StepKeeps == ASSUME Inv, [Next]_vars PROVE Inv'
<1>1. CASE Main
  BY <1>1, RunFailsKeeps, AcceptKeeps, AcceptTimeoutKeeps, ReadFailsKeeps, ReadKeeps, DrainedKeeps,
     SignalNextKeeps, SignalRootKeeps, WaitKeeps, KillNextKeeps, KilledKeeps, TargetGoneKeeps,
     LauncherGoneKeeps, LauncherStaysKeeps, LauncherKilledKeeps, EachGoneKeeps, AllVerifiedKeeps DEF Main
<1>2. CASE (Fails \/ Interrupt) /\ UNCHANGED <<setting, at>>
  BY <1>2, RunFailsKeeps, InterruptKeeps
<1> QED BY <1>1, <1>2, LauncherStepKeeps, SystemStep, Stutter DEF Next

\* The invariant is inductive.
THEOREM ShutdownInvariant == Spec => []Inv
<1> QED BY InitOK, StepKeeps, PTL DEF Spec

\* The variables keep their types: there is no end in which the controller's errors, or
\* the launcher's place, are anything else than what run and launcher.py make of them.
THEOREM TypeCorrect == Spec => []TypeOK
<1>1. Inv => TypeOK
  BY DEF Inv
<1> QED BY <1>1, ShutdownInvariant, PTL

\* run never returns with a process it answers for alive and unmentioned: in whatever
\* order processes die, signals arrive, timeouts pass and the user presses Ctrl-C,
\* _shutdown_processes and _verify_completed_processes have looked at each of them after
\* the last signal, and named those that were still there.
THEOREM NobodyIsLeft == Spec => []NobodyLeftUnreported
<1>1. Inv => NobodyLeftUnreported
  BY DEF Inv, VerifiedOK
<1> QED BY <1>1, ShutdownInvariant, PTL

\* The status run returns is that with which the target died, whether it was received in
\* the run or in one of the cleanups; and it is only missing when the record was
\* lost, when run raises, or when a timeout passed early.
THEOREM StatusIsRight == Spec => []StatusIsTheTargets
<1>1. ASSUME Inv PROVE StatusIsTheTargets
  <2>1. pc = "end" /\ Admitted /\ ctl.result # None => ctl.result = os[Target].fate
    BY <1>1 DEF Inv, StatusOK
  <2>2. ASSUME pc = "end", Admitted, ctl.result = None, os[Launcher].fate = <<"exit", 0>>,
               socket # "closed", ~ctl.raised, ~setting.slow
        PROVE  FALSE
    <3>1. ~Received
      BY <1>1, <2>2 DEF Inv, StatusOK
    <3>2. at # "left"
      BY <1>1, <2>2, <3>1 DEF Inv, SecondPassOK, Verifying
    <3> QED BY <1>1, <2>2, <3>2 DEF Inv, WorldOK, FatesOK
  <2> QED BY <2>1, <2>2 DEF StatusIsTheTargets
<1> QED BY <1>1, ShutdownInvariant, PTL

\* A healthy run that is interrupted once ends without a failure and with the status of the
\* target: the launcher survives the INT it forwards, the record is read, and SIGKILL has
\* reached whoever ignored the INT before anybody is looked at.
THEOREM InterruptsAreClean == Spec => []InterruptIsClean
<1>1. ASSUME Inv PROVE InterruptIsClean
  <2>1. SUFFICES ASSUME pc = "end", Admitted, ~setting.slow, setting.stuck = {} /\ setting.denied = {}, ~ctl.raised,
                        os[Launcher].fate = <<"exit", 0>>, socket # "closed", "run" \notin ctl.failures
                 PROVE  ctl.failures = {} /\ ctl.result # None
    BY DEF InterruptIsClean
  <2>2. ctl.failures = {}
    BY <1>1, <2>1 DEF Inv, CleanOK, Undisturbed
  <2>3. at = "left"
    BY <1>1, <2>1 DEF Inv, WorldOK, FatesOK
  <2>4. Received
    BY <1>1, <2>1, <2>3 DEF Inv, SecondPassOK, Verifying
  <2> QED BY <1>1, <2>1, <2>2, <2>4 DEF Inv, StatusOK
<1> QED BY <1>1, ShutdownInvariant, PTL

=============================================================================
