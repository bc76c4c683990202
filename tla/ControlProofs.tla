--------------------------- MODULE ControlProofs ---------------------------
(***************************************************************************)
(* Proofs about the parts around the dialogue, each by an inductive        *)
(* invariant of its own: the watchdog, the VRAM monitor, the start-up with *)
(* the echo-cancel module, the reload, the supervisor and the synthetic    *)
(* driver.                                                                 *)
(***************************************************************************)
EXTENDS Supervisor, Watchdog, Reload, Startup, VramMonitor, FakeDriver, Flows, TLAPS

(* A set of natural numbers that has an element has a least one. *)
LEMMA LeastExists ==
  ASSUME NEW S \in SUBSET Nat, S # {}
  PROVE  Min(S) \in S /\ \A x \in S : Min(S) <= x
  BY Least DEF Min

-----------------------------------------------------------------------------
(* The watchdog. *)
WatchdogSafety == WatchdogInit /\ [][WatchdogNext]_watchdogVars

\* The check under way, and what the integers are.
CheckShape ==
    /\ fsm \in FsmStates /\ idle \in Nat /\ since \in Nat /\ alarms \in [FsmStates -> Nat]
    /\ \/ check = NoCheck
       \/ /\ ~checked
          /\ check \in [at : {"age", "latch", "claim"}, state : ExpectsActivity, idle : {0},
                        prev : FsmStates \union {"none"}]
    /\ fired \in FsmStates \union {"none"} /\ checked \in BOOLEAN

\* A state that was reported is either the present one, still latched and not about to be
\* claimed again, or one the FSM must enter anew before a check can read it.
ReportedIsLatched ==
    \A s \in FsmStates : alarms[s] # 0 =>
        /\ s \in ExpectsActivity /\ alarms[s] = 1
        /\ s = fsm => fired = s /\ (check # NoCheck => check.at # "claim" /\ check.state = s)
        /\ s # fsm => check.state # s

\* Over an interval in which nothing happened the check reads one and the same FSM state, and
\* nobody takes the latch from under it.
SilenceIsSeen ==
    /\ since > 0 /\ check # NoCheck =>
           check.state = fsm /\ (check.at = "claim" => check.prev = fired)
    /\ since > 0 /\ check # NoCheck /\ check.at # "age" => idle >= Threshold
    /\ checked /\ Threshold > 0 /\ fsm \in ExpectsActivity /\ since >= Threshold
          /\ idle >= Threshold => fired = fsm

WatchdogInv == CheckShape /\ ReportedIsLatched /\ SilenceIsSeen

(* The invariant of the watchdog holds before the first check. *)
LEMMA WatchdogInitial == WatchdogInit => WatchdogInv
<1> SUFFICES ASSUME WatchdogInit PROVE WatchdogInv
  OBVIOUS
<1>1. CheckShape
  BY DEF WatchdogInit, CheckShape, FsmStates
<1>2. ReportedIsLatched
  BY DEF WatchdogInit, ReportedIsLatched
<1>3. SilenceIsSeen
  BY WatchdogAssumption DEF WatchdogInit, SilenceIsSeen
<1> QED
  BY <1>1, <1>2, <1>3 DEF WatchdogInv

(* Every step of the FSM, of note_activity, of the check and of the         *)
(* keep-alive timer keeps it.                                               *)
LEMMA WatchdogStep == WatchdogInv /\ [WatchdogNext]_watchdogVars => WatchdogInv'
<1> SUFFICES ASSUME CheckShape, ReportedIsLatched, SilenceIsSeen, [WatchdogNext]_watchdogVars
             PROVE CheckShape' /\ ReportedIsLatched' /\ SilenceIsSeen'
  BY DEF WatchdogInv
<1> USE WatchdogAssumption
<1>a. ExpectsActivity \subseteq FsmStates /\ "none" \notin FsmStates
  BY DEF ExpectsActivity, FsmStates
<1>b. NoCheck.at = "none" /\ NoCheck.state = "none" /\ NoCheck.idle = 0 /\ NoCheck.prev = "none"
  BY DEF NoCheck
<1>1. CASE FsmMoves
  <2>1. CheckShape'
    BY <1>1, <1>a DEF CheckShape, FsmMoves, NoCheck
  <2>2. ReportedIsLatched'
    BY <1>1, <1>a, <1>b DEF CheckShape, ReportedIsLatched, FsmMoves
  <2>3. SilenceIsSeen'
    BY <1>1, <1>a, <1>b DEF CheckShape, SilenceIsSeen, FsmMoves
  <2> QED
    BY <2>1, <2>2, <2>3
<1>2. CASE NoteActivity
  <2>1. CheckShape'
    BY <1>2, <1>a DEF CheckShape, NoteActivity, NoCheck
  <2>2. ReportedIsLatched'
    BY <1>2, <1>a, <1>b DEF CheckShape, ReportedIsLatched, NoteActivity
  <2>3. SilenceIsSeen'
    BY <1>2, <1>a, <1>b DEF CheckShape, SilenceIsSeen, NoteActivity
  <2> QED
    BY <2>1, <2>2, <2>3
<1>3. CASE CheckState
  <2>a. check' # check => check'.at = "age" /\ check'.state = fsm /\ check = NoCheck
    BY <1>3 DEF CheckState, NoCheck
  <2>b. check = NoCheck /\ ~checked
    BY <1>3 DEF CheckState
  <2>1. CheckShape'
    BY <1>3, <1>a DEF CheckShape, CheckState, NoCheck
  <2>2. ReportedIsLatched'
    BY <1>3, <1>a, <1>b, <2>a, <2>b DEF CheckShape, ReportedIsLatched, CheckState
  <2>3. SilenceIsSeen'
    BY <1>3, <1>a, <1>b, <2>a, <2>b DEF CheckShape, SilenceIsSeen, CheckState
  <2> QED
    BY <2>1, <2>2, <2>3
<1>4. CASE CheckAge
  <2>a. check # NoCheck /\ ~checked
    BY <1>4 DEF CheckAge, CheckShape, NoCheck
  <2>b. check' # NoCheck =>
          check' = [at |-> "latch", state |-> check.state, idle |-> 0, prev |-> check.prev]
    BY <1>4, <2>a DEF CheckAge, CheckShape
  <2>1. CheckShape'
    BY <1>4, <1>a, <2>a, <2>b DEF CheckShape, CheckAge
  <2>2. ReportedIsLatched'
    BY <1>4, <1>a, <1>b, <2>a, <2>b DEF CheckShape, ReportedIsLatched, CheckAge
  <2>3. SilenceIsSeen'
    BY <1>4, <1>a, <1>b, <2>a, <2>b DEF CheckShape, SilenceIsSeen, CheckAge
  <2> QED
    BY <2>1, <2>2, <2>3
<1>5. CASE CheckLatch
  <2>a. check # NoCheck /\ ~checked
    BY <1>5 DEF CheckLatch, CheckShape, NoCheck
  <2>b. check' # NoCheck =>
          check' = [at |-> "claim", state |-> check.state, idle |-> 0, prev |-> fired]
    BY <1>5, <2>a DEF CheckLatch, CheckShape
  <2>1. CheckShape'
    BY <1>5, <1>a, <2>a, <2>b DEF CheckShape, CheckLatch
  <2>2. ReportedIsLatched'
    BY <1>5, <1>a, <1>b, <2>a, <2>b DEF CheckShape, ReportedIsLatched, CheckLatch
  <2>3. SilenceIsSeen'
    BY <1>5, <1>a, <1>b, <2>a, <2>b DEF CheckShape, SilenceIsSeen, CheckLatch
  <2> QED
    BY <2>1, <2>2, <2>3
<1>6. CASE CheckClaim
  <2>1. CheckShape'
    BY <1>6, <1>a DEF CheckShape, CheckClaim, NoCheck
  <2>2. ReportedIsLatched'
    BY <1>6, <1>a, <1>b DEF CheckShape, ReportedIsLatched, CheckClaim
  <2>3. SilenceIsSeen'
    BY <1>6, <1>a, <1>b DEF CheckShape, SilenceIsSeen, CheckClaim
  <2> QED
    BY <2>1, <2>2, <2>3
<1>7. CASE Interval
  <2>1. CheckShape'
    <3>1. idle' \in Nat /\ since' \in Nat /\ check = NoCheck
      BY <1>7 DEF CheckShape, Interval
    <3> QED
      BY <1>7, <3>1 DEF CheckShape, Interval
  <2>2. ReportedIsLatched'
    BY <1>7, <1>a, <1>b DEF CheckShape, ReportedIsLatched, Interval
  <2>3. SilenceIsSeen'
    BY <1>7, <1>a, <1>b DEF CheckShape, SilenceIsSeen, Interval
  <2> QED
    BY <2>1, <2>2, <2>3
<1>8. CASE UNCHANGED <<fsm, idle, fired, noting, check, checked, since, alarms>>
  BY <1>8 DEF CheckShape, ReportedIsLatched, SilenceIsSeen
<1> QED
  BY <1>1, <1>2, <1>3, <1>4, <1>5, <1>6, <1>7, <1>8
  DEF WatchdogNext, Check, KeepAlive, KeepAliveStop, watchdogVars

(* A stuck state is reported, and once, for every threshold and whatever the *)
(* order in which activity, transitions of the FSM and the four reads of a  *)
(* check come (watchdog.cpp).                                               *)
THEOREM WatchdogReports == WatchdogSafety => []StuckReportedOnce
<1>1. WatchdogInv => StuckReportedOnce
  BY DEF WatchdogInv, CheckShape, ReportedIsLatched, SilenceIsSeen, StuckReportedOnce,
     OneAlarmPerEpisode, StuckIsLatched
<1> QED
  BY WatchdogInitial, WatchdogStep, <1>1, PTL DEF WatchdogSafety

-----------------------------------------------------------------------------
(* The VRAM monitor. *)
VramSafety == VramInit /\ [][VramNext]_vramVars

(* classify_speaches, which walks the list, agrees with the first process of *)
(* it that is called speaches.                                              *)
LEMMA FirstDecides ==
  ASSUME NEW apps \in Apps
  PROVE  LET named == {i \in DOMAIN apps : apps[i].speaches} IN
         Wedged(apps) <=> named # {} /\ apps[Min(named)].used = WedgedFrom
<1> DEFINE named == {i \in DOMAIN apps : apps[i].speaches}
<1>1. PICK n \in 0..MaxApps : apps \in [1..n -> App]
  BY DEF Apps, SeqOf
<1>2. named \in SUBSET Nat /\ \A i \in DOMAIN apps : apps[i].used \in 0..WedgedFrom
  BY <1>1, VramAssumption DEF App
<1>3. CASE named = {}
  BY <1>3 DEF Wedged
<1>4. CASE named # {}
  <2> DEFINE m == Min(named)
  <2>1. m \in named /\ \A x \in named : m <= x
    BY <1>2, <1>4, LeastExists
  <2> HIDE DEF m
  <2>2. m \in 1..n /\ apps[m].speaches /\ \A j \in 1..(m - 1) : ~apps[j].speaches
    BY <1>1, <2>1, VramAssumption
  <2>3. \A i \in DOMAIN apps : apps[i].speaches /\ (\A j \in 1..(i - 1) : ~apps[j].speaches) => i = m
    BY <1>1, <2>1, <2>2, VramAssumption
  <2>4. Wedged(apps) <=> apps[m].used >= WedgedFrom
    BY <1>1, <2>2, <2>3 DEF Wedged
  <2>5. apps[m].used >= WedgedFrom <=> apps[m].used = WedgedFrom
    BY <1>1, <1>2, <2>2, VramAssumption
  <2> QED
    BY <1>4, <2>4, <2>5 DEF m
<1> QED
  BY <1>3, <1>4

\* What the thread holds, what was said and what was seen agree at every step of the tick.
VramInv ==
    /\ vram \in [at : {"first", "loop", "total", "apps", "ended"}, low : BOOLEAN, wedged : BOOLEAN]
    /\ said \in [low : BOOLEAN, wedged : BOOLEAN] /\ wedgeGauge \in BOOLEAN
    /\ snapshot \in [known : BOOLEAN, wedged : BOOLEAN]
    /\ seen \in [free : Nat, apps : Apps]
    /\ said.low = vram.low /\ (vram.low <=> seen.free < LowBelow)
    /\ said.wedged = vram.wedged /\ wedgeGauge = vram.wedged /\ snapshot.wedged = vram.wedged
    /\ vram.wedged = Wedged(seen.apps)

(* Before the first probe nothing is known and nothing was said. *)
LEMMA VramInitial == VramInit => VramInv
<1> SUFFICES ASSUME VramInit PROVE VramInv
  OBVIOUS
<1>1. <<>> \in Apps
  <2>1. <<>> \in [1..0 -> App] /\ 0 \in 0..MaxApps
    BY VramAssumption
  <2> QED
    BY <2>1, Zenon DEF Apps, SeqOf
<1>2. ~Wedged(<<>>)
  BY DEF Wedged
<1> QED
  <2>1. Wedged(<<>>) = FALSE /\ (LowBelow < LowBelow) = FALSE /\ LowBelow \in Nat
    BY <1>2, VramAssumption
  <2>2. vram.wedged = Wedged(seen.apps)
    BY <2>1 DEF VramInit
  <2> QED
    BY <1>1, <2>1, <2>2 DEF VramInit, VramInv

(* Every step of a tick keeps the locals of the thread, its reports and what *)
(* it last read together.                                                   *)
LEMMA VramStep == VramInv /\ [VramNext]_vramVars => VramInv'
<1> SUFFICES ASSUME VramInv, [VramNext]_vramVars PROVE VramInv'
  OBVIOUS
<1> USE VramAssumption
<1>1. CASE FirstProbe
  BY <1>1 DEF VramInv, FirstProbe
<1>2. CASE TestStop
  BY <1>2 DEF VramInv, TestStop
<1>3. CASE ProbeTotal
  <2>1. PICK free \in {Failed} \union 0..LowBelow :
           /\ vram' = [vram EXCEPT !.at = "apps", !.low = NowLow(free, vram.low)]
           /\ said' = [said EXCEPT !.low = IF vram'.low # vram.low THEN vram'.low ELSE said.low]
           /\ seen' = [seen EXCEPT !.free = IF free = Failed THEN seen.free ELSE free]
    BY <1>3 DEF ProbeTotal
  <2>2. /\ said.low = vram.low /\ (vram.low <=> seen.free < LowBelow) /\ seen.free \in Nat
        /\ vram \in [at : {"first", "loop", "total", "apps", "ended"}, low : BOOLEAN, wedged : BOOLEAN]
        /\ said \in [low : BOOLEAN, wedged : BOOLEAN] /\ seen \in [free : Nat, apps : Apps]
    BY DEF VramInv
  <2>3. CASE free = Failed
    <3>1. vram' = [vram EXCEPT !.at = "apps"] /\ said' = said /\ seen' = seen
      BY <2>1, <2>2, <2>3 DEF NowLow
    <3> QED
      BY <1>3, <3>1 DEF VramInv, ProbeTotal
  <2>4. CASE free # Failed
    <3>1. free \in Nat
      BY <2>4
    <3>2. PICK low \in BOOLEAN : low = NowLow(free, vram.low) /\ (low <=> free < LowBelow)
      <4>1. CASE free < LowBelow
        BY <2>4, <4>1 DEF NowLow
      <4>2. CASE ~(free < LowBelow)
        <5>1. NowLow(free, vram.low) = FALSE
          BY <2>4, <4>2 DEF NowLow
        <5> QED
          BY <4>2, <5>1
      <4> QED
        BY <4>1, <4>2
    <3>3. /\ vram' = [vram EXCEPT !.at = "apps", !.low = low]
          /\ said' = [said EXCEPT !.low = low]
          /\ seen' = [seen EXCEPT !.free = free]
      BY <2>1, <2>2, <2>4, <3>2
    <3> QED
      BY <1>3, <3>1, <3>2, <3>3 DEF VramInv, ProbeTotal
  <2> QED
    BY <2>3, <2>4
<1>4. CASE ProbeApps
  <2>1. PICK apps \in Apps :
           /\ wedgeGauge' = Wedged(apps)
           /\ snapshot' = [known |-> TRUE, wedged |-> Wedged(apps)]
           /\ vram' = [vram EXCEPT !.at = "loop", !.wedged = Wedged(apps)]
           /\ said' = [said EXCEPT !.wedged = IF Wedged(apps) # vram.wedged THEN Wedged(apps) ELSE said.wedged]
           /\ seen' = [seen EXCEPT !.apps = apps]
    BY <1>4 DEF ProbeApps
  <2>2. PICK w \in BOOLEAN : w = Wedged(apps)
    BY Zenon DEF Wedged
  <2>3. said.wedged = vram.wedged /\ said \in [low : BOOLEAN, wedged : BOOLEAN]
    BY DEF VramInv
  <2>4. said' = [said EXCEPT !.wedged = w]
    BY <2>1, <2>2, <2>3
  <2>5. /\ wedgeGauge' = w /\ snapshot' = [known |-> TRUE, wedged |-> w]
        /\ vram' = [vram EXCEPT !.at = "loop", !.wedged = w]
    BY <2>1, <2>2
  <2>6. seen'.apps = apps /\ seen' \in [free : Nat, apps : Apps] /\ seen'.free = seen.free
    BY <2>1 DEF VramInv
  <2>7. vram'.wedged = Wedged(seen'.apps)
    BY <2>2, <2>5, <2>6 DEF VramInv
  <2> QED
    BY <2>4, <2>5, <2>6, <2>7 DEF VramInv
<1>5. CASE UNCHANGED <<vram, wedgeGauge, snapshot, seen, said>>
  BY <1>5 DEF VramInv
<1> QED
  BY <1>1, <1>2, <1>3, <1>4, <1>5 DEF VramNext, VramTick, VramStop, vramVars

(* Between ticks what was last reported, the gauge and the snapshot agree   *)
(* with what was last read, for every threshold and every list of processes *)
(* (bootstrap.cpp, speaches_wedge.cpp).                                     *)
THEOREM VramReportsAgree == VramSafety => []ReportsAgree
<1>1. VramInv => ReportsAgree
  <2> SUFFICES ASSUME VramInv PROVE ReportsAgree
    OBVIOUS
  <2>1. seen.apps \in Apps
    BY DEF VramInv
  <2>2. LET named == {i \in DOMAIN seen.apps : seen.apps[i].speaches} IN
        Wedged(seen.apps) <=> named # {} /\ seen.apps[Min(named)].used = WedgedFrom
    BY <2>1, FirstDecides, Zenon
  <2> QED
    BY <2>2 DEF VramInv, ReportsAgree
<1> QED
  BY VramInitial, VramStep, <1>1, PTL DEF VramSafety

-----------------------------------------------------------------------------
(* Start-up, and the echo-cancel module. *)
StartupSafety == StartupInit /\ [][StartupNext]_startupVars

Steps == {"off", "find", "load", "handoff", "demo", "build", "checks", "loop", "look", "closing",
          "restart", "return"}

\* The indices of the modules are the server's, and none is used twice.
ModulesShape ==
    /\ issued \in Nat
    /\ modules \subseteq [id : Nat, names : Names]
    /\ \A m \in modules : m.id > 0 /\ m.id <= issued
    /\ \A m, n \in modules : m.id = n.id => m = n

\* A process has an index exactly while its SystemAec is active, and owns nothing otherwise.
ProcessShape ==
    /\ proc \in [Processes -> [at : Steps, cfg : Settings \union {NoCfg}, active : BOOLEAN,
                               owned : BOOLEAN, id : Nat, pulse : Names \union {"default"}]]
    /\ \A p \in Processes :
          /\ proc[p].id <= issued
          /\ proc[p].active <=> proc[p].id # NoModule
          /\ proc[p].owned => proc[p].active
          /\ proc[p].at \in {"off", "find", "load"} => ~proc[p].active

\* Past the gates of SystemAec a process that asked for the canceller has it.
PastTheGate ==
    \A p \in Processes :
        proc[p].at \notin {"off", "find", "load", "return"} /\ proc[p].cfg.aec => proc[p].active

\* The module a process uses is loaded, or was unloaded by somebody the history names: two
\* processes that use one module both know it.
UsedIsLoaded ==
    /\ \A p \in Processes : proc[p].active => proc[p].id \in Ids \/ p \in excused
    /\ \A p, q \in Processes : p # q /\ proc[p].active /\ proc[p].id = proc[q].id => p \in excused

StartupInv == ModulesShape /\ ProcessShape /\ PastTheGate /\ UsedIsLoaded /\ NoModuleIsForgotten

(* Before the first launch no process runs and no module is loaded. *)
LEMMA StartupInitial == StartupInit => StartupInv
<1> SUFFICES ASSUME StartupInit PROVE StartupInv
  OBVIOUS
<1>1. Dead \in [at : Steps, cfg : Settings \union {NoCfg}, active : BOOLEAN,
                owned : BOOLEAN, id : Nat, pulse : Names \union {"default"}]
  BY DEF Dead, Steps, NoModule, Names
<1>2. Dead.id = 0 /\ Dead.active = FALSE /\ Dead.owned = FALSE /\ Dead.at = "off"
  BY DEF Dead, NoModule
<1> QED
  BY <1>1, <1>2 DEF StartupInit, StartupInv, ModulesShape, ProcessShape, PastTheGate, UsedIsLoaded,
     NoModuleIsForgotten, NoModule

(* main() moves on: nothing of SystemAec changes. *)
LEMMA OnlyGoes ==
  ASSUME StartupInv, NEW p \in Processes, NEW at \in Steps, Goes(p, at),
         proc[p].at \notin {"off", "find", "load"} \/ ~proc[p].active,
         at \in {"off", "find", "load"} => ~proc[p].active,
         at \notin {"off", "find", "load", "return"} /\ proc[p].cfg.aec => proc[p].active
  PROVE  StartupInv'
<1>1. /\ proc' = [proc EXCEPT ![p].at = at]
      /\ UNCHANGED <<modules, told, issued, lives, orphans, foreign, excused>>
  BY DEF Goes
<1>2. ModulesShape'
  BY <1>1 DEF StartupInv, ModulesShape
<1>3. ProcessShape'
  BY <1>1 DEF StartupInv, ProcessShape
<1>4. PastTheGate'
  BY <1>1 DEF StartupInv, PastTheGate, ProcessShape
<1>5. UsedIsLoaded' /\ NoModuleIsForgotten'
  BY <1>1 DEF StartupInv, UsedIsLoaded, NoModuleIsForgotten, Ids, ProcessShape
<1> QED
  BY <1>2, <1>3, <1>4, <1>5 DEF StartupInv

(* A life begins or ends: the process has no module any more, and the one it *)
(* owned is gone or is noted as left behind.                                *)
LEMMA LetsGo ==
  ASSUME StartupInv, NEW p \in Processes, NEW self,
         self \in [at : Steps, cfg : Settings \union {NoCfg}, active : BOOLEAN,
                   owned : BOOLEAN, id : Nat, pulse : Names \union {"default"}],
         self.id = 0, self.active = FALSE, self.owned = FALSE,
         self.at \notin {"off", "find", "load", "return"} => ~self.cfg.aec,
         proc' = [proc EXCEPT ![p] = self], excused' = excused \ {p}, issued' = issued,
         \/ modules' = modules /\ orphans' = orphans \union Abandoned(p)
         \/ proc[p].owned /\ modules' = Without(proc[p].id) /\ orphans' = orphans \ Abandoned(p)
  PROVE  StartupInv'
<1>1. modules' \subseteq modules
  BY DEF Without
<1>2. ModulesShape'
  BY <1>1 DEF StartupInv, ModulesShape
<1>3. ProcessShape'
  <2>1. proc' \in [Processes -> [at : Steps, cfg : Settings \union {NoCfg}, active : BOOLEAN,
                                owned : BOOLEAN, id : Nat, pulse : Names \union {"default"}]]
    BY DEF StartupInv, ProcessShape
  <2>2. \A q \in Processes : proc'[q] = IF q = p THEN self ELSE proc[q]
    BY DEF StartupInv, ProcessShape
  <2>3. issued \in Nat
    BY DEF StartupInv, ModulesShape
  <2> QED
    BY <2>1, <2>2, <2>3 DEF StartupInv, ProcessShape, NoModule
<1>4. PastTheGate'
  BY DEF StartupInv, PastTheGate, ProcessShape
<1>5. \A q \in Processes : proc'[q] = IF q = p THEN self ELSE proc[q]
  BY DEF StartupInv, ProcessShape
<1>6. UsedIsLoaded'
  <2>1. ASSUME NEW q \in Processes, proc'[q].active PROVE proc'[q].id \in Ids' \/ q \in excused'
    <3>1. q # p /\ proc[q].active /\ proc'[q].id = proc[q].id
      BY <1>5, <2>1
    <3>2. CASE q \in excused
      BY <3>1, <3>2
    <3>3. CASE q \notin excused
      <4>1. PICK m \in modules : m.id = proc[q].id
        BY <3>1, <3>3 DEF StartupInv, UsedIsLoaded, Ids
      <4>2. proc[q].id # proc[p].id
        BY <3>1, <3>3 DEF StartupInv, UsedIsLoaded
      <4>3. m \in modules'
        BY <4>1, <4>2 DEF Without
      <4> QED
        BY <3>1, <4>1, <4>3 DEF Ids
    <3> QED
      BY <3>2, <3>3
  <2>2. ASSUME NEW q \in Processes, NEW r \in Processes, q # r, proc'[q].active, proc'[q].id = proc'[r].id
        PROVE  q \in excused'
    <3>1. q # p /\ proc[q].active /\ proc'[q].id = proc[q].id /\ proc[q].id # 0
      BY <1>5, <2>2 DEF StartupInv, ProcessShape, NoModule
    <3>2. r # p /\ proc'[r].id = proc[r].id
      BY <1>5, <2>2, <3>1
    <3> QED
      BY <2>2, <3>1, <3>2 DEF StartupInv, UsedIsLoaded
  <2> QED
    BY <2>1, <2>2 DEF UsedIsLoaded
<1>7. NoModuleIsForgotten'
  <2> SUFFICES ASSUME NEW m \in modules', m.names = "acva"
               PROVE  \/ m.id \in orphans'
                      \/ \E q \in Processes : proc'[q].owned /\ proc'[q].id = m.id
    BY DEF NoModuleIsForgotten
  <2>1. m \in modules /\ m.id \in Ids
    BY <1>1 DEF Ids
  <2>2. CASE m.id \in orphans
    <3>1. m.id \in orphans'
      BY <2>1, <2>2 DEF Abandoned, Without
    <3> QED
      BY <3>1
  <2>3. ASSUME NEW q \in Processes, proc[q].owned, proc[q].id = m.id
        PROVE  \/ m.id \in orphans'
               \/ \E r \in Processes : proc'[r].owned /\ proc'[r].id = m.id
    <3>1. CASE q # p
      BY <1>5, <2>3, <3>1
    <3>2. CASE q = p
      BY <2>1, <2>3, <3>2 DEF Abandoned, Without
    <3> QED
      BY <3>1, <3>2
  <2> QED
    BY <2>1, <2>2, <2>3 DEF StartupInv, NoModuleIsForgotten
<1> QED
  BY <1>2, <1>3, <1>4, <1>6, <1>7 DEF StartupInv

(* The module that is found is one of the list. *)
LEMMA FirstIsListed ==
  ASSUME ModulesShape, modules # {}
  PROVE  First \in modules
<1> DEFINE m == Min(Ids)
<1>1. Ids \in SUBSET Nat /\ Ids # {}
  BY DEF ModulesShape, Ids
<1>2. m \in Ids /\ \A x \in Ids : m <= x
  BY <1>1, LeastExists
<1> HIDE DEF m
<1>3. PICK f \in modules : f.id = m
  BY <1>2 DEF Ids
<1>4. \A n \in modules : f.id <= n.id
  BY <1>2, <1>3 DEF Ids
<1> QED
  BY <1>4 DEF First

(* SystemAec takes a module: one that it found, or one that it loaded. *)
LEMMA TakesModule ==
  ASSUME StartupInv, NEW p \in Processes, NEW id \in Nat \ {0}, NEW names \in Names, NEW owned \in BOOLEAN,
         proc[p].at \in {"find", "load"},
         proc' = [proc EXCEPT ![p] = Routed(proc[p], id, names, owned)],
         \/ /\ \E m \in modules : m.id = id /\ m.names = names
            /\ owned <=> names = "acva"
            /\ orphans' = orphans \ {id} /\ UNCHANGED <<modules, issued>>
            /\ excused' = IF Users(id) = {} THEN excused ELSE excused \union Users(id) \union {p}
         \/ /\ id = issued + 1 /\ names = "acva" /\ owned = TRUE /\ Load(names)
            /\ UNCHANGED <<excused, orphans>>
  PROVE  StartupInv'
<1>1. ~proc[p].active /\ ~proc[p].owned /\ proc[p].id = 0 /\ issued \in Nat
  BY DEF StartupInv, ProcessShape, ModulesShape, NoModule
<1> DEFINE self == Routed(proc[p], id, names, owned)
<1>2. /\ self \in [at : Steps, cfg : Settings \union {NoCfg}, active : BOOLEAN,
                   owned : BOOLEAN, id : Nat, pulse : Names \union {"default"}]
      /\ self.at = "handoff" /\ self.active = TRUE /\ self.owned = owned /\ self.id = id
  BY DEF StartupInv, ProcessShape, Routed, Steps
<1> HIDE DEF self
<1>3. \A q \in Processes : proc'[q] = IF q = p THEN self ELSE proc[q]
  BY DEF StartupInv, ProcessShape, self
<1>4. proc' = [proc EXCEPT ![p] = self]
  BY DEF self
<1>5. /\ modules \subseteq modules' /\ issued' \in Nat /\ issued' >= issued
      /\ modules' \subseteq modules \union {[id |-> issued + 1, names |-> "acva"]}
      /\ excused \subseteq excused'
      /\ id <= issued'
  BY <1>1 DEF StartupInv, ModulesShape, Load
<1>6. ModulesShape'
  <2>1. CASE modules' = modules /\ issued' = issued
    BY <2>1 DEF StartupInv, ModulesShape
  <2>2. CASE Load("acva")
    BY <1>1, <2>2 DEF StartupInv, ModulesShape, Load, Names
  <2> QED
    BY <2>1, <2>2
<1>7. ProcessShape'
  <2>1. proc' \in [Processes -> [at : Steps, cfg : Settings \union {NoCfg}, active : BOOLEAN,
                               owned : BOOLEAN, id : Nat, pulse : Names \union {"default"}]]
    BY <1>2, <1>4 DEF StartupInv, ProcessShape
  <2>2. \A q \in Processes : proc[q].id \in Nat /\ proc[q].id <= issued'
    BY <1>1, <1>5 DEF StartupInv, ProcessShape
  <2> QED
    BY <2>1, <2>2, <1>2, <1>3, <1>5 DEF StartupInv, ProcessShape, NoModule
<1>8. PastTheGate'
  BY <1>2, <1>3 DEF StartupInv, PastTheGate
<1>9. UsedIsLoaded'
  <2>1. Ids \subseteq Ids' /\ id \in Ids'
    BY <1>5 DEF Ids, Load
  <2>2. \A q \in Processes : proc'[q].active => proc'[q].id \in Ids' \/ q \in excused'
    BY <1>2, <1>3, <1>5, <2>1, ZenonT(60) DEF StartupInv, UsedIsLoaded
  <2>3. \A q \in Processes \ {p} : proc[q].id = id => p \in excused' /\ q \in excused'
    <3> SUFFICES ASSUME NEW q \in Processes \ {p}, proc[q].id = id PROVE p \in excused' /\ q \in excused'
      OBVIOUS
    <3>1. q \in Users(id) /\ proc[q].id <= issued /\ id # issued + 1
      BY <1>1 DEF Users, StartupInv, ProcessShape
    <3> QED
      BY <3>1
  <2>4. ASSUME NEW q \in Processes, NEW r \in Processes, q # r, proc'[q].active, proc'[q].id = proc'[r].id
        PROVE  q \in excused'
    BY <1>2, <1>3, <1>5, <2>3, <2>4 DEF StartupInv, UsedIsLoaded
  <2> QED
    BY <2>2, <2>4 DEF UsedIsLoaded
<1>10. NoModuleIsForgotten'
  <2> SUFFICES ASSUME NEW m \in modules', m.names = "acva"
               PROVE  \/ m.id \in orphans'
                      \/ \E q \in Processes : proc'[q].owned /\ proc'[q].id = m.id
    BY DEF NoModuleIsForgotten
  <2>1. CASE m.id = id
    <3>1. owned = TRUE
      BY <2>1, <1>6 DEF ModulesShape, Load
    <3>2. proc'[p] = self
      BY <1>3
    <3>3. proc'[p].owned /\ proc'[p].id = m.id
      BY <1>2, <2>1, <3>1, <3>2
    <3> QED
      BY <3>3
  <2>2. CASE m.id # id
    <3>1. m \in modules
      BY <2>2 DEF Load
    <3>2. m.id \in orphans => m.id \in orphans'
      BY <2>2
    <3>3. ASSUME NEW q \in Processes, proc[q].owned, proc[q].id = m.id
          PROVE  proc'[q].owned /\ proc'[q].id = m.id
      BY <1>1, <1>3, <3>3
    <3> QED
      BY <3>1, <3>2, <3>3 DEF StartupInv, NoModuleIsForgotten
  <2> QED
    BY <2>1, <2>2
<1> QED
  BY <1>6, <1>7, <1>8, <1>9, <1>10 DEF StartupInv

(* Every step of a process, of the operator and of the sound server keeps   *)
(* the invariant.                                                           *)
LEMMA StartupStep == StartupInv /\ [StartupNext]_startupVars => StartupInv'
<1> SUFFICES ASSUME StartupInv, [StartupNext]_startupVars PROVE StartupInv'
  OBVIOUS
<1>1. CASE OperatorLoads
  <2>1. PICK names \in {"other", "bare"} : Load(names)
    BY <1>1 DEF OperatorLoads
  <2>2. UNCHANGED <<proc, excused, orphans>>
    BY <1>1 DEF OperatorLoads
  <2>3. ModulesShape'
    BY <2>1 DEF StartupInv, ModulesShape, Load, Names
  <2>4. ProcessShape' /\ PastTheGate'
    <3>1. \A q \in Processes : proc[q].id \in Nat /\ proc[q].id <= issued'
      BY <2>1 DEF StartupInv, ModulesShape, ProcessShape, Load
    <3> QED
      BY <2>2, <3>1 DEF StartupInv, ProcessShape, PastTheGate
  <2>5. UsedIsLoaded'
    <3>1. Ids \subseteq Ids'
      BY <2>1 DEF Load, Ids
    <3> QED
      BY <2>2, <3>1 DEF StartupInv, UsedIsLoaded
  <2>6. NoModuleIsForgotten'
    BY <2>1, <2>2 DEF StartupInv, NoModuleIsForgotten, Load
  <2> QED
    BY <2>3, <2>4, <2>5, <2>6 DEF StartupInv
<1>2. CASE OperatorUnloads
  <2>1. PICK id \in Ids : /\ modules' = Without(id)
                          /\ excused' = excused \union Users(id)
                          /\ orphans' = orphans \ {id}
    BY <1>2 DEF OperatorUnloads
  <2>2. UNCHANGED <<proc, issued>>
    BY <1>2 DEF OperatorUnloads
  <2>3. ModulesShape' /\ ProcessShape' /\ PastTheGate'
    BY <2>1, <2>2 DEF StartupInv, ModulesShape, ProcessShape, PastTheGate, Without
  <2>4. UsedIsLoaded'
    <3>1. \A x \in Ids : x # id => x \in Ids'
      BY <2>1 DEF Ids, Without
    <3> QED
      BY <2>1, <2>2, <3>1 DEF StartupInv, UsedIsLoaded, Users
  <2>5. NoModuleIsForgotten'
    BY <2>1, <2>2 DEF StartupInv, NoModuleIsForgotten, Without
  <2> QED
    BY <2>3, <2>4, <2>5 DEF StartupInv
<1>3. ASSUME NEW p \in Processes, Launch(p) \/ GoesOn(p) \/ Signal(p) \/ Crash(p)
      PROVE  StartupInv'
  <2> DEFINE Here == [at : Steps, cfg : Settings \union {NoCfg}, active : BOOLEAN,
                      owned : BOOLEAN, id : Nat, pulse : Names \union {"default"}]
  <2>a. proc[p] \in Here
    BY DEF StartupInv, ProcessShape
  <2>b. /\ Dead \in Here
        /\ Dead.id = 0 /\ Dead.active = FALSE /\ Dead.owned = FALSE /\ Dead.at = "off"
    BY DEF Dead, Steps, NoModule, Names
  <2>c. proc[p].at \in {"off", "find", "load"} => ~proc[p].active /\ ~proc[p].owned
    BY DEF StartupInv, ProcessShape
  <2>d. proc[p].at \notin {"off", "find", "load", "return"} /\ proc[p].cfg.aec => proc[p].active
    BY DEF StartupInv, PastTheGate
  <2>1. ASSUME NEW cfg \in Settings, NEW pulse \in Names \union {"default"}, Begin(p, cfg, pulse),
               UNCHANGED <<modules, issued>>, orphans' = orphans \union Abandoned(p)
        PROVE  StartupInv'
    <3> DEFINE self == [Dead EXCEPT !.at = IF cfg.aec THEN "find" ELSE "handoff",
                                    !.cfg = cfg, !.pulse = pulse]
    <3>1. /\ self \in Here
          /\ self.id = 0 /\ self.active = FALSE /\ self.owned = FALSE /\ self.cfg = cfg
          /\ self.at = IF cfg.aec THEN "find" ELSE "handoff"
      BY DEF Dead, Steps, NoModule, Names
    <3> HIDE DEF self
    <3>2. proc' = [proc EXCEPT ![p] = self] /\ excused' = excused \ {p}
      BY <2>1 DEF Begin, self
    <3>3. self.at \notin {"off", "find", "load", "return"} => ~self.cfg.aec
      BY <3>1
    <3> QED
      BY <2>1, <3>1, <3>2, <3>3, LetsGo
  <2>2. CASE Launch(p)
    <3>1. Abandoned(p) = {}
      BY <2>2, <2>c DEF Launch, Abandoned
    <3> QED
      BY <2>1, <2>2, <3>1 DEF Launch
  <2>3. CASE Exec(p)
    BY <2>1, <2>3, <2>a DEF Exec
  <2>4. CASE FindAec(p)
    <3>1. CASE Goes(p, "load") \/ Goes(p, "return")
      <4>1. "load" \in Steps /\ "return" \in Steps
        BY DEF Steps
      <4> QED
        BY <2>4, <2>c, <3>1, <4>1, OnlyGoes DEF FindAec
    <3>2. CASE modules # {} /\ First.names # "bare"
      <4>1. First \in modules
        BY <3>2, FirstIsListed DEF StartupInv
      <4>2. First.id \in Nat \ {0} /\ First.names \in Names
        BY <4>1 DEF StartupInv, ModulesShape
      <4>3. Adopts(First.names) \in BOOLEAN /\ (Adopts(First.names) <=> First.names = "acva")
        BY DEF Adopts
      <4>4. /\ proc' = [proc EXCEPT ![p] = Routed(proc[p], First.id, First.names, Adopts(First.names))]
            /\ orphans' = orphans \ {First.id}
            /\ excused' = IF Users(First.id) = {} THEN excused ELSE excused \union Users(First.id) \union {p}
            /\ UNCHANGED <<modules, issued>> /\ proc[p].at = "find"
        BY <2>4, <3>2 DEF FindAec
      <4> HIDE DEF Here
      <4> QED
        BY <4>1, <4>2, <4>3, <4>4, TakesModule
    <3> QED
      BY <2>4, <3>1, <3>2 DEF FindAec, Goes
  <2>5. CASE ListFails(p)
    <3>1. Goes(p, "load") /\ "load" \in Steps /\ proc[p].at = "find"
      BY <2>5 DEF ListFails, Goes, Steps
    <3> QED
      BY <2>c, <3>1, OnlyGoes
  <2>6. CASE LoadAec(p)
    <3>1. CASE proc' = [proc EXCEPT ![p] = LoadFailed(proc[p])] /\ UNCHANGED <<modules, issued>>
      <4>1. Goes(p, "return") /\ "return" \in Steps /\ proc[p].at = "load"
        BY <2>6, <3>1 DEF LoadAec, LoadFailed, Goes, Steps, StartupInv, ProcessShape
      <4> QED
        BY <2>c, <4>1, OnlyGoes
    <3>2. CASE proc' = [proc EXCEPT ![p] = Routed(proc[p], issued + 1, "acva", TRUE)] /\ Load("acva")
      <4>1. issued + 1 \in Nat \ {0} /\ "acva" \in Names /\ proc[p].at = "load" /\ UNCHANGED <<excused, orphans>>
        BY <2>6 DEF LoadAec, StartupInv, ModulesShape, Names
      <4> QED
        BY <3>2, <4>1, TakesModule
    <3> QED
      BY <2>6, <3>1, <3>2 DEF LoadAec
  <2>7. ASSUME NEW at \in Steps, Goes(p, at), at \notin {"off", "find", "load"},
               proc[p].at \notin {"off", "find", "load", "return"}
        PROVE  StartupInv'
    BY <2>7, <2>d, OnlyGoes
  <2>8. CASE HandOff(p) \/ DemoEnds(p) \/ Build(p)
    <3>1. {"demo", "build", "return", "checks"} \subseteq Steps
      BY DEF Steps
    <3> QED
      BY <2>7, <2>8, <3>1 DEF HandOff, DemoEnds, Build
  <2>9. CASE RunStartupPass(p) \/ LoopTurn(p) \/ LoopLooks(p) \/ Shutdown(p) \/ RestartFails(p)
    <3>1. {"closing", "loop", "look", "restart", "return"} \subseteq Steps
      BY DEF Steps
    <3> QED
      BY <2>7, <2>9, <3>1 DEF RunStartupPass, LoopTurn, LoopLooks, Shutdown, RestartFails
  <2>10. CASE Return(p)
    <3>1. proc' = [proc EXCEPT ![p] = Dead] /\ excused' = excused \ {p} /\ issued' = issued
      BY <2>10 DEF Return, Ends
    <3>2. \/ modules' = modules /\ orphans' = orphans \union Abandoned(p)
          \/ proc[p].owned /\ modules' = Without(proc[p].id) /\ orphans' = orphans \ Abandoned(p)
      BY <2>10 DEF Return, Abandoned
    <3> QED
      BY <2>b, <3>1, <3>2, LetsGo
  <2>11. CASE Crash(p)
    <3>1. /\ proc' = [proc EXCEPT ![p] = Dead] /\ excused' = excused \ {p} /\ issued' = issued
          /\ modules' = modules /\ orphans' = orphans \union Abandoned(p)
      BY <2>11 DEF Crash, Ends
    <3> QED
      BY <2>b, <3>1, LetsGo
  <2>12. CASE Signal(p)
    BY <2>12 DEF Signal, StartupInv, ModulesShape, ProcessShape, PastTheGate, UsedIsLoaded, NoModuleIsForgotten, Ids
  <2> QED
    BY <1>3, <2>2, <2>3, <2>4, <2>5, <2>6, <2>8, <2>9, <2>10, <2>11, <2>12 DEF GoesOn
<1>4. CASE UNCHANGED startupVars
  BY <1>4 DEF startupVars, StartupInv, ModulesShape, ProcessShape, PastTheGate, UsedIsLoaded, NoModuleIsForgotten, Ids
<1> QED
  BY <1>1, <1>2, <1>3, <1>4 DEF StartupNext

(* The echo-cancel module is used by whom it is meant for, and none of      *)
(* acva's is forgotten, for any number of processes, lives and modules and  *)
(* over crashes and restarts (system_aec.cpp, main.cpp).                    *)
THEOREM StartupLooksAfter == StartupSafety => []ModuleIsLookedAfter
<1>1. StartupInv => ModuleIsLookedAfter
  BY DEF StartupInv, PastTheGate, UsedIsLoaded, ModuleIsLookedAfter, RoutedThroughModule
<1> QED
  BY StartupInitial, StartupStep, <1>1, PTL DEF StartupSafety

-----------------------------------------------------------------------------
(* The reload. *)
ReloadSafety == ReloadInit /\ [][ReloadNext]_reloadVars

\* What a field may hold: what a file gives it, or what resolve_data_path makes of it.
Given == UNION {{Overlay(f)[k] : k \in ConfigFields} : f \in FileContents}
Values == Given \union {Resolve(v) : v \in Given}
Configs == [ConfigFields -> Values]
Copies == {Nothing} \union UNION {[Copied[l] -> Values] : l \in Labels}
Holding == {"read", "apply", "tell"}
Reloads == [at : {"away", "lock", "reply"} \union Holding, cand : Seq(FileContents),
            hot : SUBSET HotFields, left : SUBSET HotFields, todo : Seq(Labels),
            result : {"none", "error", "rejected", "ok"}]

ReloadShape ==
    /\ disk \in FileContents /\ live \in Configs /\ kept \in [Labels -> Copies]
    /\ callbacks \in Seq(Labels) /\ reload \in [Callers -> Reloads]
    /\ track \in [applied : Configs, behind : SUBSET Labels, torn : BOOLEAN, signalled : Nat,
                  read : Nat, http : Nat, starts : Nat]
    /\ version \in Nat
    /\ \A l \in Labels : kept[l] = Nothing \/ kept[l] \in [Copied[l] -> Values]

\* run_reload works under the mutex, and the process is down only with no reload under way.
UnderMutex ==
    /\ \A c \in Callers : reload[c].at \in Holding <=> mutex = c
    /\ mutex \in Callers \union {"free"}
    /\ ~Up => /\ \A c \in Callers : reload[c].at = "away"
              /\ \A l \in Labels : kept[l] = Nothing

\* The live Config is the accepted one, but for the fields a reload has still to copy.
LiveIsAccepted ==
    /\ Valid(track.applied)
    /\ (\A c \in Callers : reload[c].at # "apply") => live = track.applied
    /\ \A c \in Callers : reload[c].at = "apply" =>
          /\ reload[c].cand # <<>> /\ reload[c].left \subseteq reload[c].hot
          /\ \A k \in ConfigFields :
                IF k \in reload[c].left THEN track.applied[k] = Overlay(reload[c].cand[1])[k]
                ELSE live[k] = track.applied[k]

\* A copy that differs from the live Config belongs to a component that is going to be told.
CopiesAreTold ==
    \A l \in Labels \ track.behind : kept[l] # Nothing =>
        \A k \in Copied[l] :
            \/ kept[l][k] = live[k]
            \/ \E c \in Callers : /\ k \in reload[c].hot
                                  /\ \/ reload[c].at = "apply"
                                     \/ reload[c].at = "tell" /\ l \in Range(reload[c].todo)

ReloadInv == ReloadShape /\ UnderMutex /\ LiveIsAccepted /\ CopiesAreTold /\ ThresholdsMakeSense

-----------------------------------------------------------------------------

(* The fields and the labels by name. *)
LEMMA FieldNames ==
  /\ HotFields = {"temperature", "onset", "offset", "level", "wake"}
  /\ ConfigFields = HotFields \union {"model", "dbPath", "probeTimeout"}
  /\ "dbPath" \notin HotFields /\ "onset" \in HotFields /\ "offset" \in HotFields
  /\ Labels = {"log", "endpointer", "wake_word"}
  /\ Copied["log"] = {"level"} /\ Copied["endpointer"] = {"onset", "offset"}
  /\ Copied["wake_word"] = {"wake"}
  /\ \A l \in Labels : Copied[l] \subseteq HotFields /\ Copied[l] # {}
<1>1. HotFields = {"temperature", "onset", "offset", "level", "wake"}
  <2>1. DOMAIN HotOrder = 1..5 /\ HotOrder[1] = "temperature" /\ HotOrder[2] = "onset"
        /\ HotOrder[3] = "offset" /\ HotOrder[4] = "level" /\ HotOrder[5] = "wake"
    BY DEF HotOrder
  <2>2. 1..5 = {1, 2, 3, 4, 5}
    OBVIOUS
  <2> QED
    BY <2>1, <2>2 DEF HotFields, Range
<1>2. Labels = {"log", "endpointer", "wake_word"}
  BY DEF Labels, Copied
<1>3. /\ Copied["log"] = {"level"} /\ Copied["endpointer"] = {"onset", "offset"}
      /\ Copied["wake_word"] = {"wake"}
  BY DEF Copied
<1> QED
  BY <1>1, <1>2, <1>3 DEF ConfigFields, RestartFields

(* apply_hot_fields goes on with a field that is left. *)
LEMMA NextIsLeft ==
  ASSUME NEW left \in SUBSET HotFields, left # {}
  PROVE  NextHot(left) \in left
<1> DEFINE at == {i \in DOMAIN HotOrder : HotOrder[i] \in left}
<1>1. DOMAIN HotOrder = 1..5
  BY DEF HotOrder
<1>2. at \in SUBSET Nat
  BY <1>1
<1>3. at # {}
  BY DEF HotFields, Range
<1>4. Min(at) \in at
  BY <1>2, <1>3, LeastExists
<1> QED
  BY <1>4 DEF NextHot

(* A loaded file is a Config, and resolving the paths does not touch the    *)
(* thresholds.                                                              *)
LEMMA OverlayIsConfig ==
  ASSUME NEW f \in FileContents
  PROVE  /\ Overlay(f) \in Configs
         /\ LoadAndResolve(f) \in Configs
         /\ Valid(LoadAndResolve(f)) <=> Valid(Overlay(f))
<1>a. \A k \in ConfigFields : Overlay(f)[k] \in Given
  BY DEF Given
<1>b. Overlay(f) = [k \in ConfigFields |-> Overlay(f)[k]]
  BY DEF Overlay
<1>1. Overlay(f) \in Configs
  BY <1>a, <1>b DEF Configs, Values
<1>2. Resolve(Overlay(f)["dbPath"]) \in Values
  BY <1>a, FieldNames DEF Values
<1>3. LoadAndResolve(f) \in Configs
  BY <1>1, <1>2 DEF Configs, LoadAndResolve
<1>4. LoadAndResolve(f)["onset"] = Overlay(f)["onset"] /\ LoadAndResolve(f)["offset"] = Overlay(f)["offset"]
  BY <1>1, FieldNames DEF LoadAndResolve, Configs
<1> QED
  BY <1>1, <1>3, <1>4, Zenon DEF Valid

(* A component copies the fields of its label, and has then something. *)
LEMMA CopyIsCopy ==
  ASSUME NEW c \in Configs, NEW l \in Labels
  PROVE  /\ CopyFrom(c, l) \in [Copied[l] -> Values] /\ CopyFrom(c, l) \in Copies
         /\ CopyFrom(c, l) # Nothing
         /\ \A k \in Copied[l] : CopyFrom(c, l)[k] = c[k]
<1>1. Copied[l] \subseteq ConfigFields /\ Copied[l] # {}
  BY FieldNames
<1>2. CopyFrom(c, l) \in [Copied[l] -> Values]
  BY <1>1 DEF CopyFrom, Configs
<1>3. DOMAIN CopyFrom(c, l) = Copied[l] /\ DOMAIN Nothing = {}
  BY DEF CopyFrom, Nothing
<1> QED
  BY <1>1, <1>2, <1>3 DEF CopyFrom, Copies

(* Before the process starts there is nothing to be told and nobody to tell. *)
LEMMA ReloadInitial == ReloadInit => ReloadInv
<1> SUFFICES ASSUME ReloadInit PROVE ReloadInv
  OBVIOUS
<1>1. live \in Configs /\ Valid(live)
  BY OverlayIsConfig DEF ReloadInit, Loads
<1>2. Away \in Reloads /\ Away.at = "away"
  BY DEF Away, Reloads, Holding
<1>3. ReloadShape
  BY <1>1, <1>2 DEF ReloadInit, ReloadShape, Copies
<1>4. UnderMutex
  BY <1>2 DEF ReloadInit, UnderMutex, Holding, Up, Callers
<1>5. track.applied = live
  BY DEF ReloadInit
<1>6. LiveIsAccepted
  BY <1>1, <1>2, <1>5 DEF ReloadInit, LiveIsAccepted
<1>7. CopiesAreTold
  BY DEF ReloadInit, CopiesAreTold
<1>8. ThresholdsMakeSense
  BY DEF ReloadInit, ThresholdsMakeSense, Up
<1> QED
  BY <1>3, <1>4, <1>6, <1>7, <1>8 DEF ReloadInv

(* A step that leaves the Config, the copies and the reloads alone. *)
LEMMA ReloadElsewhere ==
  ASSUME ReloadInv, UNCHANGED <<live, kept, reload, mutex>>,
         disk' \in FileContents, callbacks' \in Seq(Labels), version' \in Nat,
         phase # "down" \/ phase' = "down", phase' = "down" => phase = "down",
         track' \in [applied : Configs, behind : SUBSET Labels, torn : BOOLEAN, signalled : Nat,
                     read : Nat, http : Nat, starts : Nat],
         track'.applied = track.applied, track'.behind = track.behind, track'.torn = track.torn
  PROVE  ReloadInv'
<1>1. ReloadShape' /\ UnderMutex'
  BY DEF ReloadInv, ReloadShape, UnderMutex, Up
<1>2. LiveIsAccepted'
  BY DEF ReloadInv, LiveIsAccepted
<1>3. CopiesAreTold' /\ ThresholdsMakeSense'
  BY DEF ReloadInv, CopiesAreTold, ThresholdsMakeSense, Up
<1> QED
  BY <1>1, <1>2, <1>3 DEF ReloadInv

(* A caller moves between places at which it does not hold the mutex. *)
LEMMA ReloadWaits ==
  ASSUME ReloadInv, NEW c \in Callers, NEW r \in Reloads,
         reload[c].at \notin Holding, r.at \notin Holding,
         reload' = [reload EXCEPT ![c] = r], Up \/ r.at = "away",
         track' \in [applied : Configs, behind : SUBSET Labels, torn : BOOLEAN, signalled : Nat,
                     read : Nat, http : Nat, starts : Nat],
         track'.applied = track.applied, track'.behind = track.behind, track'.torn = track.torn,
         UNCHANGED <<disk, version, phase, live, kept, callbacks, mutex>>
  PROVE  ReloadInv'
<1>1. reload' \in [Callers -> Reloads] /\ reload'[c] = r /\ \A d \in Callers : d # c => reload'[d] = reload[d]
  BY DEF ReloadInv, ReloadShape
<1>2. ReloadShape' /\ UnderMutex'
  BY <1>1 DEF ReloadInv, ReloadShape, UnderMutex, Up
<1>3. LiveIsAccepted'
  BY <1>1 DEF ReloadInv, LiveIsAccepted, Holding
<1>4. CopiesAreTold' /\ ThresholdsMakeSense'
  <2>1. \A d \in Callers : reload'[d].at \in Holding => d # c /\ reload'[d] = reload[d]
    BY <1>1
  <2>2. CopiesAreTold'
    BY <1>1 DEF ReloadInv, CopiesAreTold, Holding
  <2> QED
    BY <2>2 DEF ReloadInv, ThresholdsMakeSense, Up
<1> QED
  BY <1>2, <1>3, <1>4 DEF ReloadInv

(* The steps of main(), of the operator and of the signal keep the          *)
(* invariant.                                                               *)
LEMMA ReloadMain ==
  ASSUME ReloadInv, Boot \/ Serve \/ BuildCapture \/ Register \/ EditFile \/ Hup \/ PostReload \/ DrainHup
                    \/ RequestRestart \/ Leave \/ CloseControl \/ EndProcess
  PROVE  ReloadInv'
<1> DEFINE Tracks == [applied : Configs, behind : SUBSET Labels, torn : BOOLEAN, signalled : Nat,
                      read : Nat, http : Nat, starts : Nat]
<1>a. track \in Tracks /\ version \in Nat /\ disk \in FileContents /\ callbacks \in Seq(Labels)
  BY DEF ReloadInv, ReloadShape
<1>b. Away \in Reloads /\ Away.at = "away" /\ [Away EXCEPT !.at = "lock"] \in Reloads
      /\ [Away EXCEPT !.at = "lock"].at = "lock"
  <2>1. Away \in Reloads /\ Away.at = "away"
    BY DEF Away, Reloads, Holding
  <2>2. \A r \in Reloads : [r EXCEPT !.at = "lock"] \in Reloads /\ [r EXCEPT !.at = "lock"].at = "lock"
    BY DEF Reloads
  <2> QED
    BY <2>1, <2>2
<1>1. CASE Boot
  <2>1. /\ phase = "down" /\ phase' = "loaded" /\ live' = LoadAndResolve(disk) /\ Loads(disk)
        /\ kept' = [kept EXCEPT !["log"] = CopyFrom(live', "log")]
        /\ track' = [track EXCEPT !.applied = live', !.read = version, !.starts = track.starts + 1]
        /\ UNCHANGED <<disk, version, callbacks, mutex, reload>>
    BY <1>1 DEF Boot
  <2>2. live' \in Configs /\ Valid(live')
    BY <1>a, <2>1, OverlayIsConfig DEF Loads
  <2>3. track' \in Tracks /\ track'.applied = live' /\ track'.behind = track.behind /\ track'.torn = track.torn
    <3>1. track' = [applied |-> live', behind |-> track.behind, torn |-> track.torn,
                    signalled |-> track.signalled, read |-> version, http |-> track.http,
                    starts |-> track.starts + 1]
      BY <1>a, <2>1
    <3> QED
      BY <1>a, <2>2, <3>1
  <2>4. "log" \in Labels /\ "endpointer" \in Labels
    BY FieldNames
  <2>5. /\ CopyFrom(live', "log") \in [Copied["log"] -> Values] /\ CopyFrom(live', "log") \in Copies
        /\ \A k \in Copied["log"] : CopyFrom(live', "log")[k] = live'[k]
    BY <2>2, <2>4, CopyIsCopy
  <2>6. kept \in [Labels -> Copies] /\ \A l \in Labels : kept[l] = Nothing
    BY <2>1 DEF ReloadInv, ReloadShape, UnderMutex, Up
  <2>7. /\ kept' \in [Labels -> Copies] /\ kept'["log"] = CopyFrom(live', "log")
        /\ \A l \in Labels : l # "log" => kept'[l] = Nothing
    BY <2>1, <2>4, <2>5, <2>6
  <2>8. ReloadShape'
    BY <1>a, <2>1, <2>2, <2>3, <2>5, <2>7 DEF ReloadInv, ReloadShape
  <2>9. UnderMutex'
    BY <2>1 DEF ReloadInv, UnderMutex, Up
  <2>10. LiveIsAccepted'
    BY <2>1, <2>2, <2>3 DEF ReloadInv, LiveIsAccepted, UnderMutex, Up
  <2>11. CopiesAreTold'
    BY <2>5, <2>7 DEF CopiesAreTold
  <2>12. ThresholdsMakeSense'
    BY <2>4, <2>7 DEF ThresholdsMakeSense
  <2> QED
    BY <2>8, <2>9, <2>10, <2>11, <2>12 DEF ReloadInv
<1>2. CASE BuildCapture
  <2>1. /\ phase = "serving" /\ phase' = "built"
        /\ kept' = [l \in Labels |-> IF l = "log" THEN kept[l] ELSE CopyFrom(live, l)]
        /\ track' = [track EXCEPT !.torn = \E c \in Callers : reload[c].at = "apply"]
        /\ UNCHANGED <<disk, version, live, callbacks, mutex, reload>>
    BY <1>2 DEF BuildCapture
  <2>2. PICK torn \in BOOLEAN : torn <=> \E c \in Callers : reload[c].at = "apply"
    BY Zenon
  <2>3. track' = [track EXCEPT !.torn = torn]
    <3>1. CASE torn = TRUE
      BY <2>1, <2>2, <3>1
    <3>2. CASE torn = FALSE
      BY <2>1, <2>2, <3>2
    <3> QED
      BY <3>1, <3>2
  <2>4. track' \in Tracks /\ track'.applied = track.applied /\ track'.behind = track.behind /\ track'.torn = torn
    BY <1>a, <2>3
  <2>5. live \in Configs
    BY DEF ReloadInv, ReloadShape
  <2>6. \A l \in Labels : kept'[l] = IF l = "log" THEN kept[l] ELSE CopyFrom(live, l)
    BY <2>1
  <2>7. \A l \in Labels : /\ kept'[l] \in Copies
                          /\ kept'[l] = Nothing \/ kept'[l] \in [Copied[l] -> Values]
    BY <2>5, <2>6, CopyIsCopy DEF ReloadInv, ReloadShape
  <2>8. ReloadShape'
    <3>1. kept' \in [Labels -> Copies]
      BY <2>1, <2>6, <2>7
    <3> QED
      BY <1>a, <2>1, <2>4, <2>7, <3>1 DEF ReloadInv, ReloadShape
  <2>9. UnderMutex'
    BY <2>1 DEF ReloadInv, UnderMutex, Up
  <2>10. LiveIsAccepted'
    BY <2>1, <2>4 DEF ReloadInv, LiveIsAccepted
  <2>11. CopiesAreTold'
    BY <2>1, <2>4, <2>5, <2>6, CopyIsCopy DEF ReloadInv, CopiesAreTold
  <2>12. ThresholdsMakeSense'
    <3>1. CASE torn
      BY <2>4, <3>1 DEF ThresholdsMakeSense
    <3>2. CASE ~torn
      <4>1. Valid(live)
        BY <2>2, <3>2 DEF ReloadInv, LiveIsAccepted
      <4>2. "endpointer" \in Labels /\ "onset" \in Copied["endpointer"] /\ "offset" \in Copied["endpointer"]
        BY FieldNames
      <4>3. kept'["endpointer"]["onset"] = live["onset"] /\ kept'["endpointer"]["offset"] = live["offset"]
        BY <2>5, <2>6, <4>2, CopyIsCopy
      <4> QED
        BY <4>1, <4>3, Zenon DEF ThresholdsMakeSense, Valid
    <3> QED
      BY <3>1, <3>2
  <2> QED
    BY <2>8, <2>9, <2>10, <2>11, <2>12 DEF ReloadInv
<1>3. CASE EndProcess
  <2>1. /\ phase' = "down" /\ kept' = [l \in Labels |-> Nothing] /\ callbacks' = <<>>
        /\ \A c \in Callers : reload[c].at = "away"
        /\ reload' = [c \in Callers |-> Away]
        /\ track' = [track EXCEPT !.behind = {}, !.torn = FALSE]
        /\ UNCHANGED <<disk, version, live, mutex>>
    BY <1>3 DEF EndProcess
  <2>2. track' \in Tracks /\ track'.applied = track.applied
    BY <1>a, <2>1
  <2>3. ReloadShape'
    BY <1>a, <1>b, <2>1, <2>2 DEF ReloadInv, ReloadShape, Copies
  <2>4. UnderMutex'
    BY <1>b, <2>1 DEF ReloadInv, UnderMutex, Up, Holding
  <2>5. LiveIsAccepted'
    BY <1>b, <2>1, <2>2 DEF ReloadInv, LiveIsAccepted
  <2>6. CopiesAreTold' /\ ThresholdsMakeSense'
    BY <2>1 DEF CopiesAreTold, ThresholdsMakeSense, Up
  <2> QED
    BY <2>3, <2>4, <2>5, <2>6 DEF ReloadInv
<1>4. CASE Serve
  <2>1. <<"log">> \in Seq(Labels)
    BY FieldNames
  <2> QED
    BY <1>4, <1>a, <2>1, ReloadElsewhere DEF Serve
<1>5. CASE Register
  <2>1. Append(callbacks, "endpointer") \in Seq(Labels) /\ Append(callbacks, "wake_word") \in Seq(Labels)
    BY <1>a, FieldNames
  <2> QED
    BY <1>5, <1>a, <2>1, ReloadElsewhere DEF Register
<1>6. CASE EditFile
  <2>1. disk' \in FileContents /\ version' \in Nat
    BY <1>6, <1>a DEF EditFile
  <2> QED
    BY <1>6, <1>a, <2>1, ReloadElsewhere DEF EditFile
<1>7. CASE Hup
  <2>1. track' = [track EXCEPT !.signalled = version]
    BY <1>7 DEF Hup
  <2>2. track' \in Tracks /\ track'.applied = track.applied /\ track'.behind = track.behind /\ track'.torn = track.torn
    BY <1>a, <2>1
  <2> QED
    BY <1>7, <1>a, <2>2, ReloadElsewhere DEF Hup, Up
<1>8. CASE RequestRestart \/ Leave \/ CloseControl
  BY <1>8, <1>a, ReloadElsewhere DEF RequestRestart, Leave, CloseControl, Looping
<1>9. CASE PostReload
  <2>1. track' = [track EXCEPT !.http = track.http + 1]
    BY <1>9 DEF PostReload
  <2>2. track' \in Tracks /\ track'.applied = track.applied /\ track'.behind = track.behind /\ track'.torn = track.torn
    BY <1>a, <2>1
  <2>3. "http" \in Callers /\ reload["http"].at \notin Holding /\ Up
    BY <1>9 DEF PostReload, Callers, Holding, Reachable, Up
  <2> QED
    BY <1>9, <1>b, <2>2, <2>3, ReloadWaits DEF PostReload, Holding
<1>10. CASE DrainHup
  <2>1. "main" \in Callers /\ reload["main"].at \notin Holding /\ Up
    BY <1>10 DEF DrainHup, Callers, Holding, Looping, Up
  <2> QED
    BY <1>10, <1>a, <1>b, <2>1, ReloadWaits DEF DrainHup, Holding
<1> QED
  BY <1>1, <1>2, <1>3, <1>4, <1>5, <1>6, <1>7, <1>8, <1>9, <1>10

(* The steps of run_reload keep it, on either thread. *)
LEMMA ReloadCaller ==
  ASSUME ReloadInv, NEW c \in Callers, Reloading(c)
  PROVE  ReloadInv'
<1> DEFINE Tracks == [applied : Configs, behind : SUBSET Labels, torn : BOOLEAN, signalled : Nat,
                      read : Nat, http : Nat, starts : Nat]
<1>a. /\ track \in Tracks /\ version \in Nat /\ disk \in FileContents /\ callbacks \in Seq(Labels)
      /\ live \in Configs /\ kept \in [Labels -> Copies] /\ reload \in [Callers -> Reloads]
  BY DEF ReloadInv, ReloadShape
<1>b. Away \in Reloads /\ Away.at = "away"
  BY DEF Away, Reloads, Holding
<1>c. c # "free" /\ c \in Callers
  BY DEF Callers
<1>d. \A r \in Reloads : \A d \in Callers : reload' = [reload EXCEPT ![c] = r] =>
          /\ reload' \in [Callers -> Reloads]
          /\ reload'[d] = IF d = c THEN r ELSE reload[d]
  BY <1>a
<1>e. \A d \in Callers : reload[d].at \in Holding <=> mutex = d
  BY DEF ReloadInv, UnderMutex
<1>f. ~(reload[c].at = "away") => Up
  BY DEF ReloadInv, UnderMutex
<1>1. CASE Lock(c)
  <2> DEFINE r == [reload[c] EXCEPT !.at = "read"]
  <2>1. reload' = [reload EXCEPT ![c] = r] /\ mutex' = c /\ mutex = "free" /\ reload[c].at = "lock"
        /\ UNCHANGED <<disk, version, phase, live, kept, callbacks, track>>
    BY <1>1, <1>a DEF Lock
  <2>2. r \in Reloads /\ r.at = "read"
    BY <1>a DEF Reloads, Holding
  <2> HIDE DEF r
  <2>3. \A d \in Callers : reload[d].at \notin Holding
    BY <2>1, <1>e DEF Callers
  <2>4. reload' \in [Callers -> Reloads] /\ \A d \in Callers : reload'[d] = IF d = c THEN r ELSE reload[d]
    BY <1>d, <2>1, <2>2
  <2>5. ReloadShape'
    BY <2>1, <2>4 DEF ReloadInv, ReloadShape
  <2>6. UnderMutex'
    BY <1>f, <2>1, <2>2, <2>3, <2>4 DEF UnderMutex, Holding, Up
  <2>7. LiveIsAccepted'
    BY <2>1, <2>2, <2>3, <2>4 DEF ReloadInv, LiveIsAccepted, Holding
  <2>8. CopiesAreTold'
    BY <2>1, <2>2, <2>3, <2>4 DEF ReloadInv, CopiesAreTold, Holding
  <2>9. ThresholdsMakeSense'
    BY <2>1 DEF ReloadInv, ThresholdsMakeSense, Up
  <2> QED
    BY <2>5, <2>6, <2>7, <2>8, <2>9 DEF ReloadInv
<1>2. CASE Reply(c)
  BY <1>2, <1>a, <1>b, ReloadWaits DEF Reply, Holding
<1>3. ASSUME reload[c].at \in Holding
      PROVE  mutex = c /\ Up /\ \A d \in Callers : d # c => reload[d].at \notin Holding
  BY <1>3, <1>e, <1>f DEF Holding
<1>4. CASE ReadFile(c)
  <2>1. reload[c].at = "read" /\ UNCHANGED <<disk, version, phase, live, kept, callbacks>>
    BY <1>4 DEF ReadFile
  <2>2. mutex = c /\ Up /\ \A d \in Callers : d # c => reload[d].at \notin Holding
    BY <1>3, <2>1 DEF Holding
  <2>3. live = track.applied /\ Valid(live)
    BY <2>1, <2>2 DEF ReloadInv, LiveIsAccepted, Holding
  <2>4. \A l \in Labels \ track.behind : kept[l] # Nothing => \A k \in Copied[l] : kept[l][k] = live[k]
    BY <2>1, <2>2 DEF ReloadInv, CopiesAreTold, Holding
  <2>5. ASSUME NEW why \in {"error", "rejected"}, Refused(c, why) PROVE ReloadInv'
    <3> DEFINE r == [Away EXCEPT !.at = "reply", !.cand = <<disk>>, !.result = why]
    <3>1. reload' = [reload EXCEPT ![c] = r] /\ mutex' = "free"
      BY <2>5 DEF Refused
    <3>2. r \in Reloads /\ r.at = "reply"
      <4>1. <<disk>> \in Seq(FileContents)
        BY <1>a
      <4>2. \A a \in Reloads : LET e == [a EXCEPT !.at = "reply", !.cand = <<disk>>, !.result = why] IN
                              e \in Reloads /\ e.at = "reply"
        BY <4>1 DEF Reloads
      <4> QED
        BY <1>b, <4>2
    <3> HIDE DEF r
    <3>3. reload' \in [Callers -> Reloads] /\ \A d \in Callers : reload'[d] = IF d = c THEN r ELSE reload[d]
      BY <1>d, <3>1, <3>2
    <3>4. track' = [track EXCEPT !.read = version]
      BY <1>4, <1>a, <3>2, <3>3 DEF ReadFile
    <3>5. track' \in Tracks /\ track'.applied = track.applied /\ track'.behind = track.behind /\ track'.torn = track.torn
      BY <1>a, <3>4
    <3>6. ReloadShape'
      BY <2>1, <3>3, <3>5 DEF ReloadInv, ReloadShape
    <3>7. UnderMutex'
      BY <1>c, <2>1, <2>2, <3>1, <3>2, <3>3 DEF UnderMutex, Holding, Up, Callers
    <3>8. LiveIsAccepted'
      BY <2>1, <2>2, <2>3, <3>2, <3>3, <3>5 DEF ReloadInv, LiveIsAccepted, Holding
    <3>9. CopiesAreTold'
      BY <2>1, <2>4, <3>5 DEF CopiesAreTold
    <3>10. ThresholdsMakeSense'
      BY <2>1, <3>5 DEF ReloadInv, ThresholdsMakeSense, Up
    <3> QED
      BY <3>6, <3>7, <3>8, <3>9, <3>10 DEF ReloadInv
  <2>6. ASSUME Loads(disk), reload' = [reload EXCEPT ![c] =
                   [at |-> "apply", cand |-> <<disk>>, hot |-> ChangedHot(Overlay(disk)),
                    left |-> ChangedHot(Overlay(disk)), todo |-> <<>>, result |-> "none"]],
               UNCHANGED mutex
        PROVE  ReloadInv'
    <3> DEFINE hot == ChangedHot(Overlay(disk))
               r == [at |-> "apply", cand |-> <<disk>>, hot |-> hot, left |-> hot, todo |-> <<>>,
                     result |-> "none"]
               applied == [k \in ConfigFields |-> IF k \in HotFields THEN Overlay(disk)[k]
                                                  ELSE track.applied[k]]
    <3>1. hot \subseteq HotFields /\ \A k \in HotFields : k \notin hot => live[k] = Overlay(disk)[k]
      BY DEF ChangedHot
    <3> HIDE DEF hot
    <3>2. <<disk>> \in Seq(FileContents) /\ <<disk>>[1] = disk /\ <<disk>> # <<>> /\ <<>> \in Seq(Labels)
      BY <1>a
    <3>3. /\ r \in Reloads /\ r.at = "apply" /\ r.cand = <<disk>> /\ r.hot = hot /\ r.left = hot
      BY <3>1, <3>2 DEF Reloads, Holding
    <3>4. reload' = [reload EXCEPT ![c] = r]
      BY <2>6 DEF hot
    <3> HIDE DEF r
    <3>5. reload' \in [Callers -> Reloads] /\ \A d \in Callers : reload'[d] = IF d = c THEN r ELSE reload[d]
      BY <1>d, <3>3, <3>4
    <3>6. Overlay(disk) \in Configs /\ Valid(Overlay(disk))
      BY <1>a, <2>6, OverlayIsConfig DEF Loads
    <3>7. applied \in Configs /\ track.applied \in Configs
      BY <1>a, <3>6 DEF Configs
    <3>8. track' = [track EXCEPT !.read = version, !.applied = applied]
      BY <1>4, <1>a, <3>3, <3>5 DEF ReadFile
    <3>9. \A k \in ConfigFields : applied[k] = IF k \in HotFields THEN Overlay(disk)[k] ELSE track.applied[k]
      OBVIOUS
    <3> HIDE DEF applied
    <3>10. track' \in Tracks /\ track'.applied = applied /\ track'.behind = track.behind /\ track'.torn = track.torn
      BY <1>a, <3>7, <3>8
    <3>11. Valid(applied)
      <4>1. applied["onset"] = Overlay(disk)["onset"] /\ applied["offset"] = Overlay(disk)["offset"]
        BY <3>9, FieldNames
      <4> QED
        BY <3>6, <4>1, Zenon DEF Valid
    <3>12. ReloadShape'
      BY <2>1, <3>5, <3>10 DEF ReloadInv, ReloadShape
    <3>13. UnderMutex'
      BY <2>1, <2>2, <2>6, <3>3, <3>5 DEF ReloadInv, UnderMutex, Holding, Up
    <3>14. LiveIsAccepted'
      <4>1. \A k \in ConfigFields : IF k \in hot THEN applied[k] = Overlay(disk)[k]
                                    ELSE live[k] = applied[k]
        BY <2>3, <3>1, <3>9
      <4>2. reload'[c].at = "apply" /\ \A d \in Callers : reload'[d].at = "apply" => d = c
        BY <2>2, <3>3, <3>5 DEF Holding
      <4>3. reload'[c].cand[1] = disk
        BY <3>2, <3>3, <3>5
      <4> QED
        BY <2>1, <3>2, <3>3, <3>5, <3>10, <3>11, <4>1, <4>2, <4>3 DEF LiveIsAccepted
    <3>15. CopiesAreTold'
      BY <2>1, <2>4, <3>10 DEF CopiesAreTold
    <3>16. ThresholdsMakeSense'
      BY <2>1, <3>10 DEF ReloadInv, ThresholdsMakeSense, Up
    <3> QED
      BY <3>12, <3>13, <3>14, <3>15, <3>16 DEF ReloadInv
  <2> QED
    BY <1>4, <2>5, <2>6 DEF ReadFile
<1>5. CASE ApplyHotField(c)
  <2> DEFINE k == NextHot(reload[c].left)
             r == [reload[c] EXCEPT !.left = reload[c].left \ {k}]
             cand == Overlay(reload[c].cand[1])
  <2>1. reload[c].at = "apply" /\ reload[c].left # {}
        /\ UNCHANGED <<disk, version, phase, kept, callbacks, mutex, track>>
    BY <1>5 DEF ApplyHotField
  <2>2. live' = [live EXCEPT ![k] = cand[k]] /\ reload' = [reload EXCEPT ![c] = r]
    BY <1>5, <1>a DEF ApplyHotField
  <2>3. reload[c].left \in SUBSET HotFields /\ reload[c] \in Reloads
    BY <1>a DEF Reloads
  <2>4. k \in reload[c].left
    BY <2>1, <2>3, NextIsLeft
  <2> HIDE DEF k
  <2>5. /\ r \in Reloads /\ r.at = "apply" /\ r.hot = reload[c].hot /\ r.cand = reload[c].cand
        /\ r.left = reload[c].left \ {k}
    BY <2>1, <2>3 DEF Reloads
  <2> HIDE DEF r
  <2>6. reload' \in [Callers -> Reloads] /\ \A d \in Callers : reload'[d] = IF d = c THEN r ELSE reload[d]
    BY <1>d, <2>2, <2>5
  <2>7. /\ reload[c].cand # <<>> /\ reload[c].left \subseteq reload[c].hot
        /\ \A j \in ConfigFields : IF j \in reload[c].left THEN track.applied[j] = cand[j]
                                   ELSE live[j] = track.applied[j]
    BY <2>1 DEF ReloadInv, LiveIsAccepted
  <2>8. cand \in Configs
    <3>1. reload[c].cand \in Seq(FileContents)
      BY <2>3 DEF Reloads
    <3>2. reload[c].cand[1] \in FileContents
      BY <2>7, <3>1
    <3> QED
      BY <3>2, OverlayIsConfig
  <2>9. k \in ConfigFields
    BY <2>3, <2>4, FieldNames
  <2>10. cand[k] \in Values
    BY <2>8, <2>9 DEF Configs
  <2>x. track.applied \in Configs
    BY <1>a
  <2>11. live' \in Configs /\ live'[k] = cand[k] /\ \A j \in ConfigFields : j # k => live'[j] = live[j]
    BY <1>a, <2>2, <2>9, <2>10 DEF Configs
  <2> HIDE DEF cand
  <2>12. mutex = c /\ Up /\ \A d \in Callers : d # c => reload[d].at \notin Holding
    BY <1>3, <2>1 DEF Holding
  <2>13. ReloadShape'
    BY <2>1, <2>6, <2>11 DEF ReloadInv, ReloadShape
  <2>14. UnderMutex'
    BY <2>1, <2>5, <2>6, <2>12 DEF ReloadInv, UnderMutex, Holding, Up
  <2>15. LiveIsAccepted'
    <3>1. reload'[c].at = "apply" /\ \A d \in Callers : reload'[d].at = "apply" => d = c
      BY <2>5, <2>6, <2>12 DEF Holding
    <3>2. Overlay(reload'[c].cand[1]) = cand
      BY <2>5, <2>6 DEF cand
    <3>3. \A j \in ConfigFields : IF j \in reload'[c].left THEN track.applied[j] = cand[j]
                                  ELSE live'[j] = track.applied[j]
      BY <2>4, <2>5, <2>6, <2>7, <2>9, <2>11
    <3>4. Valid(track'.applied) /\ track' = track
      BY <2>1 DEF ReloadInv, LiveIsAccepted
    <3>5. reload'[c].cand # <<>> /\ reload'[c].left \subseteq reload'[c].hot
      BY <2>5, <2>6, <2>7
    <3> QED
      BY <3>1, <3>2, <3>3, <3>4, <3>5 DEF LiveIsAccepted
  <2>16. CopiesAreTold'
    <3> SUFFICES ASSUME NEW l \in Labels \ track.behind, kept[l] # Nothing, NEW j \in Copied[l],
                        kept[l][j] # live'[j]
                 PROVE  reload'[c].at = "apply" /\ j \in reload'[c].hot
      BY <2>1 DEF CopiesAreTold
    <3>1. reload'[c].at = "apply" /\ reload'[c].hot = reload[c].hot
      BY <2>5, <2>6
    <3>2. CASE j = k
      BY <2>4, <2>7, <3>1, <3>2
    <3>3. CASE j # k
      <4>1. kept[l][j] # live[j]
        BY <2>11, <3>3, FieldNames
      <4>2. PICK d \in Callers : j \in reload[d].hot /\ reload[d].at \in Holding
        BY <4>1 DEF ReloadInv, CopiesAreTold, Holding
      <4> QED
        BY <2>12, <3>1, <4>2
    <3> QED
      BY <3>2, <3>3
  <2>17. ThresholdsMakeSense'
    BY <2>1 DEF ReloadInv, ThresholdsMakeSense, Up
  <2> QED
    BY <2>13, <2>14, <2>15, <2>16, <2>17 DEF ReloadInv
<1>6. CASE ApplyDone(c)
  <2> DEFINE r == [reload[c] EXCEPT !.at = "tell", !.todo = callbacks]
             late == {l \in Labels : /\ kept[l] # Nothing /\ ~Contains(callbacks, l)
                                     /\ kept[l] # CopyFrom(live, l)}
  <2>1. /\ reload[c].at = "apply" /\ reload[c].left = {}
        /\ reload' = [reload EXCEPT ![c] = r]
        /\ track' = [track EXCEPT !.behind = track.behind \union late]
        /\ UNCHANGED <<disk, version, phase, live, kept, callbacks, mutex>>
    BY <1>6, <1>a DEF ApplyDone
  <2>2. reload[c] \in Reloads
    BY <1>a
  <2>3. r \in Reloads /\ r.at = "tell" /\ r.hot = reload[c].hot /\ r.todo = callbacks
    BY <1>a, <2>2 DEF Reloads, Holding
  <2> HIDE DEF r
  <2>4. reload' \in [Callers -> Reloads] /\ \A d \in Callers : reload'[d] = IF d = c THEN r ELSE reload[d]
    BY <1>d, <2>1, <2>3
  <2>5. track' \in Tracks /\ track'.applied = track.applied /\ track'.torn = track.torn
        /\ track'.behind = track.behind \union late
    BY <1>a, <2>1
  <2>6. mutex = c /\ Up /\ \A d \in Callers : d # c => reload[d].at \notin Holding
    BY <1>3, <2>1 DEF Holding
  <2>7. live = track.applied /\ Valid(track.applied)
    <3>1. \A k \in ConfigFields : live[k] = track.applied[k]
      BY <2>1 DEF ReloadInv, LiveIsAccepted
    <3>2. track.applied \in Configs
      BY <1>a
    <3> QED
      BY <1>a, <3>1, <3>2 DEF Configs, ReloadInv, LiveIsAccepted
  <2>8. ReloadShape'
    BY <2>1, <2>4, <2>5 DEF ReloadInv, ReloadShape
  <2>9. UnderMutex'
    BY <2>1, <2>3, <2>4, <2>6 DEF ReloadInv, UnderMutex, Holding, Up
  <2>10. LiveIsAccepted'
    BY <2>1, <2>3, <2>4, <2>5, <2>6, <2>7 DEF LiveIsAccepted, Holding
  <2>11. CopiesAreTold'
    <3> SUFFICES ASSUME NEW l \in Labels \ track'.behind, kept[l] # Nothing, NEW j \in Copied[l],
                        kept[l][j] # live[j]
                 PROVE  reload'[c].at = "tell" /\ j \in reload'[c].hot /\ l \in Range(reload'[c].todo)
      BY <2>1 DEF CopiesAreTold
    <3>1. l \in Labels /\ l \notin track.behind /\ l \notin late
      BY <2>5
    <3>2. kept[l] # CopyFrom(live, l)
      BY <1>a, <3>1, CopyIsCopy
    <3>3. Contains(callbacks, l)
      BY <3>1, <3>2
    <3>4. l \in Range(callbacks)
      BY <1>a, <3>3 DEF Contains, Range
    <3>5. PICK d \in Callers : j \in reload[d].hot /\ reload[d].at \in Holding
      BY <3>1 DEF ReloadInv, CopiesAreTold, Holding
    <3> QED
      BY <2>3, <2>4, <2>6, <3>4, <3>5
  <2>12. ThresholdsMakeSense'
    BY <2>1, <2>5 DEF ReloadInv, ThresholdsMakeSense, Up
  <2> QED
    BY <2>8, <2>9, <2>10, <2>11, <2>12 DEF ReloadInv
<1>7. CASE Tell(c)
  <2> DEFINE todo == reload[c].todo
             label == Head(reload[c].todo)
             r == [reload[c] EXCEPT !.todo = Tail(todo)]
  <2>1. /\ reload[c].at = "tell" /\ todo # <<>> /\ reload' = [reload EXCEPT ![c] = r]
        /\ UNCHANGED <<disk, version, phase, live, callbacks, mutex>>
    BY <1>7, <1>a DEF Tell
  <2>2. \/ /\ kept' = [kept EXCEPT ![label] = CopyFrom(live, label)]
           /\ track' = [track EXCEPT !.behind = track.behind \ {label}]
        \/ track' = [track EXCEPT !.behind = track.behind \union {label}] /\ kept' = kept
        \/ ~Concerns(c, label) /\ kept' = kept /\ track' = track
    BY <1>7 DEF Tell
  <2>3. reload[c] \in Reloads /\ todo \in Seq(Labels)
    BY <1>a DEF Reloads
  <2> HIDE DEF todo
  <2>4. /\ label \in Labels /\ Tail(todo) \in Seq(Labels)
        /\ \A l \in Range(todo) : l = label \/ l \in Range(Tail(todo))
    BY <2>1, <2>3, TailElems DEF todo
  <2> HIDE DEF label
  <2>5. r \in Reloads /\ r.at = "tell" /\ r.hot = reload[c].hot /\ r.todo = Tail(todo)
    BY <2>1, <2>3, <2>4 DEF Reloads
  <2> HIDE DEF r
  <2>6. reload' \in [Callers -> Reloads] /\ \A d \in Callers : reload'[d] = IF d = c THEN r ELSE reload[d]
    BY <1>d, <2>1, <2>5
  <2>7. mutex = c /\ Up /\ \A d \in Callers : d # c => reload[d].at \notin Holding
    BY <1>3, <2>1 DEF Holding
  <2>8. live = track.applied /\ Valid(live)
    BY <2>1, <2>7 DEF ReloadInv, LiveIsAccepted, Holding
  <2>9. /\ track' \in Tracks /\ track'.applied = track.applied /\ track'.torn = track.torn
        /\ \A l \in Labels : l # label => (l \in track'.behind <=> l \in track.behind)
    BY <1>a, <2>2, <2>4
  <2>10. /\ CopyFrom(live, label) \in [Copied[label] -> Values] /\ CopyFrom(live, label) \in Copies
         /\ \A k \in Copied[label] : CopyFrom(live, label)[k] = live[k]
    BY <1>a, <2>4, CopyIsCopy
  <2>11. /\ kept' \in [Labels -> Copies]
         /\ \A l \in Labels : l # label => kept'[l] = kept[l]
         /\ kept'[label] = kept[label] \/ kept'[label] = CopyFrom(live, label)
    BY <1>a, <2>2, <2>4, <2>10
  <2>12. ReloadShape'
    BY <1>a, <2>1, <2>6, <2>9, <2>10, <2>11 DEF ReloadInv, ReloadShape
  <2>13. UnderMutex'
    BY <2>1, <2>5, <2>6, <2>7 DEF ReloadInv, UnderMutex, Holding, Up
  <2>14. LiveIsAccepted'
    BY <2>1, <2>5, <2>6, <2>7, <2>8, <2>9 DEF ReloadInv, LiveIsAccepted, Holding
  <2>15. CopiesAreTold'
    <3> SUFFICES ASSUME NEW l \in Labels \ track'.behind, kept'[l] # Nothing, NEW j \in Copied[l],
                        kept'[l][j] # live[j]
                 PROVE  reload'[c].at = "tell" /\ j \in reload'[c].hot /\ l \in Range(reload'[c].todo)
      BY <2>1 DEF CopiesAreTold
    <3>1. kept'[l] = kept[l]
      BY <2>10, <2>11
    <3>2. l # label \/ (l = label /\ ~Concerns(c, label) /\ track' = track)
      <4>1. ASSUME l = label, kept' = [kept EXCEPT ![label] = CopyFrom(live, label)] PROVE FALSE
        BY <1>a, <2>4, <2>10, <4>1
      <4>2. ASSUME l = label, track' = [track EXCEPT !.behind = track.behind \union {label}] PROVE FALSE
        BY <1>a, <4>2
      <4> QED
        BY <2>2, <4>1, <4>2
    <3>3. l \notin track.behind
      BY <2>9, <3>2
    <3>4. PICK d \in Callers : /\ j \in reload[d].hot
                               /\ \/ reload[d].at = "apply"
                                  \/ reload[d].at = "tell" /\ l \in Range(reload[d].todo)
      BY <3>1, <3>3 DEF ReloadInv, CopiesAreTold
    <3>5. d = c /\ l \in Range(todo) /\ j \in reload[c].hot
      BY <2>1, <2>7, <3>4 DEF todo, Holding
    <3>6. l # label
      BY <3>2, <3>5 DEF Concerns
    <3> QED
      BY <2>4, <2>5, <2>6, <3>5, <3>6
  <2>16. ThresholdsMakeSense'
    <3>1. CASE kept'["endpointer"] = kept["endpointer"]
      BY <2>1, <2>9, <3>1 DEF ReloadInv, ThresholdsMakeSense, Up
    <3>2. CASE kept'["endpointer"] = CopyFrom(live, label) /\ label = "endpointer"
      <4>1. "onset" \in Copied["endpointer"] /\ "offset" \in Copied["endpointer"]
        BY FieldNames
      <4>2. kept'["endpointer"]["onset"] = live["onset"] /\ kept'["endpointer"]["offset"] = live["offset"]
        BY <2>10, <3>2, <4>1
      <4> QED
        BY <2>8, <4>2, Zenon DEF ThresholdsMakeSense, Valid
    <3> QED
      BY <2>11, <3>1, <3>2, FieldNames
  <2> QED
    BY <2>12, <2>13, <2>14, <2>15, <2>16 DEF ReloadInv
<1>8. CASE ReloadDone(c)
  <2> DEFINE r == [Away EXCEPT !.at = "reply", !.result = "ok"]
  <2>1. /\ reload[c].at = "tell" /\ reload[c].todo = <<>> /\ reload' = [reload EXCEPT ![c] = r]
        /\ mutex' = "free"
        /\ UNCHANGED <<disk, version, phase, live, kept, callbacks, track>>
    BY <1>8 DEF ReloadDone
  <2>2. r \in Reloads /\ r.at = "reply"
    <3>1. \A a \in Reloads : LET e == [a EXCEPT !.at = "reply", !.result = "ok"] IN
                            e \in Reloads /\ e.at = "reply"
      BY DEF Reloads
    <3> QED
      BY <1>b, <3>1
  <2> HIDE DEF r
  <2>3. reload' \in [Callers -> Reloads] /\ \A d \in Callers : reload'[d] = IF d = c THEN r ELSE reload[d]
    BY <1>d, <2>1, <2>2
  <2>4. mutex = c /\ Up /\ \A d \in Callers : d # c => reload[d].at \notin Holding
    BY <1>3, <2>1 DEF Holding
  <2>5. ReloadShape'
    BY <2>1, <2>3 DEF ReloadInv, ReloadShape
  <2>6. UnderMutex'
    BY <1>c, <2>1, <2>2, <2>3, <2>4 DEF UnderMutex, Holding, Up, Callers
  <2>7. LiveIsAccepted'
    BY <2>1, <2>2, <2>3, <2>4 DEF ReloadInv, LiveIsAccepted, Holding
  <2>8. Range(<<>>) = {}
    BY DEF Range
  <2>9. CopiesAreTold'
    BY <2>1, <2>4, <2>8 DEF ReloadInv, CopiesAreTold, Holding
  <2>10. ThresholdsMakeSense'
    BY <2>1 DEF ReloadInv, ThresholdsMakeSense, Up
  <2> QED
    BY <2>5, <2>6, <2>7, <2>9, <2>10 DEF ReloadInv
<1> QED
  BY <1>1, <1>2, <1>4, <1>5, <1>6, <1>7, <1>8 DEF Reloading

(* Every step keeps it. *)
LEMMA ReloadStep == ReloadInv /\ [ReloadNext]_reloadVars => ReloadInv'
<1> SUFFICES ASSUME ReloadInv, [ReloadNext]_reloadVars PROVE ReloadInv'
  OBVIOUS
<1>1. CASE UNCHANGED reloadVars
  BY <1>1 DEF reloadVars, ReloadInv, ReloadShape, UnderMutex, LiveIsAccepted, CopiesAreTold,
     ThresholdsMakeSense, Up
<1> QED
  BY <1>1, ReloadMain, ReloadCaller DEF ReloadNext

(* A reload takes effect as a whole or not at all, in the live Config, in   *)
(* the copies and in the pair of thresholds, for every set of files, by HTTP *)
(* and by SIGHUP at the same time (reload.cpp, reload_setup.cpp).           *)
THEOREM ReloadsAreNeverMixed == ReloadSafety => []ReloadsAreWhole
<1>1. ASSUME ReloadInv PROVE ReloadsAreWhole
  <2>1. mutex = "free" => \A c \in Callers : reload[c].at \notin Holding
    BY <1>1 DEF ReloadInv, UnderMutex, Callers
  <2>2. LastReloadWins
    BY <1>1, <2>1 DEF ReloadInv, LiveIsAccepted, LastReloadWins, Holding
  <2>3. CopiesFollowLive
    <3> SUFFICES ASSUME mutex = "free", NEW l \in Labels \ track.behind, kept[l] # Nothing
                 PROVE  kept[l] = CopyFrom(live, l)
      BY DEF CopiesFollowLive
    <3>1. \A k \in Copied[l] : kept[l][k] = live[k]
      BY <1>1, <2>1 DEF ReloadInv, CopiesAreTold, Holding
    <3>2. kept[l] \in [Copied[l] -> Values] /\ live \in Configs
      BY <1>1 DEF ReloadInv, ReloadShape
    <3> QED
      BY <3>1, <3>2 DEF CopyFrom
  <2> QED
    BY <1>1, <2>2, <2>3 DEF ReloadsAreWhole, ReloadInv
<1> QED
  BY ReloadInitial, ReloadStep, <1>1, PTL DEF ReloadSafety

-----------------------------------------------------------------------------
(* The supervisor. *)
SupervisorSafety == SupervisorInit /\ [][SupervisorNext]_supervisorVars

Says == {"unknown", "healthy", "degraded", "unhealthy", "failed"}
Events == [service : Services \union {"supervisor"}, state : Says]
Monitors == [state : ServiceStates, failures : Nat, at : {"probe", "publish", "wait", "gone"},
             prev : ServiceStates]

SupervisorShape ==
    /\ mon \in [Services -> Monitors] /\ down \in [Services -> Int] /\ marker \in [Services -> Int]
    /\ bus \in [Subscribers -> Seq(Events)]
    /\ eval \in [todo : SUBSET Services, on : BOOLEAN, failed : BOOLEAN]
    /\ gauge \in [health : [Services -> Says], pipeline : PipelineStates]
    /\ pipeline \in PipelineStates /\ wake \in BOOLEAN /\ fresh \in BOOLEAN

\* What a service's state says about its probes, and the history about its state.
StateTells ==
    \A s \in Services :
        /\ mon[s].state = "unhealthy" <=>
              (mon[s].failures >= MaxFailures /\ mon[s].state \notin {"probing", "healthy"})
        /\ down[s] >= -1 /\ (down[s] # -1 <=> mon[s].state = "unhealthy")
        /\ marker[s] >= -1 /\ (marker[s] # -1 => s \in Critical)

\* What has been announced of a service.
Announced(s) == Published(IF mon[s].at = "publish" THEN mon[s].prev ELSE mon[s].state)

\* The last event of service s in queue q says v, or else the gauge g does.
LastSays(q, g, s, v) ==
    /\ (\A i \in DOMAIN q : q[i].service # s) => g = v
    /\ \A i \in DOMAIN q :
          q[i].service = s /\ (\A j \in DOMAIN q : j > i => q[j].service # s) => q[i].state = v

GaugesCatchUp ==
    /\ \A s \in Services : LastSays(bus["health_gauge"], gauge.health[s], s, Announced(s))
    /\ pipeline = "failed" => gauge.pipeline = "failed" \/ bus["pipeline_gauge"] # <<>>

\* The evaluator is going to look at the service: something it waits for is on its way.
WillLook(s) ==
    \/ mon[s].at = "publish" /\ mon[s].prev # mon[s].state
    \/ bus["evaluator"] # <<>> \/ wake \/ (eval.on /\ s \in eval.todo)

\* unhealthy_since_ is the truth, or is one probe behind it and will be corrected in the same
\* second: a service changes its state once in a second.
MarkerFollows ==
    run = "up" => \A s \in Critical :
        \/ marker[s] = down[s]
        \/ /\ mon[s].at \in {"publish", "wait"} /\ WillLook(s)
           /\ (down[s] = 0 /\ marker[s] = -1) \/ (down[s] = -1 /\ marker[s] # -1)

\* The verdict of an evaluation is that of the markers it has passed, and the gate is that of
\* the last evaluation.
VerdictFollows ==
    /\ ~eval.on => eval.todo = {}
    /\ eval.on => (eval.failed <=> \E s \in Services \ eval.todo : marker[s] >= Grace)
    /\ ~eval.on /\ fresh /\ Critical # {} =>
          (pipeline = "failed" <=> \E s \in Services : marker[s] >= Grace)

SupervisorInv == SupervisorShape /\ StateTells /\ GaugesCatchUp /\ MarkerFollows /\ VerdictFollows

-----------------------------------------------------------------------------

(* The handler of the gauge takes the oldest event: what the queue and the  *)
(* gauge say together stays the same.                                       *)
LEMMA HandledSays ==
  ASSUME NEW E, NEW q \in Seq(E), q # <<>>, NEW g, NEW s, NEW v, LastSays(q, g, s, v)
  PROVE  LastSays(Tail(q), IF Head(q).service = s THEN Head(q).state ELSE g, s, v)
<1> DEFINE t == Tail(q)
<1>1. /\ DOMAIN q = 1..Len(q) /\ Len(q) \in Nat /\ Len(q) >= 1 /\ DOMAIN t = 1..(Len(q) - 1)
      /\ \A i \in 1..(Len(q) - 1) : t[i] = q[i + 1]
      /\ Head(q) = q[1]
  OBVIOUS
<1> HIDE DEF t
<1>2. \A j \in 1..Len(q) : j > 1 => j - 1 \in DOMAIN t /\ t[j - 1] = q[j]
  BY <1>1
<1>3. ASSUME \A i \in DOMAIN t : t[i].service # s
      PROVE  v = IF q[1].service = s THEN q[1].state ELSE g
  <2>1. \A j \in DOMAIN q : j > 1 => q[j].service # s
    BY <1>1, <1>2, <1>3
  <2>2. 1 \in DOMAIN q /\ \A j \in DOMAIN q : j = 1 \/ j > 1
    BY <1>1
  <2> QED
    BY <2>1, <2>2 DEF LastSays
<1>4. ASSUME NEW i \in DOMAIN t, t[i].service = s, \A j \in DOMAIN t : j > i => t[j].service # s
      PROVE  t[i].state = v
  <2>1. i + 1 \in DOMAIN q /\ q[i + 1] = t[i] /\ i \in Nat
    BY <1>1
  <2>2. \A j \in DOMAIN q : j > i + 1 => q[j].service # s
    <3> SUFFICES ASSUME NEW j \in DOMAIN q, j > i + 1 PROVE q[j].service # s
      OBVIOUS
    <3>1. j \in Nat /\ j > 1 /\ j - 1 > i
      BY <1>1, <2>1
    <3> QED
      BY <1>1, <1>2, <1>4, <3>1
  <2> QED
    BY <1>4, <2>1, <2>2 DEF LastSays
<1>5. Head(q) = q[1]
  BY <1>1
<1> QED
  BY <1>3, <1>4, <1>5 DEF LastSays, t

(* An event that is sent is the last word on its service, and none on the   *)
(* others.                                                                  *)
LEMMA SentSays ==
  ASSUME NEW E, NEW q \in Seq(E), NEW e \in E, NEW g, NEW s, NEW v,
         IF e.service = s THEN e.state = v ELSE LastSays(q, g, s, v)
  PROVE  LastSays(Append(q, e), g, s, v)
<1> DEFINE t == Append(q, e)
<1>1. /\ DOMAIN q = 1..Len(q) /\ Len(q) \in Nat /\ DOMAIN t = 1..(Len(q) + 1)
      /\ \A i \in 1..Len(q) : t[i] = q[i]
      /\ t[Len(q) + 1] = e
  OBVIOUS
<1> HIDE DEF t
<1>2. CASE e.service = s
  <2>1. \A i \in DOMAIN t : i = Len(q) + 1 \/ Len(q) + 1 > i
    BY <1>1
  <2>2. Len(q) + 1 \in DOMAIN t
    BY <1>1
  <2> QED
    BY <1>1, <1>2, <2>1, <2>2 DEF LastSays, t
<1>3. CASE e.service # s
  <2>1. \A i \in DOMAIN t : t[i].service = s => i \in DOMAIN q /\ t[i] = q[i]
    BY <1>1, <1>3
  <2>2. \A i \in DOMAIN q : i \in DOMAIN t /\ t[i] = q[i]
    BY <1>1
  <2> QED
    BY <1>3, <2>1, <2>2 DEF LastSays, t
<1> QED
  BY <1>2, <1>3

(* The invariant holds when start() begins its first evaluation. *)
LEMMA SupervisorInitial == SupervisorInit => SupervisorInv
<1> SUFFICES ASSUME SupervisorInit PROVE SupervisorInv
  OBVIOUS
<1> USE SupervisorAssumption
<1>1. SupervisorShape
  <2>1. mon \in [Services -> Monitors]
    BY DEF SupervisorInit, Monitors, ServiceStates
  <2>2. down \in [Services -> Int] /\ marker \in [Services -> Int]
    BY DEF SupervisorInit
  <2>3. bus \in [Subscribers -> Seq(Events)]
    BY DEF SupervisorInit
  <2>4. eval \in [todo : SUBSET Services, on : BOOLEAN, failed : BOOLEAN]
    BY DEF SupervisorInit
  <2>5. gauge \in [health : [Services -> Says], pipeline : PipelineStates] /\ pipeline \in PipelineStates
    BY DEF SupervisorInit, Says, PipelineStates
  <2> QED
    BY <2>1, <2>2, <2>3, <2>4, <2>5 DEF SupervisorInit, SupervisorShape
<1>2. StateTells
  BY DEF SupervisorInit, StateTells
<1>3. GaugesCatchUp
  <2>1. \A g, s : LastSays(<<>>, g, s, g)
    BY DEF LastSays
  <2>2. \A s \in Services : Announced(s) = "unknown" /\ gauge.health[s] = "unknown"
    BY DEF SupervisorInit, Announced, Published
  <2>3. bus["health_gauge"] = <<>>
    BY DEF SupervisorInit, Subscribers
  <2> QED
    BY <2>1, <2>2, <2>3 DEF SupervisorInit, GaugesCatchUp
<1>4. MarkerFollows
  BY DEF SupervisorInit, MarkerFollows
<1>5. VerdictFollows
  BY DEF SupervisorInit, VerdictFollows
<1> QED
  BY <1>1, <1>2, <1>3, <1>4, <1>5 DEF SupervisorInv

(* A monitor applies a result, publishes it, or ends. *)
LEMMA MonitorStep ==
  ASSUME SupervisorInv, NEW s \in Services, MonitorSteps(s)
  PROVE  SupervisorInv'
<1> USE SupervisorAssumption
<1>a. /\ mon \in [Services -> Monitors] /\ mon[s] \in Monitors /\ down \in [Services -> Int]
      /\ marker \in [Services -> Int] /\ bus \in [Subscribers -> Seq(Events)]
  BY DEF SupervisorInv, SupervisorShape
<1>b. "evaluator" \in Subscribers /\ "health_gauge" \in Subscribers /\ "pipeline_gauge" \in Subscribers
  BY DEF Subscribers
<1>1. ASSUME NEW m \in Monitors, mon' = [mon EXCEPT ![s] = m]
      PROVE  mon' \in [Services -> Monitors] /\ \A t \in Services : mon'[t] = IF t = s THEN m ELSE mon[t]
  BY <1>1, <1>a
<1>2. ASSUME run \in {"up", "evaluator"}, mon[s].at = "probe", NEW ok \in BOOLEAN,
             LET next == NextState(s, ok)
                IN  /\ mon' = [mon EXCEPT ![s] =
                                [state |-> next, prev |-> mon[s].state, at |-> "publish",
                                 failures |-> IF ok THEN 0
                                              ELSE IF mon[s].failures < MaxFailures
                                                   THEN mon[s].failures + 1 ELSE mon[s].failures]]
                    /\ down' = [down EXCEPT ![s] =
                                  IF next # "unhealthy" THEN -1 ELSE IF down[s] = -1 THEN 0 ELSE down[s]],
             UNCHANGED <<bus, wake, eval, marker, pipeline, gauge, run, fresh>>
      PROVE  SupervisorInv'
  <2> DEFINE next == NextState(s, ok)
             failures == IF ok THEN 0 ELSE IF mon[s].failures < MaxFailures
                                           THEN mon[s].failures + 1 ELSE mon[s].failures
             m == [state |-> next, prev |-> mon[s].state, at |-> "publish", failures |-> failures]
             d == IF next # "unhealthy" THEN -1 ELSE IF down[s] = -1 THEN 0 ELSE down[s]
  <2>1. next \in {"healthy", "degraded", "unhealthy"} /\ failures \in Nat
    BY <1>a DEF NextState, Monitors
  <2>2. next = "unhealthy" <=> failures >= MaxFailures /\ next # "healthy"
    BY <1>a DEF NextState, Monitors
  <2>3. mon' = [mon EXCEPT ![s] = m] /\ down' = [down EXCEPT ![s] = d]
    BY <1>2
  <2>4. d \in Int /\ d >= -1 /\ (d # -1 <=> next = "unhealthy") /\ (d = down[s] \/ d = -1 \/ (d = 0 /\ down[s] = -1))
    BY <1>a DEF SupervisorInv, StateTells
  <2> HIDE DEF next, failures, d
  <2>5. m \in Monitors /\ m.state = next /\ m.failures = failures /\ m.at = "publish" /\ m.prev = mon[s].state
    BY <1>a, <2>1 DEF Monitors, ServiceStates
  <2> HIDE DEF m
  <2>6. mon' \in [Services -> Monitors] /\ \A t \in Services : mon'[t] = IF t = s THEN m ELSE mon[t]
    BY <1>1, <2>3, <2>5
  <2>7. down' \in [Services -> Int] /\ \A t \in Services : down'[t] = IF t = s THEN d ELSE down[t]
    BY <1>a, <2>3, <2>4
  <2>8. SupervisorShape'
    BY <1>2, <2>6, <2>7 DEF SupervisorInv, SupervisorShape
  <2>9. StateTells'
    <3>1. next = "unhealthy" <=> failures >= MaxFailures /\ next \notin {"probing", "healthy"}
      BY <2>1, <2>2
    <3> QED
      BY <1>2, <2>4, <2>5, <2>6, <2>7, <3>1 DEF SupervisorInv, StateTells
  <2>10. GaugesCatchUp'
    <3>1. \A t \in Services : Announced(t)' = Announced(t)
      BY <1>2, <2>5, <2>6 DEF Announced
    <3> QED
      BY <1>2, <3>1 DEF SupervisorInv, GaugesCatchUp
  <2>11. MarkerFollows'
    <3> SUFFICES ASSUME run = "up", NEW t \in Critical
                 PROVE  \/ marker'[t] = down'[t]
                        \/ /\ mon'[t].at \in {"publish", "wait"} /\ WillLook(t)'
                           /\ (down'[t] = 0 /\ marker'[t] = -1) \/ (down'[t] = -1 /\ marker'[t] # -1)
      BY <1>2 DEF MarkerFollows
    <3>1. CASE t # s
      <4>1. mon'[t] = mon[t] /\ down'[t] = down[t] /\ marker'[t] = marker[t]
        BY <1>2, <2>6, <2>7, <3>1
      <4>2. WillLook(t)' <=> WillLook(t)
        BY <1>2, <4>1 DEF WillLook
      <4> QED
        BY <4>1, <4>2 DEF SupervisorInv, MarkerFollows
    <3>2. CASE t = s
      <4>1. marker[s] = down[s] /\ marker' = marker /\ down'[s] = d /\ mon'[s] = m
        BY <1>2, <2>6, <2>7, <3>2 DEF SupervisorInv, MarkerFollows
      <4>2. CASE d = down[s]
        BY <3>2, <4>1, <4>2
      <4>3. CASE d # down[s]
        <5>1. next # mon[s].state
          BY <2>4, <4>3 DEF SupervisorInv, StateTells, d
        <5>2. WillLook(s)'
          BY <2>5, <4>1, <5>1 DEF WillLook
        <5> QED
          BY <2>4, <2>5, <3>2, <4>1, <4>3, <5>2
      <4> QED
        BY <4>2, <4>3
    <3> QED
      BY <3>1, <3>2
  <2>12. VerdictFollows'
    BY <1>2 DEF SupervisorInv, VerdictFollows
  <2> QED
    BY <2>8, <2>9, <2>10, <2>11, <2>12 DEF SupervisorInv
<1>3. ASSUME run = "monitors", mon[s].at \in {"probe", "wait"}, mon' = [mon EXCEPT ![s].at = "gone"],
             UNCHANGED <<down, bus, wake, eval, marker, pipeline, gauge, run, fresh>>
      PROVE  SupervisorInv'
  <2> DEFINE m == [mon[s] EXCEPT !.at = "gone"]
  <2>1. m \in Monitors /\ m.state = mon[s].state /\ m.failures = mon[s].failures /\ m.at = "gone"
    BY <1>a DEF Monitors
  <2>2. mon' = [mon EXCEPT ![s] = m]
    BY <1>3
  <2> HIDE DEF m
  <2>3. mon' \in [Services -> Monitors] /\ \A t \in Services : mon'[t] = IF t = s THEN m ELSE mon[t]
    BY <1>1, <2>1, <2>2
  <2>4. SupervisorShape'
    BY <1>3, <2>3 DEF SupervisorInv, SupervisorShape
  <2>5. StateTells'
    BY <1>3, <2>1, <2>3 DEF SupervisorInv, StateTells
  <2>6. GaugesCatchUp'
    <3>1. \A t \in Services : Announced(t)' = Announced(t)
      BY <1>3, <2>1, <2>3 DEF Announced
    <3> QED
      BY <1>3, <3>1 DEF SupervisorInv, GaugesCatchUp
  <2>7. MarkerFollows' /\ VerdictFollows'
    BY <1>3 DEF SupervisorInv, MarkerFollows, VerdictFollows
  <2> QED
    BY <2>4, <2>5, <2>6, <2>7 DEF SupervisorInv
<1>4. CASE PublishIfChanged(s)
  <2> DEFINE m == [mon[s] EXCEPT !.at = "wait", !.prev = mon[s].state]
             e == [service |-> s, state |-> Published(mon[s].state)]
  <2>1. /\ mon[s].at = "publish" /\ mon' = [mon EXCEPT ![s] = m]
        /\ bus' = IF Published(mon[s].prev) = Published(mon[s].state) THEN bus ELSE Send(Subscribers, e)
        /\ UNCHANGED <<down, wake, eval, marker, pipeline, gauge, run, fresh>>
    BY <1>4, <1>a DEF PublishIfChanged
  <2>2. m \in Monitors /\ m.state = mon[s].state /\ m.failures = mon[s].failures /\ m.at = "wait"
        /\ m.prev = mon[s].state
    BY <1>a DEF Monitors
  <2> HIDE DEF m
  <2>3. mon' \in [Services -> Monitors] /\ \A t \in Services : mon'[t] = IF t = s THEN m ELSE mon[t]
    BY <1>1, <2>1, <2>2
  <2>4. e \in Events /\ e.service = s /\ e.state = Published(mon[s].state)
    BY <1>a DEF Events, Says, Published, Monitors, ServiceStates
  <2>5. Published(mon[s].prev) = Published(mon[s].state) <=> mon[s].prev = mon[s].state
    BY <1>a DEF Published, Monitors, ServiceStates
  <2> HIDE DEF e
  <2>6. CASE mon[s].prev # mon[s].state
    <3>1. /\ bus' \in [Subscribers -> Seq(Events)]
          /\ \A u \in Subscribers : bus'[u] = Append(bus[u], e)
      BY <1>a, <2>1, <2>4, <2>5, <2>6 DEF Send
    <3>2. SupervisorShape'
      BY <2>1, <2>3, <3>1 DEF SupervisorInv, SupervisorShape
    <3>3. StateTells'
      BY <2>1, <2>2, <2>3 DEF SupervisorInv, StateTells
    <3>4. GaugesCatchUp'
      <4>1. ASSUME NEW t \in Services
            PROVE  LastSays(bus'["health_gauge"], gauge'.health[t], t, Announced(t)')
        <5>1. IF e.service = t THEN e.state = Announced(t)'
              ELSE LastSays(bus["health_gauge"], gauge.health[t], t, Announced(t)')
          BY <2>1, <2>2, <2>3, <2>4 DEF SupervisorInv, GaugesCatchUp, Announced
        <5>2. bus["health_gauge"] \in Seq(Events)
          BY <1>a, <1>b
        <5>3. LastSays(Append(bus["health_gauge"], e), gauge.health[t], t, Announced(t)')
          BY <2>4, <5>1, <5>2, SentSays
        <5> QED
          BY <1>b, <2>1, <3>1, <5>3
      <4>2. bus'["pipeline_gauge"] # <<>>
        BY <1>a, <1>b, <2>4, <3>1
      <4> QED
        BY <4>1, <4>2 DEF GaugesCatchUp
    <3>5. MarkerFollows'
      <4>1. bus'["evaluator"] # <<>>
        BY <1>a, <1>b, <2>4, <3>1
      <4> QED
        BY <2>1, <2>2, <2>3, <4>1 DEF SupervisorInv, MarkerFollows, WillLook
    <3>6. VerdictFollows'
      BY <2>1 DEF SupervisorInv, VerdictFollows
    <3> QED
      BY <3>2, <3>3, <3>4, <3>5, <3>6 DEF SupervisorInv
  <2>7. CASE mon[s].prev = mon[s].state
    <3>1. bus' = bus
      BY <2>1, <2>5, <2>7
    <3>2. SupervisorShape'
      BY <2>1, <2>3, <3>1 DEF SupervisorInv, SupervisorShape
    <3>3. StateTells'
      BY <2>1, <2>2, <2>3 DEF SupervisorInv, StateTells
    <3>4. GaugesCatchUp'
      <4>1. \A t \in Services : Announced(t)' = Announced(t)
        BY <2>1, <2>2, <2>3, <2>7 DEF Announced
      <4> QED
        BY <2>1, <3>1, <4>1 DEF SupervisorInv, GaugesCatchUp
    <3>5. MarkerFollows'
      BY <2>1, <2>2, <2>3, <2>7, <3>1 DEF SupervisorInv, MarkerFollows, WillLook
    <3>6. VerdictFollows'
      BY <2>1 DEF SupervisorInv, VerdictFollows
    <3> QED
      BY <3>2, <3>3, <3>4, <3>5, <3>6 DEF SupervisorInv
  <2> QED
    BY <2>6, <2>7
<1> QED
  BY <1>2, <1>3, <1>4 DEF MonitorSteps, ApplyResult, MonitorEnds

(* A subscriber takes an event. *)
LEMMA BusStep ==
  ASSUME SupervisorInv, BusSteps
  PROVE  SupervisorInv'
<1> USE SupervisorAssumption
<1>a. bus \in [Subscribers -> Seq(Events)] /\ gauge \in [health : [Services -> Says], pipeline : PipelineStates]
  BY DEF SupervisorInv, SupervisorShape
<1>b. "evaluator" \in Subscribers /\ "health_gauge" \in Subscribers /\ "pipeline_gauge" \in Subscribers
  BY DEF Subscribers
<1>1. ASSUME NEW u \in Subscribers, bus[u] # <<>>, bus' = [bus EXCEPT ![u] = Tail(bus[u])]
      PROVE  /\ bus' \in [Subscribers -> Seq(Events)] /\ bus'[u] = Tail(bus[u])
             /\ \A w \in Subscribers : w # u => bus'[w] = bus[w]
  <2>1. bus[u] \in Seq(Events)
    BY <1>a
  <2>2. Tail(bus[u]) \in Seq(Events)
    BY <1>1, <2>1
  <2> QED
    BY <1>1, <1>a, <2>2
<1>2. CASE WakeEvaluator
  <2>1. /\ bus["evaluator"] # <<>> /\ bus' = [bus EXCEPT !["evaluator"] = Tail(bus["evaluator"])] /\ wake' = TRUE
        /\ UNCHANGED <<mon, down, eval, marker, pipeline, gauge, run, fresh>>
    BY <1>2 DEF WakeEvaluator
  <2>2. /\ bus' \in [Subscribers -> Seq(Events)]
        /\ bus'["health_gauge"] = bus["health_gauge"] /\ bus'["pipeline_gauge"] = bus["pipeline_gauge"]
    BY <1>1, <1>b, <2>1
  <2>3. SupervisorShape'
    BY <2>1, <2>2 DEF SupervisorInv, SupervisorShape
  <2>4. StateTells' /\ VerdictFollows'
    BY <2>1 DEF SupervisorInv, StateTells, VerdictFollows
  <2>5. GaugesCatchUp'
    BY <2>1, <2>2 DEF SupervisorInv, GaugesCatchUp, Announced
  <2>6. MarkerFollows'
    BY <2>1 DEF SupervisorInv, MarkerFollows, WillLook
  <2> QED
    BY <2>3, <2>4, <2>5, <2>6 DEF SupervisorInv
<1>3. CASE SetHealthState
  <2> DEFINE e == Head(bus["health_gauge"])
  <2>1. /\ bus["health_gauge"] # <<>> /\ bus' = [bus EXCEPT !["health_gauge"] = Tail(bus["health_gauge"])]
        /\ gauge' = [gauge EXCEPT !.health = [gauge.health EXCEPT ![e.service] = e.state]]
        /\ UNCHANGED <<mon, down, wake, eval, marker, pipeline, run, fresh>>
    BY <1>3, <1>a DEF SetHealthState
  <2>2. bus["health_gauge"] \in Seq(Events)
    BY <1>a, <1>b
  <2>3. e \in Events
    BY <2>1, <2>2
  <2>4. bus' \in [Subscribers -> Seq(Events)] /\ bus'["health_gauge"] = Tail(bus["health_gauge"])
        /\ bus'["evaluator"] = bus["evaluator"] /\ bus'["pipeline_gauge"] = bus["pipeline_gauge"]
    BY <1>1, <1>b, <2>1
  <2> HIDE DEF e
  <2>5. /\ gauge' \in [health : [Services -> Says], pipeline : PipelineStates] /\ gauge'.pipeline = gauge.pipeline
        /\ \A s \in Services : gauge'.health[s] = IF e.service = s THEN e.state ELSE gauge.health[s]
    BY <1>a, <2>1, <2>3 DEF Events
  <2>6. SupervisorShape'
    BY <2>1, <2>4, <2>5 DEF SupervisorInv, SupervisorShape
  <2>7. StateTells' /\ VerdictFollows'
    BY <2>1 DEF SupervisorInv, StateTells, VerdictFollows
  <2>8. GaugesCatchUp'
    <3>1. ASSUME NEW s \in Services PROVE LastSays(bus'["health_gauge"], gauge'.health[s], s, Announced(s)')
      <4>1. LastSays(bus["health_gauge"], gauge.health[s], s, Announced(s)) /\ Announced(s)' = Announced(s)
        BY <2>1 DEF SupervisorInv, GaugesCatchUp, Announced
      <4>2. LastSays(Tail(bus["health_gauge"]),
                     IF Head(bus["health_gauge"]).service = s THEN Head(bus["health_gauge"]).state
                     ELSE gauge.health[s], s, Announced(s))
        BY <2>1, <2>2, <4>1, HandledSays
      <4> QED
        BY <2>4, <2>5, <4>1, <4>2 DEF e
    <3> QED
      BY <2>1, <2>4, <2>5, <3>1 DEF SupervisorInv, GaugesCatchUp
  <2>9. MarkerFollows'
    BY <2>1, <2>4 DEF SupervisorInv, MarkerFollows, WillLook
  <2> QED
    BY <2>6, <2>7, <2>8, <2>9 DEF SupervisorInv
<1>4. CASE SetPipelineState
  <2>1. /\ bus["pipeline_gauge"] # <<>> /\ bus' = [bus EXCEPT !["pipeline_gauge"] = Tail(bus["pipeline_gauge"])]
        /\ gauge' = [gauge EXCEPT !.pipeline = pipeline]
        /\ UNCHANGED <<mon, down, wake, eval, marker, pipeline, run, fresh>>
    BY <1>4 DEF SetPipelineState
  <2>2. bus' \in [Subscribers -> Seq(Events)]
        /\ bus'["evaluator"] = bus["evaluator"] /\ bus'["health_gauge"] = bus["health_gauge"]
    BY <1>1, <1>b, <2>1
  <2>3. /\ gauge' \in [health : [Services -> Says], pipeline : PipelineStates] /\ gauge'.pipeline = pipeline
        /\ gauge'.health = gauge.health
    BY <1>a, <2>1 DEF SupervisorInv, SupervisorShape
  <2>4. SupervisorShape'
    BY <2>1, <2>2, <2>3 DEF SupervisorInv, SupervisorShape
  <2>5. StateTells' /\ VerdictFollows'
    BY <2>1 DEF SupervisorInv, StateTells, VerdictFollows
  <2>6. GaugesCatchUp'
    BY <2>1, <2>2, <2>3 DEF SupervisorInv, GaugesCatchUp, Announced
  <2>7. MarkerFollows'
    BY <2>1, <2>2 DEF SupervisorInv, MarkerFollows, WillLook
  <2> QED
    BY <2>4, <2>5, <2>6, <2>7 DEF SupervisorInv
<1> QED
  BY <1>2, <1>3, <1>4 DEF BusSteps

(* The evaluator wakes, samples a monitor, or passes its verdict. *)
LEMMA EvaluatorStep ==
  ASSUME SupervisorInv, EvaluatorSteps
  PROVE  SupervisorInv'
<1> USE SupervisorAssumption
<1>a. /\ bus \in [Subscribers -> Seq(Events)] /\ marker \in [Services -> Int] /\ down \in [Services -> Int]
      /\ eval \in [todo : SUBSET Services, on : BOOLEAN, failed : BOOLEAN]
  BY DEF SupervisorInv, SupervisorShape
<1>b. "evaluator" \in Subscribers /\ "health_gauge" \in Subscribers /\ "pipeline_gauge" \in Subscribers
  BY DEF Subscribers
<1>1. CASE EvaluatorWakes
  <2>1. /\ ~eval.on /\ wake' = FALSE /\ eval' = [todo |-> Services, on |-> TRUE, failed |-> FALSE]
        /\ UNCHANGED <<mon, down, bus, marker, pipeline, gauge, run, fresh>>
    BY <1>1 DEF EvaluatorWakes
  <2>2. SupervisorShape'
    BY <2>1 DEF SupervisorInv, SupervisorShape
  <2>3. StateTells' /\ GaugesCatchUp'
    BY <2>1 DEF SupervisorInv, StateTells, GaugesCatchUp, Announced
  <2>4. MarkerFollows'
    BY <2>1 DEF SupervisorInv, MarkerFollows, WillLook
  <2>5. VerdictFollows'
    BY <2>1 DEF VerdictFollows
  <2> QED
    BY <2>2, <2>3, <2>4, <2>5 DEF SupervisorInv
<1>2. ASSUME NEW s \in Services, EvaluateService(s) PROVE SupervisorInv'
  <2> DEFINE unhealthy == s \in Critical /\ mon[s].state = "unhealthy"
             age == IF ~unhealthy THEN -1 ELSE IF marker[s] = -1 THEN 0 ELSE marker[s]
  <2>1. /\ s \in eval.todo /\ marker' = [marker EXCEPT ![s] = age]
        /\ eval' = [eval EXCEPT !.todo = eval.todo \ {s},
                                !.failed = eval.failed \/ (unhealthy /\ marker'[s] >= Grace)]
        /\ UNCHANGED <<mon, down, bus, wake, pipeline, gauge, run, fresh>>
    BY <1>2 DEF EvaluateService
  <2>2. age \in Int /\ age >= -1 /\ (age # -1 => s \in Critical) /\ (unhealthy <=> age # -1)
    BY <1>a DEF SupervisorInv, StateTells
  <2>3. eval.on
    BY <2>1 DEF SupervisorInv, VerdictFollows
  <2>4. s \in Critical /\ run = "up" => age = down[s]
    BY <1>a DEF SupervisorInv, StateTells, MarkerFollows
  <2>5. PICK late \in BOOLEAN : late <=> age >= Grace
    <3>1. CASE age >= Grace
      BY <3>1
    <3>2. CASE ~(age >= Grace)
      BY <3>2
    <3> QED
      BY <3>1, <3>2
  <2> HIDE DEF age
  <2>6. marker' \in [Services -> Int] /\ marker'[s] = age /\ \A t \in Services : t # s => marker'[t] = marker[t]
    BY <1>a, <2>1, <2>2
  <2>7. unhealthy /\ marker'[s] >= Grace <=> late
    BY <2>2, <2>5, <2>6
  <2> HIDE DEF unhealthy
  <2>8. PICK failed \in BOOLEAN : (failed <=> eval.failed \/ late)
                                  /\ failed = (eval.failed \/ (unhealthy /\ marker'[s] >= Grace))
    <3>1. CASE eval.failed \/ late
      BY <2>7, <3>1
    <3>2. CASE ~(eval.failed \/ late)
      BY <2>7, <3>2
    <3> QED
      BY <3>1, <3>2
  <2>9. eval' = [todo |-> eval.todo \ {s}, on |-> eval.on, failed |-> failed]
    BY <1>a, <2>1, <2>8
  <2>10. SupervisorShape'
    BY <1>a, <2>1, <2>6, <2>9 DEF SupervisorInv, SupervisorShape
  <2>11. StateTells'
    BY <2>1, <2>2, <2>6 DEF SupervisorInv, StateTells
  <2>12. GaugesCatchUp'
    BY <2>1 DEF SupervisorInv, GaugesCatchUp, Announced
  <2>13. MarkerFollows'
    <3> SUFFICES ASSUME run = "up", NEW t \in Critical
                 PROVE  \/ marker'[t] = down'[t]
                        \/ /\ mon'[t].at \in {"publish", "wait"} /\ WillLook(t)'
                           /\ (down'[t] = 0 /\ marker'[t] = -1) \/ (down'[t] = -1 /\ marker'[t] # -1)
      BY <2>1 DEF MarkerFollows
    <3>1. CASE t = s
      BY <2>1, <2>4, <2>6, <3>1
    <3>2. CASE t # s
      <4>1. WillLook(t) => WillLook(t)'
        BY <2>1, <2>9, <3>2 DEF WillLook
      <4> QED
        BY <2>1, <2>6, <3>2, <4>1 DEF SupervisorInv, MarkerFollows
    <3> QED
      BY <3>1, <3>2
  <2>14. VerdictFollows'
    <3>1. eval.failed <=> \E t \in Services \ eval.todo : marker[t] >= Grace
      BY <2>3 DEF SupervisorInv, VerdictFollows
    <3>2. \A t \in Services \ eval.todo : t # s /\ marker'[t] = marker[t]
      BY <2>1, <2>6
    <3>3. \A t \in Services : t \in Services \ eval'.todo <=> t = s \/ t \in Services \ eval.todo
      BY <1>2, <2>9
    <3>4. eval'.failed <=> \E t \in Services \ eval'.todo : marker'[t] >= Grace
      BY <1>2, <2>5, <2>6, <2>8, <2>9, <3>1, <3>2, <3>3
    <3> QED
      BY <2>3, <2>9, <3>4 DEF VerdictFollows
  <2> QED
    BY <2>10, <2>11, <2>12, <2>13, <2>14 DEF SupervisorInv
<1>3. CASE EvaluatePipeline
  <2> DEFINE e == [service |-> "supervisor", state |-> "failed"]
  <2>1. /\ eval.on /\ eval.todo = {} /\ eval' = Idle /\ fresh' = TRUE
        /\ pipeline' = IF Critical = {} THEN "no_configured_critical_services"
                       ELSE IF eval.failed THEN "failed" ELSE "ok"
        /\ bus' = IF pipeline' = "failed" /\ pipeline # "failed"
                  THEN Send({"pipeline_gauge"}, e) ELSE bus
        /\ UNCHANGED <<mon, down, wake, marker, gauge, run>>
    BY <1>3 DEF EvaluatePipeline
  <2>2. e \in Events
    BY DEF Events, Says
  <2> HIDE DEF e
  <2>3. /\ bus' \in [Subscribers -> Seq(Events)]
        /\ bus'["health_gauge"] = bus["health_gauge"] /\ bus'["evaluator"] = bus["evaluator"]
        /\ pipeline' = "failed" => bus'["pipeline_gauge"] # <<>> \/ (pipeline = "failed" /\ bus' = bus)
    <3>1. CASE bus' = bus /\ ~(pipeline' = "failed" /\ pipeline # "failed")
      BY <1>a, <3>1
    <3>2. CASE bus' = Send({"pipeline_gauge"}, e)
      <4>1. \A u \in Subscribers : bus'[u] = IF u = "pipeline_gauge" THEN Append(bus[u], e) ELSE bus[u]
        BY <3>2 DEF Send
      <4>2. bus' \in [Subscribers -> Seq(Events)]
        BY <1>a, <2>2, <3>2 DEF Send
      <4>3. bus'["pipeline_gauge"] # <<>>
        <5>1. bus["pipeline_gauge"] \in Seq(Events)
          BY <1>a, <1>b
        <5>2. bus'["pipeline_gauge"] = Append(bus["pipeline_gauge"], e)
          BY <1>b, <4>1
        <5>3. \A q \in Seq(Events) : Append(q, e) # <<>>
          BY <2>2
        <5> QED
          BY <5>1, <5>2, <5>3
      <4> QED
        BY <1>b, <4>1, <4>2, <4>3
    <3> QED
      BY <2>1, <3>1, <3>2
  <2>4. SupervisorShape'
    BY <1>a, <2>1, <2>3 DEF SupervisorInv, SupervisorShape, Idle, PipelineStates
  <2>5. StateTells'
    BY <2>1 DEF SupervisorInv, StateTells
  <2>6. GaugesCatchUp'
    BY <2>1, <2>3 DEF SupervisorInv, GaugesCatchUp, Announced
  <2>7. MarkerFollows'
    BY <2>1, <2>3 DEF SupervisorInv, MarkerFollows, WillLook, Idle
  <2>8. VerdictFollows'
    BY <2>1 DEF SupervisorInv, VerdictFollows, Idle
  <2> QED
    BY <2>4, <2>5, <2>6, <2>7, <2>8 DEF SupervisorInv
<1> QED
  BY <1>1, <1>2, <1>3 DEF EvaluatorSteps

(* Every step of the monitors, the bus, the evaluator, stop() and the clock *)
(* keeps the invariant.                                                     *)
LEMMA SupervisorStep == SupervisorInv /\ [SupervisorNext]_supervisorVars => SupervisorInv'
<1> SUFFICES ASSUME SupervisorInv, [SupervisorNext]_supervisorVars PROVE SupervisorInv'
  OBVIOUS
<1> USE SupervisorAssumption
<1>1. CASE Stop \/ StopGoesOn \/ UNCHANGED supervisorVars
  <2>1. /\ UNCHANGED <<mon, down, bus, eval, marker, pipeline, gauge, fresh>>
        /\ wake' = wake \/ wake' = TRUE
        /\ run' = "up" => run = "up" /\ wake' = wake
    BY <1>1 DEF Stop, StopGoesOn, supervisorVars
  <2>2. SupervisorShape' /\ StateTells'
    BY <2>1 DEF SupervisorInv, SupervisorShape, StateTells
  <2>3. GaugesCatchUp' /\ VerdictFollows'
    BY <2>1 DEF SupervisorInv, GaugesCatchUp, Announced, VerdictFollows
  <2>4. MarkerFollows'
    BY <2>1 DEF SupervisorInv, MarkerFollows, WillLook
  <2> QED
    BY <2>2, <2>3, <2>4 DEF SupervisorInv
<1>2. CASE Second
  <2>1. /\ run = "up" /\ Quiet /\ fresh' = FALSE
        /\ mon' = [s \in Services |-> [mon[s] EXCEPT !.at = "probe"]]
        /\ down' = [s \in Services |-> Older(down[s], Grace)]
        /\ marker' = [s \in Services |-> Older(marker[s], Grace)]
        /\ UNCHANGED <<bus, wake, eval, pipeline, gauge, run>>
    BY <1>2 DEF Second
  <2>2. mon \in [Services -> Monitors] /\ down \in [Services -> Int] /\ marker \in [Services -> Int]
    BY DEF SupervisorInv, SupervisorShape
  <2>3. /\ mon' \in [Services -> Monitors]
        /\ \A s \in Services : /\ mon'[s].state = mon[s].state /\ mon'[s].failures = mon[s].failures
                               /\ mon'[s].at = "probe"
    BY <2>1, <2>2 DEF Monitors
  <2>4. \A n \in Int : n >= -1 => Older(n, Grace) \in Int /\ Older(n, Grace) >= -1
                                  /\ (Older(n, Grace) = -1 <=> n = -1)
    BY DEF Older
  <2>5. \A s \in Services : down[s] \in Int /\ down[s] >= -1 /\ marker[s] \in Int /\ marker[s] >= -1
    BY <2>2 DEF SupervisorInv, StateTells
  <2>6. /\ down' \in [Services -> Int] /\ marker' \in [Services -> Int]
        /\ \A s \in Services : /\ down'[s] >= -1 /\ (down'[s] = -1 <=> down[s] = -1)
                               /\ marker'[s] >= -1 /\ (marker'[s] = -1 <=> marker[s] = -1)
                               /\ (marker[s] = down[s] => marker'[s] = down'[s])
    BY <2>1, <2>4, <2>5
  <2>7. SupervisorShape'
    BY <2>1, <2>3, <2>6 DEF SupervisorInv, SupervisorShape
  <2>8. StateTells'
    BY <2>1, <2>3, <2>6 DEF SupervisorInv, StateTells
  <2>9. GaugesCatchUp'
    <3>1. \A s \in Services : Announced(s)' = Announced(s)
      BY <2>1, <2>3 DEF Announced, Quiet
    <3> QED
      BY <2>1, <3>1 DEF SupervisorInv, GaugesCatchUp
  <2>10. MarkerFollows'
    <3>1. \A s \in Critical : ~WillLook(s)
      BY <2>1 DEF WillLook, Quiet, Subscribers
    <3>2. \A s \in Critical : marker[s] = down[s]
      BY <2>1, <3>1 DEF SupervisorInv, MarkerFollows
    <3> QED
      BY <2>6, <3>2 DEF MarkerFollows
  <2>11. VerdictFollows'
    BY <2>1 DEF SupervisorInv, VerdictFollows, Quiet
  <2> QED
    BY <2>7, <2>8, <2>9, <2>10, <2>11 DEF SupervisorInv
<1> QED
  BY <1>1, <1>2, MonitorStep, BusStep, EvaluatorStep DEF SupervisorNext

(* The gate of the Manager and the exported health follow the services, for *)
(* any set of services, number of failures and grace period (supervisor.cpp, *)
(* service.cpp, supervisor_setup.cpp).                                      *)
THEOREM SupervisorFollows == SupervisorSafety => []HealthIsFollowed
<1>1. ASSUME SupervisorInv PROVE HealthIsFollowed
  <2> USE SupervisorAssumption
  <2>1. GateFollowsServices
    <3> SUFFICES ASSUME Quiet, run = "up", Critical # {}
                 PROVE  pipeline = "failed" <=> \E s \in Critical : down[s] >= Grace
      BY DEF GateFollowsServices
    <3>1. \A s \in Critical : ~WillLook(s)
      BY DEF WillLook, Quiet, Subscribers
    <3>2. \A s \in Critical : marker[s] = down[s]
      BY <1>1, <3>1 DEF SupervisorInv, MarkerFollows
    <3>3. pipeline = "failed" <=> \E s \in Services : marker[s] >= Grace
      BY <1>1 DEF SupervisorInv, VerdictFollows, Quiet
    <3>4. \A s \in Services : marker[s] \in Int /\ (marker[s] >= Grace => s \in Critical)
      BY <1>1 DEF SupervisorInv, SupervisorShape, StateTells
    <3> QED
      BY <3>2, <3>3, <3>4
  <2>2. \A s \in Services : Quiet => gauge.health[s] = Published(mon[s].state)
    BY <1>1 DEF SupervisorInv, GaugesCatchUp, LastSays, Announced, Quiet, Subscribers
  <2>3. (Quiet /\ pipeline = "failed") => gauge.pipeline = "failed"
    BY <1>1 DEF SupervisorInv, GaugesCatchUp, Quiet, Subscribers
  <2> QED
    BY <1>1, <2>1, <2>2, <2>3 DEF HealthIsFollowed, GaugesFollow, SupervisorInv, StateTells
<1> QED
  BY SupervisorInitial, SupervisorStep, <1>1, PTL DEF SupervisorSafety

-----------------------------------------------------------------------------
(* The synthetic driver. *)
DriverSafety == DriverInit /\ [][DriverNext]_<<fsmVars, driverVars>>

\* Where a turn is, and the events that take it further.
Phases == {"rest", "asks", "asked", "thinks", "says", "heard", "cut", "stillSays", "stillHeard"}
Course ==
    {<<"rest", "SpeechStarted", "asks">>, <<"asks", "SpeechEnded", "asked">>,
     <<"asked", "FinalTranscript", "thinks">>,
     <<"thinks", "LlmSentence", "says">>, <<"thinks", "LlmFinished", "rest">>,
     <<"says", "PlaybackFinished", "heard">>, <<"heard", "LlmSentence", "says">>,
     <<"heard", "LlmFinished", "rest">>, <<"heard", "UserInterrupted", "cut">>,
     <<"cut", "LlmSentence", "stillSays">>, <<"stillSays", "PlaybackFinished", "stillHeard">>,
     <<"stillHeard", "LlmFinished", "rest">>}

Words == {"pause", "SpeechStarted", "SpeechEnded", "FinalTranscript", "LlmSentence",
          "PlaybackFinished", "UserInterrupted", "LlmFinished"}

\* Phase by phase, what the driver has still to do leads to the end of the turn.
Leads(s, to) ==
    /\ to \in [0 .. Len(s) -> Phases]
    /\ \A i \in 1 .. Len(s) :
           /\ s[i] = "pause" => to[i] = to[i - 1] /\ to[i] # "rest"
           /\ s[i] # "pause" => <<to[i - 1], s[i], to[i]>> \in Course
           /\ to[i] = "rest" => i = Len(s)
    /\ to[Len(s)] = "rest"

\* What waits for the FSM goes through phases at[i] of turns no[i].
Follows(q, at, no) ==
    /\ at \in [0 .. Len(q) -> Phases] /\ no \in [0 .. Len(q) -> Nat]
    /\ \A i \in 1 .. Len(q) :
           /\ q[i].turn = no[i - 1] /\ <<at[i - 1], q[i].type, at[i]>> \in Course
           /\ no[i] = IF at[i] = "rest" THEN no[i - 1] + 1 ELSE no[i - 1]

\* The FSM where the turn is.
Over == completed + interrupted + discarded
Stands(q, n) ==
    /\ nextTurn = IF q = "rest" THEN n ELSE n + 1
    /\ active = nextTurn - 1
    /\ q = "rest" => /\ Over = n - 1
                     /\ \/ state \in {"Idle", "Listening"} /\ step = "idle"
                        \/ state = "Completed" /\ step = "settle"
    /\ q \in {"asks", "asked", "thinks"} => received = 0 /\ played = 0
    /\ q \in {"asks", "asked", "thinks", "says", "heard"} => Over = n - 1 /\ ~llmFinished
    /\ q = "asks" => \/ state = "UserSpeaking" /\ step = "idle"
                     \/ state = "Listening" /\ step = "begin"
    /\ q = "asked" => state = "Transcribing" /\ step = "idle"
    /\ q = "thinks" => state = "Thinking" /\ step = "idle"
    /\ q = "says" => state = "Speaking" /\ step = "idle" /\ received = played + 1
    /\ q = "heard" => state = "Speaking" /\ step = "idle" /\ received = played /\ played > 0
    /\ q = "cut" => \/ state = "Speaking" /\ step = "interrupt" /\ Over = n - 1
                    \/ state = "Interrupted" /\ step = "settle" /\ Over = n
                    \/ state = "Listening" /\ step = "idle" /\ Over = n
    /\ q \in {"stillSays", "stillHeard"} => state = "Listening" /\ step = "idle" /\ Over = n

DriverShape ==
    /\ running \in {"yes", "stopping", "ended"} /\ driven \in Nat
    /\ script \in Seq(Words) /\ inbox \in Seq([type : Words, turn : Nat])
    /\ nextTurn \in Nat /\ active \in Int /\ played \in Nat /\ received \in Nat
    /\ completed \in Nat /\ interrupted \in Nat /\ discarded \in Nat
    /\ running = "stopping" => script # <<>>
    /\ running = "ended" => script = <<>>
    /\ state = "Idle" => inbox = <<>> /\ script = <<>>

InStep(at, no, to) ==
    /\ Follows(inbox, at, no) /\ Stands(at[0], no[0])
    /\ running # "ended" =>
           Leads(script, to) /\ at[Len(inbox)] = to[0] /\ no[Len(inbox)] = driven

DriverInv == DriverShape /\ \E at, no, to : InStep(at, no, to)

(* The initial states. *)
LEMMA DriverInitial == DriverInit => DriverInv
<1> SUFFICES ASSUME DriverInit PROVE DriverInv
  OBVIOUS
<1>1. DriverShape
  BY DEF DriverInit, DriverShape, FsmInit, NoTurn
<1> DEFINE at == [i \in 0 .. 0 |-> "rest"]
           no == [i \in 0 .. 0 |-> 1]
<1>2. Follows(inbox, at, no)
  BY DEF Follows, DriverInit, Phases
<1>3. Stands(at[0], no[0])
  BY DEF Stands, DriverInit, FsmInit, NoTurn, Over
<1>4. Leads(script, at)
  BY DEF Leads, DriverInit, Phases
<1>5. InStep(at, no, at)
  BY <1>2, <1>3, <1>4 DEF InStep, DriverInit
<1> QED
  BY <1>1, <1>5 DEF DriverInv

\* The sentences of a turn, one after the other.
Said(n) == [j \in 1 .. 5 * n |-> Sentence[1 + ((j - 1) % 5)]]

(* One sentence more. *)
LEMMA SaidMore ==
    ASSUME NEW n \in Nat
    PROVE  Said(n) \in Seq(Words) /\ Len(Said(n)) = 5 * n /\ Said(n) \o Sentence = Said(n + 1)
<1>1. Sentence \in Seq(Words) /\ Len(Sentence) = 5
  BY DEF Sentence, Words
<1>2. Said(n) \in Seq(Words) /\ Len(Said(n)) = 5 * n
  <2>1. \A j \in 1 .. 5 * n : 1 + ((j - 1) % 5) \in 1 .. 5
    OBVIOUS
  <2>2. \A k \in 1 .. 5 : Sentence[k] \in Words
    BY DEF Sentence, Words
  <2>3. Said(n) \in [1 .. 5 * n -> Words] /\ 5 * n \in Nat
    BY <2>1, <2>2 DEF Said
  <2> QED
    BY <2>3, SeqDef
<1> DEFINE c == Said(n) \o Sentence
<1>3. /\ c \in Seq(Words) /\ DOMAIN c = 1 .. Len(Said(n)) + Len(Sentence)
      /\ \A i \in 1 .. Len(Said(n)) : c[i] = Said(n)[i]
      /\ \A i \in Len(Said(n)) + 1 .. Len(Said(n)) + Len(Sentence) : c[i] = Sentence[i - Len(Said(n))]
  <2>1. Sentence \in Seq(Words) /\ Said(n) \in Seq(Words)
    BY <1>1, <1>2
  <2>2. \A s, t \in Seq(Words) :
            /\ s \o t \in Seq(Words) /\ DOMAIN (s \o t) = 1 .. Len(s) + Len(t)
            /\ \A i \in 1 .. Len(s) : (s \o t)[i] = s[i]
            /\ \A i \in Len(s) + 1 .. Len(s) + Len(t) : (s \o t)[i] = t[i - Len(s)]
    BY ConcatAt
  <2> QED
    BY <2>1, <2>2, Zenon
<1> HIDE DEF c
<1>4. PICK l \in Nat : l = 5 * n /\ l + 5 = 5 * (n + 1)
  OBVIOUS
<1>5. /\ DOMAIN c = 1 .. l + 5 /\ \A i \in 1 .. l : c[i] = Said(n)[i]
      /\ \A i \in l + 1 .. l + 5 : c[i] = Sentence[i - l]
  BY <1>1, <1>2, <1>3, <1>4
<1>6. ASSUME NEW j \in 1 .. l + 5 PROVE c[j] = Said(n + 1)[j]
  <2>1. Said(n + 1)[j] = Sentence[1 + ((j - 1) % 5)]
    BY <1>4 DEF Said
  <2>2. CASE j <= l
    BY <1>4, <1>5, <2>1, <2>2 DEF Said
  <2>3. CASE j > l
    <3>1. j \in l + 1 .. l + 5
      BY <2>3
    <3>2. 1 + ((j - 1) % 5) = j - l
      BY <1>4, <3>1
    <3> QED
      BY <1>5, <2>1, <3>1, <3>2
  <2> QED
    BY <2>2, <2>3
<1>7. Said(n + 1) = [j \in 1 .. l + 5 |-> Said(n + 1)[j]]
  BY <1>4 DEF Said
<1>8. c = [j \in 1 .. l + 5 |-> c[j]]
  BY <1>3, <1>5
<1>9. c = Said(n + 1)
  BY <1>6, <1>7, <1>8
<1> QED
  BY <1>2, <1>9 DEF c

(* That is what run_one_turn's loop makes of them. *)
LEMMA SaidInTurn == ASSUME NEW n \in Nat PROVE FlattenSeq([i \in 1 .. n |-> Sentence]) = Said(n)
<1> DEFINE s == [i \in 1 .. n |-> Sentence]
           F(f) == [i \in 1 .. n |-> IF i = 1 THEN s[i] ELSE f[i - 1] \o s[i]]
           flat == CHOOSE f : f = F(f)
<1>1. Len(s) = n
  OBVIOUS
<1>2. CASE n = 0
  BY <1>1, <1>2 DEF FlattenSeq, Said
<1>3. CASE n # 0
  <2>1. FlattenSeq(s) = flat[n]
    BY <1>1, <1>3 DEF FlattenSeq
  <2>2. \A i \in 2 .. n : Said(i - 1) \o Sentence = Said(i)
    <3>1. \A i \in 2 .. n : i - 1 \in Nat /\ (i - 1) + 1 = i
      OBVIOUS
    <3> QED
      BY <3>1, SaidMore
  <2>3. Said(1) = Sentence
    <3>1. <<>> \o Sentence = Sentence
      BY DEF Sentence
    <3>2. Said(0) = <<>>
      BY DEF Said
    <3>3. Said(0) \o Sentence = Said(1)
      <4>1. 0 \in Nat /\ 0 + 1 = 1
        OBVIOUS
      <4> QED
        BY <4>1, SaidMore
    <3> QED
      BY <3>1, <3>2, <3>3, Zenon
  <2>4. flat = F(flat)
    <3> DEFINE g == [i \in 1 .. n |-> Said(i)]
    <3>1. \A i \in 1 .. n : g[i] = F(g)[i]
      <4>1. TAKE i \in 1 .. n
      <4>2. CASE i = 1
        BY <2>3, <4>2
      <4>3. CASE i # 1
        BY <2>2, <4>3, SMTT(60)
      <4> QED
        BY <4>2, <4>3
    <3>2. g = F(g)
      BY <3>1
    <3> QED
      BY <3>2, Zenon
  <2>5. \A i \in 1 .. n : flat[i] = IF i = 1 THEN Sentence ELSE flat[i - 1] \o Sentence
    BY <2>4
  <2> HIDE DEF flat
  <2>6. ASSUME NEW k \in 1 .. n, flat[k] # Said(k) PROVE FALSE
    <3> DEFINE B == {i \in 1 .. n : flat[i] # Said(i)}
    <3>1. B \in SUBSET Nat /\ B # {}
      BY <2>6
    <3>2. PICK m \in B : \A x \in B : m <= x
      BY <3>1, Least
    <3>3. CASE m = 1
      BY <2>3, <2>5, <3>2, <3>3
    <3>4. CASE m # 1
      <4>1. m - 1 \in 1 .. n /\ ~(m - 1 \in B) /\ m \in 2 .. n
        BY <3>2, <3>4
      <4>2. flat[m - 1] = Said(m - 1)
        BY <4>1
      <4> QED
        BY <2>2, <2>5, <3>2, <3>4, <4>1, <4>2
    <3> QED
      BY <3>3, <3>4
  <2>7. flat[n] = Said(n)
    BY <1>3, <2>6
  <2> QED
    BY <2>1, <2>7
<1> QED
  BY <1>2, <1>3

(* A whole turn leads from rest to rest. *)
LEMMA WholeTurnLeads ==
    OneTurn \in Seq(Words) /\ OneTurn # <<>> /\ \E to : Leads(OneTurn, to) /\ to[0] = "rest"
<1> DEFINE N == SentencesPerTurn
           m == Asked \o Said(N)
           last == <<"LlmFinished">>
<1>1. N \in Nat
  BY DriverAssumption
<1>2. OneTurn = m \o last
  BY <1>1, SaidInTurn DEF OneTurn
<1>3. PICK l \in Nat : l = 5 * N
  BY <1>1
<1>4. Said(N) \in Seq(Words) /\ Len(Said(N)) = l
  BY <1>1, <1>3, SaidMore
<1>5. Asked \in Seq(Words) /\ Len(Asked) = 6 /\ last \in Seq(Words) /\ Len(last) = 1
  BY DEF Asked, Words
<1>6. \A s, t \in Seq(Words) :
          /\ s \o t \in Seq(Words) /\ DOMAIN (s \o t) = 1 .. Len(s) + Len(t)
          /\ \A i \in 1 .. Len(s) : (s \o t)[i] = s[i]
          /\ \A i \in Len(s) + 1 .. Len(s) + Len(t) : (s \o t)[i] = t[i - Len(s)]
  BY ConcatAt
<1>7. /\ m \in Seq(Words) /\ DOMAIN m = 1 .. 6 + l
      /\ \A i \in 1 .. 6 : m[i] = Asked[i]
      /\ \A i \in 7 .. 6 + l : m[i] = Said(N)[i - 6]
  <2>1. /\ m \in Seq(Words) /\ DOMAIN m = 1 .. Len(Asked) + Len(Said(N))
        /\ \A i \in 1 .. Len(Asked) : m[i] = Asked[i]
        /\ \A i \in Len(Asked) + 1 .. Len(Asked) + Len(Said(N)) : m[i] = Said(N)[i - Len(Asked)]
    <3>1. Asked \in Seq(Words) /\ Said(N) \in Seq(Words)
      BY <1>4, <1>5
    <3> QED
      BY <1>6, <3>1, Zenon
  <2> HIDE DEF m
  <2> QED
    BY <1>4, <1>5, <2>1
<1> HIDE DEF m
<1>8. Len(m) = 6 + l
  BY <1>7, LenProperties
<1> DEFINE s == OneTurn
<1>9. /\ s \in Seq(Words) /\ Len(s) = 7 + l
      /\ \A i \in 1 .. 6 + l : s[i] = m[i]
      /\ s[7 + l] = "LlmFinished"
  <2>1. /\ s \in Seq(Words) /\ DOMAIN s = 1 .. Len(m) + Len(last)
        /\ \A i \in 1 .. Len(m) : s[i] = m[i]
        /\ \A i \in Len(m) + 1 .. Len(m) + Len(last) : s[i] = last[i - Len(m)]
    BY <1>2, <1>5, <1>6, <1>7, Zenon
  <2>2. Len(s) = 7 + l
    BY <1>5, <1>8, <2>1, LenProperties
  <2>3. s[7 + l] = last[1]
    BY <1>5, <1>8, <2>1
  <2> QED
    BY <1>8, <2>1, <2>2, <2>3
<1>10. /\ s[1] = "SpeechStarted" /\ s[2] = "pause" /\ s[3] = "SpeechEnded" /\ s[4] = "pause"
       /\ s[5] = "FinalTranscript" /\ s[6] = "pause"
  <2>1. \A i \in 1 .. 6 : s[i] = Asked[i]
    BY <1>7, <1>9
  <2> HIDE DEF s
  <2> QED
    BY <2>1 DEF Asked
<1>11. \A i \in 7 .. 6 + l : s[i] = Sentence[1 + ((i - 7) % 5)]
  <2>1. TAKE i \in 7 .. 6 + l
  <2>2. s[i] = Said(N)[i - 6]
    BY <1>7, <1>9
  <2>3. i - 6 \in 1 .. 5 * N /\ (i - 6) - 1 = i - 7
    BY <1>3
  <2> QED
    BY <2>2, <2>3 DEF Said
<1> HIDE DEF s, N
<1> DEFINE to == [i \in 0 .. 7 + l |->
                    IF i = 0 \/ i = 7 + l THEN "rest"
                    ELSE IF i < 3 THEN "asks" ELSE IF i < 5 THEN "asked" ELSE IF i < 7 THEN "thinks"
                    ELSE IF (i - 7) % 5 < 3 THEN "says" ELSE "heard"]
<1>12. to \in [0 .. 7 + l -> Phases]
  BY DEF Phases
<1>13. /\ to[0] = "rest" /\ to[1] = "asks" /\ to[2] = "asks" /\ to[3] = "asked"
       /\ to[4] = "asked" /\ to[5] = "thinks" /\ to[6] = "thinks" /\ to[7 + l] = "rest"
       /\ \A i \in 7 .. 6 + l : to[i] = IF (i - 7) % 5 < 3 THEN "says" ELSE "heard"
       /\ \A i \in 1 .. 6 + l : to[i] # "rest"
  OBVIOUS
<1> HIDE DEF to
<1>14. ASSUME NEW i \in 1 .. 7 + l
       PROVE  /\ s[i] = "pause" => to[i] = to[i - 1] /\ to[i] # "rest"
              /\ s[i] # "pause" => <<to[i - 1], s[i], to[i]>> \in Course
  <2>1. CASE i \in 1 .. 6
    <3>1. i \in {1, 2, 3, 4, 5, 6}
      BY <2>1
    <3> QED
      BY <1>10, <1>13, <3>1 DEF Course
  <2>2. CASE i \in 7 .. 6 + l
    <3>1. PICK k \in {0, 1, 2, 3, 4} : k = (i - 7) % 5
      BY <2>2
    <3>2. s[i] = Sentence[1 + k] /\ to[i] = IF k < 3 THEN "says" ELSE "heard"
      BY <1>11, <1>13, <2>2, <3>1
    <3>3. k > 0 => to[i - 1] = IF k < 4 THEN "says" ELSE "heard"
      <4>1. SUFFICES ASSUME k > 0 PROVE to[i - 1] = IF k < 4 THEN "says" ELSE "heard"
        OBVIOUS
      <4>2. i - 1 \in 7 .. 6 + l /\ ((i - 1) - 7) % 5 = k - 1
        BY <2>2, <3>1, <4>1
      <4> QED
        BY <1>13, <3>1, <4>2
    <3>4. k = 0 => to[i - 1] \in {"thinks", "heard"}
      <4>1. SUFFICES ASSUME k = 0 PROVE to[i - 1] \in {"thinks", "heard"}
        OBVIOUS
      <4>2. CASE i = 7
        BY <1>13, <4>2
      <4>3. CASE i # 7
        <5>1. i - 1 \in 7 .. 6 + l /\ ((i - 1) - 7) % 5 = 4
          BY <2>2, <3>1, <4>1, <4>3
        <5> QED
          BY <1>13, <5>1
      <4> QED
        BY <4>2, <4>3
    <3> QED
      BY <3>1, <3>2, <3>3, <3>4 DEF Sentence, Course
  <2>3. CASE i = 7 + l
    <3>1. to[i - 1] \in {"thinks", "heard"}
      <4>1. CASE l = 0
        BY <1>13, <2>3, <4>1
      <4>2. CASE l # 0
        <5>1. i - 1 \in 7 .. 6 + l /\ ((i - 1) - 7) % 5 = 4
          BY <1>1, <1>3, <2>3, <4>2
        <5> QED
          BY <1>13, <5>1
      <4> QED
        BY <4>1, <4>2
    <3> QED
      BY <1>9, <1>13, <2>3, <3>1 DEF Course
  <2> QED
    BY <2>1, <2>2, <2>3
<1>15. Leads(s, to)
  BY <1>9, <1>12, <1>13, <1>14 DEF Leads
<1>16. s # <<>>
  BY <1>9
<1> QED
  BY <1>9, <1>13, <1>15, <1>16 DEF s

(* So does one that is interrupted. *)
LEMMA CutTurnLeads ==
    /\ OneTurnWithBargeIn \in Seq(Words) /\ OneTurnWithBargeIn # <<>>
    /\ \E to : Leads(OneTurnWithBargeIn, to) /\ to[0] = "rest"
<1> DEFINE s == OneTurnWithBargeIn
           to == [i \in 0 .. 12 |->
                    IF i \in {0, 12} THEN "rest" ELSE IF i \in {1, 2} THEN "asks"
                    ELSE IF i \in {3, 4} THEN "asked" ELSE IF i \in {5, 6} THEN "thinks"
                    ELSE IF i = 7 THEN "says" ELSE IF i = 8 THEN "heard" ELSE IF i = 9 THEN "cut"
                    ELSE IF i = 10 THEN "stillSays" ELSE "stillHeard"]
           b == <<"LlmSentence", "PlaybackFinished", "UserInterrupted",
                  "LlmSentence", "PlaybackFinished", "LlmFinished">>
<1>1. Asked \in Seq(Words) /\ Len(Asked) = 6 /\ b \in Seq(Words) /\ Len(b) = 6
  BY DEF Asked, Words
<1>2. /\ s \in Seq(Words) /\ Len(s) = 12
      /\ \A i \in 1 .. 6 : s[i] = Asked[i] /\ s[i + 6] = b[i]
  <2>1. \A f, g \in Seq(Words) :
            /\ f \o g \in Seq(Words) /\ DOMAIN (f \o g) = 1 .. Len(f) + Len(g)
            /\ \A i \in 1 .. Len(f) : (f \o g)[i] = f[i]
            /\ \A i \in Len(f) + 1 .. Len(f) + Len(g) : (f \o g)[i] = g[i - Len(f)]
    BY ConcatAt
  <2> HIDE DEF s, b
  <2>2. /\ s \in Seq(Words) /\ DOMAIN s = 1 .. Len(Asked) + Len(b)
        /\ \A i \in 1 .. Len(Asked) : s[i] = Asked[i]
        /\ \A i \in Len(Asked) + 1 .. Len(Asked) + Len(b) : s[i] = b[i - Len(Asked)]
    <3>1. s = Asked \o b
      BY DEF s, b, OneTurnWithBargeIn
    <3> QED
      BY <1>1, <2>1, <3>1, Zenon
  <2>3. Len(s) = 12
    BY <1>1, <2>2, LenProperties
  <2> QED
    BY <1>1, <2>2, <2>3
<1>3. to \in [0 .. 12 -> Phases]
  BY DEF Phases
<1>4. ASSUME NEW i \in 1 .. 12
      PROVE  /\ s[i] = "pause" => to[i] = to[i - 1] /\ to[i] # "rest"
             /\ s[i] # "pause" => <<to[i - 1], s[i], to[i]>> \in Course
             /\ to[i] = "rest" => i = 12
  <2>1. i \in {1, 2, 3, 4, 5, 6, 7, 8, 9, 10, 11, 12}
    OBVIOUS
  <2>2. /\ s[1] = Asked[1] /\ s[2] = Asked[2] /\ s[3] = Asked[3] /\ s[4] = Asked[4]
        /\ s[5] = Asked[5] /\ s[6] = Asked[6] /\ s[7] = b[1] /\ s[8] = b[2] /\ s[9] = b[3]
        /\ s[10] = b[4] /\ s[11] = b[5] /\ s[12] = b[6]
    BY <1>2
  <2> QED
    BY <2>1, <2>2 DEF Course, Asked
<1>5. Leads(s, to) /\ to[0] = "rest"
  BY <1>2, <1>3, <1>4 DEF Leads
<1> HIDE DEF s, to
<1>6. s \in Seq(Words) /\ Len(s) = 12
  BY <1>2
<1>7. s # <<>>
  BY <1>6, EmptySeq, SMTT(60)
<1> QED
  <2>1. \E t : Leads(s, t) /\ t[0] = "rest"
    BY <1>5
  <2> QED
    BY <1>6, <1>7, <2>1, Zenon DEF s

(* The driver begins a turn. *)
LEMMA BeginsInStep ==
    ASSUME DriverShape, NEW at, NEW no, NEW to, InStep(at, no, to), DriverBegins
    PROVE  DriverInv'
<1>1. script' \in Seq(Words) /\ script' # <<>> /\ \E t : Leads(script', t) /\ t[0] = "rest"
  BY WholeTurnLeads, CutTurnLeads DEF DriverBegins
<1>2. PICK t : Leads(script', t) /\ t[0] = "rest"
  BY <1>1
<1>3. to[0] = "rest"
  BY DEF InStep, Leads, DriverBegins
<1>4. InStep(at, no, t)'
  BY <1>2, <1>3 DEF InStep, DriverBegins, Stands, Over, fsmVars, perTurn, counters
<1>5. DriverShape'
  BY <1>1 DEF DriverShape, DriverBegins, fsmVars, perTurn, counters
<1> QED
  BY <1>4, <1>5 DEF DriverInv

(* The driver publishes the next event, or sleeps. *)
LEMMA GoesOnInStep ==
    ASSUME DriverShape, NEW at, NEW no, NEW to, InStep(at, no, to), DriverGoesOn
    PROVE  DriverInv'
<1> DEFINE l == Len(script)
           k == Len(inbox)
           e == [type |-> Head(script), turn |-> driven]
<1>1. /\ Follows(inbox, at, no) /\ Stands(at[0], no[0]) /\ Leads(script, to)
      /\ at[k] = to[0] /\ no[k] = driven
  BY DEF InStep, DriverGoesOn
<1>2. /\ script \in Seq(Words) /\ script # <<>> /\ l \in Nat \ {0}
      /\ Head(script) = script[1] /\ Tail(script) \in Seq(Words) /\ Len(Tail(script)) = l - 1
      /\ \A i \in 1 .. l - 1 : Tail(script)[i] = script[i + 1]
      /\ Tail(script) = <<>> <=> l = 1
      /\ script[1] \in Words
  <2>1. script \in Seq(Words) /\ script # <<>>
    BY DEF DriverShape, DriverGoesOn
  <2>2. /\ l \in Nat \ {0} /\ Head(script) = script[1] /\ Tail(script) \in Seq(Words)
        /\ Len(Tail(script)) = l - 1 /\ script[1] \in Words
        /\ \A i \in 1 .. l - 1 : Tail(script)[i] = script[i + 1]
    BY <2>1
  <2>3. Tail(script) = <<>> <=> l = 1
    <3>1. \A t \in Seq(Words) : t = <<>> <=> Len(t) = 0
      BY EmptySeq
    <3>2. Tail(script) = <<>> <=> Len(Tail(script)) = 0
      BY <2>2, <3>1, Zenon
    <3>3. Len(Tail(script)) = 0 <=> l = 1
      BY <2>2
    <3> QED
      BY <3>2, <3>3, Zenon
  <2> QED
    BY <2>1, <2>2, <2>3
<1>3. /\ running \in {"yes", "stopping"} /\ driven \in Nat /\ k \in Nat
      /\ inbox \in Seq([type : Words, turn : Nat])
  BY DEF DriverShape, DriverGoesOn
<1>4. state # "Idle" /\ UNCHANGED fsmVars
  BY DEF DriverShape, DriverGoesOn
<1>5. Stands(at[0], no[0])'
  BY <1>1, <1>4 DEF Stands, Over, fsmVars, perTurn, counters
<1>6. CASE Head(script) = "pause" /\ running = "stopping"
  <2>1. script' = <<>> /\ running' = "ended" /\ UNCHANGED <<driven, inbox>>
    BY <1>6 DEF DriverGoesOn
  <2>2. DriverShape'
    BY <1>4, <2>1 DEF DriverShape, fsmVars, perTurn, counters
  <2>3. InStep(at, no, to)'
    BY <1>1, <1>5, <2>1 DEF InStep
  <2> QED
    BY <2>2, <2>3 DEF DriverInv
<1>7. CASE ~(Head(script) = "pause" /\ running = "stopping")
  <2>1. /\ script' = Tail(script)
        /\ driven' = IF l = 1 /\ running = "yes" THEN driven + 1 ELSE driven
        /\ running' = IF l = 1 /\ running = "stopping" THEN "ended" ELSE running
        /\ Head(script) = "pause" => inbox' = inbox
        /\ Head(script) # "pause" => inbox' = Append(inbox, e)
    BY <1>2, <1>7 DEF DriverGoesOn
  <2>2. /\ to \in [0 .. l -> Phases] /\ to[l] = "rest"
        /\ \A i \in 1 .. l :
               /\ script[i] = "pause" => to[i] = to[i - 1] /\ to[i] # "rest"
               /\ script[i] # "pause" => <<to[i - 1], script[i], to[i]>> \in Course
               /\ to[i] = "rest" => i = l
    BY <1>1 DEF Leads
  <2>3. PICK to2 : to2 \in [0 .. l - 1 -> Phases] /\ to2[0] = to[1] /\ \A i \in 0 .. l - 1 : to2[i] = to[i + 1]
    <3>1. 0 \in 0 .. l - 1 /\ 0 + 1 = 1 /\ \A i \in 0 .. l - 1 : i + 1 \in 0 .. l
      BY <1>2
    <3> HIDE DEF l
    <3> DEFINE t == [i \in 0 .. l - 1 |-> to[i + 1]]
    <3>2. t \in [0 .. l - 1 -> Phases] /\ t[0] = to[1] /\ \A i \in 0 .. l - 1 : t[i] = to[i + 1]
      BY <2>2, <3>1
    <3> QED
      BY <3>2
  <2> HIDE DEF l, k, e
  <2>4. Leads(Tail(script), to2)
    <3>1. to2[l - 1] = "rest"
      <4>1. l - 1 \in 0 .. l - 1 /\ (l - 1) + 1 = l
        BY <1>2
      <4> QED
        BY <2>2, <2>3, <4>1
    <3>2. ASSUME NEW i \in 1 .. l - 1
          PROVE  LET s == Tail(script)
                 IN  /\ s[i] = "pause" => to2[i] = to2[i - 1] /\ to2[i] # "rest"
                     /\ s[i] # "pause" => <<to2[i - 1], s[i], to2[i]>> \in Course
                     /\ to2[i] = "rest" => i = l - 1
      <4>1. /\ i + 1 \in 1 .. l /\ (i + 1) - 1 = i /\ i \in 0 .. l - 1 /\ i - 1 \in 0 .. l - 1
            /\ (i - 1) + 1 = i
        BY <1>2
      <4>2. Tail(script)[i] = script[i + 1] /\ to2[i] = to[i + 1] /\ to2[i - 1] = to[i]
        BY <1>2, <2>3, <4>1
      <4>3. /\ script[i + 1] = "pause" => to[i + 1] = to[i] /\ to[i + 1] # "rest"
            /\ script[i + 1] # "pause" => <<to[i], script[i + 1], to[i + 1]>> \in Course
            /\ to[i + 1] = "rest" => i + 1 = l
        BY <2>2, <4>1
      <4> QED
        BY <1>2, <4>2, <4>3, SMTT(60)
    <3> QED
      BY <1>2, <2>3, <3>1, <3>2 DEF Leads
  <2>5. 1 \in 1 .. l /\ (1 - 1) = 0 /\ (to[1] = "rest" <=> l = 1)
    BY <1>2, <2>2
  <2>6. CASE Head(script) = "pause"
    <3>1. to[1] = to[0] /\ l # 1 /\ inbox' = inbox /\ driven' = driven /\ running' = running
      BY <1>2, <1>7, <2>1, <2>2, <2>5, <2>6
    <3>2. InStep(at, no, to2)'
      <4>1. Len(inbox') = k
        BY <3>1 DEF k
      <4>2. Follows(inbox', at, no) /\ Leads(script', to2)
        BY <1>1, <2>1, <2>4, <3>1
      <4>3. at[Len(inbox')] = to2[0] /\ no[Len(inbox')] = driven'
        BY <1>1, <2>3, <3>1, <4>1
      <4> QED
        BY <1>5, <4>2, <4>3 DEF InStep
    <3>3. DriverShape'
      BY <1>2, <1>3, <1>4, <2>1, <3>1 DEF DriverShape, fsmVars, perTurn, counters
    <3> QED
      BY <3>2, <3>3 DEF DriverInv
  <2>7. CASE Head(script) # "pause"
    <3>1. /\ e \in [type : Words, turn : Nat] /\ inbox' = Append(inbox, e)
          /\ inbox' \in Seq([type : Words, turn : Nat]) /\ Len(inbox') = k + 1
          /\ \A i \in 1 .. k : inbox'[i] = inbox[i]
          /\ inbox'[k + 1] = e
      <4>1. e \in [type : Words, turn : Nat] /\ inbox' = Append(inbox, e)
        BY <1>2, <1>3, <2>1, <2>7 DEF e
      <4> QED
        BY <1>3, <4>1 DEF k
    <3>2. /\ at \in [0 .. k -> Phases] /\ no \in [0 .. k -> Nat]
          /\ \A i \in 1 .. k :
               /\ inbox[i].turn = no[i - 1] /\ <<at[i - 1], inbox[i].type, at[i]>> \in Course
               /\ no[i] = IF at[i] = "rest" THEN no[i - 1] + 1 ELSE no[i - 1]
      BY <1>1 DEF Follows, k
    <3>3. to[1] \in Phases
      BY <2>2, <2>5
    <3>10. PICK c \in Nat : c = IF l = 1 THEN driven + 1 ELSE driven
      BY <1>3
    <3>4. PICK at2, no2 :
             /\ at2 \in [0 .. k + 1 -> Phases] /\ no2 \in [0 .. k + 1 -> Nat]
             /\ \A i \in 0 .. k : at2[i] = at[i] /\ no2[i] = no[i]
             /\ at2[k + 1] = to[1] /\ no2[k + 1] = c
      <4> DEFINE a == [i \in 0 .. k + 1 |-> IF i = k + 1 THEN to[1] ELSE at[i]]
                 n == [i \in 0 .. k + 1 |-> IF i = k + 1 THEN c ELSE no[i]]
      <4>1. /\ a \in [0 .. k + 1 -> Phases] /\ n \in [0 .. k + 1 -> Nat]
            /\ \A i \in 0 .. k : a[i] = at[i] /\ n[i] = no[i]
            /\ a[k + 1] = to[1] /\ n[k + 1] = c
        BY <1>3, <3>2, <3>3 DEF k
      <4> HIDE DEF a, n
      <4> QED
        BY <4>1, Zenon
    <3>5. ASSUME NEW i \in 1 .. k + 1
          PROVE  /\ inbox'[i].turn = no2[i - 1] /\ <<at2[i - 1], inbox'[i].type, at2[i]>> \in Course
                 /\ no2[i] = IF at2[i] = "rest" THEN no2[i - 1] + 1 ELSE no2[i - 1]
      <4>1. CASE i = k + 1
        <5>1. i - 1 = k /\ k \in 0 .. k
          BY <1>3, <4>1
        <5>2. <<to[0], script[1], to[1]>> \in Course
          BY <1>2, <2>2, <2>5, <2>7
        <5>3. e.type = script[1] /\ e.turn = driven
          BY <1>2 DEF e
        <5>4. at2[i - 1] = to[0] /\ no2[i - 1] = driven
          BY <1>1, <3>4, <5>1 DEF k
        <5> QED
          BY <2>5, <3>1, <3>4, <3>10, <4>1, <5>2, <5>3, <5>4
      <4>2. CASE i # k + 1
        <5>1. i \in 1 .. k /\ i \in 0 .. k /\ i - 1 \in 0 .. k
          BY <1>3, <4>2
        <5> QED
          BY <3>1, <3>2, <3>4, <5>1
      <4> QED
        BY <4>1, <4>2
    <3>6. Follows(inbox', at2, no2)
      BY <3>1, <3>4, <3>5 DEF Follows
    <3>7. at2[0] = at[0] /\ no2[0] = no[0]
      BY <1>3, <3>4
    <3>8. InStep(at2, no2, to2)'
      <4>1. Stands(at2[0], no2[0])'
        BY <1>5, <3>7 DEF Stands
      <4>2. running' # "ended" => no2[k + 1] = driven'
        BY <1>3, <2>1, <3>4, <3>10
      <4> QED
        <5>1. Follows(inbox', at2, no2) /\ Leads(script', to2)
          BY <2>1, <2>4, <3>6
        <5>2. at2[Len(inbox')] = to2[0] /\ (running' # "ended" => no2[Len(inbox')] = driven')
          BY <2>3, <3>1, <3>4, <4>2
        <5> QED
          BY <4>1, <5>1, <5>2 DEF InStep
    <3>9. DriverShape'
      BY <1>2, <1>3, <1>4, <2>1, <3>1 DEF DriverShape, fsmVars, perTurn, counters
    <3> QED
      BY <3>8, <3>9 DEF DriverInv
  <2> QED
    BY <2>6, <2>7
<1> QED
  BY <1>6, <1>7

(* A handler takes the FSM to where the event takes the turn. *)
LEMMA HandlersInStep ==
    ASSUME DriverShape, state # "Idle", NEW q \in Phases, NEW n \in Nat, Stands(q, n),
           NEW e, NEW r \in Phases, <<q, e, r>> \in Course,
           \/ e = "SpeechStarted" /\ HandleSpeechStarted
           \/ e = "SpeechEnded" /\ HandleSpeechEnded
           \/ e = "FinalTranscript" /\ HandleFinalTranscript
           \/ e = "LlmSentence" /\ HandleLlmSentence
           \/ e = "LlmFinished" /\ HandleLlmFinished
           \/ e = "PlaybackFinished" /\ HandlePlaybackFinished(n)
           \/ e = "UserInterrupted" /\ HandleUserInterrupted
    PROVE  /\ Stands(r, IF r = "rest" THEN n + 1 ELSE n)'
           /\ nextTurn' \in Nat /\ active' \in Int /\ played' \in Nat /\ received' \in Nat
           /\ completed' \in Nat /\ interrupted' \in Nat /\ discarded' \in Nat
           /\ state' # "Idle"
<1>1. /\ nextTurn \in Nat /\ active \in Int /\ played \in Nat /\ received \in Nat
      /\ completed \in Nat /\ interrupted \in Nat /\ discarded \in Nat
  BY DEF DriverShape
<1> USE DEF Stands, Over, perTurn, counters
<1>2. CASE e = "SpeechStarted" /\ HandleSpeechStarted
  <2>1. q = "rest" /\ r = "asks"
    BY <1>2 DEF Course
  <2> QED
    BY <1>1, <1>2, <2>1 DEF HandleSpeechStarted, CanBegin, BeginTurn
<1>3. CASE e = "SpeechEnded" /\ HandleSpeechEnded
  <2>1. q = "asks" /\ r = "asked"
    BY <1>3 DEF Course
  <2> QED
    BY <1>1, <1>3, <2>1 DEF HandleSpeechEnded
<1>4. CASE e = "FinalTranscript" /\ HandleFinalTranscript
  <2>1. q = "asked" /\ r = "thinks"
    BY <1>4 DEF Course
  <2> QED
    BY <1>1, <1>4, <2>1 DEF HandleFinalTranscript
<1>5. CASE e = "LlmSentence" /\ HandleLlmSentence
  <2>1. \/ q \in {"thinks", "heard"} /\ r = "says"
        \/ q = "cut" /\ r = "stillSays"
    BY <1>5 DEF Course
  <2> QED
    BY <1>1, <1>5, <2>1 DEF HandleLlmSentence
<1>6. CASE e = "LlmFinished" /\ HandleLlmFinished
  <2>1. q \in {"thinks", "heard", "stillHeard"} /\ r = "rest"
    BY <1>6 DEF Course
  <2> QED
    BY <1>1, <1>6, <2>1 DEF HandleLlmFinished, Complete, StaysInTurn
<1>7. CASE e = "PlaybackFinished" /\ HandlePlaybackFinished(n)
  <2>1. \/ q = "says" /\ r = "heard"
        \/ q = "stillSays" /\ r = "stillHeard"
    BY <1>7 DEF Course
  <2> QED
    BY <1>1, <1>7, <2>1 DEF HandlePlaybackFinished, PlaybackCounts, StaysInTurn, Complete
<1>8. CASE e = "UserInterrupted" /\ HandleUserInterrupted
  <2>1. q = "heard" /\ r = "cut"
    BY <1>8 DEF Course
  <2> QED
    BY <1>1, <1>8, <2>1 DEF HandleUserInterrupted, Interruptible
<1> HIDE DEF Stands, Over, perTurn, counters
<1> QED
  BY <1>2, <1>3, <1>4, <1>5, <1>6, <1>7, <1>8

(* The FSM takes an event of the driver. *)
LEMMA TakesInStep ==
    ASSUME DriverShape, NEW at, NEW no, NEW to, InStep(at, no, to), FsmTakes
    PROVE  DriverInv'
<1> DEFINE k == Len(inbox)
           E == [type : Words, turn : Nat]
<1>1. /\ Follows(inbox, at, no) /\ Stands(at[0], no[0])
      /\ running # "ended" => Leads(script, to) /\ at[k] = to[0] /\ no[k] = driven
  BY DEF InStep
<1>2. /\ inbox \in Seq(E) /\ k \in Nat \ {0} /\ Head(inbox) = inbox[1]
      /\ Tail(inbox) \in Seq(E) /\ Len(Tail(inbox)) = k - 1
      /\ \A i \in 1 .. k - 1 : Tail(inbox)[i] = inbox[i + 1]
  <2>1. inbox \in Seq(E) /\ inbox # <<>>
    BY DEF DriverShape, FsmTakes
  <2> HIDE DEF E
  <2> QED
    BY <2>1
<1>3. inbox' = Tail(inbox) /\ UNCHANGED <<script, driven, running>> /\ state # "Idle"
  BY DEF FsmTakes, DriverShape
<1> HIDE DEF k, E
<1>4. /\ at \in [0 .. k -> Phases] /\ no \in [0 .. k -> Nat]
      /\ \A i \in 1 .. k :
           /\ inbox[i].turn = no[i - 1] /\ <<at[i - 1], inbox[i].type, at[i]>> \in Course
           /\ no[i] = IF at[i] = "rest" THEN no[i - 1] + 1 ELSE no[i - 1]
  BY <1>1 DEF Follows, k
<1>5. /\ 0 \in 0 .. k /\ 1 \in 1 .. k /\ 1 \in 0 .. k /\ 1 - 1 = 0
      /\ at[0] \in Phases /\ no[0] \in Nat /\ at[1] \in Phases
  BY <1>2, <1>4
<1>6. /\ inbox[1].turn = no[0] /\ <<at[0], inbox[1].type, at[1]>> \in Course
      /\ no[1] = IF at[1] = "rest" THEN no[0] + 1 ELSE no[0]
  BY <1>4, <1>5
<1>7. /\ Stands(at[1], no[1])' /\ state' # "Idle"
      /\ nextTurn' \in Nat /\ active' \in Int /\ played' \in Nat /\ received' \in Nat
      /\ completed' \in Nat /\ interrupted' \in Nat /\ discarded' \in Nat
  <2> DEFINE e == inbox[1].type
             n == no[0]
             m == IF at[1] = "rest" THEN n + 1 ELSE n
  <2>1. \/ e = "SpeechStarted" /\ HandleSpeechStarted
        \/ e = "SpeechEnded" /\ HandleSpeechEnded
        \/ e = "FinalTranscript" /\ HandleFinalTranscript
        \/ e = "LlmSentence" /\ HandleLlmSentence
        \/ e = "LlmFinished" /\ HandleLlmFinished
        \/ e = "PlaybackFinished" /\ HandlePlaybackFinished(n)
        \/ e = "UserInterrupted" /\ HandleUserInterrupted
    BY <1>2, <1>6 DEF FsmTakes
  <2>2. <<at[0], e, at[1]>> \in Course /\ Stands(at[0], n)
    BY <1>1, <1>6
  <2> HIDE DEF e
  <2>3. /\ Stands(at[1], IF at[1] = "rest" THEN no[0] + 1 ELSE no[0])' /\ state' # "Idle"
        /\ nextTurn' \in Nat /\ active' \in Int /\ played' \in Nat /\ received' \in Nat
        /\ completed' \in Nat /\ interrupted' \in Nat /\ discarded' \in Nat
    BY <1>3, <1>5, <2>1, <2>2, HandlersInStep
  <2> QED
    BY <1>6, <2>3 DEF Stands
<1>8. PICK at2, no2 :
         /\ at2 \in [0 .. k - 1 -> Phases] /\ no2 \in [0 .. k - 1 -> Nat]
         /\ \A i \in 0 .. k - 1 : at2[i] = at[i + 1] /\ no2[i] = no[i + 1]
  <2> DEFINE a == [i \in 0 .. k - 1 |-> at[i + 1]]
             n == [i \in 0 .. k - 1 |-> no[i + 1]]
  <2>1. \A i \in 0 .. k - 1 : i + 1 \in 0 .. k
    BY <1>2 DEF k
  <2>2. /\ a \in [0 .. k - 1 -> Phases] /\ n \in [0 .. k - 1 -> Nat]
        /\ \A i \in 0 .. k - 1 : a[i] = at[i + 1] /\ n[i] = no[i + 1]
    BY <1>4, <2>1
  <2> HIDE DEF a, n
  <2> QED
    BY <2>2, Zenon
<1>9. Follows(Tail(inbox), at2, no2)
  <2>1. ASSUME NEW i \in 1 .. k - 1
        PROVE  LET s == Tail(inbox)
               IN  /\ s[i].turn = no2[i - 1] /\ <<at2[i - 1], s[i].type, at2[i]>> \in Course
                   /\ no2[i] = IF at2[i] = "rest" THEN no2[i - 1] + 1 ELSE no2[i - 1]
    <3>1. /\ i + 1 \in 1 .. k /\ (i + 1) - 1 = i /\ i \in 0 .. k - 1 /\ i - 1 \in 0 .. k - 1
          /\ (i - 1) + 1 = i
      BY <1>2 DEF k
    <3>2. /\ Tail(inbox)[i] = inbox[i + 1] /\ at2[i] = at[i + 1] /\ at2[i - 1] = at[i]
          /\ no2[i] = no[i + 1] /\ no2[i - 1] = no[i]
      BY <1>2, <1>8, <3>1 DEF k
    <3>3. /\ inbox[i + 1].turn = no[i] /\ <<at[i], inbox[i + 1].type, at[i + 1]>> \in Course
          /\ no[i + 1] = IF at[i + 1] = "rest" THEN no[i] + 1 ELSE no[i]
      BY <1>4, <3>1
    <3> QED
      BY <3>2, <3>3
  <2> QED
    BY <1>2, <1>8, <2>1 DEF Follows, k
<1>10. InStep(at2, no2, to)'
  <2>1. /\ at2[0] = at[1] /\ no2[0] = no[1] /\ at2[k - 1] = at[k] /\ no2[k - 1] = no[k]
    <3>1. 0 \in 0 .. k - 1 /\ k - 1 \in 0 .. k - 1 /\ 0 + 1 = 1 /\ (k - 1) + 1 = k
      BY <1>2 DEF k
    <3> QED
      BY <1>8, <3>1
  <2>2. Stands(at2[0], no2[0])'
    BY <1>7, <2>1 DEF Stands
  <2>3. Len(inbox') = k - 1 /\ Follows(inbox', at2, no2)
    BY <1>2, <1>3, <1>9 DEF k
  <2>4. running' # "ended" => /\ Leads(script', to) /\ at2[Len(inbox')] = to[0]
                             /\ no2[Len(inbox')] = driven'
    BY <1>1, <1>3, <2>1, <2>3 DEF k
  <2> QED
    BY <2>2, <2>3, <2>4 DEF InStep
<1>11. DriverShape'
  BY <1>2, <1>3, <1>7 DEF DriverShape, E
<1> QED
  BY <1>10, <1>11 DEF DriverInv

(* Every step of the driver and of the FSM keeps them in step. *)
LEMMA DriverStep == DriverInv /\ [DriverNext]_<<fsmVars, driverVars>> => DriverInv'
<1> SUFFICES ASSUME DriverInv, [DriverNext]_<<fsmVars, driverVars>> PROVE DriverInv'
  OBVIOUS
<1>1. DriverShape
  BY DEF DriverInv
<1>2. PICK at, no, to : InStep(at, no, to)
  BY DEF DriverInv
<1>3. CASE DriverBegins
  BY <1>1, <1>2, <1>3, BeginsInStep
<1>4. CASE DriverGoesOn
  BY <1>1, <1>2, <1>4, GoesOnInStep
<1>5. CASE FsmTakes
  BY <1>1, <1>2, <1>5, TakesInStep
<1>6. CASE DriverStops
  <2>1. DriverShape'
    BY <1>1, <1>6 DEF DriverShape, DriverStops, fsmVars, perTurn, counters
  <2>2. InStep(at, no, to)'
    BY <1>2, <1>6 DEF InStep, DriverStops, Stands, Over, fsmVars, perTurn, counters
  <2> QED
    BY <2>1, <2>2 DEF DriverInv
<1>7. CASE FsmProceeds
  <2>1. at[0] \in Phases /\ no[0] \in Nat /\ Stands(at[0], no[0])
    <3>1. 0 \in 0 .. Len(inbox)
      BY <1>1 DEF DriverShape
    <3> QED
      BY <1>2, <3>1 DEF InStep, Follows
  <2>2. /\ Stands(at[0], no[0])' /\ DriverShape'
    <3> USE DEF Stands, Over, perTurn, counters, DriverShape, FsmProceeds, driverVars, Phases
    <3>1. CASE Start
      BY <1>1, <1>7, <2>1, <3>1 DEF Start
    <3>2. CASE InterruptOutcome
      <4>1. at[0] = "cut"
        BY <2>1, <3>2 DEF InterruptOutcome
      <4>2. /\ interrupted' \in Nat /\ discarded' \in Nat /\ Over' = Over + 1
            /\ state' = "Interrupted" /\ step' = "settle"
            /\ UNCHANGED <<nextTurn, active, played, received, llmFinished, completed>>
        <5>1. completed \in Nat /\ interrupted \in Nat /\ discarded \in Nat
          BY <1>1
        <5> HIDE DEF Stands, DriverShape, FsmProceeds
        <5>2. CASE interrupted' = interrupted + 1 /\ UNCHANGED discarded
          BY <3>2, <5>1, <5>2 DEF InterruptOutcome
        <5>3. CASE discarded' = discarded + 1 /\ UNCHANGED interrupted
          BY <3>2, <5>1, <5>3 DEF InterruptOutcome
        <5> QED
          BY <3>2, <5>2, <5>3 DEF InterruptOutcome
      <4>3. UNCHANGED <<script, driven, running, inbox>>
        BY <1>7
      <4>4. step = "interrupt"
        BY <3>2 DEF InterruptOutcome
      <4>5. Stands(at[0], no[0])'
        <5> HIDE DEF Over, DriverShape, FsmProceeds
        <5> QED
          BY <2>1, <4>1, <4>2, <4>4
      <4>6. DriverShape'
        BY <1>1, <4>2, <4>3
      <4> QED
        BY <4>5, <4>6
    <3>3. CASE SpeechStartedReturns
      BY <1>1, <1>7, <2>1, <3>3 DEF SpeechStartedReturns
    <3>4. CASE Settle
      BY <1>1, <1>7, <2>1, <3>4 DEF Settle
    <3> QED
      BY <1>7, <3>1, <3>2, <3>3, <3>4 DEF HandlerContinues
  <2>3. InStep(at, no, to)'
    BY <1>2, <1>7, <2>2 DEF InStep, FsmProceeds, driverVars
  <2> QED
    BY <2>2, <2>3 DEF DriverInv
<1>8. CASE UNCHANGED <<fsmVars, driverVars>>
  <2>1. DriverShape'
    BY <1>1, <1>8 DEF DriverShape, fsmVars, perTurn, counters, driverVars
  <2>2. InStep(at, no, to)'
    BY <1>2, <1>8 DEF InStep, Stands, Over, fsmVars, perTurn, counters, driverVars
  <2> QED
    BY <2>1, <2>2 DEF DriverInv
<1> QED
  BY <1>3, <1>4, <1>5, <1>6, <1>7, <1>8 DEF DriverNext

(* The driver's count of turns and the FSM's stay in step, for any number of turns and of     *)
(* sentences in a turn and however late the FSM takes the events: the driver relies on it     *)
(* for the ids it publishes.                                                                  *)
THEOREM DriverStaysInStep == DriverSafety => []DriverInStep
<1>1. DriverInv => DriverInStep
  <2> SUFFICES ASSUME DriverInv, script = <<>>, running = "yes", inbox = <<>>, step = "idle",
                      state # "Idle"
               PROVE  /\ state = "Listening" /\ active = driven - 1 /\ nextTurn = driven
                      /\ completed + interrupted + discarded = driven - 1
    BY DEF DriverInStep
  <2>1. PICK at, no, to : InStep(at, no, to)
    BY DEF DriverInv
  <2>2. Stands(at[0], no[0]) /\ at[0] = "rest" /\ no[0] = driven
    BY <2>1 DEF InStep, Leads
  <2> QED
    BY <2>2 DEF Stands, Over
<1> QED
  BY <1>1, DriverInitial, DriverStep, PTL DEF DriverSafety
=============================================================================
