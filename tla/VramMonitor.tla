---------------------------- MODULE VramMonitor ----------------------------
(***************************************************************************)
(* The VRAM monitor (orchestrator/boot/bootstrap.cpp) and the Speaches     *)
(* wedge probe (observability/speaches_wedge.cpp): a thread that runs      *)
(* nvidia-smi twice per tick, reports on edges only, and sets a gauge and  *)
(* the snapshot /status reads.  Memory is counted in units of the GPU.     *)
(***************************************************************************)
EXTENDS Integers, Sequences, SequencesExt

CONSTANTS
    LowBelow,   \* vram_low_threshold_mib
    WedgedFrom, \* speaches_wedge_threshold_mib
    MaxApps     \* bound: compute apps on the GPU

ASSUME VramAssumption == LowBelow \in Nat /\ WedgedFrom \in Nat /\ MaxApps \in Nat

VARIABLES
    vram,       \* the thread: where it is, and its locals low and wedged
    wedgeGauge, \* voice_speaches_wedged
    snapshot,   \* wedge_, as /status copies it
    stopping,   \* stop_
    seen,       \* history: the last free memory that was read, the last answer of the second query
    said        \* history: the last report of each kind

vramVars == <<vram, wedgeGauge, snapshot, stopping, seen, said>>

Failed == -1
\* What parse_compute_apps makes of the rows: those that have a pid and a number.
App == [speaches : BOOLEAN, used : 0..WedgedFrom]
Apps == SeqOf(App, MaxApps)

\* classify_speaches: the first app whose command line names speaches decides.
Wedged(apps) ==
    \E i \in DOMAIN apps :
        /\ apps[i].speaches /\ apps[i].used >= WedgedFrom
        /\ \A j \in 1..(i - 1) : ~apps[j].speaches

VramInit ==
    /\ vram = [at |-> "first", low |-> FALSE, wedged |-> FALSE]
    /\ wedgeGauge = FALSE /\ snapshot = [known |-> FALSE, wedged |-> FALSE] /\ stopping = FALSE
    /\ seen = [free |-> LowBelow, apps |-> <<>>]
    /\ said = [low |-> FALSE, wedged |-> FALSE]

FirstProbe ==
    /\ vram.at = "first"
    /\ \E works \in BOOLEAN : vram' = [vram EXCEPT !.at = IF works THEN "loop" ELSE "ended"]
    /\ UNCHANGED <<wedgeGauge, snapshot, stopping, seen, said>>

TestStop ==
    /\ vram.at = "loop"
    /\ vram' = [vram EXCEPT !.at = IF stopping THEN "ended" ELSE "total"]
    /\ UNCHANGED <<wedgeGauge, snapshot, stopping, seen, said>>

(* Mutant of NowLow: a failing query reads as no free memory. *)
NowLowOrFailed(free, low) == free < LowBelow
\* A failing query leaves what was known.
NowLow(free, low) == IF free = Failed THEN low ELSE free < LowBelow

ProbeTotal ==
    /\ vram.at = "total"
    /\ \E free \in {Failed} \union 0..LowBelow :
           /\ vram' = [vram EXCEPT !.at = "apps", !.low = NowLow(free, @)]
           /\ said' = [said EXCEPT !.low = IF vram'.low # vram.low THEN vram'.low ELSE @]
           /\ seen' = [seen EXCEPT !.free = IF free = Failed THEN @ ELSE free]
    /\ UNCHANGED <<wedgeGauge, snapshot, stopping>>

\* A failing query has no rows, so nothing is wedged.  Gauge, snapshot, report, sleep.
ProbeApps ==
    /\ vram.at = "apps"
    /\ \E apps \in Apps :
           /\ wedgeGauge' = Wedged(apps)
           /\ snapshot' = [known |-> TRUE, wedged |-> Wedged(apps)]
           /\ vram' = [vram EXCEPT !.at = "loop", !.wedged = Wedged(apps)]
           /\ said' = [said EXCEPT !.wedged = IF Wedged(apps) # vram.wedged THEN Wedged(apps) ELSE @]
           /\ seen' = [seen EXCEPT !.apps = apps]
    /\ UNCHANGED stopping

\* ~VramMonitor: the flag, then the join.
VramStop ==
    /\ ~stopping /\ stopping' = TRUE
    /\ UNCHANGED <<vram, wedgeGauge, snapshot, seen, said>>

VramTick == FirstProbe \/ TestStop \/ ProbeTotal \/ ProbeApps
VramNext == VramTick \/ VramStop

-----------------------------------------------------------------------------
(* What was last reported is so: between ticks the last low or recovered   *)
(* report agrees with the last memory that could be read, although queries *)
(* fail in between, and the last wedged report, the gauge and the snapshot *)
(* agree with the first Speaches process of the last answer.               *)
ReportsAgree ==
    vram.at = "loop" =>
        /\ said.low <=> seen.free < LowBelow
        /\ said.wedged = wedgeGauge /\ said.wedged = snapshot.wedged
        /\ LET named == {i \in DOMAIN seen.apps : seen.apps[i].speaches} IN
           wedgeGauge <=> named # {} /\ seen.apps[Min(named)].used = WedgedFrom
=============================================================================
