------------------------------- MODULE Reload -------------------------------
(***************************************************************************)
(* Configuration from the start of the process to a warm restart: the load *)
(* and the path resolution (config/config_load.cpp, config.cpp,            *)
(* orchestrator/boot/bootstrap.cpp), the hot reload by POST /reload and    *)
(* SIGHUP (config/reload.cpp, admin/reload_setup.cpp), the components that *)
(* keep a copy of hot fields, the restart request (admin/restart_driver)   *)
(* and main()'s loop, which drains both.                                   *)
(*                                                                         *)
(* One field stands for each kind: hot and copied by a component, hot and  *)
(* read in place, restart-required, restart-required and resolved at       *)
(* start, and not in the catalog.                                          *)
(***************************************************************************)
EXTENDS Integers, Sequences, SequencesExt

CONSTANTS
    FileContents,   \* the contents the operator gives the file
    Resolve(_),     \* resolve_data_path
    MaxEdits,       \* bound: edits of the file
    MaxHttp,        \* bound: reload requests over HTTP
    MaxStarts       \* bound: lives of the process

\* apply_hot_fields copies in this order.
HotOrder == <<"temperature", "onset", "offset", "level", "wake">>
HotFields == Range(HotOrder)
RestartFields == {"model", "dbPath"}
ConfigFields == HotFields \cup RestartFields \cup {"probeTimeout"}

\* The fields a component holds a copy of, by the label of its callback.
Copied == [log |-> {"level"}, endpointer |-> {"onset", "offset"}, wake_word |-> {"wake"}]
Labels == DOMAIN Copied

ASSUME ReloadAssumption ==
    /\ {MaxEdits, MaxHttp, MaxStarts} \subseteq Nat
    /\ \A f \in FileContents :
         /\ f.parses \in BOOLEAN
         /\ DOMAIN f.top = ConfigFields /\ DOMAIN f.persona \subseteq ConfigFields

VARIABLES
    disk,       \* the file
    version,    \* edits made to it
    phase,      \* main(): down, loaded, serving, built, wired, running, stopping, closing
    booted,     \* the file the process was started with
    live,       \* the Config main() owns
    kept,       \* the components' copies; none before they are built
    callbacks,  \* callbacks_
    mutex,      \* ReloadSetup::mtx_: the caller that holds it
    reload,     \* per caller: where its run_reload() is
    hup,        \* g_reload_requested
    restartFlag,
    track       \* history: see ReloadInit

reloadVars == <<disk, version, phase, booted, live, kept, callbacks, mutex, reload, hup,
                restartFlag, track>>

Callers == {"http", "main"}
Away == [at |-> "away", cand |-> <<>>, hot |-> {}, left |-> {}, todo |-> <<>>,
         result |-> "none"]

Up == phase # "down"
Looping == phase = "running"
Reachable == phase \in {"serving", "built", "wired", "running", "stopping"}

-----------------------------------------------------------------------------
(* Loading. *)
\* validate: its cross-field check; the checks of single fields decide `parses'.
Valid(c) == c["offset"] <= c["onset"]

\* apply_active_personality and resolve_aliases: the persona's fields win.
Overlay(f) == [k \in ConfigFields |-> IF k \in DOMAIN f.persona THEN f.persona[k] ELSE f.top[k]]

\* load_from_file: does it succeed, and with what.
Loads(f) == f.parses /\ Valid(Overlay(f))

\* load_and_resolve_config, which only main() calls.
LoadAndResolve(f) == [Overlay(f) EXCEPT !["dbPath"] = Resolve(@)]

\* diff_configs
(* Mutant of ChangedHot: the catalog has no entry for the wake-word threshold. *)
ChangedHotForgets(c) == {k \in HotFields \ {"wake"} : live[k] # c[k]}
ChangedHot(c) == {k \in HotFields : live[k] # c[k]}
ChangedRestart(c) == {k \in RestartFields : live[k] # c[k]}

CopyFrom(c, label) == [k \in Copied[label] |-> c[k]]
Nothing == [k \in {} |-> 0]

ReloadInit ==
    /\ disk \in FileContents /\ Loads(disk) /\ version = 0
    /\ phase = "down" /\ booted = disk /\ live = LoadAndResolve(disk)
    /\ kept = [l \in Labels |-> Nothing] /\ callbacks = <<>>
    /\ mutex = "free" /\ reload = [c \in Callers |-> Away] /\ hup = FALSE
    /\ restartFlag = FALSE
    /\ track = [applied |-> live,       \* the last configuration that was accepted
                behind |-> {},          \* labels that missed a change
                torn |-> FALSE,         \* capture was built while a reload copied fields
                signalled |-> 0,        \* version of the file at the last SIGHUP
                read |-> 0,             \* version of the file at the last reload
                http |-> 0, starts |-> 0]

-----------------------------------------------------------------------------
(* main() up to its loop. *)
Boot ==
    /\ phase = "down" /\ track.starts < MaxStarts /\ Loads(disk)
    /\ phase' = "loaded" /\ booted' = disk /\ live' = LoadAndResolve(disk)
    /\ kept' = [kept EXCEPT !["log"] = CopyFrom(live', "log")]
    /\ track' = [track EXCEPT !.applied = live', !.read = version, !.starts = @ + 1]
    /\ UNCHANGED <<disk, version, callbacks, mutex, reload, hup, restartFlag>>

\* register_log_callback, then the control server.
Serve ==
    /\ phase = "loaded" /\ phase' = "serving"
    /\ callbacks' = <<"log">>
    /\ UNCHANGED <<disk, version, booted, live, kept, mutex, reload, hup, restartFlag, track>>

\* build_capture_stack: the endpointer and the wake word copy from the live Config.
BuildCapture ==
    /\ phase = "serving" /\ phase' = "built"
    /\ kept' = [l \in Labels |-> IF l = "log" THEN kept[l] ELSE CopyFrom(live, l)]
    /\ track' = [track EXCEPT !.torn = \E c \in Callers : reload[c].at = "apply"]
    /\ UNCHANGED <<disk, version, booted, live, callbacks, mutex, reload, hup, restartFlag>>

\* register_endpointer_callback, register_wake_word_callback: without the mutex.
Register ==
    /\ \/ phase = "built" /\ phase' = "wired" /\ callbacks' = Append(callbacks, "endpointer")
       \/ phase = "wired" /\ phase' = "running" /\ callbacks' = Append(callbacks, "wake_word")
    /\ UNCHANGED <<disk, version, booted, live, kept, mutex, reload, hup, restartFlag, track>>

-----------------------------------------------------------------------------
\* The operator edits the file of a running process.
EditFile ==
    /\ Up /\ version < MaxEdits
    /\ disk' \in FileContents \ {disk} /\ version' = version + 1
    /\ UNCHANGED <<phase, booted, live, kept, callbacks, mutex, reload, hup, restartFlag,
                   track>>

(* Mutant of Hup: a signal that arrives during a reload is taken for served. *)
HupUnlessReloading ==
    /\ Up /\ track.signalled < version
    /\ hup' = (reload["main"].at = "away") /\ track' = [track EXCEPT !.signalled = version]
    /\ UNCHANGED <<disk, version, phase, booted, live, kept, callbacks, mutex, reload,
                   restartFlag>>

\* handle_reload_signal.
Hup ==
    /\ Up /\ track.signalled < version
    /\ hup' = TRUE /\ track' = [track EXCEPT !.signalled = version]
    /\ UNCHANGED <<disk, version, phase, booted, live, kept, callbacks, mutex, reload,
                   restartFlag>>

PostReload ==
    /\ Reachable /\ reload["http"].at = "away" /\ track.http < MaxHttp
    /\ reload' = [reload EXCEPT !["http"] = [Away EXCEPT !.at = "lock"]]
    /\ track' = [track EXCEPT !.http = @ + 1]
    /\ UNCHANGED <<disk, version, phase, booted, live, kept, callbacks, mutex, hup,
                   restartFlag>>

\* The loop: clear_reload_request, then run_reload.
DrainHup ==
    /\ Looping /\ ~restartFlag /\ hup /\ reload["main"].at = "away"
    /\ hup' = FALSE
    /\ reload' = [reload EXCEPT !["main"] = [Away EXCEPT !.at = "lock"]]
    /\ UNCHANGED <<disk, version, phase, booted, live, kept, callbacks, mutex,
                   restartFlag, track>>

-----------------------------------------------------------------------------
(* run_reload, on caller c. *)
Lock(c) ==
    /\ reload[c].at = "lock" /\ mutex = "free"
    /\ mutex' = c /\ reload' = [reload EXCEPT ![c].at = "read"]
    /\ UNCHANGED <<disk, version, phase, booted, live, kept, callbacks, hup, restartFlag,
                   track>>

Refused(c, why) ==
    /\ reload' = [reload EXCEPT ![c] = [Away EXCEPT !.at = "reply", !.cand = <<disk>>, !.result = why]]
    /\ mutex' = "free"

\* load_from_file, validate, diff_configs.
ReadFile(c) ==
    /\ reload[c].at = "read"
    /\ LET cand == Overlay(disk)
       IN  \/ ~Loads(disk) /\ Refused(c, "error")
           \/ Loads(disk) /\ ChangedRestart(cand) # {} /\ Refused(c, "rejected")
           \/ /\ Loads(disk) /\ ChangedRestart(cand) = {}
              /\ reload' = [reload EXCEPT ![c] = [at |-> "apply", cand |-> <<disk>>,
                               hot |-> ChangedHot(cand), left |-> ChangedHot(cand),
                               todo |-> <<>>, result |-> "none"]]
              /\ UNCHANGED mutex
    /\ track' = [track EXCEPT !.read = version,
                    !.applied = IF reload'[c].at = "apply"
                                THEN [k \in ConfigFields |-> IF k \in HotFields THEN Overlay(disk)[k]
                                                             ELSE @[k]]
                                ELSE @]
    /\ UNCHANGED <<disk, version, phase, booted, live, kept, callbacks, hup, restartFlag>>

\* apply_hot_fields, one field.
NextHot(left) == HotOrder[Min({i \in DOMAIN HotOrder : HotOrder[i] \in left})]

ApplyHotField(c) ==
    /\ reload[c].at = "apply" /\ reload[c].left # {}
    /\ LET k == NextHot(reload[c].left)
       IN  /\ live' = [live EXCEPT ![k] = Overlay(reload[c].cand[1])[k]]
           /\ reload' = [reload EXCEPT ![c].left = @ \ {k}]
    /\ UNCHANGED <<disk, version, phase, booted, kept, callbacks, mutex, hup,
                   restartFlag, track>>

\* A component that was built before and is registered after this is not told.
ApplyDone(c) ==
    /\ reload[c].at = "apply" /\ reload[c].left = {}
    /\ reload' = [reload EXCEPT ![c].at = "tell", ![c].todo = callbacks]
    /\ track' = [track EXCEPT !.behind = @ \cup
                    {l \in Labels : /\ kept[l] # Nothing /\ ~Contains(callbacks, l)
                                    /\ kept[l] # CopyFrom(live, l)}]
    /\ UNCHANGED <<disk, version, phase, booted, live, kept, callbacks, mutex, hup,
                   restartFlag>>

Concerns(c, label) == Copied[label] \cap reload[c].hot # {}

\* One callback: it copies what changed, or throws, and the next one is called.
Tell(c) ==
    /\ reload[c].at = "tell" /\ reload[c].todo # <<>>
    /\ reload' = [reload EXCEPT ![c].todo = Tail(@)]
    /\ LET label == Head(reload[c].todo)
       IN  \/ /\ Concerns(c, label)
              /\ kept' = [kept EXCEPT ![label] = CopyFrom(live, label)]
              /\ track' = [track EXCEPT !.behind = @ \ {label}]
           \/ /\ Concerns(c, label)
              /\ track' = [track EXCEPT !.behind = @ \cup {label}]
              /\ UNCHANGED kept
           \/ ~Concerns(c, label) /\ UNCHANGED <<kept, track>>
    /\ UNCHANGED <<disk, version, phase, booted, live, callbacks, mutex, hup, restartFlag>>

ReloadDone(c) ==
    /\ reload[c].at = "tell" /\ reload[c].todo = <<>>
    /\ reload' = [reload EXCEPT ![c] = [Away EXCEPT !.at = "reply", !.result = "ok"]]
    /\ mutex' = "free"
    /\ UNCHANGED <<disk, version, phase, booted, live, kept, callbacks, hup, restartFlag,
                   track>>

\* The HTTP status, or main()'s log line: 200, 409 and 400 for ok, rejected and error.
Reply(c) ==
    /\ reload[c].at = "reply"
    /\ reload' = [reload EXCEPT ![c] = Away]
    /\ UNCHANGED <<disk, version, phase, booted, live, kept, callbacks, mutex, hup,
                   restartFlag, track>>

-----------------------------------------------------------------------------
\* RestartRequester::request, from POST /restart or the watchdog, outside the debounce window.
RequestRestart ==
    /\ Reachable /\ ~restartFlag
    /\ restartFlag' = TRUE
    /\ UNCHANGED <<disk, version, phase, booted, live, kept, callbacks, mutex, reload,
                   hup, track>>

\* The loop ends, for the flag or for a signal.
Leave ==
    /\ Looping /\ reload["main"].at = "away" /\ phase' = "stopping"
    /\ UNCHANGED <<disk, version, booted, live, kept, callbacks, mutex, reload, hup,
                   restartFlag, track>>

\* control.reset(): no request is let in any more.
CloseControl ==
    /\ phase = "stopping" /\ phase' = "closing"
    /\ UNCHANGED <<disk, version, booted, live, kept, callbacks, mutex, reload, hup,
                   restartFlag, track>>

\* ... and those under way have ended; execv or return.
EndProcess ==
    /\ phase = "closing"
    /\ \A c \in Callers : reload[c].at = "away"
    /\ phase' = "down" /\ kept' = [l \in Labels |-> Nothing] /\ callbacks' = <<>>
    /\ reload' = [c \in Callers |-> Away] /\ hup' = FALSE
    /\ restartFlag' = FALSE
    /\ track' = [track EXCEPT !.behind = {}, !.torn = FALSE]
    /\ UNCHANGED <<disk, version, booted, live, mutex>>

Reloading(c) == Lock(c) \/ ReadFile(c) \/ ApplyHotField(c) \/ ApplyDone(c) \/ Tell(c)
                \/ ReloadDone(c) \/ Reply(c)
MainLoop == DrainHup \/ (restartFlag /\ Leave)

ReloadNext ==
    \/ Boot \/ Serve \/ BuildCapture \/ Register \/ EditFile \/ Hup \/ PostReload \/ DrainHup
    \/ \E c \in Callers : Reloading(c)
    \/ RequestRestart \/ Leave \/ CloseControl \/ EndProcess

-----------------------------------------------------------------------------
(* Only the holder of the mutex is between its lock and its unlock, and no *)
(* other thread writes the live Config.                                    *)
ReloadTypeOK ==
    /\ DOMAIN live = ConfigFields
    /\ \A c \in Callers : reload[c].at \in {"read", "apply", "tell"} => mutex = c
    /\ mutex # "free" => reload[mutex].at \in {"read", "apply", "tell"}
    /\ \A l \in Labels : DOMAIN kept[l] \in {{}, Copied[l]}
    /\ Up => phase = "loaded" \/ IsPrefix(<<"log">>, callbacks)

(* Between reloads the live Config is that of the last file accepted, in   *)
(* its hot fields, and that of the start in the others: a reload that is   *)
(* refused leaves no trace, and two reloads by HTTP and SIGHUP are never   *)
(* mixed (reload.cpp, reload_setup.cpp).                                   *)
LastReloadWins == Up /\ mutex = "free" => live = track.applied /\ Valid(live)

(* Between reloads a component that keeps a copy of a hot field has the    *)
(* live value, unless its callback threw or it was registered too late.    *)
CopiesFollowLive ==
    Up /\ mutex = "free" =>
        \A l \in Labels \ track.behind : kept[l] = Nothing \/ kept[l] = CopyFrom(live, l)

(* The endpointer never works with a collapsed hysteresis band, although   *)
(* apply_hot_fields writes the two thresholds one after the other; unless  *)
(* the endpointer itself was built in between.                             *)
ThresholdsMakeSense ==
    Up /\ ~track.torn /\ kept["endpointer"] # Nothing =>
        kept["endpointer"]["offset"] <= kept["endpointer"]["onset"]

(* A reload takes effect as a whole or not at all: in the live Config, in  *)
(* the copies, and in the pair of thresholds that only makes sense         *)
(* together (reload.cpp, reload_setup.cpp).                                *)
ReloadsAreWhole == LastReloadWins /\ CopiesFollowLive /\ ThresholdsMakeSense

(* A SIGHUP is answered by a reload that reads the file as it was at the   *)
(* signal or later, also one that arrives during a reload (main.cpp).      *)
SignalsAreServed ==
    (Looping /\ track.read < track.signalled) ~> (track.read >= track.signalled \/ ~Looping)

(* A requested restart takes place, whatever reloads are under way.        *)
RestartIsTaken == (restartFlag /\ Looping) ~> ~Up

(* The main loop serves whoever asks it, whatever it is doing (main.cpp).  *)
MainLoopServes == SignalsAreServed /\ RestartIsTaken

(* "If only hot-reloadable fields changed, the orchestrator applies them   *)
(* in place" (docs/guide/configuration.md): a file that agrees with the    *)
(* one of the start in all restart-required fields is not rejected.        *)
HotEditsAreApplied ==
    Up => \A c \in Callers : reload[c].result = "rejected" =>
        \E k \in RestartFields : Overlay(reload[c].cand[1])[k] # Overlay(booted)[k]
=============================================================================
