---------------------------- MODULE AgentConfig ----------------------------
(***************************************************************************)
(* The configuration file of the desktop agent and the settings it holds.  *)
(*                                                                         *)
(* Three parties write the file, each the whole of it: a setting request   *)
(* (load, change one field, save), a pairing (save what the server named)  *)
(* and the running engine, which saves its own copy of the configuration   *)
(* when the server rotates the token. Config::save truncates the file and  *)
(* then writes it, and may fail at either. The settings in force are       *)
(* atomics (live).                                                         *)
(*                                                                         *)
(* Every connection of the agent has a task of its own, so requests run    *)
(* beside each other and beside the engines. A save that has begun is not  *)
(* stopped by the abort of the engine that makes it.                       *)
(***************************************************************************)
EXTENDS Naturals, Sequences

CONSTANTS
    Clients,    \* connections to the agent: the GUI's, its pairing worker's, the CLI's
    Settings,   \* names of the persisted settings, "telemetry" among them
    MaxStarts,  \* bound: engines started in one life of the process
    MaxToken,   \* bound: bearer tokens issued by pairing and by rotation
    NoCfg,      \* the file is absent or empty
    Mixed       \* the file is a mix of two texts, or a part of one, and does not parse

ASSUME ConfigAssumption ==
    /\ "telemetry" \in Settings /\ "none" \notin Settings
    /\ MaxStarts \in Nat \ {0} /\ MaxToken \in Nat \ {0}

VARIABLES
    up,      \* the process: "down", "boot" (build_engine has a pairing to start) or "up"
    file,    \* config.json
    live,    \* the settings atomics
    req,     \* the request being handled for each client
    eng,     \* the engines started so far, the last one current
    issued,  \* tokens issued by the server
    spoiled  \* history: why file and memory may differ (Spoils)

configVars == <<up, file, live, req, eng, issued, spoiled>>

\* What Config carries that the properties tell apart.
Config == [tok : 1 .. MaxToken, set : [Settings -> BOOLEAN]]

\* A request being handled: the step it is at, the configuration it carries, and the
\* setting it changes ("none" for a pairing).
Requests == [at : {"idle", "load", "truncate", "write", "start"}, cfg : Config \cup {NoCfg},
             key : Settings \cup {"none"}, val : BOOLEAN]

\* An engine: whether it saves a rotated token, its own copy of the configuration, and
\* the token it was started with.
Engines == [st : {"live", "saving", "writing", "dead"}, cfg : Config, tok : 1 .. MaxToken]

\* The settings of a new pairing, and of an agent without a configuration.
Defaults == [k \in Settings |-> TRUE]

NoReq == [at |-> "idle", cfg |-> NoCfg, key |-> "none", val |-> TRUE]

\* Config::load succeeds.
Readable == file \notin {NoCfg, Mixed}

\* A request or an engine is on its way to a save, or in one.
Underway ==
    \/ \E c \in Clients : req[c].at # "idle"
    \/ \E i \in 1 .. Len(eng) : eng[i].st \in {"saving", "writing"}

\* History: a step that takes file and memory apart, until the next start of the agent.
Spoils(reason) == spoiled' = (spoiled \/ reason)

ConfigInit ==
    /\ up = "down"
    /\ file = NoCfg /\ live = Defaults /\ issued = 0
    /\ req = [c \in Clients |-> NoReq] /\ eng = << >>
    /\ spoiled = FALSE

(* ---------------------------------------------------------------------- *)
(* The process                                                             *)
(* ---------------------------------------------------------------------- *)

\* build_engine: the atomics come from the file, or from the defaults without one.
Boot ==
    /\ up = "down"
    /\ up' = IF Readable THEN "boot" ELSE "up"
    /\ live' = IF Readable THEN file.set ELSE Defaults
    /\ spoiled' = FALSE
    /\ UNCHANGED <<file, req, eng, issued>>

\* Shutdown or a crash, at any point: only the file survives.
Down ==
    /\ up # "down"
    /\ up' = "down"
    /\ req' = [c \in Clients |-> NoReq] /\ eng' = << >>
    /\ UNCHANGED <<file, live, issued, spoiled>>

\* Mutant: the atomics keep what the user had set before the pairing.
Seeded_Kept(set) == live

\* The settings in force once start has seeded the atomics.
Seeded(set) == set

\* start: the atomics are seeded from the configuration, the previous engine is
\* aborted (at its next await) and a new one gets a clone of the configuration.
Launch(cfg) ==
    /\ live' = Seeded(cfg.set)
    /\ eng' = Append([i \in 1 .. Len(eng) |->
                        IF eng[i].st = "live" THEN [eng[i] EXCEPT !.st = "dead"] ELSE eng[i]],
                     [st |-> "live", cfg |-> cfg, tok |-> cfg.tok])

\* A saved pairing is started before the agent listens.
BootStart ==
    /\ up = "boot"
    /\ up' = "up"
    /\ Launch(file)
    /\ UNCHANGED <<file, req, issued, spoiled>>

(* ---------------------------------------------------------------------- *)
(* Requests                                                                *)
(* ---------------------------------------------------------------------- *)

Idle(c) == up = "up" /\ req[c].at = "idle"

\* SetPrivacyFilter, SetAutoClear, SetMarkSensitive, SetTelemetry: the atomic first.
SetStore(c, k, v) ==
    /\ Idle(c)
    /\ live' = [live EXCEPT ![k] = v]
    /\ req' = [req EXCEPT ![c] = [NoReq EXCEPT !.at = "load", !.key = k, !.val = v]]
    /\ Spoils(Underway)
    /\ UNCHANGED <<up, file, eng, issued>>

\* Config::load, and the assignment of the field when it succeeds.
SetLoad(c) ==
    /\ req[c].at = "load"
    /\ req' = [req EXCEPT ![c] =
                  IF Readable
                  THEN [req[c] EXCEPT !.at = "truncate", !.cfg = [file EXCEPT !.set[req[c].key] = req[c].val]]
                  ELSE NoReq]
    /\ UNCHANGED <<up, file, live, eng, issued, spoiled>>

\* claim: the server redeems the OTP and names a new token; the settings are the
\* defaults. A refused claim replies and changes nothing.
Claim(c) ==
    /\ Idle(c)
    /\ issued < MaxToken /\ Len(eng) < MaxStarts
    /\ issued' = issued + 1
    /\ req' = [req EXCEPT ![c] = [NoReq EXCEPT !.at = "truncate",
                                               !.cfg = [tok |-> issued + 1, set |-> Defaults]]]
    /\ Spoils(Underway)
    /\ UNCHANGED <<up, file, live, eng>>

\* Config::save, the open that truncates.
SaveTruncate(c) ==
    /\ req[c].at = "truncate"
    /\ file' = NoCfg
    /\ req' = [req EXCEPT ![c].at = "write"]
    /\ UNCHANGED <<up, live, eng, issued, spoiled>>

\* The text goes to the start of the file: over the text that another save has put
\* there since the truncation, the end of which remains if it is longer.
Written(cfg) == IF file = NoCfg THEN {cfg} ELSE {cfg, Mixed}

\* Config::save, the write. A pairing goes on with start, a setter replies.
SaveWrite(c) ==
    /\ req[c].at = "write"
    /\ file' \in Written(req[c].cfg)
    /\ req' = [req EXCEPT ![c] = IF req[c].key = "none" THEN [req[c] EXCEPT !.at = "start"] ELSE NoReq]
    /\ UNCHANGED <<up, live, eng, issued, spoiled>>

\* Config::save fails, before it opened the file or in the middle of the write. A setter
\* replies Ok all the same; a pairing replies with the error and starts nothing.
SaveFails(c) ==
    /\ \/ req[c].at = "truncate" /\ UNCHANGED file
       \/ req[c].at = "write" /\ file' \in {file, Mixed}
    /\ req' = [req EXCEPT ![c] = NoReq]
    /\ Spoils(TRUE)
    /\ UNCHANGED <<up, live, eng, issued>>

\* A pairing starts its engine.
Start(c) ==
    /\ req[c].at = "start" /\ Len(eng) < MaxStarts
    /\ Launch(req[c].cfg)
    /\ req' = [req EXCEPT ![c] = NoReq]
    /\ UNCHANGED <<up, file, issued, spoiled>>

(* ---------------------------------------------------------------------- *)
(* Token rotation                                                          *)
(* ---------------------------------------------------------------------- *)

\* A token_rotate frame: the engine puts the token into its own configuration, whose
\* settings are those of its start.
Rotate(i) ==
    /\ eng[i].st = "live"
    /\ issued < MaxToken
    /\ issued' = issued + 1
    /\ eng' = [eng EXCEPT ![i].st = "saving", ![i].cfg.tok = issued + 1]
    /\ Spoils(Underway \/ eng[i].cfg.set # live)
    /\ UNCHANGED <<up, file, live, req>>

\* It begins to save that configuration.
RotateTruncate(i) ==
    /\ eng[i].st = "saving"
    /\ file' = NoCfg
    /\ eng' = [eng EXCEPT ![i].st = "writing"]
    /\ UNCHANGED <<up, live, req, issued, spoiled>>

\* The save ends; that it failed is ignored. An engine that was aborted meanwhile ends.
RotateSaved(i) ==
    /\ \/ eng[i].st = "writing" /\ file' \in Written(eng[i].cfg) /\ UNCHANGED spoiled
       \/ eng[i].st = "writing" /\ file' \in {file, Mixed} /\ Spoils(TRUE)
       \/ eng[i].st = "saving" /\ UNCHANGED file /\ Spoils(TRUE)
    /\ eng' = [eng EXCEPT ![i].st = IF i = Len(eng) THEN "live" ELSE "dead"]
    /\ UNCHANGED <<up, live, req, issued>>

\* The engine panics and its supervisor runs it again with the configuration of its start.
Relaunch(i) ==
    /\ eng[i].st = "live"
    /\ eng' = [eng EXCEPT ![i].cfg.tok = eng[i].tok]
    /\ Spoils(eng[i].cfg.tok # eng[i].tok)
    /\ UNCHANGED <<up, file, live, req, issued>>

ConfigNext ==
    \/ Boot \/ Down \/ BootStart
    \/ \E c \in Clients :
          \/ \E k \in Settings, v \in BOOLEAN : SetStore(c, k, v)
          \/ SetLoad(c) \/ Claim(c) \/ SaveTruncate(c) \/ SaveWrite(c) \/ SaveFails(c) \/ Start(c)
    \/ \E i \in 1 .. Len(eng) : Rotate(i) \/ RotateTruncate(i) \/ RotateSaved(i) \/ Relaunch(i)

ConfigSpec == ConfigInit /\ [][ConfigNext]_configVars

(* ---------------------------------------------------------------------- *)
(* Properties                                                              *)
(* ---------------------------------------------------------------------- *)

ConfigTypeOK ==
    /\ up \in {"down", "boot", "up"} /\ spoiled \in BOOLEAN
    /\ file \in Config \cup {NoCfg, Mixed}
    /\ live \in [Settings -> BOOLEAN]
    /\ req \in [Clients -> Requests]
    /\ eng \in Seq(Engines)
    /\ Len(eng) <= MaxStarts
    /\ issued \in 0 .. MaxToken

\* What is in force is what a restart will find: whenever nothing is under way, through
\* settings changed, pairings, rotations, relaunches and restarts, the file has the
\* settings of the atomics and the token of the running engine, unless since the start
\* of the agent a save failed, one request or rotation overlapped another, an engine
\* saved a rotated token with a copy older than the settings, or one was relaunched with
\* a token older than the last (the setters and Pair in handle_request, start, the
\* token_rotate arm of the engine).
SettingsKept ==
    (up = "up" /\ ~Underway /\ ~spoiled /\ Readable) =>
        /\ file.set = live
        /\ eng # << >> /\ file.tok = eng[Len(eng)].cfg.tok
=============================================================================
