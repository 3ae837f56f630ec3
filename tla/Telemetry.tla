----------------------------- MODULE Telemetry -----------------------------
(***************************************************************************)
(* The agent's telemetry: tlog appends to a bounded buffer from any thread,*)
(* and a background task drains a batch from its front every 15 seconds    *)
(* and uploads it, if the configuration file says that it may.             *)
(*                                                                         *)
(* This module composes the buffer with the configuration (AgentConfig):   *)
(* the steps of a request, of start and of a rotation that call tlog do so *)
(* here, and the uploader reads the file that those steps write.           *)
(***************************************************************************)
EXTENDS AgentConfig

CONSTANTS
    Cap,       \* TELEMETRY_BUF_CAP
    Batch,     \* lines drained for one upload
    MaxLines   \* bound: lines logged in one life of the process

ASSUME TelemetryAssumption ==
    Cap \in Nat \ {0} /\ Batch \in 1 .. Cap /\ MaxLines \in Nat

VARIABLES
    buf,     \* the buffer, lines by number
    batch,   \* the lines of the upload under way
    n,       \* lines logged by this process
    got      \* lines the server has

teleVars == <<buf, batch, n, got>>
vars == <<configVars, teleVars>>

Init == ConfigInit /\ buf = << >> /\ batch = << >> /\ n = 0 /\ got = {}

(* ---------------------------------------------------------------------- *)
(* The buffer                                                              *)
(* ---------------------------------------------------------------------- *)

\* Mutant: the buffer grows.
tlog_NoCap ==
    /\ n < MaxLines
    /\ n' = n + 1
    /\ buf' = Append(buf, n + 1)
    /\ UNCHANGED <<batch, got>>

\* A full buffer drops its oldest line.
tlog ==
    /\ n < MaxLines
    /\ n' = n + 1
    /\ buf' = Append(IF Len(buf) >= Cap THEN Tail(buf) ELSE buf, n + 1)
    /\ UNCHANGED <<batch, got>>

\* Mutants: a failed batch is forgotten; it goes to the back.
Rebuffered_Dropped == buf
Rebuffered_ToBack == LET all == buf \o batch IN SubSeq(all, 1, IF Len(all) > Cap THEN Cap ELSE Len(all))

\* A failed batch goes back to the front, the newest lines beyond the cap drop out.
Rebuffered == LET all == batch \o buf IN SubSeq(all, 1, IF Len(all) > Cap THEN Cap ELSE Len(all))

\* The uploader wakes up: the configuration is read afresh and must allow the
\* upload; the oldest lines are drained.
Drain ==
    /\ up # "down" /\ batch = << >>
    /\ Readable /\ file.set["telemetry"]
    /\ buf # << >>
    /\ LET k == IF Len(buf) < Batch THEN Len(buf) ELSE Batch IN
       /\ batch' = SubSeq(buf, 1, k)
       /\ buf' = SubSeq(buf, k + 1, Len(buf))
    /\ UNCHANGED <<configVars, n, got>>

\* The request is answered with a 2xx.
Uploaded ==
    /\ batch # << >>
    /\ got' = got \cup {batch[i] : i \in 1 .. Len(batch)}
    /\ batch' = << >>
    /\ UNCHANGED <<configVars, buf, n>>

\* It fails, before or after the server took the lines.
UploadFails ==
    /\ batch # << >>
    /\ got' \in {got, got \cup {batch[i] : i \in 1 .. Len(batch)}}
    /\ buf' = Rebuffered
    /\ batch' = << >>
    /\ UNCHANGED <<configVars, n>>

(* ---------------------------------------------------------------------- *)
(* The callers                                                             *)
(* ---------------------------------------------------------------------- *)

\* The configuration's steps that log a line: the start of the agent, a pairing saved,
\* the start of an engine and its relaunch, SetTelemetry before its reply, and the end of
\* a rotation (which the engine reports through Emitter::error).
Logged ==
    /\ \/ Boot \/ BootStart
       \/ \E c \in Clients :
             \/ Start(c)
             \/ SaveWrite(c) /\ req[c].key \in {"none", "telemetry"}
             \/ SetLoad(c) /\ ~Readable /\ req[c].key = "telemetry"
             \/ SaveFails(c) /\ req[c].key = "telemetry"
       \/ \E i \in 1 .. Len(eng) : RotateSaved(i) \/ Relaunch(i)
    /\ tlog

\* Those that log nothing.
Silent ==
    /\ \/ \E c \in Clients :
             \/ \E k \in Settings, v \in BOOLEAN : SetStore(c, k, v)
             \/ SetLoad(c) /\ (Readable \/ req[c].key # "telemetry")
             \/ Claim(c) \/ SaveTruncate(c)
             \/ SaveWrite(c) /\ req[c].key \notin {"none", "telemetry"}
             \/ SaveFails(c) /\ req[c].key # "telemetry"
       \/ \E i \in 1 .. Len(eng) : Rotate(i) \/ RotateTruncate(i)
    /\ UNCHANGED teleVars

\* A refused claim, and what the engine reports through Emitter::reconnect and
\* Emitter::error, log a line and leave the configuration alone.
Reported ==
    /\ up = "up"
    /\ tlog
    /\ UNCHANGED configVars

Stop ==
    /\ Down
    /\ buf' = << >> /\ batch' = << >> /\ n' = 0 /\ got' = {}

Next == Logged \/ Silent \/ Reported \/ Stop \/ Drain \/ Uploaded \/ UploadFails

Spec == Init /\ [][Next]_vars

(* ---------------------------------------------------------------------- *)
(* Properties                                                              *)
(* ---------------------------------------------------------------------- *)

TypeOK ==
    /\ ConfigTypeOK
    /\ buf \in Seq(1 .. n) /\ Len(buf) <= Cap
    /\ batch \in Seq(1 .. n) /\ Len(batch) <= Batch
    /\ n \in 0 .. MaxLines
    /\ got \subseteq 1 .. n

\* The buffer and the batch under way, one after the other, are an Outbox: lines are
\* uploaded in the order of tlog, and one is lost only when the buffer is full.
Outside == INSTANCE Outbox WITH q <- batch \o buf
ImplementsOutbox == Outside!Spec

\* "so nothing is lost by a transient outage": as long as no more lines than the cap
\* were logged, every one of them is with the server or still to be sent, through
\* any number of failed uploads and of lines logged during them.
NothingLost ==
    n <= Cap => \A i \in 1 .. n :
        i \in got \/ \E j \in 1 .. Len(batch \o buf) : (batch \o buf)[j] = i

\* The uploader "honors the telemetry opt-out": it begins no upload while the user
\* has telemetry off and no request is being handled.
OptOutHonoured ==
    [][(batch = << >> /\ batch' # << >> /\ \A c \in Clients : Idle(c)) => live["telemetry"]]_vars
=============================================================================
