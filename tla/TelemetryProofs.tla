-------------------------- MODULE TelemetryProofs --------------------------
(***************************************************************************)
(* Proofs about AgentConfig and Telemetry, for any set of clients and of   *)
(* settings and any number of starts, tokens and lines: the types, the     *)
(* agreement of the file with what is in force, the bound of the telemetry *)
(* buffer, that it loses nothing below its cap, and that it implements     *)
(* Outbox.                                                                 *)
(***************************************************************************)
EXTENDS Telemetry, SequenceTheorems, TLAPS

(* ---------------------------------------------------------------------- *)
(* The configuration: its inductive invariant                              *)
(* ---------------------------------------------------------------------- *)

\* The engine started last, and one that is on its way to a save or in one.
Cur == eng[Len(eng)]
Saving(i) == eng[i].st \in {"saving", "writing"}

\* What a request carries at each of its steps, that only an agent that is up has
\* requests and engines, and that an engine older than the last runs no more.
Stages ==
    /\ \A c \in Clients :
          /\ req[c].at \in {"truncate", "write", "start"} => req[c].cfg \in Config
          /\ req[c].at = "load" => req[c].key \in Settings
          /\ up # "up" => req[c].at = "idle"
    /\ up # "up" => eng = << >>
    /\ up = "boot" => Readable
    /\ \A i \in 1 .. Len(eng) : eng[i].st = "live" => i = Len(eng)

\* One party at a time changes the file.
Alone ==
    /\ \A c, d \in Clients : (req[c].at # "idle" /\ req[d].at # "idle") => c = d
    /\ \A c \in Clients, i \in 1 .. Len(eng) : ~(req[c].at # "idle" /\ Saving(i))
    /\ \A i \in 1 .. Len(eng) : Saving(i) => i = Len(eng) /\ eng[i].cfg.set = live
    /\ \A i \in 1 .. Len(eng) : eng[i].st = "writing" => file = NoCfg

\* Configuration x is the one in force.
InForce(x) == x.set = live /\ eng # << >> /\ x.tok = Cur.cfg.tok

\* What SettingsKept becomes while a request is handled: the file lacks just the field
\* of a setter, which then carries what is in force, and a start puts in force what the
\* file says.
Handled(c) ==
    /\ req[c].at = "write" => file = NoCfg
    /\ req[c].at = "start" => file = req[c].cfg
    /\ (req[c].at = "load" /\ Readable) => InForce([file EXCEPT !.set[req[c].key] = req[c].val])
    /\ (req[c].at \in {"truncate", "write"} /\ req[c].key # "none") => InForce(req[c].cfg)

Rested == (~Underway /\ Readable) => InForce(file)

Calm == Alone /\ (\A c \in Clients : Handled(c)) /\ Rested

ConfigInv == ConfigTypeOK /\ Stages /\ ((up = "up" /\ ~spoiled) => Calm)

\* Configurations, field by field.
LEMMA ConfigFields ==
    /\ \A c \in Config : c.tok \in 1 .. MaxToken /\ c.set \in [Settings -> BOOLEAN]
    /\ \A t \in 1 .. MaxToken, set \in [Settings -> BOOLEAN] : [tok |-> t, set |-> set] \in Config
    /\ \A c \in Config, k \in Settings, v \in BOOLEAN :
         LET d == [c EXCEPT !.set[k] = v] IN
         d \in Config /\ d.tok = c.tok /\ d.set = [c.set EXCEPT ![k] = v]
    /\ Defaults \in [Settings -> BOOLEAN]
BY DEF Config, Defaults

\* An engine's token and state change; everything else about it stays.
LEMMA EngineUpdate ==
    ASSUME NEW e \in Engines, NEW st \in {"live", "saving", "writing", "dead"}, NEW t \in 1 .. MaxToken
    PROVE  /\ e.st \in {"live", "saving", "writing", "dead"} /\ e.cfg \in Config /\ e.tok \in 1 .. MaxToken
           /\ [e EXCEPT !.st = st] \in Engines
           /\ [e EXCEPT !.st = st].st = st
           /\ [e EXCEPT !.st = st].cfg = e.cfg
           /\ [e EXCEPT !.st = st, !.cfg.tok = t] \in Engines
           /\ [e EXCEPT !.st = st, !.cfg.tok = t].st = st
           /\ [e EXCEPT !.st = st, !.cfg.tok = t].cfg.tok = t
           /\ [e EXCEPT !.st = st, !.cfg.tok = t].cfg.set = e.cfg.set
           /\ [e EXCEPT !.cfg.tok = t] \in Engines
           /\ [e EXCEPT !.cfg.tok = t].st = e.st
           /\ [e EXCEPT !.cfg.tok = t].cfg.tok = t
           /\ [e EXCEPT !.cfg.tok = t].cfg.set = e.cfg.set
BY DEF Engines, Config

\* Requests, field by field.
LEMMA RequestFields ==
    /\ NoReq \in Requests /\ NoReq.at = "idle" /\ NoReq.key = "none"
    /\ \A x \in Config : LET r == [NoReq EXCEPT !.at = "truncate", !.cfg = x] IN
         r \in Requests /\ r.at = "truncate" /\ r.cfg = x /\ r.key = "none"
    /\ \A k \in Settings, v \in BOOLEAN : LET r == [NoReq EXCEPT !.at = "load", !.key = k, !.val = v] IN
         r \in Requests /\ r.at = "load" /\ r.key = k /\ r.val = v
    /\ \A q \in Requests, x \in Config : LET r == [q EXCEPT !.at = "truncate", !.cfg = x] IN
         r \in Requests /\ r.at = "truncate" /\ r.cfg = x /\ r.key = q.key
    /\ \A q \in Requests, at \in {"write", "start"} : LET r == [q EXCEPT !.at = at] IN
         r \in Requests /\ r.at = at /\ r.cfg = q.cfg /\ r.key = q.key
    /\ \A q \in Requests : q.cfg \in Config \cup {NoCfg} /\ q.key \in Settings \cup {"none"} /\ q.val \in BOOLEAN
<1>1. NoReq \in Requests /\ NoReq.at = "idle" /\ NoReq.key = "none"
  BY DEF Requests, NoReq
<1>2. \A q \in Requests : q.cfg \in Config \cup {NoCfg} /\ q.key \in Settings \cup {"none"} /\ q.val \in BOOLEAN
  BY DEF Requests
<1>3. \A x \in Config : LET r == [NoReq EXCEPT !.at = "truncate", !.cfg = x] IN
         r \in Requests /\ r.at = "truncate" /\ r.cfg = x /\ r.key = "none"
  BY DEF Requests, NoReq
<1>4. \A k \in Settings, v \in BOOLEAN : LET r == [NoReq EXCEPT !.at = "load", !.key = k, !.val = v] IN
         r \in Requests /\ r.at = "load" /\ r.key = k /\ r.val = v
  BY DEF Requests, NoReq
<1>5. \A q \in Requests, x \in Config : LET r == [q EXCEPT !.at = "truncate", !.cfg = x] IN
         r \in Requests /\ r.at = "truncate" /\ r.cfg = x /\ r.key = q.key
  BY DEF Requests
<1>6. \A q \in Requests, at \in {"write", "start"} : LET r == [q EXCEPT !.at = at] IN
         r \in Requests /\ r.at = at /\ r.cfg = q.cfg /\ r.key = q.key
  BY DEF Requests
<1> QED
  BY <1>1, <1>2, <1>3, <1>4, <1>5, <1>6

\* One client's request changes, those of the others stay.
LEMMA OneRequest ==
    ASSUME req \in [Clients -> Requests], NEW c \in Clients, NEW r \in Requests, req' = [req EXCEPT ![c] = r]
    PROVE  req' \in [Clients -> Requests] /\ req'[c] = r /\ \A d \in Clients : d # c => req'[d] = req[d]
OBVIOUS

\* One engine changes, the others stay.
LEMMA OneEngineChanges ==
    ASSUME eng \in Seq(Engines), NEW i \in 1 .. Len(eng), NEW e \in Engines, eng' = [eng EXCEPT ![i] = e]
    PROVE  /\ eng' \in Seq(Engines) /\ Len(eng') = Len(eng) /\ eng'[i] = e
           /\ \A j \in 1 .. Len(eng) : j # i => eng'[j] = eng[j]
OBVIOUS

\* start adds an engine; those before it keep what they carry and go on saving if they
\* were, but run no more.
LEMMA LaunchStep ==
    ASSUME eng \in Seq(Engines), NEW x \in Config, Launch(x)
    PROVE  /\ live' = x.set /\ eng' \in Seq(Engines) /\ Len(eng') = Len(eng) + 1
           /\ eng'[Len(eng')].st = "live" /\ eng'[Len(eng')].cfg = x
           /\ \A i \in 1 .. Len(eng) :
                /\ eng'[i].st # "live"
                /\ eng'[i].st \in {"saving", "writing"} => eng[i].st \in {"saving", "writing"}
<1> DEFINE old == [i \in 1 .. Len(eng) |-> IF eng[i].st = "live" THEN [eng[i] EXCEPT !.st = "dead"] ELSE eng[i]]
           new == [st |-> "live", cfg |-> x, tok |-> x.tok]
<1>1. new \in Engines /\ new.st = "live" /\ new.cfg = x
  BY ConfigFields DEF Engines
<1>2. ASSUME NEW i \in 1 .. Len(eng)
      PROVE  /\ old[i] \in Engines /\ old[i].st # "live"
             /\ old[i].st \in {"saving", "writing"} => eng[i].st \in {"saving", "writing"}
  <2>1. eng[i] \in Engines
    BY ElementOfSeq
  <2>2. [eng[i] EXCEPT !.st = "dead"] \in Engines /\ [eng[i] EXCEPT !.st = "dead"].st = "dead"
    BY <2>1 DEF Engines
  <2> QED
    BY <2>1, <2>2
<1>3. old \in Seq(Engines) /\ Len(old) = Len(eng)
  BY <1>2
<1>4. eng' = Append(old, new) /\ live' = x.set
  BY DEF Launch, Seeded
<1> HIDE DEF old, new
<1>5. /\ Len(eng') = Len(eng) + 1 /\ eng' \in Seq(Engines) /\ eng'[Len(eng')] = new
      /\ \A i \in 1 .. Len(eng) : eng'[i] = old[i]
  BY <1>1, <1>3, <1>4
<1> QED
  BY <1>1, <1>2, <1>4, <1>5

\* The invariant holds when the agent has never run.
LEMMA ConfigInitInv == ConfigInit => ConfigInv
<1> SUFFICES ASSUME ConfigInit PROVE ConfigInv
  OBVIOUS
<1> USE ConfigAssumption DEF ConfigInit
<1>1. eng \in Seq(Engines) /\ Len(eng) = 0 /\ issued \in 0 .. MaxToken
  OBVIOUS
<1>2. live \in [Settings -> BOOLEAN] /\ req \in [Clients -> Requests] /\ \A c \in Clients : req[c].at = "idle"
  BY RequestFields, ConfigFields
<1>3. ConfigTypeOK
  <2>1. Len(eng) <= MaxStarts
    BY <1>1
  <2>2. up \in {"down", "boot", "up"} /\ spoiled \in BOOLEAN /\ file \in Config \cup {NoCfg, Mixed}
    BY Zenon
  <2> QED
    BY <1>1, <1>2, <2>1, <2>2, Zenon DEF ConfigTypeOK
<1>4. Stages
  BY <1>1, <1>2 DEF Stages
<1> QED
  BY <1>3, <1>4 DEF ConfigInv

\* Every step of the configuration keeps the types and the stages of a request.
LEMMA ConfigTypeStep ==
    ASSUME ConfigTypeOK, Stages, [ConfigNext]_configVars
    PROVE  ConfigTypeOK' /\ Stages'
<1> DEFINE Good == ConfigTypeOK /\ Stages
<1> SUFFICES Good'
  OBVIOUS
<1> USE ConfigAssumption
<1>a. /\ up \in {"down", "boot", "up"} /\ spoiled \in BOOLEAN
      /\ file \in Config \cup {NoCfg, Mixed} /\ live \in [Settings -> BOOLEAN]
      /\ req \in [Clients -> Requests] /\ eng \in Seq(Engines) /\ Len(eng) <= MaxStarts
      /\ issued \in 0 .. MaxToken
  BY DEF ConfigTypeOK
<1>b. Len(eng) \in Nat /\ \A c \in Clients : req[c] \in Requests
  BY <1>a
<1>c. Readable => file \in Config
  BY <1>a DEF Readable
<1>1. CASE Boot
  <2>1. live' \in [Settings -> BOOLEAN] /\ up' \in {"down", "boot", "up"} /\ (up' = "boot" => Readable)
    BY <1>1, <1>a, <1>c, ConfigFields DEF Boot
  <2>2. UNCHANGED <<file, req, eng, issued>> /\ spoiled' \in BOOLEAN /\ up # "up"
    BY <1>1, Zenon DEF Boot
  <2>3. ConfigTypeOK'
    BY <1>a, <2>1, <2>2, Zenon DEF ConfigTypeOK
  <2>4. Stages'
    BY <1>a, <2>1, <2>2 DEF Stages, Readable
  <2> QED
    BY <2>3, <2>4
<1>2. CASE Down
  <2>1. /\ up' = "down" /\ file' = file /\ live' = live /\ issued' = issued /\ spoiled' = spoiled
        /\ eng' = << >> /\ req' = [c \in Clients |-> NoReq]
    BY <1>2 DEF Down
  <2>2. /\ eng' \in Seq(Engines) /\ Len(eng') = 0 /\ req' \in [Clients -> Requests]
        /\ \A c \in Clients : req'[c].at = "idle"
    <3>1. NoReq \in Requests /\ NoReq.at = "idle"
      BY RequestFields
    <3> QED
      BY <2>1, <3>1
  <2>3. Len(eng') <= MaxStarts /\ up' \in {"down", "boot", "up"}
    BY <2>1, <2>2
  <2>4. ConfigTypeOK'
    BY <1>a, <2>1, <2>2, <2>3, Zenon DEF ConfigTypeOK
  <2>5. Stages'
    BY <2>1, <2>2 DEF Stages
  <2> QED
    BY <2>4, <2>5
\* A launch, by a pairing or at the start of the agent.
<1>3. ASSUME NEW x \in Config, Launch(x), Len(eng) < MaxStarts, UNCHANGED <<file, issued, spoiled>>, up' = "up",
             req' \in [Clients -> Requests], \A c \in Clients : req'[c].at = "idle" \/ req'[c] = req[c]
      PROVE  Good'
  <2>1. /\ live' = x.set /\ eng' \in Seq(Engines) /\ Len(eng') = Len(eng) + 1
        /\ \A i \in 1 .. Len(eng) : eng'[i].st # "live"
    BY <1>3, <1>a, LaunchStep
  <2>2. live' \in [Settings -> BOOLEAN] /\ Len(eng') <= MaxStarts /\ up' \in {"down", "boot", "up"}
    BY <1>3, <1>b, <2>1, ConfigFields
  <2>3. ConfigTypeOK'
    BY <1>3, <1>a, <2>1, <2>2, Zenon DEF ConfigTypeOK
  <2>4. \A i \in 1 .. Len(eng') : eng'[i].st = "live" => i = Len(eng')
    BY <1>b, <2>1
  <2>5. Stages'
    BY <1>3, <2>4 DEF Stages
  <2> QED
    BY <2>3, <2>5
<1>4. CASE BootStart
  <2>1. Readable /\ eng = << >> /\ Launch(file) /\ up' = "up" /\ UNCHANGED <<file, req, issued, spoiled>>
    BY <1>4 DEF BootStart, Stages
  <2>2. Len(eng) < MaxStarts /\ file \in Config
    BY <1>c, <2>1
  <2>3. req' \in [Clients -> Requests] /\ \A c \in Clients : req'[c] = req[c]
    BY <1>a, <2>1
  <2> QED
    BY <1>3, <2>1, <2>2, <2>3, Zenon
\* A step of a request: the request of one client changes, and file, settings and tokens
\* stay what they are.
<1>5. ASSUME NEW c \in Clients, NEW r \in Requests, req' = [req EXCEPT ![c] = r], up = "up", up' = up, eng' = eng,
             r.at \in {"truncate", "write", "start"} => r.cfg \in Config,
             r.at = "load" => r.key \in Settings,
             file' \in Config \cup {NoCfg, Mixed}, live' \in [Settings -> BOOLEAN], issued' \in 0 .. MaxToken,
             spoiled' \in BOOLEAN
      PROVE  Good'
  <2>1. req' \in [Clients -> Requests] /\ req'[c] = r /\ \A d \in Clients : d # c => req'[d] = req[d]
    BY <1>5, <1>a, OneRequest
  <2>2. ConfigTypeOK'
    BY <1>5, <1>a, <2>1, Zenon DEF ConfigTypeOK
  <2>3. \A d \in Clients : /\ req'[d].at \in {"truncate", "write", "start"} => req'[d].cfg \in Config
                           /\ req'[d].at = "load" => req'[d].key \in Settings
    BY <1>5, <2>1 DEF Stages
  <2>4. Stages'
    BY <1>5, <2>3 DEF Stages
  <2> QED
    BY <2>2, <2>4
<1>6. ASSUME NEW c \in Clients PROVE req[c].at # "idle" => up = "up"
  BY DEF Stages
<1>7. ASSUME NEW reason \in BOOLEAN, Spoils(reason) PROVE spoiled' \in BOOLEAN
  BY <1>7, <1>a, Zenon DEF Spoils
<1>8. ASSUME NEW c \in Clients, NEW k \in Settings, NEW v \in BOOLEAN, SetStore(c, k, v) PROVE Good'
  <2> DEFINE r == [NoReq EXCEPT !.at = "load", !.key = k, !.val = v]
  <2>1. r \in Requests /\ r.at = "load" /\ r.key = k
    BY DEF Requests, NoReq
  <2>2. /\ req' = [req EXCEPT ![c] = r] /\ up = "up" /\ Spoils(Underway)
        /\ live' = [live EXCEPT ![k] = v] /\ UNCHANGED <<up, file, eng, issued>>
    BY <1>8 DEF SetStore, Idle
  <2>3. live' \in [Settings -> BOOLEAN] /\ spoiled' \in BOOLEAN
    <3>1. Underway \in BOOLEAN
      BY DEF Underway
    <3> QED
      BY <1>a, <1>7, <2>2, <3>1
  <2> HIDE DEF r
  <2> QED
    BY <1>5, <1>a, <2>1, <2>2, <2>3
<1>9. ASSUME NEW c \in Clients, SetLoad(c) PROVE Good'
  <2>1. /\ req[c].at = "load" /\ UNCHANGED <<up, file, live, eng, issued, spoiled>>
        /\ up = "up" /\ req[c].key \in Settings /\ req[c].val \in BOOLEAN
    BY <1>9, <1>6, <1>b, RequestFields DEF SetLoad, Stages
  <2>2. CASE Readable
    <3> DEFINE x == [file EXCEPT !.set[req[c].key] = req[c].val]
               r == [req[c] EXCEPT !.at = "truncate", !.cfg = x]
    <3>1. x \in Config
      BY <1>c, <2>1, <2>2, ConfigFields
    <3>2. req' = [req EXCEPT ![c] = r]
      BY <1>9, <2>2 DEF SetLoad
    <3> HIDE DEF x
    <3>3. r \in Requests /\ r.at = "truncate" /\ r.cfg = x
      BY <1>b, <3>1 DEF Requests
    <3> HIDE DEF r
    <3> QED
      BY <1>5, <1>a, <2>1, <3>1, <3>2, <3>3
  <2>3. CASE ~Readable
    <3>1. req' = [req EXCEPT ![c] = NoReq]
      BY <1>9, <2>3 DEF SetLoad
    <3> QED
      BY <1>5, <1>a, <2>1, <3>1, RequestFields
  <2> QED
    BY <2>2, <2>3
<1>10. ASSUME NEW c \in Clients, Claim(c) PROVE Good'
  <2> DEFINE x == [tok |-> issued + 1, set |-> Defaults]
             r == [NoReq EXCEPT !.at = "truncate", !.cfg = x]
  <2>1. x \in Config /\ issued' \in 0 .. MaxToken
    BY <1>10, <1>a, ConfigFields DEF Claim
  <2>2. req' = [req EXCEPT ![c] = r] /\ up = "up" /\ Spoils(Underway) /\ UNCHANGED <<up, file, live, eng>>
    BY <1>10 DEF Claim, Idle
  <2> HIDE DEF x
  <2>3. r \in Requests /\ r.at = "truncate" /\ r.cfg = x
    BY <2>1, RequestFields
  <2>4. spoiled' \in BOOLEAN
    <3>1. Underway \in BOOLEAN
      BY DEF Underway
    <3> QED
      BY <1>7, <2>2, <3>1
  <2> HIDE DEF r
  <2> QED
    BY <1>5, <1>a, <2>1, <2>2, <2>3, <2>4
<1>11. ASSUME NEW c \in Clients, SaveTruncate(c) PROVE Good'
  <2> DEFINE r == [req[c] EXCEPT !.at = "write"]
  <2>1. /\ req[c].at = "truncate" /\ file' = NoCfg /\ UNCHANGED <<up, live, eng, issued, spoiled>>
        /\ up = "up" /\ req[c].cfg \in Config /\ req' = [req EXCEPT ![c] = r]
    BY <1>11, <1>6 DEF SaveTruncate, Stages
  <2>2. r \in Requests /\ r.at = "write" /\ r.cfg = req[c].cfg
    BY <1>b, RequestFields
  <2> HIDE DEF r
  <2> QED
    BY <1>5, <1>a, <2>1, <2>2
<1>12. ASSUME NEW c \in Clients, SaveWrite(c) PROVE Good'
  <2>1. /\ req[c].at = "write" /\ UNCHANGED <<up, live, eng, issued, spoiled>>
        /\ up = "up" /\ req[c].cfg \in Config /\ file' \in Config \cup {NoCfg, Mixed}
    BY <1>12, <1>6 DEF SaveWrite, Stages, Written
  <2>2. CASE req[c].key = "none"
    <3> DEFINE r == [req[c] EXCEPT !.at = "start"]
    <3>1. r \in Requests /\ r.at = "start" /\ r.cfg = req[c].cfg
      BY <1>b, RequestFields
    <3>2. req' = [req EXCEPT ![c] = r]
      BY <1>12, <2>2 DEF SaveWrite
    <3> HIDE DEF r
    <3> QED
      BY <1>5, <1>a, <2>1, <3>1, <3>2
  <2>3. CASE req[c].key # "none"
    <3>1. req' = [req EXCEPT ![c] = NoReq]
      BY <1>12, <2>3 DEF SaveWrite
    <3> QED
      BY <1>5, <1>a, <2>1, <3>1, RequestFields
  <2> QED
    BY <2>2, <2>3
<1>13. ASSUME NEW c \in Clients, SaveFails(c) PROVE Good'
  <2>1. /\ req[c].at # "idle" /\ UNCHANGED <<up, live, eng, issued>> /\ file' \in Config \cup {NoCfg, Mixed}
        /\ up = "up" /\ req' = [req EXCEPT ![c] = NoReq] /\ Spoils(TRUE)
    BY <1>13, <1>6, <1>a DEF SaveFails
  <2>2. spoiled' \in BOOLEAN
    BY <1>7, <2>1
  <2> QED
    BY <1>5, <1>a, <2>1, <2>2, RequestFields
<1>14. ASSUME NEW c \in Clients, Start(c) PROVE Good'
  <2>1. /\ req[c].at = "start" /\ Len(eng) < MaxStarts /\ Launch(req[c].cfg) /\ UNCHANGED <<up, file, issued, spoiled>>
        /\ up = "up" /\ req[c].cfg \in Config /\ req' = [req EXCEPT ![c] = NoReq]
    BY <1>14, <1>6 DEF Start, Stages
  <2>2. /\ req' \in [Clients -> Requests] /\ req'[c].at = "idle"
        /\ \A d \in Clients : d # c => req'[d] = req[d]
    BY <1>a, <2>1, OneRequest, RequestFields
  <2> QED
    BY <1>3, <2>1, <2>2
\* A step of an engine: one engine changes, the last one if it runs afterwards.
<1>15. ASSUME NEW i \in 1 .. Len(eng), NEW e \in Engines, eng' = [eng EXCEPT ![i] = e], UNCHANGED <<up, live, req>>,
              e.st = "live" => i = Len(eng),
              file' \in Config \cup {NoCfg, Mixed}, issued' \in 0 .. MaxToken, spoiled' \in BOOLEAN
       PROVE  Good'
  <2>1. /\ eng' \in Seq(Engines) /\ Len(eng') = Len(eng) /\ eng'[i] = e
        /\ \A j \in 1 .. Len(eng) : j # i => eng'[j] = eng[j]
    BY <1>15, <1>a, OneEngineChanges
  <2>2. ConfigTypeOK'
    BY <1>15, <1>a, <2>1, Zenon DEF ConfigTypeOK
  <2>3. up = "up"
    BY <1>15, <1>b DEF Stages
  <2>4. Stages'
    BY <1>15, <2>1, <2>3 DEF Stages
  <2> QED
    BY <2>2, <2>4
<1>16. ASSUME NEW i \in 1 .. Len(eng) PROVE eng[i] \in Engines
  BY <1>a, ElementOfSeq
<1>17. ASSUME NEW i \in 1 .. Len(eng), Rotate(i) PROVE Good'
  <2> DEFINE e == [eng[i] EXCEPT !.st = "saving", !.cfg.tok = issued + 1]
  <2>1. issued + 1 \in 1 .. MaxToken /\ issued' \in 0 .. MaxToken
    BY <1>17, <1>a DEF Rotate
  <2>2. e \in Engines /\ e.st = "saving"
    BY <1>16, <2>1, EngineUpdate
  <2>3. eng' = [eng EXCEPT ![i] = e] /\ UNCHANGED <<up, file, live, req>> /\ Spoils(Underway \/ eng[i].cfg.set # live)
    BY <1>17 DEF Rotate
  <2>4. spoiled' \in BOOLEAN
    <3>1. (Underway \/ eng[i].cfg.set # live) \in BOOLEAN
      BY DEF Underway
    <3> QED
      BY <1>7, <2>3, <3>1
  <2> HIDE DEF e
  <2> QED
    BY <1>15, <1>a, <2>1, <2>2, <2>3, <2>4
<1>18. ASSUME NEW i \in 1 .. Len(eng), RotateTruncate(i) PROVE Good'
  <2> DEFINE e == [eng[i] EXCEPT !.st = "writing"]
  <2>1. e \in Engines /\ e.st = "writing"
    BY <1>16 DEF Engines
  <2>2. eng' = [eng EXCEPT ![i] = e] /\ file' = NoCfg /\ UNCHANGED <<up, live, req, issued, spoiled>>
    BY <1>18 DEF RotateTruncate
  <2> HIDE DEF e
  <2> QED
    BY <1>15, <1>a, <2>1, <2>2
<1>19. ASSUME NEW i \in 1 .. Len(eng), RotateSaved(i) PROVE Good'
  <2> DEFINE st == IF i = Len(eng) THEN "live" ELSE "dead"
             e == [eng[i] EXCEPT !.st = st]
  <2>1. st \in {"live", "dead"} /\ (st = "live" => i = Len(eng))
    OBVIOUS
  <2>2. eng' = [eng EXCEPT ![i] = e] /\ UNCHANGED <<up, live, req, issued>>
    BY <1>19 DEF RotateSaved
  <2> HIDE DEF st
  <2>3. e \in Engines /\ e.st = st /\ eng[i].cfg \in Config
    BY <1>16, <2>1 DEF Engines
  <2>4. file' \in Config \cup {NoCfg, Mixed}
    BY <1>19, <1>a, <2>3 DEF RotateSaved, Written
  <2>5. spoiled' \in BOOLEAN
    BY <1>19, <1>a, <1>7, Zenon DEF RotateSaved
  <2> HIDE DEF e
  <2> QED
    BY <1>15, <1>a, <2>1, <2>2, <2>3, <2>4, <2>5
<1>20. ASSUME NEW i \in 1 .. Len(eng), Relaunch(i) PROVE Good'
  <2> DEFINE e == [eng[i] EXCEPT !.cfg.tok = eng[i].tok]
  <2>1. e \in Engines /\ e.st = eng[i].st
    BY <1>16 DEF Engines, Config
  <2>2. /\ eng' = [eng EXCEPT ![i] = e] /\ UNCHANGED <<up, file, live, req, issued>> /\ eng[i].st = "live"
        /\ Spoils(eng[i].cfg.tok # eng[i].tok)
    BY <1>20 DEF Relaunch
  <2>3. spoiled' \in BOOLEAN
    BY <1>7, <2>2
  <2> HIDE DEF e
  <2> QED
    BY <1>15, <1>a, <2>1, <2>2, <2>3 DEF Stages
<1>21. CASE UNCHANGED configVars
  BY <1>21, <1>a DEF configVars, ConfigTypeOK, Stages, Readable
<1> HIDE DEF Good
<1> QED
  BY <1>1, <1>2, <1>4, <1>8, <1>9, <1>10, <1>11, <1>12, <1>13, <1>14, <1>17, <1>18, <1>19, <1>20, <1>21 DEF ConfigNext

\* Every step of the configuration keeps the whole invariant.
LEMMA ConfigStep ==
    ASSUME ConfigInv, [ConfigNext]_configVars
    PROVE  ConfigInv'
<1> USE ConfigAssumption
<1>a. ConfigTypeOK' /\ Stages'
  BY ConfigTypeStep DEF ConfigInv
<1> SUFFICES ASSUME up' = "up", ~spoiled' PROVE Calm'
  BY <1>a DEF ConfigInv
<1>b. Stages /\ ((up = "up" /\ ~spoiled) => (Alone /\ Rested /\ \A c \in Clients : Handled(c)))
  BY DEF ConfigInv, Calm
<1>c. /\ file \in Config \cup {NoCfg, Mixed} /\ live \in [Settings -> BOOLEAN]
      /\ req \in [Clients -> Requests] /\ eng \in Seq(Engines) /\ Len(eng) \in Nat /\ issued \in Nat
      /\ \A c \in Clients : req[c] \in Requests
  BY DEF ConfigInv, ConfigTypeOK
<1>d. \A i \in 1 .. Len(eng) : eng[i] \in Engines
  BY <1>c, ElementOfSeq
<1>e. Readable => file \in Config
  BY <1>c DEF Readable
<1>f. ASSUME NEW reason, Spoils(reason) PROVE ~spoiled /\ ~reason
  BY <1>f DEF Spoils
<1>g. ~Underway => /\ \A c \in Clients : req[c].at = "idle"
                   /\ \A i \in 1 .. Len(eng) : ~Saving(i)
  BY DEF Underway, Saving
<1>h. ASSUME NEW c \in Clients, req[c].at # "idle", ~spoiled
      PROVE  /\ up = "up" /\ Handled(c)
             /\ \A d \in Clients : d # c => req[d].at = "idle"
             /\ \A i \in 1 .. Len(eng) : ~Saving(i)
  BY <1>b, <1>h DEF Stages, Alone
<1>i. ASSUME NEW i \in 1 .. Len(eng), Saving(i), ~spoiled
      PROVE  /\ up = "up" /\ i = Len(eng) /\ eng[i].cfg.set = live
             /\ \A c \in Clients : req[c].at = "idle"
             /\ eng[i].st = "writing" => file = NoCfg
             /\ \A j \in 1 .. Len(eng) : j # i => ~Saving(j)
  <2>1. up = "up"
    BY <1>b, <1>i, <1>c DEF Stages
  <2> QED
    BY <1>b, <1>i, <2>1 DEF Alone
<1>j. NoReq.at = "idle"
  BY DEF NoReq
\* Nothing is under way after the step.
<1>1. ASSUME \A c \in Clients : req'[c].at = "idle", \A i \in 1 .. Len(eng') : ~Saving(i)',
             Readable' => InForce(file)'
      PROVE  Calm'
  <2>1. Alone'
    BY <1>1 DEF Alone, Saving
  <2>2. ASSUME NEW c \in Clients PROVE Handled(c)'
    BY <1>1 DEF Handled
  <2> QED
    BY <1>1, <2>1, <2>2 DEF Calm, Rested
\* One request is under way after the step.
<1>2. ASSUME NEW c \in Clients, req'[c].at # "idle", \A d \in Clients : d # c => req'[d].at = "idle",
             eng' = eng, \A i \in 1 .. Len(eng) : ~Saving(i), Handled(c)'
      PROVE  Calm'
  <2>1. Alone'
    BY <1>2 DEF Alone, Saving
  <2>2. ASSUME NEW d \in Clients PROVE Handled(d)'
    <3>1. CASE d = c
      BY <1>2, <3>1
    <3>2. CASE d # c
      BY <1>2, <3>2 DEF Handled
    <3> QED
      BY <3>1, <3>2
  <2>3. Rested'
    BY <1>2 DEF Rested, Underway
  <2> QED
    BY <2>1, <2>2, <2>3 DEF Calm
\* One engine is saving after the step.
<1>3. ASSUME NEW i \in 1 .. Len(eng), i = Len(eng), NEW e \in Engines, eng' = [eng EXCEPT ![i] = e],
             e.st \in {"saving", "writing"}, e.cfg.set = live', e.st = "writing" => file' = NoCfg,
             \A c \in Clients : req'[c].at = "idle", \A j \in 1 .. Len(eng) : j # i => ~Saving(j)
      PROVE  Calm'
  <2>1. Len(eng') = Len(eng) /\ eng'[i] = e /\ \A j \in 1 .. Len(eng) : j # i => eng'[j] = eng[j]
    BY <1>3, <1>c, OneEngineChanges
  <2>2. Alone'
    BY <1>3, <2>1 DEF Alone, Saving
  <2>3. Rested'
    BY <1>3, <2>1 DEF Rested, Underway
  <2>4. ASSUME NEW c \in Clients PROVE Handled(c)'
    BY <1>3 DEF Handled
  <2> QED
    BY <2>2, <2>3, <2>4 DEF Calm
\* A launch of what the file says, with nothing else under way.
<1>4. ASSUME NEW x \in Config, Launch(x), file' = x, \A c \in Clients : req'[c].at = "idle",
             \A i \in 1 .. Len(eng) : ~Saving(i)
      PROVE  Calm'
  <2>1. /\ live' = x.set /\ Len(eng') = Len(eng) + 1 /\ eng' \in Seq(Engines)
        /\ eng'[Len(eng')].st = "live" /\ eng'[Len(eng')].cfg = x
        /\ \A i \in 1 .. Len(eng) : eng'[i].st \notin {"saving", "writing"}
    BY <1>4, <1>c, LaunchStep DEF Saving
  <2>2. \A i \in 1 .. Len(eng') : ~Saving(i)'
    BY <1>c, <2>1 DEF Saving
  <2>3. InForce(file)'
    BY <1>4, <1>c, <2>1 DEF InForce, Cur
  <2> QED
    BY <1>1, <1>4, <2>2, <2>3
<1>5. CASE Boot
  <2>1. ~Readable /\ UNCHANGED <<file, req, eng>> /\ up # "up"
    BY <1>5 DEF Boot
  <2>2. ~Readable' /\ Len(eng') = 0 /\ \A c \in Clients : req'[c].at = "idle"
    BY <1>b, <2>1 DEF Stages, Readable
  <2> QED
    BY <1>1, <2>2
<1>6. CASE Down
  BY <1>6 DEF Down
<1>7. CASE BootStart
  <2>1. Readable /\ eng = << >> /\ Launch(file) /\ UNCHANGED <<file, req>> /\ \A c \in Clients : req[c].at = "idle"
    BY <1>7, <1>b DEF BootStart, Stages
  <2> QED
    BY <1>4, <1>e, <2>1
<1>8. ASSUME NEW c \in Clients, NEW k \in Settings, NEW v \in BOOLEAN, SetStore(c, k, v) PROVE Calm'
  <2> DEFINE r == [NoReq EXCEPT !.at = "load", !.key = k, !.val = v]
  <2>1. r \in Requests /\ r.at = "load" /\ r.key = k /\ r.val = v
    BY DEF Requests, NoReq
  <2>2. /\ req' = [req EXCEPT ![c] = r] /\ up = "up" /\ Spoils(Underway)
        /\ live' = [live EXCEPT ![k] = v] /\ file' = file /\ eng' = eng
    BY <1>8 DEF SetStore, Idle
  <2> HIDE DEF r
  <2>3. req'[c] = r /\ \A d \in Clients : d # c => req'[d] = req[d]
    BY <1>c, <2>1, <2>2, OneRequest
  <2>4. ~spoiled /\ ~Underway /\ Rested
    BY <1>b, <1>f, <2>2
  <2>5. Readable' => InForce([file EXCEPT !.set[req[c].key] = req[c].val])'
    <3>1. SUFFICES ASSUME Readable PROVE InForce([file EXCEPT !.set[req[c].key] = req[c].val])'
      BY <2>2 DEF Readable
    <3>2. file \in Config /\ InForce(file)
      BY <1>e, <2>4, <3>1 DEF Rested
    <3> DEFINE x == [file EXCEPT !.set[k] = v]
    <3>3. x.tok = file.tok /\ x.set = [file.set EXCEPT ![k] = v]
      BY <3>2, ConfigFields
    <3>4. [file EXCEPT !.set[req[c].key] = req[c].val]' = x
      BY <2>1, <2>2, <2>3
    <3> HIDE DEF x
    <3> QED
      BY <2>2, <3>2, <3>3, <3>4 DEF InForce, Cur
  <2>6. Handled(c)'
    BY <2>1, <2>3, <2>5 DEF Handled
  <2> QED
    BY <1>2, <1>g, <2>1, <2>2, <2>3, <2>4, <2>6
<1>9. ASSUME NEW c \in Clients, SetLoad(c) PROVE Calm'
  <2>1. req[c].at = "load" /\ UNCHANGED <<file, live, eng, spoiled>>
    BY <1>9 DEF SetLoad
  <2>2. /\ Handled(c) /\ (\A d \in Clients : d # c => req[d].at = "idle") /\ \A i \in 1 .. Len(eng) : ~Saving(i)
    BY <1>h, <2>1
  <2>3. CASE Readable
    <3> DEFINE x == [file EXCEPT !.set[req[c].key] = req[c].val]
               r == [req[c] EXCEPT !.at = "truncate", !.cfg = x]
    <3>1. x \in Config /\ InForce(x)
      <4>1. req[c].key \in Settings /\ req[c].val \in BOOLEAN
        BY <1>b, <1>c, <2>1, RequestFields DEF Stages
      <4>2. x \in Config
        BY <1>e, <2>3, <4>1, ConfigFields
      <4> QED
        BY <2>1, <2>2, <2>3, <4>2 DEF Handled
    <3>2. req' = [req EXCEPT ![c] = r]
      BY <1>9, <2>3 DEF SetLoad
    <3> HIDE DEF x
    <3>3. r \in Requests /\ r.at = "truncate" /\ r.cfg = x
      BY <1>c, <3>1 DEF Requests
    <3> HIDE DEF r
    <3>4. req'[c] = r /\ \A d \in Clients : d # c => req'[d] = req[d]
      BY <1>c, <3>2, <3>3, OneRequest
    <3>5. InForce(req[c].cfg)'
      BY <2>1, <3>1, <3>3, <3>4 DEF InForce, Cur
    <3>6. Handled(c)'
      BY <3>3, <3>4, <3>5 DEF Handled
    <3> QED
      BY <1>2, <2>1, <2>2, <3>3, <3>4, <3>6
  <2>4. CASE ~Readable
    <3>1. req' = [req EXCEPT ![c] = NoReq] /\ ~Readable'
      BY <1>9, <2>1, <2>4 DEF SetLoad, Readable
    <3>2. req'[c].at = "idle" /\ \A d \in Clients : d # c => req'[d] = req[d]
      BY <1>c, <1>j, <3>1
    <3>3. \A i \in 1 .. Len(eng') : ~Saving(i)'
      BY <2>1, <2>2 DEF Saving
    <3> QED
      BY <1>1, <2>2, <3>1, <3>2, <3>3
  <2> QED
    BY <2>3, <2>4
<1>10. ASSUME NEW c \in Clients, Claim(c) PROVE Calm'
  <2> DEFINE r == [NoReq EXCEPT !.at = "truncate", !.cfg = [tok |-> issued + 1, set |-> Defaults]]
  <2>1. /\ req' = [req EXCEPT ![c] = r] /\ Spoils(Underway) /\ eng' = eng
    BY <1>10 DEF Claim
  <2>2. r.at = "truncate" /\ r.key = "none"
    BY DEF NoReq
  <2> HIDE DEF r
  <2>3. req'[c] = r /\ \A d \in Clients : d # c => req'[d] = req[d]
    BY <1>c, <2>1
  <2>4. ~Underway
    BY <1>f, <2>1
  <2>5. Handled(c)'
    BY <2>2, <2>3 DEF Handled
  <2> QED
    BY <1>2, <1>g, <2>1, <2>2, <2>3, <2>4, <2>5
<1>11. ASSUME NEW c \in Clients, SaveTruncate(c) PROVE Calm'
  <2> DEFINE r == [req[c] EXCEPT !.at = "write"]
  <2>1. /\ req[c].at = "truncate" /\ file' = NoCfg /\ UNCHANGED <<live, eng, spoiled>> /\ req' = [req EXCEPT ![c] = r]
    BY <1>11 DEF SaveTruncate
  <2>2. r \in Requests /\ r.at = "write" /\ r.cfg = req[c].cfg /\ r.key = req[c].key
    BY <1>c, RequestFields
  <2> HIDE DEF r
  <2>3. req'[c] = r /\ \A d \in Clients : d # c => req'[d] = req[d]
    BY <1>c, <2>1, <2>2, OneRequest
  <2>4. /\ Handled(c) /\ (\A d \in Clients : d # c => req[d].at = "idle") /\ \A i \in 1 .. Len(eng) : ~Saving(i)
    BY <1>h, <2>1
  <2>5. Handled(c)'
    BY <2>1, <2>2, <2>3, <2>4 DEF Handled, InForce, Cur
  <2> QED
    BY <1>2, <2>1, <2>2, <2>3, <2>4, <2>5
<1>12. ASSUME NEW c \in Clients, SaveWrite(c) PROVE Calm'
  <2>1. req[c].at = "write" /\ UNCHANGED <<live, eng, spoiled>> /\ file' \in Written(req[c].cfg)
    BY <1>12 DEF SaveWrite
  <2>2. /\ Handled(c) /\ (\A d \in Clients : d # c => req[d].at = "idle") /\ \A i \in 1 .. Len(eng) : ~Saving(i)
    BY <1>h, <2>1
  <2>3. file' = req[c].cfg
    BY <2>1, <2>2 DEF Handled, Written
  <2>4. CASE req[c].key = "none"
    <3> DEFINE r == [req[c] EXCEPT !.at = "start"]
    <3>1. r \in Requests /\ r.at = "start" /\ r.cfg = req[c].cfg
      BY <1>c, RequestFields
    <3>2. req' = [req EXCEPT ![c] = r]
      BY <1>12, <2>4 DEF SaveWrite
    <3> HIDE DEF r
    <3>3. req'[c] = r /\ \A d \in Clients : d # c => req'[d] = req[d]
      BY <1>c, <3>1, <3>2, OneRequest
    <3>4. Handled(c)'
      BY <2>3, <3>1, <3>3 DEF Handled
    <3> QED
      BY <1>2, <2>1, <2>2, <3>1, <3>3, <3>4
  <2>5. CASE req[c].key # "none"
    <3>1. req' = [req EXCEPT ![c] = NoReq]
      BY <1>12, <2>5 DEF SaveWrite
    <3>2. req'[c].at = "idle" /\ \A d \in Clients : d # c => req'[d] = req[d]
      BY <1>c, <1>j, <3>1
    <3>3. \A i \in 1 .. Len(eng') : ~Saving(i)'
      BY <2>1, <2>2 DEF Saving
    <3>4. InForce(file)'
      BY <2>1, <2>2, <2>3, <2>5 DEF Handled, InForce, Cur
    <3> QED
      BY <1>1, <2>2, <3>2, <3>3, <3>4
  <2> QED
    BY <2>4, <2>5
<1>13. ASSUME NEW c \in Clients, SaveFails(c) PROVE Calm'
  BY <1>13, <1>f DEF SaveFails
<1>14. ASSUME NEW c \in Clients, Start(c) PROVE Calm'
  <2>1. /\ req[c].at = "start" /\ Launch(req[c].cfg) /\ UNCHANGED <<file, spoiled>> /\ req[c].cfg \in Config
        /\ req' = [req EXCEPT ![c] = NoReq]
    BY <1>14, <1>b DEF Start, Stages
  <2>2. /\ Handled(c) /\ (\A d \in Clients : d # c => req[d].at = "idle") /\ \A i \in 1 .. Len(eng) : ~Saving(i)
    BY <1>h, <2>1
  <2>3. req'[c].at = "idle" /\ \A d \in Clients : d # c => req'[d] = req[d]
    BY <1>c, <1>j, <2>1
  <2>4. file' = req[c].cfg
    BY <2>1, <2>2 DEF Handled
  <2> QED
    BY <1>4, <2>1, <2>2, <2>3, <2>4
<1>15. ASSUME NEW i \in 1 .. Len(eng), Rotate(i) PROVE Calm'
  <2> DEFINE e == [eng[i] EXCEPT !.st = "saving", !.cfg.tok = issued + 1]
  <2>1. /\ eng' = [eng EXCEPT ![i] = e] /\ UNCHANGED <<file, live, req>> /\ eng[i].st = "live"
        /\ Spoils(Underway \/ eng[i].cfg.set # live)
    BY <1>15 DEF Rotate
  <2>2. e \in Engines /\ e.st = "saving" /\ e.cfg.set = eng[i].cfg.set
    <3>1. issued + 1 \in 1 .. MaxToken
      BY <1>15, <1>c DEF Rotate
    <3> QED
      BY <1>d, <3>1 DEF Engines, Config
  <2>3. ~Underway /\ eng[i].cfg.set = live
    BY <1>f, <2>1
  <2>4. i = Len(eng)
    BY <1>b, <2>1 DEF Stages
  <2> HIDE DEF e
  <2> QED
    BY <1>3, <1>g, <2>1, <2>2, <2>3, <2>4
<1>16. ASSUME NEW i \in 1 .. Len(eng), RotateTruncate(i) PROVE Calm'
  <2> DEFINE e == [eng[i] EXCEPT !.st = "writing"]
  <2>1. e \in Engines /\ e.st = "writing" /\ e.cfg = eng[i].cfg
    BY <1>d DEF Engines
  <2>2. eng' = [eng EXCEPT ![i] = e] /\ file' = NoCfg /\ UNCHANGED <<live, req, spoiled>> /\ Saving(i)
    BY <1>16 DEF RotateTruncate, Saving
  <2> HIDE DEF e
  <2> QED
    BY <1>3, <1>i, <2>1, <2>2
<1>17. ASSUME NEW i \in 1 .. Len(eng), RotateSaved(i) PROVE Calm'
  <2> DEFINE st == IF i = Len(eng) THEN "live" ELSE "dead"
             e == [eng[i] EXCEPT !.st = st]
  <2>1. st \in {"live", "dead"}
    OBVIOUS
  <2>2. eng' = [eng EXCEPT ![i] = e] /\ UNCHANGED <<live, req>>
    BY <1>17 DEF RotateSaved
  <2> HIDE DEF st
  <2>3. e \in Engines /\ e.st = st /\ e.cfg = eng[i].cfg
    BY <1>d, <2>1 DEF Engines
  <2>4. eng[i].st = "writing" /\ ~spoiled /\ file' \in Written(eng[i].cfg)
    <3>1. ~Spoils(TRUE)
      BY DEF Spoils
    <3>2. eng[i].st = "writing" /\ file' \in Written(eng[i].cfg) /\ spoiled' = spoiled
      BY <1>17, <3>1, Zenon DEF RotateSaved
    <3> QED
      BY <3>2, Zenon
  <2>5. /\ i = Len(eng) /\ eng[i].cfg.set = live /\ file = NoCfg /\ (\A c \in Clients : req[c].at = "idle")
        /\ \A j \in 1 .. Len(eng) : j # i => ~Saving(j)
    BY <1>i, <2>4 DEF Saving
  <2> HIDE DEF e
  <2>6. Len(eng') = Len(eng) /\ eng'[i] = e /\ \A j \in 1 .. Len(eng) : j # i => eng'[j] = eng[j]
    BY <1>c, <2>2, <2>3, OneEngineChanges
  <2>7. \A j \in 1 .. Len(eng') : ~Saving(j)'
    BY <2>1, <2>3, <2>5, <2>6 DEF Saving
  <2>8. file' = eng[i].cfg /\ eng' # << >>
    BY <1>c, <2>4, <2>5, <2>6 DEF Written
  <2>9. InForce(file)'
    BY <2>2, <2>3, <2>5, <2>6, <2>8 DEF InForce, Cur
  <2> QED
    BY <1>1, <2>2, <2>5, <2>7, <2>9
<1>18. CASE UNCHANGED <<up, file, live, req, eng, spoiled>>
  <2>1. Calm
    BY <1>18, <1>b DEF Calm
  <2> QED
    BY <1>18, <2>1 DEF Calm, Alone, Rested, Handled, InForce, Cur, Saving, Underway, Readable
<1>19. ASSUME NEW i \in 1 .. Len(eng), Relaunch(i) PROVE Calm'
  <2>1. /\ eng' = [eng EXCEPT ![i] = [eng[i] EXCEPT !.cfg.tok = eng[i].tok]] /\ UNCHANGED <<up, file, live, req>>
        /\ ~spoiled /\ eng[i].cfg.tok = eng[i].tok
    BY <1>19, <1>f DEF Relaunch
  <2>2. [eng[i] EXCEPT !.cfg.tok = eng[i].tok] = eng[i]
    BY <1>d, <2>1 DEF Engines, Config
  <2>3. eng' = eng /\ spoiled' = spoiled
    <3>1. [eng EXCEPT ![i] = eng[i]] = eng
      BY <1>c
    <3>2. spoiled' = spoiled
      BY <2>1, <1>a, Zenon DEF ConfigInv, ConfigTypeOK
    <3> QED
      BY <2>1, <2>2, <3>1, <3>2
  <2> QED
    BY <1>18, <2>1, <2>3
<1> QED
  BY <1>5, <1>6, <1>7, <1>8, <1>9, <1>10, <1>11, <1>12, <1>13, <1>14, <1>15, <1>16, <1>17, <1>18, <1>19
     DEF ConfigNext, configVars

(* ---------------------------------------------------------------------- *)
(* The telemetry buffer: its inductive invariant                           *)
(* ---------------------------------------------------------------------- *)

\* The types of the buffer's variables, and that buffer and batch together hold no
\* more lines than were logged: below the cap nothing is ever dropped.
BufInv ==
    /\ buf \in Seq(1 .. n) /\ Len(buf) <= Cap
    /\ batch \in Seq(1 .. n) /\ Len(batch) <= Batch
    /\ n \in 0 .. MaxLines
    /\ got \subseteq 1 .. n
    /\ Len(batch) + Len(buf) <= n
    /\ NothingLost

\* The buffer's share of a step: a line logged, nothing, or an end of the process.
TeleStep ==
    tlog \/ UNCHANGED teleVars \/ (buf' = << >> /\ batch' = << >> /\ n' = 0 /\ got' = {})
         \/ Drain \/ Uploaded \/ UploadFails

\* Each step of the composition is a step of the configuration or leaves it alone,
\* and is a step of the buffer or leaves that alone.
LEMMA Shares == [Next]_vars => [ConfigNext]_configVars /\ TeleStep
<1> SUFFICES ASSUME [Next]_vars PROVE [ConfigNext]_configVars /\ TeleStep
  OBVIOUS
<1>1. CASE Logged
  BY <1>1 DEF Logged, ConfigNext, TeleStep
<1>2. CASE Silent
  BY <1>2 DEF Silent, ConfigNext, TeleStep
<1>3. CASE Reported
  BY <1>3 DEF Reported, TeleStep
<1>4. CASE Stop
  BY <1>4 DEF Stop, ConfigNext, TeleStep
<1>5. CASE Drain \/ Uploaded \/ UploadFails
  BY <1>5 DEF Drain, Uploaded, UploadFails, TeleStep
<1>6. CASE UNCHANGED vars
  BY <1>6 DEF vars, TeleStep
<1> QED
  BY <1>1, <1>2, <1>3, <1>4, <1>5, <1>6 DEF Next

\* A sequence over a range is one over every larger range.
LEMMA WiderRange ==
    ASSUME NEW m \in Nat, NEW l \in Nat, m <= l, NEW s \in Seq(1 .. m)
    PROVE  s \in Seq(1 .. l)
<1>1. \A i \in 1 .. Len(s) : s[i] \in 1 .. l
  BY ElementOfSeq
<1> QED
  BY <1>1, SeqDef

\* A sequence is its first k elements followed by the others.
LEMMA SplitSeq ==
    ASSUME NEW S, NEW t \in Seq(S), NEW k \in 0 .. Len(t)
    PROVE  /\ SubSeq(t, 1, k) \o SubSeq(t, k + 1, Len(t)) = t
           /\ SubSeq(t, 1, k) \in Seq(S) /\ Len(SubSeq(t, 1, k)) = k
           /\ SubSeq(t, k + 1, Len(t)) \in Seq(S) /\ Len(SubSeq(t, k + 1, Len(t))) = Len(t) - k
<1>1. /\ SubSeq(t, 1, k) \in Seq(S) /\ Len(SubSeq(t, 1, k)) = k
      /\ \A i \in 1 .. k : SubSeq(t, 1, k)[i] = t[i]
  OBVIOUS
<1>2. /\ SubSeq(t, k + 1, Len(t)) \in Seq(S) /\ Len(SubSeq(t, k + 1, Len(t))) = Len(t) - k
      /\ \A i \in 1 .. Len(t) - k : SubSeq(t, k + 1, Len(t))[i] = t[k + i]
  OBVIOUS
<1>3. SubSeq(t, 1, k) \o SubSeq(t, k + 1, Len(t)) = t
  <2>1. ASSUME NEW a \in Seq(S), NEW b \in Seq(S), Len(a) = k, Len(b) = Len(t) - k,
               \A i \in 1 .. k : a[i] = t[i], \A i \in 1 .. Len(t) - k : b[i] = t[k + i]
        PROVE  a \o b = t
    <3>1. a \o b \in Seq(S) /\ Len(a \o b) = Len(t)
      BY <2>1
    <3>2. ASSUME NEW i \in 1 .. Len(t) PROVE (a \o b)[i] = t[i]
      <4>1. CASE i <= k
        BY <2>1, <4>1
      <4>2. CASE ~(i <= k)
        <5>1. i - k \in 1 .. Len(t) - k /\ k + (i - k) = i
          BY <4>2
        <5>2. (a \o b)[i] = b[i - k]
          BY <2>1, <4>2
        <5> QED
          BY <2>1, <5>1, <5>2
      <4> QED
        BY <4>1, <4>2
    <3> QED
      BY <3>1, <3>2, SeqEqual
  <2> QED
    BY <1>1, <1>2, <2>1
<1> QED
  BY <1>1, <1>2, <1>3

\* Dropping the first element of the second part of a sequence is RemoveAt.
LEMMA TailIsRemoveAt ==
    ASSUME NEW S, NEW s \in Seq(S), NEW t \in Seq(S), t # << >>
    PROVE  s \o Tail(t) = Outside!RemoveAt(s \o t, Len(s) + 1)
<1>1. SubSeq(s \o t, 1, (Len(s) + 1) - 1) = s
  <2>1. (Len(s) + 1) - 1 = Len(s)
    OBVIOUS
  <2>2. SubSeq(s \o t, 1, Len(s)) = s
    OBVIOUS
  <2> QED
    BY <2>1, <2>2
<1>2. SubSeq(s \o t, (Len(s) + 1) + 1, Len(s \o t)) = Tail(t)
  OBVIOUS
<1> QED
  BY <1>1, <1>2 DEF Outside!RemoveAt

\* A drain moves lines from the buffer to the batch: what waits stays the same.
LEMMA DrainWaits ==
    ASSUME BufInv, Drain
    PROVE  /\ batch' \o buf' = batch \o buf /\ batch' \in Seq(1 .. n) /\ buf' \in Seq(1 .. n)
           /\ Len(batch') <= Batch /\ Len(buf') <= Cap /\ Len(batch') + Len(buf') = Len(buf)
<1> DEFINE k == IF Len(buf) < Batch THEN Len(buf) ELSE Batch
<1>1. buf \in Seq(1 .. n) /\ Len(buf) <= Cap /\ Len(buf) \in Nat
  BY DEF BufInv
<1>2. k \in 0 .. Len(buf) /\ k <= Batch
  BY <1>1, TelemetryAssumption
<1>3. batch' = SubSeq(buf, 1, k) /\ buf' = SubSeq(buf, k + 1, Len(buf)) /\ batch = << >>
  BY DEF Drain
<1> HIDE DEF k
<1>4. /\ batch' \o buf' = buf /\ batch' \in Seq(1 .. n) /\ buf' \in Seq(1 .. n)
      /\ Len(batch') = k /\ Len(buf') = Len(buf) - k
  BY <1>1, <1>2, <1>3, SplitSeq
<1>5. batch \o buf = buf
  BY <1>1, <1>3, ConcatEmptySeq
<1> QED
  BY <1>1, <1>2, <1>4, <1>5, TelemetryAssumption

\* A failed upload puts the batch back in front, and what exceeds the cap drops out.
LEMMA FailWaits ==
    ASSUME BufInv, UploadFails
    PROVE  /\ batch' = << >> /\ buf' \in Seq(1 .. n) /\ batch' \o buf' = buf'
           /\ buf' = IF Len(batch \o buf) > Cap THEN SubSeq(batch \o buf, 1, Cap) ELSE batch \o buf
           /\ Len(buf') <= Cap /\ Len(buf') <= Len(batch) + Len(buf)
<1> DEFINE all == batch \o buf
<1>1. all \in Seq(1 .. n) /\ Len(all) = Len(batch) + Len(buf) /\ Len(all) \in Nat
  BY DEF BufInv
<1>2. batch' = << >> /\ buf' = SubSeq(all, 1, IF Len(all) > Cap THEN Cap ELSE Len(all))
  BY DEF UploadFails, Rebuffered
<1> HIDE DEF all
<1>3. CASE Len(all) > Cap
  <2>1. buf' = SubSeq(all, 1, Cap) /\ Cap \in 0 .. Len(all)
    BY <1>1, <1>2, <1>3, TelemetryAssumption
  <2>2. buf' \in Seq(1 .. n) /\ Len(buf') = Cap
    BY <1>1, <2>1, SplitSeq
  <2>3. batch' \o buf' = buf'
    BY <1>2, <2>2, ConcatEmptySeq
  <2> QED
    BY <1>1, <1>2, <1>3, <2>1, <2>2, <2>3 DEF all
<1>4. CASE ~(Len(all) > Cap)
  <2>1. buf' = SubSeq(all, 1, Len(all))
    BY <1>2, <1>4
  <2>2. SubSeq(all, 1, Len(all)) = all
    BY <1>1
  <2>3. batch' \o buf' = buf'
    BY <1>1, <1>2, <2>1, <2>2, ConcatEmptySeq
  <2> QED
    <3>1. buf' = all /\ Len(buf') <= Cap /\ Len(buf') <= Len(batch) + Len(buf)
      BY <1>1, <1>4, <2>1, <2>2, TelemetryAssumption
    <3> QED
      BY <1>1, <1>2, <1>4, <2>3, <3>1, Zenon DEF all
<1> QED
  BY <1>3, <1>4

\* Every step of the buffer keeps its invariant.
LEMMA BufStep ==
    ASSUME BufInv, TeleStep
    PROVE  BufInv'
<1> USE TelemetryAssumption
<1>a. /\ buf \in Seq(1 .. n) /\ batch \in Seq(1 .. n) /\ n \in Nat /\ Len(buf) \in Nat /\ Len(batch) \in Nat
      /\ Len(buf) <= Cap /\ Len(batch) <= Batch /\ Len(batch) + Len(buf) <= n
      /\ Len(batch \o buf) = Len(batch) + Len(buf)
  BY DEF BufInv
<1>1. CASE tlog
  <2> DEFINE kept == IF Len(buf) >= Cap THEN Tail(buf) ELSE buf
  <2>1. /\ n + 1 \in 0 .. MaxLines /\ n' = n + 1 /\ batch' = batch /\ got' = got
        /\ buf' = Append(kept, n + 1)
    BY <1>1, <1>a DEF tlog
  <2>2. kept \in Seq(1 .. n) /\ Len(kept) < Cap /\ Len(kept) <= Len(buf)
    <3>1. CASE Len(buf) >= Cap
      <4>1. buf # << >>
        BY <1>a, <3>1
      <4>2. Tail(buf) \in Seq(1 .. n) /\ Len(Tail(buf)) = Len(buf) - 1
        BY <1>a, <4>1
      <4> QED
        BY <1>a, <3>1, <4>2
    <3>2. CASE ~(Len(buf) >= Cap)
      BY <1>a, <3>2
    <3> QED
      BY <3>1, <3>2
  <2> HIDE DEF kept
  <2>3. kept \in Seq(1 .. n + 1) /\ batch \in Seq(1 .. n + 1)
    BY <1>a, <2>2, WiderRange
  <2>4. buf' \in Seq(1 .. n') /\ Len(buf') = Len(kept) + 1 /\ batch' \in Seq(1 .. n')
    BY <1>a, <2>1, <2>3
  <2>5. NothingLost'
    <3>1. SUFFICES ASSUME n + 1 <= Cap, NEW i \in 1 .. n + 1
                   PROVE  i \in got' \/ \E j \in 1 .. Len(batch' \o buf') : (batch' \o buf')[j] = i
      BY <2>1 DEF NothingLost
    <3>2. buf' = Append(buf, n + 1)
      BY <1>a, <2>1, <3>1 DEF kept
    <3>3. batch' \o buf' = Append(batch \o buf, n + 1)
      <4>1. n + 1 \in 1 .. n + 1 /\ buf \in Seq(1 .. n + 1)
        BY <1>a, WiderRange
      <4>2. batch \o Append(buf, n + 1) = Append(batch \o buf, n + 1)
        BY <2>3, <4>1
      <4> QED
        BY <2>1, <3>2, <4>2
    <3>4. CASE i = n + 1
      BY <1>a, <3>3, <3>4
    <3>5. CASE i # n + 1
      <4>1. i \in got \/ \E j \in 1 .. Len(batch \o buf) : (batch \o buf)[j] = i
        BY <1>a, <3>1, <3>5 DEF BufInv, NothingLost
      <4>2. ASSUME NEW j \in 1 .. Len(batch \o buf), (batch \o buf)[j] = i
            PROVE  \E l \in 1 .. Len(batch' \o buf') : (batch' \o buf')[l] = i
        <5>1. batch \o buf \in Seq(1 .. n)
          BY <1>a
        <5>2. j \in 1 .. Len(batch' \o buf') /\ (batch' \o buf')[j] = i
          BY <3>3, <4>2, <5>1
        <5> QED
          BY <5>2
      <4> QED
        BY <2>1, <4>1, <4>2
    <3> QED
      BY <3>4, <3>5
  <2> QED
    BY <1>a, <2>1, <2>2, <2>4, <2>5 DEF BufInv
<1>2. CASE UNCHANGED teleVars
  BY <1>2 DEF teleVars, BufInv, NothingLost
<1>3. CASE buf' = << >> /\ batch' = << >> /\ n' = 0 /\ got' = {}
  BY <1>3 DEF BufInv, NothingLost
<1>4. CASE Drain
  <2>1. n' = n /\ got' = got
    BY <1>4 DEF Drain
  <2>2. NothingLost'
    BY <1>4, <2>1, DrainWaits DEF BufInv, NothingLost
  <2> QED
    BY <1>4, <1>a, <2>1, <2>2, DrainWaits DEF BufInv
<1>5. CASE Uploaded
  <2>1. n' = n /\ buf' = buf /\ batch' = << >> /\ got' = got \cup {batch[i] : i \in 1 .. Len(batch)}
    BY <1>5 DEF Uploaded
  <2>2. batch' \o buf' = buf
    BY <1>a, <2>1, ConcatEmptySeq
  <2>3. got' \subseteq 1 .. n
    <3>1. \A i \in 1 .. Len(batch) : batch[i] \in 1 .. n
      BY <1>a, ElementOfSeq
    <3> QED
      BY <2>1, <3>1 DEF BufInv
  <2>4. NothingLost'
    <3>1. SUFFICES ASSUME n <= Cap, NEW i \in 1 .. n
                   PROVE  i \in got' \/ \E j \in 1 .. Len(buf) : buf[j] = i
      BY <2>1, <2>2 DEF NothingLost
    <3>2. CASE i \in got
      BY <2>1, <3>2
    <3>3. ASSUME NEW j \in 1 .. Len(batch \o buf), (batch \o buf)[j] = i
          PROVE  i \in got' \/ \E l \in 1 .. Len(buf) : buf[l] = i
      <4>1. CASE j <= Len(batch)
        BY <1>a, <2>1, <3>3, <4>1
      <4>2. CASE ~(j <= Len(batch))
        <5>1. j - Len(batch) \in 1 .. Len(buf) /\ buf[j - Len(batch)] = i
          BY <1>a, <3>3, <4>2
        <5> QED
          BY <5>1
      <4> QED
        BY <4>1, <4>2
    <3> QED
      BY <3>1, <3>2, <3>3 DEF BufInv, NothingLost
  <2>5. batch' \in Seq(1 .. n) /\ Len(batch') = 0
    BY <2>1
  <2> QED
    BY <1>a, <2>1, <2>3, <2>4, <2>5 DEF BufInv
<1>6. CASE UploadFails
  <2>1. n' = n /\ got' \in {got, got \cup {batch[i] : i \in 1 .. Len(batch)}}
    BY <1>6 DEF UploadFails
  <2>2. got' \subseteq 1 .. n /\ got \subseteq got'
    <3>1. \A i \in 1 .. Len(batch) : batch[i] \in 1 .. n
      BY <1>a, ElementOfSeq
    <3> QED
      BY <2>1, <3>1 DEF BufInv
  <2>3. n <= Cap => batch' \o buf' = batch \o buf
    <3>1. n <= Cap => ~(Len(batch \o buf) > Cap)
      BY <1>a
    <3> QED
      BY <1>6, <3>1, FailWaits
  <2>4. NothingLost'
    BY <2>1, <2>2, <2>3 DEF BufInv, NothingLost
  <2>5. batch' \in Seq(1 .. n) /\ Len(batch') = 0
    <3>1. batch' = << >>
      BY <1>6, FailWaits
    <3> QED
      BY <3>1
  <2> QED
    BY <1>6, <1>a, <2>1, <2>2, <2>4, <2>5, FailWaits DEF BufInv
<1> QED
  BY <1>1, <1>2, <1>3, <1>4, <1>5, <1>6 DEF TeleStep

\* The composition keeps both invariants.
LEMMA Invariance == Spec => [](ConfigInv /\ BufInv)
<1>1. Init => ConfigInv /\ BufInv
  BY ConfigInitInv, TelemetryAssumption DEF Init, BufInv, NothingLost
<1>2. ConfigInv /\ BufInv /\ [Next]_vars => (ConfigInv /\ BufInv)'
  BY Shares, ConfigStep, BufStep
<1> QED
  BY <1>1, <1>2, PTL DEF Spec

(* ---------------------------------------------------------------------- *)
(* Theorems                                                                *)
(* ---------------------------------------------------------------------- *)

\* The telemetry buffer never exceeds TELEMETRY_BUF_CAP nor the batch its limit, and
\* requests and engines carry whole configurations wherever the code relies on it.
THEOREM TypeCorrect == Spec => []TypeOK
<1>1. ConfigInv /\ BufInv => TypeOK
  BY DEF ConfigInv, BufInv, TypeOK
<1> QED
  BY <1>1, Invariance, PTL

\* Whenever nothing is under way, a file that can be read holds the settings in force and
\* the token of the running engine, through restarts, crashes and any interleaving of the
\* clients' requests with the engines, unless since the start of the agent a save failed,
\* two parties overlapped, an engine saved settings older than those in force, or one was
\* relaunched with an older token.
THEOREM SettingsPersist == Spec => []SettingsKept
<1>1. ConfigInv => SettingsKept
  <2> SUFFICES ASSUME ConfigInv, up = "up", ~Underway, ~spoiled, Readable
               PROVE  file.set = live /\ eng # << >> /\ file.tok = eng[Len(eng)].cfg.tok
    BY DEF SettingsKept
  <2> QED
    BY DEF ConfigInv, Calm, Rested, InForce, Cur
<1> QED
  BY <1>1, Invariance, PTL

\* As long as no more lines than the cap were logged, every one of them is with the
\* server or waits to be sent.
THEOREM NoLineLost == Spec => []NothingLost
<1>1. BufInv => NothingLost
  BY DEF BufInv
<1> QED
  BY <1>1, Invariance, PTL

\* tlog, the drain, and both ends of an upload, seen from outside, are the steps of
\* a bounded outbox that keeps the order of the lines.
LEMMA StepOutside ==
    ASSUME BufInv, TeleStep
    PROVE  [Outside!Next]_(Outside!outboxVars)
<1> USE TelemetryAssumption DEF Outside!Next, Outside!outboxVars
<1>a. /\ buf \in Seq(1 .. n) /\ batch \in Seq(1 .. n) /\ n \in Nat /\ Len(buf) \in Nat /\ Len(batch) \in Nat
      /\ Len(buf) <= Cap /\ Len(batch) <= Batch /\ Len(batch \o buf) = Len(batch) + Len(buf)
  BY DEF BufInv
<1>1. CASE tlog
  <2>1. /\ n' = n + 1 /\ batch' = batch /\ got' = got
        /\ buf' = Append(IF Len(buf) >= Cap THEN Tail(buf) ELSE buf, n + 1)
    BY <1>1 DEF tlog
  <2>2. n + 1 \in 1 .. n + 1 /\ buf \in Seq(1 .. n + 1) /\ batch \in Seq(1 .. n + 1)
    BY <1>a, WiderRange
  <2>3. CASE ~(Len(buf) >= Cap)
    <3>1. batch \o Append(buf, n + 1) = Append(batch \o buf, n + 1)
      BY <2>2
    <3>2. Len(batch \o buf) < Cap + Batch
      BY <1>a, <2>3
    <3> QED
      BY <2>1, <2>3, <3>1, <3>2 DEF Outside!Log
  <2>4. CASE Len(buf) >= Cap
    <3>1. buf # << >>
      BY <1>a, <2>4
    <3>2. Tail(buf) \in Seq(1 .. n + 1)
      BY <2>2, <3>1
    <3>3. batch \o Append(Tail(buf), n + 1) = Append(batch \o Tail(buf), n + 1)
      BY <2>2, <3>2
    <3>4. batch \o Tail(buf) = Outside!RemoveAt(batch \o buf, Len(batch) + 1)
      BY <1>a, <3>1, TailIsRemoveAt
    <3>5. Len(batch) + 1 \in 1 .. Len(batch \o buf) /\ Len(batch \o buf) >= Cap
      BY <1>a, <2>4
    <3>6. batch' \o buf' = Append(Outside!RemoveAt(batch \o buf, Len(batch) + 1), n + 1)
      BY <2>1, <2>4, <3>3, <3>4
    <3> QED
      BY <2>1, <3>5, <3>6 DEF Outside!Log
  <2> QED
    BY <2>3, <2>4
<1>2. CASE UNCHANGED teleVars
  BY <1>2 DEF teleVars
<1>3. CASE buf' = << >> /\ batch' = << >> /\ n' = 0 /\ got' = {}
  <2>1. batch' \o buf' = << >>
    BY <1>3, EmptySeq, ConcatEmptySeq
  <2> QED
    BY <1>3, <2>1 DEF Outside!Restart
<1>4. CASE Drain
  BY <1>4, DrainWaits DEF Drain
<1>5. CASE Uploaded
  <2>1. n' = n /\ buf' = buf /\ batch' = << >> /\ got' = got \cup {batch[i] : i \in 1 .. Len(batch)} /\ batch # << >>
    BY <1>5 DEF Uploaded
  <2>2. batch' \o buf' = buf
    BY <1>a, <2>1, ConcatEmptySeq
  <2>3. SubSeq(batch \o buf, Len(batch) + 1, Len(batch \o buf)) = buf
    BY <1>a
  <2>4. \A i \in 1 .. Len(batch) : (batch \o buf)[i] = batch[i]
    BY <1>a
  <2>5. {(batch \o buf)[i] : i \in 1 .. Len(batch)} = {batch[i] : i \in 1 .. Len(batch)}
    BY <2>4
  <2>6. Len(batch) \in 1 .. Len(batch \o buf)
    BY <1>a, <2>1
  <2> QED
    BY <2>1, <2>2, <2>3, <2>5, <2>6 DEF Outside!Deliver
<1>6. CASE UploadFails
  <2>1. n' = n /\ got' \in {got, got \cup {batch[i] : i \in 1 .. Len(batch)}}
    BY <1>6 DEF UploadFails
  <2>2. batch' \o buf' = IF Len(batch \o buf) > Cap THEN SubSeq(batch \o buf, 1, Cap) ELSE batch \o buf
    BY <1>6, FailWaits
  <2>3. \A i \in 1 .. Len(batch) : (batch \o buf)[i] = batch[i]
    BY <1>a
  <2>4. {(batch \o buf)[i] : i \in 1 .. Len(batch)} = {batch[i] : i \in 1 .. Len(batch)}
    BY <2>3
  <2>5. \E k \in 0 .. Len(batch \o buf) : got' = got \cup {(batch \o buf)[i] : i \in 1 .. k}
    <3>1. CASE got' = got
      <4>1. 0 \in 0 .. Len(batch \o buf) /\ got' = got \cup {(batch \o buf)[i] : i \in 1 .. 0}
        BY <1>a, <3>1
      <4> QED
        BY <4>1
    <3>2. CASE got' = got \cup {batch[i] : i \in 1 .. Len(batch)}
      <4>1. Len(batch) \in 0 .. Len(batch \o buf)
        BY <1>a
      <4> QED
        BY <2>4, <3>2, <4>1
    <3> QED
      BY <2>1, <3>1, <3>2
  <2> QED
    BY <2>1, <2>2, <2>5 DEF Outside!Retry
<1> QED
  BY <1>1, <1>2, <1>3, <1>4, <1>5, <1>6 DEF TeleStep

\* The telemetry buffer implements Outbox: lines reach the server in the order of
\* tlog, only a full buffer gives one up, and a failed upload loses nothing but what
\* exceeds the cap.
THEOREM Implements == Spec => ImplementsOutbox
<1>1. Init => Outside!Init
  BY DEF Init, Outside!Init
<1>2. BufInv /\ [Next]_vars => [Outside!Next]_(Outside!outboxVars)
  BY Shares, StepOutside
<1> QED
  BY <1>1, <1>2, Invariance, PTL DEF Spec, ImplementsOutbox, Outside!Spec
=============================================================================
