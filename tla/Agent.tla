------------------------------- MODULE Agent -------------------------------
(***************************************************************************)
(* The life of the sync engine inside its host: the background agent       *)
(* (agent/src/main.rs) or the Tauri shell (src-tauri/src/main.rs), which   *)
(* carry the same restart supervisor around engine::run.                   *)
(*                                                                         *)
(* Every request runs on a thread of its own and start() on the thread of  *)
(* the request that pairs, while supervisors, engines and clipboard        *)
(* watchers run on the others: a step below is what one of them does       *)
(* between two points where another can be seen (a lock or an await).      *)
(*                                                                         *)
(* A supervisor task that has been aborted is not polled again, but a poll *)
(* that has begun runs on to the next await; the same holds for an engine. *)
(* What the configuration file holds is AgentConfig's subject: here it is  *)
(* there (a saved pairing) or not.                                         *)
(***************************************************************************)
EXTENDS Naturals, FiniteSets

CONSTANTS
    Hosts,      \* which of "agent" and "tauri" are considered
    Clients,    \* request threads
    Pairers,    \* the clients that may issue Pair
    MaxStarts,  \* bound: calls of start in one life of the process
    MaxPanics   \* bound: engine panics in one life of the process

ASSUME AgentAssumption ==
    /\ Hosts \subseteq {"agent", "tauri"}
    /\ IsFiniteSet(Clients) /\ Pairers \subseteq Clients
    /\ "main" \notin Clients
    /\ MaxStarts \in Nat \ {0} /\ MaxPanics \in Nat

VARIABLES
    host,     \* the program that hosts the engine
    up,       \* the process: "down", "boot", "up", "exiting"
    saved,    \* config.json: "none", a pairing ("ok"), or one whose pin does not decode
    req,      \* request each thread is handling; "main" is the boot sequence
    sup,      \* the supervisor tasks
    join,     \* the stored JoinHandle, 0 for None
    cmdTx,    \* the launch whose command channel is published, 0 for None
    eng,      \* the engine task of each launch
    watch,    \* launches whose clipboard watcher thread runs
    online    \* Status.connected

vars == <<host, up, saved, req, sup, join, cmdTx, eng, watch, online>>

Procs == Clients \cup {"main"}
Sups == 1 .. MaxStarts
Launches == 1 .. (MaxStarts + MaxPanics)

\* Request threads, supervisor tasks and engine tasks.
Threads == [at : {"idle", "save", "take", "store", "stop"}, sup : 0 .. MaxStarts, pin : BOOLEAN]
Supervisors == [st : {"none", "parked", "polled", "published", "await", "done", "gone"},
                pin : BOOLEAN, abort : BOOLEAN, cur : {0} \cup Launches]
Tasks == [st : {"none", "live", "returned", "panicked", "dead"},
          abort : BOOLEAN, sup : 0 .. MaxStarts, conn : BOOLEAN]

NoReq == [at |-> "idle", sup |-> 0, pin |-> TRUE]
NoSup == [st |-> "none", pin |-> TRUE, abort |-> FALSE, cur |-> 0]
NoEng == [st |-> "none", abort |-> FALSE, sup |-> 0, conn |-> FALSE]

\* The receiver of a launch's command channel exists.
Running(l) == eng[l].st = "live"
Ended(l) == eng[l].st \in {"returned", "panicked", "dead"}

Started == {s \in Sups : sup[s].st # "none"}
Launched == {l \in Launches : \E s \in Sups : sup[s].cur = l} \cup
            {l \in Launches : eng[l].st # "none"}
Free(S) == CHOOSE x \in S : TRUE
Panics == Cardinality({l \in Launches : eng[l].st = "panicked"})

\* A task that will not be polled again, and an engine whose owner is one.
Doomed(l) == eng[l].abort \/ (eng[l].sup # 0 /\ sup[eng[l].sup].abort)

(* ---------------------------------------------------------------------- *)
(* The process                                                             *)
(* ---------------------------------------------------------------------- *)

\* What a process begins with: threads and tasks, none of them running anything.
Fresh == <<[p \in Procs |-> NoReq], [s \in Sups |-> NoSup], [l \in Launches |-> NoEng]>>

Init ==
    /\ host \in Hosts
    /\ up = "down"
    /\ saved \in {"none", "ok", "badpin"}
    /\ req = Fresh[1] /\ sup = Fresh[2] /\ eng = Fresh[3]
    /\ join = 0 /\ cmdTx = 0 /\ watch = {} /\ online = FALSE

\* A saved pairing is started by the boot sequence, before a request can come in:
\* build_engine runs before the socket is bound, the shell's setup before its window.
Boot ==
    /\ up = "down"
    /\ up' = IF saved = "none" THEN "up" ELSE "boot"
    /\ req' = [req EXCEPT !["main"].at = IF saved = "none" THEN "idle" ELSE "take",
                          !["main"].pin = saved # "badpin"]
    /\ UNCHANGED <<host, saved, sup, join, cmdTx, eng, watch, online>>

BootAgent == host = "agent" /\ Boot
BootTauri == host = "tauri" /\ Boot

\* The process ends: by the timer of Shutdown, by the shell's quit, or by a crash
\* at any point. Only the file survives.
Down ==
    /\ up # "down"
    /\ up' = "down"
    /\ req' = Fresh[1] /\ sup' = Fresh[2] /\ eng' = Fresh[3]
    /\ join' = 0 /\ cmdTx' = 0 /\ watch' = {} /\ online' = FALSE
    /\ UNCHANGED <<host, saved>>

Exit == up = "exiting" /\ Down

Accepting(c) == up \in {"up", "exiting"} /\ req[c].at = "idle"

(* ---------------------------------------------------------------------- *)
(* Requests: Pair and Shutdown                                             *)
(* ---------------------------------------------------------------------- *)

\* A thread on its way to start's spawn.
Starting(p) == req[p].at \in {"save", "take"}

\* claim succeeds, with a pin that it has decoded itself; a refused claim replies and
\* changes nothing.
Claim(c) ==
    /\ Accepting(c) /\ c \in Pairers
    /\ Cardinality(Started) + Cardinality({p \in Procs : Starting(p)}) < MaxStarts
    /\ req' = [req EXCEPT ![c].at = "save"]
    /\ UNCHANGED <<host, up, saved, sup, join, cmdTx, eng, watch, online>>

\* The new configuration is saved and start called, or the save fails and an error
\* is replied.
Save(c) ==
    /\ req[c].at = "save"
    /\ \/ saved' = "ok" /\ req' = [req EXCEPT ![c].at = "take"]
       \/ saved' = saved /\ req' = [req EXCEPT ![c] = NoReq]
    /\ UNCHANGED <<host, up, sup, join, cmdTx, eng, watch, online>>

AgentPair(c) == host = "agent" /\ (Claim(c) \/ Save(c))
TauriPair(c) == host = "tauri" /\ (Claim(c) \/ Save(c))

\* Mutant: the handle is dropped, which detaches the task.
AbortStored_Dropped == sup

\* The supervisor in the slot is aborted.
AbortStored == [s \in Sups |-> IF s = join THEN [sup[s] EXCEPT !.abort = TRUE] ELSE sup[s]]

\* Mutant: the task is built but not spawned.
Spawned_Unpolled(pin) == [NoSup EXCEPT !.pin = pin]

\* A supervisor that has just been spawned with its configuration.
Spawned(pin) == [NoSup EXCEPT !.st = "parked", !.pin = pin]

\* start: the previous supervisor is taken out of the slot and aborted, and the
\* new one spawned.
StartTake(p) ==
    /\ req[p].at = "take"
    /\ LET new == Free(Sups \ Started) IN
       /\ sup' = [AbortStored EXCEPT ![new] = Spawned(req[p].pin)]
       /\ req' = [req EXCEPT ![p].at = "store", ![p].sup = new]
    /\ join' = 0
    /\ UNCHANGED <<host, up, saved, cmdTx, eng, watch, online>>

\* start: the handle of the new supervisor is stored. The boot sequence goes on to
\* serve requests.
StartStore(p) ==
    /\ req[p].at = "store"
    /\ join' = req[p].sup
    /\ req' = [req EXCEPT ![p] = NoReq]
    /\ up' = IF p = "main" THEN "up" ELSE up
    /\ UNCHANGED <<host, saved, sup, cmdTx, eng, watch, online>>

Start(p) == StartTake(p) \/ StartStore(p)

\* Shutdown: the published sender is cleared, then the supervisor aborted and the
\* exit timer started.
ShutdownClear(c) ==
    /\ host = "agent" /\ Accepting(c) /\ up = "up"
    /\ cmdTx' = 0
    /\ req' = [req EXCEPT ![c].at = "stop"]
    /\ UNCHANGED <<host, up, saved, sup, join, eng, watch, online>>

ShutdownStop(c) ==
    /\ req[c].at = "stop"
    /\ sup' = AbortStored
    /\ join' = 0
    /\ up' = "exiting"
    /\ req' = [req EXCEPT ![c] = NoReq]
    /\ UNCHANGED <<host, saved, cmdTx, eng, watch, online>>

(* ---------------------------------------------------------------------- *)
(* The supervisor task                                                     *)
(* ---------------------------------------------------------------------- *)

\* A worker polls the task: for the first time, or after the backoff delay.
Poll(s) ==
    /\ sup[s].st = "parked" /\ ~sup[s].abort
    /\ sup' = [sup EXCEPT ![s].st = "polled"]
    /\ UNCHANGED <<host, up, req, saved, join, cmdTx, eng, watch, online>>

\* A fresh command channel is published and its clipboard watcher started.
Publish(s) ==
    /\ sup[s].st = "polled"
    /\ LET l == Free(Launches \ Launched) IN
       /\ sup' = [sup EXCEPT ![s].st = "published", ![s].cur = l]
       /\ cmdTx' = l
       /\ watch' = watch \cup {l}
    /\ UNCHANGED <<host, up, req, saved, join, eng, online>>

\* engine::run is spawned, guarded by AbortOnDrop; the task awaits it.
Launch(s) ==
    /\ sup[s].st = "published"
    /\ sup' = [sup EXCEPT ![s].st = "await"]
    /\ eng' = [eng EXCEPT ![sup[s].cur] =
                 [NoEng EXCEPT !.st = "live", !.sup = s]]
    /\ UNCHANGED <<host, up, req, saved, join, cmdTx, watch, online>>

\* Mutant: dropping the JoinHandle detaches the engine.
AbortInner_Detached(s) == eng

\* AbortOnDrop: the engine of a supervisor that is dropped is aborted.
AbortInner(s) == IF sup[s].cur = 0 THEN eng ELSE [eng EXCEPT ![sup[s].cur].abort = TRUE]

\* An aborted supervisor is dropped at its await.
Cancel(s) ==
    /\ sup[s].abort /\ sup[s].st \in {"parked", "await"}
    /\ sup' = [sup EXCEPT ![s].st = "gone"]
    /\ eng' = AbortInner(s)
    /\ UNCHANGED <<host, up, req, saved, join, cmdTx, watch, online>>

\* Mutant: any end of the engine stops the supervisor, unnoticed.
Reap_Stops(s) ==
    /\ sup[s].st = "await" /\ ~sup[s].abort /\ eng[sup[s].cur].st \in {"returned", "panicked"}
    /\ sup' = [sup EXCEPT ![s].st = "done"]
    /\ UNCHANGED <<host, up, req, saved, join, cmdTx, eng, watch, online>>

\* The engine returned: the supervisor stops. It panicked: back off and relaunch.
Reap(s) ==
    /\ sup[s].st = "await" /\ ~sup[s].abort
    /\ \/ /\ eng[sup[s].cur].st = "returned"
          /\ sup' = [sup EXCEPT ![s].st = "done"]
       \/ /\ eng[sup[s].cur].st = "panicked"
          /\ sup' = [sup EXCEPT ![s].st = "parked"]
    /\ online' = FALSE
    /\ UNCHANGED <<host, up, req, saved, join, cmdTx, eng, watch>>

Supervise(s) == Poll(s) \/ Publish(s) \/ Launch(s) \/ Cancel(s) \/ Reap(s)

AgentSupervisor(s) == host = "agent" /\ Supervise(s)
TauriSupervisor(s) == host = "tauri" /\ Supervise(s)

(* ---------------------------------------------------------------------- *)
(* The engine task, and its watcher thread                                 *)
(* ---------------------------------------------------------------------- *)

\* A dial that succeeds, and one that fails or a connection that ends: each sets
\* Status.connected.
Dial(l, ok) ==
    /\ eng[l].st = "live" /\ ~eng[l].abort /\ sup[eng[l].sup].pin
    /\ ok # eng[l].conn \/ online # ok
    /\ eng' = [eng EXCEPT ![l].conn = ok]
    /\ online' = ok
    /\ UNCHANGED <<host, up, req, saved, sup, join, cmdTx, watch>>

\* The task panics.
Panic(l) ==
    /\ eng[l].st = "live" /\ ~eng[l].abort /\ sup[eng[l].sup].pin
    /\ Panics < MaxPanics
    /\ eng' = [eng EXCEPT ![l].st = "panicked", ![l].conn = FALSE]
    /\ UNCHANGED <<host, up, req, saved, sup, join, cmdTx, watch, online>>

\* The early return of run for a pin that does not decode, before any dial.
Return(l) ==
    /\ eng[l].st = "live" /\ ~eng[l].abort /\ ~sup[eng[l].sup].pin
    /\ eng' = [eng EXCEPT ![l].st = "returned"]
    /\ online' = FALSE
    /\ UNCHANGED <<host, up, req, saved, sup, join, cmdTx, watch>>

\* An aborted engine task is dropped at its next await.
EngineDropped(l) ==
    /\ eng[l].abort /\ eng[l].st = "live"
    /\ eng' = [eng EXCEPT ![l].st = "dead", ![l].conn = FALSE]
    /\ UNCHANGED <<host, up, req, saved, sup, join, cmdTx, watch, online>>

\* The watcher thread sees that the receiver is gone (tx.is_closed()).
WatcherExits(l) ==
    /\ l \in watch /\ Ended(l)
    /\ watch' = watch \ {l}
    /\ UNCHANGED <<host, up, req, saved, sup, join, cmdTx, eng, online>>

(* ---------------------------------------------------------------------- *)

EngineStep(l) ==
    \/ \E ok \in BOOLEAN : Dial(l, ok)
    \/ Panic(l) \/ Return(l) \/ EngineDropped(l)

Next ==
    \/ BootAgent \/ BootTauri \/ Down
    \/ \E c \in Clients : AgentPair(c) \/ TauriPair(c) \/ ShutdownClear(c) \/ ShutdownStop(c)
    \/ \E p \in Procs : Start(p)
    \/ \E s \in Sups : AgentSupervisor(s) \/ TauriSupervisor(s)
    \/ \E l \in Launches : EngineStep(l) \/ WatcherExits(l)

Spec == Init /\ [][Next]_vars

\* The runtime polls every ready task, a request thread finishes its handler, and
\* an engine that is not connected keeps dialling. Nothing forces a request, a
\* panic, a rotation or a crash.
Fairness ==
    /\ WF_vars(Exit)
    /\ \A c \in Clients : WF_vars(Save(c)) /\ WF_vars(ShutdownStop(c))
    /\ \A p \in Procs : WF_vars(Start(p))
    /\ \A s \in Sups : WF_vars(Supervise(s))
    /\ \A l \in Launches :
         /\ WF_vars(EngineDropped(l)) /\ WF_vars(WatcherExits(l))
         /\ WF_vars(\E ok \in BOOLEAN : Dial(l, ok))

FairSpec == Spec /\ Fairness

(* ---------------------------------------------------------------------- *)
(* Properties                                                              *)
(* ---------------------------------------------------------------------- *)

TypeOK ==
    /\ host \in {"agent", "tauri"} /\ up \in {"down", "boot", "up", "exiting"}
    /\ saved \in {"none", "ok", "badpin"}
    /\ req \in [Procs -> Threads] /\ sup \in [Sups -> Supervisors] /\ eng \in [Launches -> Tasks]
    /\ join \in {0} \cup Started /\ cmdTx \in {0} \cup Launches /\ watch \subseteq Launches
    /\ online \in BOOLEAN

\* "so we never run two engines at once": at most one supervisor is not on its way
\* out, and at most one engine runs that is not being torn down, through pairings,
\* panics, relaunches and a Shutdown that overlaps them.
OneEngine ==
    /\ \A s, t \in Sups :
         (sup[s].st \notin {"none", "gone", "done"} /\ ~sup[s].abort /\
          sup[t].st \notin {"none", "gone", "done"} /\ ~sup[t].abort) => s = t
    /\ \A l, m \in Launches :
         (Running(l) /\ ~Doomed(l) /\ Running(m) /\ ~Doomed(m)) => l = m

\* An engine whose supervisor was aborted, by a re-pair or by Shutdown, stops, and
\* its clipboard watcher thread with it: nothing is leaked by a restart.
OrphansGone ==
    \A l \in Launches : (l \in watch /\ Doomed(l)) ~> (l \notin watch /\ ~Running(l))

\* A panic does not leave sync dead: the supervisor relaunches the engine unless it
\* is itself aborted or the process ends.
PanicRecovers ==
    \A s \in Sups :
        (sup[s].st = "await" /\ eng[sup[s].cur].st = "panicked") ~>
        (sup[s].abort \/ sup[s].st = "none" \/ (sup[s].st = "await" /\ Running(sup[s].cur)))

\* Status.connected does not stay set when no engine is connected any more, though
\* an aborted or panicked engine never clears it itself.
StatusTruthful ==
    (online /\ \A l \in Launches : ~eng[l].conn) ~>
    (~online \/ \E l \in Launches : eng[l].conn)
=============================================================================
