-------------------------------- MODULE Gui --------------------------------
(***************************************************************************)
(* The desktop GUI (gui/src/main.rs) and the agent process behind it.      *)
(*                                                                         *)
(* The UI thread runs one frame after the other; an event thread keeps a   *)
(* subscription to the agent and revives the agent when it dies; a worker  *)
(* thread each carries a pairing and a server search. The agent publishes  *)
(* its state on a broadcast bus of Cap events and a connection task copies *)
(* the bus to the socket, from which the event thread fills the channel of *)
(* the UI. The socket and the channel are one FIFO here (pipe): a broken   *)
(* connection loses a suffix of it, a frame reads a prefix.                *)
(*                                                                         *)
(* A request of the UI thread is one step: that thread waits for the reply *)
(* and nobody else writes what it holds. Of Status the connection and one  *)
(* setting are kept, of the roster its identity, and every other event is  *)
(* the same "other".                                                       *)
(***************************************************************************)
EXTENDS Naturals, Sequences

CONSTANTS
    Cap,        \* capacity of the broadcast bus
    PipeMax,    \* bound: lines between the connection task and the UI
    Rosters,    \* device lists, the empty one included
    NoRoster,   \* the empty device list
    MaxActs,    \* bound: what the user does
    MaxEvents   \* bound: what the engine and faults do

ASSUME GuiAssumption ==
    /\ Cap \in Nat \ {0} /\ PipeMax \in Nat /\ PipeMax >= 2 /\ NoRoster \in Rosters
    /\ MaxActs \in Nat /\ MaxEvents \in Nat

VARIABLES
    gui,      \* the GUI process: "start", "wait", "glow", "wgpu", "run", "quit", "gone"
    shell,    \* window shown, or hidden by the frame that is being drawn; tray icon live,
              \* hotkey manager there, hotkey registered
    booted,   \* the first frame has pulled the state
    mirror,   \* what the UI shows: status and roster
    work,     \* the pairing and the search: "none", "sent", "ok" or "err", and the status replied
    ev,       \* the event thread
    ask,      \* a Shutdown request is in the agent's socket
    agent,    \* the agent process: "down", "starting", "up", "exiting"
    real,     \* the agent's status and roster
    sub,      \* the connection task's subscription: its part of the bus, and whether it lagged
    pipe,     \* lines on their way to the UI
    pub,      \* history: whether the stream has carried the status and the roster since
              \* the mirror took them from elsewhere
    acts,     \* what the user did so far
    events    \* what the engine and faults did so far

vars == <<gui, shell, booted, mirror, work, ev, ask, agent, real, sub, pipe, pub, acts, events>>

Status == [conn : BOOLEAN, set : BOOLEAN]
Default == [conn |-> FALSE, set |-> TRUE]
Kinds == {"status", "roster", "other"}
Event(k, r) == [k |-> k, st |-> IF k = "status" THEN r.st ELSE Default,
                ro |-> IF k = "roster" THEN r.ro ELSE NoRoster]
Silent(q, k) == \A i \in 1 .. Len(q) : q[i].k # k
Events == [k : Kinds, st : Status, ro : Rosters]

NoSub == [on |-> FALSE, q |-> << >>, lag |-> FALSE]
NoWork == [is |-> "none", st |-> Default]
Tasks == {"pair", "search"}

\* A connection to the agent's socket succeeds.
Reachable == agent \in {"up", "exiting"}

Happens == events < MaxEvents /\ events' = events + 1 /\ UNCHANGED acts
Acts == acts < MaxActs /\ acts' = acts + 1 /\ UNCHANGED events

Init ==
    /\ gui = "start" /\ booted = FALSE
    /\ shell = [shown |-> TRUE, drawing |-> FALSE, tray |-> FALSE, mgr |-> FALSE, key |-> FALSE]
    /\ mirror = [st |-> Default, ro |-> NoRoster]
    /\ work = [k \in Tasks |-> NoWork]
    /\ ev = "none" /\ ask = FALSE
    /\ agent \in {"down", "up"}
    /\ real = [st |-> Default, ro |-> NoRoster]
    /\ sub = NoSub /\ pipe = << >>
    /\ pub = [st |-> FALSE, ro |-> FALSE]
    /\ acts = 0 /\ events = 0

(* ---------------------------------------------------------------------- *)
(* The agent: its engine, its bus, its process                             *)
(* ---------------------------------------------------------------------- *)

\* broadcast::Sender::send: a full bus drops its oldest event, and the receiver
\* learns that it lagged.
Sent(e) ==
    IF ~sub.on THEN sub
    ELSE IF Len(sub.q) < Cap THEN [sub EXCEPT !.q = Append(@, e)]
    ELSE [sub EXCEPT !.q = Append(Tail(@), e), !.lag = TRUE]

\* The emitter: r is the agent's state and k what it says of it.
Emit(k, r) ==
    /\ real' = r
    /\ sub' = Sent(Event(k, r))
    /\ pub' = [st |-> pub.st \/ (sub.on /\ k = "status"), ro |-> pub.ro \/ (sub.on /\ k = "roster")]

\* set_connected, set_roster and apply_presence, and an event that carries no state.
\* The engine runs from before the socket is bound.
EngineEvent ==
    /\ agent \in {"starting", "up"} /\ Happens
    /\ \/ Emit("status", [real EXCEPT !.st.conn = ~@])
       \/ \E r \in Rosters \ {real.ro} : Emit("roster", [real EXCEPT !.ro = r])
       \/ Emit("other", real)
    /\ UNCHANGED <<gui, shell, booted, mirror, work, ev, ask, agent, pipe>>

\* Mutant: the roster is not part of the resync.
Resync_StatusOnly == <<Event("status", real)>>

\* What replaces the events that a connection lagged behind.
Resync == <<Event("status", real), Event("roster", real)>>

\* The connection task copies the next event, or after a lag the present state.
Forward ==
    /\ sub.on /\ Len(pipe) < PipeMax
    /\ \/ /\ sub.lag /\ Len(pipe) + 1 < PipeMax
          /\ pipe' = pipe \o Resync
          /\ sub' = [sub EXCEPT !.lag = FALSE]
          /\ pub' = [pub EXCEPT !.st = @ \/ Silent(sub.q, "status"), !.ro = TRUE]
       \/ /\ ~sub.lag /\ sub.q # << >>
          /\ pipe' = Append(pipe, Head(sub.q))
          /\ sub' = [sub EXCEPT !.q = Tail(@)]
          /\ UNCHANGED pub
    /\ UNCHANGED <<gui, shell, booted, mirror, work, ev, ask, agent, real, acts, events>>

\* serve binds the socket.
AgentUp ==
    /\ agent = "starting"
    /\ agent' = "up"
    /\ UNCHANGED <<gui, shell, booted, mirror, work, ev, ask, real, sub, pipe, pub, acts, events>>

\* The process ends: every connection breaks, a worker waiting for a reply gets an
\* error, and the setting is left if there was a configuration to save it in.
AgentGone ==
    /\ agent' = "down"
    /\ \E s \in {real.st.set, Default.set} : real' = [st |-> [conn |-> FALSE, set |-> s], ro |-> NoRoster]
    /\ sub' = NoSub /\ ask' = FALSE
    /\ \E n \in 0 .. Len(pipe) : pipe' = SubSeq(pipe, 1, n)
    /\ ev' = IF ev = "stream" THEN "lost" ELSE ev
    /\ work' = [k \in Tasks |-> IF work[k].is = "sent" THEN [work[k] EXCEPT !.is = "err"] ELSE work[k]]
    /\ UNCHANGED <<gui, shell, booted, mirror, pub>>

AgentCrash == agent \in {"starting", "up"} /\ Happens /\ AgentGone
AgentExit == agent = "exiting" /\ AgentGone /\ UNCHANGED <<acts, events>>

\* The Shutdown request: Ok is replied and the process exits a moment later.
Shutdown ==
    /\ ask /\ agent = "up"
    /\ agent' = "exiting" /\ ask' = FALSE
    /\ UNCHANGED <<gui, shell, booted, mirror, work, ev, real, sub, pipe, pub, acts, events>>

\* Pair: claim, save and start give the settings their defaults; the reply carries
\* the status of that moment. Discovery and a refused claim change nothing.
Served(k) ==
    /\ work[k].is = "sent" /\ agent = "up"
    /\ \/ /\ k = "pair"
          /\ real' = [real EXCEPT !.st.set = TRUE]
          /\ work' = [work EXCEPT ![k] = [is |-> "ok", st |-> [real.st EXCEPT !.set = TRUE]]]
          /\ pub' = [pub EXCEPT !.st = FALSE]
       \/ /\ work' = [work EXCEPT ![k].is = IF k = "pair" THEN "err" ELSE "ok"]
          /\ UNCHANGED <<real, pub>>
    /\ UNCHANGED <<gui, shell, booted, mirror, ev, ask, agent, sub, pipe, acts, events>>

(* ---------------------------------------------------------------------- *)
(* Start of the GUI                                                        *)
(* ---------------------------------------------------------------------- *)

\* Mutant: an agent that is not there is waited for but not spawned.
Ensured_NoSpawn == agent

\* ensure_agent: a reachable agent is enough, otherwise one is spawned. Of two that
\* start at once the one that cannot bind the socket exits.
Ensured == IF Reachable THEN agent ELSE "starting"

\* main waits until the agent it needs is reachable, or for three seconds.
Launch ==
    /\ \/ gui = "start" /\ gui' = (IF Reachable THEN "glow" ELSE "wait") /\ agent' = Ensured
       \/ gui = "wait" /\ gui' = "glow" /\ UNCHANGED agent
    /\ UNCHANGED <<shell, booted, mirror, work, ev, ask, real, sub, pipe, pub, acts, events>>

\* run_native: the creator starts the event thread and App::new registers the hotkey,
\* as far as the desktop lets it.
Window ==
    /\ gui \in {"glow", "wgpu"}
    /\ gui' = "run" /\ ev' = "connect"
    /\ \E m, k \in BOOLEAN : (k => m) /\ shell' = [shell EXCEPT !.mgr = m, !.key = k]
    /\ UNCHANGED <<booted, mirror, work, ask, agent, real, sub, pipe, pub, acts, events>>

\* The process ends, and its threads and connections with it.
GuiGone ==
    /\ gui' = "gone" /\ ev' = "none"
    /\ sub' = NoSub /\ pipe' = << >>
    /\ work' = [k \in Tasks |-> NoWork]
    /\ UNCHANGED <<shell, booted, mirror, ask, agent, real, pub>>

\* A renderer that fails before its creator ran is followed by the next one; a
\* failure of the last one, or later, ends the process.
RendererFails ==
    /\ Happens
    /\ \/ /\ gui = "glow" /\ gui' = "wgpu"
          /\ UNCHANGED <<shell, booted, mirror, work, ev, ask, agent, real, sub, pipe, pub>>
       \/ gui \in {"wgpu", "run"} /\ GuiGone

(* ---------------------------------------------------------------------- *)
(* The event thread                                                        *)
(* ---------------------------------------------------------------------- *)

Alive == gui \in {"run", "quit"}

\* subscribe_stream: the agent subscribes to its bus and pushes a status snapshot.
Subscribe ==
    /\ Alive /\ ev = "connect"
    /\ \/ /\ Reachable /\ Len(pipe) < PipeMax
          /\ ev' = "stream"
          /\ sub' = [NoSub EXCEPT !.on = TRUE]
          /\ pipe' = Append(pipe, Event("status", real))
          /\ pub' = [st |-> TRUE, ro |-> FALSE]
       \/ ~Reachable /\ ev' = "lost" /\ UNCHANGED <<sub, pipe, pub>>
    /\ UNCHANGED <<gui, shell, booted, mirror, work, ask, agent, real, acts, events>>

\* Mutant: the sleep is shorter than the deadline of a quit.
Pause_Short ==
    /\ Alive /\ ev = "lost"
    /\ ev' = "sleep"
    /\ UNCHANGED <<gui, shell, booted, mirror, work, ask, agent, real, sub, pipe, pub, acts, events>>

\* The stream ended: sleep for a second, which outlasts the 300 ms of a quit that
\* has begun.
Pause ==
    /\ Alive /\ ev = "lost"
    /\ ev' = IF gui = "quit" THEN "over" ELSE "sleep"
    /\ UNCHANGED <<gui, shell, booted, mirror, work, ask, agent, real, sub, pipe, pub, acts, events>>

\* ensure_agent, and its wait for the socket of an agent that it spawned.
Revive ==
    /\ Alive
    /\ \/ ev = "sleep" /\ agent' = Ensured /\ ev' = (IF Reachable THEN "connect" ELSE "wait")
       \/ ev = "wait" /\ ev' = "connect" /\ UNCHANGED agent
    /\ UNCHANGED <<gui, shell, booted, mirror, work, ask, real, sub, pipe, pub, acts, events>>

EventThread == Subscribe \/ Pause \/ Revive

(* ---------------------------------------------------------------------- *)
(* The UI thread                                                           *)
(* ---------------------------------------------------------------------- *)

\* The last event of kind k in q.
Newest(q, k) == CHOOSE i \in 1 .. Len(q) : q[i].k = k /\ \A j \in 1 .. Len(q) : j > i => q[j].k # k

\* pump_events takes the events one by one: the last status and the last roster stay.
Adopt(m, q) ==
    [st |-> IF Silent(q, "status") THEN m.st ELSE q[Newest(q, "status")].st,
     ro |-> IF Silent(q, "roster") THEN m.ro ELSE q[Newest(q, "roster")].ro]

\* reload_status and reload_roster on the first frame.
Bootstrapped(m) == IF ~booted /\ Reachable THEN real ELSE m

\* poll_pair: a pairing that succeeded replaces the status by the one of the reply,
\* whatever was pumped before, and pulls the roster.
PairPolled(m) ==
    IF work["pair"].is # "ok" THEN m
    ELSE [st |-> work["pair"].st, ro |-> IF Reachable THEN real.ro ELSE m.ro]

\* Mutant: a failed result stays in its channel.
Polled_ErrKept(w) == IF w.is = "ok" THEN NoWork ELSE w

\* poll_discovery and poll_pair take a result, or an error, and allow the next attempt.
Polled(w) == IF w.is \in {"ok", "err"} THEN NoWork ELSE w

\* What the first n events, the first pull and a pairing leave to be shown.
Shown(n) == PairPolled(Adopt(Bootstrapped(mirror), SubSeq(pipe, 1, n)))

\* History: the roster that a frame pulled is newer than those of the stream. The first
\* pull is made before the events are pumped, the one of poll_pair after that.
RosterPulled(left) ==
    /\ Reachable /\ sub.on
    /\ \/ ~booted /\ Silent(pipe, "roster")
       \/ work["pair"].is = "ok" /\ Silent(left, "roster")

\* A frame, up to where it draws: build the tray if there is none, pull on the first
\* frame, pump the events, poll the workers.
Update ==
    /\ gui = "run"
    /\ \E t \in BOOLEAN : (shell.tray => t) /\ shell' = [shell EXCEPT !.tray = t, !.drawing = FALSE]
    /\ booted' = TRUE
    /\ work' = [k \in Tasks |-> Polled(work[k])]
    /\ \E n \in 0 .. Len(pipe) :
         LET left == SubSeq(pipe, n + 1, Len(pipe)) IN
         /\ mirror' = Shown(n)
         /\ pipe' = left
         /\ pub' = [st |-> pub.st /\ work["pair"].is # "ok",
                    ro |-> pub.ro \/ RosterPulled(left)]
    /\ UNCHANGED <<gui, ev, ask, agent, real, sub, acts, events>>

\* The user acts on the window that a frame draws. The frame that hides it is drawn to
\* its end: the controls come after the close check and do not look at the visibility.
UserAct == gui = "run" /\ booted /\ (shell.shown \/ shell.drawing) /\ Acts

\* A settings control: the mirror changes and the request is written through; the
\* reply is ignored.
Toggle ==
    /\ UserAct
    /\ mirror' = [mirror EXCEPT !.st.set = ~@]
    /\ real' = IF agent = "up" THEN [real EXCEPT !.st.set = ~mirror.st.set] ELSE real
    /\ pub' = [pub EXCEPT !.st = @ /\ agent = "up" /\ Silent(sub.q \o pipe, "status")]
    /\ UNCHANGED <<gui, shell, booted, work, ev, ask, agent, sub, pipe>>

\* do_pair and start_discovery, one of each at a time: the worker's request reaches
\* the agent or fails.
StartWork(k) ==
    /\ UserAct /\ work[k].is = "none"
    /\ work' = [work EXCEPT ![k].is = IF agent = "up" THEN "sent" ELSE "err"]
    /\ UNCHANGED <<gui, shell, booted, mirror, ev, ask, agent, real, sub, pipe, pub>>

\* apply_hotkey: the old binding is unregistered, then the new one registered, which
\* can fail.
ApplyHotkey ==
    /\ UserAct /\ shell.mgr
    /\ \E ok \in BOOLEAN : shell' = [shell EXCEPT !.key = ok]
    /\ UNCHANGED <<gui, booted, mirror, work, ev, ask, agent, real, sub, pipe, pub>>

\* There is a live way back to a hidden window.
CanReturn == shell.tray \/ shell.key

\* The window's close button: hide if there is a way back, else quit.
Close ==
    /\ UserAct /\ shell.shown
    /\ \/ CanReturn /\ shell' = [shell EXCEPT !.shown = FALSE, !.drawing = TRUE] /\ UNCHANGED gui
       \/ ~CanReturn /\ gui' = "quit" /\ UNCHANGED shell
    /\ UNCHANGED <<booted, mirror, work, ev, ask, agent, real, sub, pipe, pub>>

\* pump_shell_events: the tray and the hotkey bring the window back, the tray quits.
ShellEvent ==
    /\ gui = "run" /\ booted /\ Acts
    /\ \/ CanReturn /\ shell' = [shell EXCEPT !.shown = TRUE] /\ UNCHANGED gui
       \/ shell.tray /\ gui' = "quit" /\ UNCHANGED shell
    /\ UNCHANGED <<booted, mirror, work, ev, ask, agent, real, sub, pipe, pub>>

\* really_quit: a detached thread asks the agent to shut down; the process exits when
\* it is answered or after 300 ms.
QuitAsk ==
    /\ gui = "quit" /\ agent = "up" /\ ~ask
    /\ ask' = TRUE
    /\ UNCHANGED <<gui, shell, booted, mirror, work, ev, agent, real, sub, pipe, pub, acts, events>>

QuitExit == gui = "quit" /\ GuiGone /\ UNCHANGED <<acts, events>>

(* ---------------------------------------------------------------------- *)

Next ==
    \/ EngineEvent \/ Forward \/ AgentUp \/ AgentCrash \/ AgentExit \/ Shutdown
    \/ \E k \in Tasks : Served(k) \/ StartWork(k)
    \/ Launch \/ Window \/ RendererFails \/ EventThread
    \/ Update \/ Toggle \/ ApplyHotkey \/ Close \/ ShellEvent \/ QuitAsk \/ QuitExit

Spec == Init /\ [][Next]_vars

\* Threads and processes run: the agent binds its socket, answers and exits, the
\* event thread goes round its loop, the UI keeps drawing (request_repaint_after).
\* Nothing forces a user, an engine event or a fault.
Fairness ==
    /\ WF_vars(AgentUp) /\ WF_vars(AgentExit) /\ WF_vars(Shutdown)
    /\ \A k \in Tasks : WF_vars(Served(k))
    /\ WF_vars(Launch) /\ WF_vars(Window) /\ WF_vars(EventThread)
    /\ WF_vars(Update) /\ WF_vars(QuitExit)

FairSpec == Spec /\ Fairness

(* ---------------------------------------------------------------------- *)
(* Properties                                                              *)
(* ---------------------------------------------------------------------- *)

TypeOK ==
    /\ gui \in {"start", "wait", "glow", "wgpu", "run", "quit", "gone"}
    /\ shell \in [shown : BOOLEAN, drawing : BOOLEAN, tray : BOOLEAN, mgr : BOOLEAN, key : BOOLEAN]
    /\ booted \in BOOLEAN /\ ask \in BOOLEAN
    /\ mirror \in [st : Status, ro : Rosters] /\ real \in [st : Status, ro : Rosters]
    /\ work \in [Tasks -> [is : {"none", "sent", "ok", "err"}, st : Status]]
    /\ ev \in {"none", "connect", "stream", "lost", "sleep", "over", "wait"}
    /\ agent \in {"down", "starting", "up", "exiting"}
    /\ sub \in [on : BOOLEAN, q : Seq(Events), lag : BOOLEAN] /\ Len(sub.q) <= Cap
    /\ pipe \in Seq(Events) /\ Len(pipe) <= PipeMax
    /\ pub \in [st : BOOLEAN, ro : BOOLEAN]
    /\ acts \in 0 .. MaxActs /\ events \in 0 .. MaxEvents

Drained == sub.on /\ sub.q = << >> /\ ~sub.lag /\ pipe = << >>

\* Once everything on the way has been pumped, the UI shows what the agent has: its
\* status if the stream carried one since a control or a pairing wrote the mirror,
\* its roster if the stream or a later pull carried one since the subscription. This is what
\* the resync after Lagged ("Status + Roster suffices") and the snapshot of a fresh
\* subscription are for.
MirrorConverges ==
    Drained => (pub.st => mirror.st = real.st) /\ (pub.ro => mirror.ro = real.ro)

\* "the event thread will keep them fresh from here on": the same without those
\* conditions.
MirrorFresh == (Drained /\ booted) => mirror = real

\* "hiding with no affordance would leave an invisible process": a hidden window has
\* a tray icon or a registered hotkey (the close check of update).
WayBack == (gui = "run" /\ ~shell.shown) => (shell.tray \/ shell.key)

\* While the GUI runs, an agent that died comes back.
AgentBack == (gui = "run" /\ agent = "down") ~> (agent = "up" \/ gui # "run")

\* A pairing and a search end, with a result or an error, and can be started again.
WorkEnds == \A k \in Tasks : (gui = "run" /\ work[k].is # "none") ~> (work[k].is = "none" \/ gui # "run")

\* An agent that accepted the Shutdown of a quitting GUI ends and is not started
\* again by the event thread, which loses its stream by that: "so nothing lingers".
QuitIsFinal == (agent = "exiting" /\ ev = "stream") ~> [](agent = "down" /\ gui = "gone")
=============================================================================
