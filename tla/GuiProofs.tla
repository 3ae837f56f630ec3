----------------------------- MODULE GuiProofs -----------------------------
(***************************************************************************)
(* Proofs about the desktop GUI: its types, and that what it shows is what *)
(* the agent has, once a stream that carried it is drained; for any size   *)
(* of the bus and any number of events, faults and user actions.           *)
(***************************************************************************)
EXTENDS Gui, SequenceTheorems, WellFoundedInduction, TLAPS

(* ---------------------------------------------------------------------- *)
(* The invariants                                                          *)
(* ---------------------------------------------------------------------- *)

\* The last event of kind k in q tells what r is.
Tells(q, k, r) ==
    \E i \in 1 .. Len(q) : q[i] = Event(k, r) /\ \A j \in 1 .. Len(q) : j > i => q[j].k # k

\* What has not left the bus ends with the present state, or does not speak of it;
InBus(k) == Tells(sub.q, k, real) \/ Silent(sub.q, k)

\* ... and if it does not, and the connection did not lag, then what is on the way to
\* the UI ends with it, or does not speak of it either and the UI shows it.
OnTheWay(k, shown) ==
    ~sub.lag /\ Silent(sub.q, k) => Tells(pipe, k, real) \/ (Silent(pipe, k) /\ shown)

\* A roster that was sent since the subscription is published.
Stream ==
    sub.on => /\ pub.st => InBus("status") /\ OnTheWay("status", mirror.st = real.st)
              /\ pub.ro => InBus("roster") /\ OnTheWay("roster", mirror.ro = real.ro)
              /\ ~pub.ro => Silent(sub.q, "roster")

IndInv == TypeOK /\ Stream

(* ---------------------------------------------------------------------- *)
(* Streams of events                                                       *)
(* ---------------------------------------------------------------------- *)

States == [st : Status, ro : Rosters]

\* An event is well-typed and says what it is about.
LEMMA EventType ==
    ASSUME NEW k \in Kinds, NEW r \in States
    PROVE  /\ Event(k, r) \in Events /\ Event(k, r).k = k
           /\ k = "status" => Event(k, r).st = r.st
           /\ k = "roster" => Event(k, r).ro = r.ro
BY GuiAssumption DEF Event, Events, Kinds, States, Status, Default

\* A status event tells nothing of the roster, nor a roster event of the status.
LEMMA EventSame ==
    ASSUME NEW r, NEW x
    PROVE  /\ r.st = x.st => Event("status", r) = Event("status", x)
           /\ r.ro = x.ro => Event("roster", r) = Event("roster", x)
BY DEF Event

\* What a stream tells after Append and Tail.
LEMMA TellsAppend ==
    ASSUME NEW q \in Seq(Events), NEW e \in Events, NEW k, NEW r
    PROVE  /\ Silent(q, k) /\ e.k # k => Silent(Append(q, e), k)
           /\ Silent(Append(q, e), k) => Silent(q, k) /\ e.k # k
           /\ e = Event(k, r) => Tells(Append(q, e), k, r)
           /\ Tells(q, k, r) /\ e.k # k => Tells(Append(q, e), k, r)
<1>1. /\ Len(q) \in Nat /\ Len(Append(q, e)) = Len(q) + 1
      /\ \A i \in 1 .. (Len(q) + 1) : Append(q, e)[i] = IF i <= Len(q) THEN q[i] ELSE e
  OBVIOUS
<1> HIDE DEF Events
<1>2. ASSUME NEW i \in 1 .. Len(q) PROVE i \in 1 .. Len(Append(q, e)) /\ Append(q, e)[i] = q[i]
  BY <1>1
<1>3. ASSUME NEW i \in 1 .. Len(Append(q, e))
      PROVE  (i \in 1 .. Len(q) /\ Append(q, e)[i] = q[i]) \/ (i = Len(q) + 1 /\ Append(q, e)[i] = e)
  BY <1>1
<1>4. Len(q) + 1 \in 1 .. Len(Append(q, e)) /\ Append(q, e)[Len(q) + 1] = e
  BY <1>1
<1>5. \A i \in 1 .. Len(Append(q, e)) : ~(i > Len(q) + 1)
  BY <1>1
<1>6. Silent(q, k) /\ e.k # k => Silent(Append(q, e), k)
  BY <1>3 DEF Silent
<1>7. Silent(Append(q, e), k) => Silent(q, k) /\ e.k # k
  BY <1>2, <1>4 DEF Silent
<1>8. e = Event(k, r) => Tells(Append(q, e), k, r)
  BY <1>4, <1>5 DEF Tells
<1>9. Tells(q, k, r) /\ e.k # k => Tells(Append(q, e), k, r)
  BY <1>2, <1>3 DEF Tells
<1> QED
  BY <1>6, <1>7, <1>8, <1>9

\* What reading the oldest event of a stream leaves: a stream of events, and what the
\* rest tells.
LEMMA TellsTail ==
    ASSUME NEW q \in Seq(Events), q # << >>, NEW k, NEW r, Event(k, r).k = k
    PROVE  /\ Head(q) \in Events /\ Tail(q) \in Seq(Events)
           /\ Silent(q, k) => Head(q).k # k /\ Silent(Tail(q), k)
           /\ Tells(q, k, r) => \/ Tells(Tail(q), k, r)
                                \/ Head(q) = Event(k, r) /\ Silent(Tail(q), k)
<1>1. /\ Head(q) = q[1] /\ Head(q) \in Events /\ Tail(q) \in Seq(Events) /\ Len(Tail(q)) = Len(q) - 1
      /\ Len(q) \in Nat /\ Len(q) > 0
      /\ \A i \in 1 .. (Len(q) - 1) : Tail(q)[i] = q[i + 1]
  OBVIOUS
<1> HIDE DEF Events
<1>2. ASSUME NEW i \in 1 .. Len(q) PROVE i = 1 \/ (i - 1 \in 1 .. Len(Tail(q)) /\ Tail(q)[i - 1] = q[i])
  BY <1>1
<1>3. ASSUME NEW i \in 1 .. Len(Tail(q)) PROVE i + 1 \in 1 .. Len(q) /\ Tail(q)[i] = q[i + 1] /\ i + 1 > 1
  BY <1>1
<1>4. 1 \in 1 .. Len(q)
  BY <1>1
<1>5. Silent(q, k) => Head(q).k # k /\ Silent(Tail(q), k)
  BY <1>1, <1>3, <1>4 DEF Silent
<1>6. ASSUME Tells(q, k, r)
      PROVE  Tells(Tail(q), k, r) \/ (Head(q) = Event(k, r) /\ Silent(Tail(q), k))
  <2>1. PICK i \in 1 .. Len(q) : q[i] = Event(k, r) /\ \A j \in 1 .. Len(q) : j > i => q[j].k # k
    BY <1>6 DEF Tells
  <2>2. CASE i = 1
    BY <1>1, <1>3, <2>1, <2>2 DEF Silent
  <2>3. CASE i # 1
    <3>1. i - 1 \in 1 .. Len(Tail(q)) /\ Tail(q)[i - 1] = Event(k, r)
      BY <1>2, <2>1, <2>3
    <3>2. ASSUME NEW j \in 1 .. Len(Tail(q)), j > i - 1 PROVE Tail(q)[j].k # k
      <4>1. j + 1 > i
        BY <1>1, <3>2
      <4> QED
        BY <1>3, <2>1, <4>1
    <3> QED
      BY <3>1, <3>2 DEF Tells
  <2> QED
    BY <2>2, <2>3
<1> QED
  BY <1>1, <1>5, <1>6

\* A stream is cut into its first n events and what is left.
Cut(q, n, p, l) ==
    q \in Seq(Events) /\ n \in 0 .. Len(q) /\ p = SubSeq(q, 1, n) /\ l = SubSeq(q, n + 1, Len(q))

\* What the two parts of a stream tell.
LEMMA TellsSplit ==
    ASSUME NEW q, NEW n, NEW p, NEW l, Cut(q, n, p, l), NEW k, NEW r
    PROVE  /\ p \in Seq(Events) /\ l \in Seq(Events) /\ Len(l) <= Len(q)
           /\ Silent(q, k) => Silent(p, k) /\ Silent(l, k)
           /\ Tells(q, k, r) => Tells(l, k, r) \/ (Silent(l, k) /\ Tells(p, k, r))
<1>0. q \in Seq(Events) /\ n \in 0 .. Len(q) /\ p = SubSeq(q, 1, n) /\ l = SubSeq(q, n + 1, Len(q))
  BY DEF Cut
<1>1. /\ Len(q) \in Nat /\ p \in Seq(Events) /\ l \in Seq(Events)
      /\ Len(p) = n /\ \A i \in 1 .. n : p[i] = q[i]
      /\ Len(l) = Len(q) - n /\ \A i \in 1 .. (Len(q) - n) : l[i] = q[n + i]
  BY <1>0, SubSeqProperties
<1> HIDE DEF Events
<1>2. ASSUME NEW i \in 1 .. Len(p) PROVE i \in 1 .. Len(q) /\ p[i] = q[i] /\ i <= n
  BY <1>0, <1>1
<1>3. ASSUME NEW i \in 1 .. Len(l) PROVE n + i \in 1 .. Len(q) /\ l[i] = q[n + i] /\ n + i > n
  BY <1>0, <1>1
<1>4. ASSUME NEW i \in 1 .. Len(q)
      PROVE  (i \in 1 .. Len(p) /\ i <= n) \/ (i > n /\ i - n \in 1 .. Len(l) /\ l[i - n] = q[i])
  BY <1>0, <1>1
<1>5. Silent(q, k) => Silent(p, k) /\ Silent(l, k)
  BY <1>2, <1>3 DEF Silent
<1>6. ASSUME Tells(q, k, r) PROVE Tells(l, k, r) \/ (Silent(l, k) /\ Tells(p, k, r))
  <2>1. PICK i \in 1 .. Len(q) : q[i] = Event(k, r) /\ \A j \in 1 .. Len(q) : j > i => q[j].k # k
    BY <1>6 DEF Tells
  <2>2. CASE i \in 1 .. Len(p) /\ i <= n
    <3>1. Tells(p, k, r)
      BY <1>2, <2>1, <2>2 DEF Tells
    <3>2. ASSUME NEW j \in 1 .. Len(l) PROVE l[j].k # k
      <4>1. n + j > i
        BY <1>0, <1>1, <2>2
      <4> QED
        BY <1>3, <2>1, <4>1
    <3> QED
      BY <3>1, <3>2 DEF Silent
  <2>3. CASE i > n /\ i - n \in 1 .. Len(l) /\ l[i - n] = q[i]
    <3>1. ASSUME NEW j \in 1 .. Len(l), j > i - n PROVE l[j].k # k
      <4>1. n + j > i
        BY <1>0, <1>1, <2>3, <3>1
      <4> QED
        BY <1>3, <2>1, <4>1
    <3> QED
      BY <2>1, <2>3, <3>1 DEF Tells
  <2> QED
    BY <1>4, <2>2, <2>3
<1> QED
  BY <1>0, <1>1, <1>5, <1>6

\* The newest event of a kind is the one that tells the state.
LEMMA NewestTells ==
    ASSUME NEW q \in Seq(Events), NEW k, NEW r, Tells(q, k, r), Event(k, r).k = k
    PROVE  ~Silent(q, k) /\ q[Newest(q, k)] = Event(k, r)
<1>1. PICK i \in 1 .. Len(q) : q[i] = Event(k, r) /\ \A j \in 1 .. Len(q) : j > i => q[j].k # k
  BY DEF Tells
<1>2. q[i].k = k /\ Len(q) \in Nat
  BY <1>1
<1> HIDE DEF Events
<1>3. Newest(q, k) \in 1 .. Len(q) /\ q[Newest(q, k)].k = k
      /\ \A j \in 1 .. Len(q) : j > Newest(q, k) => q[j].k # k
  BY <1>1, <1>2 DEF Newest
<1>4. ~(Newest(q, k) > i) /\ ~(i > Newest(q, k))
  BY <1>1, <1>2, <1>3
<1>5. Newest(q, k) = i
  BY <1>2, <1>3, <1>4
<1> QED
  BY <1>1, <1>2, <1>5 DEF Silent

\* After a resync the stream ends with the present status and roster.
LEMMA ResyncTells ==
    ASSUME NEW q \in Seq(Events), real \in States
    PROVE  /\ q \o Resync \in Seq(Events) /\ Len(q \o Resync) = Len(q) + 2
           /\ Tells(q \o Resync, "status", real) /\ Tells(q \o Resync, "roster", real)
<1> DEFINE a == Event("status", real)
           b == Event("roster", real)
<1>1. a \in Events /\ b \in Events /\ a.k = "status" /\ b.k = "roster"
  BY EventType DEF Kinds
<1>2. Resync = <<a, b>>
  BY DEF Resync
<1> HIDE DEF a, b, Events
<1>3. q \o <<a, b>> = Append(Append(q, a), b) /\ Append(q, a) \in Seq(Events)
  BY <1>1
<1>4. Tells(Append(q, a), "status", real)
  BY <1>1, TellsAppend DEF a
<1>5. /\ Tells(Append(Append(q, a), b), "status", real) /\ Tells(Append(Append(q, a), b), "roster", real)
      /\ Append(Append(q, a), b) \in Seq(Events) /\ Len(Append(Append(q, a), b)) = Len(q) + 2
  <2>1. "roster" # "status"
    OBVIOUS
  <2>2. Tells(Append(Append(q, a), b), "status", real)
    BY <1>1, <1>3, <1>4, <2>1, TellsAppend
  <2>3. Tells(Append(Append(q, a), b), "roster", real)
    BY <1>1, <1>3, TellsAppend DEF b
  <2>4. Append(Append(q, a), b) \in Seq(Events) /\ Len(Append(Append(q, a), b)) = Len(q) + 2
    BY <1>1, <1>3
  <2> QED
    BY <2>2, <2>3, <2>4
<1> QED
  BY <1>2, <1>3, <1>5

\* A set of numbers has a least one.
LEMMA LeastNat ==
    ASSUME NEW T, T \subseteq Nat, T # {}
    PROVE  \E x \in T : \A y \in T : x <= y
<1> DEFINE R == OpToRel(<, Nat)
<1>1. IsWellFoundedOn(R, Nat)
  BY NatLessThanWellFounded
<1>2. \A x, y \in Nat : y < x => <<y, x>> \in R
  BY DEF OpToRel
<1> HIDE DEF R
<1>3. PICK x \in T : \A y \in T : ~(<<y, x>> \in R)
  BY <1>1, WFMin
<1>4. \A y \in T : ~(y < x)
  BY <1>2, <1>3
<1> QED
  BY <1>3, <1>4

\* A stream that speaks of k has a newest event of that kind.
LEMMA NewestType ==
    ASSUME NEW q \in Seq(Events), NEW k, ~Silent(q, k)
    PROVE  q[Newest(q, k)] \in Events
<1> DEFINE T == {n \in Nat : \E i \in 1 .. Len(q) : q[i].k = k /\ n = Len(q) - i}
<1>1. PICK i \in 1 .. Len(q) : q[i].k = k
  BY DEF Silent
<1>2. Len(q) \in Nat /\ Len(q) - i \in T
  BY <1>1
<1>3. PICK n \in T : \A m \in T : n <= m
  BY <1>2, LeastNat
<1>4. PICK l \in 1 .. Len(q) : q[l].k = k /\ n = Len(q) - l
  BY <1>3
<1>5. ASSUME NEW j \in 1 .. Len(q), j > l PROVE q[j].k # k
  <2>1. CASE q[j].k = k
    <3>1. Len(q) - j \in T
      BY <1>2, <2>1
    <3>2. n <= Len(q) - j
      BY <1>3, <3>1
    <3> QED
      BY <1>2, <1>4, <1>5, <3>2
  <2> QED
    BY <2>1
<1>6. Newest(q, k) \in 1 .. Len(q)
  BY <1>4, <1>5 DEF Newest
<1> QED
  BY <1>6

\* The mirror that a frame leaves holds a status and a roster.
LEMMA AdoptType ==
    ASSUME NEW m \in States, NEW q \in Seq(Events)
    PROVE  Adopt(m, q) \in States
<1>1. \A e \in Events : e.st \in Status /\ e.ro \in Rosters
  BY DEF Events
<1>2. m.st \in Status /\ m.ro \in Rosters
  BY DEF States
<1>3. ~Silent(q, "status") => q[Newest(q, "status")] \in Events
  BY NewestType
<1>4. ~Silent(q, "roster") => q[Newest(q, "roster")] \in Events
  BY NewestType
<1> HIDE DEF Status, Events
<1> QED
  BY <1>1, <1>2, <1>3, <1>4 DEF Adopt, States

(* ---------------------------------------------------------------------- *)
(* Types                                                                   *)
(* ---------------------------------------------------------------------- *)

Subs == [on : BOOLEAN, q : Seq(Events), lag : BOOLEAN]
Works == [Tasks -> [is : {"none", "sent", "ok", "err"}, st : Status]]

\* The initial values have the types of their variables.
LEMMA DefaultTypes ==
    /\ Default \in Status /\ NoWork \in [is : {"none", "sent", "ok", "err"}, st : Status]
    /\ NoSub \in Subs /\ NoSub.q = << >> /\ ~NoSub.on /\ ~NoSub.lag
    /\ [st |-> Default, ro |-> NoRoster] \in States
<1>1. Default \in Status
  BY DEF Default, Status
<1> HIDE DEF Status, Events, Default
<1>2. NoSub \in Subs /\ NoSub.q = << >> /\ ~NoSub.on /\ ~NoSub.lag
  BY DEF NoSub, Subs
<1>3. NoWork \in [is : {"none", "sent", "ok", "err"}, st : Status]
  BY <1>1 DEF NoWork
<1>4. [st |-> Default, ro |-> NoRoster] \in States
  BY <1>1, GuiAssumption DEF States
<1> QED
  BY <1>1, <1>2, <1>3, <1>4

\* The bus after an event.
LEMMA SentType ==
    ASSUME sub \in Subs, Len(sub.q) <= Cap, NEW e \in Events
    PROVE  /\ Sent(e) \in Subs /\ Len(Sent(e).q) <= Cap /\ Sent(e).on = sub.on
           /\ sub.on => \/ Sent(e).q = Append(sub.q, e) /\ Sent(e).lag = sub.lag
                        \/ sub.q # << >> /\ Sent(e).q = Append(Tail(sub.q), e) /\ Sent(e).lag
<1>0. Cap \in Nat \ {0} /\ sub.q \in Seq(Events) /\ Len(sub.q) \in Nat /\ sub.on \in BOOLEAN /\ sub.lag \in BOOLEAN
  BY GuiAssumption DEF Subs
<1> HIDE DEF Events
<1>1. CASE ~sub.on
  BY <1>1 DEF Sent
<1>2. CASE sub.on /\ Len(sub.q) < Cap
  <2>1. Sent(e) = [sub EXCEPT !.q = Append(@, e)]
    BY <1>2 DEF Sent
  <2>2. Append(sub.q, e) \in Seq(Events) /\ Len(Append(sub.q, e)) <= Cap
    BY <1>0, <1>2
  <2> QED
    BY <1>0, <2>1, <2>2 DEF Subs
<1>3. CASE sub.on /\ ~(Len(sub.q) < Cap)
  <2>1. Sent(e) = [sub EXCEPT !.q = Append(Tail(@), e), !.lag = TRUE]
    BY <1>3 DEF Sent
  <2>2. sub.q # << >> /\ Len(sub.q) = Cap
    BY <1>0, <1>3
  <2>3. Tail(sub.q) \in Seq(Events) /\ Len(Tail(sub.q)) = Cap - 1
    BY <1>0, <2>2
  <2>4. Append(Tail(sub.q), e) \in Seq(Events) /\ Len(Append(Tail(sub.q), e)) <= Cap
    BY <1>0, <2>3
  <2> QED
    BY <1>0, <2>1, <2>2, <2>4 DEF Subs
<1> QED
  BY <1>0, <1>1, <1>2, <1>3

\* The fields of a state after one of them was changed.
LEMMA StateExcept ==
    ASSUME NEW r \in States, NEW o \in Rosters, NEW b \in BOOLEAN
    PROVE  /\ [r EXCEPT !.st.conn = ~@] \in States /\ [r EXCEPT !.st.conn = ~@].ro = r.ro
           /\ [r EXCEPT !.ro = o] \in States /\ [r EXCEPT !.ro = o].st = r.st /\ [r EXCEPT !.ro = o].ro = o
           /\ [r EXCEPT !.st.set = b] \in States /\ [r EXCEPT !.st.set = b].ro = r.ro
           /\ [r EXCEPT !.st.set = b].st = [r.st EXCEPT !.set = b]
           /\ [st |-> [conn |-> FALSE, set |-> b], ro |-> NoRoster] \in States
           /\ [r.st EXCEPT !.set = b] \in Status
<1>1. r.st \in Status /\ r.ro \in Rosters /\ r = [st |-> r.st, ro |-> r.ro]
  BY DEF States
<1>2. [r.st EXCEPT !.set = b] \in Status /\ [r.st EXCEPT !.conn = ~@] \in Status /\ [conn |-> FALSE, set |-> b] \in Status
  BY <1>1 DEF Status
<1>3. [r EXCEPT !.st.conn = ~@] = [st |-> [r.st EXCEPT !.conn = ~@], ro |-> r.ro]
  BY DEF States, Status
<1>4. [r EXCEPT !.st.set = b] = [st |-> [r.st EXCEPT !.set = b], ro |-> r.ro]
  BY DEF States, Status
<1>5. [r EXCEPT !.ro = o] = [st |-> r.st, ro |-> o]
  BY DEF States, Status
<1> HIDE DEF Status
<1> QED
  BY <1>1, <1>2, <1>3, <1>4, <1>5, GuiAssumption DEF States

\* The type invariant in terms of the sets above.
Typed ==
    /\ gui \in {"start", "wait", "glow", "wgpu", "run", "quit", "gone"}
    /\ shell \in [shown : BOOLEAN, drawing : BOOLEAN, tray : BOOLEAN, mgr : BOOLEAN, key : BOOLEAN]
    /\ booted \in BOOLEAN /\ ask \in BOOLEAN
    /\ mirror \in States /\ real \in States /\ work \in Works
    /\ ev \in {"none", "connect", "stream", "lost", "sleep", "over", "wait"}
    /\ agent \in {"down", "starting", "up", "exiting"}
    /\ sub \in Subs /\ Len(sub.q) <= Cap
    /\ pipe \in Seq(Events) /\ Len(pipe) <= PipeMax
    /\ pub \in [st : BOOLEAN, ro : BOOLEAN]
    /\ acts \in 0 .. MaxActs /\ events \in 0 .. MaxEvents

\* Typed spells the type invariant out with the named sets.
LEMMA TypedIs == TypeOK <=> Typed
BY DEF TypeOK, Typed, States, Subs, Works

\* The counters stay within their bounds.
LEMMA CounterType ==
    ASSUME acts \in 0 .. MaxActs, events \in 0 .. MaxEvents, Acts \/ Happens \/ UNCHANGED <<acts, events>>
    PROVE  acts' \in 0 .. MaxActs /\ events' \in 0 .. MaxEvents
BY GuiAssumption DEF Acts, Happens

\* Every step keeps the types: steps of the agent,
LEMMA AgentTyped ==
    ASSUME Typed, \/ EngineEvent \/ Forward \/ AgentUp \/ AgentCrash \/ AgentExit \/ Shutdown
                  \/ \E k \in Tasks : Served(k)
    PROVE  Typed'
<1>1. CASE EngineEvent
  <2>1. ASSUME NEW k \in Kinds, NEW r \in States, Emit(k, r)
        PROVE  real' \in States /\ sub' \in Subs /\ Len(sub'.q) <= Cap /\ pub' \in [st : BOOLEAN, ro : BOOLEAN]
    <3>1. sub' = Sent(Event(k, r)) /\ Event(k, r) \in Events /\ real' = r
      BY <2>1, EventType DEF Emit
    <3>2. sub' \in Subs /\ Len(sub'.q) <= Cap
      BY <3>1, SentType DEF Typed
    <3>3. pub' \in [st : BOOLEAN, ro : BOOLEAN]
      BY <2>1 DEF Emit
    <3> QED
      BY <3>1, <3>2, <3>3
  <2>2. /\ [real EXCEPT !.st.conn = ~@] \in States /\ real \in States
        /\ \A r \in Rosters : [real EXCEPT !.ro = r] \in States
    <3>1. real \in States /\ NoRoster \in Rosters /\ TRUE \in BOOLEAN
      BY GuiAssumption DEF Typed
    <3>2. [real EXCEPT !.st.conn = ~@] \in States
      BY <3>1, StateExcept
    <3>3. ASSUME NEW r \in Rosters PROVE [real EXCEPT !.ro = r] \in States
      BY <3>1, StateExcept
    <3> QED
      BY <3>1, <3>2, <3>3
  <2>3. real' \in States /\ sub' \in Subs /\ Len(sub'.q) <= Cap /\ pub' \in [st : BOOLEAN, ro : BOOLEAN]
    BY <1>1, <2>1, <2>2 DEF EngineEvent, Kinds
  <2>4. acts' \in 0 .. MaxActs /\ events' \in 0 .. MaxEvents
    BY <1>1, CounterType DEF EngineEvent, Typed
  <2> QED
    BY <1>1, <2>3, <2>4 DEF EngineEvent, Typed
<1>2. CASE Forward
  <2>0. /\ sub.q \in Seq(Events) /\ Len(sub.q) \in Nat /\ Len(sub.q) <= Cap /\ pipe \in Seq(Events) /\ PipeMax \in Nat
        /\ Len(pipe) \in Nat /\ real \in States /\ Cap \in Nat
    BY GuiAssumption DEF Typed, Subs
  <2>1. CASE /\ sub.lag /\ Len(pipe) + 1 < PipeMax
             /\ pipe' = pipe \o Resync
             /\ sub' = [sub EXCEPT !.lag = FALSE]
             /\ pub' = [pub EXCEPT !.st = @ \/ Silent(sub.q, "status"), !.ro = TRUE]
    <3>1. pipe' \in Seq(Events) /\ Len(pipe') <= PipeMax
      BY <2>0, <2>1, ResyncTells
    <3>2. sub' \in Subs /\ sub'.q = sub.q
      BY <2>1 DEF Typed, Subs
    <3>3. pub' \in [st : BOOLEAN, ro : BOOLEAN]
      BY <2>1 DEF Typed, Silent
    <3> QED
      BY <1>2, <2>0, <3>1, <3>2, <3>3 DEF Forward, Typed
  <2>2. CASE /\ ~sub.lag /\ sub.q # << >>
             /\ pipe' = Append(pipe, Head(sub.q))
             /\ sub' = [sub EXCEPT !.q = Tail(@)]
             /\ UNCHANGED pub
    <3>1. Head(sub.q) \in Events /\ Tail(sub.q) \in Seq(Events) /\ Len(Tail(sub.q)) <= Cap
      BY <2>0, <2>2
    <3>2. pipe' \in Seq(Events) /\ Len(pipe') <= PipeMax
      BY <1>2, <2>0, <2>2, <3>1 DEF Forward
    <3>3. sub' \in Subs /\ sub'.q = Tail(sub.q)
      BY <2>2, <3>1 DEF Typed, Subs
    <3> QED
      BY <1>2, <2>2, <3>1, <3>2, <3>3 DEF Forward, Typed
  <2> QED
    BY <1>2, <2>1, <2>2 DEF Forward
<1>3. CASE AgentUp \/ Shutdown
  BY <1>3 DEF AgentUp, Shutdown, Typed
<1>4. CASE AgentCrash \/ AgentExit
  <2>1. acts' \in 0 .. MaxActs /\ events' \in 0 .. MaxEvents
    BY <1>4, CounterType DEF AgentCrash, AgentExit, Typed
  <2>2. AgentGone
    BY <1>4 DEF AgentCrash, AgentExit
  <2>3. real' \in States
    <3>1. real.st.set \in BOOLEAN /\ Default.set \in BOOLEAN
      BY DEF Typed, States, Status, Default
    <3> QED
      <4>1. real \in States /\ NoRoster \in Rosters
        BY GuiAssumption DEF Typed
      <4>2. PICK b \in BOOLEAN : real' = [st |-> [conn |-> FALSE, set |-> b], ro |-> NoRoster]
        BY <2>2, <3>1 DEF AgentGone
      <4> QED
        BY <4>1, <4>2, StateExcept
  <2>4. pipe' \in Seq(Events) /\ Len(pipe') <= PipeMax
    <3>1. PICK n \in 0 .. Len(pipe) : pipe' = SubSeq(pipe, 1, n)
      BY <2>2 DEF AgentGone
    <3>2. pipe \in Seq(Events) /\ Len(pipe) \in Nat /\ Len(pipe) <= PipeMax /\ PipeMax \in Nat
      BY GuiAssumption DEF Typed
    <3>3. SubSeq(pipe, 1, n) \in Seq(Events) /\ Len(SubSeq(pipe, 1, n)) = n
      BY <3>2, SubSeqProperties
    <3> QED
      BY <3>1, <3>2, <3>3
  <2>5. work' \in Works
    BY <2>2 DEF AgentGone, Typed, Works
  <2>6. sub' \in Subs /\ Len(sub'.q) <= Cap
    BY <2>2, DefaultTypes, GuiAssumption DEF AgentGone
  <2>7. ev' \in {"none", "connect", "stream", "lost", "sleep", "over", "wait"}
    BY <2>2 DEF AgentGone, Typed
  <2> QED
    BY <2>1, <2>2, <2>3, <2>4, <2>5, <2>6, <2>7 DEF AgentGone, Typed
<1>5. ASSUME NEW k \in Tasks, Served(k) PROVE Typed'
  <2>1. [real EXCEPT !.st.set = TRUE] \in States /\ [real.st EXCEPT !.set = TRUE] \in Status
    BY StateExcept, GuiAssumption DEF Typed
  <2>2. real' \in States
    BY <1>5, <2>1 DEF Served, Typed
  <2>3. work' \in Works
    <3>1. work \in Works /\ work[k] \in [is : {"none", "sent", "ok", "err"}, st : Status]
      BY DEF Typed, Works
    <3>2. PICK w \in [is : {"none", "sent", "ok", "err"}, st : Status] : work' = [work EXCEPT ![k] = w]
      <4>1. CASE work' = [work EXCEPT ![k] = [is |-> "ok", st |-> [real.st EXCEPT !.set = TRUE]]]
        BY <2>1, <4>1
      <4>2. CASE work' = [work EXCEPT ![k].is = IF k = "pair" THEN "err" ELSE "ok"]
        <5>1. [work[k] EXCEPT !.is = IF k = "pair" THEN "err" ELSE "ok"] \in [is : {"none", "sent", "ok", "err"}, st : Status]
          BY <3>1
        <5> QED
          BY <4>2, <5>1
      <4> QED
        BY <1>5, <4>1, <4>2 DEF Served
    <3> QED
      BY <3>1, <3>2 DEF Works
  <2>4. pub' \in [st : BOOLEAN, ro : BOOLEAN]
    BY <1>5 DEF Served, Typed
  <2> QED
    BY <1>5, <2>2, <2>3, <2>4 DEF Served, Typed
<1> QED
  BY <1>1, <1>2, <1>3, <1>4, <1>5

\* ... of the event thread, of the start and the end of the GUI,
LEMMA ProcessTyped ==
    ASSUME Typed, \/ Launch \/ Window \/ RendererFails \/ EventThread \/ QuitAsk \/ QuitExit \/ UNCHANGED vars
    PROVE  Typed'
<1>1. CASE Launch \/ Pause \/ Revive \/ QuitAsk
  BY <1>1 DEF Launch, Pause, Revive, QuitAsk, Ensured, Typed
<1>2. CASE Window
  <2>1. shell' \in [shown : BOOLEAN, drawing : BOOLEAN, tray : BOOLEAN, mgr : BOOLEAN, key : BOOLEAN]
    BY <1>2 DEF Window, Typed
  <2> QED
    BY <1>2, <2>1 DEF Window, Typed
<1>3. CASE RendererFails \/ QuitExit
  <2>1. acts' \in 0 .. MaxActs /\ events' \in 0 .. MaxEvents
    BY <1>3, CounterType DEF RendererFails, QuitExit, Typed
  <2>2. CASE GuiGone
    <3>1. sub' \in Subs /\ Len(sub'.q) <= Cap /\ pipe' \in Seq(Events) /\ Len(pipe') <= PipeMax
      BY <2>2, DefaultTypes, GuiAssumption DEF GuiGone
    <3>2. work' \in Works
      BY <2>2, DefaultTypes DEF GuiGone, Works
    <3> QED
      BY <2>1, <2>2, <3>1, <3>2 DEF GuiGone, Typed
  <2>3. CASE ~GuiGone
    BY <1>3, <2>1, <2>3 DEF RendererFails, QuitExit, Typed
  <2> QED
    BY <2>2, <2>3
<1>4. CASE Subscribe
  <2>1. CASE /\ Reachable /\ Len(pipe) < PipeMax
             /\ ev' = "stream"
             /\ sub' = [NoSub EXCEPT !.on = TRUE]
             /\ pipe' = Append(pipe, Event("status", real))
             /\ pub' = [st |-> TRUE, ro |-> FALSE]
    <3>1. Event("status", real) \in Events
      BY EventType DEF Typed, Kinds
    <3>2. pipe' \in Seq(Events) /\ Len(pipe') <= PipeMax
      <4>1. pipe \in Seq(Events) /\ Len(pipe) \in Nat /\ PipeMax \in Nat
        BY GuiAssumption DEF Typed
      <4> QED
        BY <2>1, <3>1, <4>1
    <3>3. sub' \in Subs /\ Len(sub'.q) <= Cap
      <4>1. sub' = [NoSub EXCEPT !.on = TRUE] /\ NoSub \in Subs /\ NoSub.q = << >> /\ Cap \in Nat
        BY <2>1, DefaultTypes, GuiAssumption
      <4>2. sub' \in Subs /\ sub'.q = << >>
        BY <4>1 DEF Subs
      <4> QED
        BY <4>1, <4>2
    <3> QED
      BY <1>4, <2>1, <3>2, <3>3 DEF Subscribe, Typed
  <2>2. CASE ~Reachable /\ ev' = "lost" /\ UNCHANGED <<sub, pipe, pub>>
    BY <1>4, <2>2 DEF Subscribe, Typed
  <2> QED
    BY <1>4, <2>1, <2>2 DEF Subscribe
<1>5. CASE UNCHANGED vars
  BY <1>5 DEF vars, Typed
<1> QED
  BY <1>1, <1>2, <1>3, <1>4, <1>5 DEF EventThread

\* ... and of the UI thread.
LEMMA FrameTyped ==
    ASSUME Typed, \/ Update \/ Toggle \/ ApplyHotkey \/ Close \/ ShellEvent
                  \/ \E k \in Tasks : StartWork(k)
    PROVE  Typed'
<1>1. CASE Update
  <2>0. /\ pipe \in Seq(Events) /\ real \in States /\ mirror \in States /\ work \in Works
        /\ Len(pipe) \in Nat /\ Len(pipe) <= PipeMax /\ PipeMax \in Nat
    BY GuiAssumption DEF Typed
  <2>1. PICK n \in 0 .. Len(pipe) :
          /\ mirror' = Shown(n) /\ pipe' = SubSeq(pipe, n + 1, Len(pipe))
          /\ pub' = [st |-> pub.st /\ work["pair"].is # "ok", ro |-> pub.ro \/ RosterPulled(pipe')]
    BY <1>1 DEF Update
  <2>2. SubSeq(pipe, 1, n) \in Seq(Events) /\ pipe' \in Seq(Events) /\ Len(pipe') <= PipeMax
    <3>1. PICK p, l : p = SubSeq(pipe, 1, n) /\ l = SubSeq(pipe, n + 1, Len(pipe))
      OBVIOUS
    <3>2. p \in Seq(Events) /\ l \in Seq(Events) /\ Len(l) <= Len(pipe)
      <4>1. PICK q : q = pipe
        OBVIOUS
      <4>2. Cut(q, n, p, l)
        BY <2>0, <2>1, <3>1, <4>1 DEF Cut
      <4>3. p \in Seq(Events) /\ l \in Seq(Events) /\ Len(l) <= Len(q)
        BY <4>2, TellsSplit
      <4> QED
        BY <4>1, <4>3
    <3>3. Len(l) <= PipeMax
      BY <2>0, <3>2
    <3> QED
      BY <2>1, <3>1, <3>2, <3>3
  <2>3. Bootstrapped(mirror) \in States
    BY <2>0 DEF Bootstrapped
  <2>4. PICK m \in States : m = Adopt(Bootstrapped(mirror), SubSeq(pipe, 1, n))
    BY <2>2, <2>3, AdoptType
  <2>5. mirror' \in States
    <3>1. mirror' = PairPolled(m)
      BY <2>1, <2>4 DEF Shown
    <3>2. work["pair"].st \in Status /\ real.ro \in Rosters /\ m.ro \in Rosters
      BY <2>0 DEF Works, States, Tasks
    <3> QED
      BY <3>1, <3>2, <2>4 DEF PairPolled, States
  <2>6. work' \in Works
    <3>1. \A w \in [is : {"none", "sent", "ok", "err"}, st : Status] :
            Polled(w) \in [is : {"none", "sent", "ok", "err"}, st : Status]
      BY DefaultTypes DEF Polled
    <3> QED
      BY <1>1, <2>0, <3>1 DEF Update, Works
  <2>7. pub' \in [st : BOOLEAN, ro : BOOLEAN]
    BY <2>1 DEF Typed, RosterPulled
  <2>8. shell' \in [shown : BOOLEAN, drawing : BOOLEAN, tray : BOOLEAN, mgr : BOOLEAN, key : BOOLEAN]
    BY <1>1 DEF Update, Typed
  <2> QED
    BY <1>1, <2>2, <2>5, <2>6, <2>7, <2>8 DEF Update, Typed
<1>a. ASSUME UserAct \/ Acts PROVE acts' \in 0 .. MaxActs /\ events' \in 0 .. MaxEvents
  BY <1>a, CounterType DEF UserAct, Typed
<1>2. CASE Toggle
  <2>0. mirror \in States /\ real \in States /\ NoRoster \in Rosters
    BY GuiAssumption DEF Typed
  <2>1. PICK b \in BOOLEAN : b = ~mirror.st.set
    OBVIOUS
  <2>2. mirror' = [mirror EXCEPT !.st.set = b] /\ (real' = real \/ real' = [real EXCEPT !.st.set = b])
    BY <1>2, <2>1 DEF Toggle
  <2>3. mirror' \in States /\ real' \in States
    <3>1. [mirror EXCEPT !.st.set = b] \in States
      BY <2>0, StateExcept
    <3>2. [real EXCEPT !.st.set = b] \in States
      BY <2>0, StateExcept
    <3> QED
      BY <2>0, <2>2, <3>1, <3>2
  <2>4. pub' \in [st : BOOLEAN, ro : BOOLEAN]
    BY <1>2 DEF Toggle, Typed
  <2>5. acts' \in 0 .. MaxActs /\ events' \in 0 .. MaxEvents
    BY <1>2, <1>a DEF Toggle
  <2> QED
    BY <1>2, <2>3, <2>4, <2>5 DEF Toggle, Typed
<1>3. CASE ApplyHotkey \/ Close \/ ShellEvent
  <2>1. shell' \in [shown : BOOLEAN, drawing : BOOLEAN, tray : BOOLEAN, mgr : BOOLEAN, key : BOOLEAN] /\ gui' \in {gui, "quit"}
    BY <1>3 DEF ApplyHotkey, Close, ShellEvent, Typed
  <2>2. acts' \in 0 .. MaxActs /\ events' \in 0 .. MaxEvents
    BY <1>3, <1>a DEF ApplyHotkey, Close, ShellEvent
  <2> QED
    BY <1>3, <2>1, <2>2 DEF ApplyHotkey, Close, ShellEvent, Typed
<1>4. ASSUME NEW k \in Tasks, StartWork(k) PROVE Typed'
  <2>1. acts' \in 0 .. MaxActs /\ events' \in 0 .. MaxEvents
    BY <1>4, <1>a DEF StartWork
  <2>2. work' \in Works
    <3>1. work \in Works /\ work[k] \in [is : {"none", "sent", "ok", "err"}, st : Status]
      BY DEF Typed, Works
    <3>2. [work[k] EXCEPT !.is = IF agent = "up" THEN "sent" ELSE "err"] \in [is : {"none", "sent", "ok", "err"}, st : Status]
      BY <3>1
    <3> QED
      BY <1>4, <3>1, <3>2 DEF StartWork, Works
  <2> QED
    BY <1>4, <2>1, <2>2 DEF StartWork, Typed
<1> QED
  BY <1>1, <1>2, <1>3, <1>4

(* ---------------------------------------------------------------------- *)
(* What the stream tells                                                   *)
(* ---------------------------------------------------------------------- *)

\* A stream tells of another state as long as that agrees on what it is about.
LEMMA TellsSame ==
    ASSUME NEW q, NEW r, NEW x
    PROVE  /\ r.st = x.st /\ Tells(q, "status", r) => Tells(q, "status", x)
           /\ r.ro = x.ro /\ Tells(q, "roster", r) => Tells(q, "roster", x)
<1>1. r.st = x.st => Event("status", r) = Event("status", x)
  BY EventSame
<1>2. r.ro = x.ro => Event("roster", r) = Event("roster", x)
  BY EventSame
<1> QED
  BY <1>1, <1>2 DEF Tells

\* Steps that leave the stream, and what it is about, alone.
LEMMA StreamAlone ==
    ASSUME Stream, UNCHANGED <<sub, pipe, pub>>,
           real'.st = real.st /\ real'.ro = real.ro, mirror'.st = mirror.st /\ mirror'.ro = mirror.ro
    PROVE  Stream'
<1>1. \A q : Tells(q, "status", real) => Tells(q, "status", real')
  BY TellsSame
<1>2. \A q : Tells(q, "roster", real) => Tells(q, "roster", real')
  BY TellsSame
<1> QED
  BY <1>1, <1>2 DEF Stream, InBus, OnTheWay

\* Steps that end the subscription.
LEMMA StreamOff == ASSUME ~sub'.on PROVE Stream'
BY DEF Stream

\* An event of kind k, with the state r that it tells, enters the bus.
LEMMA EmitStep ==
    ASSUME Typed, Stream, sub.on, NEW k \in Kinds, NEW r \in States, Emit(k, r), UNCHANGED <<pipe, mirror>>,
           k # "status" => r.st = real.st, k # "roster" => r.ro = real.ro
    PROVE  Stream'
<1>0. sub.q \in Seq(Events) /\ sub \in Subs /\ Len(sub.q) <= Cap /\ real \in States
  BY DEF Typed, Subs
<1>1. PICK e \in Events : e = Event(k, r) /\ e.k = k
  BY EventType
<1>2. /\ real' = r /\ sub' = Sent(e) /\ pub'.st = (pub.st \/ k = "status") /\ pub'.ro = (pub.ro \/ k = "roster")
  BY <1>1 DEF Emit
<1>3. \/ sub'.q = Append(sub.q, e) /\ sub'.lag = sub.lag
      \/ sub.q # << >> /\ sub'.q = Append(Tail(sub.q), e) /\ sub'.lag
  BY <1>0, <1>2, SentType
<1>4. PICK q \in Seq(Events) : sub'.q = Append(q, e) /\ (q = sub.q \/ (sub.q # << >> /\ q = Tail(sub.q)))
  <2>1. sub.q # << >> => Tail(sub.q) \in Seq(Events)
    BY <1>0
  <2> QED
    BY <1>0, <1>3, <2>1
<1> HIDE DEF Kinds
<1>5. ASSUME NEW x \in {"status", "roster"}, Tells(sub.q, x, real) \/ Silent(sub.q, x)
      PROVE  Tells(q, x, real) \/ Silent(q, x)
  <2>1. Event(x, real).k = x
    BY <1>0, EventType DEF Kinds
  <2>2. CASE q = sub.q
    BY <1>5, <2>2
  <2>3. CASE sub.q # << >> /\ q = Tail(sub.q)
    BY <1>0, <1>5, <2>1, <2>3, TellsTail
  <2> QED
    BY <1>4, <2>2, <2>3
<1>6. ASSUME NEW x \in {"status", "roster"}, x # k, Tells(q, x, real) \/ Silent(q, x)
      PROVE  Tells(sub'.q, x, real') \/ Silent(sub'.q, x)
  <2>1. Tells(q, x, real) => Tells(Append(q, e), x, real)
    BY <1>1, <1>6, TellsAppend
  <2>2. Silent(q, x) => Silent(Append(q, e), x)
    BY <1>1, <1>6, TellsAppend
  <2>3. Tells(Append(q, e), x, real) => Tells(Append(q, e), x, r)
    <3>1. CASE x = "status"
      BY <1>6, <3>1, TellsSame
    <3>2. CASE x = "roster"
      BY <1>6, <3>2, TellsSame
    <3> QED
      BY <3>1, <3>2
  <2> QED
    BY <1>2, <1>4, <1>6, <2>1, <2>2, <2>3
<1>7. Tells(sub'.q, k, real') /\ ~Silent(sub'.q, k)
  <2>1. Tells(Append(q, e), k, r)
    BY <1>1, TellsAppend
  <2>2. ~Silent(Append(q, e), k)
    BY <1>1, TellsAppend
  <2> QED
    BY <1>2, <1>4, <2>1, <2>2
<1>8. ASSUME NEW x \in {"status", "roster"}, x # k, ~sub'.lag, Silent(sub'.q, x)
      PROVE  ~sub.lag /\ Silent(sub.q, x)
  <2>1. sub'.q = Append(sub.q, e) /\ sub'.lag = sub.lag
    BY <1>3, <1>8
  <2>2. Silent(Append(sub.q, e), x)
    BY <1>8, <2>1
  <2>3. Silent(sub.q, x)
    BY <1>0, <2>2, TellsAppend
  <2> QED
    BY <1>8, <2>1, <2>3
<1>9. ASSUME Silent(sub.q, "roster"), k # "roster" PROVE Silent(sub'.q, "roster")
  <2>1. Silent(q, "roster")
    <3>1. CASE q = sub.q
      BY <1>9, <3>1
    <3>2. CASE sub.q # << >> /\ q = Tail(sub.q)
      <4>1. Event("roster", real).k = "roster"
        BY <1>0, EventType DEF Kinds
      <4> QED
        BY <1>0, <1>9, <3>2, <4>1, TellsTail
    <3> QED
      BY <1>4, <3>1, <3>2
  <2>2. Silent(Append(q, e), "roster")
    BY <1>1, <1>9, <2>1, TellsAppend
  <2> QED
    BY <1>4, <2>2
<1>10. pub'.st => InBus("status")' /\ OnTheWay("status", mirror.st = real.st)'
  <2>1. CASE k = "status"
    BY <1>7, <2>1 DEF InBus, OnTheWay
  <2>2. CASE k # "status" /\ pub.st
    <3>1. InBus("status") /\ OnTheWay("status", mirror.st = real.st)
      BY <2>2 DEF Stream
    <3>2. InBus("status")'
      BY <1>5, <1>6, <2>2, <3>1 DEF InBus
    <3>3. Tells(pipe, "status", real) => Tells(pipe, "status", real')
      BY <1>2, <2>2, TellsSame
    <3>4. real'.st = real.st
      BY <1>2, <2>2
    <3> QED
      BY <1>8, <2>2, <3>1, <3>2, <3>3, <3>4 DEF OnTheWay
  <2> QED
    BY <1>2, <2>1, <2>2
<1>11. pub'.ro => InBus("roster")' /\ OnTheWay("roster", mirror.ro = real.ro)'
  <2>1. CASE k = "roster"
    BY <1>7, <2>1 DEF InBus, OnTheWay
  <2>2. CASE k # "roster" /\ pub.ro
    <3>1. InBus("roster") /\ OnTheWay("roster", mirror.ro = real.ro)
      BY <2>2 DEF Stream
    <3>2. InBus("roster")'
      BY <1>5, <1>6, <2>2, <3>1 DEF InBus
    <3>3. Tells(pipe, "roster", real) => Tells(pipe, "roster", real')
      BY <1>2, <2>2, TellsSame
    <3>4. real'.ro = real.ro
      BY <1>2, <2>2
    <3> QED
      BY <1>8, <2>2, <3>1, <3>2, <3>3, <3>4 DEF OnTheWay
  <2> QED
    BY <1>2, <2>1, <2>2
<1>12. ~pub'.ro => Silent(sub'.q, "roster")
  BY <1>2, <1>9 DEF Stream
<1> QED
  BY <1>10, <1>11, <1>12 DEF Stream

\* The connection task copies an event or, after a lag, the present state.
LEMMA ForwardStep ==
    ASSUME Typed, Stream, Forward
    PROVE  Stream'
<1>0. sub.q \in Seq(Events) /\ pipe \in Seq(Events) /\ real \in States /\ sub \in Subs
  BY DEF Typed, Subs
<1>1. sub.on /\ UNCHANGED <<real, mirror>>
  BY DEF Forward
<1>2. CASE /\ sub.lag
           /\ pipe' = pipe \o Resync
           /\ sub' = [sub EXCEPT !.lag = FALSE]
           /\ pub' = [pub EXCEPT !.st = @ \/ Silent(sub.q, "status"), !.ro = TRUE]
  <2>1. Tells(pipe', "status", real) /\ Tells(pipe', "roster", real)
    BY <1>0, <1>2, ResyncTells
  <2>2. sub'.q = sub.q /\ pub'.ro /\ (pub'.st => pub.st \/ Silent(sub.q, "status"))
    BY <1>0, <1>2 DEF Subs, Typed
  <2> QED
    BY <1>1, <2>1, <2>2 DEF Stream, InBus, OnTheWay
<1>3. CASE /\ ~sub.lag /\ sub.q # << >>
           /\ pipe' = Append(pipe, Head(sub.q))
           /\ sub' = [sub EXCEPT !.q = Tail(@)]
           /\ UNCHANGED pub
  <2>0. PICK h, t : h = Head(sub.q) /\ t = Tail(sub.q)
    OBVIOUS
  <2>1. sub'.q = t /\ ~sub'.lag /\ pipe' = Append(pipe, h)
    BY <1>0, <1>3, <2>0 DEF Subs
  <2>2. ASSUME NEW k \in {"status", "roster"}
        PROVE  /\ h \in Events
               /\ Silent(sub.q, k) => h.k # k /\ Silent(t, k)
               /\ Tells(sub.q, k, real) => Tells(t, k, real) \/ (h = Event(k, real) /\ Silent(t, k))
    <3>1. Event(k, real).k = k
      BY <1>0, EventType DEF Kinds
    <3> QED
      BY <1>0, <1>3, <2>0, <3>1, TellsTail
  <2>3. ASSUME NEW k \in {"status", "roster"}
        PROVE  /\ Silent(pipe, k) /\ h.k # k => Silent(pipe', k)
               /\ h = Event(k, real) => Tells(pipe', k, real)
               /\ Tells(pipe, k, real) /\ h.k # k => Tells(pipe', k, real)
    BY <1>0, <2>1, <2>2, TellsAppend
  <2>4. ASSUME NEW k \in {"status", "roster"}, NEW s, InBus(k),
               Silent(sub.q, k) => Tells(pipe, k, real) \/ (Silent(pipe, k) /\ s)
        PROVE  /\ Tells(t, k, real) \/ Silent(t, k)
               /\ Silent(t, k) => Tells(t, k, real) \/ Tells(pipe', k, real) \/ (Silent(pipe', k) /\ s)
    BY <2>2, <2>3, <2>4 DEF InBus
  <2>5. ASSUME NEW k \in {"status", "roster"}, Silent(t, k) PROVE ~Tells(t, k, real)
    <3>1. Event(k, real).k = k
      BY <1>0, EventType DEF Kinds
    <3> QED
      BY <2>5, <3>1 DEF Silent, Tells
  <2>6. pub.st => InBus("status")' /\ OnTheWay("status", mirror.st = real.st)'
    <3>1. PICK s \in BOOLEAN : s = (mirror.st = real.st)
      OBVIOUS
    <3> QED
      BY <1>1, <1>3, <2>1, <2>4, <2>5, <3>1 DEF Stream, InBus, OnTheWay
  <2>7. pub.ro => InBus("roster")' /\ OnTheWay("roster", mirror.ro = real.ro)'
    <3>1. PICK s \in BOOLEAN : s = (mirror.ro = real.ro)
      OBVIOUS
    <3> QED
      BY <1>1, <1>3, <2>1, <2>4, <2>5, <3>1 DEF Stream, InBus, OnTheWay
  <2>8. ~pub.ro => Silent(t, "roster")
    BY <1>1, <2>2 DEF Stream
  <2> QED
    BY <1>3, <2>1, <2>6, <2>7, <2>8 DEF Stream
<1> QED
  BY <1>2, <1>3 DEF Forward

\* A new subscription begins with the status and has no roster.
LEMMA SubscribeStep ==
    ASSUME Typed, Stream, Subscribe
    PROVE  Stream'
<1>1. CASE /\ sub' = [NoSub EXCEPT !.on = TRUE]
           /\ pipe' = Append(pipe, Event("status", real))
           /\ pub' = [st |-> TRUE, ro |-> FALSE]
  <2>0. pipe \in Seq(Events) /\ real \in States /\ NoSub \in Subs /\ NoSub.q = << >>
    BY DefaultTypes DEF Typed
  <2>1. sub'.q = << >> /\ real' = real /\ pub'.st /\ ~pub'.ro
    BY <1>1, <2>0 DEF Subscribe, Subs
  <2>2. Tells(pipe', "status", real)
    <3>1. Event("status", real) \in Events
      BY <2>0, EventType DEF Kinds
    <3> QED
      BY <1>1, <2>0, <3>1, TellsAppend
  <2>3. \A k : Silent(<< >>, k)
    BY DEF Silent
  <2> QED
    BY <2>1, <2>2, <2>3 DEF Stream, InBus, OnTheWay
<1>2. CASE UNCHANGED <<sub, pipe, pub>>
  BY <1>2, StreamAlone DEF Subscribe
<1> QED
  BY <1>1, <1>2 DEF Subscribe

\* A frame shows the newest of what it pumped, or keeps what it had.
LEMMA UpdateStep ==
    ASSUME Typed, Stream, Update
    PROVE  Stream'
<1> SUFFICES ASSUME sub.on PROVE Stream'
  BY StreamOff DEF Update
<1>0. pipe \in Seq(Events) /\ real \in States /\ mirror \in States /\ Len(pipe) \in Nat
  BY DEF Typed
<1>1. PICK n \in 0 .. Len(pipe) :
        /\ mirror' = Shown(n) /\ pipe' = SubSeq(pipe, n + 1, Len(pipe))
        /\ pub' = [st |-> pub.st /\ work["pair"].is # "ok", ro |-> pub.ro \/ RosterPulled(pipe')]
  BY DEF Update
<1>2. PICK p, l : p = SubSeq(pipe, 1, n) /\ l = SubSeq(pipe, n + 1, Len(pipe))
  OBVIOUS
<1>3. PICK b : b = Bootstrapped(mirror)
  OBVIOUS
<1>4. pipe' = l /\ mirror' = PairPolled(Adopt(b, p)) /\ UNCHANGED <<real, sub>>
  BY <1>1, <1>2, <1>3 DEF Shown, Update
<1>5. ASSUME NEW k \in {"status", "roster"}
      PROVE  /\ p \in Seq(Events) /\ l \in Seq(Events)
             /\ Silent(pipe, k) => Silent(p, k) /\ Silent(l, k)
             /\ Tells(pipe, k, real) => Tells(l, k, real) \/ (Silent(l, k) /\ Tells(p, k, real))
  <2>1. PICK q, x : q = pipe /\ x = real
    OBVIOUS
  <2>2. Cut(q, n, p, l)
    BY <1>0, <1>1, <1>2, <2>1 DEF Cut
  <2>3. /\ p \in Seq(Events) /\ l \in Seq(Events)
        /\ Silent(q, k) => Silent(p, k) /\ Silent(l, k)
        /\ Tells(q, k, x) => Tells(l, k, x) \/ (Silent(l, k) /\ Tells(p, k, x))
    BY <2>2, TellsSplit
  <2> QED
    BY <2>1, <2>3
<1>6. ASSUME NEW k \in {"status", "roster"}, Tells(p, k, real)
      PROVE  ~Silent(p, k) /\ p[Newest(p, k)] = Event(k, real)
  <2>1. Event(k, real).k = k
    BY <1>0, EventType DEF Kinds
  <2> QED
    BY <1>5, <1>6, <2>1, NewestTells
<1>7. /\ Tells(p, "status", real) => Adopt(b, p).st = real.st
      /\ Tells(p, "roster", real) => Adopt(b, p).ro = real.ro
      /\ Silent(p, "status") => Adopt(b, p).st = b.st
      /\ Silent(p, "roster") => Adopt(b, p).ro = b.ro
  <2>1. Event("status", real).st = real.st /\ Event("roster", real).ro = real.ro
    BY <1>0, EventType DEF Kinds
  <2> QED
    BY <1>6, <2>1 DEF Adopt
<1>8. (b.st = mirror.st \/ b.st = real.st) /\ (b.ro = mirror.ro \/ b.ro = real.ro)
  BY <1>3 DEF Bootstrapped
<1>9. /\ work["pair"].is # "ok" => mirror'.st = Adopt(b, p).st
      /\ mirror'.ro = Adopt(b, p).ro \/ mirror'.ro = real.ro
      /\ work["pair"].is = "ok" /\ Reachable => mirror'.ro = real.ro
  BY <1>4 DEF PairPolled
<1>10. pub'.st => InBus("status")' /\ OnTheWay("status", mirror.st = real.st)'
  <2> SUFFICES ASSUME pub.st, work["pair"].is # "ok" PROVE InBus("status")' /\ OnTheWay("status", mirror.st = real.st)'
    BY <1>1
  <2>1. InBus("status") /\ OnTheWay("status", mirror.st = real.st)
    BY DEF Stream
  <2>2. InBus("status")'
    BY <1>4, <2>1 DEF InBus
  <2>3. ASSUME Tells(pipe, "status", real) PROVE Tells(l, "status", real) \/ (Silent(l, "status") /\ mirror'.st = real.st)
    BY <2>3, <1>5, <1>7, <1>9
  <2>4. ASSUME Silent(pipe, "status"), mirror.st = real.st PROVE Silent(l, "status") /\ mirror'.st = real.st
    BY <2>4, <1>5, <1>7, <1>8, <1>9
  <2> QED
    BY <1>4, <2>1, <2>2, <2>3, <2>4 DEF OnTheWay
<1>11. pub'.ro => InBus("roster")' /\ OnTheWay("roster", mirror.ro = real.ro)'
  <2>1. CASE pub.ro
    <3>1. InBus("roster") /\ OnTheWay("roster", mirror.ro = real.ro)
      BY <2>1 DEF Stream
    <3>2. InBus("roster")'
      BY <1>4, <3>1 DEF InBus
    <3>3. ASSUME Tells(pipe, "roster", real) PROVE Tells(l, "roster", real) \/ (Silent(l, "roster") /\ mirror'.ro = real.ro)
      BY <3>3, <1>5, <1>7, <1>9
    <3>4. ASSUME Silent(pipe, "roster"), mirror.ro = real.ro PROVE Silent(l, "roster") /\ mirror'.ro = real.ro
      BY <3>4, <1>5, <1>7, <1>8, <1>9
    <3> QED
      BY <1>4, <3>1, <3>2, <3>3, <3>4 DEF OnTheWay
  <2>2. CASE ~pub.ro /\ RosterPulled(l)
    <3>1. Silent(sub.q, "roster")
      BY <2>2 DEF Stream
    <3>2. CASE Reachable /\ ~booted /\ Silent(pipe, "roster")
      <4>1. b = real
        BY <1>3, <3>2 DEF Bootstrapped
      <4>2. mirror'.ro = real.ro /\ Silent(l, "roster")
        BY <1>5, <1>7, <1>9, <3>2, <4>1
      <4> QED
        BY <1>4, <3>1, <4>2 DEF InBus, OnTheWay
    <3>3. CASE Reachable /\ work["pair"].is = "ok" /\ Silent(l, "roster")
      BY <1>4, <1>9, <3>1, <3>3 DEF InBus, OnTheWay
    <3> QED
      BY <2>2, <3>2, <3>3 DEF RosterPulled
  <2>3. pub'.ro => pub.ro \/ RosterPulled(l)
    BY <1>1, <1>4
  <2> QED
    BY <2>1, <2>2, <2>3
<1>12. ~pub'.ro => Silent(sub'.q, "roster")
  BY <1>1, <1>4 DEF Stream
<1> QED
  BY <1>10, <1>11, <1>12 DEF Stream

\* Nothing is said in q and p together only if in neither of them.
LEMMA SilentBoth ==
    ASSUME NEW q \in Seq(Events), NEW p \in Seq(Events), NEW k, Silent(q \o p, k)
    PROVE  Silent(q, k) /\ Silent(p, k)
<1>1. /\ Len(q) \in Nat /\ Len(p) \in Nat /\ Len(q \o p) = Len(q) + Len(p)
      /\ \A i \in 1 .. Len(q) : (q \o p)[i] = q[i]
      /\ \A i \in 1 .. Len(p) : (q \o p)[Len(q) + i] = p[i]
  BY ConcatProperties
<1> HIDE DEF Events
<1>2. ASSUME NEW i \in 1 .. Len(q) PROVE q[i].k # k
  <2>1. i \in 1 .. Len(q \o p) /\ (q \o p)[i] = q[i]
    BY <1>1
  <2> QED
    BY <2>1 DEF Silent
<1>3. ASSUME NEW i \in 1 .. Len(p) PROVE p[i].k # k
  <2>1. Len(q) + i \in 1 .. Len(q \o p) /\ (q \o p)[Len(q) + i] = p[i]
    BY <1>1
  <2> QED
    BY <2>1 DEF Silent
<1> QED
  BY <1>2, <1>3 DEF Silent

\* A control writes the mirror and the agent alike, unless an older status is still
\* on the way.
LEMMA ToggleStep ==
    ASSUME Typed, Stream, Toggle
    PROVE  Stream'
<1> SUFFICES ASSUME sub.on PROVE Stream'
  BY StreamOff DEF Toggle
<1>0. /\ sub.q \in Seq(Events) /\ pipe \in Seq(Events) /\ mirror \in States /\ real \in States
      /\ NoRoster \in Rosters /\ pub \in [st : BOOLEAN, ro : BOOLEAN]
  BY GuiAssumption DEF Typed, Subs
<1>1. PICK b \in BOOLEAN : b = ~mirror.st.set
  OBVIOUS
<1>2. /\ mirror' = [mirror EXCEPT !.st.set = b] /\ UNCHANGED <<sub, pipe>>
      /\ real' = IF agent = "up" THEN [real EXCEPT !.st.set = b] ELSE real
      /\ pub'.st => pub.st /\ agent = "up" /\ Silent(sub.q \o pipe, "status")
      /\ pub'.ro = pub.ro
  BY <1>0, <1>1 DEF Toggle
<1>3. mirror'.ro = mirror.ro /\ mirror'.st = [mirror.st EXCEPT !.set = b]
  BY <1>0, <1>2, StateExcept
<1>4. real'.ro = real.ro /\ (agent = "up" => real'.st = [real.st EXCEPT !.set = b])
  <2>1. /\ [real EXCEPT !.st.set = b].ro = real.ro
        /\ [real EXCEPT !.st.set = b].st = [real.st EXCEPT !.set = b]
    BY <1>0, StateExcept
  <2> QED
    BY <1>2, <2>1
<1>5. pub'.st => InBus("status")' /\ OnTheWay("status", mirror.st = real.st)'
  <2> SUFFICES ASSUME pub'.st PROVE InBus("status")' /\ OnTheWay("status", mirror.st = real.st)'
    OBVIOUS
  <2>1. Silent(sub.q, "status") /\ Silent(pipe, "status")
    <3>1. Silent(sub.q \o pipe, "status")
      BY <1>2
    <3> QED
      BY <1>0, <3>1, SilentBoth
  <2>2. ~sub.lag => mirror.st = real.st
    <3>1. Event("status", real).k = "status"
      BY <1>0, EventType DEF Kinds
    <3>2. ~Tells(pipe, "status", real)
      BY <2>1, <3>1 DEF Silent, Tells
    <3> QED
      BY <1>2, <2>1, <3>2 DEF Stream, OnTheWay
  <2>3. ~sub.lag => mirror'.st = real'.st
    BY <1>2, <1>3, <1>4, <2>2
  <2> QED
    BY <1>2, <2>1, <2>3 DEF InBus, OnTheWay
<1>6. \A q : Tells(q, "roster", real) => Tells(q, "roster", real')
  BY <1>4, TellsSame
<1>7. pub'.ro => InBus("roster")' /\ OnTheWay("roster", mirror.ro = real.ro)'
  BY <1>2, <1>3, <1>4, <1>6 DEF Stream, InBus, OnTheWay
<1>8. ~pub'.ro => Silent(sub'.q, "roster")
  BY <1>2 DEF Stream
<1> QED
  BY <1>5, <1>7, <1>8 DEF Stream

\* A pairing leaves the roster alone, and its status is not published.
LEMMA ServedStep ==
    ASSUME Typed, Stream, NEW k \in Tasks, Served(k)
    PROVE  Stream'
<1>0. real \in States /\ NoRoster \in Rosters /\ pub \in [st : BOOLEAN, ro : BOOLEAN]
  BY GuiAssumption DEF Typed
<1>1. CASE real' = [real EXCEPT !.st.set = TRUE] /\ pub' = [pub EXCEPT !.st = FALSE]
  <2>1. UNCHANGED <<mirror, sub, pipe>> /\ ~pub'.st /\ pub'.ro = pub.ro
    BY <1>0, <1>1 DEF Served
  <2>2. real'.ro = real.ro
    BY <1>0, <1>1, StateExcept
  <2>3. \A q : Tells(q, "roster", real) => Tells(q, "roster", real')
    BY <2>2, TellsSame
  <2> QED
    BY <2>1, <2>2, <2>3 DEF Stream, InBus, OnTheWay
<1>2. CASE UNCHANGED <<real, pub>>
  BY <1>2, StreamAlone DEF Served
<1> QED
  BY <1>1, <1>2 DEF Served

\* An event of the engine.
LEMMA EngineStep ==
    ASSUME Typed, Stream, EngineEvent
    PROVE  Stream'
<1>0. real \in States /\ sub \in Subs /\ Len(sub.q) <= Cap /\ TRUE \in BOOLEAN /\ NoRoster \in Rosters
  BY GuiAssumption DEF Typed
<1>1. /\ [real EXCEPT !.st.conn = ~@] \in States /\ [real EXCEPT !.st.conn = ~@].ro = real.ro
      /\ \A o \in Rosters : [real EXCEPT !.ro = o] \in States /\ [real EXCEPT !.ro = o].st = real.st
  <2>1. [real EXCEPT !.st.conn = ~@] \in States /\ [real EXCEPT !.st.conn = ~@].ro = real.ro
    BY <1>0, StateExcept
  <2>2. ASSUME NEW o \in Rosters PROVE [real EXCEPT !.ro = o] \in States /\ [real EXCEPT !.ro = o].st = real.st
    BY <1>0, StateExcept
  <2> QED
    BY <2>1, <2>2
<1>2. PICK k \in Kinds, r \in States :
        Emit(k, r) /\ (k # "status" => r.st = real.st) /\ (k # "roster" => r.ro = real.ro)
  BY <1>0, <1>1 DEF EngineEvent, Kinds
<1>3. UNCHANGED <<pipe, mirror>>
  BY DEF EngineEvent
<1>4. CASE sub.on
  BY <1>2, <1>3, <1>4, EmitStep
<1>5. CASE ~sub.on
  <2>1. sub' = sub
    BY <1>2, <1>5 DEF Emit, Sent
  <2> QED
    BY <1>5, <2>1, StreamOff
<1> QED
  BY <1>4, <1>5

\* What the stream tells is kept by every step.
LEMMA StreamStep ==
    ASSUME Typed, Stream, [Next]_vars
    PROVE  Stream'
<1>1. CASE EngineEvent \/ Forward \/ Subscribe \/ Update \/ Toggle \/ \E k \in Tasks : Served(k)
  BY <1>1, EngineStep, ForwardStep, SubscribeStep, UpdateStep, ToggleStep, ServedStep
<1>2. CASE AgentCrash \/ AgentExit \/ QuitExit \/ (RendererFails /\ GuiGone)
  <2>1. sub' = NoSub
    BY <1>2 DEF AgentCrash, AgentExit, AgentGone, QuitExit, GuiGone
  <2> QED
    BY <2>1, DefaultTypes, StreamOff
<1>3. CASE \/ AgentUp \/ Shutdown \/ Launch \/ Window \/ Pause \/ Revive \/ ApplyHotkey \/ Close \/ ShellEvent
           \/ QuitAsk \/ UNCHANGED vars \/ (RendererFails /\ ~GuiGone) \/ \E k \in Tasks : StartWork(k)
  <2>1. UNCHANGED <<sub, pipe, pub, real, mirror>>
    BY <1>3 DEF AgentUp, Shutdown, Launch, Window, Pause, Revive, ApplyHotkey, Close, ShellEvent, QuitAsk,
                RendererFails, StartWork, vars
  <2> QED
    BY <2>1, StreamAlone
<1> QED
  BY <1>1, <1>2, <1>3 DEF Next, EventThread

(* ---------------------------------------------------------------------- *)
(* The theorems                                                            *)
(* ---------------------------------------------------------------------- *)

\* The first state of the GUI.
LEMMA InitInv == Init => IndInv
<1> SUFFICES ASSUME Init PROVE IndInv
  OBVIOUS
<1>1. Typed
  <2>1. work \in Works
    BY DefaultTypes DEF Init, Works
  <2>2. mirror \in States /\ real \in States
    BY DefaultTypes DEF Init
  <2>3. sub \in Subs /\ Len(sub.q) <= Cap
    <3>1. sub \in Subs /\ sub.q = << >> /\ Cap \in Nat
      BY DefaultTypes, GuiAssumption DEF Init
    <3> QED
      BY <3>1
  <2>6. pipe \in Seq(Events) /\ Len(pipe) <= PipeMax
    <3>1. pipe = << >> /\ PipeMax \in Nat
      BY GuiAssumption DEF Init
    <3> QED
      BY <3>1
  <2>4. acts \in 0 .. MaxActs /\ events \in 0 .. MaxEvents
    BY GuiAssumption DEF Init
  <2>5. shell \in [shown : BOOLEAN, drawing : BOOLEAN, tray : BOOLEAN, mgr : BOOLEAN, key : BOOLEAN]
    BY DEF Init
  <2>7. /\ gui = "start" /\ booted = FALSE /\ ask = FALSE /\ ev = "none" /\ agent \in {"down", "up"}
        /\ pub \in [st : BOOLEAN, ro : BOOLEAN]
    BY DEF Init
  <2> QED
    BY <2>1, <2>2, <2>3, <2>4, <2>5, <2>6, <2>7 DEF Typed
<1>3. Stream
  BY DefaultTypes DEF Init, Stream
<1> QED
  BY <1>1, <1>3, TypedIs DEF IndInv

\* Every step keeps the invariant.
LEMMA NextInv == IndInv /\ [Next]_vars => IndInv'
<1> SUFFICES ASSUME IndInv, [Next]_vars PROVE IndInv'
  OBVIOUS
<1>1. Typed /\ Stream
  BY TypedIs DEF IndInv
<1>2. Typed'
  BY <1>1, AgentTyped, ProcessTyped, FrameTyped DEF Next
<1>3. TypeOK'
  BY <1>2 DEF TypeOK, Typed, States, Subs, Works
<1>4. Stream'
  BY <1>1, StreamStep
<1> QED
  BY <1>3, <1>4 DEF IndInv

\* An empty stream tells nothing.
LEMMA EmptyTells == ASSUME NEW k, NEW r PROVE Silent(<< >>, k) /\ ~Tells(<< >>, k, r)
BY DEF Silent, Tells

\* Every variable keeps its type: the bus within its capacity, its events well formed.
THEOREM GuiTypeCorrect == Spec => []TypeOK
<1>1. IndInv => TypeOK
  BY DEF IndInv
<1> QED
  BY InitInv, NextInv, <1>1, PTL DEF Spec

\* Once the bus and the socket are drained the UI shows the agent's status, provided that
\* the stream carried one since a control or the reply of a pairing last wrote the mirror
\* (pub.st), and its roster, provided that the stream or a later pull carried one since the
\* subscription (pub.ro); whatever a full bus dropped and a resync replaced on the way.
\* Without the two conditions the statement is false (MirrorFresh, MCGuiFresh.cfg).
THEOREM MirrorFollows == Spec => []MirrorConverges
<1>1. IndInv => MirrorConverges
  <2> SUFFICES ASSUME IndInv, Drained PROVE (pub.st => mirror.st = real.st) /\ (pub.ro => mirror.ro = real.ro)
    BY DEF MirrorConverges
  <2>1. sub.on /\ ~sub.lag /\ sub.q = << >> /\ pipe = << >>
    BY DEF Drained
  <2>2. /\ Silent(sub.q, "status") /\ Silent(sub.q, "roster")
        /\ ~Tells(pipe, "status", real) /\ ~Tells(pipe, "roster", real)
    BY <2>1, EmptyTells
  <2> QED
    BY <2>1, <2>2 DEF IndInv, Stream, OnTheWay
<1> QED
  BY InitInv, NextInv, <1>1, PTL DEF Spec
=============================================================================
