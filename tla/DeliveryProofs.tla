--------------------------- MODULE DeliveryProofs ---------------------------
(***************************************************************************)
(* Proofs about what the relay delivers: no copy of a clip is doubled,     *)
(* clips replayed from the queue come before live ones, and a clip that is *)
(* held for a device is lost only for a reason that the code names; for    *)
(* every number of devices and connections and every size of the buffers.  *)
(***************************************************************************)
EXTENDS RelayProofs

(* ---------------------------------------------------------------------- *)
(* The invariants                                                          *)
(* ---------------------------------------------------------------------- *)

\* The clips of a queue or a batch, and of a buffer or what a device received.
Nums(q) == {q[i] : i \in DOMAIN q}
Sent(f) == {f[i].clip : i \in {j \in DOMAIN f : f[j] # Ctl}}

\* No clip is twice in it.
Distinct(q) == \A i, j \in DOMAIN q : q[i] = q[j] => i = j
DistinctSent(f) ==
    \A i, j \in DOMAIN f : f[i] # Ctl /\ f[j] # Ctl /\ f[i].clip = f[j].clip => i = j

\* The clips that a connection has taken over from the queue or been routed.
Carried(c) == Nums(batch[c]) \cup Sent(send[c]) \cup Sent(got[c])

\* Before a connection registers nothing is sent to it, and only clips are received.
Unused ==
    /\ \A c \in Conns : phase[c] \in {"fresh", "validated", "drained"} => send[c] = <<>> /\ got[c] = <<>>
    /\ \A c \in Conns : phase[c] \in {"fresh", "validated"} => batch[c] = <<>>
    /\ \A c \in Conns : \A i \in DOMAIN got[c] : got[c][i] # Ctl

\* Each place has a clip at most once, and
Within ==
    /\ \A d \in Devices : Distinct(queue[d])
    /\ \A c \in Conns : Distinct(batch[c]) /\ DistinctSent(send[c]) /\ DistinctSent(got[c])

\* ... no two places of a device share one.
Between ==
    /\ \A c \in Conns : /\ Nums(batch[c]) \cap Sent(send[c]) = {}
                        /\ Nums(batch[c]) \cap Sent(got[c]) = {}
                        /\ Sent(send[c]) \cap Sent(got[c]) = {}
    /\ \A c, e \in Conns : c # e /\ connDev[c] = connDev[e] => Carried(c) \cap Carried(e) = {}
    /\ \A c \in Conns : connDev[c] \in Devices => Nums(queue[connDev[c]]) \cap Carried(c) = {}

\* The copies that a request h of the hub still has to make for device d, and the
\* copies there may be of the clips numbered below n.
Due(h, d) == {<<h.clip, k>> : k \in 1..h.todo[d]}
Accepted(n) == (1..(n - 1)) \X (1..MaxNamed)

\* The copies that are still to be made are nowhere yet, and neither are copies of
\* clips that were not accepted yet.
Unrouted ==
    /\ hub.op = "route" => \A d \in Devices : \A m \in Due(hub, d) :
          /\ m \notin Nums(queue[d])
          /\ \A c \in Conns : connDev[c] = d => m \notin Carried(c)
    /\ \A d \in Devices : Nums(queue[d]) \subseteq Accepted(nextClip)
    /\ \A c \in Conns : Carried(c) \subseteq Accepted(nextClip)

Once == Unused /\ Within /\ Between /\ Unrouted

\* While it registers, a connection is sent no live clip; and no replayed clip
\* follows a live one, in what was received, in the buffer, and from one to the other.
Ordered(f) == \A i, j \in DOMAIN f : i < j /\ f[j].kind = "replay" => f[i].kind # "live"
Has(f, k) == \E i \in DOMAIN f : f[i].kind = k

Replayed ==
    /\ \A c \in Conns : phase[c] = "registering" => ~Has(got[c], "live") /\ ~Has(send[c], "live")
    /\ \A c \in Conns : Ordered(got[c]) /\ Ordered(send[c])
    /\ \A c \in Conns : Has(got[c], "live") => ~Has(send[c], "replay")

(* ---------------------------------------------------------------------- *)
(* Queues and buffers                                                      *)
(* ---------------------------------------------------------------------- *)

\* What Append, Tail and the empty sequence do to the clips of a queue.
LEMMA NumsAppend ==
    ASSUME NEW q \in Seq(Copies), NEW n \in Copies
    PROVE  /\ Nums(Append(q, n)) = Nums(q) \cup {n}
           /\ Distinct(q) /\ n \notin Nums(q) => Distinct(Append(q, n))
<1>1. /\ Append(q, n) \in Seq(Copies) /\ Len(Append(q, n)) = Len(q) + 1 /\ Len(q) \in Nat
      /\ \A i \in 1..(Len(q) + 1) : Append(q, n)[i] = IF i <= Len(q) THEN q[i] ELSE n
  OBVIOUS
<1>2. DOMAIN q = 1..Len(q) /\ DOMAIN Append(q, n) = 1..(Len(q) + 1)
  BY <1>1
<1>3. Nums(Append(q, n)) = Nums(q) \cup {n}
  BY <1>1, <1>2 DEF Nums
<1>4. ASSUME Distinct(q), n \notin Nums(q) PROVE Distinct(Append(q, n))
  BY <1>1, <1>2, <1>4 DEF Nums, Distinct
<1> QED
  BY <1>3, <1>4

\* Taking the oldest clip of a queue leaves the others.
LEMMA NumsTail ==
    ASSUME NEW q \in Seq(Copies), q # <<>>
    PROVE  /\ Head(q) \in Copies /\ Tail(q) \in Seq(Copies)
           /\ Nums(q) = {Head(q)} \cup Nums(Tail(q))
           /\ Distinct(q) => Distinct(Tail(q)) /\ Head(q) \notin Nums(Tail(q))
<1>1. /\ Head(q) = q[1] /\ Head(q) \in Copies /\ Tail(q) \in Seq(Copies) /\ Len(Tail(q)) = Len(q) - 1
      /\ Len(q) \in Nat /\ Len(q) > 0
      /\ \A i \in 1..(Len(q) - 1) : Tail(q)[i] = q[i + 1]
  OBVIOUS
<1>2. DOMAIN q = 1..Len(q) /\ DOMAIN Tail(q) = 1..(Len(q) - 1)
  BY <1>1
<1>3. ASSUME NEW i \in DOMAIN q PROVE i = 1 \/ (i - 1 \in DOMAIN Tail(q) /\ Tail(q)[i - 1] = q[i])
  BY <1>1, <1>2
<1>4. ASSUME NEW i \in DOMAIN Tail(q) PROVE i + 1 \in DOMAIN q /\ Tail(q)[i] = q[i + 1] /\ i + 1 # 1
  BY <1>1, <1>2
<1>5. 1 \in DOMAIN q
  BY <1>1, <1>2
<1>6. Nums(q) = {Head(q)} \cup Nums(Tail(q))
  <2>0. Head(q) = q[1]
    BY <1>1
  <2>1. ASSUME NEW n \in Nums(q) PROVE n \in {Head(q)} \cup Nums(Tail(q))
    BY <2>0, <1>3 DEF Nums
  <2>2. ASSUME NEW n \in Nums(Tail(q)) PROVE n \in Nums(q)
    BY <1>4 DEF Nums
  <2>3. Head(q) \in Nums(q)
    BY <2>0, <1>5 DEF Nums
  <2> QED
    BY <2>1, <2>2, <2>3
<1>7. ASSUME Distinct(q) PROVE Distinct(Tail(q)) /\ Head(q) \notin Nums(Tail(q))
  <2>1. Head(q) \notin Nums(Tail(q))
    BY <1>1, <1>4, <1>5, <1>7 DEF Nums, Distinct
  <2>2. ASSUME NEW i \in DOMAIN Tail(q), NEW j \in DOMAIN Tail(q), Tail(q)[i] = Tail(q)[j] PROVE i = j
    <3>1. i + 1 = j + 1
      BY <1>4, <1>7, <2>2 DEF Distinct
    <3> QED
      BY <3>1, <1>2
  <2> QED
    BY <2>1, <2>2 DEF Distinct
<1> QED
  BY <1>1, <1>6, <1>7

\* An empty queue or buffer holds no clip.
LEMMA NumsEmpty == Nums(<<>>) = {} /\ Distinct(<<>>) /\ Sent(<<>>) = {} /\ DistinctSent(<<>>)
BY DEF Nums, Distinct, Sent, DistinctSent

\* store.Enqueue adds the clip and drops at most the oldest.
LEMMA NumsEnqueue ==
    ASSUME NEW q \in Seq(Copies), NEW n \in Copies, Len(q) <= QueueDepth
    PROVE  /\ Nums(StoreEnqueue(q, n)) \subseteq Nums(q) \cup {n}
           /\ n \in Nums(StoreEnqueue(q, n))
           /\ \A m \in Nums(q) \ Nums(StoreEnqueue(q, n)) : Len(q) = QueueDepth /\ m = Head(q)
           /\ Distinct(q) /\ n \notin Nums(q) => Distinct(StoreEnqueue(q, n))
<1>1. CASE Len(q) < QueueDepth
  BY <1>1, NumsAppend DEF StoreEnqueue
<1>2. CASE ~(Len(q) < QueueDepth)
  <2>0. QueueDepth \in Nat \ {0} /\ Len(q) \in Nat
    BY RelayConstants
  <2>1. Len(q) \in Nat /\ Len(q) = QueueDepth /\ q # <<>>
    BY <1>2, <2>0
  <2>2. StoreEnqueue(q, n) = Append(Tail(q), n)
    BY <1>2 DEF StoreEnqueue
  <2>3. /\ Tail(q) \in Seq(Copies) /\ Nums(q) = {Head(q)} \cup Nums(Tail(q))
        /\ Distinct(q) => Distinct(Tail(q))
    BY <2>1, NumsTail
  <2>4. /\ Nums(StoreEnqueue(q, n)) = Nums(Tail(q)) \cup {n}
        /\ Distinct(Tail(q)) /\ n \notin Nums(Tail(q)) => Distinct(StoreEnqueue(q, n))
    <3>1. /\ Nums(Append(Tail(q), n)) = Nums(Tail(q)) \cup {n}
          /\ Distinct(Tail(q)) /\ n \notin Nums(Tail(q)) => Distinct(Append(Tail(q), n))
      BY <2>3, NumsAppend
    <3> QED
      BY <3>1, <2>2, Zenon
  <2>5. ASSUME Distinct(q), n \notin Nums(q) PROVE Distinct(StoreEnqueue(q, n))
    <3>1. n \notin Nums(Tail(q))
      BY <2>3, <2>5
    <3>2. Distinct(Tail(q))
      BY <2>3, <2>5, Zenon
    <3> QED
      BY <3>1, <3>2, <2>4, Zenon
  <2>6. /\ Nums(StoreEnqueue(q, n)) \subseteq Nums(q) \cup {n}
        /\ n \in Nums(StoreEnqueue(q, n))
        /\ \A m \in Nums(q) \ Nums(StoreEnqueue(q, n)) : m = Head(q)
    BY <2>3, <2>4
  <2> QED
    BY <2>1, <2>5, <2>6
<1> QED
  BY <1>1, <1>2

\* A purge keeps the clips numbered above k, each as often as before.
LEMMA NumsPurged ==
    ASSUME NEW q \in Seq(Copies), NEW r, NEW k, Purged(q, r, k)
    PROVE  /\ Nums(r) \subseteq Nums(q)
           /\ \A m \in Nums(q) : m[1] > k => m \in Nums(r)
           /\ Distinct(q) /\ r \in Seq(Copies) => Distinct(r)
<1>1. PICK f \in [DOMAIN r -> DOMAIN q] :
        /\ \A i \in DOMAIN r : r[i] = q[f[i]]
        /\ \A i, j \in DOMAIN r : i < j => f[i] < f[j]
        /\ {f[i] : i \in DOMAIN r} = {i \in DOMAIN q : q[i][1] > k}
  BY DEF Purged
<1>2. Nums(r) \subseteq Nums(q)
  BY <1>1 DEF Nums
<1>3. ASSUME NEW m \in Nums(q), m[1] > k PROVE m \in Nums(r)
  <2>1. PICK i \in DOMAIN q : q[i] = m
    BY DEF Nums
  <2>2. PICK j \in DOMAIN r : f[j] = i
    BY <1>1, <1>3, <2>1
  <2> QED
    BY <1>1, <2>1, <2>2 DEF Nums
<1>4. ASSUME Distinct(q), r \in Seq(Copies) PROVE Distinct(r)
  <2>1. ASSUME NEW i \in DOMAIN r, NEW j \in DOMAIN r, r[i] = r[j], i < j PROVE FALSE
    <3>1. f[i] = f[j] /\ f[i] < f[j] /\ f[i] \in DOMAIN q
      BY <1>1, <1>4, <2>1 DEF Distinct
    <3>2. DOMAIN q \subseteq Nat
      OBVIOUS
    <3> QED
      BY <3>1, <3>2
  <2>2. DOMAIN r \subseteq Nat
    BY <1>4
  <2> QED
    BY <2>1, <2>2 DEF Distinct
<1> QED
  BY <1>2, <1>3, <1>4

\* The same for the frames of a buffer.
LEMMA SentAppend ==
    ASSUME NEW s \in Seq(Frames), NEW f \in Frames
    PROVE  /\ Sent(Append(s, f)) = IF f = Ctl THEN Sent(s) ELSE Sent(s) \cup {f.clip}
           /\ DistinctSent(s) /\ (f # Ctl => f.clip \notin Sent(s)) => DistinctSent(Append(s, f))
<1>1. /\ Len(s) \in Nat
      /\ \A i \in 1..(Len(s) + 1) : Append(s, f)[i] = IF i <= Len(s) THEN s[i] ELSE f
      /\ DOMAIN s = 1..Len(s) /\ DOMAIN Append(s, f) = 1..(Len(s) + 1)
  OBVIOUS
<1> HIDE DEF Frames, Ctl
<1>2. ASSUME NEW i \in DOMAIN s PROVE i \in DOMAIN Append(s, f) /\ Append(s, f)[i] = s[i]
  BY <1>1
<1>3. ASSUME NEW i \in DOMAIN Append(s, f)
      PROVE  (i \in DOMAIN s /\ Append(s, f)[i] = s[i]) \/ (i = Len(s) + 1 /\ Append(s, f)[i] = f)
  BY <1>1
<1>4. Len(s) + 1 \in DOMAIN Append(s, f) /\ Append(s, f)[Len(s) + 1] = f
  BY <1>1
<1>5. Sent(Append(s, f)) = IF f = Ctl THEN Sent(s) ELSE Sent(s) \cup {f.clip}
  BY <1>2, <1>3, <1>4 DEF Sent
<1>6. ASSUME DistinctSent(s), f # Ctl => f.clip \notin Sent(s) PROVE DistinctSent(Append(s, f))
  BY <1>3, <1>6 DEF Sent, DistinctSent
<1> QED
  BY <1>5, <1>6

\* Taking the oldest frame of a buffer leaves the clips of the others.
LEMMA SentTail ==
    ASSUME NEW s \in Seq(Frames), s # <<>>
    PROVE  /\ Head(s) \in Frames /\ Tail(s) \in Seq(Frames)
           /\ Sent(s) = IF Head(s) = Ctl THEN Sent(Tail(s)) ELSE {Head(s).clip} \cup Sent(Tail(s))
           /\ DistinctSent(s) => /\ DistinctSent(Tail(s))
                                 /\ Head(s) # Ctl => Head(s).clip \notin Sent(Tail(s))
<1>1. /\ Head(s) = s[1] /\ Head(s) \in Frames /\ Tail(s) \in Seq(Frames)
      /\ Len(s) \in Nat /\ Len(s) > 0
      /\ \A i \in 1..(Len(s) - 1) : Tail(s)[i] = s[i + 1]
      /\ DOMAIN s = 1..Len(s) /\ DOMAIN Tail(s) = 1..(Len(s) - 1)
  OBVIOUS
<1> HIDE DEF Frames, Ctl
<1>3. ASSUME NEW i \in DOMAIN s PROVE i = 1 \/ (i - 1 \in DOMAIN Tail(s) /\ Tail(s)[i - 1] = s[i])
  BY <1>1
<1>4. ASSUME NEW i \in DOMAIN Tail(s) PROVE i + 1 \in DOMAIN s /\ Tail(s)[i] = s[i + 1] /\ i + 1 # 1
  BY <1>1
<1>5. 1 \in DOMAIN s
  BY <1>1
<1>6. Sent(s) = IF Head(s) = Ctl THEN Sent(Tail(s)) ELSE {Head(s).clip} \cup Sent(Tail(s))
  <2>0. Head(s) = s[1]
    BY <1>1
  <2>1. ASSUME NEW n \in Sent(s)
        PROVE  n \in Sent(Tail(s)) \/ (Head(s) # Ctl /\ n = Head(s).clip)
    BY <2>0, <1>3 DEF Sent
  <2>2. ASSUME NEW n \in Sent(Tail(s)) PROVE n \in Sent(s)
    BY <1>4 DEF Sent
  <2>3. Head(s) # Ctl => Head(s).clip \in Sent(s)
    BY <2>0, <1>5 DEF Sent
  <2> QED
    BY <2>1, <2>2, <2>3
<1>7. ASSUME DistinctSent(s)
      PROVE  DistinctSent(Tail(s)) /\ (Head(s) # Ctl => Head(s).clip \notin Sent(Tail(s)))
  <2>1. Head(s) # Ctl => Head(s).clip \notin Sent(Tail(s))
    BY <1>1, <1>4, <1>5, <1>7 DEF Sent, DistinctSent
  <2>2. ASSUME NEW i \in DOMAIN Tail(s), NEW j \in DOMAIN Tail(s), Tail(s)[i] # Ctl, Tail(s)[j] # Ctl,
               Tail(s)[i].clip = Tail(s)[j].clip
        PROVE  i = j
    <3>1. i + 1 = j + 1
      BY <1>4, <1>7, <2>2 DEF DistinctSent
    <3> QED
      BY <3>1, <1>1
  <2> QED
    BY <2>1, <2>2 DEF DistinctSent
<1> QED
  BY <1>1, <1>6, <1>7

\* A frame without a clip changes nothing, and neither does a presence broadcast.
LEMMA SentPush ==
    ASSUME NEW s \in Seq(Frames)
    PROVE  Sent(Push(s, Ctl)) = Sent(s) /\ (DistinctSent(s) => DistinctSent(Push(s, Ctl)))
BY SentAppend, FrameType DEF Push

\* A broadcast of presence leaves the clips in every buffer.
LEMMA SentBroadcast ==
    ASSUME NEW s \in [Conns -> Seq(Frames)], NEW r, NEW x, NEW c \in Conns
    PROVE  /\ Sent(broadcastPresence(s, r, x)[c]) = Sent(s[c])
           /\ DistinctSent(s[c]) => DistinctSent(broadcastPresence(s, r, x)[c])
<1>1. broadcastPresence(s, r, x)[c] = Push(s[c], Ctl) \/ broadcastPresence(s, r, x)[c] = s[c]
  BY DEF broadcastPresence
<1> QED
  BY <1>1, SentPush

(* ---------------------------------------------------------------------- *)
(* One copy of a clip                                                      *)
(* ---------------------------------------------------------------------- *)

\* Clips accepted so far stay accepted.
LEMMA MoreClips ==
    ASSUME NEW n \in Nat, NEW m \in {n, n + 1}
    PROVE  Accepted(n) \subseteq Accepted(m)
BY DEF Accepted

\* What a request still has to make: unchanged if its list and its clip are; one copy
\* less once a mention has been served; and nothing old for a clip accepted now.
LEMMA DueSame ==
    ASSUME NEW g, NEW h, g.clip = h.clip, g.todo = h.todo, NEW d
    PROVE  Due(g, d) = Due(h, d)
BY DEF Due

\* One mention of a device has been served.
LEMMA DueLess ==
    ASSUME NEW h, NEW g, h.todo \in Tasks, NEW d \in Devices, h.todo[d] > 0,
           g.clip = h.clip, g.todo = [h.todo EXCEPT ![d] = @ - 1]
    PROVE  /\ <<h.clip, h.todo[d]>> \in Due(h, d) /\ <<h.clip, h.todo[d]>> \notin Due(g, d)
           /\ \A x \in Devices : Due(g, x) \subseteq Due(h, x)
<1>1. h.todo[d] \in Nat /\ g.todo[d] = h.todo[d] - 1 /\ \A x \in Devices : x # d => g.todo[x] = h.todo[x]
  BY DEF Tasks
<1>2. \A x \in Devices : 1..g.todo[x] \subseteq 1..h.todo[x]
  BY <1>1
<1> QED
  BY <1>1, <1>2 DEF Due

\* A clip accepted now is newer than the others.
LEMMA DueNew ==
    ASSUME NEW h, NEW n \in Nat, h.clip = n, NEW d, NEW m \in Due(h, d)
    PROVE  m \notin Accepted(n)
BY DEF Due, Accepted

\* A step after which no connection and no queue has a clip that it had not.
LEMMA NothingNew ==
    ASSUME Between, Unrouted, connDev' = connDev,
           nextClip \in Nat, nextClip' \in {nextClip, nextClip + 1},
           hub'.op = "route" => hub.op = "route" /\ hub'.clip = hub.clip /\ hub'.todo = hub.todo,
           \A d \in Devices : Nums(queue'[d]) \subseteq Nums(queue[d]),
           \A c \in Conns : Carried(c)' \subseteq Carried(c),
           \A c \in Conns : /\ Nums(batch'[c]) \cap Sent(send'[c]) = {}
                            /\ Nums(batch'[c]) \cap Sent(got'[c]) = {}
                            /\ Sent(send'[c]) \cap Sent(got'[c]) = {}
    PROVE  Between' /\ Unrouted'
<1>1. Between'
  <2>2. ASSUME NEW c \in Conns, NEW e \in Conns, c # e, connDev[c] = connDev[e]
        PROVE  Carried(c)' \cap Carried(e)' = {}
    BY <2>2 DEF Between
  <2>3. ASSUME NEW c \in Conns, connDev[c] \in Devices
        PROVE  Nums(queue'[connDev[c]]) \cap Carried(c)' = {}
    BY <2>3 DEF Between
  <2> QED
    BY <2>2, <2>3 DEF Between
<1>2. Unrouted'
  <2>1. Accepted(nextClip) \subseteq Accepted(nextClip')
    BY MoreClips
  <2>2. /\ \A d \in Devices : Nums(queue'[d]) \subseteq Accepted(nextClip')
        /\ \A c \in Conns : Carried(c)' \subseteq Accepted(nextClip')
    BY <2>1 DEF Unrouted
  <2>3. ASSUME hub'.op = "route", NEW d \in Devices, NEW m \in Due(hub', d)
        PROVE  /\ m \notin Nums(queue'[d])
               /\ \A c \in Conns : connDev'[c] = d => m \notin Carried(c)'
    <3>1. m \in Due(hub, d)
      BY <2>3, DueSame
    <3> QED
      BY <2>3, <3>1 DEF Unrouted
  <2> QED
    BY <2>2, <2>3 DEF Unrouted
<1> QED
  BY <1>1, <1>2

\* A step that leaves queues, batches and buffers as they are, but for frames without a
\* clip, or empties them.
LEMMA Emptied ==
    ASSUME Within, Between, Unrouted, connDev' = connDev,
           nextClip \in Nat, nextClip' \in {nextClip, nextClip + 1},
           hub'.op = "route" => hub.op = "route" /\ hub'.clip = hub.clip /\ hub'.todo = hub.todo,
           \A d \in Devices : queue'[d] = queue[d] \/ queue'[d] = <<>>,
           \A c \in Conns : batch'[c] = batch[c] \/ batch'[c] = <<>>,
           \A c \in Conns : Sent(send'[c]) \subseteq Sent(send[c]) /\ DistinctSent(send'[c]),
           got' = got
    PROVE  Within' /\ Between' /\ Unrouted'
<1>1. \A d \in Devices : Nums(queue'[d]) \subseteq Nums(queue[d]) /\ Distinct(queue'[d])
  BY NumsEmpty DEF Within
<1>2. \A c \in Conns : Nums(batch'[c]) \subseteq Nums(batch[c]) /\ Distinct(batch'[c])
  BY NumsEmpty DEF Within
<1>3. Within'
  BY <1>1, <1>2 DEF Within
<1>4. \A c \in Conns : Carried(c)' \subseteq Carried(c)
  BY <1>2 DEF Carried
<1>5. \A c \in Conns : /\ Nums(batch'[c]) \cap Sent(send'[c]) = {}
                       /\ Nums(batch'[c]) \cap Sent(got'[c]) = {}
                       /\ Sent(send'[c]) \cap Sent(got'[c]) = {}
  BY <1>2 DEF Between
<1> QED
  BY <1>1, <1>3, <1>4, <1>5, NothingNew

\* What the steps may use of the inductive invariant.
LEMMA Types ==
    ASSUME IndInv
    PROVE  /\ queue \in [Devices -> Seq(Copies)] /\ batch \in [Conns -> Seq(Copies)]
           /\ send \in [Conns -> Seq(Frames)] /\ got \in [Conns -> Seq(Frames)]
           /\ connDev \in [Conns -> Devices \cup {NoDev}] /\ phase \in [Conns -> Phases]
           /\ clients \in [Devices -> Conns \cup {NoConn}]
           /\ nextClip \in Nat /\ nextClip \in 1..(MaxClips + 1) /\ hub.todo \in Tasks
           /\ \A d \in Devices : Len(queue[d]) <= QueueDepth
           /\ \A c \in Conns : phase[c] # "fresh" => connDev[c] \in Devices
BY DEF IndInv, TypeOK, HandlerInv

\* The copy that an iteration of handleRoute's loop makes is one of an accepted clip.
LEMMA RoutedCopy ==
    ASSUME IndInv, NEW d \in Devices, RouteTarget(d)
    PROVE  <<hub.clip, hub.todo[d]>> \in Accepted(nextClip) /\ <<hub.clip, hub.todo[d]>> \in Copies
<1>1. hub.clip \in 1..(nextClip - 1) /\ hub.clip \in Clips /\ hub.todo \in Tasks /\ hub.todo[d] > 0
  BY DEF RouteTarget, IndInv, HandlerInv, TypeOK, Clips
<1> QED
  BY <1>1, TaskType DEF Accepted, Copies

\* The steps that move no clip.
LEMMA QuietStep ==
    ASSUME IndInv, Within, Between, Unrouted,
           \/ \E c \in Conns : \/ handleRegister(c) \/ Ack(c) \/ ReadEnd(c) \/ handleUnregister(c)
                               \/ ServerClose(c) \/ LinkLost(c) \/ RouteRejected(c)
                               \/ \E p \in Pools : handleSetPool(c, p)
           \/ RegisterReturn \/ RouteReturn \/ SetPoolPut
           \/ \E d \in Devices : DeleteDevice(d) \/ handleEvict(d)
           \/ Crash
           \/ UNCHANGED vars
    PROVE  Within' /\ Between' /\ Unrouted'
<1>a. /\ queue \in [Devices -> Seq(Copies)] /\ batch \in [Conns -> Seq(Copies)]
      /\ send \in [Conns -> Seq(Frames)] /\ nextClip \in Nat
  BY Types
<1>b. \A c \in Conns : DistinctSent(send[c])
  BY DEF Within
<1>c. ASSUME connDev' = connDev, nextClip' \in {nextClip, nextClip + 1}, hub' = hub \/ hub'.op # "route",
             \A d \in Devices : queue'[d] = queue[d] \/ queue'[d] = <<>>,
             batch' = batch, got' = got,
             \A c \in Conns : \/ send'[c] = send[c] \/ send'[c] = <<>> \/ send'[c] = <<Ctl>>
                              \/ send'[c] = Push(send[c], Ctl) \/ send'[c] = Push(<<>>, Ctl)
      PROVE  Within' /\ Between' /\ Unrouted'
  <2>1. Sent(<<Ctl>>) = {} /\ DistinctSent(<<Ctl>>)
    BY DEF Sent, DistinctSent
  <2>2. <<>> \in Seq(Frames)
    OBVIOUS
  <2>3. Sent(Push(<<>>, Ctl)) = {} /\ DistinctSent(Push(<<>>, Ctl))
    BY <2>2, SentPush, NumsEmpty
  <2>4. \A c \in Conns : Sent(send'[c]) \subseteq Sent(send[c]) /\ DistinctSent(send'[c])
    BY <1>a, <1>b, <1>c, <2>1, <2>3, SentPush, NumsEmpty
  <2> QED
    BY <1>a, <1>c, <2>4, Emptied
<1>1. ASSUME NEW c \in Conns, handleRegister(c) PROVE Within' /\ Between' /\ Unrouted'
  <2>1. hub'.op # "route"
    BY <1>1 DEF handleRegister, Idle
  <2> QED
    BY <1>1, <1>a, <1>c, <2>1 DEF handleRegister, storeVars
<1>2. ASSUME NEW c \in Conns, Ack(c) PROVE Within' /\ Between' /\ Unrouted'
  BY <1>2, <1>a, <1>c DEF Ack, storeVars
<1>3. ASSUME NEW c \in Conns, ReadEnd(c) \/ ServerClose(c) \/ LinkLost(c) \/ RouteRejected(c)
      PROVE  Within' /\ Between' /\ Unrouted'
  BY <1>3, <1>a, <1>c DEF ReadEnd, ServerClose, LinkLost, RouteRejected, storeVars
<1>4. ASSUME NEW c \in Conns, handleUnregister(c) PROVE Within' /\ Between' /\ Unrouted'
  <2> DEFINE cleared == [send EXCEPT ![c] = <<>>]
  <2>1. send' = broadcastPresence(cleared, clients', NoDev) \/ send' = cleared
    BY <1>4 DEF handleUnregister
  <2>2. \A e \in Conns : cleared[e] = send[e] \/ cleared[e] = <<>>
    BY <1>a
  <2> HIDE DEF cleared
  <2>3. \A e \in Conns : send'[e] = cleared[e] \/ send'[e] = Push(cleared[e], Ctl)
    BY <2>1 DEF broadcastPresence
  <2>4. \A e \in Conns : \/ send'[e] = send[e] \/ send'[e] = <<>>
                         \/ send'[e] = Push(send[e], Ctl) \/ send'[e] = Push(<<>>, Ctl)
    BY <2>2, <2>3
  <2> QED
    BY <1>4, <2>4, <1>a, <1>c DEF handleUnregister, storeVars
<1>5. ASSUME NEW c \in Conns, NEW p \in Pools, handleSetPool(c, p) PROVE Within' /\ Between' /\ Unrouted'
  <2>1. hub'.op # "route"
    BY <1>5 DEF handleSetPool, Idle
  <2> QED
    BY <1>5, <1>a, <1>c, <2>1 DEF handleSetPool, storeVars
<1>6. CASE RegisterReturn \/ SetPoolPut
  <2>1. \A e \in Conns : send'[e] = send[e] \/ send'[e] = Push(send[e], Ctl)
    BY <1>6 DEF RegisterReturn, SetPoolPut, broadcastPresence
  <2> QED
    BY <1>6, <2>1, <1>a, <1>c, IdleType DEF RegisterReturn, SetPoolPut, storeVars
<1>7. CASE RouteReturn
  BY <1>7, <1>a, <1>c, IdleType DEF RouteReturn, storeVars
<1>8. ASSUME NEW d \in Devices, DeleteDevice(d) PROVE Within' /\ Between' /\ Unrouted'
  BY <1>8, <1>a, <1>c DEF DeleteDevice, connVars
<1>9. ASSUME NEW d \in Devices, handleEvict(d) PROVE Within' /\ Between' /\ Unrouted'
  <2>1. \A e \in Conns : send'[e] = send[e] \/ send'[e] = Push(send[e], Ctl)
    BY <1>9 DEF handleEvict, broadcastPresence
  <2> QED
    BY <1>9, <2>1, <1>a, <1>c DEF handleEvict, storeVars
<1>10. CASE Crash
  <2>1. \A c \in Conns : send'[c] = <<>> /\ batch'[c] = <<>>
    BY <1>10 DEF Crash
  <2>2. \A c \in Conns : Sent(send'[c]) \subseteq Sent(send[c]) /\ DistinctSent(send'[c])
    BY <2>1, NumsEmpty
  <2> QED
    BY <1>10, <1>a, <2>1, <2>2, Emptied, IdleType DEF Crash, storeVars
<1>11. CASE UNCHANGED vars
  BY <1>11, <1>a, <1>c DEF vars
<1> QED
  BY <1>1, <1>2, <1>3, <1>4, <1>5, <1>6, <1>7, <1>8, <1>9, <1>10, <1>11

\* A connection that says hello carries nothing.
LEMMA HelloStep ==
    ASSUME IndInv, Once, NEW c \in Conns, NEW d \in Devices, Hello(c, d)
    PROVE  Within' /\ Between' /\ Unrouted'
<1>a. connDev \in [Conns -> Devices \cup {NoDev}]
  BY Types
<1>b. /\ connDev' = [connDev EXCEPT ![c] = d] /\ phase[c] = "fresh"
      /\ UNCHANGED <<queue, batch, send, got, hub, nextClip>>
  BY DEF Hello, storeVars
<1>c. Carried(c) = {}
  BY <1>b, NumsEmpty DEF Once, Unused, Carried
<1>d. \A e \in Conns : Carried(e)' = Carried(e) /\ (e # c => connDev'[e] = connDev[e])
  BY <1>a, <1>b DEF Carried
<1>1. Within'
  BY <1>b DEF Once, Within
<1>2. Between'
  BY <1>b, <1>c, <1>d DEF Once, Between
<1>3. Unrouted'
  BY <1>b, <1>c, <1>d DEF Once, Unrouted
<1> QED
  BY <1>1, <1>2, <1>3

\* The queue becomes the batch of one connection.
LEMMA DrainStep ==
    ASSUME IndInv, Once, NEW c \in Conns, DrainQueue(c)
    PROVE  Within' /\ Between' /\ Unrouted'
<1> DEFINE d == connDev[c]
<1>a. /\ queue \in [Devices -> Seq(Copies)] /\ batch \in [Conns -> Seq(Copies)] /\ d \in Devices
  BY Types DEF DrainQueue
<1>b. /\ batch' = [batch EXCEPT ![c] = queue[d]] /\ queue' = [queue EXCEPT ![d] = <<>>]
      /\ UNCHANGED <<connDev, send, got, hub, nextClip>>
  BY DEF DrainQueue
<1>c. Nums(queue'[d]) = {} /\ Distinct(queue'[d]) /\ \A x \in Devices \ {d} : queue'[x] = queue[x]
  BY <1>a, <1>b, NumsEmpty
<1>d. batch'[c] = queue[d] /\ \A e \in Conns \ {c} : batch'[e] = batch[e] /\ Carried(e)' = Carried(e)
  BY <1>a, <1>b DEF Carried
<1>e. Nums(queue[d]) \cap Carried(c) = {} /\ Carried(c)' \subseteq Nums(queue[d]) \cup Carried(c)
  BY <1>a, <1>b, <1>d DEF Once, Between, Carried
<1>1. Within'
  BY <1>a, <1>b, <1>c, <1>d DEF Once, Within
<1>2. Between'
  <2>1. \A e \in Conns : /\ Nums(batch'[e]) \cap Sent(send'[e]) = {}
                         /\ Nums(batch'[e]) \cap Sent(got'[e]) = {}
                         /\ Sent(send'[e]) \cap Sent(got'[e]) = {}
    BY <1>b, <1>d, <1>e DEF Once, Between, Carried
  <2>2. ASSUME NEW e \in Conns \ {c}, connDev[e] = d PROVE Carried(c)' \cap Carried(e)' = {}
    BY <1>a, <1>d, <1>e, <2>2 DEF Once, Between
  <2>3. ASSUME NEW e \in Conns, NEW x \in Conns, e # x, connDev'[e] = connDev'[x]
        PROVE  Carried(e)' \cap Carried(x)' = {}
    <3>1. CASE e = c
      BY <3>1, <2>2, <2>3, <1>b
    <3>2. CASE x = c
      BY <3>2, <2>2, <2>3, <1>b
    <3>3. CASE e # c /\ x # c
      BY <3>3, <2>3, <1>b, <1>d DEF Once, Between
    <3> QED
      BY <3>1, <3>2, <3>3
  <2>4. ASSUME NEW e \in Conns, connDev'[e] \in Devices PROVE Nums(queue'[connDev'[e]]) \cap Carried(e)' = {}
    <3>1. CASE connDev[e] = d
      BY <3>1, <1>b, <1>c
    <3>2. CASE connDev[e] # d
      BY <3>2, <2>4, <1>b, <1>c, <1>d DEF Once, Between
    <3> QED
      BY <3>1, <3>2
  <2> QED
    BY <2>1, <2>3, <2>4 DEF Between
<1>3. Unrouted'
  <2>1. \A x \in Devices : Nums(queue'[x]) \subseteq Nums(queue[x])
    BY <1>c
  <2>2. /\ \A x \in Devices : Nums(queue'[x]) \subseteq Accepted(nextClip')
        /\ \A e \in Conns : Carried(e)' \subseteq Accepted(nextClip')
    BY <1>a, <1>b, <1>d, <1>e, <2>1 DEF Once, Unrouted
  <2>3. ASSUME hub.op = "route", NEW x \in Devices, NEW m \in Due(hub, x)
        PROVE  /\ m \notin Nums(queue'[x])
               /\ \A e \in Conns : connDev[e] = x => m \notin Carried(e)'
    BY <1>d, <1>e, <2>1, <2>3 DEF Once, Unrouted
  <2> QED
    BY <1>b, <2>2, <2>3 DEF Unrouted
<1> QED
  BY <1>1, <1>2, <1>3

\* The next clip of a batch goes into the buffer.
LEMMA ReplayStep ==
    ASSUME IndInv, Once, RegisterReplay
    PROVE  Within' /\ Between' /\ Unrouted'
<1> DEFINE c == hub.conn
           n == Head(batch[c])
<1>a. /\ queue \in [Devices -> Seq(Copies)] /\ batch \in [Conns -> Seq(Copies)]
      /\ send \in [Conns -> Seq(Frames)] /\ nextClip \in Nat
  BY Types
<1>b. c \in Conns /\ batch[c] # <<>>
  BY DEF RegisterReplay, IndInv, TypeOK, HandlerInv
<1>c. /\ send' = [send EXCEPT ![c] = Append(send[c], Replay(n))]
      /\ batch' = [batch EXCEPT ![c] = Tail(batch[c])]
      /\ UNCHANGED <<queue, connDev, got, hub, nextClip>>
  BY DEF RegisterReplay, storeVars
<1> HIDE DEF c
<1>d. /\ n \in Copies /\ Nums(batch[c]) = {n} \cup Nums(Tail(batch[c]))
      /\ Distinct(Tail(batch[c])) /\ n \notin Nums(Tail(batch[c]))
  BY <1>a, <1>b, NumsTail DEF Once, Within
<1> HIDE DEF n
<1>e. Replay(n) \in Frames /\ Replay(n) # Ctl /\ Replay(n).clip = n
  BY <1>d, FrameType DEF Replay, Ctl
<1>f. n \notin Sent(send[c])
  BY <1>b, <1>d DEF Once, Between
<1>g. Sent(Append(send[c], Replay(n))) = Sent(send[c]) \cup {n} /\ DistinctSent(Append(send[c], Replay(n)))
  BY <1>a, <1>b, <1>e, <1>f, SentAppend DEF Once, Within
<1>h. /\ Nums(batch'[c]) = Nums(Tail(batch[c])) /\ Distinct(batch'[c])
      /\ Sent(send'[c]) = Sent(send[c]) \cup {n} /\ DistinctSent(send'[c])
      /\ \A e \in Conns \ {c} : batch'[e] = batch[e] /\ send'[e] = send[e]
  BY <1>a, <1>b, <1>c, <1>d, <1>g
<1>1. Within'
  BY <1>c, <1>h DEF Once, Within
<1>2. \A e \in Conns : Carried(e)' \subseteq Carried(e)
  BY <1>c, <1>d, <1>h DEF Carried
<1>3. \A e \in Conns : /\ Nums(batch'[e]) \cap Sent(send'[e]) = {}
                       /\ Nums(batch'[e]) \cap Sent(got'[e]) = {}
                       /\ Sent(send'[e]) \cap Sent(got'[e]) = {}
  BY <1>c, <1>d, <1>h DEF Once, Between
<1> QED
  BY <1>a, <1>c, <1>1, <1>2, <1>3, NothingNew DEF Once

\* writePump takes the head of a buffer.
LEMMA WriteStep ==
    ASSUME IndInv, Once, NEW c \in Conns, WriteFrame(c)
    PROVE  Within' /\ Between' /\ Unrouted'
<1> DEFINE f == Head(send[c])
<1>a. /\ send \in [Conns -> Seq(Frames)] /\ got \in [Conns -> Seq(Frames)]
      /\ nextClip \in Nat
  BY Types
<1>b. /\ send[c] # <<>> /\ send' = [send EXCEPT ![c] = Tail(send[c])]
      /\ UNCHANGED <<queue, batch, connDev, hub, nextClip>>
      /\ got' = got \/ (f # Ctl /\ got' = [got EXCEPT ![c] = Append(got[c], f)])
  BY DEF WriteFrame, storeVars
<1>c. /\ f \in Frames
      /\ Sent(send[c]) = IF f = Ctl THEN Sent(Tail(send[c])) ELSE {f.clip} \cup Sent(Tail(send[c]))
      /\ DistinctSent(Tail(send[c])) /\ (f # Ctl => f.clip \notin Sent(Tail(send[c])))
  BY <1>a, <1>b, SentTail DEF Once, Within
<1> HIDE DEF f
<1>d. /\ send'[c] = Tail(send[c]) /\ \A e \in Conns \ {c} : send'[e] = send[e]
      /\ Sent(send'[c]) \subseteq Sent(send[c]) /\ DistinctSent(send'[c])
  BY <1>a, <1>b, <1>c
<1>1. CASE got' = got
  <2>1. Within'
    BY <1>1, <1>b, <1>d DEF Once, Within
  <2>2. \A e \in Conns : Carried(e)' \subseteq Carried(e)
    BY <1>1, <1>b, <1>d DEF Carried
  <2>3. \A e \in Conns : /\ Nums(batch'[e]) \cap Sent(send'[e]) = {}
                         /\ Nums(batch'[e]) \cap Sent(got'[e]) = {}
                         /\ Sent(send'[e]) \cap Sent(got'[e]) = {}
    BY <1>1, <1>b, <1>d DEF Once, Between
  <2> QED
    BY <1>a, <1>b, <2>1, <2>2, <2>3, NothingNew DEF Once
<1>2. CASE f # Ctl /\ got' = [got EXCEPT ![c] = Append(got[c], f)]
  <2>a. f.clip \notin Sent(got[c]) /\ f.clip \in Sent(send[c])
    BY <1>2, <1>c DEF Once, Between
  <2>b. Sent(Append(got[c], f)) = Sent(got[c]) \cup {f.clip} /\ DistinctSent(Append(got[c], f))
    <3>1. got[c] \in Seq(Frames) /\ f \in Frames /\ DistinctSent(got[c])
      BY <1>a, <1>c DEF Once, Within
    <3> QED
      BY <1>2, <2>a, <3>1, SentAppend
  <2>c. /\ Sent(got'[c]) = Sent(got[c]) \cup {f.clip} /\ DistinctSent(got'[c])
        /\ \A e \in Conns \ {c} : got'[e] = got[e]
    BY <1>2, <1>a, <2>b
  <2>d. f.clip \notin Sent(send'[c])
    BY <1>2, <1>c, <1>d
  <2>1. Within'
    BY <1>b, <1>d, <2>c DEF Once, Within
  <2>2. \A e \in Conns : Carried(e)' \subseteq Carried(e)
    BY <1>b, <1>d, <2>a, <2>c DEF Carried
  <2>3. \A e \in Conns : /\ Nums(batch'[e]) \cap Sent(send'[e]) = {}
                         /\ Nums(batch'[e]) \cap Sent(got'[e]) = {}
                         /\ Sent(send'[e]) \cap Sent(got'[e]) = {}
    <3>1. ASSUME NEW e \in Conns \ {c}
          PROVE  /\ Nums(batch'[e]) \cap Sent(send'[e]) = {}
                 /\ Nums(batch'[e]) \cap Sent(got'[e]) = {}
                 /\ Sent(send'[e]) \cap Sent(got'[e]) = {}
      BY <1>b, <1>d, <2>c DEF Once, Between
    <3>2. /\ Nums(batch[c]) \cap Sent(send[c]) = {} /\ Nums(batch[c]) \cap Sent(got[c]) = {}
          /\ Sent(send[c]) \cap Sent(got[c]) = {}
      BY DEF Once, Between
    <3>3. /\ Nums(batch'[c]) \cap Sent(send'[c]) = {}
          /\ Nums(batch'[c]) \cap Sent(got'[c]) = {}
          /\ Sent(send'[c]) \cap Sent(got'[c]) = {}
      BY <3>2, <1>b, <1>d, <2>a, <2>c, <2>d
    <3> QED
      BY <3>1, <3>3
  <2> QED
    BY <1>a, <1>b, <2>1, <2>2, <2>3, NothingNew DEF Once
<1> QED
  BY <1>b, <1>1, <1>2

\* One clip is enqueued for a device that has it nowhere, or from a batch of it.
LEMMA RequeueStep ==
    ASSUME IndInv, Once, NEW c \in Conns, Requeue(c)
    PROVE  Within' /\ Between' /\ Unrouted'
<1> DEFINE d == connDev[c]
           n == Head(batch[c])
<1>a. /\ queue \in [Devices -> Seq(Copies)] /\ batch \in [Conns -> Seq(Copies)] /\ d \in Devices
      /\ Len(queue[d]) <= QueueDepth
  BY Types DEF Requeue
<1>b. batch[c] # <<>>
  BY DEF Requeue, IndInv, HandlerInv
<1>c. /\ queue' = [queue EXCEPT ![d] = StoreEnqueue(queue[d], n)]
      /\ batch' = [batch EXCEPT ![c] = Tail(batch[c])]
      /\ UNCHANGED <<connDev, send, got, hub, nextClip>>
  BY DEF Requeue
<1>d. /\ n \in Copies /\ Nums(batch[c]) = {n} \cup Nums(Tail(batch[c]))
      /\ Distinct(Tail(batch[c])) /\ n \notin Nums(Tail(batch[c]))
  BY <1>a, <1>b, NumsTail DEF Once, Within
<1> HIDE DEF n
<1>e. n \in Carried(c) /\ n \notin Nums(queue[d]) /\ n \notin Sent(send[c]) /\ n \notin Sent(got[c])
  BY <1>a, <1>d DEF Once, Between, Carried
<1>f. Nums(StoreEnqueue(queue[d], n)) \subseteq Nums(queue[d]) \cup {n} /\ Distinct(StoreEnqueue(queue[d], n))
  BY <1>a, <1>d, <1>e, NumsEnqueue DEF Once, Within
<1>g. /\ Nums(queue'[d]) \subseteq Nums(queue[d]) \cup {n} /\ Distinct(queue'[d])
      /\ \A x \in Devices \ {d} : queue'[x] = queue[x]
  BY <1>a, <1>c, <1>f
<1>h. /\ Nums(batch'[c]) = Nums(Tail(batch[c])) /\ Distinct(batch'[c])
      /\ \A e \in Conns \ {c} : batch'[e] = batch[e] /\ Carried(e)' = Carried(e)
  BY <1>a, <1>c, <1>d DEF Carried
<1>i. Carried(c)' \subseteq Carried(c) \ {n}
  BY <1>c, <1>d, <1>e, <1>h DEF Carried
<1>1. Within'
  BY <1>c, <1>g, <1>h DEF Once, Within
<1>2. Between'
  <2>1. \A e \in Conns : /\ Nums(batch'[e]) \cap Sent(send'[e]) = {}
                         /\ Nums(batch'[e]) \cap Sent(got'[e]) = {}
                         /\ Sent(send'[e]) \cap Sent(got'[e]) = {}
    BY <1>c, <1>d, <1>h DEF Once, Between
  <2>2. ASSUME NEW e \in Conns, NEW x \in Conns, e # x, connDev[e] = connDev[x]
        PROVE  Carried(e)' \cap Carried(x)' = {}
    BY <1>h, <1>i, <2>2 DEF Once, Between
  <2>3. ASSUME NEW e \in Conns, connDev[e] \in Devices PROVE Nums(queue'[connDev[e]]) \cap Carried(e)' = {}
    <3>1. CASE e = c
      BY <3>1, <1>a, <1>g, <1>i DEF Once, Between
    <3>2. CASE e # c /\ connDev[e] = d
      <4>1. n \notin Carried(e)
        BY <3>2, <1>e DEF Once, Between
      <4> QED
        BY <3>2, <4>1, <1>a, <1>g, <1>h DEF Once, Between
    <3>3. CASE connDev[e] # d
      BY <2>3, <3>3, <1>g, <1>h DEF Once, Between
    <3> QED
      BY <3>1, <3>2, <3>3
  <2> QED
    BY <1>c, <2>1, <2>2, <2>3 DEF Between
<1>3. Unrouted'
  <2>1. n \in Accepted(nextClip)
    BY <1>e DEF Once, Unrouted
  <2>2. \A x \in Devices : Nums(queue'[x]) \subseteq Accepted(nextClip)
    BY <2>1, <1>a, <1>g DEF Once, Unrouted
  <2>3. \A e \in Conns : Carried(e)' \subseteq Accepted(nextClip)
    BY <1>h, <1>i DEF Once, Unrouted
  <2>4. ASSUME hub.op = "route", NEW x \in Devices, NEW m \in Due(hub, x)
        PROVE  /\ m \notin Nums(queue'[x])
               /\ \A e \in Conns : connDev[e] = x => m \notin Carried(e)'
    <3>2. x = d => m # n
      BY <2>4, <1>e DEF Once, Unrouted
    <3>3. m \notin Nums(queue[x]) /\ \A e \in Conns : connDev[e] = x => m \notin Carried(e)
      BY <2>4 DEF Once, Unrouted
    <3> QED
      BY <3>2, <3>3, <1>g, <1>h, <1>i
  <2> QED
    BY <1>c, <2>2, <2>3, <2>4 DEF Unrouted
<1> QED
  BY <1>1, <1>2, <1>3

\* A clip reaches one of its targets.
LEMMA RouteStep ==
    ASSUME IndInv, Once, NEW d \in Devices, RouteTarget(d)
    PROVE  Within' /\ Between' /\ Unrouted'
<1> DEFINE n == <<hub.clip, hub.todo[d]>>
<1>a. /\ queue \in [Devices -> Seq(Copies)] /\ send \in [Conns -> Seq(Frames)] /\ hub.todo \in Tasks
      /\ Len(queue[d]) <= QueueDepth /\ clients \in [Devices -> Conns \cup {NoConn}]
  BY Types
<1>b. /\ hub.op = "route" /\ hub.todo[d] > 0
      /\ hub'.op = "route" /\ hub'.clip = hub.clip /\ hub'.todo = [hub.todo EXCEPT ![d] = @ - 1]
      /\ UNCHANGED <<connDev, batch, got, nextClip>>
  BY DEF RouteTarget, IndInv, TypeOK
<1>c. n \in Accepted(nextClip) /\ n \in Copies
  BY RoutedCopy
<1>h. /\ n \in Due(hub, d) /\ n \notin Due(hub', d)
      /\ \A x \in Devices : Due(hub', x) \subseteq Due(hub, x)
  BY <1>a, <1>b, DueLess
<1>d. n \notin Nums(queue[d]) /\ \A e \in Conns : connDev[e] = d => n \notin Carried(e)
  BY <1>b, <1>h DEF Once, Unrouted
<1>1. CASE clients[d] # NoConn /\ HasRoom(send[clients[d]])
  <2>0. PICK c \in Conns : c = clients[d]
    BY <1>1, <1>a
  <2>a. connDev[c] = d
    BY <1>1, <2>0 DEF IndInv, RegistryInv
  <2>b. send' = [send EXCEPT ![c] = Append(send[c], Live(n))] /\ UNCHANGED queue
    BY <1>1, <2>0 DEF RouteTarget
  <2> HIDE DEF n
  <2>c. Live(n) \in Frames /\ Live(n) # Ctl /\ Live(n).clip = n
    BY <1>c, FrameType DEF Live, Ctl
  <2>d. n \notin Sent(send[c]) /\ n \notin Nums(batch[c]) /\ n \notin Sent(got[c])
    BY <2>a, <1>d DEF Carried
  <2>e. Sent(Append(send[c], Live(n))) = Sent(send[c]) \cup {n} /\ DistinctSent(Append(send[c], Live(n)))
    BY <1>a, <2>a, <2>c, <2>d, SentAppend DEF Once, Within
  <2>f. /\ Sent(send'[c]) = Sent(send[c]) \cup {n} /\ DistinctSent(send'[c])
        /\ \A e \in Conns \ {c} : send'[e] = send[e] /\ Carried(e)' = Carried(e)
    BY <1>a, <1>b, <2>a, <2>b, <2>e DEF Carried
  <2>g. Carried(c)' \subseteq Carried(c) \cup {n}
    BY <1>b, <2>f DEF Carried
  <2>1. Within'
    BY <1>b, <2>b, <2>f DEF Once, Within
  <2>2. Between'
    <3>1. \A e \in Conns : /\ Nums(batch'[e]) \cap Sent(send'[e]) = {}
                           /\ Nums(batch'[e]) \cap Sent(got'[e]) = {}
                           /\ Sent(send'[e]) \cap Sent(got'[e]) = {}
      BY <1>b, <2>d, <2>f DEF Once, Between
    <3>2. ASSUME NEW e \in Conns, e # c, connDev[e] = d PROVE Carried(c)' \cap Carried(e)' = {}
      BY <3>2, <2>a, <2>f, <2>g, <1>d DEF Once, Between
    <3>3. ASSUME NEW e \in Conns, NEW x \in Conns, e # x, connDev[e] = connDev[x]
          PROVE  Carried(e)' \cap Carried(x)' = {}
      BY <2>a, <2>f, <3>2, <3>3 DEF Once, Between
    <3>4. ASSUME NEW e \in Conns, connDev[e] \in Devices PROVE Nums(queue[connDev[e]]) \cap Carried(e)' = {}
      BY <2>a, <2>f, <2>g, <1>d, <3>4 DEF Once, Between
    <3> QED
      BY <1>b, <2>b, <3>1, <3>3, <3>4 DEF Between
  <2>3. Unrouted'
    <3>1. \A e \in Conns : Carried(e)' \subseteq Accepted(nextClip)
      BY <1>c, <2>f, <2>g DEF Once, Unrouted
    <3>2. ASSUME NEW x \in Devices, NEW m \in Due(hub', x)
          PROVE  /\ m \notin Nums(queue[x])
                 /\ \A e \in Conns : connDev[e] = x => m \notin Carried(e)'
      <4>1. /\ m \notin Nums(queue[x]) /\ \A e \in Conns : connDev[e] = x => m \notin Carried(e)
            /\ x = d => m # n
        BY <1>b, <1>h DEF Once, Unrouted
      <4> QED
        BY <4>1, <2>a, <2>f, <2>g
    <3> QED
      BY <1>b, <2>b, <3>1, <3>2 DEF Once, Unrouted
  <2> QED
    BY <2>1, <2>2, <2>3
<1>2. CASE ~(clients[d] # NoConn /\ HasRoom(send[clients[d]]))
  <2>a. queue' = [queue EXCEPT ![d] = StoreEnqueue(queue[d], n)] /\ UNCHANGED send
    BY <1>2 DEF RouteTarget
  <2> HIDE DEF n
  <2>b. Nums(StoreEnqueue(queue[d], n)) \subseteq Nums(queue[d]) \cup {n} /\ Distinct(StoreEnqueue(queue[d], n))
    BY <1>a, <1>c, <1>d, NumsEnqueue DEF Once, Within
  <2>c. /\ Nums(queue'[d]) \subseteq Nums(queue[d]) \cup {n} /\ Distinct(queue'[d])
        /\ \A x \in Devices \ {d} : queue'[x] = queue[x]
    BY <1>a, <2>a, <2>b
  <2>d. \A e \in Conns : Carried(e)' = Carried(e)
    BY <1>b, <2>a DEF Carried
  <2>1. Within'
    BY <1>b, <2>a, <2>c DEF Once, Within
  <2>2. Between'
    <3>1. ASSUME NEW e \in Conns, connDev[e] \in Devices PROVE Nums(queue'[connDev[e]]) \cap Carried(e) = {}
      BY <3>1, <2>c, <1>d DEF Once, Between
    <3> QED
      BY <1>b, <2>a, <2>d, <3>1 DEF Once, Between
  <2>3. Unrouted'
    <3>1. \A x \in Devices : Nums(queue'[x]) \subseteq Accepted(nextClip)
      BY <1>c, <2>c DEF Once, Unrouted
    <3>2. ASSUME NEW x \in Devices, NEW m \in Due(hub', x)
          PROVE  /\ m \notin Nums(queue'[x])
                 /\ \A e \in Conns : connDev[e] = x => m \notin Carried(e)
      <4>1. /\ m \notin Nums(queue[x]) /\ \A e \in Conns : connDev[e] = x => m \notin Carried(e)
            /\ x = d => m # n
        BY <1>b, <1>h DEF Once, Unrouted
      <4> QED
        BY <4>1, <2>c
    <3> QED
      BY <1>b, <2>d, <3>1, <3>2 DEF Once, Unrouted
  <2> QED
    BY <2>1, <2>2, <2>3
<1> QED
  BY <1>1, <1>2

\* A clip is accepted: it is nowhere yet.
LEMMA AcceptStep ==
    ASSUME IndInv, Once,
           \/ \E c \in Conns : \E sel \in Selections : handleRoute(c, sel)
           \/ handleBroadcast
    PROVE  Within' /\ Between' /\ Unrouted'
<1>a. nextClip \in Nat
  BY Types
<1>b. /\ UNCHANGED <<queue, batch, send, got, connDev>> /\ nextClip' = nextClip + 1
      /\ hub'.op = "route" /\ hub'.clip = nextClip
  BY DEF handleRoute, handleBroadcast, storeVars, connVars
<1>d. \A e \in Conns : Carried(e)' = Carried(e)
  BY <1>b DEF Carried
<1>1. Within' /\ Between'
  BY <1>b, <1>d DEF Once, Within, Between
<1>2. Unrouted'
  <2>1. Accepted(nextClip) \subseteq Accepted(nextClip')
    BY <1>a, <1>b, MoreClips
  <2>3. /\ \A x \in Devices : Nums(queue'[x]) \subseteq Accepted(nextClip')
        /\ \A e \in Conns : Carried(e)' \subseteq Accepted(nextClip')
    BY <1>b, <1>d, <2>1 DEF Once, Unrouted
  <2>4. ASSUME NEW x \in Devices, NEW m \in Due(hub', x)
        PROVE  /\ m \notin Nums(queue'[x])
               /\ \A e \in Conns : connDev'[e] = x => m \notin Carried(e)'
    <3>1. m \notin Accepted(nextClip)
      BY <1>a, <1>b, DueNew
    <3> QED
      BY <1>b, <1>d, <3>1 DEF Once, Unrouted
  <2> QED
    BY <1>b, <2>3, <2>4 DEF Unrouted
<1> QED
  BY <1>1, <1>2

\* A purge drops what is too old.
LEMMA PurgeStep ==
    ASSUME IndInv, Once, IndInv', NEW k \in Clips, PurgeExpired(k)
    PROVE  Within' /\ Between' /\ Unrouted'
<1>a. /\ queue \in [Devices -> Seq(Copies)] /\ queue' \in [Devices -> Seq(Copies)]
      /\ nextClip \in Nat
  BY Types DEF IndInv, TypeOK
<1>b. /\ \A d \in Devices : Purged(queue[d], queue'[d], k)
      /\ UNCHANGED <<connDev, batch, send, got, hub, nextClip>>
  BY DEF PurgeExpired, connVars
<1>c. \A d \in Devices : Nums(queue'[d]) \subseteq Nums(queue[d]) /\ Distinct(queue'[d])
  BY <1>a, <1>b, NumsPurged DEF Once, Within
<1>1. Within'
  BY <1>b, <1>c DEF Once, Within
<1>2. \A e \in Conns : Carried(e)' = Carried(e)
  BY <1>b DEF Carried
<1>3. \A e \in Conns : /\ Nums(batch'[e]) \cap Sent(send'[e]) = {}
                       /\ Nums(batch'[e]) \cap Sent(got'[e]) = {}
                       /\ Sent(send'[e]) \cap Sent(got'[e]) = {}
  BY <1>b DEF Once, Between
<1> QED
  BY <1>a, <1>b, <1>c, <1>1, <1>2, <1>3, NothingNew DEF Once

\* Nothing is sent to a connection before it registers.
LEMMA UnusedStep ==
    ASSUME IndInv, IndInv', Unused, [Next]_vars
    PROVE  Unused'
<1> DEFINE Early == {"fresh", "validated", "drained"}
<1>a. /\ send \in [Conns -> Seq(Frames)] /\ got \in [Conns -> Seq(Frames)] /\ batch \in [Conns -> Seq(Copies)]
      /\ phase \in [Conns -> Phases] /\ clients \in [Devices -> Conns \cup {NoConn}]
      /\ clients' \in [Devices -> Conns \cup {NoConn}]
  BY Types DEF IndInv, TypeOK
<1>b. \A c \in Conns : phase[c] \in Early => \A d \in Devices : clients[d] # c
  <2>1. \A d \in Devices : clients[d] # NoConn => phase[clients[d]] \in Registered
    BY DEF IndInv, RegistryInv
  <2>2. Registered \cap Early = {}
    BY DEF Registered
  <2> QED
    BY <2>1, <2>2, RelayConstants
<1>c. \A c \in Conns : phase'[c] \in Early => \A d \in Devices : clients'[d] # c
  <2>1. \A d \in Devices : clients'[d] # NoConn => phase'[clients'[d]] \in Registered
    BY DEF IndInv, RegistryInv
  <2>2. Registered \cap Early = {}
    BY DEF Registered
  <2> QED
    BY <2>1, <2>2, RelayConstants
<1>d. \A c \in Conns : phase[c] \in Early => send[c] = <<>> /\ got[c] = <<>>
  BY DEF Unused
<1>e. ASSUME \A c \in Conns : phase'[c] \in Early => phase[c] \in Early /\ send'[c] = send[c] /\ got'[c] = got[c],
             \A c \in Conns : phase'[c] \in {"fresh", "validated"} =>
                                batch'[c] = batch[c] /\ phase[c] \in {"fresh", "validated"},
             \A c \in Conns : got'[c] = got[c]
                                \/ \E f \in Frames : f # Ctl /\ got'[c] = Append(got[c], f)
      PROVE  Unused'
  <2>1. \A c \in Conns : phase'[c] \in Early => send'[c] = <<>> /\ got'[c] = <<>>
    BY <1>d, <1>e
  <2>2. \A c \in Conns : phase'[c] \in {"fresh", "validated"} => batch'[c] = <<>>
    BY <1>e DEF Unused
  <2>3. ASSUME NEW c \in Conns PROVE \A i \in DOMAIN got'[c] : got'[c][i] # Ctl
    <3>1. got[c] \in Seq(Frames) /\ \A i \in DOMAIN got[c] : got[c][i] # Ctl
      BY <1>a DEF Unused
    <3>2. ASSUME NEW f \in Frames, f # Ctl, got'[c] = Append(got[c], f) PROVE \A i \in DOMAIN got'[c] : got'[c][i] # Ctl
      BY <3>1, <3>2
    <3> QED
      BY <1>e, <3>1, <3>2
  <2> QED
    BY <2>1, <2>2, <2>3 DEF Unused
<1>f. ASSUME send' = broadcastPresence(send, clients, NoDev) \/ send' = broadcastPresence(send, clients', NoDev)
                \/ (\E d \in Devices \cup {NoDev} : send' = broadcastPresence(send, clients, d)),
             \A c \in Conns : phase'[c] \in Early => phase[c] \in Early,
             \A c \in Conns : phase'[c] \in {"fresh", "validated"} => phase[c] \in {"fresh", "validated"},
             UNCHANGED <<got, batch>>
      PROVE  Unused'
  <2>1. ASSUME NEW c \in Conns, phase'[c] \in Early PROVE send'[c] = send[c]
    <3>1. (\A d \in Devices : clients[d] # c) /\ (\A d \in Devices : clients'[d] # c)
      BY <2>1, <1>b, <1>c, <1>f
    <3>2. \A x : broadcastPresence(send, clients, x)[c] = send[c]
      BY <3>1 DEF broadcastPresence
    <3>3. \A x : broadcastPresence(send, clients', x)[c] = send[c]
      BY <3>1 DEF broadcastPresence
    <3> QED
      BY <3>2, <3>3, <1>f, Zenon
  <2> QED
    BY <1>e, <1>f, <2>1
<1>1. ASSUME NEW c \in Conns, NEW d \in Devices, Hello(c, d) PROVE Unused'
  BY <1>1, <1>a, <1>e DEF Hello
<1>2. ASSUME NEW c \in Conns, DrainQueue(c) PROVE Unused'
  <2>1. /\ phase[c] = "validated" /\ phase'[c] = "drained" /\ UNCHANGED <<send, got>>
        /\ \A e \in Conns : e # c => phase'[e] = phase[e] /\ batch'[e] = batch[e]
    BY <1>2, <1>a DEF DrainQueue
  <2> QED
    BY <2>1, <1>e
<1>3. ASSUME NEW c \in Conns, handleRegister(c) PROVE Unused'
  <2>1. /\ phase'[c] = "registering" /\ UNCHANGED <<batch, got>>
        /\ \A e \in Conns : e # c => phase'[e] = phase[e] /\ send'[e] = send[e]
    BY <1>3, <1>a DEF handleRegister
  <2> QED
    BY <2>1, <1>e
<1>4. ASSUME NEW c \in Conns, Requeue(c) \/ Ack(c) PROVE Unused'
  BY <1>4, <1>a, <1>e DEF Requeue, Ack
<1>5. ASSUME NEW c \in Conns, \/ ReadEnd(c) \/ ServerClose(c) \/ LinkLost(c) \/ RouteRejected(c)
                              \/ (\E p \in Pools : handleSetPool(c, p))
                              \/ (\E sel \in Selections : handleRoute(c, sel))
      PROVE  Unused'
  BY <1>5, <1>a, <1>e DEF ReadEnd, ServerClose, LinkLost, RouteRejected, handleSetPool, handleRoute
<1>6. ASSUME NEW c \in Conns, handleUnregister(c) PROVE Unused'
  <2> DEFINE cleared == [send EXCEPT ![c] = <<>>]
  <2>1. send' = broadcastPresence(cleared, clients', NoDev) \/ send' = cleared
    BY <1>6 DEF handleUnregister
  <2>2. cleared \in [Conns -> Seq(Frames)] /\ \A e \in Conns : e # c => cleared[e] = send[e]
    BY <1>a
  <2> HIDE DEF cleared
  <2>3. \A e \in Conns : phase'[e] \in Early => e # c /\ phase[e] \in Early
    BY <1>6, <1>a DEF handleUnregister
  <2>4. ASSUME NEW e \in Conns, phase'[e] \in Early PROVE send'[e] = cleared[e]
    <3>1. \A d \in Devices : clients'[d] # e
      BY <1>c, <2>4
    <3>2. broadcastPresence(cleared, clients', NoDev)[e] = cleared[e]
      BY <3>1 DEF broadcastPresence
    <3> QED
      BY <2>1, <3>2
  <2> QED
    BY <1>6, <1>a, <1>e, <2>2, <2>3, <2>4 DEF handleUnregister
<1>7. ASSUME NEW c \in Conns, WriteFrame(c) PROVE Unused'
  <2>1. Head(send[c]) \in Frames /\ send[c] # <<>> /\ phase[c] \notin Early
    BY <1>7, <1>a, <1>d, SentTail DEF WriteFrame
  <2>2. /\ UNCHANGED <<phase, batch>>
        /\ \A e \in Conns : e # c => send'[e] = send[e] /\ got'[e] = got[e]
    BY <1>7, <1>a DEF WriteFrame
  <2>3. got'[c] = got[c] \/ (Head(send[c]) # Ctl /\ got'[c] = Append(got[c], Head(send[c])))
    BY <1>7, <1>a DEF WriteFrame
  <2> QED
    BY <2>1, <2>2, <2>3, <1>e
<1>8. CASE RegisterReplay
  <2>1. hub.conn \in Conns /\ phase[hub.conn] = "registering"
    BY <1>8 DEF RegisterReplay, IndInv, TypeOK, HandlerInv
  <2> QED
    BY <1>8, <2>1, <1>a, <1>e DEF RegisterReplay
<1>9. CASE RegisterReturn
  <2>1. hub.conn \in Conns /\ connDev[hub.conn] \in Devices
    BY <1>9 DEF RegisterReturn, IndInv, TypeOK, HandlerInv
  <2> QED
    BY <1>9, <2>1, <1>a, <1>f DEF RegisterReturn
<1>10. ASSUME NEW d \in Devices, RouteTarget(d) PROVE Unused'
  <2>1. \A c \in Conns : send'[c] = send[c] \/ c = clients[d]
    BY <1>10, <1>a DEF RouteTarget
  <2>2. UNCHANGED <<phase, batch, got>>
    BY <1>10 DEF RouteTarget
  <2> QED
    BY <2>1, <2>2, <1>b, <1>e
<1>11. CASE RouteReturn \/ handleBroadcast
  BY <1>11, <1>a, <1>e DEF RouteReturn, handleBroadcast, connVars
<1>12. CASE SetPoolPut
  BY <1>12, <1>a, <1>f DEF SetPoolPut
<1>13. ASSUME NEW d \in Devices, handleEvict(d) PROVE Unused'
  BY <1>13, <1>a, <1>e, <1>f DEF handleEvict
<1>14. ASSUME NEW d \in Devices, DeleteDevice(d) PROVE Unused'
  BY <1>14, <1>a, <1>e DEF DeleteDevice, connVars
<1>15. ASSUME NEW k \in Clips, PurgeExpired(k) PROVE Unused'
  BY <1>15, <1>a, <1>e DEF PurgeExpired, connVars
<1>16. CASE Crash
  BY <1>16, <1>a DEF Crash, Unused
<1>17. CASE UNCHANGED vars
  BY <1>17, <1>a, <1>e DEF vars
<1> QED
  BY <1>1, <1>2, <1>3, <1>4, <1>5, <1>6, <1>7, <1>8, <1>9, <1>10, <1>11, <1>12, <1>13, <1>14, <1>15,
     <1>16, <1>17 DEF Next, ServeStep, PumpStep, ClientStep, HubStep, AdminStep

\* Every step leaves one copy of a clip.
LEMMA OnceStep ==
    ASSUME IndInv, IndInv', Once, [Next]_vars
    PROVE  Once'
<1>1. Unused'
  BY UnusedStep DEF Once
<1>2. Within' /\ Between' /\ Unrouted'
  BY HelloStep, DrainStep, ReplayStep, WriteStep, RequeueStep, RouteStep, AcceptStep, PurgeStep, QuietStep
     DEF Once, Next, ServeStep, PumpStep, ClientStep, HubStep, AdminStep
<1> QED
  BY <1>1, <1>2 DEF Once

\* A place where a copy can be, and the clip there.
LEMMA SlotOf ==
    ASSUME NEW d \in Devices, NEW s \in Slots(d)
    PROVE  \/ \E i \in DOMAIN queue[d] : s = <<"queue", NoConn, i>> /\ ClipAt(d, s) = queue[d][i]
           \/ \E c \in Conns : connDev[c] = d /\
                \/ \E i \in DOMAIN batch[c] : s = <<"batch", c, i>> /\ ClipAt(d, s) = batch[c][i]
                \/ \E i \in DOMAIN send[c] : /\ s = <<"send", c, i>> /\ send[c][i] # Ctl
                                             /\ ClipAt(d, s) = send[c][i].clip
                \/ \E i \in DOMAIN got[c] : s = <<"got", c, i>> /\ ClipAt(d, s) = got[c][i].clip
<1>1. CASE \E i \in DOMAIN queue[d] : s = <<"queue", NoConn, i>>
  BY <1>1 DEF ClipAt
<1>2. ASSUME NEW c \in Conns, connDev[c] = d, NEW i \in DOMAIN batch[c], s = <<"batch", c, i>>
      PROVE  ClipAt(d, s) = batch[c][i]
  BY <1>2 DEF ClipAt
<1>3. ASSUME NEW c \in Conns, connDev[c] = d, NEW i \in DOMAIN send[c], s = <<"send", c, i>>
      PROVE  ClipAt(d, s) = send[c][i].clip
  BY <1>3 DEF ClipAt
<1>4. ASSUME NEW c \in Conns, connDev[c] = d, NEW i \in DOMAIN got[c], s = <<"got", c, i>>
      PROVE  ClipAt(d, s) = got[c][i].clip
  BY <1>4 DEF ClipAt
<1>5. \/ \E i \in DOMAIN queue[d] : s = <<"queue", NoConn, i>>
      \/ \E c \in Conns : connDev[c] = d /\
            \/ \E i \in DOMAIN batch[c] : s = <<"batch", c, i>>
            \/ \E i \in DOMAIN send[c] : s = <<"send", c, i>> /\ send[c][i] # Ctl
            \/ \E i \in DOMAIN got[c] : s = <<"got", c, i>>
  BY DEF Slots
<1> QED
  BY <1>1, <1>2, <1>3, <1>4, <1>5

\* Two copies of a clip for one device are the same copy.
LEMMA OnceSuffices == ASSUME Once PROVE AtMostOnce
<1> SUFFICES ASSUME NEW d \in Devices, NEW s \in Slots(d), NEW t \in Slots(d), ClipAt(d, s) = ClipAt(d, t)
             PROVE  s = t
  BY DEF AtMostOnce
<1> DEFINE n == ClipAt(d, s)
           InQueue(x) == \E i \in DOMAIN queue[d] : x = <<"queue", NoConn, i>> /\ queue[d][i] = n
           InBatch(x, c) == \E i \in DOMAIN batch[c] : x = <<"batch", c, i>> /\ batch[c][i] = n
           InSend(x, c) == \E i \in DOMAIN send[c] : x = <<"send", c, i>> /\ send[c][i] # Ctl /\ send[c][i].clip = n
           InGot(x, c) == \E i \in DOMAIN got[c] : x = <<"got", c, i>> /\ got[c][i] # Ctl /\ got[c][i].clip = n
<1>a. \A c \in Conns : \A i \in DOMAIN got[c] : got[c][i] # Ctl
  BY DEF Once, Unused
<1>b. ASSUME NEW x \in {s, t}
      PROVE  InQueue(x) \/ \E c \in Conns : connDev[c] = d /\ (InBatch(x, c) \/ InSend(x, c) \/ InGot(x, c))
  BY <1>a, SlotOf
<1>c. ASSUME NEW x, InQueue(x) PROVE n \in Nums(queue[d])
  BY <1>c DEF Nums
<1>d. ASSUME NEW x, NEW c \in Conns
      PROVE  /\ InBatch(x, c) => n \in Nums(batch[c])
             /\ InSend(x, c) => n \in Sent(send[c])
             /\ InGot(x, c) => n \in Sent(got[c])
             /\ InBatch(x, c) \/ InSend(x, c) \/ InGot(x, c) => n \in Carried(c)
  BY DEF Nums, Sent, Carried
<1>1. ASSUME InQueue(s), InQueue(t) PROVE s = t
  BY <1>1 DEF Once, Within, Distinct
<1>2. ASSUME NEW c \in Conns
      PROVE  /\ InBatch(s, c) /\ InBatch(t, c) => s = t
             /\ InSend(s, c) /\ InSend(t, c) => s = t
             /\ InGot(s, c) /\ InGot(t, c) => s = t
  BY DEF Once, Within, Distinct, DistinctSent
<1> HIDE DEF n, InQueue, InBatch, InSend, InGot
<1>3. ASSUME NEW x, NEW y, NEW c \in Conns, connDev[c] = d, InQueue(x),
             InBatch(y, c) \/ InSend(y, c) \/ InGot(y, c)
      PROVE  FALSE
  BY <1>3, <1>c, <1>d DEF Once, Between
<1>4. ASSUME NEW c \in Conns, connDev[c] = d, InBatch(s, c) \/ InSend(s, c) \/ InGot(s, c),
             NEW e \in Conns, connDev[e] = d, InBatch(t, e) \/ InSend(t, e) \/ InGot(t, e)
      PROVE  s = t
  <2>1. c = e
    BY <1>4, <1>d DEF Once, Between
  <2>2. /\ ~(n \in Nums(batch[c]) /\ n \in Sent(send[c]))
        /\ ~(n \in Nums(batch[c]) /\ n \in Sent(got[c]))
        /\ ~(n \in Sent(send[c]) /\ n \in Sent(got[c]))
    BY DEF Once, Between
  <2> QED
    BY <1>4, <1>2, <1>d, <2>1, <2>2
<1> QED
  BY <1>b, <1>1, <1>3, <1>4

\* At first there are no clips.
LEMMA OnceInit == Init => Once
BY NumsEmpty DEF Init, Once, Unused, Within, Between, Unrouted, Carried, Idle

\* No copy of a clip is doubled, so a device gets a clip at most as often as the target
\* list names it, for every number of devices, connections, clips and mentions and every
\* size of buffers and queues: Register drains the queue in one transaction, what does
\* not fit goes back, and a mention in the list puts the clip into the buffer or into
\* the queue but never both.
THEOREM DeliveredOnce == Spec => []AtMostOnce
<1>1. Init => Once
  BY OnceInit
<1>2. IndInv /\ IndInv' /\ Once /\ [Next]_vars => Once'
  BY OnceStep
<1>3. Once => AtMostOnce
  BY OnceSuffices
<1> QED
  BY <1>1, <1>2, <1>3, Invariance, PTL DEF Spec

(* ---------------------------------------------------------------------- *)
(* The queue before live clips                                             *)
(* ---------------------------------------------------------------------- *)

\* The kinds of frames after Append, Tail and Push.
LEMMA HasAppend ==
    ASSUME NEW s \in Seq(Frames), NEW f \in Frames
    PROVE  /\ \A k : Has(Append(s, f), k) => Has(s, k) \/ f.kind = k
           /\ Ordered(s) /\ (f.kind = "replay" => ~Has(s, "live")) => Ordered(Append(s, f))
<1>1. /\ Len(s) \in Nat
      /\ \A i \in 1..(Len(s) + 1) : Append(s, f)[i] = IF i <= Len(s) THEN s[i] ELSE f
      /\ DOMAIN s = 1..Len(s) /\ DOMAIN Append(s, f) = 1..(Len(s) + 1)
  OBVIOUS
<1> HIDE DEF Frames, Ctl
<1>3. ASSUME NEW i \in DOMAIN Append(s, f)
      PROVE  (i \in DOMAIN s /\ Append(s, f)[i] = s[i]) \/ (i = Len(s) + 1 /\ Append(s, f)[i] = f)
  BY <1>1
<1>4. ASSUME NEW i \in DOMAIN Append(s, f), NEW j \in DOMAIN Append(s, f), i < j PROVE i \in DOMAIN s
  BY <1>1, <1>4
<1>5. \A k : Has(Append(s, f), k) => Has(s, k) \/ f.kind = k
  BY <1>3 DEF Has
<1>6. ASSUME Ordered(s), f.kind = "replay" => ~Has(s, "live") PROVE Ordered(Append(s, f))
  <2> SUFFICES ASSUME NEW i \in DOMAIN Append(s, f), NEW j \in DOMAIN Append(s, f), i < j,
                      Append(s, f)[j].kind = "replay"
               PROVE  Append(s, f)[i].kind # "live"
    BY DEF Ordered
  <2>1. i \in DOMAIN s /\ Append(s, f)[i] = s[i]
    BY <1>1, <1>4
  <2>2. CASE j \in DOMAIN s /\ Append(s, f)[j] = s[j]
    BY <1>6, <2>1, <2>2 DEF Ordered
  <2>3. CASE Append(s, f)[j] = f
    BY <1>6, <2>1, <2>3 DEF Has
  <2> QED
    BY <1>3, <2>2, <2>3
<1> QED
  BY <1>5, <1>6

\* Taking the oldest frame keeps the order, and behind a live clip nothing is replayed.
LEMMA HasTail ==
    ASSUME NEW s \in Seq(Frames), s # <<>>
    PROVE  /\ \A k : Has(Tail(s), k) => Has(s, k)
           /\ Has(s, Head(s).kind)
           /\ Ordered(s) => Ordered(Tail(s)) /\ (Head(s).kind = "live" => ~Has(Tail(s), "replay"))
<1>1. /\ Head(s) = s[1] /\ Len(s) \in Nat /\ Len(s) > 0
      /\ \A i \in 1..(Len(s) - 1) : Tail(s)[i] = s[i + 1]
      /\ DOMAIN s = 1..Len(s) /\ DOMAIN Tail(s) = 1..(Len(s) - 1)
  OBVIOUS
<1> HIDE DEF Frames, Ctl
<1>2. ASSUME NEW i \in DOMAIN Tail(s) PROVE i + 1 \in DOMAIN s /\ Tail(s)[i] = s[i + 1] /\ 1 < i + 1
  BY <1>1
<1>3. ASSUME NEW i \in DOMAIN Tail(s), NEW j \in DOMAIN Tail(s), i < j PROVE i + 1 < j + 1
  BY <1>1, <1>3
<1>4. 1 \in DOMAIN s
  BY <1>1
<1>5. \A k : Has(Tail(s), k) => Has(s, k)
  BY <1>2 DEF Has
<1>6. Has(s, Head(s).kind)
  BY <1>1, <1>4 DEF Has
<1>7. ASSUME Ordered(s) PROVE Ordered(Tail(s))
  BY <1>2, <1>3, <1>7 DEF Ordered
<1>8. ASSUME Ordered(s), Head(s).kind = "live" PROVE ~Has(Tail(s), "replay")
  BY <1>1, <1>2, <1>4, <1>8 DEF Ordered, Has
<1> QED
  BY <1>5, <1>6, <1>7, <1>8

\* An empty buffer is in order.
LEMMA HasEmpty == (\A k : ~Has(<<>>, k)) /\ Ordered(<<>>)
BY DEF Has, Ordered

\* A frame without a clip adds neither a live nor a replayed one.
LEMMA HasPush ==
    ASSUME NEW s \in Seq(Frames)
    PROVE  /\ Has(Push(s, Ctl), "live") => Has(s, "live")
           /\ Has(Push(s, Ctl), "replay") => Has(s, "replay")
           /\ Ordered(s) => Ordered(Push(s, Ctl))
<1>1. Ctl \in Frames
  BY FrameType
<1>2. Ctl.kind # "live" /\ Ctl.kind # "replay"
  BY DEF Ctl
<1>3. /\ Has(Append(s, Ctl), "live") => Has(s, "live")
      /\ Has(Append(s, Ctl), "replay") => Has(s, "replay")
      /\ Ordered(s) => Ordered(Append(s, Ctl))
  BY <1>1, <1>2, HasAppend
<1> QED
  BY <1>3 DEF Push

\* A step that puts no clip into a buffer, and lets a connection begin to register
\* only with hello_ok as its first frame.
LEMMA CalmStep ==
    ASSUME Replayed, send \in [Conns -> Seq(Frames)], got' = got,
           \A c \in Conns : \/ send'[c] = send[c] \/ send'[c] = <<>> \/ send'[c] = <<Ctl>>
                            \/ send'[c] = Push(send[c], Ctl) \/ send'[c] = Push(<<>>, Ctl),
           \A c \in Conns : phase'[c] = "registering" =>
                              phase[c] = "registering" \/ (send'[c] = <<Ctl>> /\ got[c] = <<>>)
    PROVE  Replayed'
<1>0. <<Ctl>> \in Seq(Frames) /\ <<>> \in Seq(Frames) /\ \A c \in Conns : send[c] \in Seq(Frames)
  BY FrameType
<1>1. ~Has(<<Ctl>>, "live") /\ ~Has(<<Ctl>>, "replay") /\ Ordered(<<Ctl>>)
  BY DEF Has, Ordered, Ctl
<1>2. ~Has(Push(<<>>, Ctl), "live") /\ ~Has(Push(<<>>, Ctl), "replay") /\ Ordered(Push(<<>>, Ctl))
  BY <1>0, HasPush, HasEmpty
<1>3. ASSUME NEW c \in Conns
      PROVE  /\ Has(send'[c], "live") => Has(send[c], "live")
             /\ Has(send'[c], "replay") => Has(send[c], "replay")
             /\ Ordered(send'[c])
  <2>1. Ordered(send[c])
    BY DEF Replayed
  <2>2. /\ Has(Push(send[c], Ctl), "live") => Has(send[c], "live")
        /\ Has(Push(send[c], Ctl), "replay") => Has(send[c], "replay")
        /\ Ordered(Push(send[c], Ctl))
    BY <1>0, <2>1, HasPush
  <2> QED
    BY <1>1, <1>2, <2>1, <2>2, HasEmpty
<1>4. ASSUME NEW c \in Conns, phase'[c] = "registering" PROVE ~Has(got[c], "live") /\ ~Has(send'[c], "live")
  BY <1>1, <1>3, <1>4, HasEmpty DEF Replayed
<1> QED
  BY <1>3, <1>4 DEF Replayed

\* Every step keeps the queue before live clips.
LEMMA ReplayedStep ==
    ASSUME IndInv, Unused, Replayed, [Next]_vars
    PROVE  Replayed'
<1>a. /\ send \in [Conns -> Seq(Frames)] /\ got \in [Conns -> Seq(Frames)] /\ batch \in [Conns -> Seq(Copies)]
      /\ phase \in [Conns -> Phases] /\ clients \in [Devices -> Conns \cup {NoConn}]
  BY Types
<1>b. \A c \in Conns : phase[c] = "registering" <=> hub.op = "register" /\ hub.conn = c
  BY DEF IndInv, HandlerInv
<1>1. ASSUME NEW c \in Conns, \/ (\E d \in Devices : Hello(c, d)) \/ DrainQueue(c) \/ Requeue(c)
                              \/ ReadEnd(c) \/ ServerClose(c) \/ LinkLost(c) \/ RouteRejected(c)
                              \/ (\E p \in Pools : handleSetPool(c, p))
                              \/ (\E sel \in Selections : handleRoute(c, sel))
      PROVE  Replayed'
  <2>1. UNCHANGED <<send, got>>
    BY <1>1 DEF Hello, DrainQueue, Requeue, ReadEnd, ServerClose, LinkLost, RouteRejected, handleSetPool, handleRoute
  <2>2. \A e \in Conns : phase'[e] = "registering" => phase[e] = "registering"
    BY <1>1, <1>a DEF Hello, DrainQueue, Requeue, ReadEnd, ServerClose, LinkLost, RouteRejected,
                      handleSetPool, handleRoute
  <2> QED
    BY <1>a, <2>1, <2>2, CalmStep
<1>2. ASSUME NEW c \in Conns, handleRegister(c) PROVE Replayed'
  <2>1. /\ phase[c] = "drained" /\ got' = got /\ send'[c] = <<Ctl>>
        /\ \A e \in Conns : e # c => phase'[e] = phase[e] /\ send'[e] = send[e]
    BY <1>2, <1>a DEF handleRegister
  <2>2. got[c] = <<>>
    BY <2>1 DEF Unused
  <2> QED
    BY <1>a, <2>1, <2>2, CalmStep
<1>3. ASSUME NEW c \in Conns, Ack(c) PROVE Replayed'
  <2>1. /\ got' = got /\ phase'[c] = "reading" /\ send'[c] = Push(send[c], Ctl)
        /\ \A e \in Conns : e # c => phase'[e] = phase[e] /\ send'[e] = send[e]
    BY <1>3, <1>a DEF Ack
  <2> QED
    BY <1>a, <2>1, CalmStep
<1>4. ASSUME NEW c \in Conns, handleUnregister(c) PROVE Replayed'
  <2> DEFINE cleared == [send EXCEPT ![c] = <<>>]
  <2>1. send' = broadcastPresence(cleared, clients', NoDev) \/ send' = cleared
    BY <1>4 DEF handleUnregister
  <2>2. \A e \in Conns : cleared[e] = send[e] \/ cleared[e] = <<>>
    BY <1>a
  <2> HIDE DEF cleared
  <2>3. \A e \in Conns : send'[e] = cleared[e] \/ send'[e] = Push(cleared[e], Ctl)
    BY <2>1 DEF broadcastPresence
  <2>4. \A e \in Conns : \/ send'[e] = send[e] \/ send'[e] = <<>>
                         \/ send'[e] = Push(send[e], Ctl) \/ send'[e] = Push(<<>>, Ctl)
    BY <2>2, <2>3
  <2>5. got' = got /\ \A e \in Conns : phase'[e] = "registering" => phase[e] = "registering"
    BY <1>4, <1>a DEF handleUnregister
  <2> QED
    BY <1>a, <2>4, <2>5, CalmStep
<1>5. ASSUME NEW c \in Conns, WriteFrame(c) PROVE Replayed'
  <2> DEFINE f == Head(send[c])
  <2>a. /\ send[c] # <<>> /\ send' = [send EXCEPT ![c] = Tail(send[c])] /\ phase' = phase
        /\ got' = got \/ got' = [got EXCEPT ![c] = Append(got[c], f)]
    BY <1>5 DEF WriteFrame
  <2>b. send[c] \in Seq(Frames) /\ got[c] \in Seq(Frames)
    BY <1>a
  <2>c. f \in Frames
    BY <2>a, <2>b, SentTail
  <2>d. /\ Has(send[c], f.kind) /\ \A k : Has(Tail(send[c]), k) => Has(send[c], k)
        /\ Ordered(Tail(send[c])) /\ (f.kind = "live" => ~Has(Tail(send[c]), "replay"))
    BY <2>a, <2>b, HasTail DEF Replayed
  <2> HIDE DEF f
  <2>e. f.kind = "replay" => ~Has(got[c], "live")
    BY <2>d DEF Replayed
  <2>f. /\ Has(Append(got[c], f), "live") => Has(got[c], "live") \/ f.kind = "live"
        /\ Ordered(Append(got[c], f))
    BY <2>b, <2>c, <2>e, HasAppend DEF Replayed
  <2>g. /\ send'[c] = Tail(send[c]) /\ (got'[c] = got[c] \/ got'[c] = Append(got[c], f))
        /\ \A e \in Conns : e # c => send'[e] = send[e] /\ got'[e] = got[e]
    BY <1>a, <2>a
  <2>1. ASSUME phase[c] = "registering" PROVE ~Has(got'[c], "live") /\ ~Has(send'[c], "live")
    <3>1. ~Has(got[c], "live") /\ ~Has(send[c], "live")
      BY <2>1 DEF Replayed
    <3>2. f.kind # "live"
      BY <3>1, <2>d
    <3> QED
      BY <3>1, <3>2, <2>d, <2>f, <2>g
  <2>2. Ordered(got'[c]) /\ Ordered(send'[c])
    BY <2>d, <2>f, <2>g DEF Replayed
  <2>3. Has(got'[c], "live") => ~Has(send'[c], "replay")
    BY <2>d, <2>f, <2>g DEF Replayed
  <2> QED
    BY <2>a, <2>g, <2>1, <2>2, <2>3 DEF Replayed
<1>6. CASE RegisterReplay
  <2>0. PICK c : c = hub.conn
    OBVIOUS
  <2>1. c \in Conns /\ phase[c] = "registering" /\ batch[c] # <<>>
    BY <1>6, <2>0 DEF RegisterReplay, IndInv, TypeOK, HandlerInv
  <2>2. PICK n : n = Head(batch[c])
    OBVIOUS
  <2>3. n \in Copies
    BY <1>a, <2>1, <2>2, NumsTail
  <2>4. send' = [send EXCEPT ![c] = Append(send[c], Replay(n))] /\ got' = got /\ phase' = phase
    BY <1>6, <2>0, <2>2 DEF RegisterReplay
  <2>5. Replay(n) \in Frames /\ Replay(n).kind = "replay"
    BY <2>3, FrameType DEF Replay
  <2>6. ~Has(got[c], "live") /\ ~Has(send[c], "live") /\ Ordered(send[c])
    BY <2>1 DEF Replayed
  <2>7. ~Has(Append(send[c], Replay(n)), "live") /\ Ordered(Append(send[c], Replay(n)))
    BY <1>a, <2>1, <2>5, <2>6, HasAppend
  <2>8. send'[c] = Append(send[c], Replay(n)) /\ \A e \in Conns : e # c => send'[e] = send[e]
    BY <1>a, <2>1, <2>4
  <2> QED
    BY <2>4, <2>6, <2>7, <2>8 DEF Replayed
<1>7. ASSUME NEW d \in Devices, RouteTarget(d) PROVE Replayed'
  <2>1. got' = got /\ phase' = phase /\ hub.op = "route"
    BY <1>7 DEF RouteTarget
  <2>2. CASE clients[d] # NoConn /\ HasRoom(send[clients[d]])
    <3>0. PICK c \in Conns : c = clients[d]
      BY <2>2, <1>a
    <3>1. PICK n : n = <<hub.clip, hub.todo[d]>>
      OBVIOUS
    <3>2. n \in Copies
      BY <1>7, <3>1, RoutedCopy
    <3>3. send' = [send EXCEPT ![c] = Append(send[c], Live(n))]
      BY <1>7, <2>2, <3>0, <3>1 DEF RouteTarget
    <3>4. Live(n) \in Frames /\ Live(n).kind = "live"
      BY <3>2, FrameType DEF Live
    <3>5. send'[c] = Append(send[c], Live(n)) /\ \A e \in Conns : e # c => send'[e] = send[e]
      BY <1>a, <3>3
    <3>6. /\ Has(Append(send[c], Live(n)), "replay") => Has(send[c], "replay")
          /\ Ordered(Append(send[c], Live(n)))
      BY <1>a, <3>4, HasAppend DEF Replayed
    <3>7. \A e \in Conns : phase[e] # "registering"
      BY <1>b, <2>1
    <3> QED
      BY <2>1, <3>5, <3>6, <3>7 DEF Replayed
  <2>3. CASE ~(clients[d] # NoConn /\ HasRoom(send[clients[d]]))
    <3>1. send' = send
      BY <1>7, <2>3 DEF RouteTarget
    <3> QED
      BY <1>a, <2>1, <3>1, CalmStep
  <2> QED
    BY <2>2, <2>3
<1>8. CASE RegisterReturn \/ SetPoolPut
  <2>1. \A e \in Conns : send'[e] = send[e] \/ send'[e] = Push(send[e], Ctl)
    BY <1>8 DEF RegisterReturn, SetPoolPut, broadcastPresence
  <2>2. got' = got /\ \A e \in Conns : phase'[e] = "registering" => phase[e] = "registering"
    BY <1>8, <1>a DEF RegisterReturn, SetPoolPut
  <2> QED
    BY <1>a, <2>1, <2>2, CalmStep
<1>9. ASSUME NEW d \in Devices, handleEvict(d) PROVE Replayed'
  <2>1. \A e \in Conns : send'[e] = send[e] \/ send'[e] = Push(send[e], Ctl)
    BY <1>9 DEF handleEvict, broadcastPresence
  <2>2. got' = got /\ phase' = phase
    BY <1>9 DEF handleEvict
  <2> QED
    BY <1>a, <2>1, <2>2, CalmStep
<1>10. CASE \/ RouteReturn \/ handleBroadcast \/ UNCHANGED vars
            \/ (\E d \in Devices : DeleteDevice(d)) \/ (\E k \in Clips : PurgeExpired(k))
  <2>1. UNCHANGED <<send, got>> /\ \A e \in Conns : phase'[e] = "registering" => phase[e] = "registering"
    BY <1>10 DEF RouteReturn, handleBroadcast, DeleteDevice, PurgeExpired, connVars, vars
  <2> QED
    BY <1>a, <2>1, CalmStep
<1>11. CASE Crash
  <2>1. got' = got /\ \A e \in Conns : phase'[e] # "registering" /\ send'[e] = <<>>
    BY <1>11 DEF Crash
  <2> QED
    BY <1>a, <2>1, CalmStep
<1> QED
  BY <1>1, <1>2, <1>3, <1>4, <1>5, <1>6, <1>7, <1>8, <1>9, <1>10, <1>11
     DEF Next, ServeStep, PumpStep, ClientStep, HubStep, AdminStep

\* What a device received followed by what is still buffered for it is in order.
LEMMA ReplayedSuffices == ASSUME IndInv, Replayed PROVE ReplayFirst
<1> SUFFICES ASSUME NEW c \in Conns
             PROVE  \A i, j \in DOMAIN (got[c] \o send[c]) :
                      i < j /\ (got[c] \o send[c])[j].kind = "replay" => (got[c] \o send[c])[i].kind # "live"
  BY DEF ReplayFirst
<1>0. PICK g, s : g = got[c] /\ s = send[c]
  OBVIOUS
<1>a. g \in Seq(Frames) /\ s \in Seq(Frames)
  BY <1>0, Types
<1>b. Ordered(g) /\ Ordered(s) /\ (Has(g, "live") => ~Has(s, "replay"))
  BY <1>0 DEF Replayed
<1>c. /\ Len(g) \in Nat /\ Len(s) \in Nat /\ DOMAIN g = 1..Len(g) /\ DOMAIN s = 1..Len(s)
      /\ DOMAIN (g \o s) = 1..(Len(g) + Len(s))
      /\ \A i \in 1..(Len(g) + Len(s)) : (g \o s)[i] = IF i <= Len(g) THEN g[i] ELSE s[i - Len(g)]
  BY <1>a
<1>d. ASSUME NEW i \in DOMAIN (g \o s)
      PROVE  \/ i \in DOMAIN g /\ (g \o s)[i] = g[i]
             \/ i - Len(g) \in DOMAIN s /\ (g \o s)[i] = s[i - Len(g)] /\ i > Len(g)
  BY <1>c
<1>1. ASSUME NEW i \in DOMAIN (g \o s), NEW j \in DOMAIN (g \o s), i < j, (g \o s)[j].kind = "replay"
      PROVE  (g \o s)[i].kind # "live"
  <2>1. CASE j \in DOMAIN g /\ (g \o s)[j] = g[j]
    <3>1. i \in DOMAIN g /\ (g \o s)[i] = g[i]
      BY <1>c, <1>1, <2>1
    <3> QED
      BY <3>1, <2>1, <1>1, <1>b DEF Ordered
  <2>2. CASE /\ j - Len(g) \in DOMAIN s /\ (g \o s)[j] = s[j - Len(g)]
             /\ i \in DOMAIN g /\ (g \o s)[i] = g[i]
    BY <2>2, <1>1, <1>b DEF Has
  <2>3. CASE /\ j - Len(g) \in DOMAIN s /\ (g \o s)[j] = s[j - Len(g)]
             /\ i - Len(g) \in DOMAIN s /\ (g \o s)[i] = s[i - Len(g)]
    <3>1. i - Len(g) < j - Len(g)
      BY <1>c, <1>1
    <3> QED
      BY <3>1, <2>3, <1>1, <1>b DEF Ordered
  <2> QED
    BY <1>d, <2>1, <2>2, <2>3
<1> QED
  BY <1>0, <1>1

\* At first nothing was sent.
LEMMA ReplayedInit == Init => Replayed
BY HasEmpty DEF Init, Replayed

\* On every connection the queued clips come before the live ones, for every number
\* of devices and connections and every size of the buffers: the hub routes nothing
\* while it registers a connection, and a tail that does not fit is never replayed on
\* the same connection.
THEOREM ReplayComesFirst == Spec => []ReplayFirst
<1>1. Init => Once /\ Replayed
  BY OnceInit, ReplayedInit
<1>2. IndInv /\ IndInv' /\ Once /\ Replayed /\ [Next]_vars => Once' /\ Replayed'
  BY OnceStep, ReplayedStep DEF Once
<1>3. IndInv /\ Replayed => ReplayFirst
  BY ReplayedSuffices
<1> QED
  BY <1>1, <1>2, <1>3, Invariance, PTL DEF Spec

(* ---------------------------------------------------------------------- *)
(* Clips that are lost                                                     *)
(* ---------------------------------------------------------------------- *)

\* The clips held for a device, by place.
Held(d) == Nums(queue[d]) \cup UNION {Carried(c) : c \in {e \in Conns : connDev[e] = d}}

\* A connection leaves only once its peer is gone.
Left == \A c \in Conns : phase[c] = "leaving" => link[c] # "up"

\* The clips in the slots of a device are those of its queue and its connections.
LEMMA HeldIs == Unused => \A d \in Devices : ClipsHeld(d) = Held(d)
<1> SUFFICES ASSUME Unused, NEW d \in Devices PROVE ClipsHeld(d) = Held(d)
  OBVIOUS
<1>1. ASSUME NEW n \in ClipsHeld(d) PROVE n \in Held(d)
  <2>1. PICK s \in Slots(d) : n = ClipAt(d, s)
    BY DEF ClipsHeld
  <2>2. n \in Nums(queue[d]) \/ \E c \in Conns : connDev[c] = d /\ n \in Carried(c)
    BY <2>1, SlotOf DEF Unused, Nums, Sent, Carried
  <2> QED
    BY <2>2 DEF Held
<1>2. ASSUME NEW n \in Nums(queue[d]) PROVE n \in ClipsHeld(d)
  <2>1. PICK i \in DOMAIN queue[d] : n = queue[d][i]
    BY DEF Nums
  <2>2. <<"queue", NoConn, i>> \in Slots(d) /\ ClipAt(d, <<"queue", NoConn, i>>) = n
    BY <2>1 DEF Slots, ClipAt
  <2> QED
    BY <2>2 DEF ClipsHeld
<1>3. ASSUME NEW c \in Conns, connDev[c] = d, NEW n \in Carried(c) PROVE n \in ClipsHeld(d)
  <2>1. CASE n \in Nums(batch[c])
    <3>1. PICK i \in DOMAIN batch[c] : n = batch[c][i]
      BY <2>1 DEF Nums
    <3>2. <<"batch", c, i>> \in Slots(d) /\ ClipAt(d, <<"batch", c, i>>) = n
      BY <1>3, <3>1 DEF Slots, ClipAt
    <3> QED
      BY <3>2 DEF ClipsHeld
  <2>2. CASE n \in Sent(send[c])
    <3>1. PICK i \in DOMAIN send[c] : send[c][i] # Ctl /\ n = send[c][i].clip
      BY <2>2 DEF Sent
    <3>2. <<"send", c, i>> \in Slots(d) /\ ClipAt(d, <<"send", c, i>>) = n
      BY <1>3, <3>1 DEF Slots, ClipAt
    <3> QED
      BY <3>2 DEF ClipsHeld
  <2>3. CASE n \in Sent(got[c])
    <3>1. PICK i \in DOMAIN got[c] : n = got[c][i].clip
      BY <2>3 DEF Sent
    <3>2. <<"got", c, i>> \in Slots(d) /\ ClipAt(d, <<"got", c, i>>) = n
      BY <1>3, <3>1 DEF Slots, ClipAt
    <3> QED
      BY <3>2 DEF ClipsHeld
  <2> QED
    BY <2>1, <2>2, <2>3 DEF Carried
<1> QED
  BY <1>1, <1>2, <1>3 DEF Held

\* The same after a step.
LEMMA HeldNext == Unused' => (\A d \in Devices : ClipsHeld(d) = Held(d))'
BY HeldIs, PTL

\* A link comes up only for a fresh connection, and readPump ends only with its link.
LEMMA LeftStep ==
    ASSUME IndInv, Left, [Next]_vars
    PROVE  Left'
<1>a. phase \in [Conns -> Phases] /\ link \in [Conns -> {"up", "half", "down"}]
  BY DEF IndInv, TypeOK
<1>b. ASSUME \A c \in Conns : phase'[c] = "leaving" => phase[c] = "leaving" \/ link'[c] # "up",
             \A c \in Conns : link'[c] = "up" => link[c] = "up" \/ phase'[c] # "leaving"
      PROVE  Left'
  BY <1>b DEF Left
<1>1. ASSUME NEW c \in Conns, NEW d \in Devices, Hello(c, d) PROVE Left'
  BY <1>1, <1>a, <1>b DEF Hello
<1>2. ASSUME NEW c \in Conns, DrainQueue(c) \/ handleRegister(c) \/ Requeue(c) \/ Ack(c)
      PROVE Left'
  BY <1>2, <1>a, <1>b DEF DrainQueue, handleRegister, Requeue, Ack
<1>3. ASSUME NEW c \in Conns, ReadEnd(c) \/ handleUnregister(c) \/ ServerClose(c) \/ LinkLost(c) PROVE Left'
  BY <1>3, <1>a, <1>b DEF ReadEnd, handleUnregister, ServerClose, LinkLost
<1>4. ASSUME NEW c \in Conns, WriteFrame(c) \/ RouteRejected(c) PROVE Left'
  BY <1>4, <1>a, <1>b DEF WriteFrame, RouteRejected
<1>5. ASSUME NEW c \in Conns, (\E p \in Pools : handleSetPool(c, p)) \/ (\E sel \in Selections : handleRoute(c, sel))
      PROVE Left'
  BY <1>5, <1>a, <1>b DEF handleSetPool, handleRoute
<1>6. CASE HubStep
  <2>1. link' = link /\ \A c \in Conns : phase'[c] = "leaving" => phase[c] = "leaving"
    BY <1>6, <1>a DEF HubStep, RegisterReplay, RegisterReturn, RouteTarget, RouteReturn, SetPoolPut
  <2> QED
    BY <2>1, <1>b
<1>7. CASE AdminStep
  <2>1. CASE Crash
    BY <2>1, <1>a, <1>b DEF Crash
  <2>2. CASE ~Crash
    <3>1. UNCHANGED <<link, phase>>
      BY <1>7, <2>2 DEF AdminStep, handleBroadcast, DeleteDevice, handleEvict, PurgeExpired, connVars
    <3> QED
      BY <3>1, <1>b
  <2> QED
    BY <2>1, <2>2
<1>8. CASE UNCHANGED vars
  BY <1>8, <1>b DEF vars
<1> QED
  BY <1>1, <1>2, <1>3, <1>4, <1>5, <1>6, <1>7, <1>8 DEF Next, ServeStep, PumpStep, ClientStep

\* A step drops a clip only for one of the reasons.
LEMMA LossStep ==
    ASSUME IndInv, Unused, Left, [Next]_vars, NEW d \in Devices, NEW n \in Held(d), n \notin Held(d)'
    PROVE  LossReason(d, n)
<1>a. /\ queue \in [Devices -> Seq(Copies)] /\ batch \in [Conns -> Seq(Copies)]
      /\ send \in [Conns -> Seq(Frames)] /\ got \in [Conns -> Seq(Frames)]
      /\ connDev \in [Conns -> Devices \cup {NoDev}] /\ phase \in [Conns -> Phases]
      /\ \A x \in Devices : Len(queue[x]) <= QueueDepth
      /\ \A c \in Conns : phase[c] # "fresh" => connDev[c] \in Devices
  BY Types
<1>b. \/ n \in Nums(queue[d])
      \/ \E c \in Conns : connDev[c] = d /\ (n \in Nums(batch[c]) \/ n \in Sent(send[c]) \/ n \in Sent(got[c]))
  BY DEF Held, Carried
<1>c. /\ n \notin Nums(queue'[d])
      /\ \A c \in Conns : connDev'[c] = d => /\ n \notin Nums(batch'[c])
                                             /\ n \notin Sent(send'[c]) /\ n \notin Sent(got'[c])
  BY DEF Held, Carried
<1>d. ASSUME NEW c \in Conns, connDev[c] = d, link[c] # "up", n \in Sent(send[c]) PROVE LossReason(d, n)
  BY <1>d DEF LossReason, Sent
<1>e. ASSUME connDev' = connDev, queue'[d] = queue[d], UNCHANGED <<batch, got>>,
             \A c \in Conns : Sent(send'[c]) = Sent(send[c])
      PROVE  FALSE
  BY <1>b, <1>c, <1>e
<1>f. ASSUME NEW m \in Copies, queue' = [queue EXCEPT ![d] = StoreEnqueue(queue[d], m)], n \in Nums(queue[d])
      PROVE  LossReason(d, n)
  <2>1. queue[d] \in Seq(Copies) /\ Len(queue[d]) <= QueueDepth /\ queue'[d] = StoreEnqueue(queue[d], m)
    BY <1>a, <1>f
  <2>2. n \notin Nums(StoreEnqueue(queue[d], m))
    BY <1>c, <2>1
  <2>3. Len(queue[d]) = QueueDepth /\ n = Head(queue[d])
    BY <2>1, <2>2, <1>f, NumsEnqueue
  <2> QED
    BY <2>3 DEF LossReason
<1>1. ASSUME NEW c \in Conns, NEW x \in Devices, Hello(c, x) PROVE LossReason(d, n)
  <2>1. phase[c] = "fresh" /\ connDev' = [connDev EXCEPT ![c] = x] /\ UNCHANGED <<queue, batch, send, got>>
    BY <1>1 DEF Hello, storeVars
  <2>2. Nums(batch[c]) = {} /\ Sent(send[c]) = {} /\ Sent(got[c]) = {}
    BY <2>1, NumsEmpty DEF Unused
  <2>3. \A e \in Conns : e # c => connDev'[e] = connDev[e]
    BY <1>a, <2>1
  <2> QED
    BY <1>b, <1>c, <2>1, <2>2, <2>3
<1>2. ASSUME NEW c \in Conns, DrainQueue(c) PROVE LossReason(d, n)
  <2>1. /\ phase[c] = "validated" /\ connDev[c] \in Devices /\ UNCHANGED <<connDev, send, got>>
        /\ batch' = [batch EXCEPT ![c] = queue[connDev[c]]] /\ queue' = [queue EXCEPT ![connDev[c]] = <<>>]
    BY <1>2, <1>a DEF DrainQueue
  <2>2. batch'[c] = queue[connDev[c]] /\ \A e \in Conns : e # c => batch'[e] = batch[e]
    BY <1>a, <2>1
  <2>3. \A x \in Devices : x # connDev[c] => queue'[x] = queue[x]
    BY <1>a, <2>1
  <2>4. CASE n \in Nums(queue[d])
    BY <1>c, <2>1, <2>2, <2>3, <2>4
  <2>5. ASSUME NEW e \in Conns, connDev[e] = d, n \in Nums(batch[e]) PROVE LossReason(d, n)
    <3>1. Nums(batch[c]) = {}
      BY <2>1, NumsEmpty DEF Unused
    <3> QED
      BY <2>5, <3>1, <1>c, <2>1, <2>2
  <2> QED
    BY <1>b, <1>c, <2>1, <2>4, <2>5
<1>3. ASSUME NEW c \in Conns, handleRegister(c) PROVE LossReason(d, n)
  <2>1. /\ phase[c] = "drained" /\ UNCHANGED <<connDev, queue, batch, got>>
        /\ send'[c] = <<Ctl>> /\ \A e \in Conns : e # c => send'[e] = send[e]
    BY <1>3, <1>a DEF handleRegister, storeVars
  <2>2. Sent(<<Ctl>>) = {}
    BY DEF Sent
  <2>3. Sent(send[c]) = {}
    BY <2>1, NumsEmpty DEF Unused
  <2> QED
    BY <2>1, <2>2, <2>3, <1>e
<1>4. ASSUME NEW c \in Conns, Requeue(c) PROVE LossReason(d, n)
  <2>0. PICK x, m : x = connDev[c] /\ m = Head(batch[c])
    OBVIOUS
  <2>1. phase[c] = "requeue" /\ batch[c] # <<>> /\ x \in Devices
    BY <1>4, <1>a, <2>0 DEF Requeue, IndInv, HandlerInv
  <2>2. m \in Copies /\ Nums(batch[c]) = {m} \cup Nums(Tail(batch[c]))
    BY <1>a, <2>0, <2>1, NumsTail
  <2>3. /\ UNCHANGED <<connDev, send, got>> /\ queue' = [queue EXCEPT ![x] = StoreEnqueue(queue[x], m)]
        /\ batch' = [batch EXCEPT ![c] = Tail(batch[c])]
    BY <1>4, <2>0 DEF Requeue
  <2>4. batch'[c] = Tail(batch[c]) /\ \A e \in Conns : e # c => batch'[e] = batch[e]
    BY <1>a, <2>3
  <2>5. m \in Nums(queue'[x]) /\ \A y \in Devices : y # x => queue'[y] = queue[y]
    BY <1>a, <2>1, <2>2, <2>3, NumsEnqueue
  <2>6. CASE n \in Nums(queue[d])
    <3>1. x = d
      BY <1>c, <2>5, <2>6
    <3> QED
      BY <3>1, <2>2, <2>3, <2>6, <1>f
  <2>7. ASSUME NEW e \in Conns, connDev[e] = d, n \in Nums(batch[e]) PROVE FALSE
    BY <2>7, <1>c, <2>0, <2>2, <2>3, <2>4, <2>5
  <2> QED
    BY <1>b, <1>c, <2>3, <2>6, <2>7
<1>5. ASSUME NEW c \in Conns, Ack(c) PROVE LossReason(d, n)
  <2>1. UNCHANGED <<connDev, queue, batch, got>> /\ \A e \in Conns : send'[e] = send[e] \/ send'[e] = Push(send[e], Ctl)
    BY <1>5, <1>a DEF Ack, storeVars
  <2> QED
    BY <1>a, <2>1, <1>e, SentPush
<1>6. ASSUME NEW c \in Conns, handleUnregister(c) PROVE LossReason(d, n)
  <2> DEFINE cleared == [send EXCEPT ![c] = <<>>]
  <2>1. send' = broadcastPresence(cleared, clients', NoDev) \/ send' = cleared
    BY <1>6 DEF handleUnregister
  <2>2. cleared \in [Conns -> Seq(Frames)] /\ \A e \in Conns : e # c => cleared[e] = send[e]
    BY <1>a
  <2> HIDE DEF cleared
  <2>3. \A e \in Conns : send'[e] = cleared[e] \/ send'[e] = Push(cleared[e], Ctl)
    BY <2>1 DEF broadcastPresence
  <2>4. \A e \in Conns : Sent(send'[e]) = Sent(cleared[e])
    BY <2>2, <2>3, SentPush
  <2>5. link[c] # "up" /\ UNCHANGED <<connDev, queue, batch, got>>
    BY <1>6 DEF handleUnregister, storeVars, Left
  <2>6. PICK e \in Conns : connDev[e] = d /\ n \in Sent(send[e]) /\ n \notin Sent(send'[e])
    BY <1>b, <1>c, <2>5
  <2>7. e = c
    BY <2>2, <2>4, <2>6
  <2> QED
    BY <2>5, <2>6, <2>7, <1>d
<1>7. ASSUME NEW c \in Conns, WriteFrame(c) PROVE LossReason(d, n)
  <2>0. PICK f : f = Head(send[c])
    OBVIOUS
  <2>1. /\ UNCHANGED <<connDev, queue, batch>> /\ send[c] # <<>>
        /\ send'[c] = Tail(send[c]) /\ \A e \in Conns : e # c => send'[e] = send[e] /\ got'[e] = got[e]
        /\ IF link[c] = "up" /\ f # Ctl THEN got'[c] = Append(got[c], f) ELSE got'[c] = got[c]
    BY <1>7, <1>a, <2>0 DEF WriteFrame, storeVars
  <2>2. f \in Frames /\ Sent(send[c]) = IF f = Ctl THEN Sent(Tail(send[c])) ELSE {f.clip} \cup Sent(Tail(send[c]))
    BY <1>a, <2>0, <2>1, SentTail
  <2>3. Sent(Append(got[c], f)) = IF f = Ctl THEN Sent(got[c]) ELSE Sent(got[c]) \cup {f.clip}
    BY <1>a, <2>2, SentAppend
  <2>4. Sent(got[c]) \subseteq Sent(got'[c])
    BY <2>1, <2>3
  <2>5. PICK e \in Conns : connDev[e] = d /\ n \in Sent(send[e]) /\ n \notin Sent(send'[e]) /\ n \notin Sent(got'[e])
    BY <1>b, <1>c, <2>1, <2>4
  <2>6. e = c
    BY <2>1, <2>5
  <2>7. f # Ctl /\ n = f.clip
    BY <2>1, <2>2, <2>5, <2>6
  <2>8. link[c] # "up"
    BY <2>1, <2>3, <2>5, <2>6, <2>7
  <2> QED
    BY <2>5, <2>6, <2>8, <1>d
<1>8. ASSUME NEW c \in Conns, \/ ReadEnd(c) \/ ServerClose(c) \/ LinkLost(c) \/ RouteRejected(c)
                              \/ (\E p \in Pools : handleSetPool(c, p))
                              \/ (\E sel \in Selections : handleRoute(c, sel))
      PROVE  LossReason(d, n)
  <2>1. UNCHANGED <<connDev, queue, batch, send, got>>
    BY <1>8 DEF ReadEnd, ServerClose, LinkLost, RouteRejected, handleSetPool, handleRoute, storeVars
  <2> QED
    BY <2>1, <1>e
<1>9. CASE RegisterReplay
  <2>0. PICK c, m : c = hub.conn /\ m = Head(batch[c])
    OBVIOUS
  <2>1. c \in Conns /\ batch[c] # <<>>
    BY <1>9, <2>0 DEF RegisterReplay, IndInv, TypeOK, HandlerInv
  <2>2. m \in Copies /\ Nums(batch[c]) = {m} \cup Nums(Tail(batch[c]))
    BY <1>a, <2>0, <2>1, NumsTail
  <2>3. /\ UNCHANGED <<connDev, queue, got>> /\ send' = [send EXCEPT ![c] = Append(send[c], Replay(m))]
        /\ batch' = [batch EXCEPT ![c] = Tail(batch[c])]
    BY <1>9, <2>0 DEF RegisterReplay, storeVars
  <2>4. /\ batch'[c] = Tail(batch[c]) /\ send'[c] = Append(send[c], Replay(m))
        /\ \A e \in Conns : e # c => batch'[e] = batch[e] /\ send'[e] = send[e]
    BY <1>a, <2>1, <2>3
  <2>5. Replay(m) \in Frames /\ Replay(m) # Ctl /\ Replay(m).clip = m
    BY <2>2, FrameType DEF Replay, Ctl
  <2>6. Sent(send'[c]) = Sent(send[c]) \cup {m}
    BY <1>a, <2>1, <2>4, <2>5, SentAppend
  <2> QED
    BY <1>b, <1>c, <2>2, <2>3, <2>4, <2>6
<1>10. ASSUME NEW x \in Devices, RouteTarget(x) PROVE LossReason(d, n)
  <2>0. PICK m : m = <<hub.clip, hub.todo[x]>>
    OBVIOUS
  <2>1. m \in Copies /\ UNCHANGED <<connDev, batch, got>>
    BY <1>10, <2>0, RoutedCopy DEF RouteTarget
  <2>2. CASE clients[x] # NoConn /\ HasRoom(send[clients[x]])
    <3>1. PICK c \in Conns : c = clients[x]
      BY <2>2 DEF IndInv, TypeOK
    <3>2. queue' = queue /\ send' = [send EXCEPT ![c] = Append(send[c], Live(m))]
      BY <1>10, <2>0, <2>2, <3>1 DEF RouteTarget
    <3>3. Live(m) \in Frames
      BY <2>1, FrameType
    <3>4. send'[c] = Append(send[c], Live(m)) /\ \A e \in Conns : e # c => send'[e] = send[e]
      BY <1>a, <3>2
    <3>5. Sent(send[c]) \subseteq Sent(send'[c])
      BY <1>a, <3>3, <3>4, SentAppend
    <3> QED
      BY <1>b, <1>c, <2>1, <3>2, <3>4, <3>5
  <2>3. CASE ~(clients[x] # NoConn /\ HasRoom(send[clients[x]]))
    <3>1. send' = send /\ queue' = [queue EXCEPT ![x] = StoreEnqueue(queue[x], m)]
      BY <1>10, <2>0, <2>3 DEF RouteTarget
    <3>2. n \in Nums(queue[d])
      BY <1>b, <1>c, <2>1, <3>1
    <3>3. x = d
      BY <1>a, <1>c, <3>1, <3>2
    <3> QED
      BY <2>1, <3>1, <3>2, <3>3, <1>f
  <2> QED
    BY <2>2, <2>3
<1>11. CASE RegisterReturn \/ SetPoolPut \/ \E x \in Devices : handleEvict(x)
  <2>1. UNCHANGED <<connDev, queue, batch, got>> /\ \A e \in Conns : send'[e] = send[e] \/ send'[e] = Push(send[e], Ctl)
    BY <1>11 DEF RegisterReturn, SetPoolPut, handleEvict, broadcastPresence, storeVars
  <2> QED
    BY <1>a, <2>1, <1>e, SentPush
<1>12. CASE RouteReturn \/ handleBroadcast \/ UNCHANGED vars
  <2>1. UNCHANGED <<connDev, queue, batch, send, got>>
    BY <1>12 DEF RouteReturn, handleBroadcast, storeVars, connVars, vars
  <2> QED
    BY <2>1, <1>e
<1>13. ASSUME NEW x \in Devices, DeleteDevice(x) PROVE LossReason(d, n)
  <2>1. CASE x = d
    BY <1>13, <2>1 DEF LossReason
  <2>2. CASE x # d
    <3>1. queue'[d] = queue[d] /\ UNCHANGED <<connDev, batch, send, got>>
      BY <1>13, <1>a, <2>2 DEF DeleteDevice, connVars
    <3> QED
      BY <3>1, <1>e
  <2> QED
    BY <2>1, <2>2
<1>14. ASSUME NEW k \in Clips, PurgeExpired(k) PROVE LossReason(d, n)
  <2>1. Purged(queue[d], queue'[d], k) /\ UNCHANGED <<connDev, batch, send, got>>
    BY <1>14 DEF PurgeExpired, connVars
  <2>2. n \in Nums(queue[d])
    BY <1>b, <1>c, <2>1
  <2>3. n \in Copies
    BY <1>a, <2>2 DEF Nums
  <2>4. ~(n[1] > k)
    BY <1>a, <1>c, <2>1, <2>2, NumsPurged
  <2>5. n[1] <= k
    BY <2>3, <2>4, RelayConstants DEF Clips, Copies
  <2> QED
    BY <1>14, <2>5 DEF LossReason
<1>15. CASE Crash
  BY <1>15 DEF LossReason
<1> QED
  BY <1>1, <1>2, <1>3, <1>4, <1>5, <1>6, <1>7, <1>8, <1>9, <1>10, <1>11, <1>12, <1>13, <1>14, <1>15
     DEF Next, ServeStep, PumpStep, ClientStep, HubStep, AdminStep

\* At first no connection is leaving.
LEMMA LeftInit == Init => Left
BY DEF Init, Left

\* No clip is lost for another reason than the ones the code names, for every number
\* of devices and connections and every size of buffers and queues; in particular not
\* by a connection that is replaced while its queue is replayed, by a buffer that is
\* full, or by a drain that races with a route.
THEOREM LossesNamed == Spec => NoSilentLoss
<1>1. Init => Once /\ Left
  BY OnceInit, LeftInit
<1>2. IndInv /\ IndInv' /\ Once /\ Left /\ [Next]_vars => Once' /\ Left'
  BY OnceStep, LeftStep
<1>3. IndInv /\ Once /\ Once' /\ Left /\ [Next]_vars
        => [\A d \in Devices : \A n \in ClipsHeld(d) \ ClipsHeld(d)' : LossReason(d, n)]_vars
  <2> SUFFICES ASSUME IndInv, Once, Once', Left, [Next]_vars, NEW d \in Devices,
                      NEW n \in ClipsHeld(d), n \notin ClipsHeld(d)'
               PROVE  LossReason(d, n)
    OBVIOUS
  <2>1. ClipsHeld(d) = Held(d)
    BY HeldIs DEF Once
  <2>2. ClipsHeld(d)' = Held(d)'
    BY HeldNext DEF Once
  <2> QED
    BY <2>1, <2>2, LossStep DEF Once
<1> QED
  BY <1>1, <1>2, <1>3, Invariance, PTL DEF Spec, NoSilentLoss

=============================================================================
