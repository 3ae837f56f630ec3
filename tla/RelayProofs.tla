---------------------------- MODULE RelayProofs ----------------------------
(***************************************************************************)
(* Proofs about the relay: its type invariant and the registry invariant,  *)
(* for every set of devices, connections and pools, every buffer size and  *)
(* every queue depth.                                                      *)
(***************************************************************************)
EXTENDS Relay, SequenceTheorems, TLAPS

USE RelayConstants

-----------------------------------------------------------------------------
(* Facts about the operators on buffers and queues *)

\* Client.Enqueue keeps a send buffer well-typed and within its capacity.
LEMMA PushType ==
    ASSUME NEW s \in Seq(Frames), Len(s) <= SendBuf, NEW f \in Frames
    PROVE  Push(s, f) \in Seq(Frames) /\ Len(Push(s, f)) <= SendBuf
  BY AppendProperties DEF Push, HasRoom

\* The store's Enqueue keeps a queue well-typed and within its depth.
LEMMA StoreEnqueueType ==
    ASSUME NEW q \in Seq(Copies), Len(q) <= QueueDepth, NEW n \in Copies
    PROVE  StoreEnqueue(q, n) \in Seq(Copies) /\ Len(StoreEnqueue(q, n)) <= QueueDepth
  <1>1. CASE Len(q) < QueueDepth
    BY <1>1, AppendProperties DEF StoreEnqueue
  <1>2. CASE ~(Len(q) < QueueDepth)
    <2>1. q # <<>> /\ Len(q) = QueueDepth
      BY <1>2, LenProperties
    <2>2. Tail(q) \in Seq(Copies) /\ Len(Tail(q)) = Len(q) - 1
      BY <2>1, HeadTailProperties
    <2>3. Append(Tail(q), n) \in Seq(Copies) /\ Len(Append(Tail(q), n)) = Len(q)
      BY <2>1, <2>2, AppendProperties
    <2> QED  BY <1>2, <2>1, <2>3 DEF StoreEnqueue
  <1> QED  BY <1>1, <1>2

\* A presence broadcast keeps every send buffer well-typed and within capacity.
LEMMA BroadcastType ==
    ASSUME NEW s \in [Conns -> Seq(Frames)], \A c \in Conns : Len(s[c]) <= SendBuf,
           NEW r, NEW x
    PROVE  /\ broadcastPresence(s, r, x) \in [Conns -> Seq(Frames)]
           /\ \A c \in Conns : Len(broadcastPresence(s, r, x)[c]) <= SendBuf
  <1>1. Ctl \in Frames
    BY DEF Ctl, Frames
  <1>2. \A c \in Conns : Push(s[c], Ctl) \in Seq(Frames) /\ Len(Push(s[c], Ctl)) <= SendBuf
    BY <1>1, PushType
  <1> QED  BY <1>2 DEF broadcastPresence

\* The tags of a clip make frames.
LEMMA FrameType == Ctl \in Frames /\ \A n \in Copies : Live(n) \in Frames /\ Replay(n) \in Frames
  BY DEF Ctl, Live, Replay, Frames

\* What is left of a target list stays one when a mention of a device has been served.
LEMMA TaskType ==
    /\ NoTask \in Tasks
    /\ \A t \in Tasks : \A d \in Devices : t[d] > 0 =>
          [t EXCEPT ![d] = @ - 1] \in Tasks /\ t[d] \in 1..MaxNamed
    /\ \A o : \A sel \in Selections : resolveTargets(o, sel) \in Tasks
  <1>1. NoTask \in Tasks
    BY DEF NoTask, Tasks
  <1>2. ASSUME NEW t \in Tasks, NEW d \in Devices, t[d] > 0
        PROVE  [t EXCEPT ![d] = @ - 1] \in Tasks /\ t[d] \in 1..MaxNamed
    BY <1>2 DEF Tasks
  <1>3. ASSUME NEW o, NEW sel \in Selections PROVE resolveTargets(o, sel) \in Tasks
    <2>1. sel.list \in Tasks
      BY <1>1 DEF Selections
    <2> QED  BY <2>1 DEF resolveTargets, Tasks
  <1> QED  BY <1>1, <1>2, <1>3

-----------------------------------------------------------------------------
(* The inductive invariant *)

\* The registry invariant is inductive together with the facts about handlers in
\* progress: without HandlerInv a closed connection could still register.
IndInv == TypeOK /\ HandlerInv /\ RegistryInv

\* No connection, nothing queued, the hub idle.
LEMMA InitInv == Init => IndInv
  <1> SUFFICES ASSUME Init PROVE IndInv
    OBVIOUS
  <1>1. TypeOK
    BY TaskType DEF Init, TypeOK, Idle, Phases
  <1>2. HandlerInv
    BY DEF Init, HandlerInv, Idle
  <1>3. RegistryInv
    BY DEF Init, RegistryInv, Registered
  <1> QED  BY <1>1, <1>2, <1>3 DEF IndInv

\* The hub's idle state and its type.
LEMMA IdleType ==
    /\ Idle \in [op : {"idle", "register", "route", "setpool"}, conn : Conns \cup {NoConn},
                 clip : 0..MaxClips, todo : Tasks, pool : Pools]
    /\ Idle.op = "idle" /\ Idle.conn = NoConn
  BY TaskType DEF Idle

\* Every step preserves the inductive invariant.
LEMMA StepInv == IndInv /\ [Next]_vars => IndInv'
  <1> SUFFICES ASSUME IndInv, [Next]_vars PROVE IndInv'
    OBVIOUS
  <1> USE DEF IndInv
  <1>0. /\ clients \in [Devices -> Conns \cup {NoConn}]
        /\ connDev \in [Conns -> Devices \cup {NoDev}]
        /\ phase \in [Conns -> Phases]
        /\ done \in [Conns -> BOOLEAN]
        /\ hub.op \in {"idle", "register", "route", "setpool"}
    BY DEF TypeOK
  <1>1. ASSUME NEW c \in Conns, NEW d \in Devices, Hello(c, d) PROVE IndInv'
    <2>1. TypeOK'
      BY <1>1 DEF Hello, TypeOK, HandlerInv, Phases, storeVars, connVars
    <2>2. HandlerInv'
      BY <1>1 DEF Hello, TypeOK, HandlerInv, storeVars, connVars
    <2>3. RegistryInv'
      BY <1>1 DEF Hello, TypeOK, HandlerInv, RegistryInv, Registered, storeVars, connVars
    <2> QED  BY <2>1, <2>2, <2>3
  <1>2. ASSUME NEW c \in Conns, DrainQueue(c) PROVE IndInv'
    <2>1. TypeOK'
      BY <1>2 DEF DrainQueue, TypeOK, HandlerInv, Phases, storeVars, connVars
    <2>2. HandlerInv'
      BY <1>2 DEF DrainQueue, TypeOK, HandlerInv, storeVars, connVars
    <2>3. RegistryInv'
      BY <1>2 DEF DrainQueue, TypeOK, HandlerInv, RegistryInv, Registered, storeVars, connVars
    <2> QED  BY <2>1, <2>2, <2>3
  <1>3. ASSUME NEW c \in Conns, handleRegister(c) PROVE IndInv'
    <2>a. <<Ctl>> \in Seq(Frames) /\ Len(<<Ctl>>) = 1
      BY FrameType
    <2>b. /\ send' = [send EXCEPT ![c] = <<Ctl>>]
          /\ phase' = [phase EXCEPT ![c] = "registering"]
          /\ hub' = [op |-> "register", conn |-> c, clip |-> 0, todo |-> NoTask, pool |-> DefaultPool]
      BY <1>3 DEF handleRegister, Idle
    <2>c. send' \in [Conns -> Seq(Frames)] /\ \A e \in Conns : Len(send'[e]) <= SendBuf
      BY <2>a, <2>b DEF TypeOK
    <2>d. done' = [e \in Conns |-> IF e = clients[connDev[c]] THEN TRUE ELSE done[e]]
      BY <1>3 DEF handleRegister, Closed
    <2>e. /\ hub.op = "idle" /\ phase[c] = "drained"
          /\ clients' = [clients EXCEPT ![connDev[c]] = c]
          /\ UNCHANGED <<devices, tokens, pool, queue, evicting, connDev, link, batch, got>>
          /\ UNCHANGED <<nextClip, faults>>
      BY <1>3 DEF handleRegister, storeVars
    <2>f. done' \in [Conns -> BOOLEAN]
      BY <2>d DEF TypeOK
    <2>1. TypeOK'
      <3>1. hub' \in [op : {"idle", "register", "route", "setpool"}, conn : Conns \cup {NoConn},
                      clip : 0..MaxClips, todo : Tasks, pool : Pools]
        BY <2>b, TaskType
      <3> QED  BY <2>b, <2>c, <2>e, <2>f, <3>1 DEF TypeOK, Phases
    <2>2. HandlerInv'
      <3>1. \A e \in Conns : phase'[e] # "fresh" => connDev'[e] \in Devices
        BY <1>0, <2>b, <2>d, <2>e DEF HandlerInv
      <3>2. \A e \in Conns : phase'[e] \in {"fresh", "validated", "drained"} => ~done'[e]
        BY <1>0, <2>b, <2>d, <2>e DEF HandlerInv, RegistryInv, Registered
      <3>3. \A e \in Conns : phase'[e] = "requeue" => batch'[e] # <<>>
        BY <1>0, <2>b, <2>e DEF HandlerInv
      <3>4. \A e \in Conns :
               /\ phase'[e] = "busy" <=> hub'.op \in {"route", "setpool"} /\ hub'.conn = e
               /\ phase'[e] = "registering" <=> hub'.op = "register" /\ hub'.conn = e
        BY <1>0, <2>b, <2>e DEF HandlerInv
      <3>5. /\ hub'.op \in {"register", "setpool"} => hub'.conn # NoConn
            /\ hub'.op = "route" => hub'.clip \in 1..(nextClip' - 1)
        BY <2>b
      <3> QED  BY <3>1, <3>2, <3>3, <3>4, <3>5 DEF HandlerInv
    <2>3. RegistryInv'
      <3>1. ASSUME NEW x \in Devices, clients'[x] # NoConn
            PROVE  /\ connDev'[clients'[x]] = x
                   /\ phase'[clients'[x]] \in Registered
                   /\ ~done'[clients'[x]]
        BY <1>0, <3>1, <2>b, <2>d, <2>e DEF RegistryInv, Registered, HandlerInv
      <3>2. ASSUME NEW e \in Conns, phase'[e] \in Registered, ~done'[e]
            PROVE  clients'[connDev'[e]] = e
        BY <1>0, <3>2, <2>b, <2>d, <2>e DEF RegistryInv, Registered, HandlerInv
      <3> QED  BY <3>1, <3>2 DEF RegistryInv
    <2> QED  BY <2>1, <2>2, <2>3
  <1>4. ASSUME NEW c \in Conns, Requeue(c) PROVE IndInv'
    <2>a. /\ batch[c] # <<>> /\ batch[c] \in Seq(Copies) /\ connDev[c] \in Devices
          /\ queue[connDev[c]] \in Seq(Copies) /\ Len(queue[connDev[c]]) <= QueueDepth
      BY <1>4 DEF Requeue, TypeOK, HandlerInv
    <2>b. /\ Head(batch[c]) \in Copies /\ Tail(batch[c]) \in Seq(Copies)
          /\ Len(Tail(batch[c])) = Len(batch[c]) - 1
      BY <2>a, HeadTailProperties
    <2>c. /\ StoreEnqueue(queue[connDev[c]], Head(batch[c])) \in Seq(Copies)
          /\ Len(StoreEnqueue(queue[connDev[c]], Head(batch[c]))) <= QueueDepth
      BY <2>a, <2>b, StoreEnqueueType
    <2>d. Len(batch[c]) # 1 => Tail(batch[c]) # <<>>
      <3>1. Len(batch[c]) \in Nat /\ Len(batch[c]) # 0
        BY <2>a, LenProperties, EmptySeq
      <3>2. Len(<<>>) = 0
        OBVIOUS
      <3>3. ASSUME Tail(batch[c]) = <<>> PROVE Len(batch[c]) = 1
        <4>1. Len(Tail(batch[c])) = 0
          BY <3>2, <3>3, Zenon
        <4> HIDE <3>3
        <4> QED  BY <2>b, <3>1, <4>1
      <3> QED  BY <3>3
    <2>1. TypeOK'
      BY <1>4, <2>b, <2>c DEF Requeue, TypeOK, Phases
    <2>2. HandlerInv'
      BY <1>4, <2>d DEF Requeue, TypeOK, HandlerInv
    <2>3. RegistryInv'
      BY <1>4 DEF Requeue, TypeOK, HandlerInv, RegistryInv, Registered, storeVars, connVars
    <2> QED  BY <2>1, <2>2, <2>3
  <1>5. ASSUME NEW c \in Conns, ReadEnd(c) PROVE IndInv'
    <2>1. TypeOK'
      BY <1>5 DEF ReadEnd, TypeOK, HandlerInv, Phases, storeVars, connVars
    <2>2. HandlerInv'
      BY <1>5 DEF ReadEnd, TypeOK, HandlerInv, storeVars, connVars
    <2>3. RegistryInv'
      BY <1>5 DEF ReadEnd, TypeOK, HandlerInv, RegistryInv, Registered, storeVars, connVars
    <2> QED  BY <2>1, <2>2, <2>3
  <1>6. ASSUME NEW c \in Conns, handleUnregister(c) PROVE IndInv'
    <2>c. send' \in [Conns -> Seq(Frames)] /\ \A e \in Conns : Len(send'[e]) <= SendBuf
      <3> DEFINE cleared == [send EXCEPT ![c] = <<>>]
      <3>1. cleared \in [Conns -> Seq(Frames)] /\ \A e \in Conns : Len(cleared[e]) <= SendBuf
        BY DEF TypeOK
      <3>2. send' = broadcastPresence(cleared, clients', NoDev) \/ send' = cleared
        BY <1>6 DEF handleUnregister
      <3> HIDE DEF cleared
      <3> QED  BY <3>1, <3>2, BroadcastType
    <2>1. TypeOK'
      BY <1>6, <2>c DEF handleUnregister, TypeOK, Phases, storeVars
    <2>2. HandlerInv'
      BY <1>6 DEF handleUnregister, TypeOK, HandlerInv, storeVars, connVars
    <2>3. RegistryInv'
      BY <1>6 DEF handleUnregister, TypeOK, HandlerInv, RegistryInv, Registered, storeVars, connVars
    <2> QED  BY <2>1, <2>2, <2>3
  <1>7. ASSUME NEW c \in Conns, WriteFrame(c) PROVE IndInv'
    <2>1. TypeOK'
      BY <1>7 DEF WriteFrame, TypeOK, HandlerInv, Phases, storeVars, connVars
    <2>2. HandlerInv'
      BY <1>7 DEF WriteFrame, TypeOK, HandlerInv, storeVars, connVars
    <2>3. RegistryInv'
      BY <1>7 DEF WriteFrame, TypeOK, HandlerInv, RegistryInv, Registered, storeVars, connVars
    <2> QED  BY <2>1, <2>2, <2>3
  <1>8. ASSUME NEW c \in Conns, LinkLost(c) PROVE IndInv'
    <2>1. TypeOK'
      BY <1>8 DEF LinkLost, TypeOK, HandlerInv, Phases, storeVars, connVars
    <2>2. HandlerInv'
      BY <1>8 DEF LinkLost, TypeOK, HandlerInv, storeVars, connVars
    <2>3. RegistryInv'
      BY <1>8 DEF LinkLost, TypeOK, HandlerInv, RegistryInv, Registered, storeVars, connVars
    <2> QED  BY <2>1, <2>2, <2>3
  <1>9. ASSUME NEW c \in Conns, ServerClose(c) PROVE IndInv'
    <2>1. TypeOK'
      BY <1>9 DEF ServerClose, TypeOK, HandlerInv, Phases, storeVars, connVars
    <2>2. HandlerInv'
      BY <1>9 DEF ServerClose, TypeOK, HandlerInv, storeVars, connVars
    <2>3. RegistryInv'
      BY <1>9 DEF ServerClose, TypeOK, HandlerInv, RegistryInv, Registered, storeVars, connVars
    <2> QED  BY <2>1, <2>2, <2>3
  <1>10. ASSUME NEW c \in Conns, NEW sel \in Selections, handleRoute(c, sel) PROVE IndInv'
    <2>a. resolveTargets(connDev[c], sel) \in Tasks
      BY TaskType
    <2>1. TypeOK'
      BY <1>10, <2>a DEF handleRoute, TypeOK, Phases, Clips, storeVars
    <2>2. HandlerInv'
      BY <1>10 DEF handleRoute, TypeOK, HandlerInv, storeVars, connVars
    <2>3. RegistryInv'
      BY <1>10 DEF handleRoute, TypeOK, HandlerInv, RegistryInv, Registered, storeVars, connVars
    <2> QED  BY <2>1, <2>2, <2>3
  <1>11. ASSUME NEW c \in Conns, RouteRejected(c) PROVE IndInv'
    <2>1. TypeOK'
      BY <1>11 DEF RouteRejected, TypeOK, Phases, storeVars
    <2>2. HandlerInv'
      BY <1>11 DEF RouteRejected, TypeOK, HandlerInv, storeVars, connVars
    <2>3. RegistryInv'
      BY <1>11 DEF RouteRejected, TypeOK, HandlerInv, RegistryInv, Registered, storeVars, connVars
    <2> QED  BY <2>1, <2>2, <2>3
  <1>12. ASSUME handleBroadcast PROVE IndInv'
    <2>a. [d \in Devices |-> IF d \in devices THEN 1 ELSE 0] \in Tasks
      BY DEF Tasks
    <2>1. TypeOK'
      BY <1>12, <2>a DEF handleBroadcast, TypeOK, HandlerInv, Phases, storeVars, connVars
    <2>2. HandlerInv'
      BY <1>12 DEF handleBroadcast, TypeOK, HandlerInv, storeVars, connVars
    <2>3. RegistryInv'
      BY <1>12 DEF handleBroadcast, TypeOK, HandlerInv, RegistryInv, Registered, storeVars, connVars
    <2> QED  BY <2>1, <2>2, <2>3
  <1>13. ASSUME NEW d \in Devices, RouteTarget(d) PROVE IndInv'
    <2>0. PICK n : n = <<hub.clip, hub.todo[d]>>
      OBVIOUS
    <2>1. hub.todo \in Tasks /\ hub.todo[d] > 0 /\ hub.clip \in Clips
      BY <1>13 DEF RouteTarget, HandlerInv, TypeOK, Clips
    <2>a. n \in Copies /\ Live(n) \in Frames
      BY <2>0, <2>1, TaskType, FrameType DEF Copies
    <2>b. /\ StoreEnqueue(queue[d], n) \in Seq(Copies)
          /\ Len(StoreEnqueue(queue[d], n)) <= QueueDepth
      BY <2>a, StoreEnqueueType DEF TypeOK
    <2>c. \A e \in Conns : HasRoom(send[e]) =>
              /\ Append(send[e], Live(n)) \in Seq(Frames)
              /\ Len(Append(send[e], Live(n))) <= SendBuf
      BY <2>a, AppendProperties DEF TypeOK, HasRoom
    <2>d. /\ hub' = [hub EXCEPT !.todo = [hub.todo EXCEPT ![d] = @ - 1]]
          /\ UNCHANGED <<devices, tokens, pool, evicting, connDev, phase, link, batch, got>>
          /\ UNCHANGED <<nextClip, faults>>
      BY <1>13 DEF RouteTarget
    <2>f. hub' \in [op : {"idle", "register", "route", "setpool"}, conn : Conns \cup {NoConn},
                    clip : 0..MaxClips, todo : Tasks, pool : Pools]
          /\ hub'.op = hub.op /\ hub'.conn = hub.conn /\ hub'.clip = hub.clip
      BY <2>1, <2>d, TaskType DEF TypeOK
    <2>h. CASE clients[d] # NoConn /\ HasRoom(send[clients[d]])
      <3>0. /\ send' = [send EXCEPT ![clients[d]] = Append(send[clients[d]], Live(n))]
            /\ UNCHANGED <<queue, clients, done>>
        BY <1>13, <2>0, <2>h DEF RouteTarget
      <3>1. TypeOK'
        BY <1>0, <2>c, <2>d, <2>f, <2>h, <3>0 DEF TypeOK
      <3>2. HandlerInv'
        BY <2>d, <2>f, <3>0 DEF HandlerInv
      <3>3. RegistryInv'
        BY <2>d, <3>0 DEF RegistryInv
      <3> QED  BY <3>1, <3>2, <3>3
    <2>i. CASE ~(clients[d] # NoConn /\ HasRoom(send[clients[d]]))
      <3>0. /\ done' = [e \in Conns |-> IF e = clients[d] THEN TRUE ELSE done[e]]
            /\ clients' = [clients EXCEPT ![d] = NoConn]
            /\ queue' = [queue EXCEPT ![d] = StoreEnqueue(queue[d], n)]
            /\ UNCHANGED send
        BY <1>13, <2>0, <2>i DEF RouteTarget, Closed
      <3>1. TypeOK'
        BY <1>0, <2>b, <2>d, <2>f, <3>0 DEF TypeOK
      <3>2. HandlerInv'
        <4>1. \A e \in Conns : phase[e] \in {"fresh", "validated", "drained"} => ~done'[e]
          BY <1>0, <3>0 DEF HandlerInv, RegistryInv, Registered
        <4> QED  BY <2>d, <2>f, <4>1 DEF HandlerInv
      <3>3. RegistryInv'
        <4>1. ASSUME NEW x \in Devices, clients'[x] # NoConn
              PROVE  /\ connDev'[clients'[x]] = x
                     /\ phase'[clients'[x]] \in Registered
                     /\ ~done'[clients'[x]]
          BY <1>0, <2>d, <3>0, <4>1 DEF RegistryInv
        <4>2. ASSUME NEW e \in Conns, phase'[e] \in Registered, ~done'[e]
              PROVE  clients'[connDev'[e]] = e
          BY <1>0, <2>d, <3>0, <4>2 DEF RegistryInv, HandlerInv, Registered
        <4> QED  BY <4>1, <4>2 DEF RegistryInv
      <3> QED  BY <3>1, <3>2, <3>3
    <2> QED  BY <2>h, <2>i
  <1>14. ASSUME RouteReturn PROVE IndInv'
    <2>1. TypeOK'
      BY <1>14, IdleType DEF RouteReturn, TypeOK, Phases, storeVars
    <2>2. HandlerInv'
      BY <1>14, IdleType DEF RouteReturn, TypeOK, HandlerInv, storeVars
    <2>3. RegistryInv'
      BY <1>14 DEF RouteReturn, TypeOK, HandlerInv, RegistryInv, Registered, storeVars, connVars
    <2> QED  BY <2>1, <2>2, <2>3
  <1>15. ASSUME NEW c \in Conns, NEW p \in Pools, handleSetPool(c, p) PROVE IndInv'
    <2>a. hub' \in [op : {"idle", "register", "route", "setpool"}, conn : Conns \cup {NoConn},
                    clip : 0..MaxClips, todo : Tasks, pool : Pools]
      <3>1. hub' = [op |-> "setpool", conn |-> c, clip |-> 0, todo |-> NoTask, pool |-> p]
        BY <1>15 DEF handleSetPool, Idle
      <3> QED  BY TaskType, <3>1
    <2>1. TypeOK'
      BY <2>a, <1>15 DEF handleSetPool, TypeOK, Phases, Idle, storeVars
    <2>2. HandlerInv'
      BY <1>15 DEF handleSetPool, TypeOK, HandlerInv, storeVars, connVars
    <2>3. RegistryInv'
      BY <1>15 DEF handleSetPool, TypeOK, HandlerInv, RegistryInv, Registered, storeVars, connVars
    <2> QED  BY <2>1, <2>2, <2>3
  <1>16. ASSUME SetPoolPut PROVE IndInv'
    <2>a. hub.conn \in Conns /\ connDev[hub.conn] \in Devices
      BY <1>16 DEF SetPoolPut, TypeOK, HandlerInv
    <2>b. send' \in [Conns -> Seq(Frames)] /\ \A e \in Conns : Len(send'[e]) <= SendBuf
      BY <1>16, BroadcastType DEF SetPoolPut, TypeOK
    <2>1. TypeOK'
      BY <1>16, <2>a, <2>b, IdleType DEF SetPoolPut, TypeOK, Phases
    <2>2. HandlerInv'
      BY <1>16, <2>a, IdleType DEF SetPoolPut, TypeOK, HandlerInv
    <2>3. RegistryInv'
      BY <1>16 DEF SetPoolPut, TypeOK, HandlerInv, RegistryInv, Registered, storeVars, connVars
    <2> QED  BY <2>1, <2>2, <2>3
  <1>17. ASSUME NEW d \in Devices, handleEvict(d) PROVE IndInv'
    <2>a. send' \in [Conns -> Seq(Frames)] /\ \A e \in Conns : Len(send'[e]) <= SendBuf
      BY <1>17, BroadcastType DEF handleEvict, TypeOK
    <2>b. done' = [e \in Conns |-> IF e = clients[d] THEN TRUE ELSE done[e]]
      BY <1>17 DEF handleEvict, Closed
    <2>c. /\ hub.op = "idle" /\ evicting' = evicting \ {d}
          /\ clients' = [clients EXCEPT ![d] = NoConn]
          /\ UNCHANGED <<devices, tokens, pool, queue, hub, connDev, phase, link, batch, got>>
          /\ UNCHANGED <<nextClip, faults>>
      BY <1>17 DEF handleEvict, storeVars
    <2>d. done' \in [Conns -> BOOLEAN]
      BY <2>b DEF TypeOK
    <2>1. TypeOK'
      BY <2>a, <2>c, <2>d DEF TypeOK
    <2>2. HandlerInv'
      <3>1. \A e \in Conns : phase'[e] # "fresh" => connDev'[e] \in Devices
        BY <1>0, <2>b, <2>c DEF HandlerInv
      <3>2. \A e \in Conns : phase'[e] \in {"fresh", "validated", "drained"} => ~done'[e]
        BY <1>0, <2>b, <2>c DEF HandlerInv, RegistryInv, Registered
      <3>3. \A e \in Conns : phase'[e] = "requeue" => batch'[e] # <<>>
        BY <1>0, <2>b, <2>c DEF HandlerInv, TypeOK
      <3>4. \A e \in Conns :
               /\ phase'[e] = "busy" <=> hub'.op \in {"route", "setpool"} /\ hub'.conn = e
               /\ phase'[e] = "registering" <=> hub'.op = "register" /\ hub'.conn = e
        BY <1>0, <2>b, <2>c DEF HandlerInv
      <3>5. /\ hub'.op \in {"register", "setpool"} => hub'.conn # NoConn
            /\ hub'.op = "route" => hub'.clip \in 1..(nextClip' - 1)
        BY <2>b, <2>c DEF HandlerInv, TypeOK
      <3> QED  BY <3>1, <3>2, <3>3, <3>4, <3>5 DEF HandlerInv
    <2>3. RegistryInv'
      <3>1. ASSUME NEW x \in Devices, clients'[x] # NoConn
            PROVE  /\ connDev'[clients'[x]] = x
                   /\ phase'[clients'[x]] \in Registered
                   /\ ~done'[clients'[x]]
        BY <1>0, <3>1, <2>b, <2>c DEF RegistryInv, Registered, HandlerInv
      <3>2. ASSUME NEW e \in Conns, phase'[e] \in Registered, ~done'[e]
            PROVE  clients'[connDev'[e]] = e
        BY <1>0, <3>2, <2>b, <2>c DEF RegistryInv, Registered, HandlerInv
      <3> QED  BY <3>1, <3>2 DEF RegistryInv
    <2> QED  BY <2>1, <2>2, <2>3
  <1>18. ASSUME NEW d \in Devices, DeleteDevice(d) PROVE IndInv'
    <2>1. TypeOK'
      BY <1>18 DEF DeleteDevice, TypeOK, HandlerInv, Phases, storeVars, connVars
    <2>2. HandlerInv'
      BY <1>18 DEF DeleteDevice, TypeOK, HandlerInv, storeVars, connVars
    <2>3. RegistryInv'
      BY <1>18 DEF DeleteDevice, TypeOK, HandlerInv, RegistryInv, Registered, storeVars, connVars
    <2> QED  BY <2>1, <2>2, <2>3
  <1>19. ASSUME NEW k \in Clips, PurgeExpired(k) PROVE IndInv'
    <2>1. TypeOK'
      BY <1>19 DEF PurgeExpired, TypeOK, HandlerInv, Phases, storeVars, connVars
    <2>2. HandlerInv'
      BY <1>19 DEF PurgeExpired, TypeOK, HandlerInv, storeVars, connVars
    <2>3. RegistryInv'
      BY <1>19 DEF PurgeExpired, TypeOK, HandlerInv, RegistryInv, Registered, storeVars, connVars
    <2> QED  BY <2>1, <2>2, <2>3
  <1>20. ASSUME Crash PROVE IndInv'
    <2>a. /\ hub' = Idle /\ clients' = [d \in Devices |-> NoConn] /\ evicting' = {}
          /\ faults' = faults + 1 /\ faults < MaxFaults
          /\ phase' = [c \in Conns |-> IF phase[c] = "fresh" THEN "fresh" ELSE "closed"]
          /\ done' = [c \in Conns |-> FALSE]
          /\ link' = [c \in Conns |-> "down"]
          /\ send' = [c \in Conns |-> <<>>]
          /\ batch' = [c \in Conns |-> <<>>]
          /\ UNCHANGED <<devices, tokens, pool, queue, connDev, got, nextClip>>
      BY <1>20 DEF Crash, storeVars
    <2>b. done' \in [Conns -> BOOLEAN]
      BY <2>a
    <2>1. TypeOK'
      BY <2>a, <2>b, IdleType DEF TypeOK, Phases
    <2>2. HandlerInv'
      BY <2>a, IdleType DEF TypeOK, HandlerInv
    <2>3. RegistryInv'
      BY <2>a DEF TypeOK, RegistryInv, Registered
    <2> QED  BY <2>1, <2>2, <2>3
  <1>21. ASSUME NEW c \in Conns, Ack(c) PROVE IndInv'
    <2>a. Push(send[c], Ctl) \in Seq(Frames) /\ Len(Push(send[c], Ctl)) <= SendBuf
      BY PushType, FrameType DEF TypeOK
    <2>1. TypeOK'
      BY <1>21, <2>a DEF Ack, TypeOK, Phases, storeVars
    <2>2. HandlerInv'
      BY <1>21 DEF Ack, TypeOK, HandlerInv, storeVars, connVars
    <2>3. RegistryInv'
      BY <1>21 DEF Ack, TypeOK, HandlerInv, RegistryInv, Registered, storeVars, connVars
    <2> QED  BY <2>1, <2>2, <2>3
  <1>22. ASSUME RegisterReplay PROVE IndInv'
    <2>a. hub.conn \in Conns /\ phase[hub.conn] = "registering"
      BY <1>22 DEF RegisterReplay, TypeOK, HandlerInv
    <2>b. /\ Head(batch[hub.conn]) \in Copies /\ Tail(batch[hub.conn]) \in Seq(Copies)
          /\ batch[hub.conn] # <<>>
      BY <1>22, <2>a, HeadTailProperties DEF RegisterReplay, TypeOK
    <2> DEFINE longer == Append(send[hub.conn], Replay(Head(batch[hub.conn])))
    <2>c. longer \in Seq(Frames) /\ Len(longer) <= SendBuf
      BY <1>22, <2>a, <2>b, FrameType, AppendProperties DEF RegisterReplay, TypeOK, HasRoom
    <2>d. /\ send' = [send EXCEPT ![hub.conn] = longer]
          /\ batch' = [batch EXCEPT ![hub.conn] = Tail(batch[hub.conn])]
          /\ UNCHANGED <<devices, tokens, pool, queue, evicting, clients, hub, connDev, phase>>
          /\ UNCHANGED <<done, link, got, nextClip, faults>>
      BY <1>22 DEF RegisterReplay, storeVars
    <2> HIDE DEF longer
    <2>1. TypeOK'
      BY <2>a, <2>b, <2>c, <2>d DEF TypeOK
    <2>2. HandlerInv'
      BY <2>a, <2>d DEF TypeOK, HandlerInv
    <2>3. RegistryInv'
      BY <2>d DEF RegistryInv
    <2> QED  BY <2>1, <2>2, <2>3
  <1>23. ASSUME RegisterReturn PROVE IndInv'
    <2>a. hub.conn \in Conns /\ phase[hub.conn] = "registering" /\ hub.op = "register"
      BY <1>23 DEF RegisterReturn, TypeOK, HandlerInv
    <2>b. send' \in [Conns -> Seq(Frames)] /\ \A e \in Conns : Len(send'[e]) <= SendBuf
      BY <1>23, BroadcastType DEF RegisterReturn, TypeOK
    <2>c. /\ phase' = [phase EXCEPT ![hub.conn] =
                           IF batch[hub.conn] = <<>> THEN "reading" ELSE "requeue"]
          /\ hub' = Idle
          /\ UNCHANGED <<devices, tokens, pool, queue, evicting, clients, connDev, done>>
          /\ UNCHANGED <<link, batch, got, nextClip, faults>>
      BY <1>23 DEF RegisterReturn, storeVars
    <2>1. TypeOK'
      BY <2>a, <2>b, <2>c, IdleType DEF TypeOK, Phases
    <2>2. HandlerInv'
      BY <1>0, <2>a, <2>c, IdleType DEF HandlerInv
    <2>3. RegistryInv'
      BY <1>0, <2>a, <2>c DEF RegistryInv, Registered
    <2> QED  BY <2>1, <2>2, <2>3
  <1>24. CASE UNCHANGED vars
    BY <1>24 DEF vars, TypeOK, HandlerInv, RegistryInv
  <1> QED  BY <1>1, <1>2, <1>3, <1>4, <1>5, <1>6, <1>7, <1>8, <1>9, <1>10,
         <1>11, <1>12, <1>13, <1>14, <1>15, <1>16, <1>17, <1>18, <1>19, <1>20,
         <1>21, <1>22, <1>23, <1>24
      DEF Next, ServeStep, PumpStep, ClientStep, HubStep, AdminStep

-----------------------------------------------------------------------------
(* Theorems *)

\* The inductive invariant holds in every reachable state.
LEMMA Invariance == Spec => []IndInv
  BY InitInv, StepInv, PTL DEF Spec

\* The relay's state stays well-typed: no send buffer ever exceeds its capacity
\* and no offline queue its depth (Client.Enqueue, handleRegister's replay,
\* store.Enqueue), for all values of the constants.
THEOREM RelayTypeCorrect == Spec => []TypeOK
  <1>1. IndInv => TypeOK
    BY DEF IndInv
  <1> QED  BY <1>1, Invariance, PTL

\* The registry invariant: a connection that is replaced, evicted, slow or late
\* to unregister never takes the place of the live one, and every connection
\* that is still being served is registered or has been told to close.
THEOREM RegistryCorrect == Spec => []RegistryInv
  <1>1. IndInv => RegistryInv
    BY DEF IndInv
  <1> QED  BY <1>1, Invariance, PTL

\* A connection whose request the hub is handling stays blocked until the hub
\* has answered, so that handlers never run for a connection that went on.
THEOREM HandlersSerialised == Spec => []HandlerInv
  <1>1. IndInv => HandlerInv
    BY DEF IndInv
  <1> QED  BY <1>1, Invariance, PTL
=============================================================================
