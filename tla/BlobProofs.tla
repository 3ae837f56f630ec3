---------------------------- MODULE BlobProofs ----------------------------
(***************************************************************************)
(* Proofs about BlobChannel, for any number of devices, blobs and          *)
(* downloads, with or without garbage collection.                          *)
(***************************************************************************)
EXTENDS BlobChannel, FiniteSetTheorems, TLAPS

\* Waiting downloads: each has a channel, and no wake-up is lost.
Waiting == HasChannel /\ NoLostWakeup

\* While a pass runs, a clip in an offline queue was there when the pass read its
\* pins or was queued later.
PinsSeen ==
    gc.phase # "idle" => \A d \in Devices : \A b \in queued[d] :
        b \in gc.pinned \/ <<d, b>> \in late

\* The inductive invariant.
IndInv == TypeOK /\ Waiting /\ PinsSeen

\* What the updates of the steps return: a record of the same kind.
LEMMA Records ==
    /\ NoACL \in ACLs /\ NoEntry \in Entries /\ NoGC \in Passes
    /\ \A r \in {NoGet} \cup Downloads : r.phase # "none" =>
          /\ r \in Downloads /\ r.blob \in Blobs
          /\ \A p \in GetPhases : [r EXCEPT !.phase = p] \in Downloads
    /\ \A r \in {NoPut} \cup Uploads : r.phase # "none" =>
          /\ r \in Uploads /\ r.blob \in Blobs
          /\ \A p \in PutPhases : [r EXCEPT !.phase = p] \in Uploads
    /\ \A e \in Entries :
          /\ [e EXCEPT !.known = TRUE, !.access = "recent"] \in Entries
          /\ [e EXCEPT !.access = "old"] \in Entries
          /\ \A d \in Devices : \A a \in SUBSET Devices :
                [e EXCEPT !.known = TRUE, !.origin = d, !.allowed = a] \in Entries
    /\ \A d \in Devices : \A a \in SUBSET Devices : [origin |-> d, allowed |-> a] \in ACLs
    /\ \A r \in {NoRoute} \cup Deliveries : r.todo # {} =>
          /\ r \in Deliveries /\ r.blob \in Blobs /\ r.todo \subseteq Devices
          /\ \A t \in SUBSET Devices : [r EXCEPT !.todo = t] \in Deliveries
<1>1. NoACL \in ACLs /\ NoEntry \in Entries /\ NoGC \in Passes
  BY DEF NoACL, ACLs, NoEntry, Entries, Ages, NoGC, Passes, GCPhases
<1>2. \A r \in {NoGet} \cup Downloads : r.phase # "none" =>
          /\ r \in Downloads /\ r.blob \in Blobs
          /\ \A p \in GetPhases : [r EXCEPT !.phase = p] \in Downloads
  BY DEF NoGet, Downloads, GetPhases
<1>3. \A r \in {NoPut} \cup Uploads : r.phase # "none" =>
          /\ r \in Uploads /\ r.blob \in Blobs
          /\ \A p \in PutPhases : [r EXCEPT !.phase = p] \in Uploads
  BY DEF NoPut, Uploads, PutPhases
<1>4. \A e \in Entries :
          /\ [e EXCEPT !.known = TRUE, !.access = "recent"] \in Entries
          /\ [e EXCEPT !.access = "old"] \in Entries
          /\ \A d \in Devices : \A a \in SUBSET Devices :
                [e EXCEPT !.known = TRUE, !.origin = d, !.allowed = a] \in Entries
  BY DEF Entries, Ages
<1>5. \A d \in Devices : \A a \in SUBSET Devices : [origin |-> d, allowed |-> a] \in ACLs
  BY DEF ACLs
<1>6. \A r \in {NoRoute} \cup Deliveries : r.todo # {} =>
          /\ r \in Deliveries /\ r.blob \in Blobs /\ r.todo \subseteq Devices
          /\ \A t \in SUBSET Devices : [r EXCEPT !.todo = t] \in Deliveries
  BY DEF NoRoute, Deliveries
<1> QED
  BY <1>1, <1>2, <1>3, <1>4, <1>5, <1>6

\* A step of a download that is under way, or of an upload, keeps the types of
\* the requests; a recorded fault stays within its bound.
LEMMA GotoTyped ==
    ASSUME HttpTypes, NEW g \in Gets, NEW p \in GetPhases, get[g].phase # "none", Goto(g, p)
    PROVE  get' \in [Gets -> {NoGet} \cup Downloads]
<1>1. [get[g] EXCEPT !.phase = p] \in Downloads
  BY Records DEF HttpTypes
<1> QED
  BY <1>1 DEF HttpTypes, Goto

\* A step of an upload keeps the types of the uploads.
LEMMA StepTyped ==
    ASSUME HttpTypes, NEW d \in Devices, NEW p \in PutPhases, put[d].phase # "none", Step(d, p)
    PROVE  put' \in [Devices -> {NoPut} \cup Uploads]
<1>1. [put[d] EXCEPT !.phase = p] \in Uploads
  BY Records DEF HttpTypes
<1> QED
  BY <1>1 DEF HttpTypes, Step

\* A fault stays within its bound.
LEMMA FaultTyped ==
    ASSUME CountTypes, Fault \/ UNCHANGED faults
    PROVE  faults' \in 0..MaxFaults
BY BlobConstants DEF CountTypes, Fault

\* Every step keeps the type invariant.
LEMMA TypeStep == TypeOK /\ [Next]_vars => TypeOK'
<1> SUFFICES ASSUME TypeOK, [Next]_vars PROVE TypeOK'
  OBVIOUS
<1> USE DEF TypeOK, hubVars, diskVars, devVars, httpVars, countVars
<1>1. ASSUME NEW d \in Devices, Register(d)
      PROVE  TypeOK'
  <2>1. HubTypes'
    BY <1>1, Records DEF Register, HubTypes
  <2>2. DiskTypes'
    BY <1>1, Records DEF Register, DiskTypes
  <2>3. DeviceTypes'
    BY <1>1 DEF Register, DeviceTypes, DiskTypes
  <2> QED
    BY <1>1, <2>1, <2>2, <2>3 DEF Register, HttpTypes, CountTypes
<1>2. ASSUME NEW d \in Devices, handleUnregister(d)
      PROVE  TypeOK'
  <2>1. HubTypes'
    BY <1>2, Records DEF handleUnregister, PrunedHolder, PrunedACL, HubTypes
  <2>2. DeviceTypes'
    BY <1>2, BlobConstants DEF handleUnregister, DeviceTypes
  <2> QED
    BY <1>2, <2>1, <2>2 DEF handleUnregister, DiskTypes, HttpTypes, CountTypes
<1>3. ASSUME NEW d \in Devices, NEW b \in Blobs,
             NEW targets \in SUBSET Devices \ {{}}, NEW onDemand \in BOOLEAN,
             handleRoute(d, b, targets, onDemand)
      PROVE  TypeOK'
  <2>0. /\ [origin |-> d, allowed |-> targets \cup {d}] \in ACLs
        /\ [blob |-> b, origin |-> d, todo |-> targets \ {d}] \in Deliveries
        /\ [entry[b] EXCEPT !.known = TRUE, !.origin = d, !.allowed = targets \cup {d}]
              \in Entries
    BY <1>3, Records DEF Deliveries, DiskTypes
  <2>1. HubTypes'
    BY <1>3, <2>0, Records DEF handleRoute, HubTypes
  <2>2. DiskTypes'
    BY <1>3, <2>0, Records DEF handleRoute, SetBlobACL, DiskTypes
  <2>3. CountTypes'
    <3>1. entry[b].allowed \subseteq Devices
      BY DEF DiskTypes, Entries
    <3>2. withdrawn' \subseteq Devices \X Blobs
      BY <1>3, <3>1 DEF handleRoute, CountTypes
    <3> QED
      BY <1>3, <3>2, BlobConstants DEF handleRoute, CountTypes
  <2> QED
    BY <1>3, <2>1, <2>2, <2>3 DEF handleRoute, DeviceTypes, HttpTypes
<1>4. ASSUME NEW d \in Devices, RouteTarget(d)
      PROVE  TypeOK'
  <2>0. route \in Deliveries /\ route.blob \in Blobs
    BY <1>4, Records DEF RouteTarget, HubTypes
  <2>1. HubTypes'
    BY <1>4, Records DEF RouteTarget, PrunedHolder, PrunedACL, HubTypes
  <2>2. DiskTypes'
    BY <1>4, <2>0 DEF RouteTarget, DiskTypes
  <2>3. DeviceTypes'
    BY <1>4, <2>0 DEF RouteTarget, DeviceTypes
  <2>4. CountTypes'
    BY <1>4, <2>0, FaultTyped DEF RouteTarget, CountTypes
  <2> QED
    BY <1>4, <2>1, <2>2, <2>3, <2>4 DEF RouteTarget, HttpTypes
<1>5. ASSUME RouteReturn
      PROVE  TypeOK'
  <2>1. HubTypes'
    BY <1>5, Records DEF RouteReturn, HubTypes
  <2> QED
    BY <1>5, <2>1 DEF RouteReturn, DiskTypes, DeviceTypes, HttpTypes, CountTypes
<1>6. ASSUME NEW g \in Gets, NEW d \in Devices, NEW b \in Blobs, GetAuth(g, d, b)
      PROVE  TypeOK'
  <2>1. HttpTypes'
    BY <1>6 DEF GetAuth, HttpTypes, Downloads, GetPhases
  <2> QED
    BY <1>6, <2>1 DEF GetAuth, HubTypes, DiskTypes, DeviceTypes, CountTypes
<1>7. ASSUME NEW g \in Gets, GetRecord(g)
      PROVE  TypeOK'
  <2>1. HttpTypes'
    BY <1>7, GotoTyped DEF GetRecord, GetPhases, HttpTypes
  <2> QED
    BY <1>7, <2>1 DEF GetRecord, HubTypes, DiskTypes, DeviceTypes, CountTypes
<1>8. ASSUME NEW g \in Gets, GetOpen(g)
      PROVE  TypeOK'
  <2>1. HttpTypes'
    BY <1>8, GotoTyped DEF GetOpen, GetPhases, HttpTypes
  <2> QED
    BY <1>8, <2>1 DEF GetOpen, HubTypes, DiskTypes, DeviceTypes, CountTypes
<1>9. ASSUME NEW g \in Gets, AddWaiter(g)
      PROVE  TypeOK'
  <2>1. HttpTypes'
    BY <1>9, GotoTyped DEF AddWaiter, GetPhases, HttpTypes
  <2> QED
    BY <1>9, <2>1 DEF AddWaiter, HubTypes, DiskTypes, DeviceTypes, CountTypes
<1>10. ASSUME NEW g \in Gets, handleBlobRequest(g)
      PROVE  TypeOK'
  <2>0. get[g].blob \in Blobs
    BY <1>10, Records DEF handleBlobRequest, HttpTypes
  <2>1. DeviceTypes'
    BY <1>10, <2>0 DEF handleBlobRequest, DeviceTypes
  <2>2. HttpTypes'
    BY <1>10, GotoTyped DEF handleBlobRequest, PullEnds, GetPhases, HttpTypes
  <2>3. CountTypes'
    BY <1>10, FaultTyped DEF handleBlobRequest, CountTypes
  <2> QED
    BY <1>10, <2>1, <2>2, <2>3 DEF handleBlobRequest, HubTypes, DiskTypes
<1>11. ASSUME NEW g \in Gets, Recheck(g)
      PROVE  TypeOK'
  <2>1. HttpTypes'
    BY <1>11, GotoTyped DEF Recheck, PullEnds, GetPhases, HttpTypes
  <2> QED
    BY <1>11, <2>1 DEF Recheck, HubTypes, DiskTypes, DeviceTypes, CountTypes
<1>12. ASSUME NEW g \in Gets, Woken(g)
      PROVE  TypeOK'
  <2>1. HttpTypes'
    BY <1>12, GotoTyped DEF Woken, PullEnds, GetPhases, HttpTypes
  <2> QED
    BY <1>12, <2>1 DEF Woken, HubTypes, DiskTypes, DeviceTypes, CountTypes
<1>13. ASSUME NEW g \in Gets, PullTimeout(g)
      PROVE  TypeOK'
  <2>1. HttpTypes'
    BY <1>13, GotoTyped DEF PullTimeout, PullEnds, GetPhases, HttpTypes
  <2> QED
    BY <1>13, <2>1 DEF PullTimeout, HubTypes, DiskTypes, DeviceTypes, CountTypes
<1>14. ASSUME NEW g \in Gets, GetServe(g)
      PROVE  TypeOK'
  <2>1. DiskTypes'
    BY <1>14, Records DEF GetServe, Touched, DiskTypes, HttpTypes
  <2>2. HttpTypes'
    BY <1>14, GotoTyped DEF GetServe, GetPhases, HttpTypes
  <2> QED
    BY <1>14, <2>1, <2>2 DEF GetServe, HubTypes, DeviceTypes, CountTypes
<1>15. ASSUME NEW d \in Devices, NEW b \in Blobs, PutAuth(d, b)
      PROVE  TypeOK'
  <2>1. DeviceTypes'
    BY <1>15, BlobConstants DEF PutAuth, DeviceTypes
  <2>2. HttpTypes'
    BY <1>15 DEF PutAuth, HttpTypes, Uploads, PutPhases
  <2>3. CountTypes'
    BY <1>15, BlobConstants DEF PutAuth, CountTypes
  <2> QED
    BY <1>15, <2>1, <2>2, <2>3 DEF PutAuth, HubTypes, DiskTypes
<1>16. ASSUME NEW d \in Devices, PutHas(d)
      PROVE  TypeOK'
  <2>1. HttpTypes'
    BY <1>16, StepTyped DEF PutHas, PutPhases, HttpTypes
  <2> QED
    BY <1>16, <2>1 DEF PutHas, HubTypes, DiskTypes, DeviceTypes, CountTypes
<1>17. ASSUME NEW d \in Devices, PutDiscard(d)
      PROVE  TypeOK'
  <2>1. HttpTypes'
    BY <1>17, StepTyped DEF PutDiscard, PutPhases, HttpTypes
  <2> QED
    BY <1>17, <2>1 DEF PutDiscard, HubTypes, DiskTypes, DeviceTypes, CountTypes
<1>18. ASSUME NEW d \in Devices, PutRename(d)
      PROVE  TypeOK'
  <2>1. DiskTypes'
    BY <1>18, Records DEF PutRename, DiskTypes, HttpTypes
  <2>2. HttpTypes'
    BY <1>18, StepTyped DEF PutRename, PutPhases, HttpTypes
  <2>3. CountTypes'
    BY <1>18, FaultTyped DEF PutRename, CountTypes
  <2> QED
    BY <1>18, <2>1, <2>2, <2>3 DEF PutRename, HubTypes, DeviceTypes
<1>19. ASSUME NEW d \in Devices, PutTouch(d)
      PROVE  TypeOK'
  <2>1. DiskTypes'
    BY <1>19, Records DEF PutTouch, Touched, DiskTypes, HttpTypes
  <2>2. HttpTypes'
    BY <1>19, StepTyped DEF PutTouch, PutPhases, HttpTypes
  <2> QED
    BY <1>19, <2>1, <2>2 DEF PutTouch, HubTypes, DeviceTypes, CountTypes
<1>20. ASSUME NEW d \in Devices, PutSignal(d)
      PROVE  TypeOK'
  <2>1. DeviceTypes'
    BY <1>20, Records DEF PutSignal, DeviceTypes, HttpTypes
  <2>2. HttpTypes'
    BY <1>20, Records DEF PutSignal, HttpTypes
  <2> QED
    BY <1>20, <2>1, <2>2 DEF PutSignal, HubTypes, DiskTypes, CountTypes
<1>21. ASSUME GCPin
      PROVE  TypeOK'
  <2>0. UNION {queued[d] : d \in Devices} \subseteq Blobs
    BY <1>21 DEF DiskTypes
  <2>1. (gc \in Passes)'
    BY <1>21, <2>0 DEF GCPin, NoGC, Passes, GCPhases
  <2>2. CountTypes'
    BY <1>21, BlobConstants DEF GCPin, CountTypes
  <2> QED
    BY <1>21, <2>1, <2>2 DEF GCPin, HubTypes, DiskTypes, DeviceTypes, HttpTypes
<1>22. ASSUME GCList
      PROVE  TypeOK'
  <2>0. /\ Known \subseteq Blobs
        /\ {<<b, entry[b].access>> : b \in Known} \subseteq Blobs \X Ages
    BY <1>22 DEF Known, DiskTypes, Entries
  <2>1. (gc \in Passes)'
    BY <1>22, <2>0 DEF GCList, Passes, GCPhases
  <2> QED
    BY <1>22, <2>1 DEF GCList, HubTypes, DiskTypes, DeviceTypes, HttpTypes, CountTypes
<1>23. ASSUME NEW b \in Blobs, GCExpire(b)
      PROVE  TypeOK'
  <2>1. DiskTypes'
    BY <1>23, Records DEF GCExpire, DiskTypes
  <2>2. (gc \in Passes)'
    BY <1>23 DEF GCExpire, Passes, GCPhases
  <2> QED
    BY <1>23, <2>1, <2>2 DEF GCExpire, HubTypes, DeviceTypes, HttpTypes, CountTypes
<1>24. ASSUME GCRecord
      PROVE  TypeOK'
  <2>1. DiskTypes'
    BY <1>24, Records DEF GCRecord, DiskTypes
  <2>2. (gc \in Passes)'
    BY <1>24 DEF GCRecord, Passes, GCPhases
  <2> QED
    BY <1>24, <2>1, <2>2 DEF GCRecord, HubTypes, DeviceTypes, HttpTypes, CountTypes
<1>25. ASSUME GCUsage
      PROVE  TypeOK'
  <2>0. Cardinality(files) \in Nat
    BY <1>25, BlobConstants, FS_Subset, FS_CardinalityType DEF DiskTypes
  <2>1. (gc \in Passes)'
    BY <1>25, <2>0 DEF GCUsage, Passes, GCPhases
  <2> QED
    BY <1>25, <2>1 DEF GCUsage, HubTypes, DiskTypes, DeviceTypes, HttpTypes, CountTypes
<1>26. ASSUME NEW b \in Blobs, GCEvict(b)
      PROVE  TypeOK'
  <2>0. gc.usage - 1 \in Nat
    BY <1>26, BlobConstants DEF GCEvict, OverCap, Passes
  <2>1. DiskTypes'
    BY <1>26, Records DEF GCEvict, DiskTypes
  <2>2. (gc \in Passes)'
    BY <1>26, <2>0 DEF GCEvict, Passes, GCPhases
  <2> QED
    BY <1>26, <2>1, <2>2 DEF GCEvict, HubTypes, DeviceTypes, HttpTypes, CountTypes
<1>27. ASSUME GCEnd
      PROVE  TypeOK'
  <2>1. (gc \in Passes)'
    BY <1>27, Records DEF GCEnd
  <2> QED
    BY <1>27, <2>1 DEF GCEnd, HubTypes, DiskTypes, DeviceTypes, HttpTypes, CountTypes
<1>28. ASSUME NEW b \in Blobs, Age(b)
      PROVE  TypeOK'
  <2>1. DiskTypes'
    BY <1>28, Records DEF Age, DiskTypes
  <2> QED
    BY <1>28, <2>1 DEF Age, HubTypes, DeviceTypes, HttpTypes, CountTypes
<1>29. ASSUME Crash
      PROVE  TypeOK'
  <2>1. HubTypes'
    BY <1>29, Records DEF Crash, HubTypes
  <2>2. DeviceTypes'
    BY <1>29, BlobConstants DEF Crash, DeviceTypes
  <2>3. HttpTypes'
    BY <1>29, Records DEF Crash, HttpTypes, NoGet, GetPhases
  <2>4. (gc \in Passes)'
    BY <1>29, Records DEF Crash
  <2>5. CountTypes'
    BY <1>29, FaultTyped DEF Crash, CountTypes
  <2> QED
    BY <1>29, <2>1, <2>2, <2>3, <2>4, <2>5 DEF Crash, DiskTypes
<1>30. CASE UNCHANGED vars
  BY <1>30 DEF vars, HubTypes, DiskTypes, DeviceTypes, HttpTypes, CountTypes
<1> QED
  BY <1>1, <1>2, <1>3, <1>4, <1>5, <1>6, <1>7, <1>8, <1>9, <1>10, <1>11, <1>12, <1>13,
     <1>14, <1>15, <1>16, <1>17, <1>18, <1>19, <1>20, <1>21, <1>22, <1>23, <1>24, <1>25,
     <1>26, <1>27, <1>28, <1>29, <1>30 DEF Next, HubStep, DeviceStep, PutStep, GetStep,
     GCStep

\* Every step keeps the channel of a waiting download, and the upload that will
\* close it.
LEMMA WakeupStep == TypeOK /\ Waiting /\ [Next]_vars => Waiting'
<1> SUFFICES ASSUME TypeOK, Waiting, [Next]_vars PROVE Waiting'
  OBVIOUS
<1> USE DEF Waiting, HasChannel, NoLostWakeup, TypeOK, HttpTypes, Downloads, Uploads, NoGet, NoPut,
        diskVars, httpVars
<1>1. ASSUME NEW d \in Devices, Register(d)
      PROVE  Waiting'
  BY <1>1 DEF Register
<1>2. ASSUME NEW d \in Devices, handleUnregister(d)
      PROVE  Waiting'
  BY <1>2 DEF handleUnregister
<1>3. ASSUME NEW d \in Devices, NEW b \in Blobs,
             NEW targets \in SUBSET Devices \ {{}}, NEW onDemand \in BOOLEAN,
             handleRoute(d, b, targets, onDemand)
      PROVE  Waiting'
  BY <1>3 DEF handleRoute
<1>4. ASSUME NEW d \in Devices, RouteTarget(d)
      PROVE  Waiting'
  BY <1>4 DEF RouteTarget
<1>5. ASSUME RouteReturn
      PROVE  Waiting'
  BY <1>5 DEF RouteReturn
<1>6. ASSUME NEW g \in Gets, NEW d \in Devices, NEW b \in Blobs, GetAuth(g, d, b)
      PROVE  Waiting'
  BY <1>6 DEF GetAuth
<1>7. ASSUME NEW g \in Gets, GetRecord(g)
      PROVE  Waiting'
  BY <1>7 DEF GetRecord, Goto
<1>8. ASSUME NEW g \in Gets, GetOpen(g)
      PROVE  Waiting'
  BY <1>8 DEF GetOpen, Goto
<1>9. ASSUME NEW g \in Gets, AddWaiter(g)
      PROVE  Waiting'
  BY <1>9 DEF AddWaiter, Goto
<1>10. ASSUME NEW g \in Gets, handleBlobRequest(g)
      PROVE  Waiting'
  BY <1>10 DEF handleBlobRequest, Goto, PullEnds
<1>11. ASSUME NEW g \in Gets, Recheck(g)
      PROVE  Waiting'
  BY <1>11 DEF Recheck, Goto, PullEnds
<1>12. ASSUME NEW g \in Gets, Woken(g)
      PROVE  Waiting'
  BY <1>12 DEF Woken, Goto, PullEnds
<1>13. ASSUME NEW g \in Gets, PullTimeout(g)
      PROVE  Waiting'
  BY <1>13 DEF PullTimeout, Goto, PullEnds
<1>14. ASSUME NEW g \in Gets, GetServe(g)
      PROVE  Waiting'
  BY <1>14 DEF GetServe, Goto
<1>15. ASSUME NEW d \in Devices, NEW b \in Blobs, PutAuth(d, b)
      PROVE  Waiting'
  BY <1>15 DEF PutAuth
<1>16. ASSUME NEW d \in Devices, PutHas(d)
      PROVE  Waiting'
  BY <1>16 DEF PutHas, Step
<1>17. ASSUME NEW d \in Devices, PutDiscard(d)
      PROVE  Waiting'
  BY <1>17 DEF PutDiscard, Step
<1>18. ASSUME NEW d \in Devices, PutRename(d)
      PROVE  Waiting'
  BY <1>18 DEF PutRename, Step
<1>19. ASSUME NEW d \in Devices, PutTouch(d)
      PROVE  Waiting'
  BY <1>19 DEF PutTouch, Step
<1>20. ASSUME NEW d \in Devices, PutSignal(d)
      PROVE  Waiting'
  BY <1>20 DEF PutSignal
<1>21. ASSUME GCPin
      PROVE  Waiting'
  BY <1>21 DEF GCPin
<1>22. ASSUME GCList
      PROVE  Waiting'
  BY <1>22 DEF GCList
<1>23. ASSUME NEW b \in Blobs, GCExpire(b)
      PROVE  Waiting'
  BY <1>23 DEF GCExpire
<1>24. ASSUME GCRecord
      PROVE  Waiting'
  BY <1>24 DEF GCRecord
<1>25. ASSUME GCUsage
      PROVE  Waiting'
  BY <1>25 DEF GCUsage
<1>26. ASSUME NEW b \in Blobs, GCEvict(b)
      PROVE  Waiting'
  BY <1>26 DEF GCEvict
<1>27. ASSUME GCEnd
      PROVE  Waiting'
  BY <1>27 DEF GCEnd
<1>28. ASSUME NEW b \in Blobs, Age(b)
      PROVE  Waiting'
  BY <1>28 DEF Age
<1>29. ASSUME Crash
      PROVE  Waiting'
  BY <1>29 DEF Crash
<1>30. CASE UNCHANGED vars
  BY <1>30 DEF vars
<1> HIDE DEF Waiting, TypeOK
<1> QED
  BY <1>1, <1>2, <1>3, <1>4, <1>5, <1>6, <1>7, <1>8, <1>9, <1>10, <1>11, <1>12, <1>13,
     <1>14, <1>15, <1>16, <1>17, <1>18, <1>19, <1>20, <1>21, <1>22, <1>23, <1>24, <1>25,
     <1>26, <1>27, <1>28, <1>29, <1>30 DEF Next, HubStep, DeviceStep, PutStep, GetStep,
     GCStep

\* Every step keeps the pins: what is queued now was pinned by the pass, or was
\* queued after it looked.
LEMMA PinsStep == TypeOK /\ PinsSeen /\ [Next]_vars => PinsSeen'
<1> SUFFICES ASSUME TypeOK, PinsSeen, [Next]_vars PROVE PinsSeen'
  OBVIOUS
<1> USE DEF PinsSeen, TypeOK, Passes, DiskTypes, diskVars, countVars
<1>1. ASSUME NEW d \in Devices, Register(d)
      PROVE  PinsSeen'
  BY <1>1 DEF Register
<1>2. ASSUME NEW d \in Devices, handleUnregister(d)
      PROVE  PinsSeen'
  BY <1>2 DEF handleUnregister
<1>3. ASSUME NEW d \in Devices, NEW b \in Blobs,
             NEW targets \in SUBSET Devices \ {{}}, NEW onDemand \in BOOLEAN,
             handleRoute(d, b, targets, onDemand)
      PROVE  PinsSeen'
  BY <1>3 DEF handleRoute
<1>4. ASSUME NEW d \in Devices, RouteTarget(d)
      PROVE  PinsSeen'
  <2> SUFFICES ASSUME gc.phase # "idle", NEW e \in Devices, NEW b \in queued'[e]
               PROVE  b \in gc.pinned \/ <<e, b>> \in late'
    BY <1>4 DEF RouteTarget
  <2>1. late \subseteq late'
    BY <1>4 DEF RouteTarget
  <2>2. CASE b \in queued[e]
    BY <2>1, <2>2
  <2>3. CASE b \notin queued[e]
    BY <1>4, <2>3 DEF RouteTarget
  <2> QED
    BY <2>2, <2>3
<1>5. ASSUME RouteReturn
      PROVE  PinsSeen'
  BY <1>5 DEF RouteReturn
<1>6. ASSUME NEW g \in Gets, NEW d \in Devices, NEW b \in Blobs, GetAuth(g, d, b)
      PROVE  PinsSeen'
  BY <1>6 DEF GetAuth
<1>7. ASSUME NEW g \in Gets, GetRecord(g)
      PROVE  PinsSeen'
  BY <1>7 DEF GetRecord
<1>8. ASSUME NEW g \in Gets, GetOpen(g)
      PROVE  PinsSeen'
  BY <1>8 DEF GetOpen
<1>9. ASSUME NEW g \in Gets, AddWaiter(g)
      PROVE  PinsSeen'
  BY <1>9 DEF AddWaiter
<1>10. ASSUME NEW g \in Gets, handleBlobRequest(g)
      PROVE  PinsSeen'
  BY <1>10 DEF handleBlobRequest
<1>11. ASSUME NEW g \in Gets, Recheck(g)
      PROVE  PinsSeen'
  BY <1>11 DEF Recheck
<1>12. ASSUME NEW g \in Gets, Woken(g)
      PROVE  PinsSeen'
  BY <1>12 DEF Woken
<1>13. ASSUME NEW g \in Gets, PullTimeout(g)
      PROVE  PinsSeen'
  BY <1>13 DEF PullTimeout
<1>14. ASSUME NEW g \in Gets, GetServe(g)
      PROVE  PinsSeen'
  BY <1>14 DEF GetServe
<1>15. ASSUME NEW d \in Devices, NEW b \in Blobs, PutAuth(d, b)
      PROVE  PinsSeen'
  BY <1>15 DEF PutAuth
<1>16. ASSUME NEW d \in Devices, PutHas(d)
      PROVE  PinsSeen'
  BY <1>16 DEF PutHas
<1>17. ASSUME NEW d \in Devices, PutDiscard(d)
      PROVE  PinsSeen'
  BY <1>17 DEF PutDiscard
<1>18. ASSUME NEW d \in Devices, PutRename(d)
      PROVE  PinsSeen'
  BY <1>18 DEF PutRename
<1>19. ASSUME NEW d \in Devices, PutTouch(d)
      PROVE  PinsSeen'
  BY <1>19 DEF PutTouch
<1>20. ASSUME NEW d \in Devices, PutSignal(d)
      PROVE  PinsSeen'
  BY <1>20 DEF PutSignal
<1>21. ASSUME GCPin
      PROVE  PinsSeen'
  BY <1>21 DEF GCPin, NoGC
<1>22. ASSUME GCList
      PROVE  PinsSeen'
  BY <1>22 DEF GCList
<1>23. ASSUME NEW b \in Blobs, GCExpire(b)
      PROVE  PinsSeen'
  BY <1>23 DEF GCExpire
<1>24. ASSUME GCRecord
      PROVE  PinsSeen'
  BY <1>24 DEF GCRecord
<1>25. ASSUME GCUsage
      PROVE  PinsSeen'
  BY <1>25 DEF GCUsage
<1>26. ASSUME NEW b \in Blobs, GCEvict(b)
      PROVE  PinsSeen'
  BY <1>26 DEF GCEvict
<1>27. ASSUME GCEnd
      PROVE  PinsSeen'
  BY <1>27 DEF GCEnd, NoGC
<1>28. ASSUME NEW b \in Blobs, Age(b)
      PROVE  PinsSeen'
  BY <1>28 DEF Age
<1>29. ASSUME Crash
      PROVE  PinsSeen'
  BY <1>29 DEF Crash, NoGC
<1>30. CASE UNCHANGED vars
  BY <1>30 DEF vars
<1> HIDE DEF PinsSeen, TypeOK
<1> QED
  BY <1>1, <1>2, <1>3, <1>4, <1>5, <1>6, <1>7, <1>8, <1>9, <1>10, <1>11, <1>12, <1>13,
     <1>14, <1>15, <1>16, <1>17, <1>18, <1>19, <1>20, <1>21, <1>22, <1>23, <1>24, <1>25,
     <1>26, <1>27, <1>28, <1>29, <1>30 DEF Next, HubStep, DeviceStep, PutStep, GetStep,
     GCStep

\* The initial state: nobody connected, an empty store, no request.
LEMMA InitInv == Init => IndInv
<1> SUFFICES ASSUME Init PROVE IndInv
  OBVIOUS
<1> USE DEF Init
<1>1. HubTypes /\ DiskTypes /\ DeviceTypes
  BY Records DEF HubTypes, DiskTypes, DeviceTypes
<1>2. HttpTypes /\ gc \in Passes
  BY Records DEF HttpTypes
<1>4. CountTypes
  BY BlobConstants DEF CountTypes
<1>3. Waiting /\ PinsSeen
  BY DEF Waiting, HasChannel, NoLostWakeup, PinsSeen, NoGet, NoGC
<1> QED
  BY <1>1, <1>2, <1>3, <1>4 DEF IndInv, TypeOK

\* The inductive invariant holds in every reachable state.
LEMMA Invariance == Spec => []IndInv
<1>1. IndInv /\ [Next]_vars => IndInv'
  BY TypeStep, WakeupStep, PinsStep DEF IndInv
<1> QED
  BY <1>1, InitInv, PTL DEF Spec

\* The hub's maps, the disk, the devices, the requests and the collector stay
\* well-typed, and a registered device always has a running readPump.
THEOREM BlobTypeCorrect == Spec => []TypeOK
<1>1. IndInv => TypeOK
  BY DEF IndInv
<1> QED
  BY <1>1, Invariance, PTL

\* No download is left waiting for bytes that have arrived, for any number of
\* uploads and downloads of the same blob and whatever is collected meanwhile.
THEOREM WakeupNeverLost == Spec => []NoLostWakeup
<1>1. IndInv => NoLostWakeup
  BY DEF IndInv, Waiting
<1> QED
  BY <1>1, Invariance, PTL

\* Neither pass of RunGC deletes the bytes of a clip that was queued when the
\* pass read its pins, for any store cap and any number of blobs.
THEOREM PinnedBytesKept == Spec => OldPinsKept
<1>1. IndInv /\ [Next]_vars =>
        [\A b \in files \ files' : \A d \in Devices : b \in queued[d] => <<d, b>> \in late]_vars
  <2> SUFFICES ASSUME IndInv, Next, NEW b \in files \ files', NEW d \in Devices, b \in queued[d]
               PROVE  <<d, b>> \in late
    OBVIOUS
  <2>1. gc.phase # "idle" /\ b \notin gc.pinned
    <3>1. ASSUME NEW e \in Blobs, GCExpire(e) PROVE gc.phase # "idle" /\ b \notin gc.pinned
      BY <3>1 DEF GCExpire
    <3>2. ASSUME NEW e \in Blobs, GCEvict(e) PROVE gc.phase # "idle" /\ b \notin gc.pinned
      BY <3>2 DEF GCEvict, Evictable
    <3>3. ASSUME NEW e \in Devices, DeviceStep(e) PROVE FALSE
      BY <3>3 DEF DeviceStep, Register, handleUnregister, handleRoute, PutAuth, GetAuth, diskVars
    <3>4. ASSUME NEW e \in Devices, PutStep(e) PROVE FALSE
      BY <3>4 DEF PutStep, PutHas, PutDiscard, PutRename, PutTouch, PutSignal, diskVars
    <3>5. ASSUME NEW g \in Gets, GetStep(g) PROVE FALSE
      BY <3>5 DEF GetStep, GetRecord, GetOpen, AddWaiter, handleBlobRequest, Recheck, Woken,
             PullTimeout, GetServe, diskVars
    <3>6. ASSUME HubStep \/ GCPin \/ GCList \/ GCRecord \/ GCUsage \/ GCEnd \/ Crash PROVE FALSE
      BY <3>6 DEF HubStep, RouteTarget, RouteReturn, GCPin, GCList, GCRecord, GCUsage, GCEnd, Crash,
             diskVars
    <3>7. ASSUME NEW e \in Blobs, Age(e) PROVE FALSE
      BY <3>7 DEF Age
    <3> QED
      BY <3>1, <3>2, <3>3, <3>4, <3>5, <3>6, <3>7 DEF Next, GCStep
  <2> QED
    BY <2>1 DEF IndInv, PinsSeen
<1> QED
  BY <1>1, Invariance, PTL DEF Spec, OldPinsKept

-----------------------------------------------------------------------------
(* Recipients are served *)

\* The record of b grants device d the blob, or has lost that right for one of the
\* reasons that withdrawn records.
Granted(d, b) == d \in entry[b].allowed \/ <<d, b>> \in withdrawn

\* Whoever has the clip of a blob, in its queue, received or about to be delivered, and
\* every download that was turned to the record, is granted by it or had its right
\* withdrawn; a record with recipients is one that GetBlobEntry finds.
Entitled ==
    /\ \A b \in Blobs : entry[b].allowed # {} => entry[b].known
    /\ \A d \in Devices : \A b \in received[d] \cup queued[d] : Granted(d, b)
    /\ \A d \in route.todo : Granted(d, route.blob)
    /\ \A g \in Gets : get[g].phase = "record" => Granted(get[g].dev, get[g].blob)

\* No step takes a right away without recording it, and none leaves recipients on a
\* record that is not there.
LEMMA GrantedStep ==
    ASSUME TypeOK, [Next]_vars, \A b \in Blobs : entry[b].allowed # {} => entry[b].known
    PROVE  /\ \A b \in Blobs : entry'[b].allowed # {} => entry'[b].known
           /\ \A d \in Devices, b \in Blobs : Granted(d, b) => Granted(d, b)'
<1> DEFINE Kept == /\ \A b \in Blobs : entry'[b].allowed # {} => entry'[b].known
                   /\ \A d \in Devices, b \in Blobs : Granted(d, b) => Granted(d, b)'
<1> SUFFICES Kept
  OBVIOUS
<1>0. /\ entry \in [Blobs -> Entries] /\ get \in [Gets -> {NoGet} \cup Downloads]
      /\ put \in [Devices -> {NoPut} \cup Uploads] /\ withdrawn \subseteq Devices \X Blobs
  BY DEF TypeOK, DiskTypes, HttpTypes, CountTypes
<1> USE DEF hubVars, diskVars, devVars, httpVars, countVars
<1>1. ASSUME UNCHANGED <<entry, withdrawn>> PROVE Kept
  BY <1>1 DEF Granted
<1>2. ASSUME NEW c \in Blobs, entry' = Touched(c), UNCHANGED withdrawn PROVE Kept
  BY <1>0, <1>2 DEF Granted, Touched, Entries
<1>3. ASSUME NEW d \in Devices, NEW b \in Blobs,
             NEW targets \in SUBSET Devices \ {{}}, NEW onDemand \in BOOLEAN,
             handleRoute(d, b, targets, onDemand)
      PROVE  Kept
  <2>1. CASE entry' = entry /\ withdrawn \subseteq withdrawn'
    BY <2>1 DEF Granted
  <2>2. CASE /\ entry' = SetBlobACL(b, d, targets \cup {d})
             /\ withdrawn' = (withdrawn \cup ((entry[b].allowed \ (targets \cup {d})) \X {b}))
                                 \ ((targets \cup {d}) \X {b})
    <3>1. /\ entry'[b].known /\ entry'[b].allowed = targets \cup {d}
          /\ \A c \in Blobs : c # b => entry'[c] = entry[c]
      BY <1>0, <2>2 DEF SetBlobACL, Entries
    <3>2. ASSUME NEW e \in Devices, NEW c \in Blobs, Granted(e, c) PROVE Granted(e, c)'
      <4>1. CASE c = b
        <5>1. CASE e \in targets \cup {d}
          BY <3>1, <4>1, <5>1 DEF Granted
        <5>2. CASE e \notin targets \cup {d}
          <6>1. <<e, b>> \in withdrawn \cup ((entry[b].allowed \ (targets \cup {d})) \X {b})
            BY <3>2, <4>1, <5>2 DEF Granted
          <6>2. <<e, b>> \notin (targets \cup {d}) \X {b}
            BY <5>2
          <6> QED
            BY <2>2, <4>1, <6>1, <6>2 DEF Granted
        <5> QED
          BY <5>1, <5>2
      <4>2. CASE c # b
        <5>1. <<e, c>> \notin (targets \cup {d}) \X {b}
          BY <4>2
        <5> QED
          BY <2>2, <3>1, <3>2, <4>2, <5>1 DEF Granted
      <4> QED
        BY <4>1, <4>2
    <3> QED
      BY <3>1, <3>2
  <2> QED
    BY <1>3, <2>1, <2>2 DEF handleRoute
<1>4. CASE GCRecord
  <2>1. /\ entry' = [entry EXCEPT ![gc.blob] = NoEntry]
        /\ withdrawn' = withdrawn \cup {p \in Devices \X Blobs : p[2] = gc.blob /\ p[1] \in entry[p[2]].allowed}
    BY <1>4 DEF GCRecord
  <2>2. \A b \in Blobs : entry'[b] = IF b = gc.blob THEN NoEntry ELSE entry[b]
    BY <1>0, <2>1
  <2>3. NoEntry.allowed = {}
    BY DEF NoEntry
  <2>4. ASSUME NEW d \in Devices, NEW b \in Blobs, Granted(d, b) PROVE Granted(d, b)'
    <3>1. CASE b = gc.blob /\ d \in entry[b].allowed
      <4>1. <<d, b>> \in {p \in Devices \X Blobs : p[2] = gc.blob /\ p[1] \in entry[p[2]].allowed}
        BY <3>1
      <4> QED
        BY <2>1, <4>1 DEF Granted
    <3>2. CASE ~(b = gc.blob /\ d \in entry[b].allowed)
      BY <2>1, <2>2, <2>4, <3>2 DEF Granted
    <3> QED
      BY <3>1, <3>2
  <2> QED
    BY <2>2, <2>3, <2>4
<1>5. ASSUME NEW b \in Blobs, Age(b) PROVE Kept
  BY <1>0, <1>5 DEF Age, Granted, Entries
<1>6. ASSUME NEW d \in Devices, PutStep(d) PROVE Kept
  <2>1. UNCHANGED <<entry, withdrawn>> \/ (entry' = Touched(put[d].blob) /\ put[d].blob \in Blobs /\ UNCHANGED withdrawn)
    BY <1>0, <1>6, Records DEF PutStep, PutHas, PutDiscard, PutRename, PutTouch, PutSignal
  <2> QED
    BY <1>1, <1>2, <2>1
<1>7. ASSUME NEW g \in Gets, GetStep(g) PROVE Kept
  <2>1. UNCHANGED <<entry, withdrawn>> \/ (entry' = Touched(get[g].blob) /\ get[g].blob \in Blobs /\ UNCHANGED withdrawn)
    BY <1>0, <1>7, Records DEF GetStep, GetRecord, GetOpen, AddWaiter, handleBlobRequest, Recheck, Woken, PullTimeout,
                        GetServe
  <2> QED
    BY <1>1, <1>2, <2>1
<1>8. ASSUME NEW d \in Devices, DeviceStep(d),
             ~\E b \in Blobs, targets \in SUBSET Devices \ {{}}, onDemand \in BOOLEAN : handleRoute(d, b, targets, onDemand)
      PROVE  Kept
  BY <1>1, <1>8 DEF DeviceStep, Register, handleUnregister, PutAuth, GetAuth
<1>9. CASE HubStep \/ Crash \/ UNCHANGED vars \/ (GCStep /\ ~GCRecord)
  BY <1>1, <1>9 DEF HubStep, RouteTarget, RouteReturn, Crash, vars, GCStep, GCPin, GCList, GCUsage, GCEnd, GCExpire,
                    GCEvict
<1> HIDE DEF Kept
<1> QED
  BY <1>3, <1>4, <1>5, <1>6, <1>7, <1>8, <1>9 DEF Next

\* Every step keeps the recipients' rights.
LEMMA EntitledStep ==
    ASSUME TypeOK, Entitled, [Next]_vars
    PROVE  Entitled'
<1>0. /\ entry \in [Blobs -> Entries] /\ get \in [Gets -> {NoGet} \cup Downloads]
      /\ received \in [Devices -> SUBSET Blobs] /\ queued \in [Devices -> SUBSET Blobs]
      /\ route \in {NoRoute} \cup Deliveries
  BY DEF TypeOK, HubTypes, DiskTypes, DeviceTypes, HttpTypes
<1>a. /\ \A b \in Blobs : entry'[b].allowed # {} => entry'[b].known
      /\ \A d \in Devices, b \in Blobs : Granted(d, b) => Granted(d, b)'
  BY GrantedStep DEF Entitled
<1>b. /\ \A d \in Devices : received[d] \cup queued[d] \subseteq Blobs
      /\ \A d \in route.todo : d \in Devices /\ route.blob \in Blobs
      /\ \A g \in Gets : get[g].phase = "record" => get[g].dev \in Devices /\ get[g].blob \in Blobs
  BY <1>0 DEF NoRoute, Deliveries, NoGet, Downloads
<1> USE DEF hubVars, diskVars, devVars, httpVars, countVars
\* The clips move, the requests stay.
<1>1. ASSUME \A d \in Devices : \A b \in received'[d] \cup queued'[d] :
                b \in received[d] \cup queued[d] \/ (d \in route.todo /\ b = route.blob),
             route'.todo \subseteq route.todo, route'.todo # {} => route'.blob = route.blob,
             \A g \in Gets : get'[g].phase = "record" => get'[g] = get[g]
      PROVE  Entitled'
  <2>1. ASSUME NEW d \in Devices, NEW b \in received'[d] \cup queued'[d] PROVE Granted(d, b)'
    BY <1>1, <1>a, <1>b, <2>1 DEF Entitled
  <2>2. ASSUME NEW d \in route'.todo PROVE Granted(d, route.blob)'
    <3>1. PICK b : b = route.blob
      OBVIOUS
    <3>2. Granted(d, b)' /\ route'.blob = b
      BY <1>1, <1>a, <1>b, <2>2, <3>1 DEF Entitled
    <3> QED
      BY <3>2
  <2>3. ASSUME NEW g \in Gets, get'[g].phase = "record" PROVE Granted(get[g].dev, get[g].blob)'
    <3>1. PICK b, d : b = get[g].blob /\ d = get[g].dev
      OBVIOUS
    <3>2. Granted(d, b)' /\ get'[g].blob = b /\ get'[g].dev = d
      BY <1>1, <1>a, <1>b, <2>3, <3>1 DEF Entitled
    <3> QED
      BY <3>2
  <2> QED
    BY <1>a, <2>1, <2>2, <2>3 DEF Entitled
<1>2. ASSUME NEW d \in Devices, Register(d) PROVE Entitled'
  <2>1. \A e \in Devices : received'[e] \cup queued'[e] \subseteq received[e] \cup queued[e]
    BY <1>0, <1>2 DEF Register
  <2> QED
    BY <1>1, <1>2, <2>1 DEF Register
<1>3. ASSUME NEW d \in Devices, NEW b \in Blobs,
             NEW targets \in SUBSET Devices \ {{}}, NEW onDemand \in BOOLEAN,
             handleRoute(d, b, targets, onDemand)
      PROVE  Entitled'
  <2>1. route' = [blob |-> b, origin |-> d, todo |-> targets \ {d}] /\ UNCHANGED <<received, queued, get>>
    BY <1>3 DEF handleRoute
  <2>2. ASSUME NEW e \in targets PROVE Granted(e, b)'
    <3>1. CASE entry' = SetBlobACL(b, d, targets \cup {d})
      <4>1. entry'[b].allowed = targets \cup {d}
        BY <1>0, <3>1 DEF SetBlobACL, Entries
      <4> QED
        BY <4>1 DEF Granted
    <3>2. CASE entry' = entry /\ withdrawn' = withdrawn \cup ((targets \ entry[b].allowed) \X {b})
      BY <3>2 DEF Granted
    <3> QED
      BY <1>3, <3>1, <3>2 DEF handleRoute
  <2>3. (\A e \in route.todo : Granted(e, route.blob))'
    BY <2>1, <2>2
  <2>4. \A e \in Devices : \A c \in received'[e] \cup queued'[e] : Granted(e, c)'
    BY <1>a, <1>b, <2>1 DEF Entitled
  <2>5. ASSUME NEW g \in Gets, get'[g].phase = "record" PROVE Granted(get[g].dev, get[g].blob)'
    <3>1. PICK c, e : c = get[g].blob /\ e = get[g].dev
      OBVIOUS
    <3>2. Granted(e, c)' /\ get'[g].blob = c /\ get'[g].dev = e
      BY <1>a, <1>b, <2>1, <2>5, <3>1 DEF Entitled
    <3> QED
      BY <3>2
  <2> QED
    BY <1>a, <2>3, <2>4, <2>5 DEF Entitled
<1>4. ASSUME NEW d \in Devices, RouteTarget(d) PROVE Entitled'
  <2>1. route'.todo \subseteq route.todo /\ route'.blob = route.blob /\ get' = get
    BY <1>0, <1>4 DEF RouteTarget, NoRoute, Deliveries
  <2>2. ASSUME NEW e \in Devices, NEW b \in received'[e] \cup queued'[e]
        PROVE  b \in received[e] \cup queued[e] \/ (e \in route.todo /\ b = route.blob)
    BY <1>0, <1>4, <2>2 DEF RouteTarget
  <2> QED
    BY <1>1, <2>1, <2>2
<1>5. CASE RouteReturn \/ Crash
  <2>1. UNCHANGED <<received, queued>> /\ route'.todo = {}
    BY <1>5 DEF RouteReturn, Crash, NoRoute
  <2>2. \A g \in Gets : get'[g].phase = "record" => get'[g] = get[g]
    BY <1>0, <1>5 DEF RouteReturn, Crash, NoGet, Downloads
  <2> QED
    BY <1>1, <2>1, <2>2
<1>6. ASSUME NEW g \in Gets, NEW d \in Devices, NEW b \in Blobs, GetAuth(g, d, b) PROVE Entitled'
  <2>1. Granted(d, b)'
    BY <1>6, <1>a DEF GetAuth, Entitled
  <2>2. UNCHANGED <<received, queued, route>>
    BY <1>6 DEF GetAuth
  <2>3. get'[g].dev = d /\ get'[g].blob = b /\ \A h \in Gets \ {g} : get'[h] = get[h]
    BY <1>0, <1>6 DEF GetAuth
  <2>4. ASSUME NEW h \in Gets, get'[h].phase = "record" PROVE Granted(get[h].dev, get[h].blob)'
    <3>1. CASE h = g
      BY <2>1, <2>3, <3>1
    <3>2. CASE h # g
      <4>1. PICK c, e : c = get[h].blob /\ e = get[h].dev
        OBVIOUS
      <4>2. Granted(e, c)' /\ get'[h].blob = c /\ get'[h].dev = e
        BY <1>a, <1>b, <2>3, <2>4, <3>2, <4>1 DEF Entitled
      <4> QED
        BY <4>2
    <3> QED
      BY <3>1, <3>2
  <2>5. \A e \in Devices : \A c \in received'[e] \cup queued'[e] : Granted(e, c)'
    BY <1>a, <1>b, <2>2 DEF Entitled
  <2>6. (\A e \in route.todo : Granted(e, route.blob))'
    <3>1. PICK c : c = route.blob
      OBVIOUS
    <3>2. route'.blob = c /\ \A e \in route'.todo : Granted(e, c)'
      BY <1>a, <1>b, <2>2, <3>1 DEF Entitled
    <3> QED
      BY <3>2
  <2> QED
    BY <1>a, <2>4, <2>5, <2>6 DEF Entitled
<1>7. ASSUME NEW g \in Gets, GetStep(g) PROVE Entitled'
  <2>1. PICK p : get' = [get EXCEPT ![g].phase = p] /\ p # "record"
    BY <1>7 DEF GetStep, GetRecord, GetOpen, AddWaiter, handleBlobRequest, Recheck, Woken, PullTimeout, GetServe,
                PullEnds, Goto
  <2>2. get'[g].phase = p /\ \A h \in Gets \ {g} : get'[h] = get[h]
    BY <1>0, <2>1 DEF NoGet, Downloads
  <2>3. UNCHANGED <<received, queued, route>>
    BY <1>7 DEF GetStep, GetRecord, GetOpen, AddWaiter, handleBlobRequest, Recheck, Woken, PullTimeout, GetServe
  <2> QED
    BY <1>1, <2>1, <2>2, <2>3
<1>8. CASE UNCHANGED <<received, queued, route, get>>
  BY <1>1, <1>8
<1>9. ASSUME NEW d \in Devices, handleUnregister(d) \/ PutStep(d) \/ \E b \in Blobs : PutAuth(d, b)
      PROVE  UNCHANGED <<received, queued, route, get>>
  BY <1>9 DEF handleUnregister, PutStep, PutHas, PutDiscard, PutRename, PutTouch, PutSignal, PutAuth
<1>10. CASE GCStep \/ (\E b \in Blobs : Age(b)) \/ UNCHANGED vars
  BY <1>8, <1>10 DEF GCStep, GCPin, GCList, GCRecord, GCUsage, GCEnd, GCExpire, GCEvict, Age, vars
<1> QED
  BY <1>2, <1>3, <1>4, <1>5, <1>6, <1>7, <1>8, <1>9, <1>10 DEF Next, HubStep, DeviceStep

\* A device that received a clip is refused its blob only if RunGC deleted the record that
\* granted it, a later clip with the same bytes overwrote that record without it, or its
\* clip came while another origin had the claim; with housekeeping, crashes and clips in
\* any order, the persisted ACL covers everything else that the hub has forgotten.
THEOREM RecipientsServed == Spec => RecipientServed
<1>1. Init => Entitled
  BY DEF Init, Entitled, NoEntry, NoRoute, NoGet
<1>2. IndInv /\ Entitled /\ [Next]_vars => Entitled'
  BY EntitledStep DEF IndInv
<1>3. IndInv /\ Entitled /\ [Next]_vars =>
        [\A g \in Gets : get'[g].phase = "denied" /\ get[g].phase # "denied" =>
            <<get[g].dev, get[g].blob>> \in withdrawn]_vars
  <2> SUFFICES ASSUME IndInv, Entitled, Next, NEW g \in Gets, get'[g].phase = "denied", get[g].phase # "denied"
               PROVE  <<get[g].dev, get[g].blob>> \in withdrawn
    OBVIOUS
  <2> USE DEF hubVars, diskVars, devVars, httpVars, countVars
  <2>0. get \in [Gets -> {NoGet} \cup Downloads]
    BY DEF IndInv, TypeOK, HttpTypes
  <2>1. ASSUME NEW h \in Gets, GetStep(h) PROVE GetRecord(g) /\ h = g
    <3>1. PICK p : get' = [get EXCEPT ![h].phase = p] /\ (p = "denied" => GetRecord(h))
      BY <2>1 DEF GetStep, GetRecord, GetOpen, AddWaiter, handleBlobRequest, Recheck, Woken, PullTimeout, GetServe,
                  PullEnds, Goto
    <3> QED
      BY <2>0, <3>1 DEF NoGet, Downloads
  <2>2. ASSUME NEW h \in Gets, NEW d \in Devices, NEW b \in Blobs, GetAuth(h, d, b) PROVE FALSE
    BY <2>0, <2>2 DEF GetAuth
  <2>3. ASSUME Crash PROVE FALSE
    BY <2>0, <2>3 DEF Crash, NoGet, Downloads
  <2>4. ASSUME UNCHANGED get PROVE FALSE
    BY <2>4
  <2>5. \/ UNCHANGED get \/ Crash \/ \E h \in Gets : GetStep(h)
        \/ \E h \in Gets, d \in Devices, b \in Blobs : GetAuth(h, d, b)
    <3>1. ASSUME NEW d \in Devices, PutStep(d) PROVE UNCHANGED get
      BY <3>1 DEF PutStep, PutHas, PutDiscard, PutRename, PutTouch, PutSignal
    <3>2. ASSUME HubStep PROVE UNCHANGED get
      BY <3>2 DEF HubStep, RouteTarget, RouteReturn
    <3>3. ASSUME GCStep PROVE UNCHANGED get
      BY <3>3 DEF GCStep, GCPin, GCList, GCRecord, GCUsage, GCEnd, GCExpire, GCEvict
    <3>4. ASSUME NEW b \in Blobs, Age(b) PROVE UNCHANGED get
      BY <3>4 DEF Age
    <3>5. ASSUME NEW d \in Devices, DeviceStep(d)
          PROVE  UNCHANGED get \/ \E h \in Gets, b \in Blobs : GetAuth(h, d, b)
      BY <3>5 DEF DeviceStep, Register, handleUnregister, handleRoute, PutAuth
    <3> QED
      BY <3>1, <3>2, <3>3, <3>4, <3>5 DEF Next
  <2>6. GetRecord(g)
    BY <2>1, <2>2, <2>3, <2>4, <2>5
  <2>7. PICK d, b : d = get[g].dev /\ b = get[g].blob
    OBVIOUS
  <2>8. get[g].phase = "record" /\ d \in Devices /\ b \in Blobs
    BY <2>0, <2>6, <2>7 DEF GetRecord, NoGet, Downloads
  <2>9. ~(entry[b].known /\ d \in entry[b].allowed \cup {entry[b].origin})
    <3>1. SUFFICES ASSUME entry[b].known /\ d \in entry[b].allowed \cup {entry[b].origin} PROVE FALSE
      OBVIOUS
    <3>2. get' = [get EXCEPT ![g].phase = "open"]
      BY <2>6, <2>7, <3>1 DEF GetRecord, Goto
    <3> QED
      BY <2>0, <3>2 DEF NoGet, Downloads
  <2>10. Granted(d, b) /\ (entry[b].allowed # {} => entry[b].known)
    BY <2>7, <2>8 DEF Entitled
  <2> QED
    BY <2>7, <2>9, <2>10 DEF Granted
<1> QED
  BY <1>1, <1>2, <1>3, InitInv, Invariance, PTL DEF Spec, RecipientServed
=============================================================================
