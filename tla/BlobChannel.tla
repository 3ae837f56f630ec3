---------------------------- MODULE BlobChannel ----------------------------
(***************************************************************************)
(* The blob channel: uploads and downloads over HTTP (httpapi/blob.go),    *)
(* the files (blob/store.go) and their metadata records (store/blobs.go),  *)
(* the hub's in-memory ACLs and on-demand holders (hub.go), the long poll  *)
(* by which a download pulls a blob from the device that holds it, and the *)
(* garbage collector (blob/gc.go).                                         *)
(*                                                                         *)
(* Every HTTP request runs on its own goroutine and every file operation,  *)
(* bbolt transaction and request to the hub is one step of it; RunGC takes *)
(* its two snapshots and deletes file and record in separate steps.  The   *)
(* relay is reduced to what the blob channel sees of it: who is registered *)
(* (Relay has the connections), which clips with a blob are queued for a   *)
(* device and which it has received.  All devices share one pool.          *)
(***************************************************************************)
EXTENDS Naturals, FiniteSets

CONSTANTS
    Devices,    \* paired devices
    Blobs,      \* content addresses
    Gets,       \* GET requests, each used once
    NoDev,      \* no device
    StoreCap,   \* BlobStoreCapBytes, in files (0: no cap)
    MaxRoutes,  \* bound: clips with a blob routed in a behaviour
    MaxUploads, \* bound: eager uploads in a behaviour
    MaxFaults,  \* bound: crashes, send buffers found full and failed uploads
    Reroute,    \* may the same blob be referenced by more than one clip
    Collect     \* does housekeeping run

ASSUME BlobConstants ==
    /\ StoreCap \in Nat /\ MaxRoutes \in Nat /\ MaxUploads \in Nat /\ MaxFaults \in Nat
    /\ Reroute \in BOOLEAN /\ Collect \in BOOLEAN
    /\ NoDev \notin Devices
    /\ IsFiniteSet(Blobs)

VARIABLES
    \* the hub
    online,    \* devices in the registry
    conn,      \* devices with a readPump still running (a superset of online)
    holder,    \* onDemand: the device that holds an on-demand blob
    acl,       \* blobACL: origin (NoDev: no ACL) and recipients
    route,     \* the clip handleRoute is delivering
    \* the store and the disk
    entry,     \* blob records
    files,     \* blobs on disk
    queued,    \* blobs referenced by the offline queue of each device
    \* the devices
    received,  \* blobs of the clips a device has received
    uploaded,  \* blobs a device was told are stored
    asked,     \* blob_request frames on their way to a device
    \* HTTP requests
    get,       \* downloads
    waiters,   \* downloads with a channel in blobWaiters
    woken,     \* downloads whose channel was closed
    put,       \* the upload a device has in progress
    \* housekeeping
    gc,        \* the pass of RunGC in progress
    \* bookkeeping
    routed,    \* blobs routed so far
    late,      \* history: <<device, blob>> queued since the pass read its pins
    withdrawn, \* history: <<device, blob>> whose right the record lost, or never had
    routes, uploads, faults

hubVars == <<online, conn, holder, acl, route>>
diskVars == <<entry, files, queued>>
devVars == <<received, uploaded, asked>>
httpVars == <<get, waiters, woken, put>>
countVars == <<routed, late, withdrawn, routes, uploads, faults>>
vars == <<online, conn, holder, acl, route, entry, files, queued, received, uploaded, asked,
          get, waiters, woken, put, gc, routed, late, withdrawn, routes, uploads, faults>>

-----------------------------------------------------------------------------
NoACL == [origin |-> NoDev, allowed |-> {}]
NoRoute == [blob |-> "none", origin |-> NoDev, todo |-> {}]

\* BlobEntry.  LastAccess is zero until TouchBlob stamps it, older than the TTL,
\* or recent; zero counts as older than any TTL.
Ages == {"zero", "old", "recent"}
NoEntry == [known |-> FALSE, origin |-> NoDev, allowed |-> {}, access |-> "zero"]

\* Requests and the collector before their first step.
NoGet == [phase |-> "none", dev |-> NoDev, blob |-> "none"]
NoPut == [phase |-> "none", blob |-> "none"]
NoGC == [phase |-> "idle", pinned |-> {}, seen |-> {}, todo |-> {}, kept |-> {},
         blob |-> "none", usage |-> 0]

\* Recording a fault, within the bound.
Fault == faults < MaxFaults /\ faults' = faults + 1

Init ==
    /\ online = {} /\ conn = {}
    /\ holder = [b \in Blobs |-> NoDev]
    /\ acl = [b \in Blobs |-> NoACL]
    /\ route = NoRoute
    /\ entry = [b \in Blobs |-> NoEntry]
    /\ files = {}
    /\ queued = [d \in Devices |-> {}]
    /\ received = [d \in Devices |-> {}]
    /\ uploaded = [d \in Devices |-> {}]
    /\ asked = [d \in Devices |-> {}]
    /\ get = [g \in Gets |-> NoGet]
    /\ waiters = {} /\ woken = {}
    /\ put = [d \in Devices |-> NoPut]
    /\ gc = NoGC
    /\ routed = {} /\ late = {} /\ withdrawn = {}
    /\ routes = 0 /\ uploads = 0 /\ faults = 0

-----------------------------------------------------------------------------
(* The hub: registry, ACLs, on-demand holders *)

HubIdle == route = NoRoute

\* A device connects: Register replays its queue.
Register(d) ==
    /\ HubIdle
    /\ d \notin online
    /\ online' = online \cup {d}
    /\ conn' = conn \cup {d}
    /\ received' = [received EXCEPT ![d] = @ \cup queued[d]]
    /\ queued' = [queued EXCEPT ![d] = {}]
    /\ UNCHANGED <<holder, acl, route, entry, files, uploaded, asked, httpVars, gc, countVars>>

\* pruneOnDemand: the blobs d holds lose holder and ACL, whosever ACL it is; the
\* ACLs of d's eager blobs go too.
PrunedHolder(d) == [b \in Blobs |-> IF holder[b] = d THEN NoDev ELSE holder[b]]
PrunedACL(d) == [b \in Blobs |-> IF d \in {holder[b], acl[b].origin} THEN NoACL ELSE acl[b]]

\* Mutant: the connection is not taken out of the registry.
handleUnregister_StaysOnline(d) ==
    /\ HubIdle
    /\ d \in conn
    /\ conn' = conn \ {d}
    /\ UNCHANGED <<online, holder, acl, route, diskVars, devVars, httpVars, gc, countVars>>

\* A device's readPump ends; Unregister of the registered connection prunes.  The
\* readPump of a connection that it replaced may still be running, and requests
\* still in the send buffer are lost.
handleUnregister(d) ==
    /\ HubIdle
    /\ d \in conn
    /\ IF d \in online
       THEN /\ conn' \in {conn, conn \ {d}}
            /\ holder' = PrunedHolder(d) /\ acl' = PrunedACL(d)
       ELSE conn' = conn \ {d} /\ UNCHANGED <<holder, acl>>
    /\ online' = online \ {d}
    /\ asked' \in {asked, [asked EXCEPT ![d] = {}]}
    /\ UNCHANGED <<route, diskVars, received, uploaded, httpVars, gc, countVars>>

\* SetBlobACL: the record is created if need be; its LastAccess is left alone.
SetBlobACL(b, origin, allowed) ==
    [entry EXCEPT ![b].known = TRUE, ![b].origin = origin, ![b].allowed = allowed]

\* Mutant: the ACL is kept in memory only.
handleRoute_NotPersisted(d, b, targets, onDemand) ==
    /\ HubIdle
    /\ d \in conn
    /\ onDemand \/ b \in uploaded[d]
    /\ routes < MaxRoutes /\ (Reroute \/ b \notin routed)
    /\ acl' = [acl EXCEPT ![b] = [origin |-> d, allowed |-> targets \cup {d}]]
    /\ holder' = [holder EXCEPT ![b] = IF onDemand THEN d ELSE @]
    /\ route' = [blob |-> b, origin |-> d, todo |-> targets \ {d}]
    /\ routes' = routes + 1
    /\ routed' = routed \cup {b}
    /\ UNCHANGED <<online, conn, diskVars, devVars, httpVars, gc, late, withdrawn, uploads, faults>>

\* handleRoute of a clip with a blob, up to its loop over the targets: unless
\* another origin that is online has the claim, ACL, persisted ACL (SetBlobACL)
\* and holder are overwritten.  An eager clip follows its upload.
handleRoute(d, b, targets, onDemand) ==
    LET claimOK == acl[b].origin \in {NoDev, d} \/ acl[b].origin \notin online
        allowed == targets \cup {d}
    IN  /\ HubIdle
        /\ d \in conn
        /\ onDemand \/ b \in uploaded[d]
        /\ routes < MaxRoutes /\ (Reroute \/ b \notin routed)
        /\ IF claimOK
           THEN /\ acl' = [acl EXCEPT ![b] = [origin |-> d, allowed |-> allowed]]
                /\ entry' = SetBlobACL(b, d, allowed)
                /\ holder' = [holder EXCEPT ![b] = IF onDemand THEN d ELSE @]
                /\ withdrawn' = (withdrawn \cup ((entry[b].allowed \ allowed) \X {b})) \ (allowed \X {b})
           ELSE /\ withdrawn' = withdrawn \cup ((targets \ entry[b].allowed) \X {b})
                /\ UNCHANGED <<acl, entry, holder>>
        /\ route' = [blob |-> b, origin |-> d, todo |-> targets \ {d}]
        /\ routes' = routes + 1
        /\ routed' = routed \cup {b}
        /\ UNCHANGED <<online, conn, files, queued, devVars, httpVars, gc, late, uploads, faults>>

\* handleRoute's loop: deliver, or evict a slow client, and queue.
RouteTarget(d) ==
    /\ d \in route.todo
    /\ route' = [route EXCEPT !.todo = @ \ {d}]
    /\ \/ /\ d \in online
          /\ received' = [received EXCEPT ![d] = @ \cup {route.blob}]
          /\ UNCHANGED <<online, holder, acl, queued, late, faults>>
       \/ /\ IF d \in online
             THEN Fault /\ holder' = PrunedHolder(d) /\ acl' = PrunedACL(d)
             ELSE UNCHANGED <<faults, holder, acl>>
          /\ online' = online \ {d}
          /\ queued' = [queued EXCEPT ![d] = @ \cup {route.blob}]
          /\ late' = late \cup {<<d, route.blob>>}
          /\ UNCHANGED received
    /\ UNCHANGED <<conn, entry, files, uploaded, asked, httpVars, gc, routed, withdrawn, routes,
                   uploads>>

RouteReturn ==
    /\ ~HubIdle /\ route.todo = {}
    /\ route' = NoRoute
    /\ UNCHANGED <<online, conn, holder, acl, diskVars, devVars, httpVars, gc, countVars>>

-----------------------------------------------------------------------------
(* GET /blob/{id} *)

Goto(g, p) == get' = [get EXCEPT ![g].phase = p]

\* handleBlobAuth, fetch: the recipients on record or, without an ACL, anyone in
\* the pool of a known holder.
FetchAuthorized(d, b) ==
    IF acl[b] # NoACL THEN d \in acl[b].allowed ELSE holder[b] # NoDev

\* A device that has the clip asks for its blob; the hub is asked first.
GetAuth(g, d, b) ==
    /\ HubIdle
    /\ get[g].phase = "none"
    /\ b \in received[d]
    /\ get' = [get EXCEPT ![g] = [phase |-> IF FetchAuthorized(d, b) THEN "open" ELSE "record",
                                  dev |-> d, blob |-> b]]
    /\ UNCHANGED <<hubVars, diskVars, devVars, waiters, woken, put, gc, countVars>>

\* The fallback: the ACL persisted on the blob record.
GetRecord(g) ==
    LET e == entry[get[g].blob]
    IN  /\ get[g].phase = "record"
        /\ Goto(g, IF e.known /\ get[g].dev \in e.allowed \cup {e.origin}
                   THEN "open" ELSE "denied")
        /\ UNCHANGED <<hubVars, diskVars, devVars, waiters, woken, put, gc, countVars>>

GetOpen(g) ==
    /\ get[g].phase = "open"
    /\ Goto(g, IF get[g].blob \in files THEN "touch" ELSE "add")
    /\ UNCHANGED <<hubVars, diskVars, devVars, waiters, woken, put, gc, countVars>>

\* pullOnDemand registers its channel before it asks the holder.
AddWaiter(g) ==
    /\ get[g].phase = "add"
    /\ waiters' = waiters \cup {g}
    /\ Goto(g, "request")
    /\ UNCHANGED <<hubVars, diskVars, devVars, woken, put, gc, countVars>>

\* pullOnDemand returns: its channel is removed.
PullEnds(g, p) ==
    /\ Goto(g, p)
    /\ waiters' = waiters \ {g}
    /\ woken' = woken \ {g}

\* handleBlobRequest: the holder, if it is known, online and not slow, is sent a
\* blob_request.
handleBlobRequest(g) ==
    LET b == get[g].blob
        o == holder[b]
    IN  /\ HubIdle
        /\ get[g].phase = "request"
        /\ \/ /\ o \in online
              /\ asked' = [asked EXCEPT ![o] = @ \cup {b}]
              /\ Goto(g, "recheck")
              /\ UNCHANGED <<waiters, woken, faults>>
           \/ /\ IF o \in online THEN Fault ELSE UNCHANGED faults
              /\ PullEnds(g, "absent")
              /\ UNCHANGED asked
        /\ UNCHANGED <<hubVars, diskVars, received, uploaded, put, gc, routed, late, withdrawn,
                       routes, uploads>>

\* Mutant: the second look at the disk is left out.
Recheck_Skipped(g) ==
    /\ get[g].phase = "recheck"
    /\ Goto(g, "wait")
    /\ UNCHANGED <<hubVars, diskVars, devVars, waiters, woken, put, gc, countVars>>

\* The blob may have arrived before the channel was registered.
Recheck(g) ==
    /\ get[g].phase = "recheck"
    /\ IF get[g].blob \in files
       THEN PullEnds(g, "touch")
       ELSE Goto(g, "wait") /\ UNCHANGED <<waiters, woken>>
    /\ UNCHANGED <<hubVars, diskVars, devVars, put, gc, countVars>>

Woken(g) ==
    /\ get[g].phase = "wait" /\ g \in woken
    /\ PullEnds(g, IF get[g].blob \in files THEN "touch" ELSE "timeout")
    /\ UNCHANGED <<hubVars, diskVars, devVars, put, gc, countVars>>

\* Mutant: the timer is only looked at once the channel is closed.
PullTimeout_OnlyWoken(g) ==
    /\ get[g].phase = "wait" /\ g \in woken
    /\ PullEnds(g, "timeout")
    /\ UNCHANGED <<hubVars, diskVars, devVars, put, gc, countVars>>

\* 60 seconds pass, or the requester goes away.
PullTimeout(g) ==
    /\ get[g].phase = "wait"
    /\ PullEnds(g, "timeout")
    /\ UNCHANGED <<hubVars, diskVars, devVars, put, gc, countVars>>

\* TouchBlob of b; a record that GC removed meanwhile is created again, without
\* an ACL.
Touched(b) == [entry EXCEPT ![b].known = TRUE, ![b].access = "recent"]

\* The open file is served after the record is touched.
GetServe(g) ==
    /\ get[g].phase = "touch"
    /\ entry' = Touched(get[g].blob)
    /\ Goto(g, "served")
    /\ UNCHANGED <<hubVars, files, queued, devVars, waiters, woken, put, gc, countVars>>

-----------------------------------------------------------------------------
(* PUT /blob/{id} *)

Step(d, p) == put' = [put EXCEPT ![d].phase = p]

\* A device uploads, eagerly or because it was asked to; handleBlobAuth lets it
\* supply a blob that has no holder or that it holds itself.
PutAuth(d, b) ==
    /\ HubIdle
    /\ put[d].phase = "none"
    /\ IF b \in asked[d]
       THEN UNCHANGED uploads
       ELSE uploads < MaxUploads /\ uploads' = uploads + 1
    /\ asked' = [asked EXCEPT ![d] = @ \ {b}]
    /\ put' = [put EXCEPT ![d] = IF holder[b] \in {NoDev, d}
                                 THEN [phase |-> "has", blob |-> b] ELSE NoPut]
    /\ UNCHANGED <<hubVars, diskVars, received, uploaded, get, waiters, woken, gc, routed,
                   late, withdrawn, routes, faults>>

\* Put looks for the file; if it is there the body is read and thrown away.
PutHas(d) ==
    /\ put[d].phase = "has"
    /\ Step(d, IF put[d].blob \in files THEN "discard" ELSE "copy")
    /\ UNCHANGED <<hubVars, diskVars, devVars, get, waiters, woken, gc, countVars>>

PutDiscard(d) ==
    /\ put[d].phase = "discard"
    /\ Step(d, "touch")
    /\ UNCHANGED <<hubVars, diskVars, devVars, get, waiters, woken, gc, countVars>>

\* The body is copied to a temporary file, verified and renamed; or it fails.
PutRename(d) ==
    /\ put[d].phase = "copy"
    /\ \/ /\ files' = files \cup {put[d].blob}
          /\ Step(d, "touch")
          /\ UNCHANGED faults
       \/ /\ Fault
          /\ put' = [put EXCEPT ![d] = NoPut]
          /\ UNCHANGED files
    /\ UNCHANGED <<hubVars, entry, queued, devVars, get, waiters, woken, gc, routed, late,
                   withdrawn, routes, uploads>>

PutTouch(d) ==
    /\ put[d].phase = "touch"
    /\ entry' = Touched(put[d].blob)
    /\ Step(d, "signal")
    /\ UNCHANGED <<hubVars, files, queued, devVars, get, waiters, woken, gc, countVars>>

\* signal closes and forgets every channel waiting for the blob.
PutSignal(d) ==
    LET released == {g \in waiters : get[g].blob = put[d].blob}
    IN  /\ put[d].phase = "signal"
        /\ woken' = woken \cup released
        /\ waiters' = waiters \ released
        /\ uploaded' = [uploaded EXCEPT ![d] = @ \cup {put[d].blob}]
        /\ put' = [put EXCEPT ![d] = NoPut]
        /\ UNCHANGED <<hubVars, diskVars, received, asked, get, gc, countVars>>

-----------------------------------------------------------------------------
(* RunGC *)

Known == {b \in Blobs : entry[b].known}

\* AllQueuedBlobIDs.
GCPin ==
    /\ Collect
    /\ gc.phase = "idle"
    /\ gc' = [NoGC EXCEPT !.phase = "list", !.pinned = UNION {queued[d] : d \in Devices}]
    /\ late' = {}
    /\ UNCHANGED <<hubVars, diskVars, devVars, httpVars, routed, withdrawn, routes, uploads, faults>>

\* ListBlobEntries: the records with the LastAccess they have now.
GCList ==
    /\ gc.phase = "list"
    /\ gc' = [gc EXCEPT !.phase = "ttl", !.todo = Known,
                        !.seen = {<<b, entry[b].access>> : b \in Known}]
    /\ UNCHANGED <<hubVars, diskVars, devVars, httpVars, countVars>>

Stale(b) == \E a \in {"zero", "old"} : <<b, a>> \in gc.seen

\* Pass 1, one record: keep it, or go on to delete it, because it has no file or
\* because its file expired and is deleted first.
GCExpire(b) ==
    /\ gc.phase = "ttl" /\ b \in gc.todo
    /\ LET keep == b \in gc.pinned \/ (b \in files /\ ~Stale(b))
       IN  /\ files' = IF keep THEN files ELSE files \ {b}
           /\ gc' = [gc EXCEPT !.todo = @ \ {b},
                               !.kept = IF keep THEN @ \cup {b} ELSE @,
                               !.phase = IF keep THEN @ ELSE "ttl record",
                               !.blob = IF keep THEN @ ELSE b]
    /\ UNCHANGED <<hubVars, entry, queued, devVars, httpVars, countVars>>

\* DeleteBlobEntry, and the ACL with it.
GCRecord ==
    /\ gc.phase \in {"ttl record", "cap record"}
    /\ entry' = [entry EXCEPT ![gc.blob] = NoEntry]
    /\ withdrawn' = withdrawn \cup {p \in Devices \X Blobs : p[2] = gc.blob /\ p[1] \in entry[p[2]].allowed}
    /\ gc' = [gc EXCEPT !.phase = IF @ = "ttl record" THEN "ttl" ELSE "cap", !.blob = "none"]
    /\ UNCHANGED <<hubVars, files, queued, devVars, httpVars, routed, late, routes, uploads, faults>>

\* Pass 2 starts with the disk usage, when there is a cap.
GCUsage ==
    /\ gc.phase = "ttl" /\ gc.todo = {}
    /\ gc' = [gc EXCEPT !.phase = "cap", !.usage = Cardinality(files)]
    /\ UNCHANGED <<hubVars, diskVars, devVars, httpVars, countVars>>

OverCap == StoreCap > 0 /\ gc.usage > StoreCap

\* Mutant: pass 2 forgets the pins.
Evictable_Pinned == gc.kept

\* The survivors pass 2 may evict.
Evictable == gc.kept \ gc.pinned

\* Pass 2: evict the least recently used survivors, by the LastAccess seen.
GCEvict(b) ==
    /\ gc.phase = "cap" /\ OverCap
    /\ b \in Evictable
    /\ ~Stale(b) => \A c \in Evictable : ~Stale(c)
    /\ files' = files \ {b}
    /\ gc' = [gc EXCEPT !.kept = @ \ {b}, !.usage = @ - 1, !.phase = "cap record", !.blob = b]
    /\ UNCHANGED <<hubVars, entry, queued, devVars, httpVars, countVars>>

GCEnd ==
    /\ gc.phase = "cap" /\ (~OverCap \/ Evictable = {})
    /\ gc' = NoGC
    /\ UNCHANGED <<hubVars, diskVars, devVars, httpVars, countVars>>

-----------------------------------------------------------------------------
(* Time and crashes *)

\* A record's last access becomes older than BlobTTL.
Age(b) ==
    /\ Collect
    /\ entry[b].access = "recent"
    /\ entry' = [entry EXCEPT ![b].access = "old"]
    /\ UNCHANGED <<hubVars, files, queued, devVars, httpVars, gc, countVars>>

\* The server dies: disk and store survive, requests and the hub's maps do not.
Crash ==
    /\ Fault
    /\ online' = {} /\ conn' = {}
    /\ holder' = [b \in Blobs |-> NoDev]
    /\ acl' = [b \in Blobs |-> NoACL]
    /\ route' = NoRoute
    /\ asked' = [d \in Devices |-> {}]
    /\ get' = [g \in Gets |-> IF get[g].phase \in {"none", "served", "denied", "absent"}
                              THEN get[g] ELSE [get[g] EXCEPT !.phase = "timeout"]]
    /\ waiters' = {} /\ woken' = {}
    /\ put' = [d \in Devices |-> NoPut]
    /\ gc' = NoGC
    /\ UNCHANGED <<diskVars, received, uploaded, routed, late, withdrawn, routes, uploads>>

-----------------------------------------------------------------------------
HubStep == (\E d \in Devices : RouteTarget(d)) \/ RouteReturn

GetStep(g) ==
    \/ GetRecord(g) \/ GetOpen(g) \/ AddWaiter(g) \/ handleBlobRequest(g) \/ Recheck(g)
    \/ Woken(g) \/ PullTimeout(g) \/ GetServe(g)

PutStep(d) == PutHas(d) \/ PutDiscard(d) \/ PutRename(d) \/ PutTouch(d) \/ PutSignal(d)

DeviceStep(d) ==
    \/ Register(d) \/ handleUnregister(d)
    \/ \E b \in Blobs :
          \/ \E targets \in SUBSET Devices \ {{}}, onDemand \in BOOLEAN :
                handleRoute(d, b, targets, onDemand)
          \/ PutAuth(d, b)
          \/ \E g \in Gets : GetAuth(g, d, b)

GCStep ==
    \/ GCPin \/ GCList \/ GCRecord \/ GCUsage \/ GCEnd
    \/ \E b \in Blobs : GCExpire(b) \/ GCEvict(b)

Next ==
    \/ HubStep
    \/ \E d \in Devices : DeviceStep(d) \/ PutStep(d)
    \/ \E g \in Gets : GetStep(g)
    \/ GCStep
    \/ \E b \in Blobs : Age(b)
    \/ Crash

Spec == Init /\ [][Next]_vars

-----------------------------------------------------------------------------
(* Properties *)

ACLs == [origin : Devices \cup {NoDev}, allowed : SUBSET Devices]
Entries == [known : BOOLEAN, origin : Devices \cup {NoDev}, allowed : SUBSET Devices,
            access : Ages]
Deliveries == [blob : Blobs, origin : Devices, todo : SUBSET Devices]
GetPhases == {"record", "open", "add", "request", "recheck", "wait", "touch",
              "served", "denied", "absent", "timeout"}
Downloads == [phase : GetPhases, dev : Devices, blob : Blobs]
PutPhases == {"has", "discard", "copy", "touch", "signal"}
Uploads == [phase : PutPhases, blob : Blobs]
GCPhases == {"idle", "list", "ttl", "ttl record", "cap", "cap record"}
Passes == [phase : GCPhases, pinned : SUBSET Blobs, seen : SUBSET (Blobs \X Ages),
           todo : SUBSET Blobs, kept : SUBSET Blobs, blob : Blobs \cup {"none"}, usage : Nat]

HubTypes ==
    /\ online \subseteq conn /\ conn \subseteq Devices
    /\ holder \in [Blobs -> Devices \cup {NoDev}]
    /\ acl \in [Blobs -> ACLs]
    /\ route \in {NoRoute} \cup Deliveries
DiskTypes ==
    /\ entry \in [Blobs -> Entries]
    /\ files \subseteq Blobs
    /\ queued \in [Devices -> SUBSET Blobs]
DeviceTypes ==
    /\ received \in [Devices -> SUBSET Blobs]
    /\ uploaded \in [Devices -> SUBSET Blobs]
    /\ asked \in [Devices -> SUBSET Blobs]
HttpTypes ==
    /\ get \in [Gets -> {NoGet} \cup Downloads]
    /\ waiters \subseteq Gets /\ woken \subseteq Gets
    /\ put \in [Devices -> {NoPut} \cup Uploads]
CountTypes ==
    /\ routed \subseteq Blobs /\ late \subseteq Devices \X Blobs
    /\ withdrawn \subseteq Devices \X Blobs
    /\ routes \in 0..MaxRoutes /\ uploads \in 0..MaxUploads /\ faults \in 0..MaxFaults

\* Type invariant of the hub's maps, the disk, the devices, the requests and the
\* collector; a registered device has a running readPump.
TypeOK == HubTypes /\ DiskTypes /\ DeviceTypes /\ HttpTypes /\ gc \in Passes /\ CountTypes

\* A download that asked for its blob, or waits for it, has a channel that is
\* registered or closed.
HasChannel ==
    \A g \in Gets : get[g].phase \in {"request", "recheck", "wait"} => g \in waiters \cup woken

\* A download that waits for an upload is never left waiting for bytes that have
\* arrived: its channel is closed, or an upload of the blob is on its way to
\* close it (pullOnDemand's order of add, request, second Open; handleBlobPut's
\* order of Put and signal).
NoLostWakeup ==
    \A g \in Gets : get[g].phase = "wait" /\ get[g].blob \in files =>
        \/ g \in woken
        \/ g \in waiters /\ \E d \in Devices : /\ put[d].blob = get[g].blob
                                              /\ put[d].phase \in {"touch", "signal"}

\* Garbage collection deletes the bytes of a blob that some offline queue refers
\* to only if that clip was queued after the pass had read its pins.
OldPinsKept ==
    [][\A b \in files \ files' : \A d \in Devices : b \in queued[d] => <<d, b>> \in late]_vars

\* A device that received the clip is refused the blob only if RunGC deleted the record
\* that granted it, a later clip overwrote that record without the device, or its clip came
\* while another origin that is online had the claim; never because the server or the
\* devices' connections went away: what the fallback to the persisted ACL is there for
\* (handleBlobGet, handleRoute's SetBlobACL).
RecipientServed ==
    [][\A g \in Gets : get'[g].phase = "denied" /\ get[g].phase # "denied" =>
          <<get[g].dev, get[g].blob>> \in withdrawn]_vars

\* The same without those reasons, as long as the bytes are on disk.
NeverRefused ==
    [][\A g \in Gets : get'[g].phase = "denied" /\ get[g].phase # "denied" =>
          get[g].blob \notin files]_vars

\* Goroutines run, the hub takes the requests that wait for it (Go's select is
\* fair among ready channels), and the timer of a long poll fires.
Fairness ==
    /\ WF_vars(HubStep)
    /\ \A g \in Gets : SF_vars(GetStep(g))
FairSpec == Spec /\ Fairness

\* Every download ends, with the bytes or with an error, whatever the holder of
\* the blob does (pullOnDemand's select).
GetsFinish ==
    \A g \in Gets : get[g].phase # "none" ~>
        get[g].phase \in {"served", "denied", "absent", "timeout"}
=============================================================================
