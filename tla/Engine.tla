------------------------------- MODULE Engine -------------------------------
(***************************************************************************)
(* The desktop client's engine (clients/desktop/core/src/engine.rs): the   *)
(* thread that watches the OS clipboard, the actor that owns the WebSocket *)
(* and its reconnect loop, and the workers that upload and download blobs  *)
(* off the actor's loop.                                                   *)
(*                                                                         *)
(* The watcher reads image and file list, then text, so a copy can fall    *)
(* between its reads.  The actor is in one of four places: dialling,       *)
(* re-advertising uploads left over from the last connection, its select   *)
(* loop, or the backoff.  Only the select loop takes commands, frames and  *)
(* results of workers; between two files of one copy it takes nothing.     *)
(* The clipboard is a program-wide object that the user, the actor and the *)
(* auto-clear timers write at any time.  Texts, images and paths are       *)
(* abstract values; the server and the peers are what they send.           *)
(***************************************************************************)
EXTENDS Naturals, SequencesExt

CONSTANTS
    NoVal,     \* a format that is absent, or could not be read
    Copies,    \* clipboard contents that the user's programs produce
    Sends,     \* commands of the user interface: [kind, val]
    Clips,     \* clips received from peers: [kind, val]
    Large,     \* paths above the server's on-demand threshold
    Sensitive, \* texts that the privacy filter holds back
    Refused,   \* values that cannot be sent (too large, unreadable, not encodable)
    E2E,       \* is an end-to-end key set: each sealed blob has an id of its own
    Platforms, \* values of windows to consider
    MaxHolds,  \* MAX_HOLDS
    RingMax,   \* entries of an echo ring (64)
    MaxCopies, \* bound: copies and commands of the user
    MaxClips,  \* bound: clips received
    MaxEdits,  \* bound: edits of files
    MaxFaults  \* bound: lost links, failed transfers, reads and dials, reconnect requests

Formats == {"img", "files", "text"}

ASSUME EngineConstants ==
    /\ E2E \in BOOLEAN /\ Platforms \subseteq BOOLEAN
    /\ MaxHolds \in Nat \ {0} /\ RingMax \in Nat \ {0}
    /\ {MaxCopies, MaxClips, MaxEdits, MaxFaults} \subseteq Nat
    /\ \A c \in Copies : /\ DOMAIN c = Formats
                         /\ c.files # NoVal => c.files \in Seq(Range(c.files))
    /\ \A c \in Sends : c.kind \in {"text", "files"}
    /\ \A c \in Clips : c.kind \in Formats

VARIABLES
    \* the OS clipboard and the auto-clear timers
    windows,   \* has the clipboard a sequence number and file lists; never changes
    clip,      \* its content, by format
    changed,   \* does its sequence number differ from the watcher's last_seq
    timers,    \* texts with an auto-clear timer running
    clearing,  \* a timer found its text and is about to clear the clipboard
    \* the watcher thread
    last,      \* ClipState: last_img, last_files, last_text
    read,      \* what the poll in progress has read
    cmds,      \* the command channel to the actor
    \* the actor
    phase,     \* "dial", "flush", "up" or "backoff"
    link,      \* the socket: "up", "half" (dead, unnoticed) or "down"
    batch,     \* paths of the copy being sent, still to do
    ring,      \* recent_text, recent_img, recent_files
    seq,       \* clip counter
    held,      \* on_demand: ids with bytes held
    order,     \* on_demand_order
    pending,   \* pending_uploads
    \* the workers
    uploading, \* eager uploads
    serving,   \* uploads for a blob_request
    pulling,   \* downloads
    results,   \* the BlobResult channel
    \* the world
    disk,      \* versions of the files
    stored,    \* blobs on the server
    \* bookkeeping
    out,       \* history: clips handed to a socket, in order
    done,      \* history: clips whose eager upload succeeded
    offered,   \* history: clips whose bytes were held
    mine,      \* history: <<kind, value>> that the user copied or sent
    lapsed,    \* history: <<format, value>> that lost their echo guard on their way to it
    known,     \* history: <<format, value>> that were on the clipboard
    gen,       \* history: what became of the current clipboard content
    ncopies, nclips, faults

osVars == <<windows, clip, changed, timers, clearing>>
watchVars == <<last, read>>
holdVars == <<held, order>>
workVars == <<uploading, serving, pulling>>
worldVars == <<disk, stored>>
histVars == <<done, offered, mine, known, gen>>
counts == <<ncopies, nclips, faults>>
vars == <<osVars, watchVars, cmds, phase, link, batch, ring, lapsed, seq, holdVars, pending,
          workVars, results, worldVars, out, histVars, counts>>

(***************************************************************************)
(* Values                                                                  *)
(***************************************************************************)
Paths == (UNION {Range(c.files) : c \in {d \in Copies : d.files # NoVal}})
           \cup {c.val : c \in {d \in Sends \cup Clips : d.kind = "files"}}

NoContent == [f \in Formats |-> NoVal]

NotReading == [on |-> FALSE, torn |-> FALSE, img |-> NoVal, files |-> NoVal]

\* The content that applying a received clip leaves on the clipboard.
ContentOf(c) ==
    [NoContent EXCEPT ![c.kind] = IF c.kind = "files" THEN <<c.val>> ELSE c.val]

\* The blob id: of the ciphertext, different each time, or of the file itself.
BlobId(v, s) == <<v, IF E2E THEN s ELSE IF v \in Paths THEN disk[v] ELSE 0>>

\* remember: refresh the entry or append it, dropping the oldest of a full ring.
Remember(r, v) ==
    IF \E i \in DOMAIN r : r[i].val = v
    THEN [i \in DOMAIN r |-> IF r[i].val = v THEN [r[i] EXCEPT !.live = TRUE] ELSE r[i]]
    ELSE Append(IF Len(r) >= RingMax THEN Tail(r) ELSE r, [val |-> v, live |-> TRUE])

\* seen: is there an entry whose window is still open.
Seen(kind, v) == \E i \in DOMAIN ring[kind] : ring[kind][i].val = v /\ ring[kind][i].live

Faulty == faults < MaxFaults /\ faults' = faults + 1

Init ==
    /\ windows \in Platforms
    /\ clip = NoContent /\ changed = FALSE /\ timers = {} /\ clearing = FALSE
    /\ last = NoContent /\ read = NotReading /\ cmds = <<>>
    /\ phase = "dial" /\ link = "down" /\ batch = <<>>
    /\ ring = [f \in Formats |-> <<>>] /\ seq = 0
    /\ held = {} /\ order = <<>> /\ pending = <<>>
    /\ uploading = {} /\ serving = {} /\ pulling = {} /\ results = <<>>
    /\ disk = [p \in Paths |-> 0] /\ stored = {}
    /\ out = <<>> /\ done = {} /\ offered = {} /\ mine = {} /\ lapsed = {} /\ known = {}
    /\ gen = [fresh |-> FALSE, clean |-> TRUE, polled |-> FALSE, n |-> 0]
    /\ ncopies = 0 /\ nclips = 0 /\ faults = 0

(***************************************************************************)
(* The clipboard                                                           *)
(***************************************************************************)
Present(c) == {<<f, c[f]>> : f \in {g \in Formats : c[g] # NoVal}}

\* get_files finds nothing on other systems.
Readable(c) == IF windows THEN c ELSE [c EXCEPT !.files = NoVal]

\* Some program replaces the content of the clipboard.
SetClipboard(c) ==
    /\ clip' = c
    /\ changed' = TRUE
    /\ read' = [read EXCEPT !.torn = read.on]
    /\ known' = known \cup Present(Readable(c))
    /\ gen' = [fresh |-> ~(Present(Readable(c)) \subseteq known), clean |-> ~read.on,
               polled |-> FALSE, n |-> 0]

\* <<kind, value>> of what a copy holds, one for each path of a file list.
Items(c) == {<<f, c[f]>> : f \in {g \in {"img", "text"} : c[g] # NoVal}}
              \cup {<<"files", p>> : p \in IF c.files = NoVal THEN {} ELSE Range(c.files)}

\* A value is on its way to the check of its echo guard: on the clipboard and not polled
\* yet, read by the poll in progress, in a command of the watcher, in the copy being sent.
RoundTrip(kind, v) ==
    \/ <<kind, v>> \in Items(clip) /\ (changed \/ read.on)
    \/ kind = "img" /\ read.img = v
    \/ kind = "files" /\ read.files # NoVal /\ v \in Range(read.files)
    \/ kind = "files" /\ \E i \in DOMAIN batch : batch[i].val = v
    \/ \E i \in DOMAIN cmds :
          /\ cmds[i].op = "local" /\ cmds[i].kind = kind
          /\ IF kind = "files" THEN v \in Range(cmds[i].val) ELSE v = cmds[i].val

\* The ring of one kind changes.  History: the values on their way whose open entry is gone.
SetRing(kind, q) ==
    /\ ring' = [ring EXCEPT ![kind] = q]
    /\ lapsed' = lapsed \cup
           {<<kind, r.val>> : r \in {e \in Range(ring[kind]) :
                 e.live /\ e \notin Range(q) /\ RoundTrip(kind, e.val)}}

\* The user copies something.
UserCopy(c) ==
    /\ ncopies < MaxCopies
    /\ ncopies' = ncopies + 1
    /\ mine' = mine \cup Items(c)
    /\ SetClipboard(c)
    /\ UNCHANGED <<windows, timers, clearing, last, cmds, phase, link, batch, ring, lapsed, seq, holdVars,
                   pending, workVars, results, worldVars, out, done, offered, nclips, faults>>

\* The user sends a text or a file from the user interface.
UserSend(c) ==
    /\ ncopies < MaxCopies
    /\ ncopies' = ncopies + 1
    /\ mine' = mine \cup {<<c.kind, c.val>>}
    /\ cmds' = Append(cmds, [op |-> "send", kind |-> c.kind, val |-> c.val])
    /\ UNCHANGED <<osVars, watchVars, phase, link, batch, ring, lapsed, seq, holdVars, pending,
                   workVars, results, worldVars, out, done, offered, known, gen, nclips, faults>>

\* A program changes a file that may be held by its path.
EditFile(p) ==
    /\ p \in Paths /\ disk[p] < MaxEdits
    /\ disk' = [disk EXCEPT ![p] = disk[p] + 1]
    /\ UNCHANGED <<osVars, watchVars, cmds, phase, link, batch, ring, lapsed, seq, holdVars, pending,
                   workVars, results, stored, out, histVars, counts>>

\* schedule_clear_text after its sleep: compare the text, in a later step clear.
ClearCheck(v) ==
    /\ v \in timers /\ ~clearing
    /\ timers' = timers \ {v}
    /\ clearing' = (clip.text = v)
    /\ UNCHANGED <<windows, clip, changed, watchVars, cmds, phase, link, batch, ring, lapsed, seq, holdVars,
                   pending, workVars, results, worldVars, out, histVars, counts>>

ClearClipboard ==
    /\ clearing
    /\ clearing' = FALSE
    /\ SetClipboard(NoContent)
    /\ UNCHANGED <<windows, timers, last, cmds, phase, link, batch, ring, lapsed, seq, holdVars, pending,
                   workVars, results, worldVars, out, done, offered, mine, counts>>

(***************************************************************************)
(* The watcher: poll_once                                                  *)
(***************************************************************************)
\* It reads the image and the file list; a locked clipboard reads as absent.
PollBegin ==
    /\ ~read.on
    /\ changed \/ ~windows
    /\ \E ok \in BOOLEAN :
        /\ IF ok THEN UNCHANGED <<faults, gen>>
           ELSE Faulty /\ gen' = [gen EXCEPT !.clean = FALSE]
        /\ read' = [on |-> TRUE, torn |-> FALSE,
                    img |-> IF ok THEN clip.img ELSE NoVal,
                    files |-> IF ok THEN Readable(clip).files ELSE NoVal]
    /\ UNCHANGED <<osVars, last, cmds, phase, link, batch, ring, lapsed, seq, holdVars, pending,
                   workVars, results, worldVars, out, done, offered, mine, known, ncopies, nclips>>

\* What was read, what of it differs from the last hash of its format, and the
\* richest of those: image before files before text.
ReadContent(text) == [img |-> read.img, files |-> read.files, text |-> text]

NewIn(r) == {f \in Formats : r[f] # NoVal /\ r[f] # last[f]}

Richest(fs) == IF "img" \in fs THEN "img" ELSE IF "files" \in fs THEN "files" ELSE "text"

\* Mutant: companions of a new image or file list are forgotten.
LastAfter_Forgets(r) ==
    IF NewIn(r) # {} THEN [NoContent EXCEPT ![Richest(NewIn(r))] = r[Richest(NewIn(r))]]
    ELSE last

\* A new image or file list marks its companions as seen; a new text does not.
LastAfter(r) ==
    IF NewIn(r) \cap {"img", "files"} # {} THEN r
    ELSE IF NewIn(r) # {} THEN [last EXCEPT !.text = r.text]
    ELSE last

\* It reads the text and sends the actor what is new; the sequence number, taken
\* at the start, counts as consumed once any format could be read.
PollEnd ==
    /\ read.on
    /\ \E ok \in BOOLEAN :
        LET r == ReadContent(IF ok THEN clip.text ELSE NoVal) IN
        /\ IF ok THEN UNCHANGED faults ELSE Faulty
        /\ last' = LastAfter(r)
        /\ cmds' = IF NewIn(r) = {} THEN cmds
                   ELSE Append(cmds, [op |-> "local", kind |-> Richest(NewIn(r)),
                                      val |-> r[Richest(NewIn(r))]])
        /\ changed' = IF Present(r) # {} THEN read.torn ELSE changed
        /\ gen' = [gen EXCEPT !.n = IF NewIn(r) = {} THEN @ ELSE @ + 1,
                              !.clean = @ /\ ok, !.polled = TRUE]
    /\ read' = NotReading
    /\ UNCHANGED <<windows, clip, timers, clearing, phase, link, batch, ring, lapsed, seq, holdVars, pending,
                   workVars, results, worldVars, out, done, offered, mine, known, ncopies, nclips>>

(***************************************************************************)
(* The actor's connection                                                  *)
(***************************************************************************)
\* ws::connect.
DialOk ==
    /\ phase = "dial"
    /\ phase' = "flush" /\ link' = "up"
    /\ UNCHANGED <<osVars, watchVars, cmds, batch, ring, lapsed, seq, holdVars, pending, workVars,
                   results, worldVars, out, histVars, counts>>

DialFail ==
    /\ phase = "dial" /\ Faulty
    /\ phase' = "backoff"
    /\ UNCHANGED <<osVars, watchVars, cmds, link, batch, ring, lapsed, seq, holdVars, pending,
                   workVars, results, worldVars, out, histVars, ncopies, nclips>>

\* A clip as it is handed to the socket.
OutClip(s, kind, v, onDemand) ==
    [seq |-> s, kind |-> kind, val |-> v, id |-> BlobId(v, s), onDemand |-> onDemand,
     arrived |-> link = "up"]

\* ws::send of an uploaded clip and what follows it; only an image is remembered.
Advertise(j) ==
    /\ out' = Append(out, [j EXCEPT !.arrived = (link = "up")])
    /\ IF j.kind = "img" THEN SetRing("img", Remember(ring.img, j.val)) ELSE UNCHANGED <<ring, lapsed>>

\* The start of a connection: re-advertise the uploads stashed by the last one.
FlushOne ==
    /\ phase = "flush" /\ pending # <<>> /\ link # "down"
    /\ Advertise(Head(pending))
    /\ pending' = Tail(pending)
    /\ UNCHANGED <<osVars, watchVars, cmds, phase, link, batch, seq, holdVars, workVars,
                   results, worldVars, histVars, counts>>

\* The socket fails again: the upload and all behind it stay stashed.
FlushFail ==
    /\ phase = "flush" /\ pending # <<>> /\ link = "down"
    /\ phase' = "backoff"
    /\ UNCHANGED <<osVars, watchVars, cmds, link, batch, ring, lapsed, seq, holdVars, pending,
                   workVars, results, worldVars, out, histVars, counts>>

\* Mutant: the loop is entered with uploads still stashed.
EnterLoop_Early ==
    /\ phase = "flush"
    /\ phase' = "up"
    /\ UNCHANGED <<osVars, watchVars, cmds, link, batch, ring, lapsed, seq, holdVars, pending,
                   workVars, results, worldVars, out, histVars, counts>>

EnterLoop ==
    /\ phase = "flush" /\ pending = <<>>
    /\ phase' = "up"
    /\ UNCHANGED <<osVars, watchVars, cmds, link, batch, ring, lapsed, seq, holdVars, pending,
                   workVars, results, worldVars, out, histVars, counts>>

\* The network loses the connection, with or without telling this side.
LoseLink(how) ==
    /\ link = "up" /\ Faulty
    /\ link' = how
    /\ UNCHANGED <<osVars, watchVars, cmds, phase, batch, ring, lapsed, seq, holdVars, pending,
                   workVars, results, worldVars, out, histVars, ncopies, nclips>>

AtSelect == phase = "up" /\ batch = <<>>

\* recv or ping fails, or the watchdog finds the link silent.
Disconnect ==
    /\ AtSelect /\ link # "up"
    /\ phase' = "backoff" /\ link' = "down"
    /\ UNCHANGED <<osVars, watchVars, cmds, batch, ring, lapsed, seq, holdVars, pending, workVars,
                   results, worldVars, out, histVars, counts>>

\* The user asks for a reconnect.
UserReconnect ==
    /\ AtSelect /\ Faulty
    /\ phase' = "backoff" /\ link' = "down"
    /\ UNCHANGED <<osVars, watchVars, cmds, batch, ring, lapsed, seq, holdVars, pending, workVars,
                   results, worldVars, out, histVars, ncopies, nclips>>

\* The backoff ends, by its timer or by the user's request.
BackoffEnd ==
    /\ phase = "backoff"
    /\ phase' = "dial" /\ link' = "down"
    /\ UNCHANGED <<osVars, watchVars, cmds, batch, ring, lapsed, seq, holdVars, pending, workVars,
                   results, worldVars, out, histVars, counts>>

\* Time passes: an entry of an echo ring gets older than ECHO_TTL, wherever the value it
\* guards is by then.
ExpireEcho(kind, i) ==
    /\ i \in DOMAIN ring[kind] /\ ring[kind][i].live
    /\ SetRing(kind, [ring[kind] EXCEPT ![i].live = FALSE])
    /\ UNCHANGED <<osVars, watchVars, cmds, phase, link, batch, seq, holdVars, pending,
                   workVars, results, worldVars, out, histVars, counts>>

(***************************************************************************)
(* Commands                                                                *)
(***************************************************************************)
\* send_text_clip.  A failed send ends the connection; the text is gone.
SendTextClip(v) ==
    /\ seq' = seq + 1
    /\ CASE v \in Refused -> UNCHANGED <<out, ring, lapsed, phase>>
         [] v \notin Refused /\ link = "down" -> phase' = "backoff" /\ UNCHANGED <<out, ring, lapsed>>
         [] OTHER -> /\ out' = Append(out, OutClip(seq + 1, "text", v, FALSE))
                     /\ SetRing("text", Remember(ring.text, v))
                     /\ UNCHANGED phase
    /\ UNCHANGED <<uploading, batch>>

\* spawn_image_clip.
SpawnImageClip(v) ==
    /\ IF v \in Refused THEN UNCHANGED <<seq, uploading>>
       ELSE seq' = seq + 1 /\ uploading' = uploading \cup {OutClip(seq + 1, "img", v, FALSE)}
    /\ UNCHANGED <<out, ring, lapsed, phase, batch>>

Skip == UNCHANGED <<seq, out, ring, lapsed, phase, uploading, batch>>

\* The select loop takes a command.  A file list is sent path by path.
HandleCmd ==
    /\ AtSelect /\ cmds # <<>>
    /\ cmds' = Tail(cmds)
    /\ LET c == Head(cmds) IN
        CASE c.kind = "text" ->
                IF c.op = "local" /\ (Seen("text", c.val) \/ c.val \in Sensitive)
                THEN Skip ELSE SendTextClip(c.val)
          [] c.kind = "img" ->
                IF Seen("img", c.val) THEN Skip ELSE SpawnImageClip(c.val)
          [] c.kind = "files" ->
                /\ batch' = IF c.op = "send" THEN <<[val |-> c.val, check |-> FALSE]>>
                            ELSE [i \in DOMAIN c.val |-> [val |-> c.val[i], check |-> TRUE]]
                /\ UNCHANGED <<seq, out, ring, lapsed, phase, uploading>>
    /\ UNCHANGED <<osVars, watchVars, link, holdVars, pending, serving, pulling, results,
                   worldVars, histVars, counts>>

\* hold_on_demand: a new id goes to the end of the order, the oldest go out.
HoldOnDemand(id) ==
    LET grown == Append(order, id)
        kept == IF Len(grown) > MaxHolds
                THEN SubSeq(grown, Len(grown) - MaxHolds + 1, Len(grown)) ELSE grown
    IN  IF id \in held THEN UNCHANGED holdVars
        ELSE /\ order' = kept
             /\ held' = (held \cup {id}) \ (Range(grown) \ Range(kept))

\* The advertisement of an on-demand file.  If the send fails, the connection ends
\* and the rest of the copy is not sent.  Mutant: the rest is kept.
AdvertiseFile_KeepsBatch(p) ==
    /\ IF link = "down" THEN phase' = "backoff" /\ UNCHANGED out
       ELSE out' = Append(out, OutClip(seq + 1, "files", p, TRUE)) /\ UNCHANGED phase
    /\ batch' = Tail(batch)

AdvertiseFile(p) ==
    IF link = "down" THEN phase' = "backoff" /\ batch' = <<>> /\ UNCHANGED out
    ELSE /\ out' = Append(out, OutClip(seq + 1, "files", p, TRUE))
         /\ batch' = Tail(batch) /\ UNCHANGED phase

\* send_file_clip for the next path.
SendFileClip ==
    /\ phase = "up" /\ batch # <<>>
    /\ LET p == Head(batch).val IN
        \/ /\ p \in Refused \/ (Head(batch).check /\ Seen("files", p))
           /\ batch' = Tail(batch)
           /\ UNCHANGED <<seq, out, phase, holdVars, offered, uploading>>
        \/ /\ p \notin Refused /\ ~(Head(batch).check /\ Seen("files", p))
           /\ seq' = seq + 1
           /\ IF p \in Large
              THEN /\ HoldOnDemand(BlobId(p, seq + 1))
                   /\ offered' = offered \cup {seq + 1}
                   /\ AdvertiseFile(p)
                   /\ UNCHANGED uploading
              ELSE /\ uploading' = uploading \cup {OutClip(seq + 1, "files", p, FALSE)}
                   /\ batch' = Tail(batch) /\ UNCHANGED <<out, phase, holdVars, offered>>
    /\ UNCHANGED <<osVars, watchVars, cmds, link, ring, lapsed, pending, serving, pulling, results,
                   worldVars, done, mine, known, gen, counts>>

(***************************************************************************)
(* Frames from the server: handle_frame                                    *)
(***************************************************************************)
\* Mutant: what is applied is not remembered.
Apply_NotRemembered(c, entry) ==
    /\ SetClipboard(ContentOf(c)) /\ (c.kind = "files" => windows)
    /\ UNCHANGED <<ring, lapsed, faults>>

\* The clip is remembered, then written to the clipboard, which may fail.
Apply(c, entry) ==
    /\ SetRing(c.kind, Remember(ring[c.kind], entry))
    /\ \/ SetClipboard(ContentOf(c)) /\ (c.kind = "files" => windows) /\ UNCHANGED faults
       \/ c.kind = "files" /\ ~windows /\ UNCHANGED <<clip, changed, read, known, gen, faults>>
       \/ Faulty /\ UNCHANGED <<clip, changed, read, known, gen>>

\* A text clip is applied at once and gets an auto-clear timer.
HandleIncomingText(c) ==
    /\ AtSelect /\ link = "up" /\ c.kind = "text" /\ nclips < MaxClips
    /\ nclips' = nclips + 1
    /\ Apply(c, c.val)
    /\ timers' = timers \cup {c.val}
    /\ UNCHANGED <<windows, clearing, last, cmds, phase, link, batch, seq, holdVars, pending, workVars,
                   results, worldVars, out, done, offered, mine, ncopies>>

\* A clip with a blob starts a download.
HandleIncomingBlob(c) ==
    /\ AtSelect /\ link = "up" /\ c.kind # "text" /\ nclips < MaxClips
    /\ nclips' = nclips + 1
    /\ pulling' = pulling \cup {c}
    /\ UNCHANGED <<osVars, watchVars, cmds, phase, link, batch, ring, lapsed, seq, holdVars, pending,
                   uploading, serving, results, worldVars, out, histVars, ncopies, faults>>

\* The server asks for an on-demand blob that it was told of and has not got.
HandleBlobRequest(c) ==
    /\ AtSelect /\ link = "up"
    /\ c.onDemand /\ c.arrived /\ c.id \notin stored
    /\ c.id \in held
    /\ serving' = serving \cup {[id |-> c.id, bytes |-> IF E2E THEN c.id ELSE <<c.val, disk[c.val]>>]}
    /\ UNCHANGED <<osVars, watchVars, cmds, phase, link, batch, ring, lapsed, seq, holdVars, pending,
                   uploading, pulling, results, worldVars, out, histVars, counts>>

(***************************************************************************)
(* The workers and their results                                           *)
(***************************************************************************)
UploadDone(j, ok) ==
    /\ j \in uploading
    /\ uploading' = uploading \ {j}
    /\ results' = Append(results, [op |-> "upload", ok |-> ok, what |-> j])
    /\ IF ok THEN /\ done' = done \cup {j.seq} /\ stored' = stored \cup {j.id}
                  /\ UNCHANGED faults
       ELSE Faulty /\ UNCHANGED <<done, stored>>
    /\ UNCHANGED <<osVars, watchVars, cmds, phase, link, batch, ring, lapsed, seq, holdVars, pending,
                   serving, pulling, disk, out, offered, mine, known, gen, ncopies, nclips>>

ServeDone(s, ok) ==
    /\ s \in serving
    /\ serving' = serving \ {s}
    /\ results' = Append(results, [op |-> "serve", ok |-> ok, what |-> s.id])
    /\ IF ok THEN stored' = stored \cup {s.bytes} /\ UNCHANGED faults
       ELSE Faulty /\ UNCHANGED stored
    /\ UNCHANGED <<osVars, watchVars, cmds, phase, link, batch, ring, lapsed, seq, holdVars, pending,
                   uploading, pulling, disk, out, histVars, ncopies, nclips>>

PullDone(c, ok) ==
    /\ c \in pulling
    /\ pulling' = pulling \ {c}
    /\ results' = Append(results, [op |-> "pull", ok |-> ok, what |-> c])
    /\ IF ok THEN UNCHANGED faults ELSE Faulty
    /\ UNCHANGED <<osVars, watchVars, cmds, phase, link, batch, ring, lapsed, seq, holdVars, pending,
                   uploading, serving, worldVars, out, histVars, ncopies, nclips>>

TakeResult(op) ==
    /\ AtSelect /\ results # <<>> /\ Head(results).op = op
    /\ results' = Tail(results)

\* Mutant: an upload whose advertisement fails is dropped.
HandleUpload_Drops ==
    /\ TakeResult("upload")
    /\ LET r == Head(results) IN
        CASE ~r.ok -> UNCHANGED <<out, ring, lapsed, phase>>
          [] r.ok /\ link = "down" -> phase' = "backoff" /\ UNCHANGED <<out, ring, lapsed>>
          [] OTHER -> Advertise(r.what) /\ UNCHANGED phase
    /\ UNCHANGED <<osVars, watchVars, cmds, link, batch, seq, holdVars, pending, workVars,
                   worldVars, histVars, counts>>

\* An upload is advertised; if the socket fails it is stashed for the next one.
HandleUpload ==
    /\ TakeResult("upload")
    /\ LET r == Head(results) IN
        CASE ~r.ok -> UNCHANGED <<out, ring, lapsed, pending, phase>>
          [] r.ok /\ link = "down" -> /\ pending' = Append(pending, r.what)
                                      /\ phase' = "backoff" /\ UNCHANGED <<out, ring, lapsed>>
          [] OTHER -> Advertise(r.what) /\ UNCHANGED <<pending, phase>>
    /\ UNCHANGED <<osVars, watchVars, cmds, link, batch, seq, holdVars, workVars, worldVars,
                   histVars, counts>>

\* retain drops an id from the order, where HoldsAgree has it once.
Retain(id) == RemoveAt(order, CHOOSE i \in DOMAIN order : order[i] = id)

\* Mutants: the order keeps the id of a served blob; a failed upload drops the hold.
HandleServe_KeepsOrder ==
    /\ TakeResult("serve")
    /\ held' = IF Head(results).ok THEN held \ {Head(results).what} ELSE held
    /\ UNCHANGED <<osVars, watchVars, cmds, phase, link, batch, ring, lapsed, seq, order, pending,
                   workVars, worldVars, out, histVars, counts>>

HandleServe_DropsFailed ==
    /\ TakeResult("serve")
    /\ LET r == Head(results) IN
        IF r.what \in held
        THEN held' = held \ {r.what} /\ order' = Retain(r.what)
        ELSE UNCHANGED holdVars
    /\ UNCHANGED <<osVars, watchVars, cmds, phase, link, batch, ring, lapsed, seq, pending, workVars,
                   worldVars, out, histVars, counts>>

\* A served blob is dropped, one whose upload failed is kept for the next request.
HandleServe ==
    /\ TakeResult("serve")
    /\ LET r == Head(results) IN
        IF r.ok /\ r.what \in held
        THEN held' = held \ {r.what} /\ order' = Retain(r.what)
        ELSE UNCHANGED holdVars
    /\ UNCHANGED <<osVars, watchVars, cmds, phase, link, batch, ring, lapsed, seq, pending, workVars,
                   worldVars, out, histVars, counts>>

\* apply_blob.
HandlePull ==
    /\ TakeResult("pull")
    /\ LET r == Head(results) IN
        IF r.ok THEN Apply(r.what, r.what.val)
        ELSE UNCHANGED <<clip, changed, read, known, gen, ring, lapsed, faults>>
    /\ UNCHANGED <<windows, timers, clearing, last, cmds, phase, link, batch, seq, holdVars, pending,
                   workVars, worldVars, out, done, offered, mine, ncopies, nclips>>

(***************************************************************************)
(* Specification                                                           *)
(***************************************************************************)
User == \/ \E c \in Copies : UserCopy(c)
        \/ \E c \in Sends : UserSend(c)
        \/ \E p \in Large : EditFile(p)
        \/ UserReconnect

Watcher == PollBegin \/ PollEnd

Timers == (\E v \in timers : ClearCheck(v)) \/ ClearClipboard

Connection == DialOk \/ DialFail \/ FlushOne \/ FlushFail \/ EnterLoop \/ Disconnect \/ BackoffEnd

Environment == \/ \E how \in {"half", "down"} : LoseLink(how)
               \/ \E f \in Formats, i \in 1..RingMax : ExpireEcho(f, i)
               \/ \E c \in Clips : HandleIncomingText(c) \/ HandleIncomingBlob(c)
               \/ \E i \in DOMAIN out : HandleBlobRequest(out[i])

Workers == \E ok \in BOOLEAN : \/ \E j \in uploading : UploadDone(j, ok)
                               \/ \E s \in serving : ServeDone(s, ok)
                               \/ \E c \in pulling : PullDone(c, ok)

Loop == HandleCmd \/ SendFileClip \/ HandleUpload \/ HandleServe \/ HandlePull

Next == User \/ Watcher \/ Timers \/ Connection \/ Environment \/ Workers \/ Loop

Spec == Init /\ [][Next]_vars

\* The actor is scheduled and its dials succeed in the end; its loop takes every
\* ready arm of the select in the end.
FairSpec == /\ Spec
            /\ WF_vars(Connection)
            /\ WF_vars(Loop)

(***************************************************************************)
(* Properties                                                              *)
(***************************************************************************)
\* The values of the variables.
TypeOK ==
    /\ DOMAIN clip = Formats /\ DOMAIN last = Formats /\ changed \in BOOLEAN
    /\ phase \in {"dial", "flush", "up", "backoff"} /\ link \in {"up", "half", "down"}
    /\ phase # "up" => batch = <<>>
    /\ phase = "dial" => link = "down"
    /\ pulling \subseteq Clips /\ \A j \in uploading : j.seq \in 1..seq
    /\ \A f \in Formats : Len(ring[f]) <= RingMax
    /\ held \subseteq {<<p, n>> : p \in Paths, n \in 0..(seq + MaxEdits)}
    /\ \A i \in DOMAIN pending : pending[i].seq \in done
    /\ done \subseteq 1..seq
    /\ ncopies <= MaxCopies /\ nclips <= MaxClips /\ faults <= MaxFaults

\* Watching the clipboard (poll_once).  Content that was neither copied in the
\* middle of a poll nor misread yields at most one command, so a companion
\* format is never sent on its own later; and exactly one if it holds something
\* that was never on the clipboard, so nothing that stays there hides a new copy.
OneClipPerCopy ==
    gen.clean => /\ gen.n <= 1
                 /\ gen.polled /\ gen.fresh => gen.n = 1

\* Echo suppression (remember and seen around Apply, the watcher and HandleCmd): what
\* goes out was copied or sent by the user, or its echo guard lapsed, by ECHO_TTL or by
\* newer entries of a full ring, after the value was remembered and before the check.
\* Nothing else lets a received clip out: no companion format, torn poll, timer that
\* clears the clipboard, retry or reconnect.
NoEcho == \A i \in DOMAIN out : <<out[i].kind, out[i].val>> \in mine \cup lapsed

\* What docs/PROTOCOL.md asks of every client, and does not hold: "Not re-broadcast a local
\* change equal to one it just received".  A backoff is longer than ECHO_TTL.
NeverSentBack == \A i \in DOMAIN out : <<out[i].kind, out[i].val>> \in mine

\* Where a clip with an uploaded blob is: in the result channel, stashed, handed
\* to a socket.
Whereabouts(s) ==
    {<<"result", i>> : i \in {k \in DOMAIN results :
                                 results[k].op = "upload" /\ results[k].what.seq = s}}
      \cup {<<"pending", i>> : i \in {k \in DOMAIN pending : pending[k].seq = s}}
      \cup {<<"out", i>> : i \in {k \in DOMAIN out : out[k].seq = s}}

\* Uploads across reconnects: an upload that succeeded is never lost and never
\* advertised twice, and no clip is advertised before its blob is there.
UploadOnce ==
    /\ \A s \in done : Cardinality(Whereabouts(s)) = 1
    /\ \A i \in DOMAIN out : out[i].kind # "text" /\ ~out[i].onDemand => out[i].seq \in done

\* The bounded ring: map and order name the same ids, each once, at most MaxHolds.
HoldsAgree == Range(order) = held /\ Len(order) = Cardinality(held) /\ Len(order) <= MaxHolds

\* A file that peers were told of can be supplied until the server has it, unless
\* MaxHolds newer ones were held since (told of or not: a failed send keeps its hold).
\* For sealed blobs: without a key, offering a held file again leaves its place in the order.
HoldKept ==
    \A i \in DOMAIN out :
        out[i].onDemand => \/ out[i].id \in stored \cup held
                           \/ Cardinality({s \in offered : s > out[i].seq}) >= MaxHolds

\* Liveness: an upload that succeeded is advertised, through any outage.
ClipNumbers == 1..(MaxCopies * (Cardinality(Paths) + 1))

UploadsAdvertised == \A s \in ClipNumbers : s \in done ~> \E i \in DOMAIN out : out[i].seq = s
=============================================================================
