---------------------------- MODULE EngineProofs ----------------------------
(***************************************************************************)
(* Proofs about Engine, for any set of clipboard contents, commands and    *)
(* clips, any number of copies, faults and reconnects, and any size of the *)
(* rings: type correctness, one command for each copy that is read whole,  *)
(* one advertisement for each upload that succeeded, and the ring of held  *)
(* blobs, whose map and order agree and which, when each sealed blob has   *)
(* an id of its own, drops a hold only for MaxHolds newer ones; and that a *)
(* received clip is not sent back while the echo guards last.              *)
(***************************************************************************)
EXTENDS Engine, FiniteSetTheorems, TLAPS

(* ---------------------------------------------------------------------- *)
(* The inductive invariant                                                 *)
(* ---------------------------------------------------------------------- *)

\* The values on the clipboard, in commands and in clips.
Values == {c[f] : c \in Copies, f \in Formats} \cup {c.val : c \in Sends \cup Clips}
            \cup {<<c.val>> : c \in Clips} \cup Paths \cup {NoVal}

Lists == Seq(Paths) \cup {NoVal}

Commands == {c \in [op : {"local", "send"}, kind : Formats, val : Values] :
                c.kind = "files" => IF c.op = "send" THEN c.val \in Paths ELSE c.val \in Seq(Paths)}

Ids == Values \X Nat

\* Clips on their way out: an on-demand one is a file.
Jobs == {j \in [seq : Nat \ {0}, kind : Formats, val : Values, id : Ids, onDemand : BOOLEAN,
                arrived : BOOLEAN] : j.onDemand => j.val \in Paths}

Uploads == [op : {"upload"}, ok : BOOLEAN, what : Jobs]
Serves == [op : {"serve"}, ok : BOOLEAN, what : Ids]
Pulls == [op : {"pull"}, ok : BOOLEAN, what : Clips]

\* Paths of a copy still to be sent, and entries of an echo ring.
Todo == [val : Paths, check : BOOLEAN]
Entries == [val : Values, live : BOOLEAN]

\* The clipboard, what the watcher has of it, and its commands.
IsContent(c) == DOMAIN c = Formats /\ (\A f \in Formats : c[f] \in Values) /\ c.files \in Lists

Boards ==
    /\ IsContent(clip) /\ DOMAIN last = Formats
    /\ read \in [on : BOOLEAN, torn : BOOLEAN, img : Values, files : Values \cap Lists]
    /\ changed \in BOOLEAN
    /\ cmds \in Seq(Commands)

\* Where the actor is: between its connections no copy is half sent.
Place ==
    /\ phase \in {"dial", "flush", "up", "backoff"} /\ link \in {"up", "half", "down"}
    /\ batch \in Seq(Todo)
    /\ phase # "up" => batch = <<>>
    /\ phase = "dial" => link = "down"

Rings == /\ DOMAIN ring = Formats
         /\ \A f \in Formats : ring[f] \in Seq(Entries) /\ Len(ring[f]) <= RingMax

\* Clips, workers and their results.
Work ==
    /\ seq \in Nat /\ done \subseteq 1..seq /\ offered \subseteq 1..seq
    /\ uploading \subseteq Jobs /\ pulling \subseteq Clips
    /\ results \in Seq(Uploads \cup Serves \cup Pulls)
    /\ pending \in Seq(Jobs) /\ out \in Seq(Jobs)
    /\ serving \subseteq [id : Ids, bytes : Ids]
    /\ disk \in [Paths -> 0..MaxEdits]

Counts == ncopies \in 0..MaxCopies /\ nclips \in 0..MaxClips /\ faults \in 0..MaxFaults

\* The ring of holds: no id is twice in the order.
Holds ==
    /\ order \in Seq(Ids) /\ Len(order) <= MaxHolds
    /\ held = Range(order)
    /\ \A i, k \in DOMAIN order : order[i] = order[k] => i = k
    /\ \A i \in DOMAIN order : order[i][1] \in Paths /\ order[i][2] \in 0..(seq + MaxEdits)

\* A clip is in one place: with its worker, in the result channel, stashed, or handed
\* to a socket.
InResults(s) == \E i \in DOMAIN results : results[i].op = "upload" /\ results[i].what.seq = s
InPending(s) == \E i \in DOMAIN pending : pending[i].seq = s
InOut(s) == \E i \in DOMAIN out : out[i].seq = s

UploadsApart ==
    /\ \A j \in uploading : /\ j.seq \in (1..seq) \ done
                            /\ ~InResults(j.seq) /\ ~InPending(j.seq) /\ ~InOut(j.seq)
    /\ \A j, k \in uploading : j.seq = k.seq => j = k

ResultsApart ==
    /\ \A i \in DOMAIN results : results[i].op = "upload" =>
          /\ results[i].what.seq \in 1..seq /\ (results[i].ok <=> results[i].what.seq \in done)
          /\ ~InPending(results[i].what.seq) /\ ~InOut(results[i].what.seq)
    /\ \A i, k \in DOMAIN results : (results[i].op = "upload" /\ results[k].op = "upload"
                                       /\ results[i].what.seq = results[k].what.seq) => i = k

PendingApart ==
    /\ \A i \in DOMAIN pending : pending[i].seq \in done /\ ~InOut(pending[i].seq)
    /\ \A i, k \in DOMAIN pending : pending[i].seq = pending[k].seq => i = k

OutApart ==
    /\ \A i \in DOMAIN out : out[i].seq \in 1..seq
    /\ \A i, k \in DOMAIN out : out[i].seq = out[k].seq => i = k

Apart == UploadsApart /\ ResultsApart /\ PendingApart /\ OutApart

\* An upload that succeeded is somewhere, and comes before its advertisement.
Kept ==
    /\ \A s \in done : InResults(s) \/ InPending(s) \/ InOut(s)
    /\ \A i \in DOMAIN out : out[i].kind # "text" /\ ~out[i].onDemand => out[i].seq \in done

\* The watcher.  What it remembers was on the clipboard; a copy that it reads whole has
\* something new at its first poll, if it has something that was never there, and
\* nothing new after it.
Watched ==
    /\ \A f \in Formats : last[f] # NoVal => <<f, last[f]>> \in known
    /\ \A f \in Formats : Readable(clip)[f] # NoVal => <<f, Readable(clip)[f]>> \in known
    /\ read.img # NoVal => <<"img", read.img>> \in known
    /\ read.files # NoVal => <<"files", read.files>> \in known
    /\ gen \in [fresh : BOOLEAN, clean : BOOLEAN, polled : BOOLEAN, n : Nat]
    /\ gen.clean =>
        /\ read.on => read.img = clip.img /\ read.files = Readable(clip).files
        /\ ~gen.polled => gen.n = 0 /\ (gen.fresh => NewIn(Readable(clip)) # {})
        /\ gen.polled => gen.n <= 1 /\ NewIn(Readable(clip)) = {} /\ (gen.fresh => gen.n = 1)

TypeInv == Boards /\ Place /\ Rings /\ Work /\ Counts

IndInv == TypeInv /\ Holds /\ Apart /\ Kept /\ Watched

\* Uploads that are not offered on demand.
Eager ==
    /\ \A j \in uploading : ~j.onDemand
    /\ \A i \in DOMAIN results : results[i].op = "upload" => ~results[i].what.onDemand
    /\ \A i \in DOMAIN pending : ~pending[i].onDemand

\* With an end-to-end key: a served blob is with the server, and the order is that of
\* the offers.
Served ==
    /\ \A s \in serving : s.bytes = s.id
    /\ \A i \in DOMAIN results : results[i].op = "serve" /\ results[i].ok => results[i].what \in stored

Ordered ==
    /\ \A i \in DOMAIN out : out[i].onDemand => out[i].id[2] = out[i].seq
    /\ \A i \in DOMAIN order : order[i][2] \in offered
    /\ \A i, k \in DOMAIN order : i < k => order[i][2] < order[k][2]

Sealed == Eager /\ Served /\ Ordered /\ HoldKept

(* ---------------------------------------------------------------------- *)
(* What the steps leave alone                                              *)
(* ---------------------------------------------------------------------- *)

\* The steps that touch the clipboard or the watcher.
LEMMA BoardFrame ==
    ASSUME Next
    PROVE  \/ \E c \in Copies : UserCopy(c)
           \/ \E c \in Sends : UserSend(c)
           \/ ClearClipboard \/ PollBegin \/ PollEnd \/ HandleCmd
           \/ \E c \in Clips : HandleIncomingText(c)
           \/ HandlePull
           \/ UNCHANGED <<windows, clip, last, read, changed, cmds, known, gen>>
<1>1. CASE User
  BY <1>1 DEF User, EditFile, UserReconnect, osVars, watchVars, histVars
<1>2. CASE Timers
  BY <1>2 DEF Timers, ClearCheck, watchVars, histVars
<1>3. CASE Connection
  BY <1>3 DEF Connection, DialOk, DialFail, FlushOne, FlushFail, EnterLoop, Disconnect, BackoffEnd,
     osVars, watchVars, histVars
<1>4. CASE Environment
  BY <1>4 DEF Environment, LoseLink, ExpireEcho, HandleIncomingBlob, HandleBlobRequest,
     osVars, watchVars, histVars
<1>5. CASE Workers
  BY <1>5 DEF Workers, UploadDone, ServeDone, PullDone, osVars, watchVars, histVars
<1>6. CASE Loop
  BY <1>6 DEF Loop, SendFileClip, HandleUpload, HandleServe, osVars, watchVars, histVars
<1> QED
  BY <1>1, <1>2, <1>3, <1>4, <1>5, <1>6 DEF Next, Watcher

\* The steps that touch the echo rings.
LEMMA RingFrame ==
    ASSUME Next
    PROVE  \/ FlushOne \/ HandleCmd \/ HandleUpload \/ HandlePull
           \/ \E f \in Formats, i \in 1..RingMax : ExpireEcho(f, i)
           \/ \E c \in Clips : HandleIncomingText(c)
           \/ UNCHANGED <<ring, lapsed>>
<1>1. CASE User
  BY <1>1 DEF User, UserCopy, UserSend, EditFile, UserReconnect
<1>2. CASE Timers \/ Watcher
  BY <1>2 DEF Timers, ClearCheck, ClearClipboard, Watcher, PollBegin, PollEnd
<1>3. CASE Connection
  BY <1>3 DEF Connection, DialOk, DialFail, FlushFail, EnterLoop, Disconnect, BackoffEnd
<1>4. CASE Environment
  BY <1>4 DEF Environment, LoseLink, HandleIncomingBlob, HandleBlobRequest
<1>5. CASE Workers
  BY <1>5 DEF Workers, UploadDone, ServeDone, PullDone
<1>6. CASE Loop
  BY <1>6 DEF Loop, SendFileClip, HandleServe
<1> QED
  BY <1>1, <1>2, <1>3, <1>4, <1>5, <1>6 DEF Next

\* The steps that touch the actor's place: the others keep phase and batch, and only
\* LoseLink changes the socket.
LEMMA PlaceFrame ==
    ASSUME Next
    PROVE  \/ DialOk \/ DialFail \/ FlushFail \/ EnterLoop \/ Disconnect \/ BackoffEnd
           \/ UserReconnect \/ HandleCmd \/ SendFileClip \/ HandleUpload
           \/ \E how \in {"half", "down"} : LoseLink(how)
           \/ UNCHANGED <<phase, link, batch>>
<1>1. CASE User
  BY <1>1 DEF User, UserCopy, UserSend, EditFile
<1>2. CASE Timers \/ Watcher
  BY <1>2 DEF Timers, ClearCheck, ClearClipboard, Watcher, PollBegin, PollEnd
<1>3. CASE Connection
  BY <1>3 DEF Connection, FlushOne
<1>4. CASE Environment
  BY <1>4 DEF Environment, ExpireEcho, HandleIncomingText, HandleIncomingBlob, HandleBlobRequest
<1>5. CASE Workers
  BY <1>5 DEF Workers, UploadDone, ServeDone, PullDone
<1>6. CASE Loop
  BY <1>6 DEF Loop, HandleServe, HandlePull
<1> QED
  BY <1>1, <1>2, <1>3, <1>4, <1>5, <1>6 DEF Next

\* The steps that touch clips on their way out.
LEMMA WorkFrame ==
    ASSUME Next
    PROVE  \/ HandleCmd \/ SendFileClip \/ FlushOne \/ HandleUpload \/ HandleServe \/ HandlePull
           \/ \E p \in Large : EditFile(p)
           \/ \E c \in Clips : HandleIncomingBlob(c)
           \/ \E i \in DOMAIN out : HandleBlobRequest(out[i])
           \/ \E ok \in BOOLEAN : \/ \E j \in uploading : UploadDone(j, ok)
                                  \/ \E s \in serving : ServeDone(s, ok)
                                  \/ \E c \in pulling : PullDone(c, ok)
           \/ UNCHANGED <<seq, done, offered, uploading, pulling, results, pending, out, serving, disk,
                          stored, held, order>>
<1>1. CASE User
  BY <1>1 DEF User, UserCopy, UserSend, UserReconnect, holdVars, workVars, worldVars, histVars
<1>2. CASE Timers \/ Watcher
  BY <1>2 DEF Timers, ClearCheck, ClearClipboard, Watcher, PollBegin, PollEnd, holdVars, workVars,
     worldVars, histVars
<1>3. CASE Connection
  BY <1>3 DEF Connection, DialOk, DialFail, FlushFail, EnterLoop, Disconnect, BackoffEnd,
     holdVars, workVars, worldVars, histVars
<1>4. CASE Environment
  BY <1>4 DEF Environment, LoseLink, ExpireEcho, HandleIncomingText, holdVars, workVars, worldVars,
     histVars
<1>5. CASE Workers
  BY <1>5 DEF Workers
<1>6. CASE Loop
  BY <1>6 DEF Loop
<1> QED
  BY <1>1, <1>2, <1>3, <1>4, <1>5, <1>6 DEF Next

(* ---------------------------------------------------------------------- *)
(* Types                                                                   *)
(* ---------------------------------------------------------------------- *)

\* A file that is sent or received has a path.
LEMMA FilePaths == \A c \in Sends \cup Clips : c.kind = "files" => c.val \in Paths
BY DEF Paths

\* What the user copies, what a clip leaves on the clipboard and an empty clipboard are
\* contents, with a list of paths or nothing for the files.
LEMMA Contents ==
    /\ \A c \in Copies : IsContent(c)
    /\ \A c \in Clips : IsContent(ContentOf(c))
    /\ IsContent(NoContent)
<1>1. ASSUME NEW c \in Copies PROVE IsContent(c)
  <2>1. DOMAIN c = Formats /\ \A f \in Formats : c[f] \in Values
    BY EngineConstants DEF Values
  <2>2. ASSUME c.files # NoVal PROVE c.files \in Seq(Paths)
    <3>1. c.files \in Seq(Range(c.files))
      BY <2>2, EngineConstants
    <3>2. Range(c.files) \subseteq Paths
      BY <2>2 DEF Paths
    <3> HIDE DEF Range, Paths
    <3> QED
      BY <3>1, <3>2
  <2> QED
    BY <2>1, <2>2 DEF IsContent, Lists
<1>2. ASSUME NEW c \in Clips PROVE IsContent(ContentOf(c))
  <2>1. c.kind \in Formats /\ c.val \in Values /\ <<c.val>> \in Values /\ NoVal \in Values
    BY EngineConstants DEF Values
  <2>2. c.kind = "files" => <<c.val>> \in Seq(Paths)
    <3>1. c.kind = "files" => c.val \in Paths
      BY FilePaths
    <3> HIDE DEF Paths
    <3> QED
      BY <3>1
  <2> HIDE DEF Values, Paths
  <2>3. DOMAIN ContentOf(c) = Formats
    BY DEF ContentOf, NoContent
  <2>4. \A f \in Formats : ContentOf(c)[f] = IF f # c.kind THEN NoVal
                                              ELSE IF f = "files" THEN <<c.val>> ELSE c.val
    BY <2>1 DEF ContentOf, NoContent
  <2> QED
    BY <2>1, <2>2, <2>3, <2>4 DEF IsContent, Lists, Formats
<1>3. IsContent(NoContent)
  BY DEF IsContent, NoContent, Formats, Values, Lists
<1> QED
  BY <1>1, <1>2, <1>3

\* What the watcher can read of a content.
LEMMA ReadableContent ==
    ASSUME NEW c, IsContent(c)
    PROVE  /\ IsContent(Readable(c))
           /\ Readable(c).img = c.img /\ Readable(c).text = c.text
           /\ Readable(c).files = IF windows THEN c.files ELSE NoVal
BY DEF IsContent, Readable, Formats, Values, Lists

\* The clipboard and what the watcher has of it keep their types.
LEMMA BoardStep ==
    ASSUME TypeInv, Next
    PROVE  Boards'
<1> USE DEF TypeInv
<1> HIDE DEF Next
<1>a. /\ IsContent(clip) /\ DOMAIN last = Formats
      /\ read \in [on : BOOLEAN, torn : BOOLEAN, img : Values, files : Values \cap Lists]
      /\ changed \in BOOLEAN /\ cmds \in Seq(Commands)
  BY DEF Boards
<1>b. ASSUME NEW c, IsContent(c), SetClipboard(c), UNCHANGED <<last, cmds>> PROVE Boards'
  BY <1>a, <1>b DEF SetClipboard, Boards
<1>c. ASSUME NEW c \in Clips, NEW e, Apply(c, e), UNCHANGED <<last, cmds>> PROVE Boards'
  <2>1. IsContent(ContentOf(c))
    BY Contents
  <2>2. CASE SetClipboard(ContentOf(c))
    BY <2>1, <2>2, <1>b, <1>c
  <2>3. CASE UNCHANGED <<clip, changed, read>>
    BY <2>3, <1>c DEF Boards
  <2> QED
    BY <1>c, <2>2, <2>3 DEF Apply
<1>1. ASSUME NEW c \in Copies, UserCopy(c) PROVE Boards'
  BY <1>1, <1>b, Contents DEF UserCopy
<1>2. ASSUME NEW c \in Sends, UserSend(c) PROVE Boards'
  <2>1. [op |-> "send", kind |-> c.kind, val |-> c.val] \in Commands
    <3>1. c.kind \in {"text", "files"} /\ c.val \in Values
      BY EngineConstants DEF Values
    <3>2. c.kind = "files" => c.val \in Paths
      BY FilePaths
    <3> HIDE DEF Values, Paths
    <3> QED
      BY <3>1, <3>2 DEF Commands, Formats
  <2> HIDE DEF Commands
  <2>2. cmds' \in Seq(Commands)
    BY <1>2, <2>1, <1>a DEF UserSend
  <2> QED
    BY <1>2, <2>2 DEF UserSend, Boards, osVars, watchVars
<1>3. ASSUME ClearClipboard PROVE Boards'
  BY <1>3, <1>b, Contents DEF ClearClipboard
<1>4. ASSUME PollBegin PROVE Boards'
  <2>1. \A f \in Formats : Readable(clip)[f] \in Values
    BY <1>a, ReadableContent DEF IsContent
  <2>2. Readable(clip).files \in Values \cap Lists /\ clip.img \in Values /\ NoVal \in Values \cap Lists
    BY <2>1, <1>a, ReadableContent DEF IsContent, Formats, Values, Lists
  <2>3. read' \in [on : BOOLEAN, torn : BOOLEAN, img : Values, files : Values \cap Lists]
    BY <1>4, <2>2 DEF PollBegin
  <2> QED
    BY <1>4, <1>a, <2>3 DEF PollBegin, Boards, osVars
<1>5. ASSUME PollEnd PROVE Boards'
  <2>1. PICK ok \in BOOLEAN :
          LET r == ReadContent(IF ok THEN clip.text ELSE NoVal) IN
          /\ last' = LastAfter(r)
          /\ cmds' = IF NewIn(r) = {} THEN cmds
                     ELSE Append(cmds, [op |-> "local", kind |-> Richest(NewIn(r)),
                                        val |-> r[Richest(NewIn(r))]])
          /\ changed' = IF Present(r) # {} THEN read.torn ELSE changed
    BY <1>5 DEF PollEnd
  <2> DEFINE r == ReadContent(IF ok THEN clip.text ELSE NoVal)
             new == [op |-> "local", kind |-> Richest(NewIn(r)), val |-> r[Richest(NewIn(r))]]
  <2>2. /\ DOMAIN r = Formats /\ \A f \in Formats : r[f] \in Values
        /\ r.files \in Lists
    BY <1>a DEF ReadContent, IsContent, Formats, Values
  <2>3. ASSUME NewIn(r) # {} PROVE new \in Commands
    <3>1. Richest(NewIn(r)) \in Formats /\ Richest(NewIn(r)) \in NewIn(r)
      BY <2>3 DEF Richest, NewIn, Formats
    <3>2. Richest(NewIn(r)) = "files" => r.files \in Seq(Paths)
      BY <3>1, <2>2 DEF NewIn, Lists
    <3> HIDE DEF r
    <3> QED
      BY <3>1, <3>2, <2>2 DEF Commands
  <2>4. DOMAIN last' = Formats
    BY <2>1, <2>2, <1>a DEF LastAfter
  <2>5. cmds' \in Seq(Commands)
    <3>1. CASE NewIn(r) = {}
      BY <3>1, <2>1, <1>a
    <3>2. CASE NewIn(r) # {}
      <4>1. cmds' = Append(cmds, new)
        BY <3>2, <2>1
      <4> HIDE DEF new, Commands
      <4> QED
        BY <4>1, <3>2, <2>3, <1>a
    <3> QED
      BY <3>1, <3>2
  <2>6. changed' \in BOOLEAN
    BY <2>1, <1>a
  <2>7. NotReading \in [on : BOOLEAN, torn : BOOLEAN, img : Values, files : Values \cap Lists]
    BY DEF NotReading, Values, Lists
  <2> QED
    BY <1>5, <1>a, <2>4, <2>5, <2>6, <2>7 DEF PollEnd, Boards
<1>6. ASSUME HandleCmd PROVE Boards'
  <2> HIDE DEF Commands
  <2>1. cmds' \in Seq(Commands)
    BY <1>6, <1>a DEF HandleCmd
  <2> QED
    BY <1>6, <1>a, <2>1 DEF HandleCmd, Boards, osVars, watchVars
<1>7. ASSUME NEW c \in Clips, HandleIncomingText(c) PROVE Boards'
  BY <1>7, <1>c DEF HandleIncomingText
<1>8. ASSUME HandlePull PROVE Boards'
  <2>1. Head(results).what \in Clips
    <3>1. results \in Seq(Uploads \cup Serves \cup Pulls)
      BY DEF Work
    <3>2. results # <<>> /\ Head(results).op = "pull"
      BY <1>8 DEF HandlePull, TakeResult
    <3>3. Head(results) \in Uploads \cup Serves \cup Pulls
      BY <3>1, <3>2
    <3> QED
      BY <3>2, <3>3 DEF Uploads, Serves, Pulls
  <2>2. CASE Head(results).ok
    BY <1>8, <2>1, <2>2, <1>c DEF HandlePull
  <2>3. CASE ~Head(results).ok
    BY <1>8, <2>3, <1>a DEF HandlePull, Boards
  <2> QED
    BY <2>2, <2>3
<1>9. CASE UNCHANGED <<clip, last, read, changed, cmds>>
  BY <1>9, <1>a DEF Boards
<1> QED
  BY <1>1, <1>2, <1>3, <1>4, <1>5, <1>6, <1>7, <1>8, <1>9, BoardFrame

\* The head of the command channel and of the result channel.
LEMMA Heads ==
    ASSUME TypeInv
    PROVE  /\ cmds # <<>> => Head(cmds) \in Commands
           /\ batch # <<>> => Head(batch).val \in Paths /\ Head(batch) = batch[1]
           /\ pending # <<>> => Head(pending) \in Jobs /\ Head(pending) = pending[1]
           /\ results # <<>> => /\ Head(results) = results[1]
                                /\ Head(results).op = "upload" => Head(results) \in Uploads
                                /\ Head(results).op = "serve" => Head(results) \in Serves
                                /\ Head(results).op = "pull" => Head(results) \in Pulls
<1>1. /\ cmds \in Seq(Commands) /\ pending \in Seq(Jobs)
      /\ results \in Seq(Uploads \cup Serves \cup Pulls)
      /\ batch \in Seq(Todo)
  BY DEF TypeInv, Boards, Work, Place
<1>2. results # <<>> => Head(results) \in Uploads \cup Serves \cup Pulls /\ Head(results) = results[1]
  BY <1>1
<1>3. /\ \A r \in Uploads : r.op = "upload"
      /\ \A r \in Serves : r.op = "serve"
      /\ \A r \in Pulls : r.op = "pull"
  BY DEF Uploads, Serves, Pulls
<1>4. batch # <<>> => Head(batch) \in Todo /\ Head(batch) = batch[1]
  BY <1>1
<1>5. \A t \in Todo : t.val \in Paths
  BY DEF Todo
<1> QED
  BY <1>1, <1>2, <1>3, <1>4, <1>5

\* remember keeps a ring within its size.
LEMMA RememberType ==
    ASSUME NEW r \in Seq(Entries), Len(r) <= RingMax, NEW v \in Values
    PROVE  Remember(r, v) \in Seq(Entries) /\ Len(Remember(r, v)) <= RingMax
<1>1. CASE \E i \in DOMAIN r : r[i].val = v
  <2> DEFINE e(i) == IF r[i].val = v THEN [r[i] EXCEPT !.live = TRUE] ELSE r[i]
             t == [i \in DOMAIN r |-> e(i)]
  <2>0. \A i \in DOMAIN r : r[i] \in Entries
    OBVIOUS
  <2>1. \A i \in DOMAIN r : e(i) \in Entries
    BY <2>0 DEF Entries
  <2> HIDE DEF e
  <2>2. t \in Seq(Entries) /\ Len(t) = Len(r)
    BY <2>1
  <2>3. Remember(r, v) = t
    BY <1>1 DEF Remember, e
  <2> QED
    BY <2>2, <2>3
<1>2. CASE ~\E i \in DOMAIN r : r[i].val = v
  <2> DEFINE b == IF Len(r) >= RingMax THEN Tail(r) ELSE r
             e == [val |-> v, live |-> TRUE]
  <2>1. e \in Entries
    BY DEF Entries
  <2> HIDE DEF Entries
  <2>2. b \in Seq(Entries) /\ Len(b) < RingMax
    <3>1. CASE Len(r) >= RingMax
      BY <3>1, EngineConstants
    <3>2. CASE ~(Len(r) >= RingMax)
      BY <3>2, EngineConstants
    <3> QED
      BY <3>1, <3>2
  <2>3. Remember(r, v) = Append(b, e)
    BY <1>2 DEF Remember
  <2> HIDE DEF b, e
  <2> QED
    BY <2>1, <2>2, <2>3, EngineConstants
<1> QED
  BY <1>1, <1>2

\* The echo rings keep their types and their bound.
LEMMA RingStep ==
    ASSUME TypeInv, Next
    PROVE  Rings'
<1>a. /\ DOMAIN ring = Formats
      /\ \A f \in Formats : ring[f] \in Seq(Entries) /\ Len(ring[f]) <= RingMax
  BY DEF TypeInv, Rings
<1>b. ASSUME NEW f \in Formats, NEW v \in Values, SetRing(f, Remember(ring[f], v))
      PROVE  Rings'
  <2>1. Remember(ring[f], v) \in Seq(Entries) /\ Len(Remember(ring[f], v)) <= RingMax
    BY <1>a, RememberType
  <2>2. DOMAIN ring' = Formats /\ ring'[f] = Remember(ring[f], v)
        /\ \A g \in Formats \ {f} : ring'[g] = ring[g]
    BY <1>a, <1>b DEF SetRing
  <2>3. \A g \in Formats : ring'[g] \in Seq(Entries) /\ Len(ring'[g]) <= RingMax
    BY <1>a, <2>1, <2>2
  <2> QED
    BY <2>2, <2>3 DEF Rings
<1>c. ASSUME UNCHANGED ring PROVE Rings'
  BY <1>c DEF TypeInv, Rings
<1>d. ASSUME NEW j \in Jobs, Advertise(j) PROVE Rings'
  <2>1. j.val \in Values /\ j.kind \in Formats
    BY DEF Jobs
  <2>2. CASE j.kind = "img"
    BY <1>d, <2>1, <2>2, <1>b DEF Advertise, Formats
  <2> QED
    BY <1>d, <2>2, <1>c DEF Advertise
<1>e. ASSUME NEW c \in Clips, Apply(c, c.val) PROVE Rings'
  <2>1. c.kind \in Formats /\ c.val \in Values
    BY EngineConstants DEF Values
  <2> QED
    BY <1>e, <2>1, <1>b DEF Apply
<1>1. CASE FlushOne
  BY <1>1, <1>d, Heads DEF FlushOne
<1>2. CASE HandleCmd
  <2>1. Head(cmds) \in Commands
    BY <1>2, Heads DEF HandleCmd
  <2>2. Head(cmds).kind \in Formats /\ Head(cmds).val \in Values
    BY <2>1 DEF Commands
  <2>3. CASE Head(cmds).kind = "text"
    <3>1. CASE Skip
      BY <3>1, <1>c DEF Skip
    <3>2. CASE SendTextClip(Head(cmds).val)
      BY <3>2, <2>2, <1>b, <1>c DEF SendTextClip, Formats
    <3> QED
      BY <1>2, <2>3, <3>1, <3>2 DEF HandleCmd
  <2>4. CASE Head(cmds).kind = "img"
    BY <1>2, <2>4, <1>c DEF HandleCmd, Skip, SpawnImageClip
  <2>5. CASE Head(cmds).kind = "files"
    BY <1>2, <2>5, <1>c DEF HandleCmd
  <2> QED
    BY <2>2, <2>3, <2>4, <2>5 DEF Formats
<1>3. CASE HandleUpload
  <2>1. Head(results).what \in Jobs
    BY <1>3, Heads DEF HandleUpload, TakeResult, Uploads
  <2> QED
    BY <1>3, <2>1, <1>c, <1>d DEF HandleUpload
<1>4. CASE HandlePull
  <2>1. Head(results).what \in Clips
    BY <1>4, Heads DEF HandlePull, TakeResult, Pulls
  <2> QED
    BY <1>4, <2>1, <1>c, <1>e DEF HandlePull
<1>5. ASSUME NEW f \in Formats, NEW i \in 1..RingMax, ExpireEcho(f, i) PROVE Rings'
  <2> DEFINE t == [ring[f] EXCEPT ![i].live = FALSE]
  <2>1. DOMAIN ring' = Formats /\ ring'[f] = t /\ \A g \in Formats \ {f} : ring'[g] = ring[g]
    BY <1>5, <1>a DEF ExpireEcho, SetRing
  <2>2. i \in DOMAIN ring[f]
    BY <1>5 DEF ExpireEcho
  <2>0. ring[f][i] \in Entries
    BY <1>a, <2>2
  <2>3. [ring[f][i] EXCEPT !.live = FALSE] \in Entries
    BY <2>0 DEF Entries
  <2>4. t \in Seq(Entries) /\ Len(t) = Len(ring[f])
    BY <2>2, <2>3, <1>a
  <2> HIDE DEF t
  <2>5. \A g \in Formats : ring'[g] \in Seq(Entries) /\ Len(ring'[g]) <= RingMax
    BY <1>a, <2>1, <2>4
  <2> QED
    BY <2>1, <2>5 DEF Rings
<1>6. ASSUME NEW c \in Clips, HandleIncomingText(c) PROVE Rings'
  BY <1>6, <1>e DEF HandleIncomingText
<1> QED
  BY <1>1, <1>2, <1>3, <1>4, <1>5, <1>6, <1>c, RingFrame

\* No copy is half sent outside the loop.
LEMMA PlaceStep ==
    ASSUME TypeInv, Next
    PROVE  Place'
<1>a. /\ phase \in {"dial", "flush", "up", "backoff"} /\ link \in {"up", "half", "down"}
      /\ batch \in Seq(Todo) /\ (phase # "up" => batch = <<>>) /\ (phase = "dial" => link = "down")
  BY DEF TypeInv, Place
<1>b. ASSUME AtSelect, UNCHANGED <<link, batch>>, phase' \in {phase, "backoff"} PROVE Place'
  BY <1>a, <1>b DEF Place, AtSelect
<1>1. CASE \/ DialOk \/ DialFail \/ FlushFail \/ EnterLoop \/ Disconnect \/ BackoffEnd \/ UserReconnect
           \/ \E how \in {"half", "down"} : LoseLink(how)
  BY <1>a, <1>1 DEF Place, AtSelect, DialOk, DialFail, FlushFail, EnterLoop, Disconnect, BackoffEnd,
     UserReconnect, LoseLink
<1>2. CASE HandleCmd
  <2>1. Head(cmds) \in Commands /\ AtSelect /\ UNCHANGED link
    BY <1>2, Heads DEF HandleCmd
  <2>2. /\ Head(cmds).kind \in Formats
        /\ Head(cmds).kind = "files" => IF Head(cmds).op = "send" THEN Head(cmds).val \in Paths
                                        ELSE Head(cmds).val \in Seq(Paths)
    BY <2>1 DEF Commands
  <2>3. CASE Head(cmds).kind = "text"
    BY <1>2, <2>1, <2>3, <1>b DEF HandleCmd, Skip, SendTextClip
  <2>4. CASE Head(cmds).kind = "img"
    BY <1>2, <2>1, <2>4, <1>b DEF HandleCmd, Skip, SpawnImageClip
  <2>5. CASE Head(cmds).kind = "files"
    <3>1. batch' \in Seq(Todo)
      <4>1. CASE Head(cmds).op = "send"
        <5>1. batch' = <<[val |-> Head(cmds).val, check |-> FALSE]>>
          BY <1>2, <2>5, <4>1 DEF HandleCmd
        <5>2. [val |-> Head(cmds).val, check |-> FALSE] \in Todo
          BY <2>2, <2>5, <4>1 DEF Todo
        <5> QED
          BY <5>1, <5>2
      <4>2. CASE Head(cmds).op # "send"
        <5> DEFINE v == Head(cmds).val
                   e(i) == [val |-> v[i], check |-> TRUE]
        <5>1. batch' = [i \in DOMAIN v |-> e(i)] /\ v \in Seq(Paths)
          BY <1>2, <2>2, <2>5, <4>2 DEF HandleCmd
        <5>2. \A i \in DOMAIN v : e(i) \in Todo
          BY <5>1 DEF Todo
        <5> HIDE DEF v, e
        <5> QED
          BY <5>1, <5>2
      <4> QED
        BY <4>1, <4>2
    <3>2. UNCHANGED phase
      BY <1>2, <2>5 DEF HandleCmd
    <3> QED
      BY <2>1, <3>1, <3>2, <1>a DEF Place, AtSelect
  <2> QED
    BY <2>2, <2>3, <2>4, <2>5 DEF Formats
<1>3. CASE SendFileClip
  <2>1. /\ phase = "up" /\ batch # <<>> /\ UNCHANGED link
        /\ (batch' = Tail(batch) /\ UNCHANGED phase) \/ (phase' = "backoff" /\ batch' = <<>>)
    BY <1>3 DEF SendFileClip, AdvertiseFile
  <2>2. Tail(batch) \in Seq(Todo) /\ <<>> \in Seq(Todo)
    BY <2>1, <1>a
  <2> QED
    BY <2>1, <2>2, <1>a DEF Place
<1>4. CASE HandleUpload
  BY <1>4, <1>b DEF HandleUpload, TakeResult
<1>5. CASE UNCHANGED <<phase, link, batch>>
  BY <1>a, <1>5 DEF Place
<1> QED
  BY <1>1, <1>2, <1>3, <1>4, <1>5, PlaceFrame

\* The bounded counters keep their bounds.
LEMMA CountStep ==
    ASSUME TypeInv, Next
    PROVE  Counts'
<1> DEFINE Counted == /\ \/ UNCHANGED ncopies \/ (ncopies < MaxCopies /\ ncopies' = ncopies + 1)
                      /\ \/ UNCHANGED nclips \/ (nclips < MaxClips /\ nclips' = nclips + 1)
                      /\ UNCHANGED faults \/ Faulty
<1> SUFFICES Counted
  BY EngineConstants DEF TypeInv, Counts, Faulty
<1>1. CASE User
  BY <1>1 DEF User, UserCopy, UserSend, EditFile, UserReconnect, counts
<1>2. CASE Timers \/ Watcher
  BY <1>2 DEF Timers, ClearCheck, ClearClipboard, Watcher, PollBegin, PollEnd, counts
<1>3. CASE Connection
  BY <1>3 DEF Connection, DialOk, DialFail, FlushOne, FlushFail, EnterLoop, Disconnect, BackoffEnd, counts
<1>4. CASE Environment
  BY <1>4 DEF Environment, LoseLink, ExpireEcho, HandleIncomingText, Apply, HandleIncomingBlob,
     HandleBlobRequest, counts
<1>5. CASE Workers
  BY <1>5 DEF Workers, UploadDone, ServeDone, PullDone, counts
<1>6. CASE Loop
  BY <1>6 DEF Loop, HandleCmd, SendFileClip, HandleUpload, HandleServe, HandlePull, Apply, counts
<1> QED
  BY <1>1, <1>2, <1>3, <1>4, <1>5, <1>6 DEF Next

\* A blob id names the value, and a counter or the version of the file.
LEMMA BlobIdType ==
    ASSUME TypeInv, NEW s \in Nat \ {0}, NEW v \in Values
    PROVE  BlobId(v, s) \in Ids
<1>1. disk \in [Paths -> 0..MaxEdits] /\ MaxEdits \in Nat
  BY EngineConstants DEF TypeInv, Work
<1> QED
  BY <1>1 DEF BlobId, Ids

\* What is handed to a socket or a worker is a clip on its way out.
LEMMA OutClipType ==
    ASSUME TypeInv, NEW s \in Nat \ {0}, NEW k \in Formats, NEW v \in Values, NEW d \in BOOLEAN,
           d => v \in Paths
    PROVE  /\ OutClip(s, k, v, d) \in Jobs
           /\ OutClip(s, k, v, d).seq = s /\ OutClip(s, k, v, d).kind = k
           /\ OutClip(s, k, v, d).onDemand = d /\ OutClip(s, k, v, d).id = BlobId(v, s)
<1>1. BlobId(v, s) \in Ids
  BY BlobIdType
<1> QED
  BY <1>1 DEF OutClip, Jobs

\* The last sending of a clip tells whether the link was up.
LEMMA ArrivedType ==
    ASSUME NEW j \in Jobs, NEW b \in BOOLEAN
    PROVE  /\ [j EXCEPT !.arrived = b] \in Jobs
           /\ [j EXCEPT !.arrived = b].seq = j.seq /\ [j EXCEPT !.arrived = b].kind = j.kind
           /\ [j EXCEPT !.arrived = b].onDemand = j.onDemand /\ [j EXCEPT !.arrived = b].id = j.id
BY DEF Jobs

\* Clips, workers and results keep their types.
LEMMA WorkStep ==
    ASSUME TypeInv, Apart, Next
    PROVE  Work'
<1>a. /\ seq \in Nat /\ done \subseteq 1..seq /\ offered \subseteq 1..seq
      /\ uploading \subseteq Jobs /\ pulling \subseteq Clips
      /\ results \in Seq(Uploads \cup Serves \cup Pulls)
      /\ pending \in Seq(Jobs) /\ out \in Seq(Jobs)
      /\ serving \subseteq [id : Ids, bytes : Ids]
      /\ disk \in [Paths -> 0..MaxEdits]
  BY DEF TypeInv, Work
<1>b. 1..seq \subseteq 1..(seq + 1) /\ seq + 1 \in Nat \ {0}
  BY <1>a
<1>c. Paths \subseteq Values
  BY DEF Values
<1>d. ASSUME NEW j \in Jobs, Advertise(j) PROVE out' \in Seq(Jobs)
  <2>1. [j EXCEPT !.arrived = (link = "up")] \in Jobs
    BY ArrivedType
  <2> QED
    BY <1>a, <1>d, <2>1 DEF Advertise
<1>e. ASSUME NEW r \in Uploads \cup Serves \cup Pulls, results' = Append(results, r)
      PROVE  results' \in Seq(Uploads \cup Serves \cup Pulls)
  BY <1>a, <1>e
<1>f. ASSUME NEW op, TakeResult(op) PROVE results' \in Seq(Uploads \cup Serves \cup Pulls)
  BY <1>a, <1>f DEF TakeResult
<1>g. ASSUME NEW j \in Jobs PROVE Append(out, j) \in Seq(Jobs) /\ Append(pending, j) \in Seq(Jobs)
  BY <1>a
<1>1. CASE HandleCmd
  <2>1. Head(cmds) \in Commands
    BY <1>1, Heads DEF HandleCmd
  <2>2. Head(cmds).kind \in Formats /\ Head(cmds).val \in Values
    BY <2>1 DEF Commands
  <2> DEFINE v == Head(cmds).val
  <2>3. /\ OutClip(seq + 1, "text", v, FALSE) \in Jobs
        /\ OutClip(seq + 1, "img", v, FALSE) \in Jobs
    BY <1>b, <2>2, OutClipType DEF Formats
  <2>4. CASE Skip
    BY <1>a, <1>1, <2>4 DEF HandleCmd, Skip, Work, histVars, worldVars
  <2>5. CASE SendTextClip(v)
    <3>0. out' = out \/ out' = Append(out, OutClip(seq + 1, "text", v, FALSE))
      BY <2>5 DEF SendTextClip
    <3>1. out' \in Seq(Jobs)
      BY <1>a, <1>g, <2>3, <3>0
    <3>2. seq' = seq + 1 /\ UNCHANGED uploading
      BY <2>5 DEF SendTextClip
    <3> QED
      BY <1>a, <1>b, <1>1, <3>1, <3>2 DEF HandleCmd, Work, histVars, worldVars
  <2>6. CASE SpawnImageClip(v)
    <3>1. uploading' \subseteq Jobs /\ seq' \in {seq, seq + 1} /\ UNCHANGED out
      BY <1>a, <2>3, <2>6 DEF SpawnImageClip
    <3> QED
      BY <1>a, <1>b, <1>1, <3>1 DEF HandleCmd, Work, histVars, worldVars
  <2>7. CASE UNCHANGED <<seq, out, uploading>>
    BY <1>a, <1>1, <2>7 DEF HandleCmd, Work, histVars, worldVars
  <2> QED
    BY <1>1, <2>2, <2>4, <2>5, <2>6, <2>7 DEF HandleCmd, Formats
<1>2. CASE SendFileClip
  <2> DEFINE p == Head(batch).val
  <2>1. p \in Paths /\ p \in Values
    BY <1>2, Heads, <1>c DEF SendFileClip
  <2>2. /\ OutClip(seq + 1, "files", p, TRUE) \in Jobs
        /\ OutClip(seq + 1, "files", p, FALSE) \in Jobs
    BY <1>b, <2>1, OutClipType DEF Formats
  <2>0. out' = out \/ out' = Append(out, OutClip(seq + 1, "files", p, TRUE))
    BY <1>2 DEF SendFileClip, AdvertiseFile
  <2>3. out' \in Seq(Jobs)
    BY <1>a, <1>g, <2>2, <2>0
  <2>4. uploading' \subseteq Jobs
    BY <1>2, <2>2, <1>a DEF SendFileClip
  <2>5. seq' \in Nat /\ done' \subseteq 1..seq' /\ offered' \subseteq 1..seq'
    <3>1. done' = done /\ \/ seq' = seq /\ offered' = offered
                          \/ seq' = seq + 1 /\ offered' \subseteq offered \cup {seq + 1}
      BY <1>2 DEF SendFileClip
    <3>2. seq + 1 \in 1..(seq + 1)
      BY <1>a
    <3>3. CASE seq' = seq /\ offered' = offered
      BY <3>1, <3>3, <1>a
    <3>4. CASE seq' = seq + 1 /\ offered' \subseteq offered \cup {seq + 1}
      BY <3>1, <3>2, <3>4, <1>a, <1>b
    <3> QED
      BY <3>1, <3>3, <3>4
  <2> QED
    BY <1>2, <2>3, <2>4, <2>5, <1>a DEF SendFileClip, Work, worldVars
<1>3. CASE FlushOne
  <2>1. out' \in Seq(Jobs)
    BY <1>3, <1>d, Heads DEF FlushOne
  <2>2. pending' \in Seq(Jobs)
    BY <1>3, <1>a DEF FlushOne
  <2> QED
    BY <1>3, <1>a, <2>1, <2>2 DEF FlushOne, Work, workVars, worldVars, histVars
<1>4. CASE HandleUpload
  <2>1. Head(results).what \in Jobs
    BY <1>4, Heads DEF HandleUpload, TakeResult, Uploads
  <2>2. out' \in Seq(Jobs) /\ pending' \in Seq(Jobs)
    <3>1. Append(pending, Head(results).what) \in Seq(Jobs)
      BY <2>1, <1>g
    <3>2. \/ UNCHANGED <<out, pending>>
          \/ UNCHANGED out /\ pending' = Append(pending, Head(results).what)
          \/ Advertise(Head(results).what) /\ UNCHANGED pending
      BY <1>4 DEF HandleUpload
    <3> QED
      BY <3>1, <3>2, <1>a, <1>d, <2>1
  <2>3. results' \in Seq(Uploads \cup Serves \cup Pulls)
    BY <1>4, <1>f DEF HandleUpload
  <2> QED
    BY <1>4, <1>a, <2>2, <2>3 DEF HandleUpload, Work, workVars, worldVars, histVars
<1>5. CASE HandleServe
  <2>1. results' \in Seq(Uploads \cup Serves \cup Pulls)
    BY <1>5, <1>f DEF HandleServe
  <2> QED
    BY <1>5, <1>a, <2>1 DEF HandleServe, Work, workVars, worldVars, histVars
<1>6. CASE HandlePull
  <2>1. results' \in Seq(Uploads \cup Serves \cup Pulls)
    BY <1>6, <1>f DEF HandlePull
  <2> QED
    BY <1>6, <1>a, <2>1 DEF HandlePull, Work, workVars, worldVars, histVars
<1>7. ASSUME NEW p \in Large, EditFile(p) PROVE Work'
  <2>1. disk' \in [Paths -> 0..MaxEdits]
    <3>1. p \in Paths /\ disk[p] \in Nat /\ disk[p] + 1 \in 0..MaxEdits
      BY <1>7, <1>a, EngineConstants DEF EditFile
    <3>2. disk' = [disk EXCEPT ![p] = disk[p] + 1]
      BY <1>7 DEF EditFile
    <3> QED
      BY <3>1, <3>2, <1>a
  <2> QED
    BY <1>7, <1>a, <2>1 DEF EditFile, Work, workVars, histVars
<1>8. ASSUME NEW c \in Clips, HandleIncomingBlob(c) PROVE Work'
  BY <1>8, <1>a DEF HandleIncomingBlob, Work, worldVars, histVars
<1>9. ASSUME NEW i \in DOMAIN out, HandleBlobRequest(out[i]) PROVE Work'
  <2>1. out[i] \in Jobs
    BY <1>a
  <2>2. out[i].id \in Ids /\ (out[i].onDemand => out[i].val \in Paths)
    BY <2>1 DEF Jobs
  <2>3. out[i].onDemand /\ out[i].val \in Paths
    BY <1>9, <2>2 DEF HandleBlobRequest
  <2>4. <<out[i].val, disk[out[i].val]>> \in Ids
    BY <2>3, <1>a, <1>c, EngineConstants DEF Ids
  <2>5. serving' \subseteq [id : Ids, bytes : Ids]
    <3> DEFINE b == IF E2E THEN out[i].id ELSE <<out[i].val, disk[out[i].val]>>
    <3>1. b \in Ids
      BY <2>2, <2>4
    <3> HIDE DEF b
    <3>2. [id |-> out[i].id, bytes |-> b] \in [id : Ids, bytes : Ids]
      BY <2>2, <3>1
    <3>3. serving' = serving \cup {[id |-> out[i].id, bytes |-> b]}
      BY <1>9 DEF HandleBlobRequest, b
    <3> QED
      BY <3>2, <3>3, <1>a
  <2> QED
    BY <1>9, <1>a, <2>5 DEF HandleBlobRequest, Work, worldVars, histVars
<1>10. ASSUME NEW ok \in BOOLEAN, NEW j \in uploading, UploadDone(j, ok) PROVE Work'
  <2>1. [op |-> "upload", ok |-> ok, what |-> j] \in Uploads
    BY <1>a DEF Uploads
  <2>2. results' \in Seq(Uploads \cup Serves \cup Pulls)
    BY <1>10, <1>e, <2>1 DEF UploadDone
  <2>3. j.seq \in 1..seq
    BY DEF Apart, UploadsApart
  <2>4. done' \subseteq done \cup {j.seq} /\ uploading' = uploading \ {j}
        /\ UNCHANGED <<seq, offered, pulling, pending, out, serving, disk>>
    BY <1>10 DEF UploadDone
  <2> QED
    BY <1>a, <2>2, <2>3, <2>4 DEF Work
<1>11. ASSUME NEW ok \in BOOLEAN, NEW s \in serving, ServeDone(s, ok) PROVE Work'
  <2>1. [op |-> "serve", ok |-> ok, what |-> s.id] \in Serves
    BY <1>a DEF Serves
  <2>2. results' \in Seq(Uploads \cup Serves \cup Pulls)
    BY <1>11, <1>e, <2>1 DEF ServeDone
  <2> QED
    BY <1>11, <1>a, <2>2 DEF ServeDone, Work, histVars
<1>12. ASSUME NEW ok \in BOOLEAN, NEW c \in pulling, PullDone(c, ok) PROVE Work'
  <2>1. [op |-> "pull", ok |-> ok, what |-> c] \in Pulls
    BY <1>a DEF Pulls
  <2>2. results' \in Seq(Uploads \cup Serves \cup Pulls)
    BY <1>12, <1>e, <2>1 DEF PullDone
  <2> QED
    BY <1>12, <1>a, <2>2 DEF PullDone, Work, worldVars, histVars
<1>13. CASE UNCHANGED <<seq, done, offered, uploading, pulling, results, pending, out, serving, disk>>
  BY <1>13, <1>a DEF Work
<1> QED
  BY <1>1, <1>2, <1>3, <1>4, <1>5, <1>6, <1>7, <1>8, <1>9, <1>10, <1>11, <1>12, <1>13, WorkFrame

(* ---------------------------------------------------------------------- *)
(* The ring of holds                                                       *)
(* ---------------------------------------------------------------------- *)

\* hold_on_demand appends a new id and drops at most the oldest.
LEMMA Grow ==
    ASSUME order \in Seq(Ids), Len(order) <= MaxHolds, held = Range(order),
           NEW id \in Ids, id \notin held, HoldOnDemand(id)
    PROVE  /\ order' \in Seq(Ids) /\ held' = Range(order')
           /\ \E d \in {0, 1} :
                /\ d = 1 <=> Len(order) = MaxHolds
                /\ Len(order') = Len(order) + 1 - d
                /\ \A i \in 1..Len(order') : order'[i] = IF i + d <= Len(order) THEN order[i + d] ELSE id
<1> DEFINE grown == Append(order, id)
           kept == IF Len(grown) > MaxHolds
                   THEN SubSeq(grown, Len(grown) - MaxHolds + 1, Len(grown)) ELSE grown
<1>1. order' = kept /\ held' = (held \cup {id}) \ (Range(grown) \ Range(kept))
  BY DEF HoldOnDemand
<1>2. /\ grown \in Seq(Ids) /\ Len(grown) = Len(order) + 1
      /\ \A i \in 1..Len(grown) : grown[i] = IF i <= Len(order) THEN order[i] ELSE id
  <2> HIDE DEF Ids
  <2> QED
    OBVIOUS
<1> HIDE DEF grown, Ids
<1>3. Range(grown) = held \cup {id}
  <2>1. DOMAIN grown = 1..(Len(order) + 1) /\ DOMAIN order = 1..Len(order) /\ Len(order) \in Nat
    BY <1>2
  <2>2. grown[Len(order) + 1] = id /\ \A i \in DOMAIN order : i \in DOMAIN grown /\ grown[i] = order[i]
    BY <2>1, <1>2
  <2>3. \A i \in DOMAIN grown : i \in DOMAIN order \/ i = Len(order) + 1
    BY <2>1
  <2> QED
    BY <2>1, <2>2, <2>3 DEF Range
<1>4. CASE Len(order) = MaxHolds
  <2>0. Len(grown) = MaxHolds + 1 /\ MaxHolds \in Nat \ {0}
    BY <1>2, <1>4, EngineConstants
  <2>1. kept = SubSeq(grown, 2, Len(grown))
    BY <2>0
  <2> HIDE DEF kept
  <2>2. /\ kept \in Seq(Ids) /\ Len(kept) = Len(order)
        /\ \A i \in 1..Len(kept) : kept[i] = grown[i + 1]
    BY <1>2, <2>0, <2>1
  <2>3. Range(kept) \subseteq Range(grown)
    BY <1>2, <2>2 DEF Range
  <2>4. order' \in Seq(Ids) /\ held' = Range(order')
    BY <1>1, <1>3, <2>2, <2>3
  <2>5. \A i \in 1..Len(order') : order'[i] = IF i + 1 <= Len(order) THEN order[i + 1] ELSE id
    BY <1>1, <1>2, <2>2
  <2> QED
    BY <1>1, <1>4, <2>2, <2>4, <2>5
<1>5. CASE Len(order) # MaxHolds
  <2>1. kept = grown
    BY <1>2, <1>5, EngineConstants
  <2> HIDE DEF kept
  <2>2. order' \in Seq(Ids) /\ held' = Range(order')
    BY <1>1, <1>2, <1>3, <2>1
  <2>3. \A i \in 1..Len(order') : order'[i] = IF i + 0 <= Len(order) THEN order[i + 0] ELSE id
    BY <1>1, <1>2, <2>1
  <2>4. Len(order') = Len(order) + 1 - 0
    BY <1>1, <1>2, <2>1
  <2> QED
    BY <1>5, <2>2, <2>3, <2>4
<1> QED
  BY <1>4, <1>5

\* retain drops one id and keeps the rest in order.
LEMMA Shrink ==
    ASSUME order \in Seq(Ids), held = Range(order), NEW id \in held,
           \A i, k \in DOMAIN order : order[i] = order[k] => i = k
    PROVE  /\ Retain(id) \in Seq(Ids) /\ Range(Retain(id)) = held \ {id}
           /\ Len(Retain(id)) = Len(order) - 1
           /\ \E n \in DOMAIN order :
                \A k \in 1..(Len(order) - 1) : Retain(id)[k] = IF k < n THEN order[k] ELSE order[k + 1]
<1> DEFINE n == CHOOSE i \in DOMAIN order : order[i] = id
           a == SubSeq(order, 1, n - 1)
           b == SubSeq(order, n + 1, Len(order))
<1>1. n \in DOMAIN order /\ order[n] = id
  BY DEF Range
<1> HIDE DEF n, Ids
<1>2. n \in 1..Len(order) /\ Len(order) \in Nat
  BY <1>1
<1>3. /\ a \in Seq(Ids) /\ Len(a) = n - 1 /\ \A k \in 1..(n - 1) : a[k] = order[k]
  BY <1>2
<1>4. /\ b \in Seq(Ids) /\ Len(b) = Len(order) - n
      /\ \A k \in 1..(Len(order) - n) : b[k] = order[k + n]
  BY <1>2
<1>5. Retain(id) = a \o b
  BY DEF Retain, RemoveAt, n
<1> HIDE DEF a, b
<1>6. Retain(id) \in Seq(Ids) /\ Len(Retain(id)) = Len(order) - 1
  BY <1>2, <1>3, <1>4, <1>5
<1>7. \A k \in 1..(Len(order) - 1) : Retain(id)[k] = IF k < n THEN a[k] ELSE b[k - (n - 1)]
  BY <1>2, <1>3, <1>4, <1>5
<1>8. \A k \in 1..(Len(order) - 1) : Retain(id)[k] = IF k < n THEN order[k] ELSE order[k + 1]
  BY <1>2, <1>3, <1>4, <1>7
<1>9. Range(Retain(id)) = held \ {id}
  <2>1. ASSUME NEW x \in Range(Retain(id)) PROVE x \in held \ {id}
    <3>1. PICK k \in 1..(Len(order) - 1) : x = Retain(id)[k]
      BY <2>1, <1>6 DEF Range
    <3>2. PICK i \in DOMAIN order : i # n /\ x = order[i]
      BY <3>1, <1>8, <1>2
    <3> QED
      BY <3>2, <1>1 DEF Range
  <2>2. ASSUME NEW x \in held \ {id} PROVE x \in Range(Retain(id))
    <3>1. PICK i \in 1..Len(order) : x = order[i]
      BY DEF Range
    <3>2. i # n
      BY <3>1, <1>1
    <3>3. \E k \in 1..(Len(order) - 1) : Retain(id)[k] = x
      <4>1. CASE i < n
        BY <4>1, <3>1, <1>2, <1>8
      <4>2. CASE i > n
        <5>1. i - 1 \in 1..(Len(order) - 1) /\ ~(i - 1 < n) /\ (i - 1) + 1 = i
          BY <4>2, <1>2
        <5> QED
          BY <5>1, <3>1, <1>8
      <4> QED
        BY <3>2, <4>1, <4>2, <1>2
    <3> QED
      BY <3>3, <1>6 DEF Range
  <2> QED
    BY <2>1, <2>2
<1> QED
  BY <1>1, <1>6, <1>8, <1>9

\* Every step keeps the map of holds and the order together.
LEMMA HoldStep ==
    ASSUME TypeInv, Holds, Next
    PROVE  Holds'
<1>a. /\ order \in Seq(Ids) /\ Len(order) <= MaxHolds /\ held = Range(order)
      /\ \A i, k \in DOMAIN order : order[i] = order[k] => i = k
      /\ \A i \in DOMAIN order : order[i][1] \in Paths /\ order[i][2] \in 0..(seq + MaxEdits)
  BY DEF Holds
<1>b. seq \in Nat /\ MaxEdits \in Nat /\ MaxHolds \in Nat \ {0} /\ 0..(seq + MaxEdits) \subseteq 0..(seq + 1 + MaxEdits)
  BY EngineConstants DEF TypeInv, Work
<1>c. ASSUME UNCHANGED <<held, order>>, seq' \in {seq, seq + 1} PROVE Holds'
  BY <1>a, <1>b, <1>c DEF Holds
<1>1. CASE HandleCmd
  <2>1. seq' \in {seq, seq + 1}
    <3>1. Head(cmds) \in Commands
      BY <1>1, Heads DEF HandleCmd
    <3>2. Head(cmds).kind \in Formats
      BY <3>1 DEF Commands
    <3> QED
      BY <1>1, <3>2 DEF HandleCmd, Skip, SendTextClip, SpawnImageClip, Formats
  <2> QED
    BY <1>1, <2>1, <1>c DEF HandleCmd, holdVars
<1>2. CASE SendFileClip
  <2> DEFINE p == Head(batch).val
             id == BlobId(p, seq + 1)
  <2>1. CASE UNCHANGED <<held, order>>
    BY <1>2, <2>1, <1>c DEF SendFileClip
  <2>2. CASE ~UNCHANGED <<held, order>>
    <3>1. HoldOnDemand(id) /\ seq' = seq + 1 /\ id \notin held
      BY <1>2, <2>2 DEF SendFileClip, HoldOnDemand, holdVars
    <3>2. p \in Paths /\ p \in Values
      BY <1>2, Heads DEF SendFileClip, Values
    <3>3. id \in Ids
      BY <3>2, <1>b, BlobIdType
    <3>4. id[1] \in Paths /\ id[2] \in 0..(seq + 1 + MaxEdits)
      <4>1. disk[p] \in 0..MaxEdits
        BY <3>2 DEF TypeInv, Work
      <4> QED
        BY <4>1, <3>2, <1>b DEF BlobId
    <3> HIDE DEF id, p
    <3>5. order' \in Seq(Ids) /\ held' = Range(order')
      BY <1>a, <3>1, <3>3, Grow
    <3>6. PICK d \in {0, 1} :
             /\ d = 1 <=> Len(order) = MaxHolds
             /\ Len(order') = Len(order) + 1 - d
             /\ \A i \in 1..Len(order') : order'[i] = IF i + d <= Len(order) THEN order[i + d] ELSE id
      BY <1>a, <3>1, <3>3, Grow
    <3>7. DOMAIN order = 1..Len(order) /\ DOMAIN order' = 1..Len(order') /\ Len(order) \in Nat
      BY <1>a, <3>5
    <3>8. Len(order') <= MaxHolds
      BY <3>6, <3>7, <1>a, <1>b
    <3>9. \A i \in DOMAIN order : order[i] # id
      BY <3>1, <1>a DEF Range
    <3>10. ASSUME NEW i \in DOMAIN order', NEW k \in DOMAIN order', order'[i] = order'[k] PROVE i = k
      <4>1. \A m \in DOMAIN order' : m + d <= Len(order) => m + d \in DOMAIN order
        BY <3>7
      <4>2. i + d <= Len(order) <=> k + d <= Len(order)
        BY <4>1, <3>6, <3>7, <3>9, <3>10
      <4>3. CASE i + d <= Len(order)
        <5>1. order[i + d] = order[k + d]
          BY <4>2, <4>3, <3>6, <3>7, <3>10
        <5>2. i + d = k + d
          BY <5>1, <4>1, <4>2, <4>3, <1>a
        <5> QED
          BY <5>2, <3>7
      <4>4. CASE ~(i + d <= Len(order))
        BY <4>2, <4>4, <3>6, <3>7
      <4> QED
        BY <4>3, <4>4
    <3>11. ASSUME NEW i \in DOMAIN order'
           PROVE  order'[i][1] \in Paths /\ order'[i][2] \in 0..(seq' + MaxEdits)
      <4>1. CASE i + d <= Len(order)
        <5>1. order'[i] = order[i + d] /\ i + d \in DOMAIN order
          BY <4>1, <3>6, <3>7
        <5>2. order[i + d][1] \in Paths /\ order[i + d][2] \in 0..(seq + MaxEdits)
          BY <5>1, <1>a
        <5> QED
          BY <5>1, <5>2, <3>1, <1>b
      <4>2. CASE ~(i + d <= Len(order))
        BY <4>2, <3>1, <3>4, <3>6, <3>7
      <4> QED
        BY <4>1, <4>2
    <3> QED
      BY <3>5, <3>8, <3>10, <3>11 DEF Holds
  <2> QED
    BY <2>1, <2>2
<1>3. CASE HandleServe
  <2>1. CASE UNCHANGED <<held, order>>
    BY <1>3, <2>1, <1>c DEF HandleServe
  <2>2. CASE ~UNCHANGED <<held, order>>
    <3> DEFINE id == Head(results).what
    <3>1. id \in held /\ held' = held \ {id} /\ order' = Retain(id) /\ seq' = seq
      BY <1>3, <2>2 DEF HandleServe, holdVars
    <3> HIDE DEF id
    <3>2. order' \in Seq(Ids) /\ held' = Range(order') /\ Len(order') = Len(order) - 1
      BY <1>a, <3>1, Shrink
    <3>3. PICK n \in DOMAIN order :
             \A k \in 1..(Len(order) - 1) : order'[k] = IF k < n THEN order[k] ELSE order[k + 1]
      BY <1>a, <3>1, Shrink
    <3>4. DOMAIN order = 1..Len(order) /\ DOMAIN order' = 1..(Len(order) - 1) /\ Len(order) \in Nat
      BY <1>a, <3>2
    <3> DEFINE at(k) == IF k < n THEN k ELSE k + 1
    <3>5. \A k \in DOMAIN order' : at(k) \in DOMAIN order /\ order'[k] = order[at(k)]
      BY <3>3, <3>4
    <3>6. \A i, k \in DOMAIN order' : at(i) = at(k) => i = k
      BY <3>3, <3>4
    <3> HIDE DEF at
    <3>7. Len(order') <= MaxHolds
      BY <3>2, <3>4, <1>a, <1>b
    <3>8. \A i, k \in DOMAIN order' : order'[i] = order'[k] => i = k
      BY <3>5, <3>6, <1>a
    <3>9. \A i \in DOMAIN order' : order'[i][1] \in Paths /\ order'[i][2] \in 0..(seq' + MaxEdits)
      BY <3>1, <3>5, <1>a
    <3> QED
      BY <3>2, <3>7, <3>8, <3>9 DEF Holds
  <2> QED
    BY <2>1, <2>2
<1>4. CASE UNCHANGED <<held, order, seq>>
  BY <1>4, <1>c
<1>5. CASE \/ FlushOne \/ HandleUpload \/ HandlePull
           \/ \E p \in Large : EditFile(p)
           \/ \E c \in Clips : HandleIncomingBlob(c)
           \/ \E i \in DOMAIN out : HandleBlobRequest(out[i])
           \/ \E ok \in BOOLEAN : \/ \E j \in uploading : UploadDone(j, ok)
                                  \/ \E s \in serving : ServeDone(s, ok)
                                  \/ \E c \in pulling : PullDone(c, ok)
  BY <1>4, <1>5 DEF FlushOne, HandleUpload, HandlePull, EditFile, HandleIncomingBlob, HandleBlobRequest,
     UploadDone, ServeDone, PullDone, holdVars
<1> QED
  BY <1>1, <1>2, <1>3, <1>4, <1>5, WorkFrame

\* Map and order have as many ids as each other.
LEMMA HoldCount ==
    ASSUME Holds
    PROVE  HoldsAgree
<1>1. /\ order \in Seq(Ids) /\ held = Range(order)
      /\ \A i, k \in DOMAIN order : order[i] = order[k] => i = k
  BY DEF Holds
<1>2. DOMAIN order = 1..Len(order) /\ Len(order) \in Nat
  BY <1>1
<1>3. order \in Bijection(1..Len(order), held)
  <2>1. order \in [1..Len(order) -> held]
    BY <1>1, <1>2 DEF Range
  <2>2. order \in Injection(1..Len(order), held)
    BY <1>1, <1>2, <2>1 DEF Injection, IsInjective
  <2>3. order \in Surjection(1..Len(order), held)
    BY <1>1, <1>2, <2>1 DEF Surjection, Range
  <2> QED
    BY <2>2, <2>3 DEF Bijection
<1>4. Cardinality(held) = Len(order)
  <2>0. ASSUME NEW n \in Nat PROVE IsFiniteSet(1..n) /\ Cardinality(1..n) = n
    BY FS_Interval
  <2>1. IsFiniteSet(1..Len(order)) /\ Cardinality(1..Len(order)) = Len(order)
    BY <1>2, <2>0
  <2>2. ExistsBijection(1..Len(order), held)
    BY <1>3 DEF ExistsBijection
  <2> QED
    BY <2>1, <2>2, FS_Bijection
<1> QED
  BY <1>1, <1>4 DEF Holds, HoldsAgree

(* ---------------------------------------------------------------------- *)
(* Uploads                                                                 *)
(* ---------------------------------------------------------------------- *)

\* Sequences after Append and Tail, position by position.
LEMMA Positions ==
    ASSUME NEW S, NEW s \in Seq(S)
    PROVE  /\ DOMAIN s = 1..Len(s) /\ Len(s) \in Nat
           /\ \A x \in S : /\ DOMAIN Append(s, x) = 1..(Len(s) + 1)
                           /\ Append(s, x)[Len(s) + 1] = x
                           /\ \A i \in 1..Len(s) : Append(s, x)[i] = s[i]
           /\ s # <<>> => /\ 1 \in DOMAIN s /\ Head(s) = s[1]
                          /\ DOMAIN Tail(s) = 1..(Len(s) - 1)
                          /\ \A i \in 1..(Len(s) - 1) : Tail(s)[i] = s[i + 1]
OBVIOUS

\* A clip with a fresh number is handed to a socket.
LEMMA FreshOut ==
    ASSUME TypeInv, Apart, Kept, NEW x \in Jobs,
           seq' = seq + 1, x.seq = seq + 1, x.kind = "text" \/ x.onDemand, out' = Append(out, x),
           UNCHANGED <<done, uploading, results, pending>>
    PROVE  Apart' /\ Kept'
<1>a. seq \in Nat /\ done \subseteq 1..seq /\ out \in Seq(Jobs)
  BY DEF TypeInv, Work
<1>b. /\ DOMAIN out' = 1..(Len(out) + 1) /\ DOMAIN out = 1..Len(out) /\ Len(out) \in Nat
      /\ out'[Len(out) + 1] = x /\ \A i \in 1..Len(out) : out'[i] = out[i]
  BY <1>a, Positions
<1>c. \A s : InOut(s)' <=> InOut(s) \/ s = seq + 1
  BY <1>b DEF InOut
<1>d. \A s : (InResults(s)' <=> InResults(s)) /\ (InPending(s)' <=> InPending(s))
  BY DEF InResults, InPending
<1>e. \A s \in 1..seq : s # seq + 1 /\ s \in 1..(seq + 1)
  BY <1>a
<1>1. UploadsApart'
  BY <1>c, <1>d, <1>e DEF Apart, UploadsApart
<1>2. ResultsApart'
  BY <1>c, <1>d, <1>e DEF Apart, ResultsApart
<1>3. PendingApart'
  BY <1>a, <1>c, <1>e DEF Apart, PendingApart
<1>4. OutApart'
  <2>1. \A i \in DOMAIN out : out[i].seq \in 1..seq /\ out[i].seq # seq + 1
    BY <1>e DEF Apart, OutApart
  <2>2. \A i \in DOMAIN out' : out'[i].seq \in 1..seq'
    BY <1>a, <1>b, <1>e, <2>1
  <2>3. \A i, k \in DOMAIN out' : out'[i].seq = out'[k].seq => i = k
    BY <1>b, <2>1 DEF Apart, OutApart
  <2> QED
    BY <2>2, <2>3 DEF OutApart
<1>5. Kept'
  BY <1>b, <1>c, <1>d DEF Kept
<1> QED
  BY <1>1, <1>2, <1>3, <1>4, <1>5 DEF Apart

\* A clip with a fresh number, or none, is given to a worker.
LEMMA FreshUpload ==
    ASSUME TypeInv, Apart, Kept, NEW x \in Jobs, x.seq = seq + 1,
           \/ UNCHANGED uploading /\ seq' \in {seq, seq + 1}
           \/ uploading' = uploading \cup {x} /\ seq' = seq + 1,
           UNCHANGED <<done, results, pending, out>>
    PROVE  Apart' /\ Kept'
<1>a. seq \in Nat /\ done \subseteq 1..seq
  BY DEF TypeInv, Work
<1>b. 1..seq \subseteq 1..seq' /\ (uploading' # uploading => seq + 1 \in 1..seq')
  BY <1>a
<1>c. \A s : /\ InResults(s)' <=> InResults(s)
             /\ InPending(s)' <=> InPending(s)
             /\ InOut(s)' <=> InOut(s)
  BY DEF InResults, InPending, InOut
<1>d. \A s \in 1..seq : s # seq + 1
  BY <1>a
<1>e. ~InResults(seq + 1) /\ ~InPending(seq + 1) /\ ~InOut(seq + 1) /\ seq + 1 \notin done
  <2>1. ~InResults(seq + 1)
    BY <1>d DEF Apart, ResultsApart, InResults
  <2>2. ~InPending(seq + 1)
    BY <1>a, <1>d DEF Apart, PendingApart, InPending
  <2>3. ~InOut(seq + 1)
    BY <1>d DEF Apart, OutApart, InOut
  <2> QED
    BY <2>1, <2>2, <2>3, <1>a, <1>d
<1>1. UploadsApart'
  <2>1. ASSUME NEW j \in uploading'
        PROVE  j.seq \in (1..seq') \ done' /\ ~InResults(j.seq)' /\ ~InPending(j.seq)' /\ ~InOut(j.seq)'
    <3>1. CASE j \in uploading
      BY <3>1, <1>b, <1>c DEF Apart, UploadsApart
    <3>2. CASE j \notin uploading
      BY <3>2, <1>b, <1>c, <1>e
    <3> QED
      BY <3>1, <3>2
  <2>2. \A j \in uploading : j.seq \in 1..seq
    BY DEF Apart, UploadsApart
  <2>3. \A j, k \in uploading' : j.seq = k.seq => j = k
    BY <2>2, <1>d DEF Apart, UploadsApart
  <2> QED
    BY <2>1, <2>3 DEF UploadsApart
<1>2. ResultsApart' /\ PendingApart'
  BY <1>b, <1>c DEF Apart, ResultsApart, PendingApart
<1>3. OutApart'
  BY <1>b DEF Apart, OutApart
<1>4. Kept'
  BY <1>c DEF Kept
<1> QED
  BY <1>1, <1>2, <1>3, <1>4 DEF Apart

\* The result of a download or of a request is put into the channel.
LEMMA OtherResult ==
    ASSUME TypeInv, Apart, Kept, NEW r \in Serves \cup Pulls, results' = Append(results, r),
           UNCHANGED <<seq, done, uploading, pending, out>>
    PROVE  Apart' /\ Kept'
<1>a. results \in Seq(Uploads \cup Serves \cup Pulls)
  BY DEF TypeInv, Work
<1>b. /\ DOMAIN results' = 1..(Len(results) + 1) /\ DOMAIN results = 1..Len(results) /\ Len(results) \in Nat
      /\ results'[Len(results) + 1] = r /\ \A i \in 1..Len(results) : results'[i] = results[i]
  BY <1>a, Positions
<1>c. r.op # "upload"
  BY DEF Serves, Pulls
<1>d. \A i \in DOMAIN results' : results'[i].op = "upload" => i \in DOMAIN results /\ results'[i] = results[i]
  BY <1>b, <1>c
<1>e. \A s : /\ InResults(s)' <=> InResults(s)
             /\ InPending(s)' <=> InPending(s)
             /\ InOut(s)' <=> InOut(s)
  BY <1>b, <1>d DEF InResults, InPending, InOut
<1>1. UploadsApart' /\ PendingApart' /\ OutApart'
  BY <1>e DEF Apart, UploadsApart, PendingApart, OutApart
<1>2. ResultsApart'
  BY <1>d, <1>e DEF Apart, ResultsApart
<1>3. Kept'
  BY <1>e DEF Kept
<1> QED
  BY <1>1, <1>2, <1>3 DEF Apart

\* An upload ends.
LEMMA EndUpload ==
    ASSUME TypeInv, Apart, Kept, NEW j \in uploading, NEW ok \in BOOLEAN, uploading' = uploading \ {j},
           results' = Append(results, [op |-> "upload", ok |-> ok, what |-> j]),
           done' = IF ok THEN done \cup {j.seq} ELSE done,
           UNCHANGED <<seq, pending, out>>
    PROVE  Apart' /\ Kept'
<1> DEFINE r == [op |-> "upload", ok |-> ok, what |-> j]
<1>a. results \in Seq(Uploads \cup Serves \cup Pulls) /\ r \in Uploads
  BY DEF TypeInv, Work, Uploads
<1>b. /\ DOMAIN results' = 1..(Len(results) + 1) /\ DOMAIN results = 1..Len(results) /\ Len(results) \in Nat
      /\ results'[Len(results) + 1] = r /\ \A i \in 1..Len(results) : results'[i] = results[i]
  BY <1>a, Positions
<1>c. r.op = "upload" /\ r.what = j /\ r.ok = ok
  OBVIOUS
<1> HIDE DEF r
<1>d. /\ j.seq \in (1..seq) \ done /\ ~InResults(j.seq) /\ ~InPending(j.seq) /\ ~InOut(j.seq)
      /\ \A k \in uploading' : k.seq # j.seq
  BY DEF Apart, UploadsApart
<1>e. \A s : /\ InResults(s)' <=> InResults(s) \/ s = j.seq
             /\ InPending(s)' <=> InPending(s)
             /\ InOut(s)' <=> InOut(s)
  BY <1>b, <1>c DEF InResults, InPending, InOut
<1>1. UploadsApart'
  BY <1>d, <1>e DEF Apart, UploadsApart
<1>2. ResultsApart'
  <2>1. \A i \in DOMAIN results : results[i].op = "upload" => results[i].what.seq # j.seq
    BY <1>d DEF InResults
  <2>2. ASSUME NEW i \in DOMAIN results', results'[i].op = "upload"
        PROVE  /\ results'[i].what.seq \in 1..seq' /\ (results'[i].ok <=> results'[i].what.seq \in done')
               /\ ~InPending(results[i].what.seq)' /\ ~InOut(results[i].what.seq)'
    <3>1. CASE i \in DOMAIN results
      <4>1. results'[i] = results[i] /\ results[i].op = "upload"
        BY <2>2, <3>1, <1>b
      <4>2. /\ results[i].what.seq \in 1..seq /\ (results[i].ok <=> results[i].what.seq \in done)
            /\ ~InPending(results[i].what.seq) /\ ~InOut(results[i].what.seq)
        BY <4>1, <3>1 DEF Apart, ResultsApart
      <4>3. results[i].what.seq \in done' <=> results[i].what.seq \in done
        BY <4>1, <3>1, <2>1
      <4> QED
        BY <4>1, <4>2, <4>3, <1>e
    <3>2. CASE i \notin DOMAIN results
      <4>1. results'[i] = r
        BY <3>2, <1>b
      <4>2. ok <=> j.seq \in done'
        BY <1>d
      <4> QED
        BY <4>1, <4>2, <1>c, <1>d, <1>e
    <3> QED
      BY <3>1, <3>2
  <2>3. \A i, k \in DOMAIN results' : (results'[i].op = "upload" /\ results'[k].op = "upload"
                                       /\ results'[i].what.seq = results'[k].what.seq) => i = k
    BY <2>1, <1>b, <1>c DEF Apart, ResultsApart
  <2> QED
    BY <2>2, <2>3 DEF ResultsApart
<1>3. PendingApart' /\ OutApart'
  BY <1>e DEF Apart, PendingApart, OutApart
<1>4. Kept'
  BY <1>e DEF Kept
<1> QED
  BY <1>1, <1>2, <1>3, <1>4 DEF Apart

\* The loop takes a result that is not an upload, or a failed one.
LEMMA DropResult ==
    ASSUME TypeInv, Apart, Kept, results # <<>>, results' = Tail(results),
           Head(results).op = "upload" => ~Head(results).ok,
           UNCHANGED <<seq, done, uploading, pending, out>>
    PROVE  Apart' /\ Kept'
<1>a. results \in Seq(Uploads \cup Serves \cup Pulls)
  BY DEF TypeInv, Work
<1>b. /\ DOMAIN results' = 1..(Len(results) - 1) /\ DOMAIN results = 1..Len(results) /\ Len(results) \in Nat
      /\ 1 \in DOMAIN results /\ Head(results) = results[1]
      /\ \A i \in 1..(Len(results) - 1) : results'[i] = results[i + 1]
  BY <1>a, Positions
<1>c. \A i \in DOMAIN results' : i + 1 \in DOMAIN results /\ results'[i] = results[i + 1]
  BY <1>b
<1>d. \A i \in DOMAIN results : i # 1 => i - 1 \in DOMAIN results' /\ results'[i - 1] = results[i]
  BY <1>b
<1>e. \A s : /\ InResults(s)' => InResults(s)
             /\ (InResults(s) /\ s \in done => InResults(s)')
             /\ InPending(s)' <=> InPending(s)
             /\ InOut(s)' <=> InOut(s)
  <2>1. \A s : InResults(s)' => InResults(s)
    BY <1>c DEF InResults
  <2>2. ASSUME NEW s \in done, InResults(s) PROVE InResults(s)'
    <3>1. PICK i \in DOMAIN results : results[i].op = "upload" /\ results[i].what.seq = s
      BY <2>2 DEF InResults
    <3>2. i # 1
      BY <3>1, <1>b DEF Apart, ResultsApart
    <3> QED
      BY <3>1, <3>2, <1>d DEF InResults
  <2> QED
    BY <2>1, <2>2 DEF InPending, InOut
<1>1. UploadsApart' /\ PendingApart' /\ OutApart'
  BY <1>e DEF Apart, UploadsApart, PendingApart, OutApart
<1>2. ResultsApart'
  <2>1. \A i, k \in DOMAIN results' : i + 1 = k + 1 => i = k
    BY <1>b
  <2> QED
    BY <2>1, <1>c, <1>e DEF Apart, ResultsApart
<1>3. Kept'
  BY <1>e DEF Kept
<1> QED
  BY <1>1, <1>2, <1>3 DEF Apart

\* The loop takes an upload that succeeded and stashes it, or hands it to the socket.
LEMMA TakeUpload ==
    ASSUME TypeInv, Apart, Kept, results # <<>>, results' = Tail(results),
           Head(results).op = "upload", Head(results).ok, NEW x \in Jobs, x.seq = Head(results).what.seq,
           \/ pending' = Append(pending, x) /\ UNCHANGED out
           \/ out' = Append(out, x) /\ UNCHANGED pending,
           UNCHANGED <<seq, done, uploading>>
    PROVE  Apart' /\ Kept'
<1>a. results \in Seq(Uploads \cup Serves \cup Pulls) /\ pending \in Seq(Jobs) /\ out \in Seq(Jobs)
  BY DEF TypeInv, Work
<1>b. /\ DOMAIN results' = 1..(Len(results) - 1) /\ DOMAIN results = 1..Len(results) /\ Len(results) \in Nat
      /\ 1 \in DOMAIN results /\ Head(results) = results[1]
      /\ \A i \in 1..(Len(results) - 1) : results'[i] = results[i + 1]
  BY <1>a, Positions
<1>c. \A i \in DOMAIN results' : i + 1 \in DOMAIN results /\ i + 1 # 1 /\ results'[i] = results[i + 1]
  BY <1>b
<1>d. \A i \in DOMAIN results : i # 1 => i - 1 \in DOMAIN results' /\ results'[i - 1] = results[i]
  BY <1>b
<1>e. x.seq \in 1..seq /\ x.seq \in done /\ ~InPending(x.seq) /\ ~InOut(x.seq)
      /\ \A i \in DOMAIN results : results[i].op = "upload" /\ i # 1 => results[i].what.seq # x.seq
  BY <1>b DEF Apart, ResultsApart
<1>f. InResults(x.seq)
  BY <1>b DEF InResults
<1>g. \A s : InResults(s)' <=> InResults(s) /\ s # x.seq
  <2>1. ASSUME NEW s, InResults(s)' PROVE InResults(s) /\ s # x.seq
    <3>1. PICK i \in DOMAIN results' : results'[i].op = "upload" /\ results'[i].what.seq = s
      BY <2>1 DEF InResults
    <3>2. i + 1 \in DOMAIN results /\ i + 1 # 1 /\ results[i + 1].op = "upload" /\ results[i + 1].what.seq = s
      BY <3>1, <1>c
    <3> QED
      BY <3>2, <1>e DEF InResults
  <2>2. ASSUME NEW s, InResults(s), s # x.seq PROVE InResults(s)'
    <3>1. PICK i \in DOMAIN results : results[i].op = "upload" /\ results[i].what.seq = s
      BY <2>2 DEF InResults
    <3>2. i # 1
      BY <3>1, <2>2, <1>b
    <3> QED
      BY <3>1, <3>2, <1>d DEF InResults
  <2> QED
    BY <2>1, <2>2
<1>h. /\ DOMAIN Append(pending, x) = 1..(Len(pending) + 1) /\ DOMAIN pending = 1..Len(pending) /\ Len(pending) \in Nat
      /\ Append(pending, x)[Len(pending) + 1] = x /\ \A i \in 1..Len(pending) : Append(pending, x)[i] = pending[i]
  BY <1>a, Positions
<1>i. /\ DOMAIN Append(out, x) = 1..(Len(out) + 1) /\ DOMAIN out = 1..Len(out) /\ Len(out) \in Nat
      /\ Append(out, x)[Len(out) + 1] = x /\ \A i \in 1..Len(out) : Append(out, x)[i] = out[i]
  BY <1>a, Positions
<1>j. \A s : InPending(s)' \/ InOut(s)' <=> InPending(s) \/ InOut(s) \/ s = x.seq
  <2>1. CASE pending' = Append(pending, x) /\ UNCHANGED out
    <3>1. \A s : InPending(s)' <=> InPending(s) \/ s = x.seq
      BY <2>1, <1>h DEF InPending
    <3>2. \A s : InOut(s)' <=> InOut(s)
      BY <2>1 DEF InOut
    <3> QED
      BY <3>1, <3>2
  <2>2. CASE out' = Append(out, x) /\ UNCHANGED pending
    <3>1. \A s : InOut(s)' <=> InOut(s) \/ s = x.seq
      BY <2>2, <1>i DEF InOut
    <3>2. \A s : InPending(s)' <=> InPending(s)
      BY <2>2 DEF InPending
    <3> QED
      BY <3>1, <3>2
  <2> QED
    BY <2>1, <2>2
<1>1. UploadsApart'
  BY <1>f, <1>g, <1>j DEF Apart, UploadsApart
<1>2. ResultsApart'
  <2>1. \A i, k \in DOMAIN results' : i + 1 = k + 1 => i = k
    BY <1>b
  <2>2. \A i, k \in DOMAIN results' : (results'[i].op = "upload" /\ results'[k].op = "upload"
                                       /\ results'[i].what.seq = results'[k].what.seq) => i = k
    BY <2>1, <1>c DEF Apart, ResultsApart
  <2>3. ASSUME NEW i \in DOMAIN results', results'[i].op = "upload"
        PROVE  /\ results'[i].what.seq \in 1..seq' /\ (results'[i].ok <=> results'[i].what.seq \in done')
               /\ ~InPending(results[i].what.seq)' /\ ~InOut(results[i].what.seq)'
    <3>1. results'[i] = results[i + 1] /\ i + 1 \in DOMAIN results /\ results[i + 1].op = "upload"
          /\ i + 1 # 1
      BY <2>3, <1>c
    <3>2. /\ results[i + 1].what.seq \in 1..seq /\ (results[i + 1].ok <=> results[i + 1].what.seq \in done)
          /\ ~InPending(results[i + 1].what.seq) /\ ~InOut(results[i + 1].what.seq)
          /\ results[i + 1].what.seq # x.seq
      BY <3>1, <1>e DEF Apart, ResultsApart
    <3> QED
      BY <3>1, <3>2, <1>j
  <2> QED
    BY <2>2, <2>3 DEF ResultsApart
<1>3. PendingApart' /\ OutApart' /\ Kept'
  <2>0. \A s : s \in done => InResults(s)' \/ InPending(s)' \/ InOut(s)'
    BY <1>g, <1>j DEF Kept
  <2>1. CASE pending' = Append(pending, x) /\ UNCHANGED out
    <3>1. \A s : InOut(s)' <=> InOut(s)
      BY <2>1 DEF InOut
    <3>2. \A i \in DOMAIN pending : pending[i].seq # x.seq
      BY <1>e DEF InPending
    <3>3. PendingApart'
      BY <2>1, <3>1, <3>2, <1>e, <1>h DEF Apart, PendingApart
    <3> QED
      BY <2>0, <2>1, <3>3 DEF Apart, OutApart, Kept
  <2>2. CASE out' = Append(out, x) /\ UNCHANGED pending
    <3>1. \A s : InOut(s)' <=> InOut(s) \/ s = x.seq
      BY <2>2, <1>i DEF InOut
    <3>2. \A i \in DOMAIN out : out[i].seq # x.seq
      BY <1>e DEF InOut
    <3>3. \A i \in DOMAIN pending : pending[i].seq # x.seq
      BY <1>e DEF InPending
    <3>4. PendingApart'
      BY <2>2, <3>1, <3>3 DEF Apart, PendingApart
    <3>5. OutApart'
      BY <2>2, <3>2, <1>e, <1>i DEF Apart, OutApart
    <3>6. Kept'
      BY <2>0, <2>2, <1>e, <1>i DEF Kept
    <3> QED
      BY <3>4, <3>5, <3>6
  <2> QED
    BY <2>1, <2>2
<1> QED
  BY <1>1, <1>2, <1>3 DEF Apart

\* A stashed upload is handed to the next socket.
LEMMA SendStashed ==
    ASSUME TypeInv, Apart, Kept, pending # <<>>, pending' = Tail(pending),
           NEW x \in Jobs, x.seq = Head(pending).seq, out' = Append(out, x),
           UNCHANGED <<seq, done, uploading, results>>
    PROVE  Apart' /\ Kept'
<1>a. pending \in Seq(Jobs) /\ out \in Seq(Jobs) /\ seq \in Nat /\ done \subseteq 1..seq
  BY DEF TypeInv, Work
<1>b. /\ DOMAIN pending' = 1..(Len(pending) - 1) /\ DOMAIN pending = 1..Len(pending) /\ Len(pending) \in Nat
      /\ 1 \in DOMAIN pending /\ Head(pending) = pending[1]
      /\ \A i \in 1..(Len(pending) - 1) : pending'[i] = pending[i + 1]
  BY <1>a, Positions
<1>c. \A i \in DOMAIN pending' : i + 1 \in DOMAIN pending /\ i + 1 # 1 /\ pending'[i] = pending[i + 1]
  BY <1>b
<1>d. \A i \in DOMAIN pending : i # 1 => i - 1 \in DOMAIN pending' /\ pending'[i - 1] = pending[i]
  BY <1>b
<1>e. /\ x.seq \in done /\ x.seq \in 1..seq /\ ~InOut(x.seq)
      /\ \A i \in DOMAIN pending : i # 1 => pending[i].seq # x.seq
  BY <1>a, <1>b DEF Apart, PendingApart
<1>f. InPending(x.seq)
  BY <1>b DEF InPending
<1>g. /\ DOMAIN out' = 1..(Len(out) + 1) /\ DOMAIN out = 1..Len(out) /\ Len(out) \in Nat
      /\ out'[Len(out) + 1] = x /\ \A i \in 1..Len(out) : out'[i] = out[i]
  BY <1>a, Positions
<1>h. \A s : InOut(s)' <=> InOut(s) \/ s = x.seq
  BY <1>g DEF InOut
<1>i. \A s : InPending(s)' <=> InPending(s) /\ s # x.seq
  <2>1. ASSUME NEW s, InPending(s)' PROVE InPending(s) /\ s # x.seq
    BY <2>1, <1>c, <1>e DEF InPending
  <2>2. ASSUME NEW s, InPending(s), s # x.seq PROVE InPending(s)'
    BY <2>2, <1>b, <1>d DEF InPending
  <2> QED
    BY <2>1, <2>2
<1>j. \A s : InResults(s)' <=> InResults(s)
  BY DEF InResults
<1>1. UploadsApart'
  BY <1>f, <1>h, <1>i, <1>j DEF Apart, UploadsApart
<1>2. ResultsApart'
  BY <1>f, <1>h, <1>i DEF Apart, ResultsApart
<1>3. PendingApart'
  <2>1. \A i, k \in DOMAIN pending' : i + 1 = k + 1 => i = k
    BY <1>b
  <2> QED
    BY <2>1, <1>c, <1>e, <1>h DEF Apart, PendingApart
<1>4. OutApart'
  <2>1. \A i \in DOMAIN out : out[i].seq # x.seq
    BY <1>e DEF InOut
  <2> QED
    BY <2>1, <1>e, <1>g DEF Apart, OutApart
<1>5. Kept'
  BY <1>e, <1>g, <1>h, <1>i, <1>j DEF Kept
<1> QED
  BY <1>1, <1>2, <1>3, <1>4, <1>5 DEF Apart

\* Every step leaves a clip in one place, and an uploaded one somewhere.
LEMMA UploadStep ==
    ASSUME TypeInv, Apart, Kept, Next
    PROVE  Apart' /\ Kept'
<1>a. seq \in Nat /\ seq + 1 \in Nat \ {0}
  BY DEF TypeInv, Work
<1>b. ASSUME UNCHANGED <<seq, done, uploading, results, pending, out>> PROVE Apart' /\ Kept'
  BY <1>b DEF Apart, UploadsApart, ResultsApart, PendingApart, OutApart, Kept, InResults, InPending, InOut
<1>1. CASE HandleCmd
  <2>1. Head(cmds) \in Commands
    BY <1>1, Heads DEF HandleCmd
  <2>2. Head(cmds).kind \in Formats /\ Head(cmds).val \in Values
    BY <2>1 DEF Commands
  <2>3. UNCHANGED <<done, results, pending>>
    BY <1>1 DEF HandleCmd, histVars
  <2> DEFINE v == Head(cmds).val
             t == OutClip(seq + 1, "text", v, FALSE)
             m == OutClip(seq + 1, "img", v, FALSE)
  <2>4. t \in Jobs /\ t.seq = seq + 1 /\ t.kind = "text"
    BY <1>a, <2>2, OutClipType DEF Formats
  <2>5. m \in Jobs /\ m.seq = seq + 1
    BY <1>a, <2>2, OutClipType DEF Formats
  <2>6. CASE Skip
    BY <2>3, <2>6, <1>b DEF Skip
  <2>7. CASE SendTextClip(v)
    <3>1. seq' = seq + 1 /\ UNCHANGED uploading /\ (UNCHANGED out \/ out' = Append(out, t))
      BY <2>7 DEF SendTextClip
    <3> HIDE DEF t
    <3>2. CASE UNCHANGED out
      BY <3>1, <3>2, <2>3, <2>5, FreshUpload
    <3>3. CASE out' = Append(out, t)
      BY <3>1, <3>3, <2>3, <2>4, FreshOut
    <3> QED
      BY <3>1, <3>2, <3>3
  <2>8. CASE SpawnImageClip(v)
    <3>1. /\ UNCHANGED out
          /\ \/ UNCHANGED <<seq, uploading>>
             \/ seq' = seq + 1 /\ uploading' = uploading \cup {m}
      BY <2>8 DEF SpawnImageClip
    <3> HIDE DEF m
    <3> QED
      BY <3>1, <2>3, <2>5, FreshUpload
  <2>9. CASE UNCHANGED <<seq, out, uploading>>
    BY <2>3, <2>9, <1>b
  <2> QED
    BY <1>1, <2>2, <2>6, <2>7, <2>8, <2>9 DEF HandleCmd, Formats
<1>2. CASE SendFileClip
  <2> DEFINE p == Head(batch).val
             l == OutClip(seq + 1, "files", p, TRUE)
             e == OutClip(seq + 1, "files", p, FALSE)
  <2>1. p \in Paths /\ p \in Values
    BY <1>2, Heads DEF SendFileClip, Values
  <2>2. l \in Jobs /\ l.seq = seq + 1 /\ l.onDemand = TRUE
    BY <1>a, <2>1, OutClipType DEF Formats
  <2>3. e \in Jobs /\ e.seq = seq + 1
    BY <1>a, <2>1, OutClipType DEF Formats
  <2>4. UNCHANGED <<done, results, pending>>
    BY <1>2 DEF SendFileClip
  <2>5. \/ UNCHANGED <<seq, out, uploading>>
        \/ seq' = seq + 1 /\ UNCHANGED uploading /\ (UNCHANGED out \/ out' = Append(out, l))
        \/ seq' = seq + 1 /\ UNCHANGED out /\ uploading' = uploading \cup {e}
    BY <1>2 DEF SendFileClip, AdvertiseFile
  <2> HIDE DEF l, e
  <2>6. CASE UNCHANGED <<seq, out, uploading>>
    BY <2>4, <2>6, <1>b
  <2>7. CASE seq' = seq + 1 /\ UNCHANGED <<uploading, out>>
    BY <2>3, <2>4, <2>7, FreshUpload
  <2>8. CASE seq' = seq + 1 /\ UNCHANGED uploading /\ out' = Append(out, l)
    BY <2>2, <2>4, <2>8, FreshOut
  <2>9. CASE seq' = seq + 1 /\ UNCHANGED out /\ uploading' = uploading \cup {e}
    BY <2>3, <2>4, <2>9, FreshUpload
  <2> QED
    BY <2>5, <2>6, <2>7, <2>8, <2>9
<1>3. CASE FlushOne
  <2> DEFINE x == [Head(pending) EXCEPT !.arrived = (link = "up")]
  <2>1. pending # <<>> /\ pending' = Tail(pending) /\ out' = Append(out, x)
        /\ UNCHANGED <<seq, done, uploading, results>>
    BY <1>3 DEF FlushOne, Advertise, workVars, histVars
  <2>2. x \in Jobs /\ x.seq = Head(pending).seq
    BY <2>1, Heads, ArrivedType
  <2> HIDE DEF x
  <2> QED
    BY <2>1, <2>2, SendStashed
<1>4. CASE HandleUpload
  <2> DEFINE w == Head(results).what
             x == [w EXCEPT !.arrived = (link = "up")]
  <2>1. /\ results # <<>> /\ results' = Tail(results) /\ Head(results).op = "upload"
        /\ UNCHANGED <<seq, done, uploading>>
    BY <1>4 DEF HandleUpload, TakeResult, workVars, histVars
  <2>2. w \in Jobs
    BY <2>1, Heads DEF Uploads
  <2>3. x \in Jobs /\ x.seq = w.seq
    BY <2>2, ArrivedType
  <2>4. \/ ~Head(results).ok /\ UNCHANGED <<pending, out>>
        \/ Head(results).ok /\ pending' = Append(pending, w) /\ UNCHANGED out
        \/ Head(results).ok /\ out' = Append(out, x) /\ UNCHANGED pending
    BY <1>4 DEF HandleUpload, Advertise
  <2> HIDE DEF x
  <2>5. CASE ~Head(results).ok /\ UNCHANGED <<pending, out>>
    BY <2>1, <2>5, DropResult
  <2>6. CASE Head(results).ok /\ pending' = Append(pending, w) /\ UNCHANGED out
    BY <2>1, <2>2, <2>6, TakeUpload
  <2>7. CASE Head(results).ok /\ out' = Append(out, x) /\ UNCHANGED pending
    BY <2>1, <2>3, <2>7, TakeUpload
  <2> QED
    BY <2>4, <2>5, <2>6, <2>7
<1>5. CASE HandleServe \/ HandlePull
  <2>1. /\ results # <<>> /\ results' = Tail(results) /\ Head(results).op # "upload"
        /\ UNCHANGED <<seq, done, uploading, pending, out>>
    BY <1>5 DEF HandleServe, HandlePull, TakeResult, workVars, histVars
  <2> QED
    BY <2>1, DropResult
<1>6. ASSUME NEW ok \in BOOLEAN, NEW j \in uploading, UploadDone(j, ok) PROVE Apart' /\ Kept'
  <2>1. /\ uploading' = uploading \ {j}
        /\ results' = Append(results, [op |-> "upload", ok |-> ok, what |-> j])
        /\ done' = IF ok THEN done \cup {j.seq} ELSE done
        /\ UNCHANGED <<seq, pending, out>>
    BY <1>6 DEF UploadDone
  <2> QED
    BY <2>1, EndUpload
<1>7. ASSUME NEW ok \in BOOLEAN, NEW s \in serving, ServeDone(s, ok) PROVE Apart' /\ Kept'
  <2> DEFINE r == [op |-> "serve", ok |-> ok, what |-> s.id]
  <2>1. results' = Append(results, r) /\ UNCHANGED <<seq, done, uploading, pending, out>>
    BY <1>7 DEF ServeDone, histVars
  <2>2. r \in Serves
    BY DEF TypeInv, Work, Serves
  <2> HIDE DEF r
  <2> QED
    BY <2>1, <2>2, OtherResult
<1>8. ASSUME NEW ok \in BOOLEAN, NEW c \in pulling, PullDone(c, ok) PROVE Apart' /\ Kept'
  <2> DEFINE r == [op |-> "pull", ok |-> ok, what |-> c]
  <2>1. results' = Append(results, r) /\ UNCHANGED <<seq, done, uploading, pending, out>>
    BY <1>8 DEF PullDone, histVars
  <2>2. r \in Pulls
    BY DEF TypeInv, Work, Pulls
  <2> HIDE DEF r
  <2> QED
    BY <2>1, <2>2, OtherResult
<1>9. CASE \/ \E p \in Large : EditFile(p)
           \/ \E c \in Clips : HandleIncomingBlob(c)
           \/ \E i \in DOMAIN out : HandleBlobRequest(out[i])
           \/ UNCHANGED <<seq, done, uploading, results, pending, out>>
  BY <1>9, <1>b DEF EditFile, HandleIncomingBlob, HandleBlobRequest, workVars, histVars
<1> QED
  BY <1>1, <1>2, <1>3, <1>4, <1>5, <1>6, <1>7, <1>8, <1>9, WorkFrame

\* A clip that is in one place has one whereabouts.
LEMMA OnePlace ==
    ASSUME Apart, Kept
    PROVE  UploadOnce
<1>1. ASSUME NEW s \in done PROVE Cardinality(Whereabouts(s)) = 1
  <2> DEFINE R == {k \in DOMAIN results : results[k].op = "upload" /\ results[k].what.seq = s}
             P == {k \in DOMAIN pending : pending[k].seq = s}
             O == {k \in DOMAIN out : out[k].seq = s}
  <2>1. /\ \A i, k \in R : i = k
        /\ \A i, k \in P : i = k
        /\ \A i, k \in O : i = k
    BY DEF Apart, ResultsApart, PendingApart, OutApart
  <2>2. /\ R # {} => P = {} /\ O = {}
        /\ P # {} => O = {}
    BY DEF Apart, ResultsApart, PendingApart, InPending, InOut
  <2>3. R # {} \/ P # {} \/ O # {}
    BY DEF Kept, InResults, InPending, InOut
  <2>4. Whereabouts(s) = {<<"result", i>> : i \in R} \cup {<<"pending", i>> : i \in P}
                           \cup {<<"out", i>> : i \in O}
    BY DEF Whereabouts
  <2> HIDE DEF R, P, O
  <2>5. \E x : Whereabouts(s) = {x}
    <3>1. CASE R # {}
      <4>1. PICK i : R = {i}
        BY <3>1, <2>1
      <4>2. Whereabouts(s) = {<<"result", i>>}
        BY <3>1, <4>1, <2>2, <2>4
      <4> QED
        BY <4>2
    <3>2. CASE P # {}
      <4>1. PICK i : P = {i}
        BY <3>2, <2>1
      <4>2. Whereabouts(s) = {<<"pending", i>>}
        BY <3>2, <4>1, <2>2, <2>4
      <4> QED
        BY <4>2
    <3>3. CASE O # {}
      <4>1. PICK i : O = {i}
        BY <3>3, <2>1
      <4>2. Whereabouts(s) = {<<"out", i>>}
        BY <3>3, <4>1, <2>2, <2>4
      <4> QED
        BY <4>2
    <3> QED
      BY <2>3, <3>1, <3>2, <3>3
  <2> QED
    BY <2>5, FS_Singleton
<1> QED
  BY <1>1 DEF UploadOnce, Kept

(* ---------------------------------------------------------------------- *)
(* The watcher                                                             *)
(* ---------------------------------------------------------------------- *)

\* A new content of the clipboard, from whatever program.
LEMMA NewContent ==
    ASSUME TypeInv, Watched, NEW c, IsContent(c), SetClipboard(c), UNCHANGED <<windows, last>>
    PROVE  Watched'
<1> DEFINE R == Readable(c)
<1>1. Readable(clip)' = R
  BY DEF SetClipboard, Readable
<1>2. read' = [read EXCEPT !.torn = read.on] /\ known' = known \cup Present(R)
      /\ gen' = [fresh |-> ~(Present(R) \subseteq known), clean |-> ~read.on, polled |-> FALSE, n |-> 0]
  BY DEF SetClipboard
<1>3. read'.on = read.on /\ read'.img = read.img /\ read'.files = read.files
  BY <1>2 DEF TypeInv, Boards
<1>4. \A f \in Formats : R[f] # NoVal => <<f, R[f]>> \in known'
  BY <1>2 DEF Present
<1>5. ASSUME ~(Present(R) \subseteq known) PROVE \E f \in Formats : R[f] # NoVal /\ R[f] # last[f]
  <2>1. PICK f \in Formats : R[f] # NoVal /\ <<f, R[f]>> \notin known
    BY <1>5 DEF Present
  <2> QED
    BY <2>1 DEF Watched
<1> HIDE DEF R
<1>6. gen'.fresh = ~(Present(R) \subseteq known) /\ gen'.clean = ~read.on /\ gen'.polled = FALSE /\ gen'.n = 0
  BY <1>2
<1>7. gen'.fresh => NewIn(Readable(clip))' # {}
  <2>1. NewIn(Readable(clip))' = {f \in Formats : R[f] # NoVal /\ R[f] # last[f]}
    BY <1>1 DEF NewIn
  <2> QED
    BY <2>1, <1>5, <1>6
<1>8. /\ \A f \in Formats : last'[f] # NoVal => <<f, last'[f]>> \in known'
      /\ \A f \in Formats : Readable(clip)'[f] # NoVal => <<f, Readable(clip)'[f]>> \in known'
      /\ read'.img # NoVal => <<"img", read'.img>> \in known'
      /\ read'.files # NoVal => <<"files", read'.files>> \in known'
  BY <1>1, <1>2, <1>3, <1>4 DEF Watched
<1>9. gen'.clean =>
          /\ read'.on => read'.img = clip'.img /\ read'.files = Readable(clip)'.files
          /\ ~gen'.polled => gen'.n = 0 /\ (gen'.fresh => NewIn(Readable(clip))' # {})
          /\ gen'.polled => gen'.n <= 1 /\ NewIn(Readable(clip))' = {} /\ (gen'.fresh => gen'.n = 1)
  BY <1>3, <1>6, <1>7
<1>10. gen' \in [fresh : BOOLEAN, clean : BOOLEAN, polled : BOOLEAN, n : Nat]
  <2>1. read.on \in BOOLEAN
    BY DEF TypeInv, Boards
  <2> QED
    BY <2>1, <1>2
<1> QED
  BY <1>8, <1>9, <1>10 DEF Watched

\* A poll of a content that it reads whole finds what is new, and leaves nothing new.
LEMMA PollEndWatched ==
    ASSUME TypeInv, Watched, PollEnd
    PROVE  Watched'
<1>a. /\ IsContent(clip) /\ DOMAIN last = Formats
      /\ read \in [on : BOOLEAN, torn : BOOLEAN, img : Values, files : Values \cap Lists]
  BY DEF TypeInv, Boards
<1>b. PICK ok \in BOOLEAN :
        LET r == ReadContent(IF ok THEN clip.text ELSE NoVal) IN
        /\ last' = LastAfter(r)
        /\ gen' = [gen EXCEPT !.n = IF NewIn(r) = {} THEN @ ELSE @ + 1,
                              !.clean = @ /\ ok, !.polled = TRUE]
  BY DEF PollEnd
<1> DEFINE r == ReadContent(IF ok THEN clip.text ELSE NoVal)
           R == Readable(clip)
<1>c. UNCHANGED <<windows, clip, known>> /\ read' = NotReading /\ read.on
  BY DEF PollEnd
<1>d. DOMAIN r = Formats /\ r["img"] = read.img /\ r["files"] = read.files
      /\ r["text"] = IF ok THEN clip.text ELSE NoVal
  BY DEF ReadContent, Formats
<1>e. R["img"] = clip.img /\ R["text"] = clip.text /\ R' = R
  BY <1>a, <1>c, ReadableContent DEF Readable
<1>f. \A f \in Formats : r[f] # NoVal => <<f, r[f]>> \in known
  BY <1>d, <1>e DEF Watched, Formats
<1> HIDE DEF r, R
<1>1. DOMAIN last' = Formats /\ \A f \in Formats : last'[f] \in {last[f], r[f]}
  BY <1>a, <1>b, <1>d DEF LastAfter, r, Formats
<1>2. \A f \in Formats : last'[f] # NoVal => <<f, last'[f]>> \in known'
  BY <1>1, <1>c, <1>f DEF Watched
<1>3. \A f \in Formats : R[f] # NoVal => <<f, R[f]>> \in known
  BY DEF Watched, R
<1>4. \A f \in Formats : r[f] # NoVal => last'[f] = r[f]
  <2>1. CASE NewIn(r) \cap {"img", "files"} # {}
    BY <2>1, <1>b DEF LastAfter, r
  <2>2. CASE NewIn(r) \cap {"img", "files"} = {}
    <3>1. \A f \in {"img", "files"} : r[f] # NoVal => last[f] = r[f]
      BY <2>2 DEF NewIn, Formats
    <3>2. CASE NewIn(r) # {}
      <4>1. last' = [last EXCEPT !.text = r.text]
        BY <2>2, <3>2, <1>b DEF LastAfter, r
      <4> QED
        BY <4>1, <3>1, <1>a DEF Formats
    <3>3. CASE NewIn(r) = {}
      <4>1. last' = last
        BY <2>2, <3>3, <1>b DEF LastAfter, r
      <4> QED
        BY <4>1, <3>3 DEF NewIn
    <3> QED
      BY <3>2, <3>3
  <2> QED
    BY <2>1, <2>2
<1>0. gen \in [fresh : BOOLEAN, clean : BOOLEAN, polled : BOOLEAN, n : Nat]
  BY DEF Watched
<1>5. /\ gen'.n = IF NewIn(r) = {} THEN gen.n ELSE gen.n + 1
      /\ gen'.clean <=> gen.clean /\ ok
      /\ gen'.polled
      /\ gen'.fresh = gen.fresh
  BY <1>0, <1>b DEF r
<1>6. ASSUME gen'.clean
      PROVE  gen'.n <= 1 /\ NewIn(R)' = {} /\ (gen'.fresh => gen'.n = 1)
  <2>1. gen.clean /\ ok
    BY <1>5, <1>6
  <2>2. \A f \in Formats : r[f] = R[f]
    <3>1. read.img = clip.img /\ read.files = R.files
      BY <2>1, <1>c DEF Watched, R
    <3> QED
      BY <2>1, <3>1, <1>d, <1>e DEF Formats
  <2>3. NewIn(r) = NewIn(R)
    BY <2>2 DEF NewIn
  <2>4. NewIn(R)' = {}
    BY <2>2, <1>4, <1>e DEF NewIn
  <2>5. /\ ~gen.polled => gen.n = 0 /\ (gen.fresh => NewIn(R) # {})
        /\ gen.polled => gen.n <= 1 /\ NewIn(R) = {} /\ (gen.fresh => gen.n = 1)
        /\ gen.n \in Nat
    BY <2>1 DEF Watched, R
  <2> QED
    BY <2>3, <2>4, <2>5, <1>5
<1>7. gen' \in [fresh : BOOLEAN, clean : BOOLEAN, polled : BOOLEAN, n : Nat]
  <2> DEFINE m == IF NewIn(r) = {} THEN gen.n ELSE gen.n + 1
             b == gen.clean /\ ok
  <2>1. gen' = [gen EXCEPT !.n = m, !.clean = b, !.polled = TRUE]
    BY <1>b DEF r
  <2>2. m \in Nat /\ b \in BOOLEAN
    BY <1>0
  <2> HIDE DEF m, b
  <2> QED
    BY <1>0, <2>1, <2>2
<1>8. ~read'.on /\ read'.img = NoVal /\ read'.files = NoVal
  BY <1>c DEF NotReading
<1>9. NewIn(Readable(clip))' = NewIn(R)' /\ Readable(clip)' = R
  BY <1>e DEF R
<1> QED
  BY <1>2, <1>3, <1>5, <1>6, <1>7, <1>8, <1>9, <1>c DEF Watched

\* Every step keeps what the watcher knows of the current copy.
LEMMA WatchStep ==
    ASSUME TypeInv, Watched, Next
    PROVE  Watched'
<1>a. ASSUME UNCHANGED <<windows, clip, last, read, known, gen>> PROVE Watched'
  BY <1>a DEF Watched, Readable, NewIn
<1>b. ASSUME NEW c \in Clips, NEW e, Apply(c, e), UNCHANGED <<windows, last>> PROVE Watched'
  <2>1. CASE SetClipboard(ContentOf(c))
    BY <2>1, <1>b, NewContent, Contents
  <2>2. CASE UNCHANGED <<clip, read, known, gen>>
    BY <2>2, <1>a, <1>b
  <2> QED
    BY <1>b, <2>1, <2>2 DEF Apply
<1>1. ASSUME NEW c \in Copies, UserCopy(c) PROVE Watched'
  BY <1>1, NewContent, Contents DEF UserCopy
<1>2. ASSUME ClearClipboard PROVE Watched'
  BY <1>2, NewContent, Contents DEF ClearClipboard
<1>3. ASSUME PollBegin PROVE Watched'
  <2>1. PICK ok \in BOOLEAN :
          /\ IF ok THEN UNCHANGED gen ELSE gen' = [gen EXCEPT !.clean = FALSE]
          /\ read' = [on |-> TRUE, torn |-> FALSE, img |-> IF ok THEN clip.img ELSE NoVal,
                      files |-> IF ok THEN Readable(clip).files ELSE NoVal]
    BY <1>3 DEF PollBegin
  <2>2. UNCHANGED <<windows, clip, last, known>>
    BY <1>3 DEF PollBegin, osVars
  <2>3. NewIn(Readable(clip))' = NewIn(Readable(clip)) /\ Readable(clip)' = Readable(clip)
    BY <2>2 DEF NewIn, Readable
  <2>4. read'.img # NoVal => <<"img", read'.img>> \in known'
    <3>1. Readable(clip)["img"] = clip.img
      BY ReadableContent DEF TypeInv, Boards
    <3> QED
      BY <2>1, <2>2, <3>1 DEF Watched, Formats
  <2>5. read'.files # NoVal => <<"files", read'.files>> \in known'
    BY <2>1, <2>2 DEF Watched, Formats
  <2>6. gen \in [fresh : BOOLEAN, clean : BOOLEAN, polled : BOOLEAN, n : Nat]
    BY DEF Watched
  <2>7. CASE ok
    <3>1. UNCHANGED gen /\ read'.img = clip.img /\ read'.files = Readable(clip).files
      BY <2>1, <2>7
    <3> QED
      BY <3>1, <2>2, <2>3, <2>4, <2>5 DEF Watched
  <2>8. CASE ~ok
    <3>1. gen' \in [fresh : BOOLEAN, clean : BOOLEAN, polled : BOOLEAN, n : Nat] /\ ~gen'.clean
      BY <2>1, <2>6, <2>8
    <3> QED
      BY <3>1, <2>2, <2>3, <2>4, <2>5 DEF Watched
  <2> QED
    BY <2>7, <2>8
<1>4. ASSUME PollEnd PROVE Watched'
  BY <1>4, PollEndWatched
<1>5. ASSUME HandleCmd \/ \E c \in Sends : UserSend(c) PROVE Watched'
  BY <1>5, <1>a DEF HandleCmd, UserSend, osVars, watchVars, histVars
<1>6. ASSUME NEW c \in Clips, HandleIncomingText(c) PROVE Watched'
  BY <1>6, <1>b DEF HandleIncomingText
<1>7. ASSUME HandlePull PROVE Watched'
  <2>1. Head(results).what \in Clips
    BY <1>7, Heads DEF HandlePull, TakeResult, Pulls
  <2>2. UNCHANGED <<windows, last>>
    BY <1>7 DEF HandlePull
  <2>3. CASE Head(results).ok
    BY <1>7, <2>1, <2>2, <2>3, <1>b DEF HandlePull
  <2>4. CASE ~Head(results).ok
    BY <1>7, <2>2, <2>4, <1>a DEF HandlePull
  <2> QED
    BY <2>3, <2>4
<1> QED
  BY <1>1, <1>2, <1>3, <1>4, <1>5, <1>6, <1>7, <1>a, BoardFrame

(* ---------------------------------------------------------------------- *)
(* Theorems                                                                *)
(* ---------------------------------------------------------------------- *)

\* The initial state.
LEMMA InitInv ==
    ASSUME Init
    PROVE  IndInv
<1>1. Boards
  <2>1. IsContent(clip) /\ DOMAIN last = Formats
    BY Contents DEF Init, NoContent
  <2>2. NotReading \in [on : BOOLEAN, torn : BOOLEAN, img : Values, files : Values \cap Lists]
    BY DEF NotReading, Values, Lists
  <2>3. read = NotReading /\ changed = FALSE /\ cmds = <<>>
    BY DEF Init
  <2>4. <<>> \in Seq(Commands)
    OBVIOUS
  <2>5. cmds \in Seq(Commands) /\ changed \in BOOLEAN
    BY <2>3, <2>4
  <2>6. read \in [on : BOOLEAN, torn : BOOLEAN, img : Values, files : Values \cap Lists]
    BY <2>2, <2>3
  <2> QED
    BY <2>1, <2>5, <2>6 DEF Boards
<1>2. Place /\ Rings /\ Counts
  BY EngineConstants DEF Init, Place, Rings, Counts
<1>3. Work
  BY EngineConstants DEF Init, Work
<1>4. Holds
  BY EngineConstants DEF Init, Holds, Range
<1>5. Apart /\ Kept
  BY DEF Init, Apart, UploadsApart, ResultsApart, PendingApart, OutApart, Kept
<1>6. Watched
  <2>1. \A f \in Formats : NoContent[f] = NoVal /\ Readable(NoContent)[f] = NoVal
    BY DEF NoContent, Readable, Formats
  <2>2. /\ gen \in [fresh : BOOLEAN, clean : BOOLEAN, polled : BOOLEAN, n : Nat]
        /\ ~gen.fresh /\ ~gen.polled /\ gen.n = 0
    BY DEF Init
  <2>3. clip = NoContent /\ last = NoContent /\ ~read.on /\ read.img = NoVal /\ read.files = NoVal
    BY DEF Init, NotReading
  <2> HIDE DEF NoContent
  <2> QED
    BY <2>1, <2>2, <2>3 DEF Watched
<1> QED
  BY <1>1, <1>2, <1>3, <1>4, <1>5, <1>6 DEF IndInv, TypeInv

\* The inductive invariant holds in every reachable state.
LEMMA Invariance == Spec => []IndInv
<1>1. ASSUME IndInv, [Next]_vars PROVE IndInv'
  <2>1. CASE Next
    BY <1>1, <2>1, BoardStep, PlaceStep, RingStep, WorkStep, CountStep, HoldStep, UploadStep, WatchStep
       DEF IndInv, TypeInv
  <2>2. CASE UNCHANGED vars
    <3>1. Boards' /\ Place' /\ Rings' /\ Work' /\ Counts'
      BY <1>1, <2>2 DEF IndInv, TypeInv, Boards, Place, Rings, Work, Counts, vars, osVars, watchVars,
         holdVars, workVars, worldVars, histVars, counts
    <3>2. Holds' /\ Apart' /\ Kept'
      BY <1>1, <2>2 DEF IndInv, Holds, Apart, UploadsApart, ResultsApart, PendingApart, OutApart, Kept,
         InResults, InPending, InOut, vars, osVars, watchVars, holdVars, workVars, worldVars, histVars,
         counts
    <3>3. Watched'
      BY <1>1, <2>2 DEF IndInv, Watched, Readable, NewIn, vars, osVars, watchVars, holdVars, workVars,
         worldVars, histVars, counts
    <3> QED
      BY <3>1, <3>2, <3>3 DEF IndInv, TypeInv
  <2> QED
    BY <1>1, <2>1, <2>2
<1>2. Init => IndInv
  BY InitInv
<1> QED
  BY <1>1, <1>2, PTL DEF Spec

\* Types of the variables; in particular no copy is half sent when a connection ends,
\* no ring exceeds its size and a stashed upload has succeeded.
THEOREM TypeCorrect == Spec => []TypeOK
<1>1. IndInv => TypeOK
  <2> SUFFICES ASSUME IndInv PROVE TypeOK
    OBVIOUS
  <2>1. held \subseteq {<<p, n>> : p \in Paths, n \in 0..(seq + MaxEdits)}
    <3>1. ASSUME NEW i \in DOMAIN order
          PROVE  order[i] \in {<<p, n>> : p \in Paths, n \in 0..(seq + MaxEdits)}
      <4>1. order[i] \in Ids
        BY DEF IndInv, Holds
      <4>2. order[i] = <<order[i][1], order[i][2]>>
        BY <4>1 DEF Ids
      <4>3. order[i][1] \in Paths /\ order[i][2] \in 0..(seq + MaxEdits)
        BY DEF IndInv, Holds
      <4> QED
        BY <4>2, <4>3
    <3> QED
      BY <3>1 DEF IndInv, Holds, Range
  <2>2. (\A j \in uploading : j.seq \in 1..seq) /\ (\A i \in DOMAIN pending : pending[i].seq \in done)
    BY DEF IndInv, Apart, UploadsApart, PendingApart
  <2>3. ncopies <= MaxCopies /\ nclips <= MaxClips /\ faults <= MaxFaults
    BY EngineConstants DEF IndInv, TypeInv, Counts
  <2> QED
    BY <2>1, <2>2, <2>3 DEF IndInv, TypeInv, Boards, IsContent, Place, Rings, Work, TypeOK
<1> QED
  BY <1>1, Invariance, PTL

\* A copy that is neither torn by another one nor misread yields one command at most,
\* and one exactly if it has something new, whatever was on the clipboard before.
THEOREM EachCopyOnce == Spec => []OneClipPerCopy
<1>1. IndInv => OneClipPerCopy
  BY DEF IndInv, Watched, OneClipPerCopy
<1> QED
  BY <1>1, Invariance, PTL

\* An upload that succeeded is in one place, stashed, to be advertised or advertised,
\* through any number of lost links and reconnects, and no clip is advertised before
\* its blob is there.
THEOREM UploadedOnce == Spec => []UploadOnce
<1>1. IndInv => UploadOnce
  BY OnePlace DEF IndInv
<1> QED
  BY <1>1, Invariance, PTL

\* The map of holds and its order name the same ids, each once and at most MaxHolds,
\* with or without an end-to-end key, in any order of offers, requests and failures.
THEOREM HoldsBounded == Spec => []HoldsAgree
<1>1. IndInv => HoldsAgree
  BY HoldCount DEF IndInv
<1> QED
  BY <1>1, Invariance, PTL

(* ---------------------------------------------------------------------- *)
(* Holds of sealed blobs                                                   *)
(* ---------------------------------------------------------------------- *)

\* What is in a sequence after Append and Tail.
LEMMA Members ==
    ASSUME NEW S, NEW s \in Seq(S)
    PROVE  /\ s # <<>> => \A i \in DOMAIN Tail(s) : \E k \in DOMAIN s : Tail(s)[i] = s[k]
           /\ \A x \in S : \A i \in DOMAIN Append(s, x) :
                 Append(s, x)[i] = x \/ \E k \in DOMAIN s : Append(s, x)[i] = s[k]
OBVIOUS

\* No worker uploads eagerly what is offered on demand.
LEMMA EagerStep ==
    ASSUME TypeInv, Eager, Next
    PROVE  Eager'
<1>a. /\ results \in Seq(Uploads \cup Serves \cup Pulls) /\ pending \in Seq(Jobs)
      /\ uploading \subseteq Jobs /\ seq \in Nat /\ seq + 1 \in Nat \ {0}
      /\ serving \subseteq [id : Ids, bytes : Ids] /\ pulling \subseteq Clips
  BY DEF TypeInv, Work
<1>b. ASSUME NEW j \in Jobs, ~j.onDemand, UNCHANGED uploading \/ uploading' = uploading \cup {j},
             UNCHANGED <<results, pending>>
      PROVE  Eager'
  BY <1>b DEF Eager
<1>c. ASSUME NEW op, TakeResult(op), UNCHANGED <<uploading, pending>> PROVE Eager'
  <2>1. \A i \in DOMAIN results' : \E k \in DOMAIN results : results'[i] = results[k]
    BY <1>a, <1>c, Members DEF TakeResult
  <2> QED
    BY <1>c, <2>1 DEF Eager
<1>d. ASSUME NEW r \in Uploads \cup Serves \cup Pulls, r.op = "upload" => ~r.what.onDemand,
             results' = Append(results, r), uploading' \subseteq uploading, UNCHANGED pending
      PROVE  Eager'
  <2>1. \A i \in DOMAIN results' : results'[i] = r \/ \E k \in DOMAIN results : results'[i] = results[k]
    BY <1>a, <1>d, Members
  <2> QED
    BY <1>d, <2>1 DEF Eager
<1>e. ASSUME UNCHANGED <<uploading, results, pending>> PROVE Eager'
  BY <1>e DEF Eager
<1>1. CASE HandleCmd
  <2> DEFINE v == Head(cmds).val
             m == OutClip(seq + 1, "img", v, FALSE)
  <2>1. Head(cmds) \in Commands
    BY <1>1, Heads DEF HandleCmd
  <2>2. Head(cmds).kind \in Formats /\ Head(cmds).val \in Values
    BY <2>1 DEF Commands
  <2>3. m \in Jobs /\ ~m.onDemand
    <3>1. seq + 1 \in Nat \ {0} /\ v \in Values
      BY <1>a, <2>2
    <3> HIDE DEF v
    <3> QED
      BY <3>1, OutClipType DEF Formats
  <2>4. UNCHANGED uploading \/ uploading' = uploading \cup {m}
    BY <1>1, <2>2 DEF HandleCmd, Skip, SendTextClip, SpawnImageClip, Formats
  <2> HIDE DEF m
  <2> QED
    BY <1>1, <2>3, <2>4, <1>b DEF HandleCmd
<1>2. CASE SendFileClip
  <2> DEFINE e == OutClip(seq + 1, "files", Head(batch).val, FALSE)
  <2>1. Head(batch).val \in Paths /\ Head(batch).val \in Values
    BY <1>2, Heads DEF SendFileClip, Values
  <2>2. e \in Jobs /\ e.onDemand = FALSE
    BY <1>a, <2>1, OutClipType DEF Formats
  <2>3. UNCHANGED uploading \/ uploading' = uploading \cup {e}
    BY <1>2 DEF SendFileClip
  <2> HIDE DEF e
  <2> QED
    BY <1>2, <2>2, <2>3, <1>b DEF SendFileClip
<1>3. CASE FlushOne
  <2>1. \A i \in DOMAIN pending' : \E k \in DOMAIN pending : pending'[i] = pending[k]
    BY <1>3, <1>a, Members DEF FlushOne
  <2> QED
    BY <1>3, <2>1 DEF FlushOne, workVars, Eager
<1>4. CASE HandleUpload
  <2>0. results # <<>> /\ results' = Tail(results) /\ Head(results).op = "upload"
    BY <1>4 DEF HandleUpload, TakeResult
  <2>1. /\ Head(results) = results[1] /\ 1 \in DOMAIN results
        /\ results # <<>> /\ results' = Tail(results) /\ Head(results).op = "upload"
    BY <2>0, <1>a
  <2>2. Head(results).what \in Jobs /\ ~Head(results).what.onDemand
    BY <2>1, Heads DEF Uploads, Eager
  <2>3. UNCHANGED pending \/ pending' = Append(pending, Head(results).what)
    BY <1>4 DEF HandleUpload
  <2>4. \A i \in DOMAIN pending' : pending'[i] = Head(results).what \/ \E k \in DOMAIN pending : pending'[i] = pending[k]
    BY <1>a, <2>2, <2>3, Members
  <2>5. \A i \in DOMAIN results' : \E k \in DOMAIN results : results'[i] = results[k]
    BY <1>a, <2>1, Members
  <2> QED
    BY <1>4, <2>2, <2>4, <2>5 DEF HandleUpload, workVars, Eager
<1>5. CASE HandleServe \/ HandlePull
  BY <1>5, <1>c DEF HandleServe, HandlePull, workVars
<1>6. ASSUME NEW ok \in BOOLEAN, NEW j \in uploading, UploadDone(j, ok) PROVE Eager'
  <2> DEFINE r == [op |-> "upload", ok |-> ok, what |-> j]
  <2>1. r \in Uploads /\ r.what = j
    BY <1>a DEF Uploads
  <2>2. ~j.onDemand
    BY DEF Eager
  <2>3. results' = Append(results, r) /\ uploading' \subseteq uploading /\ UNCHANGED pending
    BY <1>6 DEF UploadDone
  <2> HIDE DEF r
  <2> QED
    BY <2>1, <2>2, <2>3, <1>d
<1>7. ASSUME NEW ok \in BOOLEAN, NEW s \in serving, ServeDone(s, ok) PROVE Eager'
  <2> DEFINE r == [op |-> "serve", ok |-> ok, what |-> s.id]
  <2>1. r \in Serves /\ r.op = "serve"
    BY <1>a DEF Serves
  <2>2. results' = Append(results, r) /\ uploading' = uploading /\ UNCHANGED pending
    BY <1>7 DEF ServeDone
  <2> HIDE DEF r
  <2> QED
    BY <2>1, <2>2, <1>d
<1>8. ASSUME NEW ok \in BOOLEAN, NEW c \in pulling, PullDone(c, ok) PROVE Eager'
  <2> DEFINE r == [op |-> "pull", ok |-> ok, what |-> c]
  <2>1. r \in Pulls /\ r.op = "pull"
    BY <1>a DEF Pulls
  <2>2. results' = Append(results, r) /\ uploading' = uploading /\ UNCHANGED pending
    BY <1>8 DEF PullDone
  <2> HIDE DEF r
  <2> QED
    BY <2>1, <2>2, <1>d
<1>9. CASE \/ \E p \in Large : EditFile(p)
           \/ \E c \in Clips : HandleIncomingBlob(c)
           \/ \E i \in DOMAIN out : HandleBlobRequest(out[i])
           \/ UNCHANGED <<uploading, results, pending>>
  BY <1>9, <1>e DEF EditFile, HandleIncomingBlob, HandleBlobRequest, workVars
<1> QED
  BY <1>1, <1>2, <1>3, <1>4, <1>5, <1>6, <1>7, <1>8, <1>9, WorkFrame

\* A blob whose upload for a request succeeded is with the server.
LEMMA ServedStep ==
    ASSUME E2E, TypeInv, Served, Next
    PROVE  Served' /\ stored \subseteq stored'
<1>a. /\ results \in Seq(Uploads \cup Serves \cup Pulls) /\ uploading \subseteq Jobs
      /\ serving \subseteq [id : Ids, bytes : Ids] /\ pulling \subseteq Clips
  BY DEF TypeInv, Work
<1>b. ASSUME NEW op, TakeResult(op), UNCHANGED <<serving, stored>> PROVE Served' /\ stored \subseteq stored'
  <2>1. \A i \in DOMAIN results' : \E k \in DOMAIN results : results'[i] = results[k]
    BY <1>a, <1>b, Members DEF TakeResult
  <2> QED
    BY <1>b, <2>1 DEF Served
<1>c. ASSUME NEW r \in Uploads \cup Serves \cup Pulls, r.op = "serve" /\ r.ok => r.what \in stored',
             results' = Append(results, r), serving' \subseteq serving, stored \subseteq stored'
      PROVE  Served' /\ stored \subseteq stored'
  <2>1. \A i \in DOMAIN results' : results'[i] = r \/ \E k \in DOMAIN results : results'[i] = results[k]
    BY <1>a, <1>c, Members
  <2> QED
    BY <1>c, <2>1 DEF Served
<1>d. ASSUME UNCHANGED <<results, stored>>, \A s \in serving' : s \in serving \/ s.bytes = s.id
      PROVE  Served' /\ stored \subseteq stored'
  BY <1>d DEF Served
<1>1. CASE HandleUpload \/ HandleServe \/ HandlePull
  BY <1>1, <1>b DEF HandleUpload, HandleServe, HandlePull, workVars, worldVars
<1>2. ASSUME NEW ok \in BOOLEAN, NEW j \in uploading, UploadDone(j, ok) PROVE Served' /\ stored \subseteq stored'
  <2> DEFINE r == [op |-> "upload", ok |-> ok, what |-> j]
  <2>1. r \in Uploads /\ r.op = "upload"
    BY <1>a DEF Uploads
  <2>2. results' = Append(results, r) /\ UNCHANGED serving /\ stored \subseteq stored'
    BY <1>2 DEF UploadDone
  <2> HIDE DEF r
  <2> QED
    BY <2>1, <2>2, <1>c
<1>3. ASSUME NEW ok \in BOOLEAN, NEW s \in serving, ServeDone(s, ok) PROVE Served' /\ stored \subseteq stored'
  <2> DEFINE r == [op |-> "serve", ok |-> ok, what |-> s.id]
  <2>1. r \in Serves /\ r.what = s.id /\ r.ok = ok
    BY <1>a DEF Serves
  <2>2. s.bytes = s.id
    BY DEF Served
  <2>3. results' = Append(results, r) /\ serving' \subseteq serving /\ stored \subseteq stored'
        /\ (ok => s.bytes \in stored')
    BY <1>3 DEF ServeDone
  <2> HIDE DEF r
  <2> QED
    BY <2>1, <2>2, <2>3, <1>c
<1>4. ASSUME NEW ok \in BOOLEAN, NEW c \in pulling, PullDone(c, ok) PROVE Served' /\ stored \subseteq stored'
  <2> DEFINE r == [op |-> "pull", ok |-> ok, what |-> c]
  <2>1. r \in Pulls /\ r.op = "pull"
    BY <1>a DEF Pulls
  <2>2. results' = Append(results, r) /\ UNCHANGED <<serving, stored>>
    BY <1>4 DEF PullDone, worldVars
  <2> HIDE DEF r
  <2> QED
    BY <2>1, <2>2, <1>c
<1>5. ASSUME NEW i \in DOMAIN out, HandleBlobRequest(out[i]) PROVE Served' /\ stored \subseteq stored'
  <2>1. serving' = serving \cup {[id |-> out[i].id, bytes |-> out[i].id]} /\ UNCHANGED <<results, stored>>
    BY <1>5 DEF HandleBlobRequest, worldVars
  <2> QED
    BY <2>1, <1>d
<1>6. CASE \/ HandleCmd \/ SendFileClip \/ FlushOne
           \/ \E p \in Large : EditFile(p)
           \/ \E c \in Clips : HandleIncomingBlob(c)
           \/ UNCHANGED <<serving, results, stored>>
  BY <1>6, <1>d DEF HandleCmd, SendFileClip, FlushOne, EditFile, HandleIncomingBlob, workVars, worldVars
<1> QED
  BY <1>1, <1>2, <1>3, <1>4, <1>5, <1>6, WorkFrame

\* The offers after a given one only grow in number.
LEMMA MoreNewer ==
    ASSUME NEW n \in Nat, offered' \subseteq 1..n, offered \subseteq offered', NEW m
    PROVE  /\ Cardinality({s \in offered : s > m}) \in Nat
           /\ Cardinality({s \in offered' : s > m}) \in Nat
           /\ Cardinality({s \in offered : s > m}) <= Cardinality({s \in offered' : s > m})
<1> DEFINE S == {s \in offered : s > m}
           T == {s \in offered' : s > m}
<1>1. IsFiniteSet(1..n)
  BY FS_Interval
<1>2. T \in SUBSET (1..n) /\ S \in SUBSET T
  OBVIOUS
<1> HIDE DEF S, T
<1>3. IsFiniteSet(T)
  BY <1>1, <1>2, FS_Subset
<1>4. IsFiniteSet(S) /\ Cardinality(S) <= Cardinality(T)
  BY <1>2, <1>3, FS_Subset
<1>5. Cardinality(S) \in Nat /\ Cardinality(T) \in Nat
  BY <1>3, <1>4, FS_CardinalityType
<1> QED
  BY <1>4, <1>5 DEF S, T

\* A step that makes no offer and gives up no hold but one whose blob is with the server.
LEMMA NoOffer ==
    ASSUME TypeInv, Ordered, HoldKept, stored \subseteq stored', held \subseteq held' \cup stored',
           UNCHANGED offered,
           \A i \in DOMAIN out' : out'[i].onDemand => \E k \in DOMAIN out : out'[i] = out[k]
    PROVE  /\ \A i \in DOMAIN out' : out'[i].onDemand => out'[i].id[2] = out'[i].seq
           /\ HoldKept'
<1>1. ASSUME NEW i \in DOMAIN out', out'[i].onDemand
      PROVE  /\ out'[i].id[2] = out'[i].seq
             /\ \/ out'[i].id \in stored' \cup held'
                \/ Cardinality({s \in offered' : s > out'[i].seq}) >= MaxHolds
  <2>1. PICK k \in DOMAIN out : out'[i] = out[k]
    BY <1>1
  <2>2. out[k].onDemand /\ out[k].id[2] = out[k].seq
    BY <1>1, <2>1 DEF Ordered
  <2>3. \/ out[k].id \in stored \cup held
        \/ Cardinality({s \in offered : s > out[k].seq}) >= MaxHolds
    BY <2>2 DEF HoldKept
  <2> QED
    BY <2>1, <2>2, <2>3
<1> QED
  BY <1>1 DEF HoldKept

\* An offer.  The hold that it may push out is older than all the others in the ring.
LEMMA Offer ==
    ASSUME E2E, TypeInv, Holds, Ordered, HoldKept, TypeInv', NEW p \in Paths,
           HoldOnDemand(BlobId(p, seq + 1)), seq' = seq + 1, offered' = offered \cup {seq + 1},
           stored' = stored,
           UNCHANGED out \/ out' = Append(out, OutClip(seq + 1, "files", p, TRUE))
    PROVE  Ordered' /\ HoldKept'
<1> DEFINE id == BlobId(p, seq + 1)
           o == OutClip(seq + 1, "files", p, TRUE)
<1>a. /\ seq \in Nat /\ seq + 1 \in Nat \ {0} /\ offered \subseteq 1..seq /\ out \in Seq(Jobs)
      /\ offered' \subseteq 1..(seq + 1) /\ MaxHolds \in Nat \ {0} /\ p \in Values
  BY EngineConstants DEF TypeInv, Work, Values
<1>b. /\ order \in Seq(Ids) /\ Len(order) <= MaxHolds /\ held = Range(order)
      /\ \A i \in DOMAIN order : order[i][2] \in offered
      /\ \A i, k \in DOMAIN order : i < k => order[i][2] < order[k][2]
  BY DEF Holds, Ordered
<1>c. id \in Ids /\ id[2] = seq + 1
  BY <1>a, BlobIdType DEF BlobId
<1>d. o \in Jobs /\ o.seq = seq + 1 /\ o.id = id
  BY <1>a, OutClipType DEF Formats
<1> HIDE DEF id, o
<1>e. id \notin held
  <2>1. \A i \in DOMAIN order : order[i][2] # seq + 1
    BY <1>a, <1>b
  <2> QED
    BY <2>1, <1>b, <1>c DEF Range
<1>f. HoldOnDemand(id)
  BY DEF id
<1>1. order' \in Seq(Ids) /\ held' = Range(order')
  BY <1>b, <1>c, <1>e, <1>f, Grow
<1>2. PICK d \in {0, 1} :
         /\ d = 1 <=> Len(order) = MaxHolds
         /\ Len(order') = Len(order) + 1 - d
         /\ \A i \in 1..Len(order') : order'[i] = IF i + d <= Len(order) THEN order[i + d] ELSE id
  BY <1>b, <1>c, <1>e, <1>f, Grow
<1>3. DOMAIN order = 1..Len(order) /\ DOMAIN order' = 1..Len(order') /\ Len(order) \in Nat
  BY <1>1, <1>b
<1>4. \A i \in DOMAIN order' : IF i + d <= Len(order) THEN i + d \in DOMAIN order /\ order'[i] = order[i + d]
                               ELSE i = Len(order') /\ order'[i] = id
  BY <1>2, <1>3
<1>5. \A i \in DOMAIN order' : order'[i][2] \in offered'
  BY <1>4, <1>b, <1>c
<1>6. \A i \in DOMAIN order : order[i][2] < seq + 1 /\ order[i][2] \in Nat
  BY <1>a, <1>b
<1>7. ASSUME NEW i \in DOMAIN order', NEW k \in DOMAIN order', i < k PROVE order'[i][2] < order'[k][2]
  <2>1. i + d <= Len(order) /\ i + d \in DOMAIN order /\ order'[i] = order[i + d]
    BY <1>2, <1>3, <1>4, <1>7
  <2>2. CASE k + d <= Len(order)
    <3>1. k + d \in DOMAIN order /\ order'[k] = order[k + d] /\ i + d < k + d
      BY <2>2, <1>2, <1>3, <1>4, <1>7
    <3> QED
      BY <2>1, <3>1, <1>b
  <2>3. CASE ~(k + d <= Len(order))
    BY <2>1, <2>3, <1>4, <1>6, <1>c
  <2> QED
    BY <2>2, <2>3
<1>8. id \in held'
  <2>0. Len(order') \in Nat /\ Len(order') >= 1
    <3>1. d = 0 => Len(order') = Len(order) + 1
      BY <1>2, <1>3
    <3>2. d = 1 => Len(order') = MaxHolds
      BY <1>2, <1>3
    <3>3. d = 0 \/ d = 1
      BY <1>2
    <3>4. Len(order) + 1 \in Nat /\ Len(order) + 1 >= 1 /\ MaxHolds \in Nat /\ MaxHolds >= 1
      BY <1>3, <1>a
    <3> QED
      BY <3>1, <3>2, <3>3, <3>4
  <2>1. Len(order') \in DOMAIN order' /\ ~(Len(order') + d <= Len(order))
    BY <2>0, <1>2, <1>3
  <2>2. order'[Len(order')] = id
    BY <2>1, <1>4
  <2> QED
    BY <2>1, <2>2, <1>1 DEF Range
<1>9. ASSUME NEW x \in held, x \notin held'
      PROVE  Cardinality({s \in offered' : s > x[2]}) >= MaxHolds
  <2>1. PICK i \in DOMAIN order : x = order[i]
    BY <1>b DEF Range
  <2>2. i = 1 /\ d = 1
    <3>1. CASE i > d
      <4>1. i - d \in DOMAIN order' /\ (i - d) + d = i /\ (i - d) + d <= Len(order)
        BY <3>1, <1>2, <1>3
      <4>2. order'[i - d] = order[i]
        BY <4>1, <1>4
      <4> QED
        BY <4>1, <4>2, <2>1, <1>1, <1>9 DEF Range
    <3> QED
      BY <3>1, <1>3
  <2> DEFINE T == {s \in offered' : s > x[2]}
             f == [k \in 1..MaxHolds |-> order'[k][2]]
  <2>3. Len(order') = MaxHolds /\ DOMAIN order' = 1..MaxHolds
    BY <2>2, <1>2, <1>3, <1>a
  <2>4. ASSUME NEW k \in 1..MaxHolds PROVE order'[k][2] \in T
    <3>1. order'[k][2] \in offered'
      BY <2>3, <1>5
    <3>2. CASE k + 1 <= Len(order)
      <4>1. order'[k] = order[k + 1] /\ k + 1 \in DOMAIN order /\ 1 < k + 1 /\ 1 \in DOMAIN order
        BY <3>2, <2>2, <2>3, <1>3, <1>4
      <4>2. order[1][2] < order[k + 1][2] /\ order[1][2] \in Nat /\ order[k + 1][2] \in Nat
        BY <4>1, <1>b, <1>6
      <4> QED
        BY <3>1, <4>1, <4>2, <2>1, <2>2
    <3>3. CASE ~(k + 1 <= Len(order))
      <4>1. order'[k] = id
        BY <3>3, <2>2, <2>3, <1>4
      <4>2. x[2] < seq + 1 /\ x[2] \in Nat
        BY <2>1, <1>6
      <4> QED
        BY <3>1, <4>1, <4>2, <1>a, <1>c
    <3> QED
      BY <3>2, <3>3
  <2>5. \A k \in 1..MaxHolds : order'[k][2] \in Nat
    <3>1. offered' \subseteq Nat
      BY <1>a
    <3>2. \A k \in 1..MaxHolds : order'[k][2] \in offered'
      BY <2>3, <1>5
    <3> QED
      BY <3>1, <3>2
  <2>6. \A k, m \in 1..MaxHolds : order'[k][2] = order'[m][2] => k = m
    <3> SUFFICES ASSUME NEW k \in 1..MaxHolds, NEW m \in 1..MaxHolds, k < m
                 PROVE  order'[k][2] # order'[m][2]
      BY <1>a
    <3>1. order'[k][2] < order'[m][2]
      BY <2>3, <1>7
    <3> QED
      BY <3>1, <2>5
  <2> HIDE DEF T
  <2>7. f \in Injection(1..MaxHolds, T)
    <3>1. f \in [1..MaxHolds -> T]
      BY <2>4
    <3>2. \A k, m \in 1..MaxHolds : f[k] = f[m] => k = m
      BY <2>6
    <3> QED
      BY <3>1, <3>2 DEF Injection, IsInjective
  <2> HIDE DEF f
  <2>8. IsFiniteSet(T) /\ Cardinality(T) \in Nat
    <3>1. T \in SUBSET (1..(seq + 1))
      BY <1>a DEF T
    <3>2. IsFiniteSet(1..(seq + 1))
      BY <1>a, FS_Interval
    <3> QED
      BY <3>1, <3>2, FS_Subset, FS_CardinalityType
  <2>9. Cardinality(1..MaxHolds) = MaxHolds
    <3>1. ASSUME NEW n \in Nat PROVE Cardinality(1..n) = n
      BY FS_Interval
    <3> QED
      BY <3>1, <1>a
  <2>10. Cardinality(1..MaxHolds) <= Cardinality(T)
    BY <2>7, <2>8, FS_Injection
  <2> QED
    BY <2>8, <2>9, <2>10, <1>a DEF T
<1>10. \A i \in DOMAIN out' : out'[i] = o \/ \E k \in DOMAIN out : out'[i] = out[k]
  <2>1. UNCHANGED out \/ out' = Append(out, o)
    BY DEF o
  <2>2. \A i \in DOMAIN Append(out, o) : Append(out, o)[i] = o \/ \E k \in DOMAIN out : Append(out, o)[i] = out[k]
    BY <1>a, <1>d, Members
  <2> QED
    BY <2>1, <2>2
<1>11. ASSUME NEW i \in DOMAIN out', out'[i].onDemand
       PROVE  /\ out'[i].id[2] = out'[i].seq
              /\ \/ out'[i].id \in stored' \cup held'
                 \/ Cardinality({s \in offered' : s > out'[i].seq}) >= MaxHolds
  <2>1. CASE out'[i] = o
    BY <2>1, <1>8, <1>c, <1>d
  <2>2. ASSUME NEW k \in DOMAIN out, out'[i] = out[k]
        PROVE  /\ out'[i].id[2] = out'[i].seq
               /\ \/ out'[i].id \in stored' \cup held'
                  \/ Cardinality({s \in offered' : s > out'[i].seq}) >= MaxHolds
    <3>1. out[k].id[2] = out[k].seq
      BY <1>11, <2>2 DEF Ordered
    <3>2. \/ out[k].id \in stored \cup held
          \/ Cardinality({s \in offered : s > out[k].seq}) >= MaxHolds
      BY <1>11, <2>2 DEF HoldKept
    <3>3. CASE out[k].id \in stored \cup held
      BY <3>1, <3>3, <2>2, <1>9
    <3>4. CASE Cardinality({s \in offered : s > out[k].seq}) >= MaxHolds
      <4>1. /\ Cardinality({s \in offered : s > out[k].seq}) \in Nat
            /\ Cardinality({s \in offered' : s > out[k].seq}) \in Nat
            /\ Cardinality({s \in offered : s > out[k].seq}) <= Cardinality({s \in offered' : s > out[k].seq})
        BY <1>a, MoreNewer
      <4>2. Cardinality({s \in offered' : s > out[k].seq}) >= MaxHolds
        BY <3>4, <4>1, <1>a
      <4> QED
        BY <3>1, <4>2, <2>2
    <3> QED
      BY <3>2, <3>3, <3>4
  <2> QED
    BY <2>1, <2>2, <1>10
<1> QED
  BY <1>5, <1>7, <1>11 DEF Ordered, HoldKept

\* A clip that is not offered on demand goes out.
LEMMA PlainOut ==
    ASSUME TypeInv, Ordered, HoldKept, stored \subseteq stored', NEW j \in Jobs, ~j.onDemand,
           UNCHANGED out \/ out' = Append(out, j), UNCHANGED <<held, order, offered>>
    PROVE  Ordered' /\ HoldKept'
<1>1. out \in Seq(Jobs)
  BY DEF TypeInv, Work
<1>2. \A i \in DOMAIN Append(out, j) : Append(out, j)[i] = j \/ \E k \in DOMAIN out : Append(out, j)[i] = out[k]
  BY <1>1, Members
<1>3. \A i \in DOMAIN out' : out'[i].onDemand => \E k \in DOMAIN out : out'[i] = out[k]
  BY <1>2
<1>4. /\ \A i \in DOMAIN out' : out'[i].onDemand => out'[i].id[2] = out'[i].seq
      /\ HoldKept'
  BY <1>3, NoOffer
<1> QED
  BY <1>4 DEF Ordered

\* With an end-to-end key, every step keeps the ring of holds in the order of the offers.
LEMMA SealedStep ==
    ASSUME E2E, TypeInv, Holds, Sealed, Next, TypeInv'
    PROVE  Sealed'
<1> HIDE DEF Next
<1>a. Eager /\ Served /\ Ordered /\ HoldKept
  BY DEF Sealed
<1>b. Eager' /\ Served' /\ stored \subseteq stored'
  BY <1>a, EagerStep, ServedStep
<1>c. seq + 1 \in Nat \ {0}
  BY DEF TypeInv, Work
<1>d. ASSUME UNCHANGED <<out, held, order, offered>> PROVE Ordered' /\ HoldKept'
  <2>1. /\ \A i \in DOMAIN out' : out'[i].onDemand => out'[i].id[2] = out'[i].seq
        /\ HoldKept'
    BY <1>a, <1>b, <1>d, NoOffer
  <2> QED
    BY <1>a, <1>d, <2>1 DEF Ordered
<1> SUFFICES Ordered' /\ HoldKept'
  BY <1>b DEF Sealed
<1>1. CASE HandleCmd
  <2> DEFINE v == Head(cmds).val
             t == OutClip(seq + 1, "text", v, FALSE)
  <2>1. Head(cmds) \in Commands
    BY <1>1, Heads DEF HandleCmd
  <2>2. Head(cmds).kind \in Formats /\ v \in Values
    BY <2>1 DEF Commands
  <2>3. t \in Jobs /\ ~t.onDemand
    <3> HIDE DEF v
    <3> QED
      BY <1>c, <2>2, OutClipType DEF Formats
  <2>4. (UNCHANGED out \/ out' = Append(out, t)) /\ UNCHANGED <<held, order, offered>>
    BY <1>1, <2>2 DEF HandleCmd, Skip, SendTextClip, SpawnImageClip, Formats, holdVars, histVars
  <2> HIDE DEF t
  <2> QED
    BY <1>a, <1>b, <2>3, <2>4, PlainOut
<1>2. CASE SendFileClip
  <2> DEFINE p == Head(batch).val
  <2>1. p \in Paths
    BY <1>2, Heads DEF SendFileClip
  <2>2. UNCHANGED stored
    BY <1>2 DEF SendFileClip, worldVars
  <2>3. \/ UNCHANGED <<out, held, order, offered>>
        \/ /\ HoldOnDemand(BlobId(p, seq + 1)) /\ seq' = seq + 1 /\ offered' = offered \cup {seq + 1}
           /\ UNCHANGED out \/ out' = Append(out, OutClip(seq + 1, "files", p, TRUE))
    BY <1>2 DEF SendFileClip, AdvertiseFile, holdVars
  <2> HIDE DEF p
  <2> QED
    BY <1>a, <1>d, <2>1, <2>2, <2>3, Offer
<1>3. CASE FlushOne
  <2> DEFINE j == [Head(pending) EXCEPT !.arrived = (link = "up")]
  <2>1. Head(pending) \in Jobs /\ Head(pending) = pending[1] /\ 1 \in DOMAIN pending
    <3>1. pending \in Seq(Jobs) /\ pending # <<>>
      BY <1>3 DEF FlushOne, TypeInv, Work
    <3> QED
      BY <3>1
  <2>2. ~Head(pending).onDemand
    BY <2>1, <1>a DEF Eager
  <2>3. j \in Jobs /\ ~j.onDemand
    BY <2>1, <2>2, ArrivedType
  <2>4. out' = Append(out, j) /\ UNCHANGED <<held, order, offered>>
    BY <1>3 DEF FlushOne, Advertise, holdVars, histVars
  <2> HIDE DEF j
  <2> QED
    BY <1>a, <1>b, <2>3, <2>4, PlainOut
<1>4. CASE HandleUpload
  <2> DEFINE h == Head(results).what
             j == [h EXCEPT !.arrived = (link = "up")]
  <2>0. results # <<>> /\ Head(results).op = "upload"
    BY <1>4 DEF HandleUpload, TakeResult
  <2>1. Head(results) = results[1] /\ 1 \in DOMAIN results /\ h \in Jobs
    <3>1. results \in Seq(Uploads \cup Serves \cup Pulls)
      BY DEF TypeInv, Work
    <3>2. Head(results) = results[1] /\ 1 \in DOMAIN results
      BY <2>0, <3>1
    <3>3. Head(results) \in Uploads
      BY <2>0, Heads
    <3> QED
      BY <3>2, <3>3 DEF Uploads
  <2>2. ~h.onDemand
    BY <2>0, <2>1, <1>a DEF Eager
  <2>3. j \in Jobs /\ ~j.onDemand
    <3> HIDE DEF h
    <3> QED
      BY <2>1, <2>2, ArrivedType
  <2>4. (UNCHANGED out \/ out' = Append(out, j)) /\ UNCHANGED <<held, order, offered>>
    BY <1>4 DEF HandleUpload, Advertise, holdVars, histVars
  <2> HIDE DEF j
  <2> QED
    BY <1>a, <1>b, <2>3, <2>4, PlainOut
<1>5. CASE HandleServe
  <2> DEFINE id == Head(results).what
  <2>0. results # <<>> /\ Head(results).op = "serve"
    BY <1>5 DEF HandleServe, TakeResult
  <2>1. Head(results).ok => id \in stored
    <3>1. results \in Seq(Uploads \cup Serves \cup Pulls)
      BY DEF TypeInv, Work
    <3>2. Head(results) = results[1] /\ 1 \in DOMAIN results
      BY <2>0, <3>1
    <3> QED
      BY <2>0, <3>2, <1>a DEF Served
  <2>2. UNCHANGED <<out, offered, stored>>
    BY <1>5 DEF HandleServe, histVars, worldVars
  <2>3. \/ UNCHANGED <<held, order>>
        \/ id \in stored /\ id \in held /\ held' = held \ {id} /\ order' = Retain(id)
    BY <1>5, <2>1 DEF HandleServe, holdVars
  <2> HIDE DEF id
  <2>4. CASE UNCHANGED <<held, order>>
    BY <2>2, <2>4, <1>d
  <2>5. CASE id \in stored /\ id \in held /\ held' = held \ {id} /\ order' = Retain(id)
    <3>1. /\ order \in Seq(Ids) /\ held = Range(order)
          /\ \A i, k \in DOMAIN order : order[i] = order[k] => i = k
      BY DEF Holds
    <3>2. order' \in Seq(Ids) /\ Len(order') = Len(order) - 1
      BY <2>5, <3>1, Shrink
    <3>3. PICK n \in DOMAIN order :
             \A k \in 1..(Len(order) - 1) : order'[k] = IF k < n THEN order[k] ELSE order[k + 1]
      BY <2>5, <3>1, Shrink
    <3>4. DOMAIN order = 1..Len(order) /\ Len(order) \in Nat /\ DOMAIN order' = 1..(Len(order) - 1)
          /\ n \in 1..Len(order)
      BY <3>1, <3>2
    <3>5. /\ \A i \in DOMAIN order : order[i][2] \in offered
          /\ \A i, k \in DOMAIN order : i < k => order[i][2] < order[k][2]
      BY <1>a DEF Ordered
    <3>6. \A i \in DOMAIN order' : order'[i][2] \in offered'
      BY <3>3, <3>4, <3>5, <2>2
    <3>7. ASSUME NEW i \in DOMAIN order', NEW k \in DOMAIN order', i < k PROVE order'[i][2] < order'[k][2]
      <4>1. PICK a \in DOMAIN order : order'[i] = order[a] /\ a = IF i < n THEN i ELSE i + 1
        BY <3>3, <3>4
      <4>2. PICK b \in DOMAIN order : order'[k] = order[b] /\ b = IF k < n THEN k ELSE k + 1
        BY <3>3, <3>4
      <4>3. a < b
        BY <4>1, <4>2, <3>4, <3>7
      <4> QED
        BY <4>1, <4>2, <4>3, <3>5
    <3>8. held \subseteq held' \cup stored'
      BY <2>5, <2>2
    <3>9. /\ \A i \in DOMAIN out' : out'[i].onDemand => out'[i].id[2] = out'[i].seq
          /\ HoldKept'
      BY <1>a, <1>b, <2>2, <3>8, NoOffer
    <3> QED
      BY <3>6, <3>7, <3>9 DEF Ordered
  <2> QED
    BY <2>3, <2>4, <2>5
<1>6. CASE \/ HandlePull
           \/ \E p \in Large : EditFile(p)
           \/ \E c \in Clips : HandleIncomingBlob(c)
           \/ \E i \in DOMAIN out : HandleBlobRequest(out[i])
           \/ \E ok \in BOOLEAN : \/ \E j \in uploading : UploadDone(j, ok)
                                  \/ \E s \in serving : ServeDone(s, ok)
                                  \/ \E c \in pulling : PullDone(c, ok)
           \/ UNCHANGED <<out, held, order, offered>>
  BY <1>6, <1>d DEF HandlePull, EditFile, HandleIncomingBlob, HandleBlobRequest, UploadDone, ServeDone,
     PullDone, holdVars, histVars
<1> QED
  BY <1>1, <1>2, <1>3, <1>4, <1>5, <1>6, WorkFrame

\* With an end-to-end key, a blob that was offered is held until the server has it or
\* MaxHolds newer ones were offered, in any order of offers, requests, failures and
\* reconnects.  Without a key that does not hold: the id is then of the file's bytes, and
\* offering a file that is still held does not renew its place in the order.
THEOREM HoldsSurvive ==
    ASSUME E2E
    PROVE  Spec => []HoldKept
<1>1. ASSUME Init PROVE Sealed
  BY <1>1 DEF Init, Sealed, Eager, Served, Ordered, HoldKept
<1>2. ASSUME IndInv, IndInv', Sealed, [Next]_vars PROVE Sealed'
  <2>1. CASE Next
    BY <1>2, <2>1, SealedStep DEF IndInv
  <2>2. CASE UNCHANGED vars
    BY <1>2, <2>2 DEF Sealed, Eager, Served, Ordered, HoldKept, vars, holdVars, workVars, worldVars, histVars
  <2> QED
    BY <1>2, <2>1, <2>2
<1>3. Sealed => HoldKept
  BY DEF Sealed
<1> QED
  BY <1>1, <1>2, <1>3, Invariance, PTL DEF Spec

(* ---------------------------------------------------------------------- *)
(* Echo suppression                                                        *)
(* ---------------------------------------------------------------------- *)

\* What the watcher has still to see, has seen, or has told the actor, and the actor will
\* check against a ring.
DueClip(k, v) == changed /\ <<k, v>> \in Items(clip)
DueRead(k, v) == \/ k = "img" /\ read.img = v /\ v # NoVal /\ v # last.img
                 \/ k = "files" /\ read.files # NoVal /\ v \in Range(read.files)
Carries(c, k, v) == c.op = "local" /\ c.kind = k /\ IF k = "files" THEN v \in Range(c.val) ELSE v = c.val
DueCmd(k, v) == \E i \in DOMAIN cmds : Carries(cmds[i], k, v)
DueFile(k, v) == k = "files" /\ \E i \in DOMAIN batch : batch[i].val = v /\ batch[i].check

Due(k, v) == DueClip(k, v) \/ DueRead(k, v) \/ DueCmd(k, v) \/ DueFile(k, v)

\* What may go out: the user's, and what lost its echo guard on the way.
Excused == mine \cup lapsed

\* It may go out or is remembered.
Covered(k, v) == <<k, v>> \in Excused \/ Seen(k, v)

Guarded == \A k \in Formats : \A v : Due(k, v) => Covered(k, v)

\* Without a sequence number the watcher polls a content again: what is not the user's
\* is then what it saw last.
Settled ==
    ~changed /\ ~windows => \A f \in {"img", "text"} :
        clip[f] # NoVal => <<f, clip[f]>> \in mine \/ last[f] = clip[f]

\* What a poll has read is on the clipboard, unless the content changed since.
Reading ==
    /\ read.torn => changed
    /\ read.on /\ windows => changed
    /\ read.on /\ ~read.torn => /\ read.img \in {clip.img, NoVal}
                                /\ read.files \in {Readable(clip).files, NoVal}

\* Only the user copies several formats at once.
Single ==
    \/ Items(clip) \subseteq mine
    \/ \E f \in Formats : \A g \in Formats \ {f} : clip[g] = NoVal

\* What is sent without a check is the user's; what has passed it may go out.
OwnCmds == \A i \in DOMAIN cmds : cmds[i].op = "send" => <<cmds[i].kind, cmds[i].val>> \in mine
OwnFiles == \A i \in DOMAIN batch : ~batch[i].check => <<"files", batch[i].val>> \in mine
OwnJobs ==
    /\ \A j \in uploading : <<j.kind, j.val>> \in Excused
    /\ \A i \in DOMAIN results :
          results[i].op = "upload" => <<results[i].what.kind, results[i].what.val>> \in Excused
    /\ \A i \in DOMAIN pending : <<pending[i].kind, pending[i].val>> \in Excused

Echoless == Guarded /\ Settled /\ Reading /\ Single /\ OwnCmds /\ OwnFiles /\ OwnJobs /\ NoEcho

\* The user's values stay the user's.
LEMMA MineGrows == Next => mine \subseteq mine'
<1> SUFFICES ASSUME Next PROVE mine \subseteq mine'
  OBVIOUS
<1>1. CASE User
  BY <1>1 DEF User, UserCopy, UserSend, EditFile, UserReconnect, histVars
<1>2. CASE Timers \/ Watcher
  BY <1>2 DEF Timers, ClearCheck, ClearClipboard, Watcher, PollBegin, PollEnd, histVars
<1>3. CASE Connection
  BY <1>3 DEF Connection, DialOk, DialFail, FlushOne, FlushFail, EnterLoop, Disconnect, BackoffEnd, histVars
<1>4. CASE Environment
  BY <1>4 DEF Environment, LoseLink, ExpireEcho, HandleIncomingText, HandleIncomingBlob, HandleBlobRequest, histVars
<1>5. CASE Workers
  BY <1>5 DEF Workers, UploadDone, ServeDone, PullDone, histVars
<1>6. CASE Loop
  BY <1>6 DEF Loop, HandleCmd, SendFileClip, HandleUpload, HandleServe, HandlePull, histVars
<1> QED
  BY <1>1, <1>2, <1>3, <1>4, <1>5, <1>6 DEF Next

\* remember makes its value seen.
LEMMA RememberSeen ==
    ASSUME Rings, NEW f \in Formats, NEW v, SetRing(f, Remember(ring[f], v))
    PROVE  Seen(f, v)'
<1> DEFINE r == ring[f]
<1>a. DOMAIN ring = Formats /\ r \in Seq(Entries) /\ Len(r) <= RingMax
  BY DEF Rings
<1>b. ring'[f] = Remember(r, v)
  BY <1>a DEF SetRing
<1>c. \A i \in DOMAIN r : r[i] \in Entries
  BY <1>a
<1>d. RingMax \in Nat \ {0}
  BY EngineConstants
<1>1. CASE \E i \in DOMAIN r : r[i].val = v
  <2> DEFINE e(i) == IF r[i].val = v THEN [r[i] EXCEPT !.live = TRUE] ELSE r[i]
  <2>1. ring'[f] = [i \in DOMAIN r |-> e(i)]
    BY <1>1, <1>b DEF Remember
  <2>2. \A i \in DOMAIN r : e(i).val = r[i].val /\ (r[i].val = v => e(i).live)
    BY <1>c DEF Entries
  <2> HIDE DEF e, r
  <2> QED
    BY <2>1, <2>2, <1>1 DEF Seen
<1>2. CASE ~\E i \in DOMAIN r : r[i].val = v
  <2> DEFINE e == [val |-> v, live |-> TRUE]
             b == IF Len(r) >= RingMax THEN Tail(r) ELSE r
             S == Entries \cup {e}
  <2>1. ring'[f] = Append(b, e)
    BY <1>2, <1>b DEF Remember
  <2>2. e.val = v /\ e.live /\ e \in S /\ r \in Seq(S)
    BY <1>a
  <2> HIDE DEF e, S, Entries
  <2>3. b \in Seq(S)
    BY <2>2, <1>d
  <2> HIDE DEF b
  <2>4. Len(b) + 1 \in DOMAIN ring'[f] /\ ring'[f][Len(b) + 1] = e
    <3>1. Len(b) + 1 \in DOMAIN Append(b, e) /\ Append(b, e)[Len(b) + 1] = e
      BY <2>2, <2>3
    <3> QED
      BY <3>1, <2>1
  <2> QED
    BY <2>4, <2>2 DEF Seen
<1> QED
  BY <1>1, <1>2

\* A step leaves the rings alone or sets one of them.
LEMMA RingSteps ==
    ASSUME TypeInv, Next
    PROVE  UNCHANGED <<ring, lapsed>> \/ \E f \in Formats : SetRing(f, ring'[f])
<1> DEFINE Set == \E f \in Formats : SetRing(f, ring'[f])
           Same == UNCHANGED <<ring, lapsed>>
<1>a. DOMAIN ring = Formats
  BY DEF TypeInv, Rings
<1>b. ASSUME NEW f \in Formats, NEW q, SetRing(f, q) PROVE Set
  <2>1. ring'[f] = q
    BY <1>a, <1>b DEF SetRing
  <2> QED
    BY <1>b, <2>1
<1>d. ASSUME NEW j, Advertise(j) PROVE Same \/ Set
  BY <1>d, <1>b DEF Advertise, Formats
<1>e. ASSUME NEW c \in Clips, Apply(c, c.val) PROVE Set
  BY <1>e, <1>b, EngineConstants DEF Apply
<1> SUFFICES Same \/ Set
  OBVIOUS
<1> HIDE DEF Set, Same
<1>1. CASE FlushOne
  BY <1>1, <1>d DEF FlushOne
<1>2. CASE HandleCmd
  <2>1. Head(cmds) \in Commands
    BY <1>2, Heads DEF HandleCmd
  <2>2. Head(cmds).kind \in Formats
    BY <2>1 DEF Commands
  <2>3. CASE Head(cmds).kind = "text"
    <3>1. CASE Skip
      BY <3>1 DEF Skip, Same
    <3>2. CASE SendTextClip(Head(cmds).val)
      BY <3>2, <1>b DEF SendTextClip, Formats, Same
    <3> QED
      BY <1>2, <2>3, <3>1, <3>2 DEF HandleCmd
  <2>4. CASE Head(cmds).kind = "img"
    BY <1>2, <2>4 DEF HandleCmd, Skip, SpawnImageClip, Same
  <2>5. CASE Head(cmds).kind = "files"
    BY <1>2, <2>5 DEF HandleCmd, Same
  <2> QED
    BY <2>2, <2>3, <2>4, <2>5 DEF Formats
<1>3. CASE HandleUpload
  BY <1>3, <1>d DEF HandleUpload, Same
<1>4. CASE HandlePull
  <2>1. Head(results).what \in Clips
    BY <1>4, Heads DEF HandlePull, TakeResult, Pulls
  <2> QED
    BY <1>4, <2>1, <1>e DEF HandlePull, Same
<1>5. ASSUME NEW f \in Formats, NEW i \in 1..RingMax, ExpireEcho(f, i) PROVE Set
  BY <1>5, <1>b DEF ExpireEcho
<1>6. ASSUME NEW c \in Clips, HandleIncomingText(c) PROVE Set
  BY <1>6, <1>e DEF HandleIncomingText
<1> QED
  BY <1>1, <1>2, <1>3, <1>4, <1>5, <1>6, RingFrame DEF Same

\* What may go out stays so.
LEMMA ExcusedGrows ==
    ASSUME TypeInv, Next
    PROVE  Excused \subseteq Excused'
BY MineGrows, RingSteps DEF SetRing, Excused

\* What was remembered and is still due stays remembered, or the history says that its
\* guard is gone.
LEMMA SeenKept ==
    ASSUME TypeInv, Next, NEW k \in Formats, NEW v, Due(k, v), Seen(k, v)
    PROVE  Seen(k, v)' \/ <<k, v>> \in lapsed'
<1>1. PICK j \in DOMAIN ring[k] : ring[k][j].val = v /\ ring[k][j].live
  BY DEF Seen
<1>2. RoundTrip(k, v)
  BY DEF Due, DueClip, DueRead, DueCmd, DueFile, Carries, RoundTrip
<1>3. CASE ring'[k] = ring[k]
  BY <1>1, <1>3 DEF Seen
<1>4. CASE SetRing(k, ring'[k])
  <2> DEFINE e == ring[k][j]
  <2>1. e \in Range(ring[k]) /\ e.val = v /\ e.live
    BY <1>1 DEF Range
  <2> HIDE DEF e
  <2>2. CASE e \notin Range(ring'[k])
    <3>1. <<k, e.val>> \in lapsed'
      BY <1>2, <1>4, <2>1, <2>2 DEF SetRing
    <3> QED
      BY <3>1, <2>1
  <2>3. CASE e \in Range(ring'[k])
    <3>1. PICK i \in DOMAIN ring'[k] : ring'[k][i] = e
      BY <2>3 DEF Range
    <3> QED
      BY <3>1, <2>1 DEF Seen
  <2> QED
    BY <2>2, <2>3
<1>5. CASE \E f \in Formats : f # k /\ SetRing(f, ring'[f])
  <2>1. ring'[k] = ring[k]
    BY <1>5 DEF SetRing, TypeInv, Rings
  <2> QED
    BY <2>1, <1>3
<1> QED
  BY <1>3, <1>4, <1>5, RingSteps

\* A received clip leaves one item on the clipboard, and clearing it none.
LEMMA AppliedItems ==
    /\ \A c \in Clips : Items(ContentOf(c)) \subseteq {<<c.kind, c.val>>}
    /\ Items(NoContent) = {}
<1>1. ASSUME NEW c \in Clips PROVE Items(ContentOf(c)) \subseteq {<<c.kind, c.val>>}
  <2>0. c.kind \in Formats
    BY EngineConstants
  <2>1. \A f \in Formats : ContentOf(c)[f] = IF f # c.kind THEN NoVal
                                              ELSE IF f = "files" THEN <<c.val>> ELSE c.val
    BY <2>0 DEF ContentOf, NoContent
  <2>2. Range(<<c.val>>) = {c.val}
    BY DEF Range
  <2>3. ASSUME NEW f \in {"img", "text"}, ContentOf(c)[f] # NoVal PROVE <<f, ContentOf(c)[f]>> = <<c.kind, c.val>>
    BY <2>1, <2>3 DEF Formats
  <2>4. ASSUME ContentOf(c).files # NoVal PROVE c.kind = "files" /\ Range(ContentOf(c).files) = {c.val}
    BY <2>1, <2>2, <2>4 DEF Formats
  <2> QED
    BY <2>3, <2>4 DEF Items
<1>2. Items(NoContent) = {}
  BY DEF Items, NoContent, Formats
<1> QED
  BY <1>1, <1>2

\* What applying a clip puts on the clipboard is remembered.
LEMMA AppliedSeen ==
    ASSUME TypeInv, NEW c \in Clips, Apply(c, c.val)
    PROVE  /\ Seen(c.kind, c.val)'
           /\ SetClipboard(ContentOf(c)) \/ UNCHANGED <<clip, changed, read>>
BY RememberSeen, EngineConstants DEF Apply, TypeInv

\* What comes to the clipboard is the user's or remembered.
LEMMA ClipDue ==
    ASSUME TypeInv, Reading, Next, NEW k \in Formats, NEW v, DueClip(k, v)'
    PROVE  Due(k, v) \/ Covered(k, v)'
<1>a. <<k, v>> \in Items(clip') /\ changed'
  BY DEF DueClip, Items
<1>b. ASSUME UNCHANGED <<clip, changed>> PROVE Due(k, v)
  BY <1>a, <1>b DEF Due, DueClip
<1>c. ASSUME NEW c \in Clips, Apply(c, c.val) PROVE Due(k, v) \/ Covered(k, v)'
  <2>1. CASE SetClipboard(ContentOf(c))
    <3>1. <<k, v>> = <<c.kind, c.val>>
      BY <1>a, <2>1, AppliedItems DEF SetClipboard
    <3> QED
      BY <3>1, <1>c, AppliedSeen DEF Covered
  <2> QED
    BY <2>1, <1>b, <1>c, AppliedSeen
<1>1. ASSUME NEW c \in Copies, UserCopy(c) PROVE Covered(k, v)'
  BY <1>1, <1>a DEF UserCopy, SetClipboard, Covered, Excused
<1>2. ASSUME NEW c \in Sends, UserSend(c) PROVE Due(k, v)
  BY <1>2, <1>b DEF UserSend, osVars
<1>3. CASE ClearClipboard
  BY <1>3, <1>a, AppliedItems DEF ClearClipboard, SetClipboard
<1>4. CASE PollBegin
  BY <1>4, <1>b DEF PollBegin, osVars
<1>5. CASE PollEnd
  <2>1. clip' = clip /\ (changed' = read.torn \/ changed' = changed)
    BY <1>5 DEF PollEnd
  <2>2. changed
    BY <2>1, <1>a DEF Reading
  <2> QED
    BY <2>1, <2>2, <1>a DEF Due, DueClip
<1>6. CASE HandleCmd
  BY <1>6, <1>b DEF HandleCmd, osVars
<1>7. ASSUME NEW c \in Clips, HandleIncomingText(c) PROVE Due(k, v) \/ Covered(k, v)'
  BY <1>7, <1>c DEF HandleIncomingText
<1>8. CASE HandlePull
  <2>1. Head(results).what \in Clips
    BY <1>8, Heads DEF HandlePull, TakeResult, Pulls
  <2> QED
    BY <1>8, <2>1, <1>b, <1>c DEF HandlePull
<1> QED
  BY <1>1, <1>2, <1>3, <1>4, <1>5, <1>6, <1>7, <1>8, <1>b, BoardFrame

\* What a poll reads was due on the clipboard, unless it is the user's.
LEMMA ReadDue ==
    ASSUME TypeInv, Settled, Next, NEW k \in Formats, NEW v, DueRead(k, v)'
    PROVE  Due(k, v) \/ Covered(k, v)'
<1>a. IsContent(clip) /\ read \in [on : BOOLEAN, torn : BOOLEAN, img : Values, files : Values \cap Lists]
  BY DEF TypeInv, Boards
<1>b. ASSUME read'.img = read.img, read'.files = read.files, UNCHANGED last PROVE Due(k, v)
  BY <1>b DEF Due, DueRead
<1>c. ASSUME NEW c, SetClipboard(c), UNCHANGED last PROVE Due(k, v)
  <2>1. read'.img = read.img /\ read'.files = read.files
    BY <1>a, <1>c DEF SetClipboard
  <2> QED
    BY <2>1, <1>b, <1>c
<1>d. ASSUME NEW c \in Clips, Apply(c, c.val), UNCHANGED last PROVE Due(k, v)
  BY <1>b, <1>c, <1>d DEF Apply
<1>1. ASSUME NEW c \in Copies, UserCopy(c) PROVE Due(k, v)
  BY <1>1, <1>c DEF UserCopy
<1>2. ASSUME NEW c \in Sends, UserSend(c) PROVE Due(k, v)
  BY <1>2, <1>b DEF UserSend, watchVars
<1>3. CASE ClearClipboard
  BY <1>3, <1>c DEF ClearClipboard
<1>4. CASE PollBegin
  <2>1. /\ read'.img \in {clip.img, NoVal} /\ read'.files \in {Readable(clip).files, NoVal}
        /\ changed \/ ~windows
    BY <1>4 DEF PollBegin
  <2>0. UNCHANGED <<last, mine>>
    BY <1>4 DEF PollBegin
  <2>2. CASE k = "img"
    <3>1. v = clip.img /\ v # NoVal /\ v # last.img
      BY <2>0, <2>1, <2>2 DEF DueRead
    <3>2. CASE changed
      <4>1. <<k, v>> \in Items(clip)
        BY <2>2, <3>1 DEF Items
      <4> QED
        BY <3>2, <4>1 DEF Due, DueClip
    <3>3. CASE ~changed
      BY <2>0, <2>1, <2>2, <3>1, <3>3 DEF Settled, Covered, Excused
    <3> QED
      BY <3>2, <3>3
  <2>3. CASE k = "files"
    <3>1. Readable(clip).files # NoVal /\ v \in Range(Readable(clip).files)
      BY <2>1, <2>3 DEF DueRead
    <3>2. windows /\ clip.files # NoVal /\ v \in Range(clip.files)
      BY <3>1, <1>a, ReadableContent
    <3>3. <<k, v>> \in Items(clip)
      BY <3>2, <2>3 DEF Items
    <3> QED
      BY <3>2, <3>3, <2>1 DEF Due, DueClip
  <2> QED
    BY <2>2, <2>3 DEF DueRead
<1>5. CASE PollEnd
  BY <1>5 DEF PollEnd, DueRead, NotReading
<1>6. CASE HandleCmd
  BY <1>6, <1>b DEF HandleCmd, watchVars
<1>7. ASSUME NEW c \in Clips, HandleIncomingText(c) PROVE Due(k, v)
  BY <1>7, <1>d DEF HandleIncomingText
<1>8. CASE HandlePull
  <2>1. Head(results).what \in Clips
    BY <1>8, Heads DEF HandlePull, TakeResult, Pulls
  <2> QED
    BY <1>8, <2>1, <1>b, <1>d DEF HandlePull
<1> QED
  BY <1>1, <1>2, <1>3, <1>4, <1>5, <1>6, <1>7, <1>8, <1>b, BoardFrame

\* A poll tells the actor what it read and is new, which was due or is the user's.
LEMMA CmdDue ==
    ASSUME TypeInv, Settled, Reading, Next, NEW k \in Formats, NEW v, DueCmd(k, v)'
    PROVE  Due(k, v) \/ Covered(k, v)'
<1>a. cmds \in Seq(Commands) /\ IsContent(clip)
  BY DEF TypeInv, Boards
<1>b. PICK i \in DOMAIN cmds' : Carries(cmds'[i], k, v)
  BY DEF DueCmd, Carries
<1>c. ASSUME \E j \in DOMAIN cmds : cmds'[i] = cmds[j] PROVE Due(k, v)
  BY <1>b, <1>c DEF Due, DueCmd
<1>1. ASSUME UNCHANGED cmds PROVE Due(k, v)
  BY <1>1, <1>c
<1>2. ASSUME NEW c \in Sends, UserSend(c) PROVE Due(k, v)
  <2> DEFINE x == [op |-> "send", kind |-> c.kind, val |-> c.val]
  <2>1. cmds' = Append(cmds, x) /\ x.op # "local"
    BY <1>2 DEF UserSend
  <2>2. cmds \in Seq(Commands \cup {x}) /\ x \in Commands \cup {x}
    BY <1>a
  <2> HIDE DEF x
  <2>3. cmds'[i] = x \/ \E j \in DOMAIN cmds : cmds'[i] = cmds[j]
    BY <2>1, <2>2, Members
  <2> QED
    BY <2>1, <2>3, <1>b, <1>c DEF Carries
<1>3. CASE PollEnd
  <2>1. PICK ok \in BOOLEAN :
          LET r == ReadContent(IF ok THEN clip.text ELSE NoVal) IN
          cmds' = IF NewIn(r) = {} THEN cmds
                  ELSE Append(cmds, [op |-> "local", kind |-> Richest(NewIn(r)), val |-> r[Richest(NewIn(r))]])
    BY <1>3 DEF PollEnd
  <2> DEFINE r == ReadContent(IF ok THEN clip.text ELSE NoVal)
             f == Richest(NewIn(r))
             x == [op |-> "local", kind |-> f, val |-> r[f]]
  <2>2. cmds \in Seq(Commands \cup {x}) /\ x \in Commands \cup {x}
    BY <1>a
  <2>3. cmds' = cmds \/ (NewIn(r) # {} /\ cmds' = Append(cmds, x))
    BY <2>1
  <2>4. NewIn(r) # {} => f \in NewIn(r)
    BY DEF NewIn, Richest, Formats
  <2>5. r.img = read.img /\ r.files = read.files /\ r.text \in {clip.text, NoVal}
    BY DEF ReadContent
  <2> HIDE DEF x, f, r
  <2>6. CASE NewIn(r) # {} /\ cmds' = Append(cmds, x) /\ cmds'[i] = x
    <3>1. x.kind = f /\ x.val = r[f]
      BY DEF x
    <3>2. f = k /\ r[k] # NoVal /\ r[k] # last[k]
      BY <3>1, <2>4, <2>6, <1>b DEF Carries, NewIn
    <3>3. CASE k = "img"
      BY <3>1, <3>2, <3>3, <2>5, <2>6, <1>b DEF Carries, Due, DueRead
    <3>4. CASE k = "files"
      BY <3>1, <3>2, <3>4, <2>5, <2>6, <1>b DEF Carries, Due, DueRead
    <3>5. CASE k = "text"
      <4>1. v = clip.text /\ v # NoVal /\ v # last.text
        BY <3>1, <3>2, <3>5, <2>5, <2>6, <1>b DEF Carries
      <4>2. CASE changed
        <5>1. <<k, v>> \in Items(clip)
          BY <3>5, <4>1 DEF Items
        <5> QED
          BY <4>2, <5>1 DEF Due, DueClip
      <4>3. CASE ~changed
        <5>1. ~windows /\ mine' = mine
          BY <4>3, <1>3 DEF Reading, PollEnd
        <5> QED
          BY <5>1, <4>1, <4>3, <3>5 DEF Settled, Covered, Excused
      <4> QED
        BY <4>2, <4>3
    <3> QED
      BY <3>3, <3>4, <3>5 DEF Formats
  <2>7. cmds' = cmds \/ cmds'[i] = x \/ \E j \in DOMAIN cmds : cmds'[i] = cmds[j]
    BY <2>2, <2>3, Members
  <2> QED
    BY <2>3, <2>6, <2>7, <1>1, <1>c
<1>4. CASE HandleCmd
  <2>1. \E j \in DOMAIN cmds : cmds'[i] = cmds[j]
    BY <1>4, <1>a, Members DEF HandleCmd
  <2> QED
    BY <2>1, <1>c
<1>5. \/ \E c \in Sends : UserSend(c)
      \/ PollEnd \/ HandleCmd \/ UNCHANGED cmds
  BY BoardFrame DEF UserCopy, ClearClipboard, PollBegin, HandleIncomingText, HandlePull
<1> QED
  BY <1>1, <1>2, <1>3, <1>4, <1>5

\* A file that is to be checked comes from a command of the watcher.
LEMMA FileDue ==
    ASSUME TypeInv, Next, NEW k \in Formats, NEW v, DueFile(k, v)'
    PROVE  Due(k, v)
<1>a. batch \in Seq(Todo) /\ cmds \in Seq(Commands)
  BY DEF TypeInv, Boards, Place
<1>b. k = "files" /\ \E i \in DOMAIN batch' : batch'[i].val = v /\ batch'[i].check
  BY DEF DueFile
<1>c. ASSUME UNCHANGED batch PROVE Due(k, v)
  BY <1>b, <1>c DEF Due, DueFile
<1>d. ASSUME batch # <<>>, batch' = Tail(batch) PROVE Due(k, v)
  <2>1. \A i \in DOMAIN batch' : \E j \in DOMAIN batch : batch'[i] = batch[j]
    BY <1>a, <1>d, Members
  <2> QED
    BY <2>1, <1>b DEF Due, DueFile
<1>1. CASE HandleCmd
  <2> DEFINE c == Head(cmds)
  <2>1. c \in Commands /\ cmds # <<>> /\ c = cmds[1] /\ 1 \in DOMAIN cmds
    BY <1>1, <1>a DEF HandleCmd
  <2>2. c.kind \in Formats /\ c.op \in {"local", "send"}
    BY <2>1 DEF Commands
  <2>3. CASE c.kind = "text"
    BY <1>1, <2>3, <1>c DEF HandleCmd, Skip, SendTextClip
  <2>4. CASE c.kind = "img"
    BY <1>1, <2>4, <1>c DEF HandleCmd, Skip, SpawnImageClip
  <2>5. CASE c.kind = "files"
    <3>1. batch' = IF c.op = "send" THEN <<[val |-> c.val, check |-> FALSE]>>
                   ELSE [i \in DOMAIN c.val |-> [val |-> c.val[i], check |-> TRUE]]
      BY <1>1, <2>5 DEF HandleCmd
    <3>2. c.op = "local"
      <4>1. SUFFICES ASSUME c.op = "send" PROVE FALSE
        BY <2>2
      <4>2. batch' = <<[val |-> c.val, check |-> FALSE]>>
        BY <3>1, <4>1
      <4>3. \A i \in DOMAIN batch' : ~batch'[i].check
        BY <4>2
      <4> QED
        BY <4>3, <1>b
    <3>3. batch' = [i \in DOMAIN c.val |-> [val |-> c.val[i], check |-> TRUE]]
      BY <3>1, <3>2
    <3>4. v \in Range(c.val)
      BY <3>3, <1>b DEF Range
    <3>5. Carries(cmds[1], k, v)
      BY <3>2, <3>4, <2>1, <2>5, <1>b DEF Carries
    <3> QED
      BY <3>5, <2>1 DEF Due, DueCmd
  <2> QED
    BY <2>2, <2>3, <2>4, <2>5 DEF Formats
<1>2. CASE SendFileClip
  <2>1. batch # <<>> /\ (batch' = Tail(batch) \/ batch' = <<>>)
    BY <1>2 DEF SendFileClip, AdvertiseFile
  <2>2. batch' # <<>>
    BY <1>b
  <2> QED
    BY <2>1, <2>2, <1>d
<1>3. HandleCmd \/ SendFileClip \/ UNCHANGED batch
  BY PlaceFrame DEF DialOk, DialFail, FlushFail, EnterLoop, Disconnect, BackoffEnd, UserReconnect,
     HandleUpload, LoseLink
<1> QED
  BY <1>1, <1>2, <1>3, <1>c

\* Whatever is due is covered after every step.
LEMMA GuardedStep ==
    ASSUME TypeInv, Guarded, Settled, Reading, Next
    PROVE  Guarded'
<1> SUFFICES ASSUME NEW k \in Formats, NEW v, Due(k, v)' PROVE Covered(k, v)'
  BY DEF Guarded
<1>1. Due(k, v) \/ Covered(k, v)'
  BY ClipDue, ReadDue, CmdDue, FileDue DEF Due
<1>2. ASSUME Due(k, v) PROVE Covered(k, v)'
  <2>1. <<k, v>> \in Excused \/ Seen(k, v)
    BY <1>2 DEF Guarded, Covered
  <2>2. Excused \subseteq Excused'
    BY ExcusedGrows
  <2>3. lapsed' \subseteq Excused'
    BY DEF Excused
  <2> QED
    BY <2>1, <2>2, <2>3, <1>2, SeenKept DEF Covered
<1> QED
  BY <1>1, <1>2

\* A poll of a content of one format, or of the user's, leaves nothing else to be seen.
LEMMA PollSettles ==
    ASSUME TypeInv, Settled, Reading, Single, PollEnd
    PROVE  Settled' /\ Reading'
<1>a. /\ IsContent(clip) /\ DOMAIN last = Formats
      /\ read \in [on : BOOLEAN, torn : BOOLEAN, img : Values, files : Values \cap Lists]
  BY DEF TypeInv, Boards
<1>b. UNCHANGED <<windows, clip, mine>> /\ read' = NotReading /\ read.on
  BY DEF PollEnd
<1>c. PICK ok \in BOOLEAN :
        LET r == ReadContent(IF ok THEN clip.text ELSE NoVal) IN
        /\ last' = LastAfter(r)
        /\ changed' = IF Present(r) # {} THEN read.torn ELSE changed
  BY DEF PollEnd
<1> DEFINE r == ReadContent(IF ok THEN clip.text ELSE NoVal)
<1>d. /\ last' = LastAfter(r) /\ changed' = IF Present(r) # {} THEN read.torn ELSE changed
      /\ DOMAIN r = Formats /\ r.img = read.img /\ r.files = read.files /\ r.text \in {clip.text, NoVal}
  BY <1>c DEF ReadContent, Formats
<1> HIDE DEF r
<1>1. Reading'
  BY <1>b DEF Reading, NotReading
<1>2. Settled'
  <2> SUFFICES ASSUME ~changed', ~windows, NEW f \in {"img", "text"}, clip[f] # NoVal, <<f, clip[f]>> \notin mine
               PROVE  last'[f] = clip[f]
    BY <1>b DEF Settled
  <2>1. CASE Present(r) = {}
    <3>1. NewIn(r) = {}
      BY <2>1 DEF Present, NewIn
    <3>2. last' = last /\ ~changed
      BY <2>1, <3>1, <1>d DEF LastAfter
    <3> QED
      BY <3>2 DEF Settled
  <2>2. CASE Present(r) # {}
    <3>1. ~read.torn
      BY <2>2, <1>d
    <3>2. r.img \in {clip.img, NoVal} /\ r.files = NoVal
      BY <3>1, <1>a, <1>b, <1>d, ReadableContent DEF Reading
    <3>3. <<f, clip[f]>> \in Items(clip)
      BY DEF Items
    <3>4. \A g \in Formats \ {f} : clip[g] = NoVal
      BY <3>3 DEF Single, Formats
    <3>5. \A g \in Formats : r[g] \in {clip[g], NoVal}
      BY <3>2, <1>d DEF Formats
    <3>6. PICK g \in Formats : r[g] # NoVal
      BY <2>2 DEF Present
    <3>7. g = f /\ r[f] = clip[f] /\ \A h \in Formats \ {f} : r[h] = NoVal
      BY <3>4, <3>5, <3>6
    <3>8. NewIn(r) \subseteq {f} /\ (f \in NewIn(r) <=> r[f] # last[f])
      BY <3>7, <3>6 DEF NewIn
    <3>9. CASE f \notin NewIn(r)
      <4>1. NewIn(r) = {} /\ last[f] = clip[f]
        BY <3>7, <3>8, <3>9
      <4> QED
        BY <4>1, <1>d DEF LastAfter
    <3>10. CASE f \in NewIn(r) /\ f = "img"
      BY <3>7, <3>10, <1>d DEF LastAfter
    <3>11. CASE f \in NewIn(r) /\ f = "text"
      <4>1. NewIn(r) \cap {"img", "files"} = {} /\ NewIn(r) # {}
        BY <3>8, <3>11
      <4>2. last' = [last EXCEPT !.text = r.text]
        BY <4>1, <1>d DEF LastAfter
      <4> QED
        BY <4>2, <3>7, <3>11, <1>a DEF Formats
    <3> QED
      BY <3>9, <3>10, <3>11
  <2> QED
    BY <2>1, <2>2
<1> QED
  BY <1>1, <1>2

\* What the watcher can find on the clipboard, through every step.
LEMMA SettledStep ==
    ASSUME TypeInv, Settled, Reading, Single, Next
    PROVE  Settled' /\ Reading' /\ Single'
<1>a. IsContent(clip) /\ read \in [on : BOOLEAN, torn : BOOLEAN, img : Values, files : Values \cap Lists]
  BY DEF TypeInv, Boards
<1>m. mine \subseteq mine'
  BY MineGrows
<1>b. ASSUME UNCHANGED <<windows, clip, last, read, changed>> PROVE Settled' /\ Reading' /\ Single'
  <2>1. Items(clip)' = Items(clip) /\ Readable(clip)' = Readable(clip)
    BY <1>b DEF Items, Readable
  <2>2. Single'
    BY <1>b, <1>m, <2>1 DEF Single
  <2>3. Settled' /\ Reading'
    BY <1>b, <1>m, <2>1 DEF Settled, Reading
  <2> QED
    BY <2>2, <2>3
<1>c. ASSUME NEW c, SetClipboard(c),
             Items(c) \subseteq mine' \/ \E f \in Formats : \A g \in Formats \ {f} : c[g] = NoVal
      PROVE  Settled' /\ Reading' /\ Single'
  <2>1. clip' = c /\ changed' = TRUE /\ read'.torn = read.on /\ read'.on = read.on
    BY <1>a, <1>c DEF SetClipboard
  <2>2. Items(clip)' = Items(c)
    BY <2>1 DEF Items
  <2>3. Single'
    BY <1>c, <2>1, <2>2 DEF Single
  <2> QED
    BY <2>1, <2>3 DEF Settled, Reading
<1>d. ASSUME NEW c \in Clips, Apply(c, c.val), UNCHANGED <<windows, last>> PROVE Settled' /\ Reading' /\ Single'
  <2>1. c.kind \in Formats /\ \A g \in Formats \ {c.kind} : ContentOf(c)[g] = NoVal
    BY EngineConstants DEF ContentOf, NoContent
  <2>2. CASE SetClipboard(ContentOf(c))
    BY <2>1, <2>2, <1>c
  <2>3. CASE UNCHANGED <<clip, changed, read>>
    BY <2>3, <1>b, <1>d
  <2> QED
    BY <2>2, <2>3, <1>d DEF Apply
<1>1. ASSUME NEW c \in Copies, UserCopy(c) PROVE Settled' /\ Reading' /\ Single'
  BY <1>1, <1>c DEF UserCopy
<1>2. ASSUME NEW c \in Sends, UserSend(c) PROVE Settled' /\ Reading' /\ Single'
  BY <1>2, <1>b DEF UserSend, osVars, watchVars
<1>3. CASE ClearClipboard
  <2>1. SetClipboard(NoContent) /\ Items(NoContent) \subseteq mine'
    BY <1>3, AppliedItems DEF ClearClipboard
  <2> QED
    BY <2>1, <1>c
<1>4. CASE PollBegin
  <2>1. UNCHANGED <<windows, clip, changed, last, mine>>
    BY <1>4 DEF PollBegin, osVars
  <2>2. /\ ~read'.torn /\ (changed \/ ~windows)
        /\ read'.img \in {clip.img, NoVal} /\ read'.files \in {Readable(clip).files, NoVal}
    BY <1>4 DEF PollBegin
  <2>3. Readable(clip)' = Readable(clip) /\ Items(clip)' = Items(clip)
    BY <2>1 DEF Readable, Items
  <2>4. Reading'
    BY <2>1, <2>2, <2>3 DEF Reading
  <2> QED
    BY <2>1, <2>3, <2>4 DEF Settled, Single
<1>5. CASE PollEnd
  <2>1. UNCHANGED <<clip, mine>>
    BY <1>5 DEF PollEnd
  <2>2. Items(clip)' = Items(clip)
    BY <2>1 DEF Items
  <2>3. Single'
    BY <2>1, <2>2 DEF Single
  <2> QED
    BY <2>3, <1>5, PollSettles
<1>6. CASE HandleCmd
  BY <1>6, <1>b DEF HandleCmd, osVars, watchVars
<1>7. ASSUME NEW c \in Clips, HandleIncomingText(c) PROVE Settled' /\ Reading' /\ Single'
  BY <1>7, <1>d DEF HandleIncomingText
<1>8. CASE HandlePull
  <2>1. Head(results).what \in Clips
    BY <1>8, Heads DEF HandlePull, TakeResult, Pulls
  <2> QED
    BY <1>8, <2>1, <1>b, <1>d DEF HandlePull
<1> QED
  BY <1>1, <1>2, <1>3, <1>4, <1>5, <1>6, <1>7, <1>8, <1>b, BoardFrame

\* What is in a sequence after Append, whatever is appended.
LEMMA Appended ==
    ASSUME NEW S, NEW s \in Seq(S), NEW x
    PROVE  \A i \in DOMAIN Append(s, x) : Append(s, x)[i] = x \/ \E k \in DOMAIN s : Append(s, x)[i] = s[k]
<1>1. s \in Seq(S \cup {x}) /\ x \in S \cup {x}
  OBVIOUS
<1> QED
  BY <1>1, Members

\* Only the user sends past the check.
LEMMA OwnCmdStep ==
    ASSUME TypeInv, OwnCmds, Next
    PROVE  OwnCmds'
<1>a. cmds \in Seq(Commands)
  BY DEF TypeInv, Boards
<1>m. mine \subseteq mine'
  BY MineGrows
<1>b. ASSUME \A i \in DOMAIN cmds' : cmds'[i].op # "send" \/ \E j \in DOMAIN cmds : cmds'[i] = cmds[j]
      PROVE  OwnCmds'
  BY <1>b, <1>m DEF OwnCmds
<1>1. ASSUME NEW c \in Sends, UserSend(c) PROVE OwnCmds'
  <2> DEFINE x == [op |-> "send", kind |-> c.kind, val |-> c.val]
  <2>1. cmds' = Append(cmds, x) /\ <<x.kind, x.val>> \in mine'
    BY <1>1 DEF UserSend
  <2> HIDE DEF x
  <2>2. \A i \in DOMAIN cmds' : cmds'[i] = x \/ \E j \in DOMAIN cmds : cmds'[i] = cmds[j]
    BY <2>1, <1>a, Appended
  <2> QED
    BY <2>1, <2>2, <1>m DEF OwnCmds
<1>2. CASE PollEnd
  <2>1. PICK ok \in BOOLEAN :
          LET r == ReadContent(IF ok THEN clip.text ELSE NoVal) IN
          cmds' = IF NewIn(r) = {} THEN cmds
                  ELSE Append(cmds, [op |-> "local", kind |-> Richest(NewIn(r)), val |-> r[Richest(NewIn(r))]])
    BY <1>2 DEF PollEnd
  <2>2. UNCHANGED cmds \/ \E x : x.op # "send" /\ cmds' = Append(cmds, x)
    BY <2>1
  <2>3. ASSUME NEW x, x.op # "send", cmds' = Append(cmds, x) PROVE OwnCmds'
    <3>1. \A i \in DOMAIN cmds' : cmds'[i] = x \/ \E j \in DOMAIN cmds : cmds'[i] = cmds[j]
      BY <2>3, <1>a, Appended
    <3> QED
      BY <2>3, <3>1, <1>b
  <2> QED
    BY <2>2, <2>3, <1>b
<1>3. CASE HandleCmd
  BY <1>3, <1>a, <1>b, Members DEF HandleCmd
<1>4. \/ \E c \in Sends : UserSend(c)
      \/ PollEnd \/ HandleCmd \/ UNCHANGED cmds
  BY BoardFrame DEF UserCopy, ClearClipboard, PollBegin, HandleIncomingText, HandlePull
<1> QED
  BY <1>1, <1>2, <1>3, <1>4, <1>b

\* The command that the actor takes, if it passes the check, may go out.
LEMMA Passes ==
    ASSUME TypeInv, Guarded, OwnCmds, cmds # <<>>,
           Head(cmds).kind \in {"img", "text"},
           Head(cmds).op = "local" => ~Seen(Head(cmds).kind, Head(cmds).val)
    PROVE  <<Head(cmds).kind, Head(cmds).val>> \in Excused
<1>1. cmds \in Seq(Commands) /\ Head(cmds) = cmds[1] /\ 1 \in DOMAIN cmds /\ cmds[1] \in Commands
  BY DEF TypeInv, Boards
<1>2. cmds[1].op \in {"local", "send"} /\ cmds[1].kind \in Formats
  BY <1>1 DEF Commands
<1>3. CASE cmds[1].op = "send"
  BY <1>1, <1>3 DEF OwnCmds, Excused
<1>4. CASE cmds[1].op = "local"
  <2>1. Due(cmds[1].kind, cmds[1].val)
    BY <1>1, <1>4 DEF Due, DueCmd, Carries
  <2> QED
    BY <2>1, <1>1, <1>2, <1>4 DEF Guarded, Covered
<1> QED
  BY <1>2, <1>3, <1>4

\* The files of a copy are checked one by one; a file that is sent is not.
LEMMA OwnFileStep ==
    ASSUME TypeInv, OwnCmds, OwnFiles, Next
    PROVE  OwnFiles'
<1>a. batch \in Seq(Todo) /\ cmds \in Seq(Commands)
  BY DEF TypeInv, Boards, Place
<1>m. mine \subseteq mine'
  BY MineGrows
<1>b. ASSUME \A i \in DOMAIN batch' : \E j \in DOMAIN batch : batch'[i] = batch[j] PROVE OwnFiles'
  BY <1>b, <1>m DEF OwnFiles
<1>1. CASE HandleCmd
  <2> DEFINE c == Head(cmds)
  <2>1. c \in Commands /\ c = cmds[1] /\ 1 \in DOMAIN cmds
    BY <1>1, <1>a DEF HandleCmd
  <2>2. c.kind \in Formats /\ c.op \in {"local", "send"}
    BY <2>1 DEF Commands
  <2>3. CASE c.kind = "text"
    BY <1>1, <2>3, <1>b DEF HandleCmd, Skip, SendTextClip
  <2>4. CASE c.kind = "img"
    BY <1>1, <2>4, <1>b DEF HandleCmd, Skip, SpawnImageClip
  <2>5. CASE c.kind = "files"
    <3>1. batch' = IF c.op = "send" THEN <<[val |-> c.val, check |-> FALSE]>>
                   ELSE [i \in DOMAIN c.val |-> [val |-> c.val[i], check |-> TRUE]]
      BY <1>1, <2>5 DEF HandleCmd
    <3>2. CASE c.op = "send"
      <4>1. <<"files", c.val>> \in mine'
        BY <2>1, <2>5, <3>2, <1>m DEF OwnCmds
      <4>2. \A i \in DOMAIN batch' : batch'[i].val = c.val
        BY <3>1, <3>2
      <4> QED
        BY <4>1, <4>2 DEF OwnFiles
    <3>3. CASE c.op = "local"
      <4>1. \A i \in DOMAIN batch' : batch'[i].check
        BY <3>1, <3>3
      <4> QED
        BY <4>1 DEF OwnFiles
    <3> QED
      BY <2>2, <3>2, <3>3
  <2> QED
    BY <2>2, <2>3, <2>4, <2>5 DEF Formats
<1>2. CASE SendFileClip
  <2>1. batch # <<>> /\ (batch' = Tail(batch) \/ batch' = <<>>)
    BY <1>2 DEF SendFileClip, AdvertiseFile
  <2>2. \A i \in DOMAIN batch' : \E j \in DOMAIN batch : batch'[i] = batch[j]
    BY <2>1, <1>a, Members
  <2> QED
    BY <2>2, <1>b
<1>3. HandleCmd \/ SendFileClip \/ UNCHANGED batch
  BY PlaceFrame DEF DialOk, DialFail, FlushFail, EnterLoop, Disconnect, BackoffEnd, UserReconnect,
     HandleUpload, LoseLink
<1> QED
  BY <1>1, <1>2, <1>3, <1>b

\* Clips on their way out, and the ones that went out, may.
LEMMA OwnJobStep ==
    ASSUME TypeInv, Guarded, OwnCmds, OwnFiles, OwnJobs, NoEcho, Next
    PROVE  OwnJobs' /\ NoEcho'
<1>a. /\ results \in Seq(Uploads \cup Serves \cup Pulls) /\ pending \in Seq(Jobs) /\ out \in Seq(Jobs)
      /\ batch \in Seq(Todo)
  BY DEF TypeInv, Work, Place
<1>m. Excused \subseteq Excused'
  BY ExcusedGrows
<1>b. ASSUME UNCHANGED out PROVE NoEcho'
  BY <1>b, <1>m DEF NoEcho, Excused
<1>c. ASSUME NEW j, <<j.kind, j.val>> \in Excused, out' = Append(out, j) PROVE NoEcho'
  <2>1. \A i \in DOMAIN out' : out'[i] = j \/ \E k \in DOMAIN out : out'[i] = out[k]
    BY <1>a, <1>c, Appended
  <2> QED
    BY <2>1, <1>c, <1>m DEF NoEcho, Excused
<1>d. ASSUME \A j \in uploading' : j \in uploading \/ <<j.kind, j.val>> \in Excused,
             \A i \in DOMAIN results' : \/ \E k \in DOMAIN results : results'[i] = results[k]
                                        \/ results'[i].op # "upload"
                                        \/ <<results'[i].what.kind, results'[i].what.val>> \in Excused,
             \A i \in DOMAIN pending' : \/ \E k \in DOMAIN pending : pending'[i] = pending[k]
                                        \/ <<pending'[i].kind, pending'[i].val>> \in Excused
      PROVE  OwnJobs'
  BY <1>d, <1>m DEF OwnJobs
<1>e. ASSUME NEW op, TakeResult(op) PROVE \A i \in DOMAIN results' : \E k \in DOMAIN results : results'[i] = results[k]
  BY <1>a, <1>e, Members DEF TakeResult
<1>f. ASSUME NEW r, results' = Append(results, r)
      PROVE  \A i \in DOMAIN results' : results'[i] = r \/ \E k \in DOMAIN results : results'[i] = results[k]
  BY <1>a, <1>f, Appended
<1>g. ASSUME NEW j \in Jobs, <<j.kind, j.val>> \in Excused, Advertise(j) PROVE NoEcho'
  <2>1. /\ [j EXCEPT !.arrived = (link = "up")].kind = j.kind
        /\ [j EXCEPT !.arrived = (link = "up")].val = j.val
    BY DEF Jobs
  <2> QED
    BY <2>1, <1>g, <1>c DEF Advertise
<1>h. ASSUME NEW k, NEW v, NEW o, <<k, v>> \in Excused
      PROVE  /\ out' = Append(out, OutClip(seq + 1, k, v, o)) => NoEcho'
             /\ <<OutClip(seq + 1, k, v, o).kind, OutClip(seq + 1, k, v, o).val>> \in Excused
  <2> DEFINE x == OutClip(seq + 1, k, v, o)
  <2>1. x.kind = k /\ x.val = v
    BY DEF OutClip
  <2> HIDE DEF x
  <2>2. <<x.kind, x.val>> \in Excused /\ (out' = Append(out, x) => NoEcho')
    BY <2>1, <1>h, <1>c
  <2> QED
    BY <2>2 DEF x
<1>1. CASE HandleCmd
  <2> DEFINE c == Head(cmds)
  <2>0. c \in Commands /\ cmds # <<>> /\ UNCHANGED <<results, pending>>
    BY <1>1, Heads DEF HandleCmd
  <2>1. c.kind \in Formats
    BY <2>0 DEF Commands
  <2>2. CASE c.kind = "text"
    <3>1. CASE Skip
      BY <3>1, <2>0, <1>b, <1>d DEF Skip
    <3>2. CASE ~(c.op = "local" /\ Seen("text", c.val)) /\ SendTextClip(c.val)
      <4>1. <<"text", c.val>> \in Excused
        BY <2>0, <2>2, <3>2, Passes
      <4>2. UNCHANGED out \/ out' = Append(out, OutClip(seq + 1, "text", c.val, FALSE))
        BY <3>2 DEF SendTextClip
      <4>3. NoEcho'
        BY <4>1, <4>2, <1>b, <1>h
      <4> QED
        BY <4>3, <3>2, <2>0, <1>d DEF SendTextClip
    <3> QED
      BY <1>1, <2>2, <3>1, <3>2 DEF HandleCmd
  <2>3. CASE c.kind = "img"
    <3>1. CASE Skip
      BY <3>1, <2>0, <1>b, <1>d DEF Skip
    <3>2. CASE ~Seen("img", c.val) /\ SpawnImageClip(c.val)
      <4>1. <<"img", c.val>> \in Excused
        BY <2>0, <2>3, <3>2, Passes
      <4>2. \A j \in uploading' : j \in uploading \/ j = OutClip(seq + 1, "img", c.val, FALSE)
        BY <3>2 DEF SpawnImageClip
      <4>3. \A j \in uploading' : j \in uploading \/ <<j.kind, j.val>> \in Excused
        BY <4>1, <4>2, <1>h
      <4>4. OwnJobs'
        BY <4>3, <2>0, <1>d
      <4> QED
        BY <4>4, <3>2, <1>b DEF SpawnImageClip
    <3> QED
      BY <1>1, <2>3, <3>1, <3>2 DEF HandleCmd
  <2>4. CASE c.kind = "files"
    BY <1>1, <2>4, <2>0, <1>b, <1>d DEF HandleCmd
  <2> QED
    BY <2>1, <2>2, <2>3, <2>4 DEF Formats
<1>2. CASE SendFileClip
  <2> DEFINE p == Head(batch).val
  <2>0. /\ Head(batch) = batch[1] /\ 1 \in DOMAIN batch /\ UNCHANGED <<results, pending>>
    <3>1. batch # <<>> /\ UNCHANGED <<results, pending>>
      BY <1>2 DEF SendFileClip
    <3> QED
      BY <3>1, <1>a
  <2>1. CASE UNCHANGED <<out, uploading>>
    BY <2>0, <2>1, <1>b, <1>d
  <2>2. CASE p \notin Refused /\ ~(Head(batch).check /\ Seen("files", p))
    <3>1. <<"files", p>> \in Excused
      <4>1. CASE batch[1].check
        <5>1. Due("files", p)
          BY <2>0, <4>1 DEF Due, DueFile
        <5> QED
          BY <5>1, <4>1, <2>0, <2>2 DEF Guarded, Covered, Formats
      <4>2. CASE ~batch[1].check
        BY <2>0, <4>2 DEF OwnFiles, Excused
      <4> QED
        BY <4>1, <4>2
    <3> HIDE DEF p
    <3>2. \/ UNCHANGED <<out, uploading>>
          \/ UNCHANGED uploading /\ out' = Append(out, OutClip(seq + 1, "files", p, TRUE))
          \/ UNCHANGED out /\ uploading' = uploading \cup {OutClip(seq + 1, "files", p, FALSE)}
      BY <1>2, <2>2 DEF SendFileClip, AdvertiseFile, p
    <3>3. \A j \in uploading' : j \in uploading \/ <<j.kind, j.val>> \in Excused
      <4> DEFINE x == OutClip(seq + 1, "files", p, FALSE)
      <4>1. <<x.kind, x.val>> \in Excused
        BY <3>1, <1>h
      <4>2. uploading' = uploading \/ uploading' = uploading \cup {x}
        BY <3>2
      <4> HIDE DEF x
      <4> QED
        BY <4>1, <4>2
    <3>4. OwnJobs'
      BY <3>3, <2>0, <1>d
    <3> QED
      BY <3>1, <3>2, <3>4, <1>b, <1>h
  <2> QED
    BY <1>2, <2>1, <2>2 DEF SendFileClip
<1>3. CASE FlushOne
  <2>1. /\ Head(pending) \in Jobs /\ <<Head(pending).kind, Head(pending).val>> \in Excused
        /\ \A i \in DOMAIN pending' : \E k \in DOMAIN pending : pending'[i] = pending[k]
    BY <1>3, <1>a, Members DEF FlushOne, OwnJobs
  <2>2. UNCHANGED <<uploading, results>> /\ Advertise(Head(pending))
    BY <1>3 DEF FlushOne, workVars
  <2> QED
    BY <2>1, <2>2, <1>d, <1>g
<1>4. CASE HandleUpload
  <2> DEFINE j == Head(results).what
  <2>1. Head(results) = results[1] /\ 1 \in DOMAIN results /\ results[1].op = "upload" /\ j \in Jobs
    BY <1>4, <1>a, Heads DEF HandleUpload, TakeResult, Uploads
  <2>2. <<j.kind, j.val>> \in Excused
    BY <2>1 DEF OwnJobs
  <2>3. UNCHANGED uploading /\ \A i \in DOMAIN results' : \E k \in DOMAIN results : results'[i] = results[k]
    BY <1>4, <1>e DEF HandleUpload, workVars
  <2>4. \/ UNCHANGED <<out, pending>>
        \/ UNCHANGED out /\ pending' = Append(pending, j)
        \/ UNCHANGED pending /\ Advertise(j)
    BY <1>4 DEF HandleUpload
  <2> HIDE DEF j
  <2>5. \A i \in DOMAIN pending' : pending'[i] = j \/ \E k \in DOMAIN pending : pending'[i] = pending[k]
    <3>1. CASE UNCHANGED pending
      BY <3>1
    <3>2. CASE pending' = Append(pending, j)
      BY <3>2, <1>a, Appended
    <3> QED
      BY <2>4, <3>1, <3>2
  <2>6. OwnJobs'
    BY <2>2, <2>3, <2>5, <1>d
  <2> QED
    BY <2>1, <2>2, <2>4, <2>6, <1>b, <1>g
<1>5. CASE HandleServe
  BY <1>5, <1>b, <1>d, <1>e DEF HandleServe, workVars
<1>6. CASE HandlePull
  BY <1>6, <1>b, <1>d, <1>e DEF HandlePull, workVars
<1>7. ASSUME NEW ok \in BOOLEAN, NEW j \in uploading, UploadDone(j, ok) PROVE OwnJobs' /\ NoEcho'
  <2> DEFINE r == [op |-> "upload", ok |-> ok, what |-> j]
  <2>1. <<j.kind, j.val>> \in Excused /\ r.what = j
    BY DEF OwnJobs
  <2>2. results' = Append(results, r) /\ uploading' \subseteq uploading /\ UNCHANGED <<out, pending>>
    BY <1>7 DEF UploadDone
  <2> HIDE DEF r
  <2>3. \A i \in DOMAIN results' : results'[i] = r \/ \E k \in DOMAIN results : results'[i] = results[k]
    BY <2>2, <1>f
  <2> QED
    BY <2>1, <2>2, <2>3, <1>b, <1>d
<1>8. ASSUME NEW r, r.op # "upload", results' = Append(results, r), UNCHANGED <<out, pending, uploading>>
      PROVE  OwnJobs' /\ NoEcho'
  <2>1. \A i \in DOMAIN results' : results'[i] = r \/ \E k \in DOMAIN results : results'[i] = results[k]
    BY <1>8, <1>f
  <2> QED
    BY <2>1, <1>8, <1>b, <1>d
<1>9. ASSUME NEW ok \in BOOLEAN, NEW x \in serving, ServeDone(x, ok) PROVE OwnJobs' /\ NoEcho'
  <2>1. [op |-> "serve", ok |-> ok, what |-> x.id].op # "upload"
    OBVIOUS
  <2> QED
    BY <1>9, <1>8, <2>1 DEF ServeDone
<1>10. ASSUME NEW ok \in BOOLEAN, NEW c \in pulling, PullDone(c, ok) PROVE OwnJobs' /\ NoEcho'
  <2>1. [op |-> "pull", ok |-> ok, what |-> c].op # "upload"
    OBVIOUS
  <2> QED
    BY <1>10, <1>8, <2>1 DEF PullDone
<1>11. ASSUME UNCHANGED <<out, pending, uploading, results>> PROVE OwnJobs' /\ NoEcho'
  BY <1>11, <1>b, <1>d
<1>12. ASSUME \/ \E p \in Large : EditFile(p)
              \/ \E c \in Clips : HandleIncomingBlob(c)
              \/ \E i \in DOMAIN out : HandleBlobRequest(out[i])
       PROVE  OwnJobs' /\ NoEcho'
  <2>1. UNCHANGED <<out, pending, uploading, results>>
    BY <1>12 DEF EditFile, HandleIncomingBlob, HandleBlobRequest, workVars
  <2> QED
    BY <2>1, <1>11
<1> QED
  BY <1>1, <1>2, <1>3, <1>4, <1>5, <1>6, <1>7, <1>9, <1>10, <1>11, <1>12, WorkFrame

\* What goes out was copied or sent by the user, or its echo guard lapsed between the
\* time it was remembered and its check: on both platforms, for any number of copies,
\* received clips, polls torn by either, timers and reconnects, and for every window and
\* ring size, nothing but a guard that expired or was pushed out sends a clip back.
THEOREM EchoSuppressed == Spec => []NoEcho
<1>1. ASSUME Init PROVE Echoless
  <2>1. Items(clip) = {}
    BY <1>1, AppliedItems DEF Init
  <2>2. Guarded
    BY <1>1, <2>1 DEF Init, Guarded, Due, DueClip, DueRead, DueCmd, DueFile, NotReading
  <2> QED
    BY <1>1, <2>1, <2>2 DEF Init, Echoless, Settled, Reading, Single, OwnCmds, OwnFiles, OwnJobs, NoEcho, NotReading,
       NoContent, Formats
<1>2. ASSUME IndInv, Echoless, [Next]_vars PROVE Echoless'
  <2>1. CASE Next
    BY <1>2, <2>1, GuardedStep, SettledStep, OwnCmdStep, OwnFileStep, OwnJobStep DEF IndInv, Echoless
  <2>2. CASE UNCHANGED vars
    <3>1. UNCHANGED <<windows, clip, changed, last, read, cmds, batch, ring, lapsed, mine, uploading, results, pending, out>>
      BY <2>2 DEF vars, osVars, watchVars, workVars, histVars
    <3>2. Items(clip)' = Items(clip) /\ Readable(clip)' = Readable(clip)
      BY <3>1 DEF Items, Readable
    <3>3. \A k \in Formats : \A v : (Due(k, v)' => Due(k, v)) /\ (Covered(k, v) => Covered(k, v)')
      BY <3>1, <3>2 DEF Due, DueClip, DueRead, DueCmd, DueFile, Covered, Excused, Seen
    <3>4. Guarded'
      BY <1>2, <3>3 DEF Echoless, Guarded
    <3>5. Settled' /\ Reading' /\ Single'
      BY <1>2, <3>1, <3>2 DEF Echoless, Settled, Reading, Single
    <3>6. OwnCmds' /\ OwnFiles' /\ OwnJobs' /\ NoEcho'
      BY <1>2, <3>1 DEF Echoless, OwnCmds, OwnFiles, OwnJobs, NoEcho, Excused
    <3> QED
      BY <3>4, <3>5, <3>6 DEF Echoless
  <2> QED
    BY <1>2, <2>1, <2>2
<1>3. Echoless => NoEcho
  BY DEF Echoless
<1> QED
  BY <1>1, <1>2, <1>3, Invariance, PTL DEF Spec
=============================================================================
