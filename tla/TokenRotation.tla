--------------------------- MODULE TokenRotation ---------------------------
(***************************************************************************)
(* Rotation of one device's bearer token: the token record and the hash    *)
(* index in the store (internal/store/tokens.go), the decide / offer /     *)
(* commit steps each connection takes after its hello (maybeRotate and     *)
(* commitRotation in cmd/copysyncd, serve in internal/transport), and the  *)
(* client that persists the token it is handed.                            *)
(*                                                                         *)
(* A token and its HMAC are the same number; tokens are minted 1, 2, ...   *)
(* and never repeat.  Every bbolt transaction is one step: the decision is *)
(* taken from one read, the frame is queued in a second step and the       *)
(* rotation is written in a third, so that the steps of two connections of *)
(* the device can interleave.                                              *)
(***************************************************************************)
EXTENDS Naturals, FiniteSets

CONSTANTS
    Conns,     \* WebSocket connections of the device, each used once
    MaxToken,  \* bound: tokens minted in a behaviour
    MaxFaults, \* bound: server crashes and failed saves of the client's config
    Overlap    \* may the client dial while the server still serves an older
               \* connection of it (its link is gone, serve has not returned)

ASSUME TokenConstants ==
    /\ MaxToken \in Nat \ {0}
    /\ MaxFaults \in Nat
    /\ Overlap \in BOOLEAN

Tokens == 1..MaxToken
NoToken == 0

VARIABLES
    paired,   \* the device and its token record exist in the store
    cur,      \* TokenRecord.TokenHash
    prev,     \* TokenRecord.PrevHash: the grace token of a pending rotation
    aged,     \* the current token is older than TokenRotateDays
    index,    \* token hashes the index bucket maps to this device
    retired,  \* history: tokens that were valid and no longer are
    minted,   \* tokens minted so far
    held,     \* token in the client's memory
    saved,    \* token in the client's config file
    phase,    \* where the connection's serve goroutine is
    hello,    \* token the connection authenticated with
    dec,      \* RotateDecision: token, reissue, prevHash
    wire,     \* token_rotate frame queued or in flight to the client
    up,       \* the connection's link
    faults    \* crashes and failed saves so far

storeVars == <<paired, cur, prev, aged, index, retired>>
clientVars == <<held, saved>>
vars == <<paired, cur, prev, aged, index, retired, minted, held, saved, phase,
          hello, dec, wire, up, faults>>

-----------------------------------------------------------------------------
Phases == {"fresh", "registered", "retire", "offer", "commit", "rotate", "open", "closed"}

\* RotateDecision; token NoToken stands for "no rotation".
Decisions == [token : Tokens \cup {NoToken}, reissue : BOOLEAN, prev : Tokens \cup {NoToken}]
NoDecision == [token |-> NoToken, reissue |-> FALSE, prev |-> NoToken]

\* The tokens validate accepts: the current one, and the previous one while a
\* rotation is pending.
Valid == IF paired THEN {cur, prev} \ {NoToken} ELSE {}

Init ==
    /\ paired = TRUE
    /\ cur = 1 /\ prev = NoToken
    /\ aged = FALSE
    /\ index = {1}
    /\ retired = {}
    /\ minted = 1
    /\ held = 1 /\ saved = 1
    /\ phase = [c \in Conns |-> "fresh"]
    /\ hello = [c \in Conns |-> NoToken]
    /\ dec = [c \in Conns |-> NoDecision]
    /\ wire = [c \in Conns |-> NoToken]
    /\ up = [c \in Conns |-> FALSE]
    /\ faults = 0

-----------------------------------------------------------------------------
(* The connection's serve goroutine *)

\* hello is accepted by validate and the connection registers.
Hello(c) ==
    /\ phase[c] = "fresh"
    /\ \A e \in Conns : ~up[e] /\ (Overlap \/ phase[e] \in {"fresh", "closed"})
    /\ held \in Valid
    /\ hello' = [hello EXCEPT ![c] = held]
    /\ phase' = [phase EXCEPT ![c] = "registered"]
    /\ up' = [up EXCEPT ![c] = TRUE]
    /\ UNCHANGED <<storeVars, clientVars, minted, dec, wire, faults>>

\* maybeRotate found the new token in use while the old one is pending; or it
\* found nothing to do, or rotation is switched off (TokenRotateDays <= 0).
MaybeRetire(c) ==
    /\ phase[c] = "registered"
    /\ phase' = [phase EXCEPT ![c] =
                     IF paired /\ hello[c] = cur /\ prev # NoToken THEN "retire" ELSE "open"]
    /\ UNCHANGED <<storeVars, clientVars, minted, hello, dec, wire, up, faults>>

\* Mutant: a grace connection is offered a plain rotation.
MaybeRotate_NoReissue(c) ==
    /\ phase[c] = "registered"
    /\ paired /\ minted < MaxToken
    /\ \/ hello[c] # cur /\ prev # NoToken /\ hello[c] = prev
       \/ hello[c] = cur /\ prev = NoToken /\ aged
    /\ dec' = [dec EXCEPT ![c] = [token |-> minted + 1, reissue |-> FALSE, prev |-> NoToken]]
    /\ minted' = minted + 1
    /\ phase' = [phase EXCEPT ![c] = "offer"]
    /\ UNCHANGED <<storeVars, clientVars, hello, wire, up, faults>>

\* maybeRotate mints a token when rotation is on: a fresh one for a device that
\* still presents the grace token, or one for an old enough current token.
MaybeRotate(c) ==
    LET reissue == hello[c] # cur /\ prev # NoToken /\ hello[c] = prev
        plain == hello[c] = cur /\ prev = NoToken /\ aged
    IN  /\ phase[c] = "registered"
        /\ paired /\ minted < MaxToken
        /\ reissue \/ plain
        /\ dec' = [dec EXCEPT ![c] = [token |-> minted + 1, reissue |-> reissue,
                                      prev |-> IF reissue THEN prev ELSE NoToken]]
        /\ minted' = minted + 1
        /\ phase' = [phase EXCEPT ![c] = "offer"]
        /\ UNCHANGED <<storeVars, clientVars, hello, wire, up, faults>>

\* Mutant: the wrong hash of the record is cleared.
RetireOldToken_ClearsCurrent(c) ==
    /\ phase[c] = "retire"
    /\ index' = index \ {cur}
    /\ cur' = NoToken
    /\ phase' = [phase EXCEPT ![c] = "open"]
    /\ UNCHANGED <<paired, prev, aged, retired, clientVars, minted, hello, dec, wire, up, faults>>

\* RetireOldToken, in its own transaction.
RetireOldToken(c) ==
    /\ phase[c] = "retire"
    /\ IF paired /\ prev # NoToken
       THEN /\ index' = index \ {prev}
            /\ retired' = retired \cup {prev}
            /\ prev' = NoToken
       ELSE UNCHANGED <<index, retired, prev>>
    /\ phase' = [phase EXCEPT ![c] = "open"]
    /\ UNCHANGED <<paired, cur, aged, clientVars, minted, hello, dec, wire, up, faults>>

\* serve queues token_rotate; a full send buffer drops it and the rotation is
\* not committed.  A frame for a link that is gone is queued and lost.
Offer(c) ==
    /\ phase[c] = "offer"
    /\ \/ /\ wire' = [wire EXCEPT ![c] = IF up[c] THEN dec[c].token ELSE NoToken]
          /\ phase' = [phase EXCEPT ![c] = "commit"]
       \/ /\ phase' = [phase EXCEPT ![c] = "open"]
          /\ UNCHANGED wire
    /\ UNCHANGED <<storeVars, clientVars, minted, hello, dec, up, faults>>

\* Mutant: the grace state is restored from the decision instead of checked.
ReissuePendingToken_RestoresGrace(c) ==
    /\ phase[c] = "commit"
    /\ IF dec[c].reissue /\ paired
       THEN /\ index' = (index \ {cur}) \cup {dec[c].token, dec[c].prev}
            /\ retired' = retired \cup {cur}
            /\ cur' = dec[c].token /\ prev' = dec[c].prev
            /\ aged' = FALSE
            /\ phase' = [phase EXCEPT ![c] = "open"]
       ELSE /\ phase' = [phase EXCEPT ![c] = "rotate"]
            /\ UNCHANGED <<index, retired, cur, prev, aged>>
    /\ UNCHANGED <<paired, clientVars, minted, hello, dec, wire, up, faults>>

\* commitRotation's ReissuePendingToken; when the grace state is gone it falls
\* through to RotateToken, as a plain rotation does at once.
ReissuePendingToken(c) ==
    /\ phase[c] = "commit"
    /\ IF dec[c].reissue /\ paired /\ prev # NoToken /\ prev = dec[c].prev
       THEN /\ index' = (index \ {cur}) \cup {dec[c].token}
            /\ retired' = retired \cup {cur}
            /\ cur' = dec[c].token
            /\ aged' = FALSE
            /\ phase' = [phase EXCEPT ![c] = "open"]
       ELSE /\ phase' = [phase EXCEPT ![c] = "rotate"]
            /\ UNCHANGED <<index, retired, cur, aged>>
    /\ UNCHANGED <<paired, prev, clientVars, minted, hello, dec, wire, up, faults>>

\* Mutant: the previous token is dropped at once.
RotateToken_NoGrace(c) ==
    /\ phase[c] = "rotate"
    /\ IF paired /\ prev = NoToken
       THEN /\ cur' = dec[c].token
            /\ index' = {dec[c].token}
            /\ aged' = FALSE
       ELSE UNCHANGED <<cur, index, aged>>
    /\ phase' = [phase EXCEPT ![c] = "open"]
    /\ UNCHANGED <<paired, prev, retired, clientVars, minted, hello, dec, wire, up, faults>>

\* RotateToken: a no-op when a rotation is already pending.
RotateToken(c) ==
    /\ phase[c] = "rotate"
    /\ IF paired /\ prev = NoToken
       THEN /\ prev' = cur
            /\ cur' = dec[c].token
            /\ index' = index \cup {dec[c].token}
            /\ aged' = FALSE
       ELSE UNCHANGED <<prev, cur, index, aged>>
    /\ phase' = [phase EXCEPT ![c] = "open"]
    /\ UNCHANGED <<paired, retired, clientVars, minted, hello, dec, wire, up, faults>>

\* readPump ends and serve returns.
Leave(c) ==
    /\ phase[c] = "open"
    /\ ~up[c]
    /\ phase' = [phase EXCEPT ![c] = "closed"]
    /\ UNCHANGED <<storeVars, clientVars, minted, hello, dec, wire, up, faults>>

-----------------------------------------------------------------------------
(* The client, the clock, the admin and crashes *)

\* The client takes the token of a token_rotate frame and saves its config; the
\* result of the save is ignored.
TakeToken(c) ==
    /\ up[c] /\ wire[c] # NoToken
    /\ held' = wire[c]
    /\ wire' = [wire EXCEPT ![c] = NoToken]
    /\ \/ saved' = wire[c] /\ UNCHANGED faults
       \/ faults < MaxFaults /\ faults' = faults + 1 /\ UNCHANGED saved
    /\ UNCHANGED <<storeVars, minted, phase, hello, dec, up>>

\* The link fails with whatever is in flight.
LinkLost(c) ==
    /\ up[c]
    /\ up' = [up EXCEPT ![c] = FALSE]
    /\ wire' = [wire EXCEPT ![c] = NoToken]
    /\ UNCHANGED <<storeVars, clientVars, minted, phase, hello, dec, faults>>

\* The client process restarts from its config file.
ClientRestart ==
    /\ held' = saved
    /\ up' = [c \in Conns |-> FALSE]
    /\ wire' = [c \in Conns |-> NoToken]
    /\ UNCHANGED <<storeVars, saved, minted, phase, hello, dec, faults>>

\* Time passes: the current token reaches the rotation age.
Age ==
    /\ ~aged
    /\ aged' = TRUE
    /\ UNCHANGED <<paired, cur, prev, index, retired, clientVars, minted, phase,
                   hello, dec, wire, up, faults>>

\* Mutant: only the current hash is removed from the index.
DeleteDevice_KeepsPrev ==
    /\ paired
    /\ paired' = FALSE
    /\ index' = index \ {cur}
    /\ retired' = retired \cup Valid
    /\ UNCHANGED <<cur, prev, aged, clientVars, minted, phase, hello, dec, wire, up, faults>>

\* DeleteDevice removes the token record and both index entries.
DeleteDevice ==
    /\ paired
    /\ paired' = FALSE
    /\ index' = index \ {cur, prev}
    /\ retired' = retired \cup Valid
    /\ UNCHANGED <<cur, prev, aged, clientVars, minted, phase, hello, dec, wire, up, faults>>

\* The server dies; its connections and undelivered frames with it.
Crash ==
    /\ faults < MaxFaults
    /\ faults' = faults + 1
    /\ phase' = [c \in Conns |-> IF phase[c] = "fresh" THEN "fresh" ELSE "closed"]
    /\ up' = [c \in Conns |-> FALSE]
    /\ wire' = [c \in Conns |-> NoToken]
    /\ UNCHANGED <<storeVars, clientVars, minted, hello, dec>>

-----------------------------------------------------------------------------
ServeStep(c) ==
    \/ MaybeRetire(c) \/ MaybeRotate(c) \/ RetireOldToken(c) \/ Offer(c)
    \/ ReissuePendingToken(c) \/ RotateToken(c) \/ Leave(c)

Next ==
    \/ \E c \in Conns : ServeStep(c) \/ Hello(c) \/ TakeToken(c) \/ LinkLost(c)
    \/ ClientRestart
    \/ Age
    \/ DeleteDevice
    \/ Crash

Spec == Init /\ [][Next]_vars

-----------------------------------------------------------------------------
(* Properties *)

\* Type invariant of the token record, the client and the connections.
TypeOK ==
    /\ paired \in BOOLEAN /\ aged \in BOOLEAN
    /\ cur \in Tokens /\ prev \in Tokens \cup {NoToken}
    /\ index \subseteq Tokens /\ retired \subseteq Tokens
    /\ minted \in Tokens
    /\ held \in Tokens /\ saved \in Tokens
    /\ phase \in [Conns -> Phases]
    /\ hello \in [Conns -> Tokens \cup {NoToken}]
    /\ dec \in [Conns -> Decisions]
    /\ wire \in [Conns -> Tokens \cup {NoToken}]
    /\ up \in [Conns -> BOOLEAN]
    /\ faults \in 0..MaxFaults

\* The hash index, by which the blob channel authenticates, holds exactly the
\* tokens the control channel accepts: nothing dangles after a rotation, a
\* re-issue, a retirement or a deletion, and nothing valid is missing
\* (RotateToken, ReissuePendingToken, RetireOldToken, DeleteDevice).
IndexExact == index = Valid

\* A token that was retired, orphaned by a re-issue or revoked with its device
\* is never accepted again, whatever decisions are still in flight.
NoRevival == retired \cap Valid = {}

\* A token that the server accepts, or is about to accept: its commit is still to come.
Committing(t) == \E c \in Conns : phase[c] \in {"commit", "rotate"} /\ dec[c].token = t
Accepts(t) == t \in Valid \/ Committing(t)

\* The token the client would present next is accepted, or is about to be, as long as
\* neither the server crashed nor a save of the client failed.  This is what
\* maybeRotate's and commitRotation's comments promise ("never locked out").
NeverLockedOut == paired /\ faults = 0 => Accepts(held)

\* The token in the client's config file, which a restart goes by, stops being
\* accepted only when the server crashes or when a newer token is presented that the
\* file never got, because the engine ignores a save that failed: then the server
\* retires the grace token, the only one the file still holds.  So a failed save alone
\* does not lock a restarted client out (token_rotate in the engine's loop, maybeRotate,
\* RetireOldToken).
RestartSafe ==
    [][paired' /\ Accepts(saved) /\ ~Accepts(saved)'
         => Crash \/ \E c \in Conns : RetireOldToken(c) /\ prev = saved /\ hello[c] # saved]_vars
=============================================================================
