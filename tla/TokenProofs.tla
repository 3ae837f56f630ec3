---------------------------- MODULE TokenProofs ----------------------------
(***************************************************************************)
(* Proofs about TokenRotation, for any number of connections, tokens and   *)
(* faults and with or without overlapping connections.                     *)
(***************************************************************************)
EXTENDS TokenRotation, TLAPS

\* A connection whose decision has been taken and not yet been written.
Pending(c) == phase[c] \in {"offer", "commit", "rotate"}

\* A token waiting to be committed is fresh: minted, and neither valid now nor
\* retired before, so that committing it revives nothing.
PendingFresh ==
    \A c \in Conns : Pending(c) =>
        /\ dec[c].token \in 1..minted
        /\ dec[c].token \notin {cur, prev}
        /\ dec[c].token \notin retired

\* Two connections never wait to commit the same token.
PendingDistinct ==
    \A c, e \in Conns : Pending(c) /\ Pending(e) /\ c # e => dec[c].token # dec[e].token

\* Everything in the record and in the history has been minted.
MintedBound ==
    /\ cur <= minted /\ prev <= minted
    /\ \A t \in retired : t <= minted

\* The inductive invariant: the index and the history are only right because
\* the two hashes of the record differ and pending tokens are fresh.
IndInv ==
    /\ TypeOK /\ IndexExact /\ NoRevival
    /\ cur # prev
    /\ MintedBound /\ PendingFresh /\ PendingDistinct

\* The initial state: one token, current, in the index, held by the client.
LEMMA InitInv == Init => IndInv
<1> SUFFICES ASSUME Init PROVE IndInv
  OBVIOUS
<1> USE TokenConstants DEF Init, NoToken, Tokens
<1>1. NoDecision \in Decisions
  BY DEF NoDecision, Decisions
<1>2. TypeOK
  <2>1. 1 \in Tokens /\ faults \in 0..MaxFaults
    OBVIOUS
  <2> QED
    BY <1>1, <2>1 DEF TypeOK, Phases
<1>3. IndexExact /\ NoRevival
  BY DEF IndexExact, NoRevival, Valid
<1>4. MintedBound /\ cur # prev
  BY DEF MintedBound
<1>5. PendingFresh /\ PendingDistinct
  BY DEF PendingFresh, PendingDistinct, Pending
<1> QED
  BY <1>2, <1>3, <1>4, <1>5 DEF IndInv

\* Every step keeps the type invariant.
LEMMA TypeStep == IndInv /\ [Next]_vars => TypeOK'
<1> SUFFICES ASSUME TypeOK, PendingFresh, [Next]_vars PROVE TypeOK'
  BY DEF IndInv
<1> USE DEF TypeOK, Phases, storeVars, clientVars
<1>1. ASSUME NEW c \in Conns, Pending(c) PROVE dec[c].token \in Tokens
  BY <1>1, TokenConstants DEF PendingFresh, Tokens
<1>2. ASSUME NEW c \in Conns, Hello(c) PROVE TypeOK'
  BY <1>2 DEF Hello
<1>3. ASSUME NEW c \in Conns, MaybeRetire(c) PROVE TypeOK'
  BY <1>3 DEF MaybeRetire
<1>4. ASSUME NEW c \in Conns, MaybeRotate(c) PROVE TypeOK'
  <2>1. minted + 1 \in Tokens
    BY <1>4, TokenConstants DEF MaybeRotate, Tokens
  <2>2. dec' \in [Conns -> Decisions]
    BY <1>4, <2>1 DEF MaybeRotate, Decisions
  <2> QED
    BY <1>4, <2>1, <2>2 DEF MaybeRotate
<1>5. ASSUME NEW c \in Conns, RetireOldToken(c) PROVE TypeOK'
  BY <1>5 DEF RetireOldToken
<1>6. ASSUME NEW c \in Conns, Offer(c) PROVE TypeOK'
  <2>1. dec[c].token \in Tokens
    BY <1>6, <1>1 DEF Offer, Pending
  <2> QED
    BY <1>6, <2>1 DEF Offer
<1>7. ASSUME NEW c \in Conns, ReissuePendingToken(c) PROVE TypeOK'
  BY <1>7, <1>1 DEF ReissuePendingToken, Pending
<1>8. ASSUME NEW c \in Conns, RotateToken(c) PROVE TypeOK'
  BY <1>8, <1>1 DEF RotateToken, Pending
<1>9. ASSUME NEW c \in Conns, Leave(c) PROVE TypeOK'
  BY <1>9 DEF Leave
<1>10. ASSUME NEW c \in Conns, TakeToken(c) PROVE TypeOK'
  <2>1. wire[c] \in Tokens /\ faults' \in 0..MaxFaults
    BY <1>10, TokenConstants DEF TakeToken
  <2> QED
    BY <1>10, <2>1 DEF TakeToken
<1>11. ASSUME NEW c \in Conns, LinkLost(c) PROVE TypeOK'
  BY <1>11 DEF LinkLost
<1>12. CASE ClientRestart
  BY <1>12 DEF ClientRestart
<1>13. CASE Age
  BY <1>13 DEF Age
<1>14. CASE DeleteDevice
  BY <1>14 DEF DeleteDevice, Valid
<1>15. CASE Crash
  <2>1. faults' \in 0..MaxFaults
    BY <1>15, TokenConstants DEF Crash
  <2> QED
    BY <1>15, <2>1 DEF Crash
<1>16. CASE UNCHANGED vars
  BY <1>16 DEF vars
<1> QED
  BY <1>2, <1>3, <1>4, <1>5, <1>6, <1>7, <1>8, <1>9, <1>10, <1>11, <1>12, <1>13, <1>14,
     <1>15, <1>16 DEF Next, ServeStep

\* Every step keeps the rest of the invariant.
LEMMA StepInv == IndInv /\ [Next]_vars => IndInv'
<1> SUFFICES ASSUME IndInv, [Next]_vars, TypeOK' PROVE IndInv'
  BY TypeStep
<1> USE TokenConstants DEF IndInv, IndexExact, NoRevival, MintedBound, PendingFresh,
        PendingDistinct, Pending, Valid, NoToken, storeVars, clientVars
<1>0. /\ cur \in Nat \ {0} /\ prev \in Nat /\ minted \in Nat /\ cur # prev
      /\ paired \in BOOLEAN /\ phase \in [Conns -> Phases] /\ dec \in [Conns -> Decisions]
  BY DEF TypeOK, Tokens
<1>1. ASSUME NEW c \in Conns, Hello(c) PROVE IndInv'
  BY <1>0, <1>1 DEF Hello
<1>2. ASSUME NEW c \in Conns, MaybeRetire(c) PROVE IndInv'
  BY <1>0, <1>2 DEF MaybeRetire
<1>3. ASSUME NEW c \in Conns, Offer(c) PROVE IndInv'
  BY <1>0, <1>3 DEF Offer
<1>4. ASSUME NEW c \in Conns, Leave(c) PROVE IndInv'
  BY <1>0, <1>4 DEF Leave
<1>5. ASSUME NEW c \in Conns, TakeToken(c) PROVE IndInv'
  BY <1>0, <1>5 DEF TakeToken
<1>6. ASSUME NEW c \in Conns, LinkLost(c) PROVE IndInv'
  BY <1>0, <1>6 DEF LinkLost
<1>7. ASSUME NEW c \in Conns, MaybeRotate(c) PROVE IndInv'
  <2>1. IndexExact' /\ NoRevival' /\ (cur # prev)'
    BY <1>7 DEF MaybeRotate
  <2>2. MintedBound'
    BY <1>0, <1>7 DEF MaybeRotate, TypeOK, Tokens
  <2>3. \A e \in Conns : Pending(e)' => e = c \/ (Pending(e) /\ dec'[e] = dec[e])
    BY <1>0, <1>7 DEF MaybeRotate
  <2>4. dec'[c].token = minted + 1 /\ minted' = minted + 1
    BY <1>0, <1>7 DEF MaybeRotate
  <2>5. PendingFresh'
    BY <1>0, <2>3, <2>4, <1>7 DEF MaybeRotate, TypeOK, Tokens
  <2>6. PendingDistinct'
    BY <1>0, <2>3, <2>4
  <2> QED
    BY <2>1, <2>2, <2>5, <2>6
<1>8. ASSUME NEW c \in Conns, RetireOldToken(c) PROVE IndInv'
  <2>1. CASE paired /\ prev # NoToken
    <3>1. index = {cur, prev}
      BY <1>0, <2>1
    <3>2. /\ index' = index \ {prev}
          /\ retired' = retired \cup {prev}
          /\ prev' = 0 /\ cur' = cur
          /\ paired' = paired /\ minted' = minted /\ dec' = dec
      BY <1>8, <2>1 DEF RetireOldToken
    <3>3. \A e \in Conns : Pending(e)' => Pending(e)
      BY <1>0, <1>8, <2>1 DEF RetireOldToken
    <3>4. IndexExact'
      BY <1>0, <2>1, <3>1, <3>2
    <3>5. NoRevival' /\ (cur # prev)'
      BY <1>0, <2>1, <3>2
    <3>6. MintedBound'
      BY <1>0, <3>2
    <3>7. PendingFresh' /\ PendingDistinct'
      BY <1>0, <2>1, <3>2, <3>3
    <3> QED
      BY <3>4, <3>5, <3>6, <3>7
  <2>2. CASE ~(paired /\ prev # NoToken)
    BY <1>0, <1>8, <2>2 DEF RetireOldToken
  <2> QED
    BY <2>1, <2>2
<1>9. ASSUME NEW c \in Conns, ReissuePendingToken(c) PROVE IndInv'
  <2>1. CASE dec[c].reissue /\ paired /\ prev # NoToken /\ prev = dec[c].prev
    <3>1. index = {cur, prev}
      BY <1>0, <2>1
    <3>2. /\ index' = (index \ {cur}) \cup {dec[c].token}
          /\ retired' = retired \cup {cur}
          /\ prev' = prev /\ cur' = dec[c].token
          /\ paired' = paired /\ minted' = minted /\ dec' = dec
      BY <1>9, <2>1 DEF ReissuePendingToken
    <3>3. \A e \in Conns : Pending(e)' => Pending(e) /\ e # c
      BY <1>0, <1>9, <2>1 DEF ReissuePendingToken
    <3>4. Pending(c)
      BY <1>9 DEF ReissuePendingToken
    <3>5. /\ dec[c].token \in 1..minted
          /\ dec[c].token \notin {cur, prev}
          /\ dec[c].token \notin retired
      BY <3>4
    <3>6. IndexExact'
      BY <1>0, <2>1, <3>1, <3>2, <3>5
    <3>7. NoRevival' /\ (cur # prev)'
      BY <1>0, <2>1, <3>2, <3>5
    <3>8. MintedBound'
      BY <1>0, <3>2, <3>5
    <3>9. PendingFresh' /\ PendingDistinct'
      BY <1>0, <2>1, <3>2, <3>3, <3>4, <3>5
    <3> QED
      BY <3>6, <3>7, <3>8, <3>9
  <2>2. CASE ~(dec[c].reissue /\ paired /\ prev # NoToken /\ prev = dec[c].prev)
    BY <1>0, <1>9, <2>2 DEF ReissuePendingToken
  <2> QED
    BY <2>1, <2>2
<1>10. ASSUME NEW c \in Conns, RotateToken(c) PROVE IndInv'
  <2>1. CASE paired /\ prev = NoToken
    <3>1. index = {cur}
      BY <2>1
    <3>2. /\ index' = index \cup {dec[c].token}
          /\ retired' = retired
          /\ prev' = cur /\ cur' = dec[c].token
          /\ paired' = paired /\ minted' = minted /\ dec' = dec
      BY <1>10, <2>1 DEF RotateToken
    <3>3. \A e \in Conns : Pending(e)' => Pending(e) /\ e # c
      BY <1>0, <1>10, <2>1 DEF RotateToken
    <3>4. Pending(c)
      BY <1>10 DEF RotateToken
    <3>5. /\ dec[c].token \in 1..minted
          /\ dec[c].token \notin {cur, prev}
          /\ dec[c].token \notin retired
      BY <3>4
    <3>6. IndexExact'
      BY <1>0, <2>1, <3>1, <3>2, <3>5
    <3>7. NoRevival' /\ (cur # prev)'
      BY <1>0, <2>1, <3>2, <3>5
    <3>8. MintedBound'
      BY <1>0, <3>2, <3>5
    <3>9. PendingFresh' /\ PendingDistinct'
      BY <1>0, <2>1, <3>2, <3>3, <3>4, <3>5
    <3> QED
      BY <3>6, <3>7, <3>8, <3>9
  <2>2. CASE ~(paired /\ prev = NoToken)
    BY <1>0, <1>10, <2>2 DEF RotateToken
  <2> QED
    BY <2>1, <2>2
<1>11. CASE ClientRestart
  BY <1>0, <1>11 DEF ClientRestart
<1>12. CASE Age
  BY <1>0, <1>12 DEF Age
<1>13. CASE Crash
  BY <1>0, <1>13 DEF Crash
<1>14. CASE DeleteDevice
  <2>1. \A t \in {cur, prev} \ {0} : t <= minted
    BY <1>0
  <2>2. IndexExact' /\ NoRevival' /\ (cur # prev)' /\ MintedBound'
    BY <1>0, <2>1, <1>14 DEF DeleteDevice
  <2>3. PendingFresh' /\ PendingDistinct'
    BY <1>0, <1>14 DEF DeleteDevice
  <2> QED
    BY <2>2, <2>3
<1>15. CASE UNCHANGED vars
  BY <1>15 DEF vars
<1> QED
  BY <1>1, <1>2, <1>3, <1>4, <1>5, <1>6, <1>7, <1>8, <1>9, <1>10, <1>11, <1>12, <1>13,
     <1>14, <1>15 DEF Next, ServeStep

\* The inductive invariant holds in every reachable state.
LEMMA Invariance == Spec => []IndInv
BY InitInv, StepInv, PTL DEF Spec

\* The type invariant of the token record, the client and the connections.
THEOREM TokenTypeCorrect == Spec => []TypeOK
<1>1. IndInv => TypeOK
  BY DEF IndInv
<1> QED
  BY <1>1, Invariance, PTL

\* The index bucket and the token record agree in every reachable state: the
\* blob channel accepts exactly the tokens the control channel accepts, however
\* the rotations of any number of connections interleave with each other, with
\* the deletion of the device and with crashes.
THEOREM IndexMatchesRecord == Spec => []IndexExact
<1>1. IndInv => IndexExact
  BY DEF IndInv
<1> QED
  BY <1>1, Invariance, PTL

\* No token that stopped being valid is ever accepted again: a commit that
\* arrives late writes a token that no other decision, and no earlier record,
\* has ever used.
THEOREM NoTokenRevived == Spec => []NoRevival
<1>1. IndInv => NoRevival
  BY DEF IndInv
<1> QED
  BY <1>1, Invariance, PTL

-----------------------------------------------------------------------------
(* A client is never locked out *)

\* The server still serves the connection.
Serving(c) == phase[c] \notin {"fresh", "closed"}

\* Without overlapping connections the server serves one connection at a time, and a
\* frame travels only on a link that is up.
OneServed ==
    /\ \A c \in Conns : up[c] => Serving(c)
    /\ \A c, e \in Conns : Serving(c) /\ Serving(e) => c = e
    /\ \A c \in Conns : ~up[c] => wire[c] = NoToken

\* The record is still as it was when the connection's rotation was decided.
Decided(c) ==
    IF dec[c].reissue THEN prev # NoToken /\ prev = dec[c].prev /\ hello[c] = prev
    ELSE prev = NoToken /\ hello[c] = cur

\* Which token the client holds, and which one is on its way to it, at each step of
\* the connection that serves it.
Presented(c) ==
    /\ phase[c] \in {"registered", "retire", "offer"} => held = hello[c] /\ wire[c] = NoToken
    /\ phase[c] = "registered" => held \in Valid
    /\ phase[c] = "retire" => held = cur
    /\ phase[c] \in {"offer", "commit", "rotate"} => Decided(c)
    /\ phase[c] \in {"commit", "rotate"} =>
         held \in {hello[c], dec[c].token} /\ wire[c] \in {NoToken, dec[c].token}
    /\ phase[c] = "rotate" => ~dec[c].reissue
    /\ phase[c] = "open" => held \in Valid /\ wire[c] \in {NoToken, cur}

\* The token in the client's memory, with the connection that serves it or without.
Accepted ==
    paired => /\ (\A c \in Conns : ~Serving(c)) => held \in Valid
              /\ \A c \in Conns : Presented(c)

\* As long as nothing failed, the client's file holds the same token.
Faultless == faults = 0 => held = saved /\ Accepted

\* The server goes on serving one connection at a time.
LEMMA OneServedStep ==
    ASSUME IndInv, OneServed, [Next]_vars, ~Overlap
    PROVE  OneServed'
<1> USE DEF NoToken, storeVars, clientVars
<1>a. /\ phase \in [Conns -> Phases] /\ wire \in [Conns -> Tokens \cup {NoToken}]
      /\ up \in [Conns -> BOOLEAN]
  BY DEF IndInv, TypeOK
<1>b. ASSUME NEW c \in Conns, Serving(c), \A e \in Conns : e # c => phase'[e] = phase[e] /\ wire'[e] = wire[e],
             up' = up, ~up[c] => wire'[c] = NoToken, up[c] => Serving(c)'
      PROVE  OneServed'
  BY <1>b DEF OneServed, Serving
<1>1. ASSUME NEW c \in Conns, Hello(c) PROVE OneServed'
  <2>1. \A e \in Conns : ~up[e] /\ ~Serving(e) /\ wire[e] = NoToken
    BY <1>1 DEF Hello, OneServed, Serving
  <2>2. /\ phase'[c] = "registered" /\ up'[c] /\ wire' = wire
        /\ \A e \in Conns : e # c => phase'[e] = phase[e] /\ up'[e] = up[e]
    BY <1>1, <1>a DEF Hello
  <2> QED
    BY <2>1, <2>2 DEF OneServed, Serving
<1>2. ASSUME NEW c \in Conns, \/ MaybeRetire(c) \/ MaybeRotate(c) \/ RetireOldToken(c)
                              \/ ReissuePendingToken(c) \/ RotateToken(c)
      PROVE  OneServed'
  <2>1. UNCHANGED <<wire, up>> /\ Serving(c) /\ Serving(c)' /\ \A e \in Conns : e # c => phase'[e] = phase[e]
    BY <1>2, <1>a DEF MaybeRetire, MaybeRotate, RetireOldToken, ReissuePendingToken, RotateToken, Serving
  <2> QED
    BY <2>1 DEF OneServed, Serving
<1>3. ASSUME NEW c \in Conns, Offer(c) PROVE OneServed'
  <2>1. /\ UNCHANGED up /\ Serving(c) /\ Serving(c)'
        /\ \A e \in Conns : e # c => phase'[e] = phase[e] /\ wire'[e] = wire[e]
    BY <1>3, <1>a DEF Offer, Serving
  <2>2. ~up[c] => wire'[c] = NoToken
    BY <1>3, <1>a DEF Offer, OneServed
  <2> QED
    BY <1>b, <2>1, <2>2
<1>4. ASSUME NEW c \in Conns, Leave(c) PROVE OneServed'
  BY <1>4, <1>a DEF Leave, OneServed, Serving
<1>5. ASSUME NEW c \in Conns, TakeToken(c) \/ LinkLost(c) PROVE OneServed'
  BY <1>5, <1>a DEF TakeToken, LinkLost, OneServed, Serving
<1>6. CASE ClientRestart \/ Crash
  BY <1>6, <1>a DEF ClientRestart, Crash, OneServed, Serving
<1>7. CASE Age \/ DeleteDevice \/ UNCHANGED vars
  BY <1>7 DEF Age, DeleteDevice, vars, OneServed, Serving
<1> QED
  BY <1>1, <1>2, <1>3, <1>4, <1>5, <1>6, <1>7 DEF Next, ServeStep

\* Every step keeps the token of the client among those that are or will be accepted,
\* as long as connections do not overlap and nothing failed.
LEMMA AcceptedStep ==
    ASSUME IndInv, OneServed, Accepted, held = saved, [Next]_vars, OneServed', faults' = 0, faults = 0, ~Overlap
    PROVE  Accepted'
<1> USE DEF NoToken, storeVars, clientVars
<1>a. /\ cur \in Nat \ {0} /\ prev \in Nat /\ cur # prev /\ paired \in BOOLEAN
      /\ phase \in [Conns -> Phases] /\ dec \in [Conns -> Decisions] /\ wire \in [Conns -> Tokens \cup {NoToken}]
      /\ hello \in [Conns -> Tokens \cup {NoToken}] /\ up \in [Conns -> BOOLEAN]
  BY TokenConstants DEF IndInv, TypeOK, Tokens
<1>b. paired => {cur} \subseteq Valid /\ (prev # 0 => prev \in Valid) /\ Valid \subseteq {cur, prev} /\ 0 \notin Valid
  BY <1>a DEF Valid
<1>c. ASSUME NEW c \in Conns, Serving(c), \A e \in Conns : e # c => phase'[e] = phase[e],
             paired' => Presented(c)', paired' /\ ~Serving(c)' => (held \in Valid)'
      PROVE  Accepted'
  <2>1. \A e \in Conns : e # c => ~Serving(e)'
    BY <1>c DEF OneServed, Serving
  <2>2. \A e \in Conns : ~Serving(e)' => Presented(e)'
    BY DEF Serving, Presented
  <2> QED
    BY <1>c, <2>1, <2>2 DEF Accepted
<1>1. ASSUME NEW c \in Conns, Hello(c) PROVE Accepted'
  <2>1. \A e \in Conns : ~up[e] /\ ~Serving(e) /\ wire[e] = 0
    BY <1>1 DEF Hello, OneServed, Serving
  <2>2. /\ phase'[c] = "registered" /\ hello'[c] = held /\ up'[c] /\ wire' = wire
        /\ \A e \in Conns : e # c => phase'[e] = phase[e] /\ up'[e] = up[e]
    BY <1>1, <1>a DEF Hello
  <2>4. Presented(c)'
    BY <1>1, <2>1, <2>2 DEF Hello, Presented, Valid
  <2>6. Serving(c)'
    BY <2>2 DEF Serving
  <2>5. \A e \in Conns : e # c => Presented(e)'
    BY <2>1, <2>2 DEF Serving, Presented
  <2> QED
    BY <2>4, <2>5, <2>6 DEF Accepted
<1>2. ASSUME NEW c \in Conns, MaybeRetire(c) PROVE Accepted'
  <2>1. /\ phase[c] = "registered" /\ Serving(c)
        /\ phase'[c] = IF paired /\ hello[c] = cur /\ prev # NoToken THEN "retire" ELSE "open"
        /\ \A e \in Conns : e # c => phase'[e] = phase[e]
    BY <1>2, <1>a DEF MaybeRetire, Serving
  <2>3. paired => Presented(c)'
    BY <1>2, <2>1 DEF MaybeRetire, Accepted, Presented, Valid
  <2> QED
    BY <1>2, <1>c, <2>1, <2>3 DEF MaybeRetire, Serving
<1>3. ASSUME NEW c \in Conns, MaybeRotate(c) PROVE Accepted'
  <2>1. /\ phase[c] = "registered" /\ Serving(c) /\ phase'[c] = "offer" /\ Serving(c)'
        /\ \A e \in Conns : e # c => phase'[e] = phase[e]
    BY <1>3, <1>a DEF MaybeRotate, Serving
  <2>3. Decided(c)'
    BY <1>3, <1>a DEF MaybeRotate, Decided, Decisions
  <2>4. paired' => Presented(c)'
    BY <1>3, <2>1, <2>3 DEF MaybeRotate, Accepted, Presented
  <2> QED
    BY <1>c, <2>1, <2>4
<1>4. ASSUME NEW c \in Conns, RetireOldToken(c) PROVE Accepted'
  <2>1. /\ phase[c] = "retire" /\ Serving(c) /\ phase'[c] = "open" /\ Serving(c)'
        /\ \A e \in Conns : e # c => phase'[e] = phase[e]
    BY <1>4, <1>a DEF RetireOldToken, Serving
  <2>3. paired' => Presented(c)'
    BY <1>4, <1>a, <2>1 DEF RetireOldToken, Accepted, Presented, Valid
  <2> QED
    BY <1>c, <2>1, <2>3
<1>5. ASSUME NEW c \in Conns, Offer(c) PROVE Accepted'
  <2>1. /\ phase[c] = "offer" /\ Serving(c) /\ phase'[c] \in {"commit", "open"} /\ Serving(c)'
        /\ \A e \in Conns : e # c => phase'[e] = phase[e] /\ wire'[e] = wire[e]
    BY <1>5, <1>a DEF Offer, Serving
  <2>2. (wire' = wire \/ wire'[c] \in {NoToken, dec[c].token}) /\ (phase'[c] = "open" => wire' = wire) /\ (~up[c] => wire'[c] \in {NoToken, wire[c]})
    <3>1. CASE wire' = [wire EXCEPT ![c] = IF up[c] THEN dec[c].token ELSE NoToken] /\ phase' = [phase EXCEPT ![c] = "commit"]
      BY <1>a, <3>1
    <3>2. CASE wire' = wire
      BY <3>2
    <3> QED
      BY <1>5, <3>1, <3>2 DEF Offer
  <2>4. ASSUME paired PROVE Presented(c)'
    <3>1. held = hello[c] /\ wire[c] = NoToken /\ Decided(c)
      BY <2>1, <2>4 DEF Accepted, Presented
    <3>2. held \in Valid
      BY <1>a, <1>b, <2>4, <3>1 DEF Decided
    <3>3. Decided(c)' /\ (held \in Valid)'
      BY <1>5, <3>1, <3>2 DEF Offer, Decided, Valid
    <3> QED
      BY <1>5, <2>1, <2>2, <3>1, <3>3 DEF Offer, Presented
  <2> QED
    BY <1>5, <1>c, <2>1, <2>4 DEF Offer
<1>6. ASSUME NEW c \in Conns, ReissuePendingToken(c) PROVE Accepted'
  <2>1. /\ phase[c] = "commit" /\ Serving(c) /\ phase'[c] \in {"open", "rotate"} /\ Serving(c)'
        /\ \A e \in Conns : e # c => phase'[e] = phase[e]
    BY <1>6, <1>a DEF ReissuePendingToken, Serving
  <2>3. ASSUME paired PROVE Presented(c)'
    <3>1. Decided(c) /\ held \in {hello[c], dec[c].token} /\ wire[c] \in {NoToken, dec[c].token}
      BY <2>1, <2>3 DEF Accepted, Presented
    <3>2. CASE dec[c].reissue
      <4>1. hello[c] = prev /\ prev # NoToken /\ prev = dec[c].prev
        BY <3>1, <3>2 DEF Decided
      <4>2. /\ cur' = dec[c].token /\ prev' = prev /\ phase'[c] = "open" /\ paired'
            /\ held' = held /\ wire' = wire
        BY <1>6, <1>a, <2>3, <3>2, <4>1 DEF ReissuePendingToken
      <4>3. dec[c].token # NoToken
        BY <2>1 DEF IndInv, PendingFresh, Pending
      <4>4. (held \in Valid)'
        BY <3>1, <4>1, <4>2, <4>3 DEF Valid
      <4> QED
        BY <3>1, <4>2, <4>4 DEF Presented
    <3>3. CASE ~dec[c].reissue
      <4>1. /\ phase'[c] = "rotate"
            /\ UNCHANGED <<cur, prev, held, wire, hello, dec>>
        BY <1>6, <1>a, <3>3 DEF ReissuePendingToken
      <4> QED
        BY <3>1, <3>3, <4>1 DEF Presented, Decided
    <3> QED
      BY <3>2, <3>3
  <2> QED
    BY <1>6, <1>c, <2>1, <2>3 DEF ReissuePendingToken
<1>7. ASSUME NEW c \in Conns, RotateToken(c) PROVE Accepted'
  <2>1. /\ phase[c] = "rotate" /\ Serving(c) /\ phase'[c] = "open" /\ Serving(c)'
        /\ \A e \in Conns : e # c => phase'[e] = phase[e]
    BY <1>7, <1>a DEF RotateToken, Serving
  <2>3. ASSUME paired PROVE Presented(c)'
    <3>1. held \in {cur, dec[c].token} /\ wire[c] \in {NoToken, dec[c].token} /\ prev = NoToken
      BY <2>1, <2>3 DEF Accepted, Presented, Decided
    <3>2. cur' = dec[c].token /\ prev' = cur /\ paired' /\ held' = held /\ wire' = wire
      BY <1>7, <2>3, <3>1 DEF RotateToken
    <3>3. dec[c].token # NoToken
      BY <2>1 DEF IndInv, PendingFresh, Pending
    <3>4. (held \in Valid)'
      BY <1>a, <3>1, <3>2, <3>3 DEF Valid
    <3> QED
      BY <2>1, <3>1, <3>2, <3>4 DEF Presented
  <2> QED
    BY <1>7, <1>c, <2>1, <2>3 DEF RotateToken
<1>8. ASSUME NEW c \in Conns, Leave(c) PROVE Accepted'
  <2>1. /\ phase[c] = "open" /\ Serving(c) /\ phase'[c] = "closed" /\ ~up[c]
        /\ \A e \in Conns : e # c => phase'[e] = phase[e]
    BY <1>8, <1>a DEF Leave, Serving
  <2>3. paired => (held \in Valid)' /\ Presented(c)'
    BY <1>8, <2>1 DEF Leave, Accepted, Presented, Valid
  <2> QED
    BY <1>8, <1>c, <2>1, <2>3 DEF Leave
<1>9. ASSUME NEW c \in Conns, TakeToken(c) PROVE Accepted'
  <2>1. /\ Serving(c) /\ wire[c] # NoToken /\ held' = wire[c] /\ saved' = wire[c] /\ wire'[c] = NoToken
        /\ \A e \in Conns : e # c => wire'[e] = wire[e]
    BY <1>9, <1>a DEF TakeToken, OneServed
  <2>3. ASSUME paired PROVE Presented(c)'
    <3>1. phase[c] \in {"commit", "rotate", "open"}
      BY <1>a, <2>1, <2>3 DEF Accepted, Presented, Serving, Phases
    <3>2. CASE phase[c] \in {"commit", "rotate"}
      BY <1>9, <2>1, <2>3, <3>2 DEF TakeToken, Accepted, Presented, Decided
    <3>3. CASE phase[c] = "open"
      <4>1. wire[c] = cur /\ wire[c] \in Valid
        BY <1>b, <2>1, <2>3, <3>3 DEF Accepted, Presented
      <4>2. (held \in Valid)'
        BY <1>9, <2>1, <4>1 DEF TakeToken, Valid
      <4> QED
        BY <1>9, <2>1, <3>3, <4>2 DEF TakeToken, Presented
    <3> QED
      BY <3>1, <3>2, <3>3
  <2> QED
    BY <1>9, <1>c, <2>1, <2>3 DEF TakeToken, Serving
<1>10. ASSUME NEW c \in Conns, LinkLost(c) PROVE Accepted'
  <2>1. Serving(c) /\ ~up'[c] /\ wire'[c] = NoToken /\ \A e \in Conns : e # c => wire'[e] = wire[e] /\ up'[e] = up[e]
    BY <1>10, <1>a DEF LinkLost, OneServed
  <2>3. paired => Presented(c)'
    BY <1>10, <2>1 DEF LinkLost, Accepted, Presented, Decided, Valid
  <2> QED
    BY <1>10, <1>c, <2>1, <2>3 DEF LinkLost, Serving
<1>11. CASE ClientRestart
  <2>1. held' = held /\ (\A c \in Conns : ~up'[c] /\ wire'[c] = NoToken)
    BY <1>11 DEF ClientRestart, OneServed
  <2>3. \A c \in Conns : Presented(c) => Presented(c)'
    BY <1>11, <2>1 DEF ClientRestart, Presented, Decided, Valid
  <2> QED
    BY <1>11, <2>1, <2>3 DEF ClientRestart, Accepted, Serving, Valid
<1>12. CASE Age
  BY <1>12 DEF Age, OneServed, Accepted, Serving, Presented, Decided, Valid
<1>13. CASE DeleteDevice
  BY <1>13 DEF DeleteDevice, OneServed, Accepted, Serving
<1>14. CASE Crash
  BY <1>14, <1>a DEF Crash
<1>15. CASE UNCHANGED vars
  BY <1>15 DEF vars, OneServed, Accepted, Serving, Presented, Decided, Valid
<1> QED
  BY <1>1, <1>2, <1>3, <1>4, <1>5, <1>6, <1>7, <1>8, <1>9, <1>10, <1>11, <1>12, <1>13, <1>14, <1>15
     DEF Next, ServeStep

\* Nothing failed, and the token the client holds is or will be accepted.
LEMMA FaultlessStep ==
    ASSUME IndInv, OneServed, Faultless, [Next]_vars, OneServed', ~Overlap
    PROVE  Faultless'
<1> SUFFICES ASSUME faults' = 0 PROVE (held = saved)' /\ Accepted'
  BY DEF Faultless
<1>1. faults = 0
  BY TokenConstants DEF IndInv, TypeOK, Next, ServeStep, vars, Hello, MaybeRetire, MaybeRotate, RetireOldToken,
     Offer, ReissuePendingToken, RotateToken, Leave, TakeToken, LinkLost, ClientRestart, Age, DeleteDevice, Crash
<1>2. held = saved /\ Accepted
  BY <1>1 DEF Faultless
<1>3. Accepted'
  BY <1>1, <1>2, AcceptedStep
<1>4. (held = saved)'
  BY <1>1, <1>2 DEF Next, ServeStep, vars, Hello, MaybeRetire, MaybeRotate, RetireOldToken, clientVars,
     Offer, ReissuePendingToken, RotateToken, Leave, TakeToken, LinkLost, ClientRestart, Age, DeleteDevice, Crash
<1> QED
  BY <1>3, <1>4

\* What the client holds is accepted while nothing has failed.
LEMMA HeldAccepted ==
    ASSUME IndInv, OneServed, Faultless
    PROVE  NeverLockedOut
<1> SUFFICES ASSUME paired, Accepted PROVE Accepts(held)
  BY DEF NeverLockedOut, Faultless
<1>1. /\ cur \in Nat \ {0} /\ prev \in Nat /\ phase \in [Conns -> Phases]
  BY TokenConstants DEF IndInv, TypeOK, Tokens, NoToken
<1>2. CASE \A c \in Conns : ~Serving(c)
  BY <1>2 DEF Accepted, Accepts
<1>3. ASSUME NEW c \in Conns, Serving(c) PROVE Accepts(held)
  <2>1. Presented(c)
    BY DEF Accepted
  <2>2. CASE phase[c] \in {"registered", "open"}
    BY <2>1, <2>2 DEF Presented, Accepts
  <2>3. CASE phase[c] = "retire"
    BY <1>1, <2>1, <2>3 DEF Presented, Valid, NoToken, Accepts
  <2>4. CASE phase[c] = "offer"
    BY <1>1, <2>1, <2>4 DEF Presented, Decided, Valid, NoToken, Accepts
  <2>5. CASE phase[c] \in {"commit", "rotate"}
    BY <1>1, <2>1, <2>5 DEF Presented, Decided, Committing, Valid, NoToken, Accepts
  <2> QED
    BY <1>1, <1>3, <2>2, <2>3, <2>4, <2>5 DEF Serving, Phases
<1> QED
  BY <1>2, <1>3

\* "never locked out": while the device is paired, the token its client would present
\* next is accepted or its commit is still to come, for any number of connections and
\* rotations, links lost at any point and restarts of the client, as long as the
\* connections of the device do not overlap and so far neither the server crashed nor
\* a save of the client failed (without the first, or with a server crash, it is false).
THEOREM ClientKeepsAccess ==
    ASSUME ~Overlap
    PROVE  Spec => []NeverLockedOut
<1>1. Init => OneServed /\ Faultless
  BY DEF Init, OneServed, Faultless, Accepted, Serving, Presented, Valid, NoToken
<1>2. IndInv /\ OneServed /\ Faultless /\ [Next]_vars => (OneServed /\ Faultless)'
  BY OneServedStep, FaultlessStep
<1>3. IndInv /\ OneServed /\ Faultless => NeverLockedOut
  BY HeldAccepted
<1> QED
  BY <1>1, <1>2, <1>3, Invariance, PTL DEF Spec

-----------------------------------------------------------------------------
(* What the client's file is good for, with saves that fail and a server that crashes *)

\* The token of the file against the connection's: it is never newer than the one the
\* connection presented, except when the client took and saved the one it was offered;
\* what is offered is the newest token, and the record is as it was decided upon.
Filed(c) ==
    /\ Pending(c) => dec[c].token = minted
    /\ wire[c] # NoToken => wire[c] = minted
    /\ phase[c] \in {"registered", "retire", "offer"} => saved <= hello[c] /\ wire[c] = NoToken
    /\ phase[c] \in {"commit", "rotate"} =>
         (saved <= hello[c] \/ saved = dec[c].token) /\ wire[c] \in {NoToken, dec[c].token}
    /\ paired => /\ phase[c] = "retire" => hello[c] = cur
                 /\ Pending(c) => Decided(c)
                 /\ phase[c] = "rotate" => ~dec[c].reissue
                 /\ phase[c] = "open" => wire[c] \in {NoToken, cur}

\* The file lags behind the memory, and the grace token is the older one.
FileInv ==
    /\ saved <= held /\ held <= minted /\ prev < cur
    /\ \A c \in Conns : Filed(c)

\* Every step keeps the file behind the memory, and the connection's decision true.
LEMMA FileStep ==
    ASSUME IndInv, OneServed, FileInv, [Next]_vars, OneServed', ~Overlap
    PROVE  FileInv'
<1> USE DEF NoToken, storeVars, clientVars
<1>a. /\ cur \in Nat /\ prev \in Nat /\ cur # prev /\ paired \in BOOLEAN
      /\ minted \in Nat /\ held \in Nat /\ saved \in Nat
      /\ cur <= minted /\ prev <= minted
      /\ phase \in [Conns -> Phases] /\ dec \in [Conns -> Decisions]
      /\ wire \in [Conns -> Tokens \cup {NoToken}]
      /\ hello \in [Conns -> Tokens \cup {NoToken}] /\ up \in [Conns -> BOOLEAN]
      /\ \A c \in Conns : wire[c] \in Nat /\ hello[c] \in Nat /\ dec[c].token \in Nat
  BY TokenConstants DEF IndInv, TypeOK, Tokens, MintedBound, Decisions
<1>b. /\ saved <= held /\ held <= minted /\ prev < cur /\ \A c \in Conns : Filed(c)
  BY DEF FileInv
<1>c. ASSUME NEW c \in Conns, Serving(c), \A e \in Conns : e # c => phase'[e] = phase[e],
             Filed(c)', saved' <= held', held' <= minted', prev' < cur'
      PROVE  FileInv'
  <2>1. \A e \in Conns : e # c => ~Serving(e)' /\ ~up'[e] /\ wire'[e] = 0
    BY <1>c DEF OneServed, Serving
  <2>2. \A e \in Conns : e # c => Filed(e)'
    BY <2>1 DEF Filed, Serving, Pending
  <2> QED
    BY <1>c, <2>2 DEF FileInv
<1>d. ASSUME NEW c \in Conns, Pending(c)
      PROVE  /\ dec[c].token = minted /\ cur < minted /\ prev < minted
             /\ dec[c].token # 0
  <2>1. dec[c].token = minted
    BY <1>b, <1>d DEF Filed
  <2>2. dec[c].token \notin {cur, prev} /\ dec[c].token \in 1..minted
    BY <1>d DEF IndInv, PendingFresh
  <2> QED
    BY <1>a, <2>1, <2>2
<1>1. ASSUME NEW c \in Conns, Hello(c) PROVE FileInv'
  <2>1. \A e \in Conns : ~up[e] /\ ~Serving(e) /\ wire[e] = 0
    BY <1>1 DEF Hello, OneServed, Serving
  <2>2. /\ phase'[c] = "registered" /\ hello'[c] = held /\ wire' = wire
        /\ \A e \in Conns : e # c => phase'[e] = phase[e]
    BY <1>1, <1>a DEF Hello
  <2>3. Filed(c)'
    BY <1>1, <1>b, <2>1, <2>2 DEF Hello, Filed, Pending
  <2>4. \A e \in Conns : e # c => Filed(e)'
    BY <2>1, <2>2 DEF Filed, Serving, Pending
  <2> QED
    BY <1>1, <1>b, <2>3, <2>4 DEF Hello, FileInv
<1>2. ASSUME NEW c \in Conns, MaybeRetire(c) PROVE FileInv'
  <2>1. /\ phase[c] = "registered" /\ Serving(c)
        /\ phase'[c] = IF paired /\ hello[c] = cur /\ prev # NoToken THEN "retire" ELSE "open"
        /\ \A e \in Conns : e # c => phase'[e] = phase[e]
    BY <1>2, <1>a DEF MaybeRetire, Serving
  <2>2. Filed(c)'
    BY <1>2, <1>b, <2>1 DEF MaybeRetire, Filed, Pending
  <2> QED
    BY <1>2, <1>b, <1>c, <2>1, <2>2 DEF MaybeRetire
<1>3. ASSUME NEW c \in Conns, MaybeRotate(c) PROVE FileInv'
  <2>1. /\ phase[c] = "registered" /\ Serving(c) /\ phase'[c] = "offer"
        /\ \A e \in Conns : e # c => phase'[e] = phase[e]
        /\ dec'[c].token = minted + 1 /\ minted' = minted + 1
    BY <1>3, <1>a DEF MaybeRotate, Serving
  <2>2. Decided(c)'
    BY <1>3, <1>a DEF MaybeRotate, Decided, Decisions
  <2>3. Filed(c)'
    BY <1>3, <1>b, <2>1, <2>2 DEF MaybeRotate, Filed, Pending
  <2> QED
    BY <1>3, <1>a, <1>b, <1>c, <2>1, <2>3 DEF MaybeRotate
<1>4. ASSUME NEW c \in Conns, RetireOldToken(c) PROVE FileInv'
  <2>1. /\ phase[c] = "retire" /\ Serving(c) /\ phase'[c] = "open"
        /\ \A e \in Conns : e # c => phase'[e] = phase[e]
    BY <1>4, <1>a DEF RetireOldToken, Serving
  <2>2. Filed(c)'
    BY <1>4, <1>b, <2>1 DEF RetireOldToken, Filed, Pending
  <2>3. prev' < cur'
    BY <1>4, <1>a, <1>b DEF RetireOldToken
  <2> QED
    BY <1>4, <1>b, <1>c, <2>1, <2>2, <2>3 DEF RetireOldToken
<1>5. ASSUME NEW c \in Conns, Offer(c) PROVE FileInv'
  <2>1. /\ phase[c] = "offer" /\ Serving(c) /\ Pending(c)
        /\ \A e \in Conns : e # c => phase'[e] = phase[e]
    BY <1>5, <1>a DEF Offer, Serving, Pending
  <2>2. \/ phase'[c] = "commit" /\ wire'[c] \in {NoToken, dec[c].token}
        \/ phase'[c] = "open" /\ wire' = wire
    BY <1>5, <1>a DEF Offer
  <2>3. /\ saved <= hello[c] /\ wire[c] = 0 /\ dec[c].token = minted
        /\ paired => Decided(c)
    BY <1>b, <2>1 DEF Filed
  <2>4. paired' => Decided(c)'
    BY <1>5, <2>3 DEF Offer, Decided
  <2>5. Filed(c)'
    BY <1>5, <2>2, <2>3, <2>4 DEF Offer, Filed, Pending
  <2> QED
    BY <1>5, <1>b, <1>c, <2>1, <2>5 DEF Offer
<1>6. ASSUME NEW c \in Conns, ReissuePendingToken(c) PROVE FileInv'
  <2>1. /\ phase[c] = "commit" /\ Serving(c) /\ Pending(c) /\ phase'[c] \in {"open", "rotate"}
        /\ \A e \in Conns : e # c => phase'[e] = phase[e]
    BY <1>6, <1>a DEF ReissuePendingToken, Serving, Pending
  <2>2. /\ (saved <= hello[c] \/ saved = dec[c].token) /\ wire[c] \in {NoToken, dec[c].token}
        /\ paired => Decided(c)
    BY <1>b, <2>1 DEF Filed
  <2>3. CASE dec[c].reissue /\ paired /\ prev # NoToken /\ prev = dec[c].prev
    <3>1. /\ cur' = dec[c].token /\ prev' = prev /\ phase'[c] = "open" /\ wire' = wire
          /\ UNCHANGED <<minted, held, saved>>
      BY <1>6, <1>a, <2>3 DEF ReissuePendingToken
    <3>2. Filed(c)'
      BY <1>d, <2>1, <2>2, <3>1 DEF Filed, Pending
    <3> QED
      BY <1>b, <1>c, <1>d, <2>1, <3>1, <3>2
  <2>4. CASE ~(dec[c].reissue /\ paired /\ prev # NoToken /\ prev = dec[c].prev)
    <3>1. /\ phase'[c] = "rotate"
          /\ UNCHANGED <<cur, prev, paired, held, saved, minted, wire, hello, dec>>
      BY <1>6, <1>a, <2>4 DEF ReissuePendingToken
    <3>2. paired => ~dec[c].reissue
      BY <2>2, <2>4 DEF Decided
    <3>3. paired' => Decided(c)'
      BY <2>2, <3>1 DEF Decided
    <3>4. Filed(c)'
      BY <1>d, <2>1, <2>2, <3>1, <3>2, <3>3 DEF Filed, Pending
    <3> QED
      BY <1>b, <1>c, <2>1, <3>1, <3>4
  <2> QED
    BY <2>3, <2>4
<1>7. ASSUME NEW c \in Conns, RotateToken(c) PROVE FileInv'
  <2>1. /\ phase[c] = "rotate" /\ Serving(c) /\ Pending(c) /\ phase'[c] = "open"
        /\ \A e \in Conns : e # c => phase'[e] = phase[e]
    BY <1>7, <1>a DEF RotateToken, Serving, Pending
  <2>2. /\ wire[c] \in {NoToken, dec[c].token}
        /\ paired => Decided(c) /\ ~dec[c].reissue
    BY <1>b, <2>1 DEF Filed
  <2>3. paired => prev = 0 /\ cur' = dec[c].token /\ prev' = cur
    BY <1>7, <2>2 DEF RotateToken, Decided
  <2>4. ~paired => UNCHANGED <<cur, prev>>
    BY <1>7 DEF RotateToken
  <2>5. prev' < cur'
    BY <1>a, <1>b, <1>d, <2>1, <2>3, <2>4
  <2>6. Filed(c)'
    BY <1>7, <1>d, <2>1, <2>2, <2>3 DEF RotateToken, Filed, Pending
  <2> QED
    BY <1>7, <1>b, <1>c, <2>1, <2>5, <2>6 DEF RotateToken
<1>8. ASSUME NEW c \in Conns, Leave(c) PROVE FileInv'
  <2>1. /\ phase[c] = "open" /\ Serving(c) /\ phase'[c] = "closed" /\ ~up[c]
        /\ \A e \in Conns : e # c => phase'[e] = phase[e]
    BY <1>8, <1>a DEF Leave, Serving
  <2>2. Filed(c)'
    BY <1>8, <1>b, <2>1 DEF Leave, Filed, Pending
  <2> QED
    BY <1>8, <1>b, <1>c, <2>1, <2>2 DEF Leave
<1>9. ASSUME NEW c \in Conns, TakeToken(c) PROVE FileInv'
  <2>1. /\ Serving(c) /\ wire[c] # NoToken /\ held' = wire[c] /\ saved' \in {saved, wire[c]} /\ wire'[c] = NoToken
        /\ phase' = phase /\ UNCHANGED <<minted, cur, prev, hello, dec, paired>>
    BY <1>9, <1>a DEF TakeToken, OneServed
  <2>2. wire[c] = minted
    BY <1>b, <2>1 DEF Filed
  <2>3. saved' <= held' /\ held' <= minted'
    BY <1>a, <1>b, <2>1, <2>2
  <2>4. phase[c] \notin {"registered", "retire", "offer"}
    BY <1>b, <2>1 DEF Filed
  <2>5. phase[c] \in {"commit", "rotate"} => saved' <= hello[c] \/ saved' = dec[c].token
    BY <1>b, <2>1 DEF Filed
  <2>6. paired' /\ Pending(c)' => Decided(c)'
    BY <1>b, <2>1 DEF Filed, Pending, Decided
  <2>7. Filed(c)'
    BY <1>b, <2>1, <2>4, <2>5, <2>6 DEF Filed, Pending
  <2> QED
    BY <1>b, <1>c, <2>1, <2>3, <2>7
<1>10. ASSUME NEW c \in Conns, LinkLost(c) PROVE FileInv'
  <2>1. /\ Serving(c) /\ wire'[c] = NoToken /\ phase' = phase
        /\ UNCHANGED <<minted, cur, prev, hello, dec, paired, held, saved>>
    BY <1>10, <1>a DEF LinkLost, OneServed
  <2>2. Filed(c)'
    BY <1>b, <2>1 DEF Filed, Pending, Decided
  <2> QED
    BY <1>b, <1>c, <2>1, <2>2
<1>11. CASE ClientRestart
  <2>1. /\ held' = saved /\ (\A c \in Conns : wire'[c] = NoToken) /\ phase' = phase
        /\ UNCHANGED <<minted, cur, prev, hello, dec, paired, saved>>
    BY <1>11 DEF ClientRestart
  <2>2. \A c \in Conns : Filed(c)'
    BY <1>b, <2>1 DEF Filed, Pending, Decided
  <2> QED
    BY <1>a, <1>b, <2>1, <2>2 DEF FileInv
<1>12. CASE Age \/ UNCHANGED vars
  BY <1>12, <1>b DEF Age, vars, FileInv, Filed, Pending, Decided
<1>13. CASE DeleteDevice
  BY <1>13, <1>b DEF DeleteDevice, FileInv, Filed, Pending
<1>14. CASE Crash
  <2>1. \A c \in Conns : ~Serving(c)' /\ wire'[c] = NoToken
    BY <1>14, <1>a DEF Crash, Serving
  <2>2. \A c \in Conns : Filed(c)'
    BY <2>1 DEF Filed, Serving, Pending
  <2> QED
    BY <1>14, <1>b, <2>2 DEF Crash, FileInv
<1> QED
  BY <1>1, <1>2, <1>3, <1>4, <1>5, <1>6, <1>7, <1>8, <1>9, <1>10, <1>11, <1>12, <1>13, <1>14
     DEF Next, ServeStep

\* The token of the file stops being accepted only for one of the named reasons.
LEMMA FileToken ==
    ASSUME IndInv, OneServed, FileInv, [Next]_vars, OneServed', paired', Accepts(saved), ~Accepts(saved)'
    PROVE  Crash \/ \E c \in Conns : RetireOldToken(c) /\ prev = saved /\ hello[c] # saved
<1> SUFFICES ASSUME ~Crash PROVE \E c \in Conns : RetireOldToken(c) /\ prev = saved /\ hello[c] # saved
  OBVIOUS
<1> USE DEF NoToken, storeVars, clientVars
<1>a. /\ cur \in Nat /\ prev \in Nat /\ saved \in Nat \ {0} /\ cur # prev
      /\ cur <= minted /\ prev <= minted
      /\ phase \in [Conns -> Phases] /\ dec \in [Conns -> Decisions]
      /\ \A c \in Conns : wire[c] \in Nat /\ hello[c] \in Nat /\ dec[c].token \in Nat
  BY TokenConstants DEF IndInv, TypeOK, Tokens, MintedBound, Decisions
<1>b. /\ prev < cur /\ \A c \in Conns : Filed(c)
  BY DEF FileInv
<1>c. \/ paired /\ saved \in {cur, prev}
      \/ \E c \in Conns : phase[c] \in {"commit", "rotate"} /\ dec[c].token = saved
  BY DEF Accepts, Valid, Committing
<1>d. /\ ~(saved' \in {cur', prev'} \ {0})
      /\ \A c \in Conns : ~(phase'[c] \in {"commit", "rotate"} /\ dec'[c].token = saved')
  BY DEF Accepts, Valid, Committing
<1>e. ASSUME UNCHANGED <<paired, cur, prev, saved>>,
             \A c \in Conns : phase[c] \in {"commit", "rotate"} => phase'[c] = phase[c] /\ dec'[c] = dec[c]
      PROVE  FALSE
  BY <1>a, <1>c, <1>d, <1>e
<1>1. ASSUME NEW c \in Conns, Hello(c) \/ MaybeRetire(c) \/ MaybeRotate(c) \/ Offer(c) \/ Leave(c) \/ LinkLost(c)
      PROVE  FALSE
  <2>1. /\ UNCHANGED <<paired, cur, prev, saved>>
        /\ \A e \in Conns : phase[e] \in {"commit", "rotate"} => phase'[e] = phase[e] /\ dec'[e] = dec[e]
    BY <1>1, <1>a DEF Hello, MaybeRetire, MaybeRotate, Offer, Leave, LinkLost
  <2> QED
    BY <1>e, <2>1
<1>2. ASSUME ClientRestart \/ Age \/ UNCHANGED vars PROVE FALSE
  <2>1. UNCHANGED <<paired, cur, prev, saved, phase, dec>>
    BY <1>2 DEF ClientRestart, Age, vars
  <2> QED
    BY <1>e, <2>1
<1>3. ~DeleteDevice
  BY DEF DeleteDevice
<1>4. ASSUME NEW c \in Conns, TakeToken(c) PROVE FALSE
  <2>1. UNCHANGED <<paired, cur, prev, phase, dec>> /\ wire[c] # 0 /\ up[c] /\ saved' \in {saved, wire[c]}
    BY <1>4 DEF TakeToken
  <2>2. CASE saved' = saved
    BY <1>e, <2>1, <2>2
  <2>3. CASE saved' = wire[c]
    <3>1. Filed(c) /\ paired /\ phase[c] \in {"commit", "rotate", "open"}
      BY <1>a, <1>b, <2>1 DEF Filed, OneServed, Serving, Phases
    <3>2. CASE phase[c] = "open"
      BY <1>d, <2>1, <2>3, <3>1, <3>2 DEF Filed
    <3>3. CASE phase[c] \in {"commit", "rotate"}
      BY <1>d, <2>1, <2>3, <3>1, <3>3 DEF Filed
    <3> QED
      BY <3>1, <3>2, <3>3
  <2> QED
    BY <2>1, <2>2, <2>3
<1>5. ASSUME NEW c \in Conns, Serving(c), NEW e \in Conns, phase[e] \in {"commit", "rotate"} PROVE e = c
  BY <1>5 DEF OneServed, Serving
<1>6. ASSUME NEW c \in Conns, RetireOldToken(c) PROVE prev = saved /\ hello[c] # saved
  <2>1. /\ phase[c] = "retire" /\ Serving(c) /\ UNCHANGED <<paired, cur, saved>>
    BY <1>6 DEF RetireOldToken, Serving
  <2>2. hello[c] = cur
    BY <1>b, <2>1 DEF Filed
  <2>3. saved \in {cur, prev}
    BY <1>5, <1>c, <2>1
  <2>4. saved # cur
    BY <1>a, <1>d, <2>1
  <2> QED
    BY <1>a, <2>2, <2>3, <2>4
<1>7. ASSUME NEW c \in Conns, ReissuePendingToken(c) PROVE FALSE
  <2>1. /\ phase[c] = "commit" /\ Serving(c) /\ Pending(c) /\ UNCHANGED <<paired, prev, saved, dec>>
    BY <1>7 DEF ReissuePendingToken, Serving, Pending
  <2>2. Filed(c) /\ Decided(c) /\ paired
    BY <1>b, <2>1 DEF Filed
  <2>3. CASE dec[c].reissue
    <3>1. prev # 0 /\ prev = dec[c].prev /\ hello[c] = prev
      BY <2>2, <2>3 DEF Decided
    <3>2. cur' = dec[c].token
      BY <1>7, <2>2, <2>3, <3>1 DEF ReissuePendingToken
    <3>3. saved <= prev \/ saved = dec[c].token
      BY <2>1, <2>2, <3>1 DEF Filed
    <3>4. saved \in {cur, prev} \/ saved = dec[c].token
      BY <1>5, <1>c, <2>1
    <3> QED
      BY <1>a, <1>b, <1>d, <2>1, <3>2, <3>3, <3>4
  <2>4. CASE ~dec[c].reissue
    <3>1. phase'[c] = "rotate" /\ UNCHANGED cur
      BY <1>7, <1>a, <2>4 DEF ReissuePendingToken
    <3> QED
      BY <1>5, <1>a, <1>c, <1>d, <2>1, <3>1
  <2> QED
    BY <2>3, <2>4
<1>8. ASSUME NEW c \in Conns, RotateToken(c) PROVE FALSE
  <2>1. /\ phase[c] = "rotate" /\ Serving(c) /\ Pending(c) /\ UNCHANGED <<paired, saved>>
    BY <1>8 DEF RotateToken, Serving, Pending
  <2>2. prev = 0
    BY <1>b, <2>1 DEF Filed, Decided
  <2>3. cur' = dec[c].token /\ prev' = cur
    BY <1>8, <2>1, <2>2 DEF RotateToken
  <2>4. saved = cur \/ saved = dec[c].token
    BY <1>5, <1>a, <1>c, <2>1, <2>2
  <2> QED
    BY <1>a, <1>d, <2>1, <2>3, <2>4
<1> QED
  BY <1>1, <1>2, <1>3, <1>4, <1>6, <1>7, <1>8 DEF Next, ServeStep

\* A restart does not lock the client out by itself: with saves that fail, links lost at
\* any point, restarts and rotations, the token of the config file stops being accepted
\* only when the server crashes, or when it retires the grace token because the client
\* presented a newer one that the file never got (the ignored result of the save in the
\* engine's token_rotate arm), as long as connections of the device do not overlap.
THEOREM RestartKeepsAccess ==
    ASSUME ~Overlap
    PROVE  Spec => RestartSafe
<1>1. Init => OneServed /\ FileInv
  BY DEF Init, OneServed, FileInv, Filed, Pending, Serving, NoToken
<1>2. IndInv /\ OneServed /\ FileInv /\ [Next]_vars => (OneServed /\ FileInv)'
  BY OneServedStep, FileStep
<1>3. IndInv /\ OneServed /\ FileInv /\ [Next]_vars
        => [paired' /\ Accepts(saved) /\ ~Accepts(saved)'
              => Crash \/ \E c \in Conns : RetireOldToken(c) /\ prev = saved /\ hello[c] # saved]_vars
  BY OneServedStep, FileToken
<1> QED
  BY <1>1, <1>2, <1>3, Invariance, PTL DEF Spec, RestartSafe
=============================================================================
