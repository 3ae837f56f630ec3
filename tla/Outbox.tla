------------------------------- MODULE Outbox -------------------------------
(***************************************************************************)
(* What the telemetry buffer promises: a bounded outbox between the agent  *)
(* and its server. Lines leave in the order in which they were logged, and *)
(* a line is given up only when Cap lines or more are waiting. A line may  *)
(* reach the server more than once. The outbox does not survive the        *)
(* process.                                                                *)
(***************************************************************************)
EXTENDS Naturals, Sequences, SequencesExt

CONSTANTS
    Cap,    \* lines kept
    Batch   \* lines in one upload, kept beside the Cap ones while it is under way

VARIABLES
    q,     \* the lines waiting, by number, oldest first
    n,     \* lines logged by this process
    got    \* lines the server has

outboxVars == <<q, n, got>>

Init == q = << >> /\ n = 0 /\ got = {}

\* A line is logged; a full outbox gives up one of the lines it holds.
Log ==
    /\ n' = n + 1
    /\ \/ Len(q) < Cap + Batch /\ q' = Append(q, n + 1)
       \/ /\ Len(q) >= Cap
          /\ \E i \in 1 .. Len(q) : q' = Append(RemoveAt(q, i), n + 1)
    /\ UNCHANGED got

\* The k oldest lines reach the server and leave.
Deliver ==
    /\ \E k \in 1 .. Len(q) :
         /\ got' = got \cup {q[i] : i \in 1 .. k}
         /\ q' = SubSeq(q, k + 1, Len(q))
    /\ UNCHANGED n

\* The upload is taken for lost, whether or not the lines reached the server: they
\* stay, and the newest beyond Cap are given up.
Retry ==
    /\ \E k \in 0 .. Len(q) : got' = got \cup {q[i] : i \in 1 .. k}
    /\ q' = IF Len(q) > Cap THEN SubSeq(q, 1, Cap) ELSE q
    /\ UNCHANGED n

Restart == q' = << >> /\ n' = 0 /\ got' = {}

Next == Log \/ Deliver \/ Retry \/ Restart

Spec == Init /\ [][Next]_outboxVars
=============================================================================
