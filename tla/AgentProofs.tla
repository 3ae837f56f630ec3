---------------------------- MODULE AgentProofs ----------------------------
(***************************************************************************)
(* Proofs about Agent, for any number of request threads, pairings, panics *)
(* and restarts: type correctness, which says that a supervisor and a      *)
(* launch are always there to be taken, and, when only one thread pairs at *)
(* a time, that no two engines run at once.                                *)
(***************************************************************************)
EXTENDS Agent, FiniteSetTheorems, TLAPS

(* ---------------------------------------------------------------------- *)
(* The inductive invariant                                                 *)
(* ---------------------------------------------------------------------- *)

\* What happens in which phase of the process: nothing runs when it is down, the boot
\* sequence starts the saved pairing before any request is served, and only a pairer
\* pairs.
Phases ==
    /\ up = "down" => (req = Fresh[1] /\ sup = Fresh[2] /\ eng = Fresh[3] /\ join = 0)
    /\ req["main"].at \in {"idle", "take", "store"}
    /\ up = "boot" <=> req["main"].at # "idle"
    /\ up = "boot" => \A c \in Clients : req[c].at = "idle"
    /\ \A c \in Clients : req[c].at \in {"save", "take", "store"} => c \in Pairers

\* The threads that will still spawn a supervisor have one left to spawn.
StartingSet == {p \in Procs : Starting(p)}
Slots == Cardinality(Started) + Cardinality(StartingSet) <= MaxStarts

\* A thread that is about to store a handle has spawned its supervisor.
Stored == \A p \in Procs : req[p].at = "store" => req[p].sup \in Started

\* A supervisor owns the launch it published until it publishes the next one, and it
\* does so only when the engine of the last one has panicked. An engine that runs
\* without having been aborted is awaited by its supervisor.
Owned ==
    /\ \A s \in Sups : sup[s].st = "none" => sup[s] = NoSup
    /\ \A s \in Sups : sup[s].st = "published" => (sup[s].cur # 0 /\ eng[sup[s].cur].st = "none")
    /\ \A s \in Sups : sup[s].st = "await" => (sup[s].cur # 0 /\ eng[sup[s].cur].st # "none")
    /\ \A s \in Sups : (sup[s].st \in {"parked", "polled"} /\ sup[s].cur # 0)
                          => eng[sup[s].cur].st = "panicked"
    /\ \A s, t \in Sups : (sup[s].cur = sup[t].cur /\ sup[s].cur # 0) => s = t
    /\ \A l \in Launches : eng[l].st \notin {"none", "panicked"}
                              => (eng[l].sup \in Sups /\ sup[eng[l].sup].cur = l)
    /\ \A l \in Launches : (eng[l].st = "live" /\ ~eng[l].abort) => sup[eng[l].sup].st = "await"

Panicked == {l \in Launches : eng[l].st = "panicked"}
Relaunches == Cardinality(Panicked) <= MaxPanics

IndInv == TypeOK /\ Phases /\ Slots /\ Stored /\ Owned /\ Relaunches

\* A step of one thread or task.
Step ==
    \/ Boot \/ Down
    \/ \E c \in Clients : Claim(c) \/ Save(c) \/ ShutdownClear(c) \/ ShutdownStop(c)
    \/ \E p \in Procs : StartTake(p) \/ StartStore(p)
    \/ \E s \in Sups : Poll(s) \/ Publish(s) \/ Launch(s) \/ Cancel(s) \/ Reap(s)
    \/ \E l \in Launches : (\E ok \in BOOLEAN : Dial(l, ok)) \/ Panic(l) \/ Return(l) \/ EngineDropped(l)
                              \/ WatcherExits(l)

\* Both hosts take the same steps.
LEMMA Steps == Next => Step
BY DEF Next, Step, BootAgent, BootTauri, AgentPair, TauriPair, Start, AgentSupervisor, TauriSupervisor,
   Supervise, EngineStep

\* The sets of threads, supervisors and launches are finite.
LEMMA Finite ==
    /\ IsFiniteSet(Procs) /\ IsFiniteSet(Sups) /\ Cardinality(Sups) = MaxStarts
    /\ IsFiniteSet(Launches) /\ Cardinality(Launches) = MaxStarts + MaxPanics
<1>1. IsFiniteSet(Procs)
  BY AgentAssumption, FS_AddElement DEF Procs
<1>2. IsFiniteSet(Sups) /\ Cardinality(Sups) = MaxStarts
  BY AgentAssumption, FS_Interval DEF Sups
<1>3. IsFiniteSet(Launches) /\ Cardinality(Launches) = MaxStarts + MaxPanics
  BY AgentAssumption, FS_Interval DEF Launches
<1> QED
  BY <1>1, <1>2, <1>3

\* A thread on its way to spawn finds a supervisor that was never spawned.
LEMMA SlotFree ==
    ASSUME IndInv, NEW p \in Procs, Starting(p)
    PROVE  Free(Sups \ Started) \in Sups \ Started
<1>1. IsFiniteSet(StartingSet) /\ IsFiniteSet(Started) /\ Started \subseteq Sups
  BY Finite, FS_Subset DEF StartingSet, Started
<1>2. Cardinality(StartingSet) \in Nat \ {0} /\ Cardinality(Started) \in Nat
  BY <1>1, FS_CardinalityType, FS_EmptySet DEF StartingSet
<1>3. Cardinality(Started) < MaxStarts
  BY <1>2, AgentAssumption DEF IndInv, Slots
<1>4. Started # Sups
  BY <1>2, <1>3, Finite, AgentAssumption
<1> QED
  BY <1>1, <1>4 DEF Free

\* A supervisor that is being polled finds a launch that was never used: every launch
\* that is taken has panicked or belongs to another supervisor.
LEMMA LaunchFree ==
    ASSUME IndInv, NEW s \in Sups, sup[s].st = "polled"
    PROVE  Free(Launches \ Launched) \in Launches \ Launched
<1> DEFINE T == {t \in Sups \ {s} : sup[t].cur # 0}
           C == {sup[t].cur : t \in T}
           f == [t \in T |-> sup[t].cur]
<1>1. IsFiniteSet(Panicked) /\ Cardinality(Panicked) \in Nat /\ Cardinality(Panicked) <= MaxPanics
  BY Finite, FS_Subset, FS_CardinalityType DEF Panicked, IndInv, Relaunches
<1>2. IsFiniteSet(T) /\ Cardinality(T) \in Nat /\ Cardinality(T) <= MaxStarts - 1
  <2>1. IsFiniteSet(Sups \ {s}) /\ Cardinality(Sups \ {s}) = MaxStarts - 1
    BY Finite, FS_RemoveElement
  <2>2. T \in SUBSET (Sups \ {s})
    OBVIOUS
  <2> HIDE DEF T
  <2> QED
    BY <2>1, <2>2, FS_Subset, FS_CardinalityType
<1>3. f \in Surjection(T, C)
  BY DEF Surjection
<1> HIDE DEF T, f
<1>4. IsFiniteSet(C) /\ Cardinality(C) <= Cardinality(T) /\ Cardinality(C) \in Nat
  BY <1>2, <1>3, FS_Surjection, FS_CardinalityType
<1>5. Launched \subseteq Panicked \cup C
  <2> SUFFICES ASSUME NEW l \in Launched PROVE l \in Panicked \cup C
    OBVIOUS
  <2>1. l \in Launches /\ l # 0
    BY AgentAssumption DEF Launched, Launches
  <2>2. ASSUME NEW t \in Sups, sup[t].cur = l PROVE l \in Panicked \cup C
    <3>1. CASE t = s
      BY <2>1, <2>2, <3>1 DEF IndInv, Owned, Panicked
    <3>2. CASE t # s
      BY <2>1, <2>2, <3>2 DEF T
    <3> QED
      BY <3>1, <3>2
  <2>3. CASE eng[l].st # "none"
    BY <2>1, <2>2, <2>3 DEF IndInv, Owned, Panicked
  <2> QED
    BY <2>2, <2>3 DEF Launched
<1> HIDE DEF C
<1>6. /\ IsFiniteSet(Panicked \cup C) /\ Cardinality(Panicked \cup C) \in Nat
      /\ Cardinality(Panicked \cup C) <= MaxPanics + (MaxStarts - 1)
  <2>1. Cardinality(Panicked \cap C) \in Nat
    BY <1>1, FS_Intersection, FS_CardinalityType
  <2>2. IsFiniteSet(Panicked \cup C) /\ Cardinality(Panicked \cup C) = Cardinality(Panicked) + Cardinality(C) - Cardinality(Panicked \cap C)
    BY <1>1, <1>4, FS_Union
  <2>3. Cardinality(Panicked \cup C) \in Nat
    BY <2>2, FS_CardinalityType
  <2> QED
    BY <1>1, <1>2, <1>4, <2>1, <2>2, <2>3, AgentAssumption
<1>7. Cardinality(Launched) <= Cardinality(Panicked \cup C) /\ Cardinality(Launched) \in Nat
  BY <1>5, <1>6, FS_Subset, FS_CardinalityType
<1>8. Cardinality(Launched) # Cardinality(Launches)
  BY <1>6, <1>7, Finite, AgentAssumption
<1>9. Launches # Launched /\ Launched \subseteq Launches
  BY <1>7, <1>8, Finite DEF Launched
<1> QED
  BY <1>9 DEF Free

\* The records a process begins with have their types.
LEMMA FreshTypes ==
    /\ NoReq \in Threads /\ NoSup \in Supervisors /\ NoEng \in Tasks
    /\ "main" \in Procs /\ Clients \subseteq Procs
    /\ Fresh[1] = [p \in Procs |-> NoReq] /\ Fresh[2] = [s \in Sups |-> NoSup]
    /\ Fresh[3] = [l \in Launches |-> NoEng]
BY AgentAssumption DEF Threads, Supervisors, Tasks, NoReq, NoSup, NoEng, Procs, Fresh

\* The invariant holds before the first boot.
LEMMA InitInv == Init => IndInv
<1> SUFFICES ASSUME Init PROVE IndInv
  OBVIOUS
<1> USE AgentAssumption DEF Init, Fresh
<1>1. TypeOK
  BY FreshTypes DEF TypeOK
<1>2. Phases
  BY DEF Phases, NoReq, Procs
<1>3. Started = {} /\ StartingSet = {} /\ Panicked = {}
  BY DEF Started, StartingSet, Starting, Panicked, NoReq, NoSup, NoEng
<1>4. Slots /\ Relaunches
  BY <1>3, FS_EmptySet DEF Slots, Relaunches
<1>5. Stored /\ Owned
  BY DEF Stored, Owned, NoReq, NoSup, NoEng
<1> QED
  BY <1>1, <1>2, <1>4, <1>5 DEF IndInv

\* Every step keeps the types.
LEMMA TypeStep ==
    ASSUME IndInv, [Next]_vars
    PROVE  TypeOK'
<1> USE AgentAssumption DEF TypeOK
<1>a. TypeOK /\ Owned /\ Stored
  BY DEF IndInv
<1>b. 0 \in 0 .. MaxStarts /\ Sups \subseteq 0 .. MaxStarts
  BY DEF Sups
<1>c. "main" \in Procs
  BY FreshTypes
<1>1. CASE Boot
  <2>1. PICK at \in {"idle", "take"}, pin \in BOOLEAN : req' = [req EXCEPT !["main"].at = at, !["main"].pin = pin]
    BY <1>1 DEF Boot
  <2>2. req' \in [Procs -> Threads]
    BY <1>a, <1>c, <2>1 DEF Threads
  <2> QED
    BY <1>1, <1>a, <2>2 DEF Boot, Started
<1>2. CASE Down
  BY <1>2, <1>a, FreshTypes DEF Down
<1>3. ASSUME NEW c \in Clients, Claim(c) PROVE TypeOK'
  BY <1>3, <1>a DEF Claim, Threads, Started
<1>4. ASSUME NEW c \in Clients, Save(c) PROVE TypeOK'
  <2>1. CASE req' = [req EXCEPT ![c].at = "take"] /\ saved' = "ok"
    BY <1>4, <1>a, <2>1 DEF Save, Threads, Started
  <2>2. CASE req' = [req EXCEPT ![c] = NoReq] /\ saved' = saved
    BY <1>4, <1>a, <2>2, FreshTypes DEF Save, Started
  <2> QED
    BY <1>4, <2>1, <2>2 DEF Save
<1>5. ASSUME NEW c \in Clients, ShutdownClear(c) PROVE TypeOK'
  BY <1>5, <1>a DEF ShutdownClear, Threads, Started
<1>6. ASSUME NEW c \in Clients, ShutdownStop(c) PROVE TypeOK'
  BY <1>6, <1>a, <1>b DEF ShutdownStop, AbortStored, Threads, Supervisors, NoReq
<1>7. ASSUME NEW p \in Procs, StartTake(p) PROVE TypeOK'
  <2>1. PICK new \in Sups \ Started :
          /\ sup' = [AbortStored EXCEPT ![new] = Spawned(req[p].pin)]
          /\ req' = [req EXCEPT ![p].at = "store", ![p].sup = new]
    BY <1>7, SlotFree DEF StartTake, Starting
  <2>2. req' \in [Procs -> Threads] /\ req[p].pin \in BOOLEAN
    BY <1>a, <1>b, <2>1 DEF Threads
  <2>3. Spawned(req[p].pin) \in Supervisors
    BY <2>2 DEF Spawned, Supervisors, NoSup
  <2>4. AbortStored \in [Sups -> Supervisors]
    BY <1>a DEF AbortStored, Supervisors
  <2>5. sup' \in [Sups -> Supervisors]
    BY <2>1, <2>3, <2>4
  <2> QED
    BY <1>7, <1>a, <2>2, <2>5 DEF StartTake
<1>8. ASSUME NEW p \in Procs, StartStore(p) PROVE TypeOK'
  BY <1>8, <1>a, <1>b DEF StartStore, Stored, Threads, Started, NoReq
<1>9. ASSUME NEW s \in Sups, Poll(s) PROVE TypeOK'
  BY <1>9, <1>a DEF Poll, Supervisors, Started
<1>10. ASSUME NEW s \in Sups, Publish(s) PROVE TypeOK'
  BY <1>10, <1>a, LaunchFree DEF Publish, Supervisors, Started
<1>11. ASSUME NEW s \in Sups, Launch(s) PROVE TypeOK'
  <2>1. [NoEng EXCEPT !.st = "live", !.sup = s] \in Tasks
    BY <1>b DEF NoEng, Tasks
  <2>2. eng' \in [Launches -> Tasks]
    BY <1>11, <1>a, <2>1 DEF Launch
  <2>3. sup' \in [Sups -> Supervisors] /\ Started' = Started
    BY <1>11, <1>a DEF Launch, Supervisors, Started
  <2> QED
    BY <1>11, <1>a, <2>2, <2>3 DEF Launch
<1>12. ASSUME NEW s \in Sups, Cancel(s) PROVE TypeOK'
  <2>1. sup' \in [Sups -> Supervisors] /\ Started' = Started
    BY <1>12, <1>a DEF Cancel, Supervisors, Started
  <2>2. eng' \in [Launches -> Tasks]
    <3>1. CASE sup[s].cur = 0
      BY <1>12, <1>a, <3>1 DEF Cancel, AbortInner
    <3>2. CASE sup[s].cur # 0
      BY <1>12, <1>a, <3>2 DEF Cancel, AbortInner, Tasks
    <3> QED
      BY <3>1, <3>2
  <2> QED
    BY <1>12, <1>a, <2>1, <2>2 DEF Cancel
<1>13. ASSUME NEW s \in Sups, Reap(s) PROVE TypeOK'
  <2>1. PICK st \in {"done", "parked"} : sup' = [sup EXCEPT ![s].st = st]
    BY <1>13 DEF Reap
  <2>2. sup' \in [Sups -> Supervisors] /\ Started' = Started
    BY <1>13, <1>a, <2>1 DEF Reap, Supervisors, Started
  <2> QED
    BY <1>13, <1>a, <2>2 DEF Reap
<1>14. ASSUME NEW l \in Launches, NEW ok \in BOOLEAN, Dial(l, ok) PROVE TypeOK'
  BY <1>14, <1>a DEF Dial, Tasks, Started
<1>15. ASSUME NEW l \in Launches, Panic(l) \/ Return(l) \/ EngineDropped(l) PROVE TypeOK'
  <2>1. eng' \in [Launches -> Tasks]
    <3>1. CASE Panic(l)
      BY <1>a, <3>1 DEF Panic, Tasks
    <3>2. CASE Return(l)
      BY <1>a, <3>2 DEF Return, Tasks
    <3>3. CASE EngineDropped(l)
      BY <1>a, <3>3 DEF EngineDropped, Tasks
    <3> QED
      BY <1>15, <3>1, <3>2, <3>3
  <2> QED
    BY <1>15, <1>a, <2>1 DEF Panic, Return, EngineDropped, Started
<1>16. ASSUME NEW l \in Launches, WatcherExits(l) PROVE TypeOK'
  BY <1>16, <1>a DEF WatcherExits, Started
<1>17. CASE UNCHANGED vars
  BY <1>17, <1>a DEF vars, Started
<1> QED
  BY <1>1, <1>2, <1>3, <1>4, <1>5, <1>6, <1>7, <1>8, <1>9, <1>10, <1>11, <1>12, <1>13, <1>14, <1>15, <1>16,
     <1>17, Steps DEF Step

\* A process that is down takes no step but a boot.
LEMMA DownBoots ==
    ASSUME IndInv, Step, up = "down"
    PROVE  Boot
<1>1. /\ req = [p \in Procs |-> NoReq] /\ sup = [s \in Sups |-> NoSup] /\ eng = [l \in Launches |-> NoEng]
      /\ Clients \subseteq Procs
  BY FreshTypes DEF IndInv, Phases
<1>2. /\ \A p \in Procs : req[p].at = "idle"
      /\ \A s \in Sups : sup[s].st = "none"
      /\ \A l \in Launches : eng[l].st = "none"
  BY <1>1 DEF NoReq, NoSup, NoEng
<1>3. ASSUME NEW c \in Clients PROVE ~(Claim(c) \/ Save(c) \/ ShutdownClear(c) \/ ShutdownStop(c))
  BY <1>1, <1>2 DEF Claim, Save, ShutdownClear, ShutdownStop, Accepting
<1>4. ASSUME NEW p \in Procs PROVE ~(StartTake(p) \/ StartStore(p))
  BY <1>2 DEF StartTake, StartStore
<1>5. ASSUME NEW s \in Sups PROVE ~(Poll(s) \/ Publish(s) \/ Launch(s) \/ Cancel(s) \/ Reap(s))
  BY <1>2 DEF Poll, Publish, Launch, Cancel, Reap
<1>6. ASSUME NEW l \in Launches
      PROVE  ~((\E ok \in BOOLEAN : Dial(l, ok)) \/ Panic(l) \/ Return(l) \/ EngineDropped(l) \/ WatcherExits(l))
  BY <1>2 DEF Dial, Panic, Return, EngineDropped, WatcherExits, Ended
<1> QED
  BY <1>3, <1>4, <1>5, <1>6 DEF Step, Down

\* Every step keeps the phases of the process.
LEMMA PhaseStep ==
    ASSUME IndInv, [Next]_vars
    PROVE  Phases'
<1> USE AgentAssumption
<1>a. Phases /\ req \in [Procs -> Threads]
  BY DEF IndInv, TypeOK
<1>b. "main" \in Procs /\ Clients \subseteq Procs /\ \A c \in Clients : c # "main"
  BY FreshTypes
<1>c. Next /\ ~Boot => up # "down"
  BY DownBoots, Steps
<1>1. CASE Boot
  <2>1. PICK pin \in BOOLEAN :
          req' = [req EXCEPT !["main"].at = IF saved = "none" THEN "idle" ELSE "take", !["main"].pin = pin]
    BY <1>1 DEF Boot
  <2>2. \A p \in Procs : req[p].at = "idle"
    BY <1>1, <1>a, FreshTypes DEF Boot, Phases, NoReq
  <2>3. /\ req'["main"].at = IF saved = "none" THEN "idle" ELSE "take"
        /\ \A c \in Clients : req'[c].at = "idle"
    BY <1>a, <1>b, <2>1, <2>2 DEF Threads
  <2> QED
    <3>1. up' # "down" /\ (up' = "boot" <=> saved # "none")
      BY <1>1 DEF Boot
    <3> QED
      BY <1>b, <2>3, <3>1 DEF Phases
<1>2. CASE Down
  <2>1. \A p \in Procs : req'[p].at = "idle"
    BY <1>2, FreshTypes DEF Down, NoReq
  <2> QED
    BY <1>2, <1>b, <2>1 DEF Down, Phases, Fresh
<1>3. ASSUME NEW c \in Clients, Claim(c) PROVE Phases'
  BY <1>3, <1>a, <1>b DEF Claim, Accepting, Phases, Threads
<1>4. ASSUME NEW c \in Clients, Save(c) PROVE Phases'
  <2>1. up # "down" /\ up # "boot" /\ c \in Pairers
    BY <1>4, <1>a, <1>b, FreshTypes DEF Save, Phases, NoReq
  <2>2. req'["main"] = req["main"] /\ \A d \in Clients : d # c => req'[d] = req[d]
    BY <1>4, <1>a, <1>b DEF Save
  <2> QED
    BY <1>4, <1>a, <1>b, <2>1, <2>2 DEF Save, Phases
<1>5. ASSUME NEW c \in Clients, ShutdownClear(c) PROVE Phases'
  BY <1>5, <1>a, <1>b DEF ShutdownClear, Phases, Threads
<1>6. ASSUME NEW c \in Clients, ShutdownStop(c) PROVE Phases'
  <2>1. up # "boot"
    BY <1>6, <1>a DEF ShutdownStop, Phases
  <2> QED
    BY <1>6, <1>a, <1>b, <2>1 DEF ShutdownStop, Phases, NoReq
<1>7. ASSUME NEW p \in Procs, StartTake(p) PROVE Phases'
  <2>1. up # "down"
    BY <1>7, <1>a, FreshTypes DEF StartTake, Phases, NoReq
  <2>2. req'[p].at = "store" /\ \A d \in Procs : d # p => req'[d] = req[d]
    BY <1>7, <1>a DEF StartTake, Threads
  <2> QED
    BY <1>7, <1>a, <1>b, <2>1, <2>2 DEF StartTake, Phases
<1>8. ASSUME NEW p \in Procs, StartStore(p) PROVE Phases'
  <2>1. up # "down"
    BY <1>8, <1>a, FreshTypes DEF StartStore, Phases, NoReq
  <2>2. req'[p].at = "idle" /\ \A d \in Procs : d # p => req'[d] = req[d]
    BY <1>8, <1>a DEF StartStore, NoReq
  <2>3. CASE p = "main"
    BY <1>8, <1>a, <1>b, <2>1, <2>2, <2>3 DEF StartStore, Phases
  <2>4. CASE p # "main"
    <3>1. p \in Clients /\ up # "boot" /\ up' = up
      BY <1>8, <1>a, <2>4 DEF StartStore, Phases, Procs
    <3> QED
      BY <1>a, <1>b, <2>1, <2>2, <2>4, <3>1 DEF Phases
  <2> QED
    BY <2>3, <2>4
<1>9. CASE Next /\ UNCHANGED <<up, req>> /\ ~Boot
  BY <1>9, <1>a, <1>c DEF Phases
<1>10. CASE UNCHANGED vars
  BY <1>10, <1>a DEF vars, Phases, Fresh
<1>11. ASSUME NEW s \in Sups, Poll(s) \/ Publish(s) \/ Launch(s) \/ Cancel(s) \/ Reap(s) PROVE UNCHANGED <<up, req>>
  BY <1>11 DEF Poll, Publish, Launch, Cancel, Reap
<1>12. ASSUME NEW l \in Launches,
              (\E ok \in BOOLEAN : Dial(l, ok)) \/ Panic(l) \/ Return(l) \/ EngineDropped(l) \/ WatcherExits(l)
       PROVE UNCHANGED <<up, req>>
  BY <1>12 DEF Dial, Panic, Return, EngineDropped, WatcherExits
<1> QED
  BY <1>1, <1>2, <1>3, <1>4, <1>5, <1>6, <1>7, <1>8, <1>9, <1>10, <1>11, <1>12, Steps DEF Step

\* No slot is needed by a step that starts nothing.
LEMMA SlotsKept ==
    ASSUME IndInv, Started' \subseteq Started, StartingSet' \subseteq StartingSet
    PROVE  Slots'
<1>1. IsFiniteSet(StartingSet) /\ IsFiniteSet(Started)
  BY Finite, FS_Subset DEF StartingSet, Started
<1>2. /\ Cardinality(Started') <= Cardinality(Started) /\ IsFiniteSet(Started')
      /\ Cardinality(StartingSet') <= Cardinality(StartingSet) /\ IsFiniteSet(StartingSet')
  BY <1>1, FS_Subset
<1>3. /\ Cardinality(Started) \in Nat /\ Cardinality(Started') \in Nat
      /\ Cardinality(StartingSet) \in Nat /\ Cardinality(StartingSet') \in Nat
  BY <1>1, <1>2, FS_CardinalityType
<1> QED
  BY <1>2, <1>3, AgentAssumption DEF IndInv, Slots

\* Every step leaves a supervisor for each thread that will still spawn one, and a
\* thread stores the handle of one that was spawned.
LEMMA SlotStep ==
    ASSUME IndInv, [Next]_vars
    PROVE  Slots' /\ Stored'
<1> USE AgentAssumption
<1>a. /\ Phases /\ Stored /\ Slots /\ req \in [Procs -> Threads] /\ sup \in [Sups -> Supervisors]
      /\ join \in {0} \cup Started
  BY DEF IndInv, TypeOK
<1>b. "main" \in Procs /\ Clients \subseteq Procs /\ \A c \in Clients : c # "main"
  BY FreshTypes
<1>c. IsFiniteSet(StartingSet) /\ IsFiniteSet(Started)
  BY Finite, FS_Subset DEF StartingSet, Started
<1>d. Cardinality(Started) \in Nat /\ Cardinality(StartingSet) \in Nat
  BY <1>c, FS_CardinalityType
<1>1. CASE Boot
  <2>1. PICK at \in {"idle", "take"}, pin \in BOOLEAN : req' = [req EXCEPT !["main"].at = at, !["main"].pin = pin]
    BY <1>1 DEF Boot
  <2>2. (\A p \in Procs : req[p].at = "idle") /\ \A s \in Sups : sup[s].st = "none"
    BY <1>1, <1>a, FreshTypes DEF Boot, Phases, NoReq, NoSup
  <2>3. \A p \in Procs : req'[p].at # "store" /\ (p # "main" => req'[p].at = "idle")
    BY <1>a, <1>b, <2>1, <2>2 DEF Threads
  <2>4. Started' = {} /\ StartingSet' \subseteq {"main"}
    BY <1>1, <2>2, <2>3 DEF Boot, Started, StartingSet, Starting
  <2>5. Cardinality(Started') = 0 /\ Cardinality(StartingSet') <= 1 /\ Cardinality(StartingSet') \in Nat
    <3>1. IsFiniteSet({"main"}) /\ Cardinality({"main"}) = 1
      BY FS_Singleton
    <3>2. IsFiniteSet(StartingSet') /\ Cardinality(StartingSet') <= Cardinality({"main"})
      BY <2>4, <3>1, FS_Subset
    <3> QED
      BY <2>4, <3>1, <3>2, FS_EmptySet, FS_CardinalityType
  <2> QED
    BY <2>3, <2>5 DEF Slots, Stored
<1>2. CASE Down
  <2>1. (\A p \in Procs : req'[p].at = "idle") /\ \A s \in Sups : sup'[s].st = "none"
    BY <1>2, FreshTypes DEF Down, NoReq, NoSup
  <2>2. Started' = {} /\ StartingSet' = {}
    BY <2>1 DEF Started, StartingSet, Starting
  <2> QED
    BY <2>1, <2>2, SlotsKept DEF Stored
<1>3. ASSUME NEW c \in Clients, Claim(c) PROVE Slots' /\ Stored'
  <2>1. req'[c].at = "save" /\ req'[c].sup = req[c].sup /\ (\A p \in Procs : p # c => req'[p] = req[p]) /\ Started' = Started
    BY <1>3, <1>a, <1>b DEF Claim, Threads, Started
  <2>2. StartingSet' = StartingSet \cup {c}
    BY <1>b, <2>1 DEF StartingSet, Starting
  <2>3. Cardinality(StartingSet') <= Cardinality(StartingSet) + 1 /\ Cardinality(StartingSet') \in Nat
    <3>1. /\ IsFiniteSet(StartingSet \cup {c})
          /\ Cardinality(StartingSet \cup {c}) = IF c \in StartingSet THEN Cardinality(StartingSet) ELSE Cardinality(StartingSet) + 1
      BY <1>c, FS_AddElement
    <3> QED
      BY <1>d, <2>2, <3>1
  <2>4. Cardinality(Started) + Cardinality(StartingSet) < MaxStarts
    BY <1>3 DEF Claim, StartingSet
  <2> QED
    BY <1>a, <1>b, <1>d, <2>1, <2>3, <2>4 DEF Slots, Stored
<1>4. ASSUME NEW c \in Clients, Save(c) PROVE Slots' /\ Stored'
  <2>1. /\ req'[c].at \in {"take", "idle"} /\ (\A p \in Procs : p # c => req'[p] = req[p])
        /\ Started' = Started /\ req[c].at = "save"
    BY <1>4, <1>a, <1>b DEF Save, Threads, Started, NoReq
  <2>2. StartingSet' \subseteq StartingSet
    BY <2>1 DEF StartingSet, Starting
  <2> QED
    BY <1>a, <1>b, <2>1, <2>2, SlotsKept DEF Stored
<1>5. ASSUME NEW c \in Clients, ShutdownClear(c) PROVE Slots' /\ Stored'
  <2>1. req'[c].at = "stop" /\ (\A p \in Procs : p # c => req'[p] = req[p]) /\ Started' = Started
    BY <1>5, <1>a, <1>b DEF ShutdownClear, Threads, Started
  <2>2. StartingSet' \subseteq StartingSet
    BY <2>1 DEF StartingSet, Starting
  <2> QED
    BY <1>a, <1>b, <2>1, <2>2, SlotsKept DEF Stored
<1>6. ASSUME NEW c \in Clients, ShutdownStop(c) PROVE Slots' /\ Stored'
  <2>1. req'[c].at = "idle" /\ (\A p \in Procs : p # c => req'[p] = req[p])
    BY <1>6, <1>a, <1>b DEF ShutdownStop, NoReq
  <2>2. Started' = Started
    BY <1>6, <1>a DEF ShutdownStop, AbortStored, Supervisors, Started
  <2>3. StartingSet' \subseteq StartingSet
    BY <2>1 DEF StartingSet, Starting
  <2> QED
    BY <1>a, <1>b, <2>1, <2>2, <2>3, SlotsKept DEF Stored
<1>7. ASSUME NEW p \in Procs, StartTake(p) PROVE Slots' /\ Stored'
  <2>1. PICK new \in Sups \ Started :
          /\ sup' = [AbortStored EXCEPT ![new] = Spawned(req[p].pin)]
          /\ req' = [req EXCEPT ![p].at = "store", ![p].sup = new]
    BY <1>7, SlotFree DEF StartTake, Starting
  <2>2. /\ req'[p].at = "store" /\ req'[p].sup = new /\ (\A q \in Procs : q # p => req'[q] = req[q])
        /\ req[p].at = "take"
    BY <1>7, <1>a, <2>1 DEF StartTake, Threads
  <2>3. Spawned(req[p].pin).st = "parked"
    BY DEF Spawned, NoSup
  <2>4. AbortStored \in [Sups -> Supervisors] /\ \A s \in Sups : AbortStored[s].st = sup[s].st
    BY <1>a DEF AbortStored, Supervisors
  <2>5. sup'[new].st = "parked" /\ \A s \in Sups : s # new => sup'[s].st = sup[s].st
    BY <2>1, <2>3, <2>4
  <2>6. Started' = Started \cup {new}
    BY <2>5 DEF Started
  <2>7. StartingSet' = StartingSet \ {p} /\ p \in StartingSet
    BY <2>2 DEF StartingSet, Starting
  <2>8. /\ Cardinality(Started') = Cardinality(Started) + 1
        /\ Cardinality(StartingSet') = Cardinality(StartingSet) - 1
    BY <1>c, <2>6, <2>7, FS_AddElement, FS_RemoveElement
  <2> QED
    BY <1>a, <1>d, <2>2, <2>6, <2>8 DEF Slots, Stored
<1>8. ASSUME NEW p \in Procs, StartStore(p) PROVE Slots' /\ Stored'
  <2>1. req'[p].at = "idle" /\ (\A q \in Procs : q # p => req'[q] = req[q]) /\ Started' = Started
    BY <1>8, <1>a DEF StartStore, NoReq, Started
  <2>2. StartingSet' \subseteq StartingSet
    BY <2>1 DEF StartingSet, Starting
  <2> QED
    BY <1>a, <2>1, <2>2, SlotsKept DEF Stored
<1>9. CASE Started' = Started /\ req' = req
  <2>1. StartingSet' = StartingSet
    BY <1>9 DEF StartingSet, Starting
  <2> QED
    BY <1>9, <1>a, <2>1, SlotsKept DEF Stored
<1>10. ASSUME NEW s \in Sups, Poll(s) \/ Publish(s) \/ Launch(s) \/ Cancel(s) \/ Reap(s)
       PROVE  Started' = Started /\ req' = req
  <2>1. PICK st \in {"polled", "published", "await", "gone", "done", "parked"}, cur \in {sup[s].cur, Free(Launches \ Launched)} :
          sup' = [sup EXCEPT ![s].st = st, ![s].cur = cur] \/ sup' = [sup EXCEPT ![s].st = st]
    BY <1>10 DEF Poll, Publish, Launch, Cancel, Reap
  <2>2. sup[s].st # "none"
    BY <1>10 DEF Poll, Publish, Launch, Cancel, Reap
  <2>3. sup'[s].st # "none" /\ \A t \in Sups : t # s => sup'[t] = sup[t]
    BY <1>a, <2>1 DEF Supervisors
  <2> QED
    BY <1>10, <2>2, <2>3 DEF Poll, Publish, Launch, Cancel, Reap, Started
<1>11. ASSUME NEW l \in Launches,
              (\E ok \in BOOLEAN : Dial(l, ok)) \/ Panic(l) \/ Return(l) \/ EngineDropped(l) \/ WatcherExits(l)
       PROVE  Started' = Started /\ req' = req
  BY <1>11 DEF Dial, Panic, Return, EngineDropped, WatcherExits, Started
<1>12. CASE UNCHANGED vars
  BY <1>9, <1>12 DEF vars, Started
<1> QED
  BY <1>1, <1>2, <1>3, <1>4, <1>5, <1>6, <1>7, <1>8, <1>9, <1>10, <1>11, <1>12, Steps DEF Step

\* Every step keeps who owns which launch.
LEMMA OwnedStep ==
    ASSUME IndInv, [Next]_vars
    PROVE  Owned'
<1> USE AgentAssumption
<1>a. /\ Owned /\ sup \in [Sups -> Supervisors] /\ eng \in [Launches -> Tasks] /\ join \in {0} \cup Started
  BY DEF IndInv, TypeOK
<1>b. 0 \notin Launches /\ \A s \in Sups : sup[s].cur \in {0} \cup Launches
  BY <1>a DEF Launches, Supervisors
<1>c. AbortStored \in [Sups -> Supervisors] /\ \A s \in Sups :
          /\ AbortStored[s].st = sup[s].st /\ AbortStored[s].cur = sup[s].cur
          /\ sup[s].st = "none" => AbortStored[s] = sup[s]
  <2>1. AbortStored \in [Sups -> Supervisors]
    BY <1>a DEF AbortStored, Supervisors
  <2>2. ASSUME NEW s \in Sups
        PROVE  /\ AbortStored[s].st = sup[s].st /\ AbortStored[s].cur = sup[s].cur
               /\ sup[s].st = "none" => AbortStored[s] = sup[s]
    <3>1. CASE s = join
      BY <1>a, <3>1 DEF AbortStored, Supervisors, Started, Sups
    <3>2. CASE s # join
      BY <3>2 DEF AbortStored
    <3> QED
      BY <3>1, <3>2
  <2> QED
    BY <2>1, <2>2
<1>1. CASE Down
  <2>1. (\A s \in Sups : sup'[s] = NoSup) /\ \A l \in Launches : eng'[l] = NoEng
    BY <1>1, FreshTypes DEF Down
  <2>2. NoSup.st = "none" /\ NoSup.cur = 0 /\ NoEng.st = "none"
    BY DEF NoSup, NoEng
  <2> QED
    BY <2>1, <2>2 DEF Owned
<1>2. ASSUME NEW c \in Clients, ShutdownStop(c) PROVE Owned'
  <2>1. \A s \in Sups : /\ sup'[s].st = sup[s].st /\ sup'[s].cur = sup[s].cur
                        /\ sup[s].st = "none" => sup'[s] = sup[s]
    BY <1>2, <1>c DEF ShutdownStop
  <2> QED
    BY <1>2, <1>a, <1>b, <2>1 DEF ShutdownStop, Owned
<1>3. ASSUME NEW p \in Procs, StartTake(p) PROVE Owned'
  <2>1. PICK new \in Sups \ Started : sup' = [AbortStored EXCEPT ![new] = Spawned(req[p].pin)]
    BY <1>3, SlotFree DEF StartTake, Starting
  <2>2. Spawned(req[p].pin).st = "parked" /\ Spawned(req[p].pin).cur = 0
    BY DEF Spawned, NoSup
  <2>3. AbortStored \in [Sups -> Supervisors] /\ \A s \in Sups :
          /\ AbortStored[s].st = sup[s].st /\ AbortStored[s].cur = sup[s].cur
          /\ sup[s].st = "none" => AbortStored[s] = sup[s]
    BY <1>c
  <2>4. /\ sup'[new].st = "parked" /\ sup'[new].cur = 0
        /\ \A s \in Sups : s # new => /\ sup'[s].st = sup[s].st /\ sup'[s].cur = sup[s].cur
                                      /\ sup[s].st = "none" => sup'[s] = sup[s]
    BY <2>1, <2>2, <2>3
  <2>5. sup[new].st = "none" /\ sup[new].cur = 0 /\ eng' = eng
    BY <1>3, <1>a, <2>1 DEF StartTake, Started, Owned, NoSup
  <2> QED
    BY <1>a, <1>b, <2>4, <2>5 DEF Owned
<1>4. ASSUME NEW s \in Sups, Poll(s) PROVE Owned'
  <2>1. /\ sup[s].st = "parked" /\ sup'[s].st = "polled" /\ sup'[s].cur = sup[s].cur /\ eng' = eng
        /\ \A t \in Sups : t # s => sup'[t] = sup[t]
    BY <1>4, <1>a DEF Poll, Supervisors
  <2> QED
    BY <1>a, <1>b, <2>1 DEF Owned
<1>5. ASSUME NEW s \in Sups, Publish(s) PROVE Owned'
  <2>1. PICK l \in Launches \ Launched : sup' = [sup EXCEPT ![s].st = "published", ![s].cur = l]
    BY <1>5, LaunchFree DEF Publish
  <2>2. /\ sup[s].st = "polled" /\ sup'[s].st = "published" /\ sup'[s].cur = l /\ eng' = eng
        /\ \A t \in Sups : t # s => sup'[t] = sup[t]
    BY <1>5, <1>a, <2>1 DEF Publish, Supervisors
  <2>3. eng[l].st = "none" /\ (\A t \in Sups : sup[t].cur # l) /\ l # 0
    BY <1>b, <2>1 DEF Launched
  <2> QED
    BY <1>a, <1>b, <2>2, <2>3 DEF Owned
<1>6. ASSUME NEW s \in Sups, Launch(s) PROVE Owned'
  <2>1. sup[s].st = "published" /\ sup[s].cur \in Launches /\ eng[sup[s].cur].st = "none"
    BY <1>6, <1>a, <1>b DEF Launch, Owned
  <2>2. /\ sup'[s].st = "await" /\ sup'[s].cur = sup[s].cur
        /\ \A t \in Sups : t # s => sup'[t] = sup[t]
    BY <1>6, <1>a DEF Launch, Supervisors
  <2>3. /\ eng'[sup[s].cur].st = "live" /\ eng'[sup[s].cur].sup = s
        /\ \A l \in Launches : l # sup[s].cur => eng'[l] = eng[l]
    BY <1>6, <1>a, <2>1 DEF Launch, NoEng
  <2> QED
    BY <1>a, <1>b, <2>1, <2>2, <2>3 DEF Owned
<1>7. ASSUME NEW s \in Sups, Cancel(s) PROVE Owned'
  <2>1. /\ sup'[s].st = "gone" /\ sup'[s].cur = sup[s].cur /\ sup[s].st \in {"parked", "await"}
        /\ \A t \in Sups : t # s => sup'[t] = sup[t]
    BY <1>7, <1>a DEF Cancel, Supervisors
  <2>2. \A l \in Launches : /\ eng'[l].st = eng[l].st /\ eng'[l].sup = eng[l].sup
                            /\ (eng[l].abort \/ l = sup[s].cur) <=> eng'[l].abort
    <3>1. CASE sup[s].cur = 0
      BY <1>7, <1>b, <3>1 DEF Cancel, AbortInner
    <3>2. CASE sup[s].cur # 0
      BY <1>7, <1>a, <1>b, <3>2 DEF Cancel, AbortInner, Tasks
    <3> QED
      BY <3>1, <3>2
  <2> QED
    BY <1>a, <1>b, <2>1, <2>2 DEF Owned
<1>8. ASSUME NEW s \in Sups, Reap(s) PROVE Owned'
  <2>1. sup[s].st = "await" /\ sup[s].cur \in Launches /\ eng' = eng
    BY <1>8, <1>a, <1>b DEF Reap, Owned
  <2>2. /\ eng[sup[s].cur].st \in {"returned", "panicked"}
        /\ sup'[s].st = IF eng[sup[s].cur].st = "returned" THEN "done" ELSE "parked"
        /\ sup'[s].cur = sup[s].cur /\ \A t \in Sups : t # s => sup'[t] = sup[t]
    BY <1>8, <1>a DEF Reap, Supervisors
  <2> QED
    BY <1>a, <1>b, <2>1, <2>2 DEF Owned
<1>9. ASSUME NEW l \in Launches, (\E ok \in BOOLEAN : Dial(l, ok)) \/ Panic(l) \/ Return(l) \/ EngineDropped(l)
      PROVE  Owned'
  <2>1. /\ eng[l].st = "live" /\ sup' = sup /\ eng'[l].sup = eng[l].sup /\ eng'[l].abort = eng[l].abort
        /\ eng'[l].st # "none"
        /\ \A m \in Launches : m # l => eng'[m] = eng[m]
    <3>1. ASSUME NEW ok \in BOOLEAN, Dial(l, ok) PROVE <2>1
      BY <1>a, <3>1 DEF Dial, Tasks
    <3>2. CASE Panic(l)
      BY <1>a, <3>2 DEF Panic, Tasks
    <3>3. CASE Return(l)
      BY <1>a, <3>3 DEF Return, Tasks
    <3>4. CASE EngineDropped(l)
      BY <1>a, <3>4 DEF EngineDropped, Tasks
    <3> QED
      BY <1>9, <3>1, <3>2, <3>3, <3>4
  <2> QED
    BY <1>a, <1>b, <2>1 DEF Owned
<1>10. CASE UNCHANGED <<sup, eng>>
  BY <1>10, <1>a DEF Owned
<1>11. CASE Boot \/ (\E l \in Launches : WatcherExits(l)) \/ UNCHANGED vars
  BY <1>10, <1>11 DEF Boot, WatcherExits, vars
<1>12. ASSUME NEW c \in Clients, Claim(c) \/ Save(c) \/ ShutdownClear(c) PROVE Owned'
  BY <1>10, <1>12 DEF Claim, Save, ShutdownClear
<1>13. ASSUME NEW p \in Procs, StartStore(p) PROVE Owned'
  BY <1>10, <1>13 DEF StartStore
<1> QED
  BY <1>1, <1>2, <1>3, <1>4, <1>5, <1>6, <1>7, <1>8, <1>9, <1>11, <1>12, <1>13, Steps DEF Step

\* Every step keeps the number of panics within its bound: no panicked launch is
\* used again.
LEMMA PanicStep ==
    ASSUME IndInv, [Next]_vars
    PROVE  Relaunches'
<1> USE AgentAssumption
<1>a. Owned /\ sup \in [Sups -> Supervisors] /\ eng \in [Launches -> Tasks] /\ Relaunches
  BY DEF IndInv, TypeOK
<1>b. IsFiniteSet(Panicked) /\ Cardinality(Panicked) \in Nat
  BY Finite, FS_Subset, FS_CardinalityType DEF Panicked
<1>1. CASE Panicked' \subseteq Panicked
  <2>1. IsFiniteSet(Panicked') /\ Cardinality(Panicked') <= Cardinality(Panicked)
    BY <1>1, <1>b, FS_Subset
  <2> QED
    BY <1>a, <1>b, <2>1, FS_CardinalityType DEF Relaunches
<1>2. ASSUME NEW l \in Launches, Panic(l) PROVE Relaunches'
  <2>1. eng'[l].st = "panicked" /\ eng[l].st = "live" /\ \A m \in Launches : m # l => eng'[m] = eng[m]
    BY <1>2, <1>a DEF Panic, Tasks
  <2>2. Panicked' = Panicked \cup {l} /\ l \notin Panicked
    BY <2>1 DEF Panicked
  <2>3. Cardinality(Panicked') = Cardinality(Panicked) + 1
    BY <1>b, <2>2, FS_AddElement
  <2>4. Cardinality(Panicked) < MaxPanics
    BY <1>2 DEF Panic, Panics, Panicked
  <2> QED
    BY <1>b, <2>3, <2>4 DEF Relaunches
<1>3. CASE Down
  BY <1>1, <1>3, FreshTypes DEF Down, Panicked, NoEng
<1>4. ASSUME NEW s \in Sups, Launch(s) PROVE Relaunches'
  <2>1. \A l \in Launches : eng'[l].st = "panicked" => eng[l].st = "panicked"
    BY <1>4, <1>a DEF Launch, NoEng, Tasks
  <2> QED
    BY <1>1, <2>1 DEF Panicked
<1>5. ASSUME NEW s \in Sups, Cancel(s) PROVE Relaunches'
  <2>1. \A l \in Launches : eng'[l].st = eng[l].st
    <3>1. CASE sup[s].cur = 0
      BY <1>5, <3>1 DEF Cancel, AbortInner
    <3>2. CASE sup[s].cur # 0
      BY <1>5, <1>a, <3>2 DEF Cancel, AbortInner, Tasks
    <3> QED
      BY <3>1, <3>2
  <2> QED
    BY <1>1, <2>1 DEF Panicked
<1>6. ASSUME NEW l \in Launches, NEW ok \in BOOLEAN, Dial(l, ok) PROVE Relaunches'
  <2>1. \A m \in Launches : eng'[m].st = eng[m].st
    BY <1>6, <1>a DEF Dial, Tasks
  <2> QED
    BY <1>1, <2>1 DEF Panicked
<1>7. ASSUME NEW l \in Launches, Return(l) \/ EngineDropped(l) PROVE Relaunches'
  <2>1. eng'[l].st # "panicked" /\ \A m \in Launches : m # l => eng'[m] = eng[m]
    BY <1>7, <1>a DEF Return, EngineDropped, Tasks
  <2> QED
    BY <1>1, <2>1 DEF Panicked
<1>8. CASE UNCHANGED eng
  BY <1>1, <1>8 DEF Panicked
<1>9. CASE Boot \/ (\E l \in Launches : WatcherExits(l)) \/ UNCHANGED vars
  BY <1>8, <1>9 DEF Boot, WatcherExits, vars
<1>10. ASSUME NEW c \in Clients, Claim(c) \/ Save(c) \/ ShutdownClear(c) \/ ShutdownStop(c) PROVE Relaunches'
  BY <1>8, <1>10 DEF Claim, Save, ShutdownClear, ShutdownStop
<1>11. ASSUME NEW p \in Procs, StartTake(p) \/ StartStore(p) PROVE Relaunches'
  BY <1>8, <1>11 DEF StartTake, StartStore
<1>12. ASSUME NEW s \in Sups, Poll(s) \/ Publish(s) \/ Reap(s) PROVE Relaunches'
  BY <1>8, <1>12 DEF Poll, Publish, Reap
<1> QED
  BY <1>2, <1>3, <1>4, <1>5, <1>6, <1>7, <1>9, <1>10, <1>11, <1>12, Steps DEF Step

\* IndInv is an invariant.
LEMMA Invariance == Spec => []IndInv
<1>1. IndInv /\ [Next]_vars => IndInv'
  BY TypeStep, PhaseStep, SlotStep, OwnedStep, PanicStep DEF IndInv
<1> QED
  BY <1>1, InitInv, PTL DEF Spec

(* ---------------------------------------------------------------------- *)
(* Theorems                                                                *)
(* ---------------------------------------------------------------------- *)

\* The stored handle is that of a supervisor that was spawned, the published channel
\* that of a launch, and start and a relaunch always find the task they spawn.
THEOREM TypeCorrect == Spec => []TypeOK
<1>1. IndInv => TypeOK
  BY DEF IndInv
<1> QED
  BY <1>1, Invariance, PTL

\* A supervisor that is not on its way out.
Active(s) == sup[s].st \notin {"none", "gone", "done"} /\ ~sup[s].abort

\* While a thread is between taking the old handle and storing the new one, the slot
\* is empty, and a supervisor that is not on its way out is the stored one or that
\* thread's.
Handled ==
    /\ \A p \in Procs : req[p].at = "store" => join = 0
    /\ \A s \in Sups : Active(s) => (s = join \/ \E p \in Procs : req[p].at = "store" /\ req[p].sup = s)

\* Pairings come from one thread, so at most one thread is inside start at a time:
\* the boot sequence is over before the first request.
LEMMA OneStarter ==
    ASSUME IndInv, \A c, d \in Pairers : c = d,
           NEW p \in Procs, NEW q \in Procs,
           req[p].at \in {"save", "take", "store"}, req[q].at \in {"save", "take", "store"}
    PROVE  p = q
BY AgentAssumption DEF IndInv, Phases, Procs

\* Every step keeps the slot and the supervisors in agreement.
LEMMA HandledStep ==
    ASSUME IndInv, Handled, \A c, d \in Pairers : c = d, [Next]_vars
    PROVE  Handled'
<1> USE AgentAssumption
<1>a. /\ req \in [Procs -> Threads] /\ sup \in [Sups -> Supervisors] /\ join \in {0} \cup Started
      /\ Clients \subseteq Procs /\ 0 \notin Sups
  BY FreshTypes DEF IndInv, TypeOK, Sups
<1>b. /\ AbortStored \in [Sups -> Supervisors]
      /\ \A s \in Sups : /\ AbortStored[s].st = sup[s].st
                         /\ ~AbortStored[s].abort => (~sup[s].abort /\ s # join)
  <2>1. AbortStored \in [Sups -> Supervisors]
    BY <1>a DEF AbortStored, Supervisors
  <2>2. ASSUME NEW s \in Sups
        PROVE  AbortStored[s].st = sup[s].st /\ (~AbortStored[s].abort => (~sup[s].abort /\ s # join))
    <3>1. CASE s = join
      BY <1>a, <3>1 DEF AbortStored, Supervisors
    <3>2. CASE s # join
      BY <3>2 DEF AbortStored
    <3> QED
      BY <3>1, <3>2
  <2> QED
    BY <2>1, <2>2
<1>1. CASE Boot
  <2>1. (\A p \in Procs : req[p].at = "idle") /\ \A s \in Sups : sup[s].st = "none"
    BY <1>1, FreshTypes DEF Boot, IndInv, Phases, NoReq, NoSup
  <2>2. PICK at \in {"idle", "take"}, pin \in BOOLEAN : req' = [req EXCEPT !["main"].at = at, !["main"].pin = pin]
    BY <1>1 DEF Boot
  <2>3. \A p \in Procs : req'[p].at # "store"
    BY <1>a, <2>1, <2>2 DEF Threads
  <2> QED
    BY <1>1, <2>1, <2>3 DEF Boot, Handled, Active
<1>2. CASE Down
  <2>1. (\A p \in Procs : req'[p].at = "idle") /\ \A s \in Sups : sup'[s].st = "none"
    BY <1>2, FreshTypes DEF Down, NoReq, NoSup
  <2> QED
    BY <2>1 DEF Handled, Active
<1>3. ASSUME NEW c \in Clients, Claim(c) \/ Save(c) \/ ShutdownClear(c) PROVE Handled'
  <2>1. /\ req[c].at # "store" /\ UNCHANGED <<sup, join>>
        /\ \A p \in Procs : p # c => req'[p] = req[p]
    BY <1>3, <1>a DEF Claim, Save, ShutdownClear, Accepting
  <2>2. req'[c].at # "store"
    BY <1>3, <1>a DEF Claim, Save, ShutdownClear, Threads, NoReq
  <2> QED
    BY <2>1, <2>2 DEF Handled, Active
<1>4. ASSUME NEW c \in Clients, ShutdownStop(c) PROVE Handled'
  <2>1. /\ req[c].at = "stop" /\ req'[c].at = "idle" /\ join' = 0 /\ sup' = AbortStored
        /\ \A p \in Procs : p # c => req'[p] = req[p]
    BY <1>4, <1>a DEF ShutdownStop, NoReq
  <2>2. ASSUME NEW s \in Sups, Active(s)' PROVE \E p \in Procs : req'[p].at = "store" /\ req'[p].sup = s
    <3>1. Active(s) /\ s # join
      BY <1>b, <2>1, <2>2 DEF Active
    <3> QED
      BY <2>1, <3>1 DEF Handled
  <2> QED
    BY <2>1, <2>2 DEF Handled
<1>5. ASSUME NEW p \in Procs, StartTake(p) PROVE Handled'
  <2>1. PICK new \in Sups \ Started :
          /\ sup' = [AbortStored EXCEPT ![new] = Spawned(req[p].pin)]
          /\ req' = [req EXCEPT ![p].at = "store", ![p].sup = new]
    BY <1>5, SlotFree DEF StartTake, Starting
  <2>2. req'[p].at = "store" /\ req'[p].sup = new /\ req[p].at = "take" /\ join' = 0
    BY <1>5, <1>a, <2>1 DEF StartTake, Threads
  <2>3. ASSUME NEW s \in Sups, Active(s)' PROVE \E q \in Procs : req'[q].at = "store" /\ req'[q].sup = s
    <3>1. CASE s = new
      BY <2>2, <3>1
    <3>2. CASE s # new
      <4>1. Active(s) /\ s # join
        BY <1>b, <2>1, <2>3, <3>2 DEF Active
      <4>2. PICK q \in Procs : req[q].at = "store"
        BY <4>1 DEF Handled
      <4>3. p = q
        BY <2>2, <4>2, OneStarter
      <4> QED
        BY <2>2, <4>2, <4>3
    <3> QED
      BY <3>1, <3>2
  <2> QED
    BY <2>2, <2>3 DEF Handled
<1>6. ASSUME NEW p \in Procs, StartStore(p) PROVE Handled'
  <2>1. /\ req[p].at = "store" /\ join' = req[p].sup /\ join = 0 /\ sup' = sup
        /\ req'[p].at = "idle" /\ \A q \in Procs : q # p => req'[q] = req[q]
    BY <1>6, <1>a DEF StartStore, Handled, NoReq
  <2>2. \A q \in Procs : req[q].at = "store" => q = p
    BY <2>1, OneStarter
  <2> QED
    BY <1>a, <2>1, <2>2 DEF Handled, Active
<1>7. ASSUME NEW s \in Sups, Poll(s) \/ Publish(s) \/ Launch(s) \/ Cancel(s) \/ Reap(s) PROVE Handled'
  <2>1. PICK st \in {"polled", "published", "await", "gone", "done", "parked"}, cur \in {sup[s].cur, Free(Launches \ Launched)} :
          sup' = [sup EXCEPT ![s].st = st, ![s].cur = cur] \/ sup' = [sup EXCEPT ![s].st = st]
    BY <1>7 DEF Poll, Publish, Launch, Cancel, Reap
  <2>2. sup'[s].abort = sup[s].abort /\ sup[s].st \in {"parked", "polled", "published", "await"} /\ UNCHANGED <<req, join>>
    BY <1>7, <1>a, <2>1 DEF Poll, Publish, Launch, Cancel, Reap, Supervisors
  <2>3. \A t \in Sups : t # s => sup'[t] = sup[t]
    BY <1>a, <2>1
  <2>4. \A t \in Sups : Active(t)' => Active(t)
    BY <2>2, <2>3 DEF Active
  <2> QED
    BY <2>2, <2>4 DEF Handled
<1>8. CASE UNCHANGED <<sup, join, req>>
  BY <1>8 DEF Handled, Active
<1>9. ASSUME NEW l \in Launches,
             (\E ok \in BOOLEAN : Dial(l, ok)) \/ Panic(l) \/ Return(l) \/ EngineDropped(l) \/ WatcherExits(l)
      PROVE  Handled'
  BY <1>8, <1>9 DEF Dial, Panic, Return, EngineDropped, WatcherExits
<1>10. CASE UNCHANGED vars
  BY <1>8, <1>10 DEF vars
<1> QED
  BY <1>1, <1>2, <1>3, <1>4, <1>5, <1>6, <1>7, <1>9, <1>10, Steps DEF Step

\* "so we never run two engines at once": when pairings come from one thread, at most
\* one supervisor is not on its way out and at most one engine runs that is not being
\* torn down, through any number of pairings, panics, relaunches, restarts, and a
\* Shutdown from any thread that overlaps them.
THEOREM NeverTwoEngines ==
    ASSUME \A c, d \in Pairers : c = d
    PROVE  Spec => []OneEngine
<1>1. Init => Handled
  BY FreshTypes DEF Init, Handled, Active, NoReq, NoSup
<1>2. IndInv /\ Handled /\ [Next]_vars => Handled'
  BY HandledStep
<1>3. IndInv /\ Handled => OneEngine
  <2> SUFFICES ASSUME IndInv, Handled PROVE OneEngine
    OBVIOUS
  <2>1. ASSUME NEW s \in Sups, NEW t \in Sups, Active(s), Active(t) PROVE s = t
    <3>1. 0 \notin Sups
      BY DEF Sups
    <3>2. CASE join # 0
      BY <2>1, <3>2 DEF Handled
    <3>3. CASE join = 0
      <4>1. PICK p \in Procs : req[p].at = "store" /\ req[p].sup = s
        BY <2>1, <3>1, <3>3 DEF Handled
      <4>2. PICK q \in Procs : req[q].at = "store" /\ req[q].sup = t
        BY <2>1, <3>1, <3>3 DEF Handled
      <4> QED
        BY <4>1, <4>2, OneStarter
    <3> QED
      BY <3>2, <3>3
  <2>2. ASSUME NEW l \in Launches, Running(l), ~Doomed(l)
        PROVE  eng[l].sup \in Sups /\ Active(eng[l].sup) /\ sup[eng[l].sup].cur = l
    <3>1. eng[l].sup \in Sups /\ sup[eng[l].sup].cur = l /\ sup[eng[l].sup].st = "await"
      BY <2>2 DEF IndInv, Owned, Running, Doomed
    <3>2. eng[l].sup # 0
      BY <3>1 DEF Sups
    <3> QED
      BY <2>2, <3>1, <3>2 DEF Doomed, Active
  <2>3. \A l, m \in Launches : (Running(l) /\ ~Doomed(l) /\ Running(m) /\ ~Doomed(m)) => l = m
    BY <2>1, <2>2
  <2> QED
    BY <2>1, <2>3 DEF OneEngine, Active
<1> QED
  BY <1>1, <1>2, <1>3, Invariance, PTL DEF Spec
=============================================================================
