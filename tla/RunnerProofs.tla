----------------------------- MODULE RunnerProofs -----------------------------
(***************************************************************************)
(* What holds of the daemons for any number of them, of slots, of jobs, of *)
(* restarts and of faults.                                                 *)
(***************************************************************************)
EXTENDS Runner, ChatStoreProofs, FiniteSetTheorems, WellFoundedInduction

-----------------------------------------------------------------------------
(* The table under the daemons.                                            *)

(* The oldest unclaimed row is an unclaimed row, and there is none older.  *)
LEMMA OldestIsUnclaimed ==
    ASSUME rows \in Seq(Row), Unclaimed # {}
    PROVE  /\ OldestUnclaimed \in Unclaimed
           /\ \A n \in Unclaimed : OldestUnclaimed <= n
<1>1. Unclaimed \subseteq Nat
  BY RowOfId DEF Unclaimed
<1>2. PICK m \in Unclaimed : \A n \in Unclaimed : <<n, m>> \notin OpToRel(<, Nat)
  BY <1>1, NatLessThanWellFounded, WFMin
<1>3. \A n \in Unclaimed : m <= n
  <2> SUFFICES ASSUME NEW n \in Unclaimed, n < m
               PROVE  FALSE
    BY <1>1
  <2>1. <<n, m>> \in Nat \X Nat
    BY <1>1
  <2>2. <<n, m>> \in OpToRel(<, Nat)
    BY <2>1 DEF OpToRel
  <2> QED BY <1>2, <2>2
<1> QED BY <1>1, <1>3 DEF OldestUnclaimed, Min

(* Ids are never reused: the table only grows.                             *)
LEMMA IdsGrow ==
    ASSUME rows \in Seq(Row), [StoreNext]_storeVars
    PROVE  Ids \subseteq Ids'
<1>1. ASSUME NEW c \in Chats, InsertJob(c) \/ InsertPlain(c)
      PROVE  Ids \subseteq Ids'
  <2>1. PICK x \in Row : rows' = Append(rows, x)
    BY <1>1, NewRowType DEF InsertJob, InsertPlain, Kinds
  <2> QED BY <2>1, AppendRow DEF Ids
<1>2. ASSUME NEW c \in Chats, DeleteChat(c)
      PROVE  Ids \subseteq Ids'
  BY <1>2, DeleteRows DEF DeleteChat, Ids
<1>3. ASSUME NEW i \in Ids, ClaimStep(i)
      PROVE  Ids \subseteq Ids'
  BY <1>3, TryClaimRows DEF ClaimStep, Ids
<1>4. ASSUME UNCHANGED rows
      PROVE  Ids \subseteq Ids'
  BY <1>4 DEF Ids
<1>5. ASSUME NEW i \in Ids, NEW o \in Outcomes, FinishStep(i, o)
      PROVE  Ids \subseteq Ids'
  <2>1. CASE rows' = FinishDone(i)
    <3>1. AnswerAdded(rows', i, Len(rows) + 1)
      BY <2>1, FinishDoneRows
    <3> QED BY <3>1 DEF AnswerAdded, Ids
  <2>2. CASE rows' = FinishFailed(i, o = "partial")
    <3>1. (o = "partial") \in BOOLEAN
      OBVIOUS
    <3>2. MarkedFailed(rows', i)
      BY <2>2, <3>1, FinishFailedRows
    <3> QED BY <3>2 DEF MarkedFailed, Ids
  <2> QED BY <1>4, <1>5, <2>1, <2>2 DEF FinishStep, Finish
<1>6. ASSUME RequeueStep
      PROVE  Ids \subseteq Ids'
  BY <1>6, RequeueRows DEF RequeueStep, Ids
<1> QED BY <1>1, <1>2, <1>3, <1>4, <1>5, <1>6 DEF StoreNext, UserStep, WorkerStep, storeVars

-----------------------------------------------------------------------------
(* Every step of the system is a step of the store, or leaves it alone.    *)

(* A daemon is requeueing as it starts.                                    *)
AtRequeue ==
    \E d \in Daemons : mainPc[d] = "requeue" /\ (StartupRequeue(d) \/ StartupFails(d))

TableStep ==
    \/ UserStep
    \/ WorkerStep
    \/ RequeueOnStart /\ RequeueStep /\ AtRequeue
    \/ UNCHANGED storeVars

(* The HTTP task and its clients touch nothing else.                       *)
LEMMA HttpAlone ==
    ASSUME NEW d \in Daemons, HttpStep(d)
    PROVE  /\ \E to \in HttpPcs : http' = [http EXCEPT ![d] = to]
           /\ UNCHANGED <<rows, chats, mainPc, pollPc, cand, attempts, permits, shutdown, runs,
                          dirs, starts, faults>>
BY DEF HttpStep, HttpBreak, ClientComes, ClientLeaves, HttpMoves, HttpPcs

LEMMA RunnerStepIsTableStep ==
    ASSUME TypeOK, KnownIds, [Next]_vars
    PROVE  TableStep
<1>1. CASE Users
  BY <1>1 DEF Users, TableStep
<1>2. ASSUME NEW d \in Daemons, MainStep(d)
      PROVE  TableStep
  <2>1. CASE StartupRequeue(d)
    BY <2>1 DEF StartupRequeue, AtRequeue, TableStep, RequeueStep, storeVars
  <2>2. CASE StartupFails(d)
    <3>1. CASE UNCHANGED rows
      BY <2>2, <3>1 DEF StartupFails, TableStep, storeVars
    <3>2. CASE RequeueOnStart /\ rows' = RequeuePending /\ mainPc[d] = "requeue"
      BY <2>2, <3>2 DEF StartupFails, AtRequeue, TableStep, RequeueStep, storeVars
    <3> QED BY <2>2, <3>1, <3>2 DEF StartupFails
  <2> QED BY <1>2, <2>1, <2>2
         DEF MainStep, Start, StartupSweep, Bind, BindFails, Crash, Signal, Exit, storeVars,
             TableStep
<1>3. ASSUME NEW d \in Daemons, PollStep(d)
      PROVE  TableStep
  <2>1. CASE UpdateWins(d)
    <3>1. cand[d] \in Ids
      BY <2>1 DEF UpdateWins, KnownIds
    <3> QED BY <2>1, <3>1 DEF UpdateWins, TableStep, WorkerStep, ClaimStep
  <2>2. CASE ClaimError(d)
    <3>1. CASE pollPc[d] = "update" /\ IsUnclaimed(cand[d]) /\ rows' = TryClaim(cand[d])
      <4>1. cand[d] \in Ids
        BY <3>1 DEF KnownIds
      <4> QED BY <2>2, <3>1, <4>1 DEF ClaimError, TableStep, WorkerStep, ClaimStep
    <3> QED BY <2>2, <3>1 DEF ClaimError, storeVars, TableStep
  <2> QED BY <1>3, <2>1, <2>2
         DEF PollStep, Acquire, SelectOldest, UpdateLoses, GetAndSpawn, GetFindsNothing,
             Wake, Break, Drained, storeVars, TableStep
<1>4. ASSUME NEW r \in DOMAIN runs, TaskStep(r)
      PROVE  TableStep
  <2>1. CASE RecordOutcome(r)
    <3>1. runs[r].job \in Ids
      BY DEF KnownIds
    <3>2. CASE runs[r].outcome \in Outcomes
      BY <2>1, <3>1, <3>2 DEF RecordOutcome, TableStep, WorkerStep, FinishStep
    <3>3. CASE runs[r].outcome = "none"
      <4>1. PICK o \in Outcomes : Finish(runs[r].job, o) = Finish(runs[r].job, "none")
        BY DEF Finish, Outcomes
      <4> QED BY <2>1, <3>1, <3>3, <4>1 DEF RecordOutcome, TableStep, WorkerStep, FinishStep
    <3>4. runs[r] \in Run
      BY DEF TypeOK
    <3> QED BY <3>2, <3>3, <3>4 DEF Run
  <2> QED BY <1>4, <2>1
         DEF TaskStep, CreateWorkspace, CreateFails, RunReturns, RunAborted,
             RemoveWorkspace, RecordFails, Panic, OrphanExits, storeVars, TableStep
<1>5. CASE UNCHANGED vars
  BY <1>5 DEF vars, storeVars, TableStep
<1>6. ASSUME NEW d \in Daemons, HttpStep(d)
      PROVE  TableStep
  BY <1>6, HttpAlone DEF TableStep, storeVars
<1> QED BY <1>1, <1>2, <1>3, <1>4, <1>5, <1>6 DEF Next

LEMMA RunnerStepIsStoreStep ==
    ASSUME TypeOK, KnownIds, [Next]_vars
    PROVE  [StoreNext]_storeVars
BY RunnerStepIsTableStep DEF TableStep, StoreNext

-----------------------------------------------------------------------------
(* The tasks of a daemon, and what a step does to them.                    *)

(* There are finitely many.                                                *)
LEMMA LiveFinite ==
    ASSUME runs \in Seq(Run), NEW d
    PROVE  IsFiniteSet(LiveRuns(d)) /\ Cardinality(LiveRuns(d)) \in Nat
<1>1. IsFiniteSet(DOMAIN runs)
  <2>1. DOMAIN runs = 1..Len(runs) /\ Len(runs) \in Nat
    OBVIOUS
  <2> QED BY <2>1, FS_Interval
<1>2. LiveRuns(d) \subseteq DOMAIN runs
  BY DEF LiveRuns
<1> QED BY <1>1, <1>2, FS_Subset, FS_CardinalityType

(* A step of run r changes its pc and outcome, and no other run.           *)
LEMMA RunStepRuns ==
    ASSUME runs \in Seq(Run), NEW r \in DOMAIN runs, NEW from, NEW to \in RunPcs,
           NEW o \in Outcomes \cup {"none"}, RunStep(r, from, to, o)
    PROVE  /\ runs' \in Seq(Run)
           /\ DOMAIN runs' = DOMAIN runs
           /\ runs'[r].pc = to
           /\ runs'[r].daemon = runs[r].daemon
           /\ runs'[r].job = runs[r].job
           /\ \A k \in DOMAIN runs : k # r => runs'[k] = runs[k]
<1> DEFINE x == [runs[r] EXCEPT !.pc = to, !.outcome = o]
<1>1. runs[r] \in Run
  OBVIOUS
<1>2. /\ x \in Run
      /\ x.pc = to
      /\ x.daemon = runs[r].daemon
      /\ x.job = runs[r].job
  BY <1>1 DEF Run
<1>3. runs' = [runs EXCEPT ![r] = x]
  BY DEF RunStep
<1> HIDE DEF x
<1> QED BY <1>2, <1>3

(* It has the outcome it is given.                                         *)
LEMMA RunStepOutcome ==
    ASSUME runs \in Seq(Run), NEW r \in DOMAIN runs, NEW from, NEW to, NEW o,
           RunStep(r, from, to, o)
    PROVE  runs'[r].outcome = o
<1>1. runs[r] \in Run
  OBVIOUS
<1>2. runs'[r] = [runs[r] EXCEPT !.pc = to, !.outcome = o]
  BY DEF RunStep
<1> QED BY <1>1, <1>2 DEF Run

(* A task that goes on is still there,                                     *)
LEMMA StepKeepsLive ==
    ASSUME runs \in Seq(Run), NEW r \in DOMAIN runs, NEW from, NEW to \in RunPcs,
           NEW o \in Outcomes \cup {"none"}, RunStep(r, from, to, o),
           from \in LivePcs <=> to \in LivePcs,
           NEW d
    PROVE  LiveRuns(d)' = LiveRuns(d)
<1>1. runs[r].pc = from
  BY DEF RunStep
<1>2. /\ DOMAIN runs' = DOMAIN runs
      /\ runs'[r].pc = to
      /\ runs'[r].daemon = runs[r].daemon
      /\ \A k \in DOMAIN runs : k # r => runs'[k] = runs[k]
  BY RunStepRuns
<1>3. {k \in DOMAIN runs' : runs'[k].daemon = d /\ runs'[k].pc \in LivePcs} = LiveRuns(d)
  BY <1>1, <1>2 DEF LiveRuns, IsLive
<1> QED BY <1>3 DEF LiveRuns, IsLive

(* and one that ends leaves the tasks of its daemon by one.                *)
LEMMA EndRemovesLive ==
    ASSUME runs \in Seq(Run), NEW r \in DOMAIN runs, IsLive(r), NEW from,
           NEW o \in Outcomes \cup {"none"}, RunStep(r, from, "ended", o),
           NEW d, runs[r].daemon = d
    PROVE  /\ LiveRuns(d)' = LiveRuns(d) \ {r}
           /\ Cardinality(LiveRuns(d)') = Cardinality(LiveRuns(d)) - 1
           /\ Cardinality(LiveRuns(d)) >= 1
           /\ \A e : e # d => LiveRuns(e)' = LiveRuns(e)
<1>1. /\ DOMAIN runs' = DOMAIN runs
      /\ runs'[r].pc = "ended"
      /\ runs'[r].daemon = d
      /\ \A k \in DOMAIN runs : k # r => runs'[k] = runs[k]
  BY RunStepRuns DEF RunPcs
<1>2. r \in LiveRuns(d)
  BY DEF LiveRuns
<1>3. LiveRuns(d)' = LiveRuns(d) \ {r}
  <2>1. {k \in DOMAIN runs' : runs'[k].daemon = d /\ runs'[k].pc \in LivePcs}
          = LiveRuns(d) \ {r}
    BY <1>1 DEF LiveRuns, IsLive, LivePcs
  <2> QED BY <2>1 DEF LiveRuns, IsLive
<1>4. \A e : e # d => LiveRuns(e)' = LiveRuns(e)
  <2>1. \A e : e # d =>
          {k \in DOMAIN runs' : runs'[k].daemon = e /\ runs'[k].pc \in LivePcs}
             = LiveRuns(e)
    BY <1>1 DEF LiveRuns, IsLive, LivePcs
  <2> QED BY <2>1 DEF LiveRuns, IsLive
<1>5. /\ Cardinality(LiveRuns(d) \ {r}) = Cardinality(LiveRuns(d)) - 1
      /\ Cardinality(LiveRuns(d)) \in Nat
      /\ Cardinality(LiveRuns(d) \ {r}) \in Nat
  BY <1>2, LiveFinite, FS_RemoveElement, FS_CardinalityType
<1>6. Cardinality(LiveRuns(d)) >= 1
  BY <1>5
<1> QED BY <1>3, <1>4, <1>5, <1>6

(* A spawned task is one more.                                             *)
LEMMA SpawnAddsLive ==
    ASSUME runs \in Seq(Run), NEW d \in Daemons, NEW i \in Nat,
           runs' = Append(runs, [daemon |-> d, job |-> i, pc |-> "create", outcome |-> "none"])
    PROVE  /\ runs' \in Seq(Run)
           /\ DOMAIN runs' = DOMAIN runs \cup {Len(runs) + 1}
           /\ runs'[Len(runs) + 1].job = i
           /\ \A k \in DOMAIN runs : runs'[k] = runs[k]
           /\ Cardinality(LiveRuns(d)') = Cardinality(LiveRuns(d)) + 1
           /\ \A e : e # d => LiveRuns(e)' = LiveRuns(e)
<1> DEFINE n == Len(runs) + 1
           x == [daemon |-> d, job |-> i, pc |-> "create", outcome |-> "none"]
<1>1. /\ x \in Run
      /\ x.pc = "create"
      /\ x.daemon = d
      /\ x.job = i
  BY DEF Run, RunPcs
<1> HIDE DEF x
<1>2. runs' = Append(runs, x)
  BY DEF x
<1>3. /\ runs' \in Seq(Run)
      /\ DOMAIN runs' = DOMAIN runs \cup {n}
      /\ n \notin DOMAIN runs
      /\ runs'[n] = x
      /\ \A k \in DOMAIN runs : runs'[k] = runs[k]
  BY <1>1, <1>2
<1> HIDE DEF n
<1>4. {k \in DOMAIN runs' : runs'[k].daemon = d
          /\ runs'[k].pc \in LivePcs} = LiveRuns(d) \cup {n}
  BY <1>1, <1>3 DEF LiveRuns, IsLive, LivePcs
<1>5. \A e : e # d =>
        {k \in DOMAIN runs' : runs'[k].daemon = e
          /\ runs'[k].pc \in LivePcs} = LiveRuns(e)
  BY <1>1, <1>3 DEF LiveRuns, IsLive, LivePcs
<1>6. n \notin LiveRuns(d)
  BY <1>3 DEF LiveRuns
<1>7. Cardinality(LiveRuns(d) \cup {n}) = Cardinality(LiveRuns(d)) + 1
  BY <1>6, LiveFinite, FS_AddElement
<1> QED BY <1>1, <1>3, <1>4, <1>5, <1>7 DEF LiveRuns, IsLive, n

(* A daemon that crashes has none left.                                    *)
LEMMA CrashEndsLive ==
    ASSUME runs \in Seq(Run), NEW d \in Daemons, Crash(d)
    PROVE  /\ runs' \in Seq(Run)
           /\ DOMAIN runs' = DOMAIN runs
           /\ \A k \in DOMAIN runs : runs'[k].job = runs[k].job
           /\ LiveRuns(d)' = {}
           /\ \A e : e # d => LiveRuns(e)' = LiveRuns(e)
<1> DEFINE x(k) == IF k \notin LiveRuns(d) THEN runs[k]
                   ELSE [runs[k] EXCEPT !.pc =
                            IF runs[k].pc = "run" THEN "orphan" ELSE "ended"]
<1>1. ASSUME NEW k \in DOMAIN runs
      PROVE  /\ x(k) \in Run
             /\ x(k).job = runs[k].job
             /\ x(k).daemon = runs[k].daemon
             /\ k \notin LiveRuns(d) => x(k) = runs[k]
             /\ k \in LiveRuns(d) => x(k).pc \in {"ended", "orphan"}
  <2>1. runs[k] \in Run
    OBVIOUS
  <2> QED BY <2>1 DEF Run, RunPcs
<1>2. runs' = [k \in DOMAIN runs |-> x(k)]
  BY DEF Crash
<1> HIDE DEF x
<1>3. /\ runs' \in Seq(Run)
      /\ DOMAIN runs' = DOMAIN runs
      /\ \A k \in DOMAIN runs : runs'[k] = x(k)
  BY <1>1, <1>2
<1>4. /\ \A k \in DOMAIN runs : runs'[k].daemon = runs[k].daemon
      /\ \A k \in LiveRuns(d) : runs'[k].pc \in {"ended", "orphan"}
      /\ \A k \in DOMAIN runs : k \notin LiveRuns(d) => runs'[k] = runs[k]
      /\ \A k \in LiveRuns(d) : k \in DOMAIN runs /\ runs[k].daemon = d
  BY <1>1, <1>3 DEF LiveRuns
<1>5. {k \in DOMAIN runs' : runs'[k].daemon = d
          /\ runs'[k].pc \in LivePcs} = {}
  BY <1>3, <1>4 DEF LiveRuns, IsLive, LivePcs
<1>6. \A e : e # d =>
        {k \in DOMAIN runs' : runs'[k].daemon = e
          /\ runs'[k].pc \in LivePcs} = LiveRuns(e)
  BY <1>3, <1>4 DEF LiveRuns, IsLive, LivePcs
<1> QED BY <1>1, <1>3, <1>5, <1>6 DEF LiveRuns, IsLive

-----------------------------------------------------------------------------
(* The inductive invariant.  The step lemmas share the frame: RunnerInv    *)
(* holds, the table stays well formed and its ids only grow.               *)

Frame == RunnerInv /\ StoreTypeOK' /\ Ids \subseteq Ids'

(* What RunnerInv says of the daemons' own variables.                      *)
DaemonTypes ==
    /\ mainPc \in [Daemons -> MainPcs]
    /\ pollPc \in [Daemons -> PollPcs]
    /\ cand \in [Daemons -> Nat]
    /\ attempts \in [Daemons -> 0..(ClaimAttempts - 1)]
    /\ permits \in [Daemons -> 0..MaxConcurrentJobs]
    /\ shutdown \in [Daemons -> BOOLEAN]
    /\ http \in [Daemons -> HttpPcs]
    /\ runs \in Seq(Run)
    /\ dirs \subseteq DOMAIN runs
    /\ starts \in 0..MaxStarts
    /\ faults \in 0..MaxFaults

LEMMA FaultCounts ==
    ASSUME DaemonTypes, Fault
    PROVE  faults' \in 0..MaxFaults
BY RunnerAssumption DEF DaemonTypes, Fault

(* The system starts in it.                                                *)
LEMMA RunnerInvInit == Init => RunnerInv
<1> SUFFICES ASSUME Init PROVE RunnerInv
  OBVIOUS
<1>1. StoreTypeOK
  BY StoreInvInit DEF Init, StoreInv
<1>2. \A d : LiveRuns(d) = {}
  BY DEF Init, LiveRuns
<1>3. TypeOK
  BY <1>1, RunnerAssumption DEF Init, TypeOK, MainPcs, PollPcs, HttpPcs
<1>4. PermitsAddUp
  BY DEF Init, PermitsAddUp
<1>5. WorkerMatchesMain
  BY <1>2 DEF Init, WorkerMatchesMain
<1>6. KnownIds
  BY DEF Init, KnownIds
<1> QED BY <1>3, <1>4, <1>5, <1>6 DEF RunnerInv

(* Steps that leave the tasks alone.                                       *)
LEMMA SameRunsSameLive ==
    ASSUME UNCHANGED runs
    PROVE  \A d : LiveRuns(d)' = LiveRuns(d)
BY DEF LiveRuns, IsLive

LEMMA OthersKeepInv ==
    ASSUME Frame, http' \in [Daemons -> HttpPcs],
           UNCHANGED <<mainPc, pollPc, cand, attempts, permits, shutdown, runs, dirs, starts,
                       faults>>
    PROVE  RunnerInv'
<1>1. \A d : LiveRuns(d)' = LiveRuns(d)
  BY SameRunsSameLive
<1>2. TypeOK'
  BY DEF Frame, RunnerInv, TypeOK
<1>3. PermitsAddUp'
  BY <1>1 DEF Frame, RunnerInv, PermitsAddUp, Held, HoldsPermit
<1>4. WorkerMatchesMain'
  BY <1>1 DEF Frame, RunnerInv, WorkerMatchesMain
<1>5. KnownIds'
  BY DEF Frame, RunnerInv, KnownIds
<1> QED BY <1>2, <1>3, <1>4, <1>5 DEF RunnerInv

(* main.rs before the worker exists, and its signal handler.               *)
LEMMA MainMovesKeepInv ==
    ASSUME Frame, NEW d \in Daemons,
           Start(d) \/ StartupRequeue(d) \/ StartupSweep(d) \/ StartupFails(d) \/ Signal(d)
    PROVE  RunnerInv'
<1>1. \A e : LiveRuns(e)' = LiveRuns(e)
  BY SameRunsSameLive DEF Start, StartupRequeue, StartupSweep, StartupFails, Signal
<1>2. DaemonTypes
  BY DEF Frame, RunnerInv, TypeOK, DaemonTypes
<1>3. /\ mainPc' \in [Daemons -> MainPcs]
      /\ shutdown' \in [Daemons -> BOOLEAN]
      /\ starts' \in 0..MaxStarts
      /\ faults' \in 0..MaxFaults
      /\ dirs' \subseteq DOMAIN runs
      /\ UNCHANGED <<pollPc, cand, attempts, permits, http, runs>>
  <2>1. mainPc' \in [Daemons -> MainPcs]
    BY <1>2 DEF DaemonTypes, MainPcs, Start, StartupRequeue, StartupSweep, StartupFails, Signal
  <2>2. shutdown' \in [Daemons -> BOOLEAN]
    BY <1>2 DEF DaemonTypes, Start, StartupRequeue, StartupSweep, StartupFails, Signal
  <2>3. starts' \in 0..MaxStarts
    BY <1>2, RunnerAssumption
       DEF DaemonTypes, Start, StartupRequeue, StartupSweep, StartupFails, Signal
  <2>4. faults' \in 0..MaxFaults
    <3>1. CASE StartupFails(d)
      BY <1>2, <3>1, FaultCounts DEF StartupFails
    <3>2. CASE StartupSweep(d)
      BY <1>2, <3>2, FaultCounts DEF DaemonTypes, StartupSweep
    <3>3. CASE Start(d) \/ StartupRequeue(d) \/ Signal(d)
      BY <1>2, <3>3 DEF DaemonTypes, Start, StartupRequeue, Signal
    <3> QED BY <3>1, <3>2, <3>3
  <2>5. dirs' \subseteq DOMAIN runs
    BY <1>2 DEF DaemonTypes, Start, StartupRequeue, StartupSweep, StartupFails, Signal, Swept
  <2>6. UNCHANGED <<pollPc, cand, attempts, permits, http, runs>>
    BY DEF Start, StartupRequeue, StartupSweep, StartupFails, Signal
  <2> QED BY <2>1, <2>2, <2>3, <2>4, <2>5, <2>6
<1>4. TypeOK'
  BY <1>2, <1>3 DEF Frame, TypeOK, DaemonTypes
<1>5. PermitsAddUp'
  BY <1>1, <1>3 DEF Frame, RunnerInv, PermitsAddUp, Held, HoldsPermit
<1>6. \A e \in Daemons : mainPc'[e] \in {"off", "requeue", "sweep", "bind"}
                           <=> mainPc[e] \in {"off", "requeue", "sweep", "bind"}
  BY <1>2 DEF DaemonTypes, Start, StartupRequeue, StartupSweep, StartupFails, Signal
<1>7. WorkerMatchesMain'
  BY <1>1, <1>3, <1>6 DEF Frame, RunnerInv, WorkerMatchesMain
<1>8. KnownIds'
  BY <1>3 DEF Frame, RunnerInv, KnownIds
<1> QED BY <1>4, <1>5, <1>7, <1>8 DEF RunnerInv

(* The worker starts with all its permits and no task.                     *)
LEMMA BindKeepsInv ==
    ASSUME Frame, NEW d \in Daemons, Bind(d)
    PROVE  RunnerInv'
<1>1. \A e : LiveRuns(e)' = LiveRuns(e)
  BY SameRunsSameLive DEF Bind
<1>2. DaemonTypes
  BY DEF Frame, RunnerInv, TypeOK, DaemonTypes
<1>3. /\ mainPc[d] = "bind"
      /\ mainPc' = [mainPc EXCEPT ![d] = "up"]
      /\ pollPc' = [pollPc EXCEPT ![d] = "acquire"]
      /\ permits' = [permits EXCEPT ![d] = MaxConcurrentJobs]
      /\ http' = [http EXCEPT ![d] = "idle"]
      /\ UNCHANGED <<cand, attempts, shutdown, runs, dirs, starts, faults>>
  BY DEF Bind
<1>5. TypeOK'
  BY <1>2, <1>3, RunnerAssumption
     DEF Frame, TypeOK, DaemonTypes, MainPcs, PollPcs, HttpPcs
<1>6. LiveRuns(d) = {}
  BY <1>3 DEF Frame, RunnerInv, WorkerMatchesMain
<1>7. PermitsAddUp'
  <2> SUFFICES ASSUME NEW e \in Daemons, pollPc'[e] # "off"
               PROVE  permits'[e] + Cardinality(LiveRuns(e)') + Held(e)' = MaxConcurrentJobs
    BY DEF PermitsAddUp
  <2>1. CASE e = d
    <3>1. permits'[e] = MaxConcurrentJobs /\ Held(e)' = 0
      BY <1>2, <1>3, <2>1 DEF DaemonTypes, Held, HoldsPermit
    <3>2. Cardinality(LiveRuns(e)') = 0
      BY <1>1, <1>6, <2>1, FS_EmptySet
    <3> QED BY <3>1, <3>2, RunnerAssumption
  <2>2. CASE e # d
    <3>1. /\ permits'[e] = permits[e]
          /\ pollPc'[e] = pollPc[e]
          /\ Held(e)' = Held(e)
      BY <1>2, <1>3, <2>2 DEF DaemonTypes, Held, HoldsPermit
    <3> QED BY <1>1, <3>1 DEF Frame, RunnerInv, PermitsAddUp
  <2> QED BY <2>1, <2>2
<1>8. WorkerMatchesMain'
  BY <1>1, <1>2, <1>3 DEF Frame, RunnerInv, WorkerMatchesMain, DaemonTypes
<1>9. KnownIds'
  BY <1>2, <1>3 DEF Frame, RunnerInv, KnownIds, DaemonTypes
<1> QED BY <1>5, <1>7, <1>8, <1>9 DEF RunnerInv

(* The daemon is gone: it returned, failed to bind, or crashed.            *)
LEMMA DownKeepsInv ==
    ASSUME Frame, NEW d \in Daemons, Exit(d) \/ BindFails(d) \/ Crash(d)
    PROVE  RunnerInv'
<1>1. DaemonTypes
  BY DEF Frame, RunnerInv, TypeOK, DaemonTypes
<1>2. ClearDaemon(d) /\ UNCHANGED <<dirs, starts>>
  BY DEF Exit, BindFails, Crash
<1>3. /\ runs' \in Seq(Run)
      /\ DOMAIN runs' = DOMAIN runs
      /\ \A k \in DOMAIN runs : runs'[k].job = runs[k].job
      /\ LiveRuns(d)' = {}
      /\ \A e : e # d => LiveRuns(e)' = LiveRuns(e)
  <2>1. CASE Exit(d) \/ BindFails(d)
    <3>1. LiveRuns(d) = {} /\ UNCHANGED runs
      BY <2>1 DEF Exit, BindFails, Frame, RunnerInv, WorkerMatchesMain
    <3> QED BY <1>1, <3>1, SameRunsSameLive DEF DaemonTypes
  <2>2. CASE Crash(d)
    BY <1>1, <2>2, CrashEndsLive DEF DaemonTypes
  <2> QED BY <2>1, <2>2
<1>4. faults' \in 0..MaxFaults
  BY <1>1, FaultCounts DEF DaemonTypes, Exit, BindFails, Crash
<1>5. /\ mainPc' = [mainPc EXCEPT ![d] = "off"]
      /\ pollPc' = [pollPc EXCEPT ![d] = "off"]
      /\ permits' = [permits EXCEPT ![d] = 0]
      /\ shutdown' = [shutdown EXCEPT ![d] = FALSE]
      /\ http' = [http EXCEPT ![d] = "off"]
      /\ cand' = [cand EXCEPT ![d] = 0]
      /\ attempts' = [attempts EXCEPT ![d] = 0]
  BY <1>2 DEF ClearDaemon, ClearClaim
<1>6. TypeOK'
  BY <1>1, <1>2, <1>3, <1>4, <1>5, RunnerAssumption
     DEF Frame, TypeOK, DaemonTypes, MainPcs, PollPcs, HttpPcs
<1>7. \A e \in Daemons : e # d => /\ permits'[e] = permits[e]
                                  /\ mainPc'[e] = mainPc[e]
                                  /\ pollPc'[e] = pollPc[e]
                                  /\ cand'[e] = cand[e]
  BY <1>1, <1>5 DEF DaemonTypes
<1>8. mainPc'[d] = "off" /\ pollPc'[d] = "off" /\ permits'[d] = 0
  BY <1>1, <1>5 DEF DaemonTypes
<1>9. PermitsAddUp'
  BY <1>3, <1>7, <1>8 DEF Frame, RunnerInv, PermitsAddUp, Held, HoldsPermit
<1>10. WorkerMatchesMain'
  BY <1>3, <1>7, <1>8 DEF Frame, RunnerInv, WorkerMatchesMain
<1>11. KnownIds'
  BY <1>3, <1>7, <1>8 DEF Frame, RunnerInv, KnownIds
<1> QED BY <1>6, <1>9, <1>10, <1>11 DEF RunnerInv

(* The poll loop of d moves on: what it gains in free permits it stops     *)
(* holding, and it looks only at rows there are.                           *)
PollMoved(d) ==
    /\ pollPc' \in [Daemons -> PollPcs]
    /\ permits' \in [Daemons -> Int]
    /\ cand' \in [Daemons -> Nat]
    /\ attempts' \in [Daemons -> 0..(ClaimAttempts - 1)]
    /\ \A e \in Daemons : e # d => /\ permits'[e] = permits[e]
                                   /\ pollPc'[e] = pollPc[e]
                                   /\ cand'[e] = cand[e]
    /\ pollPc[d] # "off"
    /\ pollPc'[d] # "off"
    /\ permits'[d] >= 0
    /\ permits'[d] + Held(d)' = permits[d] + Held(d)
    /\ pollPc'[d] = "stopped" => LiveRuns(d) = {}
    /\ pollPc'[d] \in {"update", "get"} => cand'[d] \in Ids
    /\ faults' \in 0..MaxFaults
    /\ UNCHANGED <<mainPc, shutdown, http, runs, dirs, starts>>

LEMMA PollMoveKeepsInv ==
    ASSUME Frame, NEW d \in Daemons, PollMoved(d)
    PROVE  RunnerInv'
<1>1. \A e : LiveRuns(e)' = LiveRuns(e)
  BY SameRunsSameLive DEF PollMoved
<1>2. DaemonTypes
  BY DEF Frame, RunnerInv, TypeOK, DaemonTypes
<1>3. permits[d] + Cardinality(LiveRuns(d)) + Held(d) = MaxConcurrentJobs
  BY DEF Frame, RunnerInv, PermitsAddUp, PollMoved
<1>4. Cardinality(LiveRuns(d)) \in Nat
  BY <1>2, LiveFinite DEF DaemonTypes
<1>5. /\ permits[d] \in Nat
      /\ permits'[d] \in Nat
      /\ Held(d) \in {0, 1}
      /\ Held(d)' \in {0, 1}
      /\ permits'[d] + Held(d)' = permits[d] + Held(d)
  BY <1>2 DEF DaemonTypes, Held, PollMoved
<1>6. /\ permits'[d] \in 0..MaxConcurrentJobs
      /\ permits'[d] + Cardinality(LiveRuns(d)) + Held(d)' = MaxConcurrentJobs
  BY <1>3, <1>4, <1>5, RunnerAssumption
<1>7. permits' \in [Daemons -> 0..MaxConcurrentJobs]
  BY <1>2, <1>6 DEF DaemonTypes, PollMoved
<1>8. TypeOK'
  BY <1>2, <1>7 DEF Frame, TypeOK, DaemonTypes, PollMoved
<1>9. PermitsAddUp'
  <2> SUFFICES ASSUME NEW e \in Daemons, pollPc'[e] # "off"
               PROVE  permits'[e] + Cardinality(LiveRuns(e)') + Held(e)' = MaxConcurrentJobs
    BY DEF PermitsAddUp
  <2>1. CASE e = d
    <3>1. permits'[d] + Cardinality(LiveRuns(d)') + Held(d)' = MaxConcurrentJobs
      BY <1>1, <1>6
    <3> QED BY <2>1, <3>1
  <2>2. CASE e # d
    <3>1. permits'[e] = permits[e] /\ pollPc'[e] = pollPc[e] /\ Held(e)' = Held(e)
      BY <2>2 DEF PollMoved, Held, HoldsPermit
    <3> QED BY <1>1, <3>1 DEF Frame, RunnerInv, PermitsAddUp
  <2> QED BY <2>1, <2>2
<1>10. WorkerMatchesMain'
  BY <1>1 DEF Frame, RunnerInv, WorkerMatchesMain, PollMoved
<1>11. KnownIds'
  BY DEF Frame, RunnerInv, KnownIds, PollMoved
<1> QED BY <1>8, <1>9, <1>10, <1>11 DEF RunnerInv

(* The steps of the loop that spawn no task.                               *)
LEMMA PollKeepsInv ==
    ASSUME Frame, NEW d \in Daemons, PollStep(d), ~GetAndSpawn(d)
    PROVE  RunnerInv'
<1>1. DaemonTypes
  BY DEF Frame, RunnerInv, TypeOK, DaemonTypes
<1>2. /\ permits[d] \in Nat
      /\ attempts[d] \in 0..(ClaimAttempts - 1)
      /\ 0 \in 0..(ClaimAttempts - 1)
      /\ faults \in 0..MaxFaults
  BY <1>1, RunnerAssumption DEF DaemonTypes
<1>3. ASSUME HoldsPermit(d), Rest(d), faults' \in 0..MaxFaults,
             UNCHANGED <<mainPc, shutdown, http, runs, dirs, starts>>
      PROVE  PollMoved(d)
  BY <1>1, <1>2, <1>3
     DEF DaemonTypes, PollPcs, PollMoved, Rest, ClearClaim, Held, HoldsPermit
<1>4. ASSUME Acquire(d)
      PROVE  PollMoved(d)
  BY <1>1, <1>2, <1>4 DEF DaemonTypes, PollPcs, PollMoved, Acquire, Held, HoldsPermit
<1>5. ASSUME SelectOldest(d)
      PROVE  PollMoved(d)
  <2>1. ASSUME Unclaimed = {}
        PROVE  PollMoved(d)
    BY <1>2, <1>3, <1>5, <2>1 DEF SelectOldest, HoldsPermit
  <2>2. ASSUME Unclaimed # {}
        PROVE  PollMoved(d)
    <3>1. OldestUnclaimed \in Ids /\ OldestUnclaimed \in Nat
      BY <2>2, OldestIsUnclaimed, RowOfId
         DEF Frame, RunnerInv, TypeOK, StoreTypeOK, Unclaimed
    <3>2. /\ pollPc[d] = "select"
          /\ pollPc' = [pollPc EXCEPT ![d] = "update"]
          /\ cand' = [cand EXCEPT ![d] = OldestUnclaimed]
          /\ faults' \in 0..MaxFaults
          /\ UNCHANGED <<mainPc, attempts, permits, shutdown, http, runs, dirs, starts>>
      BY <1>2, <1>5, <2>2 DEF SelectOldest
    <3> QED BY <1>1, <3>1, <3>2 DEF DaemonTypes, PollPcs, PollMoved, Held, HoldsPermit
  <2> QED BY <2>1, <2>2
<1>6. ASSUME UpdateWins(d)
      PROVE  PollMoved(d)
  <2>1. cand[d] \in Ids
    BY <1>6 DEF UpdateWins, Frame, RunnerInv, KnownIds
  <2> QED BY <1>1, <1>2, <1>6, <2>1
         DEF DaemonTypes, PollPcs, PollMoved, UpdateWins, Held, HoldsPermit
<1>7. ASSUME UpdateLoses(d)
      PROVE  PollMoved(d)
  <2>1. ASSUME attempts[d] + 1 < ClaimAttempts
        PROVE  PollMoved(d)
    <3>1. attempts[d] + 1 \in 0..(ClaimAttempts - 1)
      BY <1>2, <2>1, RunnerAssumption
    <3>2. /\ pollPc[d] = "update"
          /\ pollPc' = [pollPc EXCEPT ![d] = "select"]
          /\ cand' = [cand EXCEPT ![d] = 0]
          /\ attempts' = [attempts EXCEPT ![d] = attempts[d] + 1]
          /\ faults' \in 0..MaxFaults
          /\ UNCHANGED <<mainPc, permits, shutdown, http, runs, dirs, starts>>
      BY <1>2, <1>7, <2>1 DEF UpdateLoses
    <3> QED BY <1>1, <3>1, <3>2 DEF DaemonTypes, PollPcs, PollMoved, Held, HoldsPermit
  <2>2. ASSUME ~(attempts[d] + 1 < ClaimAttempts)
        PROVE  PollMoved(d)
    BY <1>2, <1>3, <1>7, <2>2 DEF UpdateLoses, HoldsPermit
  <2> QED BY <2>1, <2>2
<1>8. ASSUME GetFindsNothing(d)
      PROVE  PollMoved(d)
  BY <1>2, <1>3, <1>8 DEF GetFindsNothing, HoldsPermit
<1>9. ASSUME ClaimError(d)
      PROVE  PollMoved(d)
  BY <1>1, <1>3, <1>9, FaultCounts DEF ClaimError
<1>10. ASSUME Wake(d) \/ Break(d) \/ Drained(d)
       PROVE  PollMoved(d)
  <2>1. PICK to \in {"acquire", "drain", "stopped"} :
           /\ pollPc' = [pollPc EXCEPT ![d] = to]
           /\ to = "stopped" => LiveRuns(d) = {}
    BY <1>10 DEF Wake, Break, Drained
  <2>2. /\ pollPc[d] \in {"sleep", "acquire", "drain"}
        /\ faults' \in 0..MaxFaults
        /\ UNCHANGED <<mainPc, cand, attempts, permits, shutdown, http, runs, dirs, starts>>
    BY <1>2, <1>10 DEF Wake, Break, Drained
  <2> QED BY <1>1, <2>1, <2>2 DEF DaemonTypes, PollPcs, PollMoved, Held, HoldsPermit
<1>11. PollMoved(d)
  BY <1>4, <1>5, <1>6, <1>7, <1>8, <1>9, <1>10 DEF PollStep
<1> QED BY <1>11, PollMoveKeepsInv

(* The permit the loop held goes to the task it spawns.                    *)
LEMMA SpawnKeepsInv ==
    ASSUME Frame, NEW d \in Daemons, GetAndSpawn(d)
    PROVE  RunnerInv'
<1>1. DaemonTypes
  BY DEF Frame, RunnerInv, TypeOK, DaemonTypes
<1>2. pollPc[d] = "get" /\ Held(d) = 1 /\ cand[d] \in Ids /\ cand[d] \in Nat
  BY <1>1 DEF GetAndSpawn, Held, HoldsPermit, Frame, RunnerInv, KnownIds, DaemonTypes
<1>3. /\ runs' \in Seq(Run)
      /\ DOMAIN runs' = DOMAIN runs \cup {Len(runs) + 1}
      /\ runs'[Len(runs) + 1].job = cand[d]
      /\ \A k \in DOMAIN runs : runs'[k] = runs[k]
      /\ Cardinality(LiveRuns(d)') = Cardinality(LiveRuns(d)) + 1
      /\ \A e : e # d => LiveRuns(e)' = LiveRuns(e)
  BY <1>1, <1>2, SpawnAddsLive DEF GetAndSpawn, DaemonTypes
<1>4. /\ pollPc' = [pollPc EXCEPT ![d] = "acquire"]
      /\ cand' = [cand EXCEPT ![d] = 0]
      /\ attempts' = [attempts EXCEPT ![d] = 0]
      /\ UNCHANGED <<mainPc, permits, shutdown, http, dirs, starts, faults>>
  BY DEF GetAndSpawn, ClearClaim
<1>5. /\ pollPc'[d] = "acquire"
      /\ Held(d)' = 0
      /\ \A e \in Daemons : e # d => /\ pollPc'[e] = pollPc[e]
                                     /\ cand'[e] = cand[e]
                                     /\ Held(e)' = Held(e)
  BY <1>1, <1>4 DEF DaemonTypes, Held, HoldsPermit
<1>6. TypeOK'
  BY <1>1, <1>3, <1>4, RunnerAssumption DEF Frame, TypeOK, DaemonTypes, PollPcs
<1>7. PermitsAddUp'
  <2> SUFFICES ASSUME NEW e \in Daemons, pollPc'[e] # "off"
               PROVE  permits'[e] + Cardinality(LiveRuns(e)') + Held(e)' = MaxConcurrentJobs
    BY DEF PermitsAddUp
  <2>1. CASE e = d
    <3>1. Cardinality(LiveRuns(d)) \in Nat /\ permits[d] \in Nat
      BY <1>1, LiveFinite DEF DaemonTypes
    <3>2. permits[d] + Cardinality(LiveRuns(d)) + 1 = MaxConcurrentJobs
      BY <1>2 DEF Frame, RunnerInv, PermitsAddUp
    <3>3. permits'[d] + Cardinality(LiveRuns(d)') + Held(d)' = MaxConcurrentJobs
      BY <1>3, <1>4, <1>5, <3>1, <3>2
    <3> QED BY <2>1, <3>3
  <2>2. CASE e # d
    BY <1>3, <1>4, <1>5, <2>2 DEF Frame, RunnerInv, PermitsAddUp
  <2> QED BY <2>1, <2>2
<1>8. WorkerMatchesMain'
  BY <1>2, <1>3, <1>4, <1>5 DEF Frame, RunnerInv, WorkerMatchesMain
<1>9. KnownIds'
  BY <1>2, <1>3, <1>5 DEF Frame, RunnerInv, KnownIds
<1> QED BY <1>6, <1>7, <1>8, <1>9 DEF RunnerInv

(* A task goes on.                                                         *)
LEMMA TaskMoveKeepsInv ==
    ASSUME Frame, NEW r \in DOMAIN runs, NEW from, NEW to \in RunPcs,
           NEW o \in Outcomes \cup {"none"}, RunStep(r, from, to, o),
           from \in LivePcs <=> to \in LivePcs,
           dirs' \subseteq DOMAIN runs, faults' \in 0..MaxFaults,
           UNCHANGED <<daemonVars, starts>>
    PROVE  RunnerInv'
<1>1. DaemonTypes
  BY DEF Frame, RunnerInv, TypeOK, DaemonTypes
<1>2. \A d : LiveRuns(d)' = LiveRuns(d)
  BY <1>1, StepKeepsLive DEF DaemonTypes
<1>3. /\ runs' \in Seq(Run)
      /\ DOMAIN runs' = DOMAIN runs
      /\ \A k \in DOMAIN runs : runs'[k].job = runs[k].job
  BY <1>1, RunStepRuns DEF DaemonTypes
<1>4. TypeOK'
  BY <1>1, <1>3 DEF Frame, TypeOK, DaemonTypes, daemonVars
<1>5. PermitsAddUp'
  BY <1>2 DEF Frame, RunnerInv, PermitsAddUp, Held, HoldsPermit, daemonVars
<1>6. WorkerMatchesMain'
  BY <1>2 DEF Frame, RunnerInv, WorkerMatchesMain, daemonVars
<1>7. KnownIds'
  BY <1>3 DEF Frame, RunnerInv, KnownIds, daemonVars
<1> QED BY <1>4, <1>5, <1>6, <1>7 DEF RunnerInv

(* A task ends and gives its permit back.                                  *)
LEMMA TaskEndKeepsInv ==
    ASSUME Frame, NEW r \in DOMAIN runs, IsLive(r), NEW from,
           NEW o \in Outcomes \cup {"none"}, RunStep(r, from, "ended", o),
           ReleasePermit(r), faults' \in 0..MaxFaults, UNCHANGED <<dirs, starts>>
    PROVE  RunnerInv'
<1>1. DaemonTypes
  BY DEF Frame, RunnerInv, TypeOK, DaemonTypes
<1>2. PICK d \in Daemons : runs[r].daemon = d
  <2>1. runs[r] \in Run
    BY <1>1 DEF DaemonTypes
  <2> QED BY <2>1 DEF Run
<1>3. /\ Cardinality(LiveRuns(d)') = Cardinality(LiveRuns(d)) - 1
      /\ Cardinality(LiveRuns(d)) >= 1
      /\ LiveRuns(d)' = LiveRuns(d) \ {r}
      /\ \A e : e # d => LiveRuns(e)' = LiveRuns(e)
  BY <1>1, <1>2, EndRemovesLive DEF DaemonTypes
<1>4. /\ runs' \in Seq(Run)
      /\ DOMAIN runs' = DOMAIN runs
      /\ \A k \in DOMAIN runs : runs'[k].job = runs[k].job
  BY <1>1, RunStepRuns DEF DaemonTypes, RunPcs
<1>5. r \in LiveRuns(d)
  BY <1>2 DEF LiveRuns
<1>6. pollPc[d] # "off"
  BY <1>2, <1>5 DEF Frame, RunnerInv, WorkerMatchesMain
<1>7. permits[d] + Cardinality(LiveRuns(d)) + Held(d) = MaxConcurrentJobs
  BY <1>2, <1>6 DEF Frame, RunnerInv, PermitsAddUp
<1>8. /\ Cardinality(LiveRuns(d)) \in Nat
      /\ permits[d] \in Nat
      /\ Held(d) \in {0, 1}
  BY <1>1, <1>2, LiveFinite DEF DaemonTypes, Held
<1>9. /\ permits' = [permits EXCEPT ![d] = permits[d] + 1]
      /\ UNCHANGED <<mainPc, pollPc, cand, attempts, shutdown, http>>
  BY <1>2 DEF ReleasePermit
<1>10. permits[d] + 1 \in 0..MaxConcurrentJobs
  BY <1>3, <1>7, <1>8, RunnerAssumption
<1>11. TypeOK'
  BY <1>1, <1>4, <1>9, <1>10 DEF Frame, TypeOK, DaemonTypes
<1>12. PermitsAddUp'
  <2> SUFFICES ASSUME NEW e \in Daemons, pollPc'[e] # "off"
               PROVE  permits'[e] + Cardinality(LiveRuns(e)') + Held(e)' = MaxConcurrentJobs
    BY DEF PermitsAddUp
  <2>1. Held(e)' = Held(e)
    BY <1>9 DEF Held, HoldsPermit
  <2>2. CASE e = d
    <3>1. permits'[d] = permits[d] + 1
      BY <1>1, <1>2, <1>9 DEF DaemonTypes
    <3>2. Held(d)' = Held(d)
      BY <1>9 DEF Held, HoldsPermit
    <3>3. permits'[d] + Cardinality(LiveRuns(d)') + Held(d)' = MaxConcurrentJobs
      BY <1>3, <1>7, <1>8, <3>1, <3>2
    <3> QED BY <2>2, <3>3
  <2>3. CASE e # d
    <3>1. permits'[e] = permits[e]
      BY <1>1, <1>9, <2>3 DEF DaemonTypes
    <3> QED BY <1>3, <1>9, <2>1, <2>3, <3>1 DEF Frame, RunnerInv, PermitsAddUp
  <2> QED BY <2>2, <2>3
<1>13. \A e \in Daemons : e # d => permits'[e] = permits[e]
  BY <1>1, <1>9 DEF DaemonTypes
<1>14. \A e \in Daemons : LiveRuns(e) = {} => LiveRuns(e)' = {}
  BY <1>3
<1>15. WorkerMatchesMain'
  BY <1>6, <1>9, <1>13, <1>14 DEF Frame, RunnerInv, WorkerMatchesMain
<1>16. KnownIds'
  BY <1>4, <1>9 DEF Frame, RunnerInv, KnownIds
<1> QED BY <1>11, <1>12, <1>15, <1>16 DEF RunnerInv

(* The steps of a task.                                                    *)
LEMMA TaskKeepsInv ==
    ASSUME Frame, NEW r \in DOMAIN runs, TaskStep(r)
    PROVE  RunnerInv'
<1>1. DaemonTypes
  BY DEF Frame, RunnerInv, TypeOK, DaemonTypes
<1>2. runs[r].outcome \in Outcomes \cup {"none"}
  <2>1. runs[r] \in Run
    BY <1>1 DEF DaemonTypes
  <2> QED BY <2>1 DEF Run
<1>3. dirs \subseteq DOMAIN runs /\ faults \in 0..MaxFaults
  BY <1>1 DEF DaemonTypes
<1>4. CASE CreateWorkspace(r)
  <2>1. dirs' \subseteq DOMAIN runs
    BY <1>3, <1>4 DEF CreateWorkspace
  <2> QED BY <1>3, <1>4, <2>1, TaskMoveKeepsInv DEF CreateWorkspace, RunPcs, LivePcs
<1>5. CASE CreateFails(r)
  BY <1>1, <1>3, <1>5, FaultCounts, TaskMoveKeepsInv
     DEF CreateFails, RunPcs, LivePcs, Outcomes
<1>6. ASSUME NEW o \in Results, RunReturns(r, o)
      PROVE  RunnerInv'
  <2>1. o \in Outcomes \cup {"none"}
    BY RunnerAssumption
  <2> QED BY <1>3, <1>6, <2>1, TaskMoveKeepsInv DEF RunReturns, RunPcs, LivePcs
<1>7. CASE RunAborted(r)
  BY <1>3, <1>7, TaskMoveKeepsInv DEF RunAborted, RunPcs, LivePcs, Outcomes
<1>8. CASE RemoveWorkspace(r)
  <2>1. dirs' \subseteq DOMAIN runs /\ faults' \in 0..MaxFaults
    BY <1>1, <1>3, <1>8, FaultCounts DEF RemoveWorkspace
  <2> QED BY <1>2, <1>8, <2>1, TaskMoveKeepsInv DEF RemoveWorkspace, RunPcs, LivePcs
<1>9. CASE RecordOutcome(r)
  <2>1. IsLive(r)
    BY <1>9 DEF RecordOutcome, RunStep, IsLive, LivePcs
  <2> QED BY <1>2, <1>3, <1>9, <2>1, TaskEndKeepsInv DEF RecordOutcome
<1>10. CASE RecordFails(r)
  <2>1. IsLive(r)
    BY <1>10 DEF RecordFails, RunStep, IsLive, LivePcs
  <2>2. faults' \in 0..MaxFaults
    BY <1>1, <1>10, FaultCounts DEF RecordFails
  <2> QED BY <1>2, <1>10, <2>1, <2>2, TaskEndKeepsInv DEF RecordFails
<1>11. CASE Panic(r)
  <2>1. faults' \in 0..MaxFaults
    BY <1>1, <1>11, FaultCounts DEF Panic
  <2> QED BY <1>2, <1>11, <2>1, TaskEndKeepsInv DEF Panic
<1>12. CASE OrphanExits(r)
  BY <1>3, <1>12, TaskMoveKeepsInv DEF OrphanExits, RunPcs, LivePcs
<1> QED BY <1>4, <1>5, <1>6, <1>7, <1>8, <1>9, <1>10, <1>11, <1>12 DEF TaskStep

(* Every step of the system preserves the invariant.                       *)
LEMMA RunnerInvStep ==
    ASSUME RunnerInv, [Next]_vars
    PROVE  RunnerInv'
<1>1. [StoreNext]_storeVars
  BY RunnerStepIsStoreStep DEF RunnerInv
<1>2. StoreTypeOK /\ StoreTypeOK'
  BY <1>1, StoreTypeStep DEF RunnerInv, TypeOK
<1>3. Frame
  BY <1>1, <1>2, IdsGrow DEF Frame, StoreTypeOK
<1>4. http \in [Daemons -> HttpPcs]
  BY DEF RunnerInv, TypeOK
<1>5. CASE Users \/ UNCHANGED vars
  BY <1>3, <1>4, <1>5, OthersKeepInv DEF Users, vars, daemonVars
<1>6. ASSUME NEW d \in Daemons, HttpStep(d)
      PROVE  RunnerInv'
  <2>1. http' \in [Daemons -> HttpPcs]
    BY <1>4, <1>6, HttpAlone
  <2> QED BY <1>3, <1>6, <2>1, HttpAlone, OthersKeepInv
<1>7. ASSUME NEW d \in Daemons, MainStep(d)
      PROVE  RunnerInv'
  BY <1>3, <1>7, MainMovesKeepInv, BindKeepsInv, DownKeepsInv DEF MainStep
<1>8. ASSUME NEW d \in Daemons, PollStep(d)
      PROVE  RunnerInv'
  BY <1>3, <1>8, PollKeepsInv, SpawnKeepsInv
<1>9. ASSUME NEW r \in DOMAIN runs, TaskStep(r)
      PROVE  RunnerInv'
  BY <1>3, <1>9, TaskKeepsInv
<1> QED BY <1>5, <1>6, <1>7, <1>8, <1>9 DEF Next

(* For any number of daemons, slots, restarts and faults, the variables    *)
(* keep their types and no permit is leaked or made up: at most            *)
(* MAX_CONCURRENT_JOBS jobs of a daemon run at once.                       *)
THEOREM RunnerIsSafe == Spec => [](TypeOK /\ PermitsAddUp /\ WorkerMatchesMain)
<1>1. Init => RunnerInv
  BY RunnerInvInit
<1>2. RunnerInv /\ [Next]_vars => RunnerInv'
  BY RunnerInvStep
<1>3. RunnerInv => TypeOK /\ PermitsAddUp /\ WorkerMatchesMain
  BY DEF RunnerInv
<1> QED BY <1>1, <1>2, <1>3, PTL DEF Spec

(* Whatever the daemons do, the table only sees the operations of          *)
(* ChatStore, used as they may be used; so the theorems about ChatStore    *)
(* hold of the table under any number of daemons.                          *)
THEOREM RunnerImplementsStore == Spec => ImplementsStore
<1>1. Init => RunnerInv /\ StoreInit
  BY RunnerInvInit DEF Init
<1>2. RunnerInv /\ [Next]_vars => RunnerInv'
  BY RunnerInvStep
<1>3. RunnerInv /\ [Next]_vars => [StoreNext]_storeVars
  BY RunnerStepIsStoreStep DEF RunnerInv
<1> QED BY <1>1, <1>2, <1>3, PTL DEF Spec, ImplementsStore, StoreSpec
-----------------------------------------------------------------------------
(* Without a start-up requeue nothing is handed out twice.                 *)

(* A row that cannot be claimed stays so.                                  *)
LEMMA ClaimedStays ==
    ASSUME rows \in Seq(Row), UserStep \/ WorkerStep \/ UNCHANGED storeVars,
           NEW i \in Ids, ~IsUnclaimed(i)
    PROVE  ~IsUnclaimed(i)'
<1>1. ASSUME NEW c \in Chats, InsertJob(c) \/ InsertPlain(c)
      PROVE  ~IsUnclaimed(i)'
  <2>1. PICK x \in Row : rows' = Append(rows, x)
    BY <1>1, NewRowType DEF InsertJob, InsertPlain, Kinds
  <2>2. rows'[i] = rows[i]
    BY <2>1, AppendRow
  <2> QED BY <2>2 DEF IsUnclaimed
<1>2. ASSUME NEW c \in Chats, DeleteChat(c)
      PROVE  ~IsUnclaimed(i)'
  <2>1. rows'[i] = rows[i] \/ rows'[i].kind = "gone"
    BY <1>2 DEF DeleteChat, NewRow
  <2> QED BY <2>1 DEF IsUnclaimed
<1>3. ASSUME NEW k \in Ids, ClaimStep(k)
      PROVE  ~IsUnclaimed(i)'
  <2>1. rows'[k].status = "pending" /\ \A j \in Ids : j # k => rows'[j] = rows[j]
    BY <1>3, TryClaimRows DEF ClaimStep
  <2> QED BY <2>1 DEF IsUnclaimed
<1>4. ASSUME UNCHANGED rows
      PROVE  ~IsUnclaimed(i)'
  BY <1>4 DEF IsUnclaimed
<1>5. ASSUME NEW k \in Ids, NEW o \in Outcomes, FinishStep(k, o)
      PROVE  ~IsUnclaimed(i)'
  <2>1. CASE rows' = FinishDone(k)
    <3>1. AnswerAdded(rows', k, Len(rows) + 1)
      BY <2>1, FinishDoneRows
    <3> QED BY <3>1 DEF AnswerAdded, IsUnclaimed
  <2>2. CASE rows' = FinishFailed(k, o = "partial")
    <3>1. (o = "partial") \in BOOLEAN
      OBVIOUS
    <3>2. MarkedFailed(rows', k)
      BY <2>2, <3>1, FinishFailedRows
    <3> QED BY <3>2 DEF MarkedFailed, IsUnclaimed
  <2> QED BY <1>4, <1>5, <2>1, <2>2 DEF FinishStep, Finish
<1> QED BY <1>1, <1>2, <1>3, <1>4, <1>5 DEF UserStep, WorkerStep, storeVars

(* A step that spawns no task and wins no claim.                           *)
Quiet ==
    /\ DOMAIN runs' = DOMAIN runs
    /\ \A r \in DOMAIN runs : runs'[r].job = runs[r].job
    /\ \A d \in Daemons : pollPc'[d] = "get" => pollPc[d] = "get" /\ cand'[d] = cand[d]

(* The rows handed out so far cannot be claimed after the step either.     *)
StillClaimed == \A i \in Ids : ~IsUnclaimed(i) => rows'[i].kind # "job" \/ rows'[i].status # "null"

LEMMA QuietKeepsHandedOut ==
    ASSUME KnownIds, HandedOut, StillClaimed, Quiet
    PROVE  HandedOut'
<1>1. HandedOutOnce'
  BY DEF HandedOut, HandedOutOnce, Quiet
<1>2. \A r \in DOMAIN runs' : ~IsUnclaimed(runs[r].job)'
  BY DEF KnownIds, HandedOut, StillClaimed, Quiet, IsUnclaimed
<1>3. \A d \in Daemons : pollPc'[d] = "get" => ~IsUnclaimed(cand[d])'
  BY DEF KnownIds, HandedOut, StillClaimed, Quiet, IsUnclaimed
<1> QED BY <1>1, <1>2, <1>3 DEF HandedOut, Quiet, IsUnclaimed

(* Winning a claim: the row was handed out to nobody before.               *)
LEMMA WinKeepsHandedOut ==
    ASSUME RunnerInv, HandedOut, StillClaimed, NEW d \in Daemons, UpdateWins(d)
    PROVE  HandedOut'
<1>1. /\ rows \in Seq(Row)
      /\ pollPc \in [Daemons -> PollPcs]
      /\ cand[d] \in Ids
  BY DEF RunnerInv, TypeOK, StoreTypeOK, KnownIds, UpdateWins
<1>2. rows'[cand[d]].status = "pending"
  BY <1>1, TryClaimRows DEF UpdateWins
<1>3. /\ UNCHANGED <<runs, cand>>
      /\ \A e \in Daemons : e # d => pollPc'[e] = pollPc[e]
  BY <1>1 DEF UpdateWins
<1>4. IsUnclaimed(cand[d])
  BY DEF UpdateWins
<1>5. HandedOutOnce'
  BY <1>3 DEF HandedOut, HandedOutOnce
<1>6. \A r \in DOMAIN runs : ~IsUnclaimed(runs[r].job)'
  BY <1>3 DEF HandedOut, StillClaimed, IsUnclaimed, RunnerInv, KnownIds
<1>7. \A e \in Daemons : pollPc'[e] = "get" =>
         /\ ~IsUnclaimed(cand[e])'
         /\ \A r \in DOMAIN runs : runs[r].job # cand[e]
  BY <1>2, <1>3, <1>4 DEF HandedOut, StillClaimed, IsUnclaimed, RunnerInv, KnownIds
<1>8. \A e, f \in Daemons :
         pollPc'[e] = "get" /\ pollPc'[f] = "get" /\ cand[f] = cand[e] => f = e
  <2> SUFFICES ASSUME NEW e \in Daemons, NEW f \in Daemons, pollPc'[e] = "get",
                      pollPc'[f] = "get", cand[f] = cand[e], e # f
               PROVE  FALSE
    OBVIOUS
  <2>1. CASE e # d /\ f # d
    BY <1>3, <2>1 DEF HandedOut
  <2>2. CASE e = d
    BY <1>3, <1>4, <2>2 DEF HandedOut
  <2>3. CASE f = d
    BY <1>3, <1>4, <2>3 DEF HandedOut
  <2> QED BY <2>1, <2>2, <2>3
<1> QED BY <1>3, <1>5, <1>6, <1>7, <1>8 DEF HandedOut, IsUnclaimed

(* The claim becomes a task.                                               *)
LEMMA SpawnKeepsHandedOut ==
    ASSUME RunnerInv, HandedOut, StillClaimed, NEW d \in Daemons, GetAndSpawn(d)
    PROVE  HandedOut'
<1>1. DaemonTypes
  BY DEF RunnerInv, TypeOK, DaemonTypes
<1>2. pollPc[d] = "get" /\ cand[d] \in Ids /\ cand[d] \in Nat
  BY <1>1 DEF GetAndSpawn, RunnerInv, KnownIds, DaemonTypes
<1>3. /\ DOMAIN runs' = DOMAIN runs \cup {Len(runs) + 1}
      /\ runs'[Len(runs) + 1].job = cand[d]
      /\ \A k \in DOMAIN runs : runs'[k] = runs[k]
  BY <1>1, <1>2, SpawnAddsLive DEF GetAndSpawn, DaemonTypes
<1>4. \A e \in Daemons : pollPc'[e] = "get" =>
         e # d /\ pollPc[e] = "get" /\ cand'[e] = cand[e]
  BY <1>1 DEF GetAndSpawn, ClearClaim, DaemonTypes
<1>5. \A r \in DOMAIN runs : runs[r].job # cand[d]
  BY <1>2 DEF HandedOut
<1>6. HandedOutOnce'
  BY <1>3, <1>5 DEF HandedOut, HandedOutOnce
<1>7. \A r \in DOMAIN runs' : ~IsUnclaimed(runs[r].job)'
  BY <1>2, <1>3 DEF HandedOut, StillClaimed, IsUnclaimed, RunnerInv, KnownIds
<1>8. \A e \in Daemons : pollPc'[e] = "get" => ~IsUnclaimed(cand[e])'
  BY <1>4 DEF HandedOut, StillClaimed, IsUnclaimed, RunnerInv, KnownIds
<1>9. \A e \in Daemons : pollPc'[e] = "get" => \A r \in DOMAIN runs' : runs'[r].job # cand'[e]
  BY <1>2, <1>3, <1>4 DEF HandedOut
<1>10. \A e, f \in Daemons :
         pollPc'[e] = "get" /\ pollPc'[f] = "get" /\ cand'[f] = cand'[e] => f = e
  BY <1>4 DEF HandedOut
<1> QED BY <1>6, <1>7, <1>8, <1>9, <1>10 DEF HandedOut, IsUnclaimed

LEMMA HandedOutStep ==
    ASSUME ~RequeueOnStart, RunnerInv, HandedOut, [Next]_vars
    PROVE  HandedOut'
<1>1. rows \in Seq(Row) /\ KnownIds /\ TypeOK
  BY DEF RunnerInv, TypeOK, StoreTypeOK
<1>2. StillClaimed
  <2> SUFFICES ASSUME NEW i \in Ids, ~IsUnclaimed(i)
               PROVE  rows'[i].kind # "job" \/ rows'[i].status # "null"
    BY DEF StillClaimed
  <2>1. UserStep \/ WorkerStep \/ UNCHANGED storeVars
    BY <1>1, RunnerStepIsTableStep DEF TableStep
  <2>2. ~IsUnclaimed(i)'
    BY <1>1, <2>1, ClaimedStays
  <2> QED BY <2>2 DEF IsUnclaimed
<1>3. DaemonTypes
  BY <1>1 DEF TypeOK, DaemonTypes
<1>4. ASSUME Users \/ UNCHANGED vars \/ \E d \in Daemons : HttpStep(d)
      PROVE  HandedOut'
  <2>1. UNCHANGED <<runs, pollPc, cand>>
    BY <1>4, HttpAlone DEF Users, vars, daemonVars
  <2>2. Quiet
    BY <2>1 DEF Quiet
  <2> QED BY <1>1, <1>2, <2>2, QuietKeepsHandedOut
<1>5. ASSUME NEW d \in Daemons, MainStep(d)
      PROVE  HandedOut'
  <2>1. ASSUME Crash(d)
        PROVE  Quiet
    <3>1. DOMAIN runs' = DOMAIN runs /\ \A r \in DOMAIN runs : runs'[r].job = runs[r].job
      BY <1>3, <2>1, CrashEndsLive DEF DaemonTypes
    <3>2. \A e \in Daemons : pollPc'[e] = "get" => pollPc[e] = "get" /\ cand'[e] = cand[e]
      BY <1>3, <2>1 DEF Crash, ClearDaemon, ClearClaim, DaemonTypes
    <3> QED BY <3>1, <3>2 DEF Quiet
  <2>2. ASSUME Exit(d) \/ Bind(d) \/ BindFails(d)
        PROVE  Quiet
    BY <1>3, <2>2 DEF Quiet, Exit, Bind, BindFails, ClearDaemon, ClearClaim, DaemonTypes
  <2>3. ASSUME Start(d) \/ StartupRequeue(d) \/ StartupSweep(d) \/ StartupFails(d) \/ Signal(d)
        PROVE  Quiet
    BY <2>3 DEF Quiet, Start, StartupRequeue, StartupSweep, StartupFails, Signal
  <2>4. Quiet
    BY <1>5, <2>1, <2>2, <2>3 DEF MainStep
  <2> QED BY <1>1, <1>2, <2>4, QuietKeepsHandedOut
<1>6. ASSUME NEW d \in Daemons, PollStep(d)
      PROVE  HandedOut'
  <2>1. CASE UpdateWins(d)
    BY <1>2, <2>1, WinKeepsHandedOut
  <2>2. CASE GetAndSpawn(d)
    BY <1>2, <2>2, SpawnKeepsHandedOut
  <2>3. CASE ~UpdateWins(d) /\ ~GetAndSpawn(d)
    <3>1. UNCHANGED runs
      BY <1>6, <2>3 DEF PollStep, Acquire, SelectOldest, UpdateLoses, GetFindsNothing,
                        ClaimError, Wake, Break, Drained
    <3>2. \A e \in Daemons : pollPc'[e] = "get" => pollPc[e] = "get" /\ cand'[e] = cand[e]
      BY <1>3, <1>6, <2>3
         DEF PollStep, Acquire, SelectOldest, UpdateLoses, GetFindsNothing, ClaimError, Wake,
             Break, Drained, Rest, ClearClaim, DaemonTypes
    <3>3. Quiet
      BY <3>1, <3>2 DEF Quiet
    <3> QED BY <1>1, <1>2, <3>3, QuietKeepsHandedOut
  <2> QED BY <2>1, <2>2, <2>3
<1>7. ASSUME NEW r \in DOMAIN runs, TaskStep(r)
      PROVE  HandedOut'
  <2>1. runs[r].outcome \in Outcomes \cup {"none"}
    <3>1. runs[r] \in Run
      BY <1>3 DEF DaemonTypes
    <3> QED BY <3>1 DEF Run
  <2>2. PICK from, to \in RunPcs, o \in Outcomes \cup {"none"} : RunStep(r, from, to, o)
    BY <1>7, <2>1, RunnerAssumption
       DEF TaskStep, CreateWorkspace, CreateFails, RunReturns, RunAborted, RemoveWorkspace,
           RecordOutcome, RecordFails, Panic, OrphanExits, Outcomes, RunPcs, IsLive, LivePcs
  <2>3. DOMAIN runs' = DOMAIN runs /\ \A k \in DOMAIN runs : runs'[k].job = runs[k].job
    BY <1>3, <2>2, RunStepRuns DEF DaemonTypes
  <2>4. UNCHANGED <<pollPc, cand>>
    BY <1>7 DEF TaskStep, CreateWorkspace, CreateFails, RunReturns, RunAborted,
                RemoveWorkspace, RecordOutcome, RecordFails, Panic, OrphanExits,
                ReleasePermit, daemonVars
  <2>5. Quiet
    BY <2>3, <2>4 DEF Quiet
  <2> QED BY <1>1, <1>2, <2>5, QuietKeepsHandedOut
<1> QED BY <1>4, <1>5, <1>6, <1>7 DEF Next

(* With REQUEUE_PENDING_ON_START off, whatever crashes, fails or restarts, *)
(* each row is handed to one job task at most in its life (claim_next:     *)
(* "each row is handed out exactly once"), so never to two workers.        *)
THEOREM HandedOutAtMostOnce ==
    ASSUME ~RequeueOnStart
    PROVE  Spec => [](HandedOut /\ NeverHandedToTwo)
<1>1. Init => RunnerInv /\ HandedOut
  BY RunnerInvInit DEF Init, HandedOut, HandedOutOnce
<1>2. RunnerInv /\ [Next]_vars => RunnerInv'
  BY RunnerInvStep
<1>3. RunnerInv /\ HandedOut /\ [Next]_vars => HandedOut'
  BY HandedOutStep
<1>4. HandedOut => NeverHandedToTwo
  BY DEF HandedOut, HandedOutOnce, NeverHandedToTwo
<1> QED BY <1>1, <1>2, <1>3, <1>4, PTL DEF Spec

-----------------------------------------------------------------------------
(* Workspaces under a root of the daemon's own.                            *)

(* No two daemons have one WORKSPACE_ROOT.                                 *)
RootsApart == ~SharedRoot \/ \A d, e \in Daemons : d = e

(* A step that takes no workspace away and lets no claude process begin.   *)
Tidy ==
    /\ dirs \subseteq dirs'
    /\ DOMAIN runs \subseteq DOMAIN runs'
    /\ \A r \in DOMAIN runs' : runs'[r].pc = "run" => r \in DOMAIN runs /\ runs[r].pc = "run"

LEMMA TidyKeepsWorkspaces ==
    ASSUME WorkspaceWhileRunning, Tidy
    PROVE  WorkspaceWhileRunning'
BY DEF WorkspaceWhileRunning, Tidy

(* A daemon sweeps before it has a worker, so no task of its own runs, and *)
(* its root holds no workspaces of others.                                 *)
LEMMA SweepSparesRunning ==
    ASSUME RootsApart, RunnerInv, WorkspaceWhileRunning, NEW d \in Daemons,
           mainPc[d] = "sweep", NEW kept, dirs' = Swept(d, kept), UNCHANGED runs
    PROVE  WorkspaceWhileRunning'
<1>1. LiveRuns(d) = {}
  BY DEF RunnerInv, WorkerMatchesMain
<1>2. \A r \in DOMAIN runs : runs[r].daemon \in Daemons
  <2> SUFFICES ASSUME NEW r \in DOMAIN runs
               PROVE  runs[r].daemon \in Daemons
    OBVIOUS
  <2>1. runs[r] \in Run
    BY DEF RunnerInv, TypeOK
  <2> QED BY <2>1 DEF Run
<1>3. \A r \in DOMAIN runs : runs[r].pc = "run" => r \notin RootOf(d)
  BY <1>1, <1>2 DEF RootsApart, LiveRuns, IsLive, LivePcs, RootOf
<1> QED BY <1>3 DEF WorkspaceWhileRunning, Swept

LEMMA WorkspaceStep ==
    ASSUME RootsApart, RunnerInv, WorkspaceWhileRunning, [Next]_vars
    PROVE  WorkspaceWhileRunning'
<1>1. DaemonTypes
  BY DEF RunnerInv, TypeOK, DaemonTypes
<1>2. ASSUME Users \/ UNCHANGED vars \/ \E d \in Daemons : HttpStep(d)
      PROVE  WorkspaceWhileRunning'
  <2>1. UNCHANGED <<runs, dirs>>
    BY <1>2, HttpAlone DEF Users, vars
  <2> QED BY <2>1 DEF WorkspaceWhileRunning
<1>3. ASSUME NEW d \in Daemons, MainStep(d)
      PROVE  WorkspaceWhileRunning'
  <2>1. CASE StartupSweep(d)
    BY <2>1, SweepSparesRunning DEF StartupSweep
  <2>2. CASE StartupFails(d)
    <3>1. CASE UNCHANGED dirs
      BY <2>2, <3>1 DEF StartupFails, WorkspaceWhileRunning
    <3>2. CASE mainPc[d] = "sweep" /\ \E kept \in SUBSET (dirs \cap RootOf(d)) : dirs' = Swept(d, kept)
      BY <2>2, <3>2, SweepSparesRunning DEF StartupFails
    <3> QED BY <2>2, <3>1, <3>2 DEF StartupFails
  <2>3. CASE Crash(d)
    <3>1. /\ DOMAIN runs' = DOMAIN runs
          /\ LiveRuns(d)' = {}
          /\ UNCHANGED dirs
      BY <1>1, <2>3, CrashEndsLive DEF DaemonTypes, Crash
    <3>2. \A r \in DOMAIN runs : r \notin LiveRuns(d) => runs'[r] = runs[r]
      BY <2>3 DEF Crash
    <3>3. \A r \in LiveRuns(d) : runs'[r].pc # "run"
      <4> SUFFICES ASSUME NEW r \in LiveRuns(d)
                   PROVE  runs'[r].pc # "run"
        OBVIOUS
      <4>1. r \in DOMAIN runs /\ runs[r] \in Run
        BY <1>1 DEF LiveRuns, DaemonTypes
      <4>2. runs'[r] = [runs[r] EXCEPT !.pc = IF runs[r].pc = "run" THEN "orphan" ELSE "ended"]
        BY <2>3, <4>1 DEF Crash
      <4> QED BY <4>1, <4>2 DEF Run
    <3>4. Tidy
      BY <3>1, <3>2, <3>3 DEF Tidy, LiveRuns
    <3> QED BY <3>4, TidyKeepsWorkspaces
  <2>4. CASE Start(d) \/ StartupRequeue(d) \/ Bind(d) \/ BindFails(d) \/ Signal(d) \/ Exit(d)
    BY <2>4 DEF Start, StartupRequeue, Bind, BindFails, Signal, Exit, WorkspaceWhileRunning
  <2> QED BY <1>3, <2>1, <2>2, <2>3, <2>4 DEF MainStep
<1>4. ASSUME NEW d \in Daemons, PollStep(d)
      PROVE  WorkspaceWhileRunning'
  <2>1. CASE GetAndSpawn(d)
    <3> DEFINE x == [daemon |-> d, job |-> cand[d], pc |-> "create", outcome |-> "none"]
    <3>1. x \in Run /\ x.pc = "create"
      BY <1>1 DEF DaemonTypes, Run, RunPcs
    <3>2. runs' = Append(runs, x) /\ UNCHANGED dirs
      BY <2>1 DEF GetAndSpawn
    <3> HIDE DEF x
    <3>3. Tidy
      BY <1>1, <3>1, <3>2 DEF Tidy, DaemonTypes
    <3> QED BY <3>3, TidyKeepsWorkspaces
  <2>2. CASE ~GetAndSpawn(d)
    BY <1>4, <2>2 DEF PollStep, Acquire, SelectOldest, UpdateWins, UpdateLoses,
                      GetFindsNothing, ClaimError, Wake, Break, Drained, WorkspaceWhileRunning
  <2> QED BY <2>1, <2>2
<1>5. ASSUME NEW r \in DOMAIN runs, TaskStep(r)
      PROVE  WorkspaceWhileRunning'
  <2>1. runs[r].outcome \in Outcomes \cup {"none"}
    <3>1. runs[r] \in Run
      BY <1>1 DEF DaemonTypes
    <3> QED BY <3>1 DEF Run
  <2>2. PICK from, to \in RunPcs, o \in Outcomes \cup {"none"} :
           /\ RunStep(r, from, to, o)
           /\ to = "run" => CreateWorkspace(r)
    BY <1>5, <2>1, RunnerAssumption
       DEF TaskStep, CreateWorkspace, CreateFails, RunReturns, RunAborted, RemoveWorkspace,
           RecordOutcome, RecordFails, Panic, OrphanExits, Outcomes, RunPcs, IsLive, LivePcs
  <2>3. /\ DOMAIN runs' = DOMAIN runs
        /\ runs'[r].pc = to
        /\ \A k \in DOMAIN runs : k # r => runs'[k] = runs[k]
    BY <1>1, <2>2, RunStepRuns DEF DaemonTypes
  <2>4. dirs \ {r} \subseteq dirs'
    BY <1>5 DEF TaskStep, CreateWorkspace, CreateFails, RunReturns, RunAborted, RemoveWorkspace,
                RecordOutcome, RecordFails, Panic, OrphanExits
  <2>5. CreateWorkspace(r) => r \in dirs'
    BY DEF CreateWorkspace
  <2> QED BY <2>2, <2>3, <2>4, <2>5 DEF WorkspaceWhileRunning
<1> QED BY <1>2, <1>3, <1>4, <1>5 DEF Next

(* One daemon, and several that have been given a WORKSPACE_ROOT each,     *)
(* never take the cwd of a running claude away, however they sweep,        *)
(* remove, crash and restart.  Nothing in the code sees to the assumption: *)
(* the root is ./workspaces unless set, and daemons with the same root do  *)
(* take it away.                                                           *)
THEOREM WorkspacesStay ==
    ASSUME RootsApart
    PROVE  Spec => []WorkspaceWhileRunning
<1>1. Init => RunnerInv /\ WorkspaceWhileRunning
  BY RunnerInvInit DEF Init, WorkspaceWhileRunning
<1>2. RunnerInv /\ [Next]_vars => RunnerInv'
  BY RunnerInvStep
<1>3. RunnerInv /\ WorkspaceWhileRunning /\ [Next]_vars => WorkspaceWhileRunning'
  BY WorkspaceStep
<1> QED BY <1>1, <1>2, <1>3, PTL DEF Spec

-----------------------------------------------------------------------------
(* One daemon that may put jobs back when it starts.                       *)

(* Among the tasks there are now, and the claim about to become one, no    *)
(* two have the same row, and no such row can be claimed.                  *)
LiveOnce ==
    /\ NeverHandedToTwo
    /\ \A r \in DOMAIN runs : IsLive(r) => ~IsUnclaimed(runs[r].job)
    /\ \A d \in Daemons : pollPc[d] = "get" =>
          /\ ~IsUnclaimed(cand[d])
          /\ \A r \in DOMAIN runs : IsLive(r) => runs[r].job # cand[d]

(* The tasks after the step are tasks from before it.                      *)
Fewer ==
    /\ \A r \in DOMAIN runs' : IsLive(r)' =>
          r \in DOMAIN runs /\ IsLive(r) /\ runs'[r].job = runs[r].job
    /\ \A d \in Daemons : pollPc'[d] = "get" => pollPc[d] = "get" /\ cand'[d] = cand[d]

LEMMA FewerKeepsLiveOnce ==
    ASSUME KnownIds, LiveOnce, StillClaimed, Fewer
    PROVE  LiveOnce'
<1>1. NeverHandedToTwo'
  BY DEF LiveOnce, NeverHandedToTwo, Fewer
<1>2. \A r \in DOMAIN runs' : IsLive(r)' => ~IsUnclaimed(runs[r].job)'
  BY DEF KnownIds, LiveOnce, StillClaimed, Fewer, IsUnclaimed
<1>3. \A d \in Daemons : pollPc'[d] = "get" => ~IsUnclaimed(cand[d])'
  BY DEF KnownIds, LiveOnce, StillClaimed, Fewer, IsUnclaimed
<1>4. \A d \in Daemons : pollPc'[d] = "get" =>
         \A r \in DOMAIN runs' : IsLive(r)' => runs'[r].job # cand'[d]
  BY DEF LiveOnce, Fewer
<1> QED BY <1>1, <1>2, <1>3, <1>4 DEF LiveOnce

(* A step that leaves nothing handed out, as the requeue finds it: the     *)
(* worker of the only daemon is not there yet.                             *)
LEMMA NothingHandedOut ==
    ASSUME \A d, e \in Daemons : d = e, RunnerInv, NEW d \in Daemons, pollPc[d] = "off",
           UNCHANGED <<runs, pollPc>>
    PROVE  LiveOnce'
<1>1. LiveRuns(d) = {}
  BY DEF RunnerInv, WorkerMatchesMain
<1>2. \A r \in DOMAIN runs : runs[r].daemon \in Daemons
  <2> SUFFICES ASSUME NEW r \in DOMAIN runs
               PROVE  runs[r].daemon \in Daemons
    OBVIOUS
  <2>1. runs[r] \in Run
    BY DEF RunnerInv, TypeOK
  <2> QED BY <2>1 DEF Run
<1>3. \A r \in DOMAIN runs : ~IsLive(r)
  BY <1>1, <1>2 DEF LiveRuns
<1>4. \A e \in Daemons : pollPc[e] # "get"
  OBVIOUS
<1> QED BY <1>3, <1>4 DEF LiveOnce, NeverHandedToTwo, IsLive

LEMMA WinKeepsLiveOnce ==
    ASSUME \A d, e \in Daemons : d = e, RunnerInv, LiveOnce, StillClaimed,
           NEW d \in Daemons, UpdateWins(d)
    PROVE  LiveOnce'
<1>1. /\ rows \in Seq(Row)
      /\ pollPc \in [Daemons -> PollPcs]
      /\ cand[d] \in Ids
  BY DEF RunnerInv, TypeOK, StoreTypeOK, KnownIds, UpdateWins
<1>2. rows'[cand[d]].status = "pending"
  BY <1>1, TryClaimRows DEF UpdateWins
<1>3. UNCHANGED <<runs, cand>> /\ IsUnclaimed(cand[d])
  BY DEF UpdateWins
<1>4. NeverHandedToTwo'
  BY <1>3 DEF LiveOnce, NeverHandedToTwo, IsLive
<1>5. \A r \in DOMAIN runs' : IsLive(r)' => ~IsUnclaimed(runs[r].job)'
  BY <1>3 DEF LiveOnce, StillClaimed, IsUnclaimed, IsLive, RunnerInv, KnownIds
<1>6. ~IsUnclaimed(cand[d])'
  BY <1>2, <1>3 DEF IsUnclaimed
<1>7. \A r \in DOMAIN runs' : IsLive(r)' => runs'[r].job # cand[d]
  BY <1>3 DEF LiveOnce, IsLive
<1> QED BY <1>3, <1>4, <1>5, <1>6, <1>7 DEF LiveOnce

LEMMA SpawnKeepsLiveOnce ==
    ASSUME \A d, e \in Daemons : d = e, RunnerInv, LiveOnce, StillClaimed,
           NEW d \in Daemons, GetAndSpawn(d)
    PROVE  LiveOnce'
<1>1. DaemonTypes
  BY DEF RunnerInv, TypeOK, DaemonTypes
<1>2. pollPc[d] = "get" /\ cand[d] \in Ids /\ cand[d] \in Nat
  BY <1>1 DEF GetAndSpawn, RunnerInv, KnownIds, DaemonTypes
<1>3. /\ DOMAIN runs' = DOMAIN runs \cup {Len(runs) + 1}
      /\ runs'[Len(runs) + 1].job = cand[d]
      /\ \A k \in DOMAIN runs : runs'[k] = runs[k]
  BY <1>1, <1>2, SpawnAddsLive DEF GetAndSpawn, DaemonTypes
<1>4. \A e \in Daemons : pollPc'[e] # "get"
  BY <1>1 DEF GetAndSpawn, DaemonTypes
<1>5. \A r \in DOMAIN runs : IsLive(r)' <=> IsLive(r)
  BY <1>3 DEF IsLive
<1>6. \A r \in DOMAIN runs : IsLive(r) => runs[r].job # cand[d]
  BY <1>2 DEF LiveOnce
<1>7. NeverHandedToTwo'
  <2>1. \A r, s \in DOMAIN runs :
           IsLive(r) /\ IsLive(s) /\ runs[r].job = runs[s].job => r = s
    BY DEF LiveOnce, NeverHandedToTwo
  <2>2. \A r, s \in DOMAIN runs' :
           IsLive(r)' /\ IsLive(s)' /\ runs'[r].job = runs'[s].job => r = s
    BY <1>3, <1>5, <1>6, <2>1
  <2> QED BY <2>2 DEF NeverHandedToTwo
<1>8. \A r \in DOMAIN runs' : IsLive(r)' => runs'[r].job \in Ids /\ ~IsUnclaimed(runs'[r].job)
  BY <1>2, <1>3, <1>5 DEF LiveOnce, RunnerInv, KnownIds
<1>9. \A r \in DOMAIN runs' : IsLive(r)' => ~IsUnclaimed(runs[r].job)'
  BY <1>8 DEF StillClaimed, IsUnclaimed
<1> QED BY <1>4, <1>7, <1>9 DEF LiveOnce

LEMMA LiveOnceStep ==
    ASSUME \A d, e \in Daemons : d = e, RunnerInv, LiveOnce, [Next]_vars
    PROVE  LiveOnce'
<1>1. rows \in Seq(Row) /\ KnownIds /\ TypeOK /\ DaemonTypes
  BY DEF RunnerInv, TypeOK, StoreTypeOK, DaemonTypes
<1>2. CASE AtRequeue
  <2>1. PICK d \in Daemons :
           mainPc[d] = "requeue" /\ (StartupRequeue(d) \/ StartupFails(d))
    BY <1>2 DEF AtRequeue
  <2>2. pollPc[d] = "off" /\ UNCHANGED <<runs, pollPc>>
    BY <2>1 DEF StartupRequeue, StartupFails, RunnerInv, WorkerMatchesMain
  <2> QED BY <2>2, NothingHandedOut
<1>3. CASE ~AtRequeue
  <2>1. UserStep \/ WorkerStep \/ UNCHANGED storeVars
    BY <1>1, <1>3, RunnerStepIsTableStep DEF TableStep
  <2>2. StillClaimed
    <3> SUFFICES ASSUME NEW i \in Ids, ~IsUnclaimed(i)
                 PROVE  rows'[i].kind # "job" \/ rows'[i].status # "null"
      BY DEF StillClaimed
    <3>1. ~IsUnclaimed(i)'
      BY <1>1, <2>1, ClaimedStays
    <3> QED BY <3>1 DEF IsUnclaimed
  <2>3. ASSUME Users \/ UNCHANGED vars \/ \E d \in Daemons : HttpStep(d)
        PROVE  LiveOnce'
    <3>1. UNCHANGED <<runs, pollPc, cand>>
      BY <2>3, HttpAlone DEF Users, vars, daemonVars
    <3>2. Fewer
      BY <3>1 DEF Fewer, IsLive
    <3> QED BY <1>1, <2>2, <3>2, FewerKeepsLiveOnce
  <2>4. ASSUME NEW d \in Daemons, MainStep(d)
        PROVE  LiveOnce'
    <3>1. CASE Crash(d)
      <4>1. /\ DOMAIN runs' = DOMAIN runs
            /\ \A k \in DOMAIN runs : runs'[k].job = runs[k].job
            /\ LiveRuns(d)' = {}
            /\ \A e : e # d => LiveRuns(e)' = LiveRuns(e)
            /\ runs' \in Seq(Run)
        BY <1>1, <3>1, CrashEndsLive DEF DaemonTypes
      <4>2. \A k \in DOMAIN runs' : runs'[k].daemon = d
        <5> SUFFICES ASSUME NEW k \in DOMAIN runs'
                     PROVE  runs'[k].daemon = d
          OBVIOUS
        <5>1. runs'[k] \in Run
          BY <4>1
        <5> QED BY <5>1 DEF Run
      <4>3. \A k \in DOMAIN runs' : ~IsLive(k)'
        BY <4>1, <4>2 DEF LiveRuns
      <4>4. \A e \in Daemons : pollPc'[e] = "get" => pollPc[e] = "get" /\ cand'[e] = cand[e]
        BY <1>1, <3>1 DEF Crash, ClearDaemon, ClearClaim, DaemonTypes
      <4> QED BY <1>1, <2>2, <4>3, <4>4, FewerKeepsLiveOnce DEF Fewer
    <3>2. CASE Exit(d) \/ Bind(d) \/ BindFails(d)
      <4>1. Fewer
        BY <1>1, <3>2
           DEF Fewer, IsLive, Exit, Bind, BindFails, ClearDaemon, ClearClaim, DaemonTypes
      <4> QED BY <1>1, <2>2, <4>1, FewerKeepsLiveOnce
    <3>3. CASE Start(d) \/ StartupRequeue(d) \/ StartupSweep(d) \/ StartupFails(d) \/ Signal(d)
      <4>1. Fewer
        BY <3>3 DEF Fewer, IsLive, Start, StartupRequeue, StartupSweep, StartupFails, Signal
      <4> QED BY <1>1, <2>2, <4>1, FewerKeepsLiveOnce
    <3> QED BY <2>4, <3>1, <3>2, <3>3 DEF MainStep
  <2>5. ASSUME NEW d \in Daemons, PollStep(d)
        PROVE  LiveOnce'
    <3>1. CASE UpdateWins(d)
      BY <2>2, <3>1, WinKeepsLiveOnce
    <3>2. CASE GetAndSpawn(d)
      BY <2>2, <3>2, SpawnKeepsLiveOnce
    <3>3. CASE ~UpdateWins(d) /\ ~GetAndSpawn(d)
      <4>1. UNCHANGED runs
        BY <2>5, <3>3 DEF PollStep, Acquire, SelectOldest, UpdateLoses, GetFindsNothing,
                          ClaimError, Wake, Break, Drained
      <4>2. \A e \in Daemons : pollPc'[e] = "get" => pollPc[e] = "get" /\ cand'[e] = cand[e]
        BY <1>1, <2>5, <3>3
           DEF PollStep, Acquire, SelectOldest, UpdateLoses, GetFindsNothing, ClaimError, Wake,
               Break, Drained, Rest, ClearClaim, DaemonTypes
      <4>3. Fewer
        BY <4>1, <4>2 DEF Fewer, IsLive
      <4> QED BY <1>1, <2>2, <4>3, FewerKeepsLiveOnce
    <3> QED BY <3>1, <3>2, <3>3
  <2>6. ASSUME NEW r \in DOMAIN runs, TaskStep(r)
        PROVE  LiveOnce'
    <3>1. runs[r].outcome \in Outcomes \cup {"none"}
      <4>1. runs[r] \in Run
        BY <1>1 DEF DaemonTypes
      <4> QED BY <4>1 DEF Run
    <3>2. PICK from, to \in RunPcs, o \in Outcomes \cup {"none"} :
             /\ RunStep(r, from, to, o)
             /\ to \in LivePcs => from \in LivePcs
      BY <2>6, <3>1, RunnerAssumption
         DEF TaskStep, CreateWorkspace, CreateFails, RunReturns, RunAborted, RemoveWorkspace,
             RecordOutcome, RecordFails, Panic, OrphanExits, Outcomes, RunPcs, IsLive, LivePcs
    <3>3. /\ DOMAIN runs' = DOMAIN runs
          /\ runs'[r].pc = to
          /\ runs'[r].job = runs[r].job
          /\ \A k \in DOMAIN runs : k # r => runs'[k] = runs[k]
      BY <1>1, <3>2, RunStepRuns DEF DaemonTypes
    <3>4. UNCHANGED <<pollPc, cand>>
      BY <2>6 DEF TaskStep, CreateWorkspace, CreateFails, RunReturns, RunAborted,
                  RemoveWorkspace, RecordOutcome, RecordFails, Panic, OrphanExits,
                  ReleasePermit, daemonVars
    <3>5. runs[r].pc = from
      BY <3>2 DEF RunStep
    <3>6. Fewer
      BY <3>2, <3>3, <3>4, <3>5 DEF Fewer, IsLive
    <3> QED BY <1>1, <2>2, <3>6, FewerKeepsLiveOnce
  <2> QED BY <2>3, <2>4, <2>5, <2>6 DEF Next
<1> QED BY <1>2, <1>3

(* The deployment with one runner, which requeues on start: whatever it    *)
(* left pending when it crashed or failed, however often it is started,    *)
(* no two of its tasks work on the same row at a time.                     *)
THEOREM OneDaemonHandsOutOnce ==
    ASSUME \A d, e \in Daemons : d = e
    PROVE  Spec => []NeverHandedToTwo
<1>1. Init => RunnerInv /\ LiveOnce
  BY RunnerInvInit DEF Init, LiveOnce, NeverHandedToTwo
<1>2. RunnerInv /\ [Next]_vars => RunnerInv'
  BY RunnerInvStep
<1>3. RunnerInv /\ LiveOnce /\ [Next]_vars => LiveOnce'
  BY LiveOnceStep
<1>4. LiveOnce => NeverHandedToTwo
  BY DEF LiveOnce
<1> QED BY <1>1, <1>2, <1>3, <1>4, PTL DEF Spec

-----------------------------------------------------------------------------
(* Who makes a row pending.                                                *)

(* Daemon d marks its candidate pending, whether it learns of it or not.   *)
Claims(d) ==
    /\ pollPc[d] = "update"
    /\ IsUnclaimed(cand[d])
    /\ rows' = TryClaim(cand[d])
    /\ UpdateWins(d) \/ ClaimError(d)

(* Every other step of the table.                                          *)
NoClaim ==
    \/ UserStep
    \/ \E i \in Ids : \E o \in Outcomes : FinishStep(i, o)
    \/ RequeueStep
    \/ UNCHANGED rows

LEMMA ClaimOrNot ==
    ASSUME RunnerInv, [Next]_vars
    PROVE  NoClaim \/ \E d \in Daemons : Claims(d)
<1>1. ASSUME Users \/ UNCHANGED vars \/ \E d \in Daemons : HttpStep(d)
      PROVE  NoClaim
  BY <1>1, HttpAlone DEF Users, vars, NoClaim
<1>2. ASSUME NEW d \in Daemons, MainStep(d)
      PROVE  NoClaim
  BY <1>2 DEF MainStep, Start, StartupRequeue, StartupSweep, StartupFails, Bind, BindFails,
              Crash, Signal, Exit, NoClaim, RequeueStep
<1>3. ASSUME NEW d \in Daemons, PollStep(d)
      PROVE  NoClaim \/ Claims(d)
  BY <1>3 DEF PollStep, Acquire, SelectOldest, UpdateWins, UpdateLoses, GetAndSpawn,
              GetFindsNothing, ClaimError, Wake, Break, Drained, NoClaim, Claims
<1>4. ASSUME NEW r \in DOMAIN runs, TaskStep(r)
      PROVE  NoClaim
  <2>1. CASE RecordOutcome(r)
    <3>1. runs[r].job \in Ids /\ runs[r] \in Run
      BY DEF RunnerInv, KnownIds, TypeOK
    <3>2. PICK o \in Outcomes : Finish(runs[r].job, o) = Finish(runs[r].job, runs[r].outcome)
      BY <3>1 DEF Run, Finish, Outcomes
    <3> QED BY <2>1, <3>1, <3>2 DEF RecordOutcome, NoClaim, FinishStep
  <2> QED BY <1>4, <2>1
         DEF TaskStep, CreateWorkspace, CreateFails, RunReturns, RunAborted,
             RemoveWorkspace, RecordFails, Panic, OrphanExits, NoClaim
<1> QED BY <1>1, <1>2, <1>3, <1>4 DEF Next

(* Only a claim makes a row pending.                                       *)
LEMMA NoClaimNoPending ==
    ASSUME rows \in Seq(Row), NoClaim, NEW i \in Ids', IsPending(i)'
    PROVE  i \in Ids /\ IsPending(i)
<1>1. ASSUME NEW c \in Chats, InsertJob(c) \/ InsertPlain(c)
      PROVE  i \in Ids /\ IsPending(i)
  <2>1. \A kind \in Kinds : NewRow(kind, c, 0) \in Row /\ NewRow(kind, c, 0).status = "null"
    BY NewRowType DEF NewRow
  <2>2. PICK x \in Row : rows' = Append(rows, x) /\ x.status = "null"
    BY <1>1, <2>1 DEF InsertJob, InsertPlain, Kinds
  <2>3. /\ DOMAIN rows' = Ids \cup {Len(rows) + 1}
        /\ rows'[Len(rows) + 1] = x
        /\ \A k \in Ids : rows'[k] = rows[k]
    BY <2>2, AppendRow
  <2>4. i \in Ids \cup {Len(rows) + 1} /\ rows'[i].status = "pending"
    BY <2>3 DEF Ids, IsPending
  <2>5. i # Len(rows) + 1
    BY <2>2, <2>3, <2>4
  <2>6. i \in Ids
    BY <2>4, <2>5
  <2> QED BY <2>3, <2>4, <2>6 DEF IsPending
<1>2. ASSUME NEW c \in Chats, DeleteChat(c)
      PROVE  i \in Ids /\ IsPending(i)
  <2>1. /\ DOMAIN rows' = Ids
        /\ \A k \in Ids : rows'[k] = IF rows[k].chat = c THEN NewRow("gone", c, 0) ELSE rows[k]
    BY <1>2, DeleteRows DEF DeleteChat
  <2>2. NewRow("gone", c, 0).status = "null"
    BY DEF NewRow
  <2> QED BY <2>1, <2>2 DEF Ids, IsPending
<1>3. ASSUME NEW k \in Ids, NEW o \in Outcomes, FinishStep(k, o)
      PROVE  i \in Ids /\ IsPending(i)
  <2>1. CASE rows' = FinishDone(k)
    <3>1. AnswerAdded(rows', k, Len(rows) + 1)
      BY <2>1, FinishDoneRows
    <3>2. NewRow("ai", rows[k].chat, k).status = "null"
      BY DEF NewRow
    <3> QED BY <3>1, <3>2 DEF AnswerAdded, Ids, IsPending
  <2>2. CASE rows' = FinishFailed(k, o = "partial")
    <3>1. (o = "partial") \in BOOLEAN
      OBVIOUS
    <3>2. MarkedFailed(rows', k)
      BY <2>2, <3>1, FinishFailedRows
    <3> QED BY <3>2 DEF MarkedFailed, Ids, IsPending
  <2>3. CASE UNCHANGED rows
    BY <2>3 DEF Ids, IsPending
  <2> QED BY <1>3, <2>1, <2>2, <2>3 DEF FinishStep, Finish
<1>4. CASE RequeueStep
  <2>1. /\ DOMAIN rows' = Ids
        /\ \A k \in Ids : ~IsPending(k) => rows'[k] = rows[k]
        /\ \A k \in Ids : IsPending(k) => rows'[k].status = "null"
    BY <1>4, RequeueRows DEF RequeueStep
  <2> QED BY <2>1 DEF Ids, IsPending
<1>5. CASE UNCHANGED rows
  BY <1>5 DEF Ids, IsPending
<1> QED BY <1>1, <1>2, <1>3, <1>4, <1>5 DEF NoClaim, UserStep

-----------------------------------------------------------------------------
(* Jobs are taken in the order they were written.                          *)

(* Between its two statements claim_next holds the oldest row there is.    *)
HoldsOldest ==
    \A d \in Daemons :
        pollPc[d] = "update" => \A j \in Ids : j < cand[d] => ~IsUnclaimed(j)

(* A step that chooses no candidate and puts no job back.                  *)
LEMMA CandidatesStay ==
    ASSUME rows \in Seq(Row), rows' \in Seq(Row), KnownIds, HoldsOldest, StillClaimed,
           \A d \in Daemons : pollPc'[d] = "update" => pollPc[d] = "update" /\ cand'[d] = cand[d]
    PROVE  HoldsOldest'
<1> SUFFICES ASSUME NEW d \in Daemons, pollPc'[d] = "update", NEW j \in Ids', j < cand'[d]
             PROVE  ~IsUnclaimed(j)'
  BY DEF HoldsOldest
<1>1. pollPc[d] = "update" /\ cand'[d] = cand[d] /\ cand[d] \in Ids
  BY DEF KnownIds
<1>2. j \in Nat \ {0} /\ j < cand[d]
  BY <1>1 DEF Ids
<1>3. j \in Ids
  BY <1>1, <1>2 DEF Ids
<1>4. ~IsUnclaimed(j)
  BY <1>1, <1>2, <1>3 DEF HoldsOldest
<1> QED BY <1>3, <1>4 DEF StillClaimed, IsUnclaimed

LEMMA HoldsOldestStep ==
    ASSUME ~RequeueOnStart \/ (\A d, e \in Daemons : d = e),
           RunnerInv, HoldsOldest, [Next]_vars
    PROVE  HoldsOldest'
<1>1. rows \in Seq(Row) /\ KnownIds /\ TypeOK /\ DaemonTypes /\ WorkerMatchesMain
  BY DEF RunnerInv, TypeOK, StoreTypeOK, DaemonTypes
<1>2. rows' \in Seq(Row)
  BY RunnerInvStep DEF RunnerInv, TypeOK, StoreTypeOK
<1>3. CASE RequeueOnStart /\ AtRequeue
  <2>1. PICK d \in Daemons :
           mainPc[d] = "requeue" /\ (StartupRequeue(d) \/ StartupFails(d))
    BY <1>3 DEF AtRequeue
  <2>2. pollPc[d] = "off" /\ UNCHANGED pollPc
    BY <1>1, <2>1 DEF StartupRequeue, StartupFails, WorkerMatchesMain
  <2>3. \A e \in Daemons : e = d
    BY <1>3
  <2> QED BY <2>2, <2>3 DEF HoldsOldest
<1>4. CASE ~RequeueOnStart \/ ~AtRequeue
  <2>1. UserStep \/ WorkerStep \/ UNCHANGED storeVars
    BY <1>1, <1>4, RunnerStepIsTableStep DEF TableStep
  <2>2. StillClaimed
    <3> SUFFICES ASSUME NEW i \in Ids, ~IsUnclaimed(i)
                 PROVE  rows'[i].kind # "job" \/ rows'[i].status # "null"
      BY DEF StillClaimed
    <3>1. ~IsUnclaimed(i)'
      BY <1>1, <2>1, ClaimedStays
    <3> QED BY <3>1 DEF IsUnclaimed
  <2> SUFFICES ASSUME \A d \in Daemons : ~(SelectOldest(d) /\ Unclaimed # {})
               PROVE  \A d \in Daemons :
                         pollPc'[d] = "update" => pollPc[d] = "update" /\ cand'[d] = cand[d]
    <3>1. ASSUME NEW d \in Daemons, SelectOldest(d), Unclaimed # {}
          PROVE  HoldsOldest'
      <4>1. /\ UNCHANGED rows
            /\ pollPc' = [pollPc EXCEPT ![d] = "update"]
            /\ cand' = [cand EXCEPT ![d] = OldestUnclaimed]
        BY <3>1 DEF SelectOldest
      <4>2. \A j \in Ids : j < OldestUnclaimed => ~IsUnclaimed(j)
        <5> SUFFICES ASSUME NEW j \in Ids, j < OldestUnclaimed, IsUnclaimed(j)
                     PROVE  FALSE
          OBVIOUS
        <5>1. j \in Nat /\ OldestUnclaimed \in Nat /\ OldestUnclaimed <= j
          BY <1>1, <3>1, OldestIsUnclaimed, RowOfId DEF Unclaimed
        <5> QED BY <5>1
      <4>3. \A e \in Daemons : e # d => pollPc'[e] = pollPc[e] /\ cand'[e] = cand[e]
        BY <1>1, <4>1 DEF DaemonTypes
      <4>4. cand'[d] = OldestUnclaimed
        BY <1>1, <4>1 DEF DaemonTypes
      <4> QED BY <4>1, <4>2, <4>3, <4>4 DEF HoldsOldest, Ids, IsUnclaimed
    <3> QED BY <1>1, <1>2, <2>2, <3>1, CandidatesStay
  <2>3. ASSUME Users \/ UNCHANGED vars \/ \E d \in Daemons : HttpStep(d)
        PROVE  UNCHANGED <<pollPc, cand>>
    BY <2>3, HttpAlone DEF Users, vars, daemonVars
  <2>4. ASSUME NEW d \in Daemons, MainStep(d)
        PROVE  \A e \in Daemons : pollPc'[e] = "update" => pollPc[e] = "update" /\ cand'[e] = cand[e]
    <3>1. CASE BindFails(d) \/ Crash(d) \/ Exit(d)
      BY <1>1, <3>1 DEF BindFails, Crash, Exit, ClearDaemon, ClearClaim, DaemonTypes
    <3>2. CASE Bind(d)
      BY <1>1, <3>2 DEF Bind, DaemonTypes
    <3>3. CASE Start(d) \/ StartupRequeue(d) \/ StartupSweep(d) \/ StartupFails(d) \/ Signal(d)
      BY <3>3 DEF Start, StartupRequeue, StartupSweep, StartupFails, Signal
    <3> QED BY <2>4, <3>1, <3>2, <3>3 DEF MainStep
  <2>5. ASSUME NEW d \in Daemons, PollStep(d)
        PROVE  \A e \in Daemons : pollPc'[e] = "update" => pollPc[e] = "update" /\ cand'[e] = cand[e]
    <3>1. CASE SelectOldest(d)
      <4>1. Unclaimed = {}
        BY <3>1
      <4> QED BY <1>1, <3>1, <4>1 DEF SelectOldest, Rest, ClearClaim, DaemonTypes
    <3>2. CASE ~SelectOldest(d)
      BY <1>1, <2>5, <3>2
         DEF PollStep, Acquire, UpdateWins, UpdateLoses, GetAndSpawn, GetFindsNothing,
             ClaimError, Wake, Break, Drained, Rest, ClearClaim, DaemonTypes
    <3> QED BY <3>1, <3>2
  <2>6. ASSUME NEW r \in DOMAIN runs, TaskStep(r)
        PROVE  UNCHANGED <<pollPc, cand>>
    BY <2>6 DEF TaskStep, CreateWorkspace, CreateFails, RunReturns, RunAborted,
                RemoveWorkspace, RecordOutcome, RecordFails, Panic, OrphanExits,
                ReleasePermit, daemonVars
  <2> QED BY <2>3, <2>4, <2>5, <2>6 DEF Next
<1> QED BY <1>3, <1>4

(* Whoever marks a row pending leaves no older unclaimed row behind.       *)
LEMMA OldestIsClaimed ==
    ASSUME RunnerInv, HoldsOldest, [Next]_vars,
           NEW i \in Ids, IsUnclaimed(i), rows'[i].status = "pending",
           NEW j \in Ids, j < i
    PROVE  ~IsUnclaimed(j)
<1>1. rows \in Seq(Row)
  BY DEF RunnerInv, TypeOK, StoreTypeOK
<1>2. [StoreNext]_storeVars
  BY RunnerStepIsStoreStep DEF RunnerInv
<1>3. i \in Ids' /\ IsPending(i)' /\ ~IsPending(i)
  BY <1>1, <1>2, IdsGrow DEF IsPending, IsUnclaimed
<1>4. ~NoClaim
  BY <1>1, <1>3, NoClaimNoPending
<1>5. PICK d \in Daemons : Claims(d)
  BY <1>4, ClaimOrNot
<1>6. cand[d] \in Ids
  BY <1>5 DEF Claims, RunnerInv, KnownIds
<1>7. i = cand[d]
  <2>1. \A k \in Ids : k # cand[d] => rows'[k] = rows[k]
    BY <1>1, <1>5, <1>6, TryClaimRows DEF Claims
  <2> QED BY <1>3, <2>1 DEF IsPending
<1> QED BY <1>5, <1>7 DEF HoldsOldest, Claims

(* Jobs are claimed in the order they were written, by several daemons     *)
(* that do not requeue on start as by the only one that does: although     *)
(* claim_next chooses its row one statement before it claims it, no older  *)
(* row becomes claimable in between.                                       *)
THEOREM ClaimsOldestFirst ==
    ASSUME ~RequeueOnStart \/ (\A d, e \in Daemons : d = e)
    PROVE  Spec => OldestFirst
<1>1. Init => RunnerInv /\ HoldsOldest
  BY RunnerInvInit DEF Init, HoldsOldest
<1>2. RunnerInv /\ [Next]_vars => RunnerInv'
  BY RunnerInvStep
<1>3. RunnerInv /\ HoldsOldest /\ [Next]_vars => HoldsOldest'
  BY HoldsOldestStep
<1>4. RunnerInv /\ HoldsOldest /\ [Next]_vars =>
        [\A i \in Ids : IsUnclaimed(i) /\ rows'[i].status = "pending" =>
            \A j \in Ids : j < i => ~IsUnclaimed(j)]_vars
  BY OldestIsClaimed
<1> QED BY <1>1, <1>2, <1>3, <1>4, PTL DEF Spec, OldestFirst

-----------------------------------------------------------------------------
(* Pending rows nobody works on.                                           *)

Accounted == Cardinality(StalePending) <= faults + Cardinality(TooLong)

(* A count that stays within its bound: what is counted grows by x at      *)
(* most, and only when the bound grows too.                                *)
LEMMA WithinBound ==
    ASSUME NEW S, NEW S2, NEW T, NEW T2, NEW f \in Nat, NEW f2 \in Nat, NEW x, NEW y,
           IsFiniteSet(S), IsFiniteSet(T2), Cardinality(S) <= f + Cardinality(T),
           S2 \subseteq S \cup {x}, T \subseteq T2, f <= f2,
           \/ x \notin S2
           \/ f + 1 <= f2
           \/ y \in T2 /\ y \notin T
    PROVE  Cardinality(S2) <= f2 + Cardinality(T2)
<1>1. /\ IsFiniteSet(T) /\ Cardinality(T) <= Cardinality(T2)
      /\ Cardinality(T) \in Nat /\ Cardinality(T2) \in Nat /\ Cardinality(S) \in Nat
  BY FS_Subset, FS_CardinalityType
<1>2. CASE x \notin S2
  <2>1. Cardinality(S2) <= Cardinality(S) /\ Cardinality(S2) \in Nat
    BY <1>2, FS_Subset, FS_CardinalityType
  <2> QED BY <1>1, <2>1
<1>3. CASE x \in S2
  <2>1. IsFiniteSet(S \cup {x}) /\ Cardinality(S \cup {x}) <= Cardinality(S) + 1
    <3>1. /\ IsFiniteSet(S \cup {x})
          /\ Cardinality(S \cup {x}) = IF x \in S THEN Cardinality(S) ELSE Cardinality(S) + 1
      BY FS_AddElement
    <3> QED BY <1>1, <3>1
  <2>2. Cardinality(S2) <= Cardinality(S \cup {x}) /\ IsFiniteSet(S2)
    <3>1. S2 \in SUBSET (S \cup {x})
      OBVIOUS
    <3> QED BY <2>1, <3>1, FS_Subset
  <2>3. Cardinality(S2) <= Cardinality(S) + 1 /\ Cardinality(S2) \in Nat
    BY <1>1, <2>1, <2>2, FS_CardinalityType
  <2>4. CASE f + 1 <= f2
    BY <1>1, <2>3, <2>4
  <2>5. CASE y \in T2 /\ y \notin T
    <3>1. Cardinality(T \cup {y}) = Cardinality(T) + 1
      BY <1>1, <2>5, FS_AddElement
    <3>2. T \cup {y} \in SUBSET T2
      BY <2>5
    <3>3. Cardinality(T \cup {y}) <= Cardinality(T2)
      BY <3>2, FS_Subset
    <3> QED BY <1>1, <2>3, <3>1, <3>3
  <2> QED BY <1>3, <2>4, <2>5
<1> QED BY <1>2, <1>3

(* There are finitely many of either.                                      *)
LEMMA StaleFinite ==
    ASSUME rows \in Seq(Row), runs \in Seq(Run)
    PROVE  IsFiniteSet(StalePending) /\ IsFiniteSet(TooLong)
<1>1. /\ DOMAIN runs = 1..Len(runs) /\ Len(runs) \in Nat
      /\ Ids = 1..Len(rows) /\ Len(rows) \in Nat
  BY DEF Ids
<1>2. IsFiniteSet(DOMAIN runs) /\ IsFiniteSet(Ids)
  BY <1>1, FS_Interval
<1>3. TooLong \subseteq DOMAIN runs /\ StalePending \subseteq Ids
  BY DEF TooLong, StalePending
<1> QED BY <1>2, <1>3, FS_Subset

(* The step strands row x at most; 0 is no row.                            *)
Strands(x) == StalePending' \subseteq StalePending \cup {x}

(* A step that strands nobody, or somebody at a price, keeps the account.  *)
LEMMA KeepsAccount ==
    ASSUME rows \in Seq(Row), runs \in Seq(Run), rows' \in Seq(Row), runs' \in Seq(Run),
           faults \in Nat, faults' \in Nat, Accounted, NEW x, NEW y, Strands(x),
           TooLong \subseteq TooLong', faults <= faults',
           \/ x = 0
           \/ faults' = faults + 1
           \/ y \in TooLong' /\ y \notin TooLong
    PROVE  Accounted'
<1>1. IsFiniteSet(StalePending) /\ IsFiniteSet(TooLong')
  <2>1. IsFiniteSet(TooLong')
    <3>1. DOMAIN runs' = 1..Len(runs') /\ Len(runs') \in Nat
      OBVIOUS
    <3>2. IsFiniteSet(DOMAIN runs')
      BY <3>1, FS_Interval
    <3>3. TooLong' \subseteq DOMAIN runs'
      BY DEF TooLong
    <3> QED BY <3>2, <3>3, FS_Subset
  <2> QED BY <2>1, StaleFinite
<1>2. 0 \notin StalePending'
  BY DEF StalePending, Ids
<1>3. faults' = faults + 1 => faults + 1 <= faults'
  OBVIOUS
<1>4. \/ x \notin StalePending'
      \/ faults + 1 <= faults'
      \/ y \in TooLong' /\ y \notin TooLong
  BY <1>2, <1>3
<1>5. StalePending' \subseteq StalePending \cup {x} /\ Cardinality(StalePending) <= faults + Cardinality(TooLong)
  BY DEF Strands, Accounted
<1>6. Cardinality(StalePending') <= faults' + Cardinality(TooLong')
  BY <1>1, <1>4, <1>5, WithinBound
<1> QED BY <1>6 DEF Accounted

(* Which row a step strands: one that was pending and loses its owner, or  *)
(* becomes pending without one.                                            *)
LEMMA StrandsLost ==
    ASSUME NEW x,
           \A i \in Ids' : i # x /\ IsPending(i)' => i \in Ids /\ IsPending(i),
           \A r \in DOMAIN runs : IsLive(r) /\ runs[r].job # x =>
              r \in DOMAIN runs' /\ IsLive(r)' /\ runs'[r].job = runs[r].job,
           \A d \in Daemons : pollPc[d] = "get" /\ cand[d] # x =>
              pollPc'[d] = "get" /\ cand'[d] = cand[d]
    PROVE  Strands(x)
<1> SUFFICES ASSUME NEW i \in Ids', IsPending(i)', ~Owned(i)', i # x
             PROVE  i \in StalePending
  BY DEF Strands, StalePending
<1>1. i \in Ids /\ IsPending(i)
  OBVIOUS
<1>2. ASSUME NEW r \in DOMAIN runs, IsLive(r), runs[r].job = i
      PROVE  FALSE
  BY <1>2 DEF Owned
<1>3. ASSUME NEW d \in Daemons, pollPc[d] = "get", cand[d] = i
      PROVE  FALSE
  BY <1>3 DEF Owned
<1> QED BY <1>1, <1>2, <1>3 DEF StalePending, Owned

(* No row becomes pending in a step without a claim.                       *)
NoNewPending == \A i \in Ids' : IsPending(i)' => i \in Ids /\ IsPending(i)

(* The steps of a poll loop.                                               *)
LEMMA PollAccounted ==
    ASSUME RunnerInv, RunnerInv', PayloadMatchesStatus, Accounted, NEW d \in Daemons, PollStep(d)
    PROVE  Accounted'
<1>1. DaemonTypes /\ rows \in Seq(Row) /\ KnownIds
  BY DEF RunnerInv, TypeOK, StoreTypeOK, DaemonTypes
<1>2. rows' \in Seq(Row) /\ runs' \in Seq(Run) /\ faults' \in Nat /\ faults \in Nat /\ runs \in Seq(Run)
  BY RunnerAssumption DEF RunnerInv, TypeOK, StoreTypeOK
<1>3. ASSUME UNCHANGED <<runs, faults>>, Strands(0)
      PROVE  Accounted'
  <2>1. TooLong \subseteq TooLong'
    BY <1>3 DEF TooLong
  <2> QED BY <1>1, <1>2, <1>3, <2>1, KeepsAccount
<1>4. CASE Acquire(d) \/ SelectOldest(d) \/ UpdateLoses(d) \/ Wake(d) \/ Break(d) \/ Drained(d)
  <2>1. UNCHANGED <<rows, runs, faults>>
    BY <1>4 DEF Acquire, SelectOldest, UpdateLoses, Wake, Break, Drained
  <2>2. \A e \in Daemons : pollPc[e] = "get" => pollPc'[e] = "get" /\ cand'[e] = cand[e]
    BY <1>1, <1>4 DEF Acquire, SelectOldest, UpdateLoses, Wake, Break, Drained, Rest, ClearClaim,
                      DaemonTypes
  <2>3. Strands(0)
    BY <2>1, <2>2, StrandsLost DEF Ids, IsPending, IsLive
  <2> QED BY <1>3, <2>1, <2>3
<1>5. CASE UpdateWins(d)
  <2>1. /\ UNCHANGED <<runs, faults, cand>>
        /\ pollPc' = [pollPc EXCEPT ![d] = "get"]
        /\ rows' = TryClaim(cand[d])
        /\ cand[d] \in Ids
    BY <1>1, <1>5 DEF UpdateWins, KnownIds
  <2>2. pollPc'[d] = "get" /\ \A e \in Daemons : pollPc[e] = "get" => pollPc'[e] = "get"
    BY <1>1, <2>1 DEF DaemonTypes
  <2>3. DOMAIN rows' = Ids /\ \A k \in Ids : k # cand[d] => rows'[k] = rows[k]
    BY <1>1, <2>1, TryClaimRows
  <2>4. Strands(cand[d])
    BY <2>1, <2>2, <2>3, StrandsLost DEF Ids, IsPending, IsLive
  <2>5. cand[d] \notin StalePending'
    BY <2>1, <2>2 DEF StalePending, Owned
  <2>6. Strands(0)
    BY <2>4, <2>5 DEF Strands
  <2> QED BY <1>3, <2>1, <2>6
<1>6. CASE GetAndSpawn(d)
  <2> DEFINE n == Len(runs) + 1
             x == [daemon |-> d, job |-> cand[d], pc |-> "create", outcome |-> "none"]
  <2>1. /\ UNCHANGED <<rows, faults>> /\ runs' = Append(runs, x)
        /\ pollPc' = [pollPc EXCEPT ![d] = "acquire"]
        /\ cand' = [cand EXCEPT ![d] = 0]
    BY <1>6 DEF GetAndSpawn, ClearClaim
  <2>2. x.job = cand[d] /\ x.pc = "create" /\ x.pc \in LivePcs
    BY DEF LivePcs
  <2> HIDE DEF x
  <2>3. /\ DOMAIN runs' = DOMAIN runs \cup {n}
        /\ runs'[n] = x
        /\ \A k \in DOMAIN runs : runs'[k] = runs[k]
    BY <1>2, <2>1
  <2> HIDE DEF n
  <2>4. \A e \in Daemons : pollPc[e] = "get" /\ cand[e] # cand[d] =>
           pollPc'[e] = "get" /\ cand'[e] = cand[e]
    BY <1>1, <2>1 DEF DaemonTypes
  <2>5. Strands(cand[d])
    BY <2>1, <2>3, <2>4, StrandsLost DEF Ids, IsPending, IsLive
  <2>6. PICK r \in DOMAIN runs' : runs'[r].pc \in LivePcs /\ runs'[r].job = cand[d]
    BY <2>2, <2>3
  <2>7. cand[d] \notin StalePending'
    <3> SUFFICES ASSUME NEW i \in StalePending', i = cand[d]
                 PROVE  FALSE
      OBVIOUS
    <3>1. IsLive(r)' /\ runs'[r].job = i
      BY <2>6 DEF IsLive
    <3>2. Owned(i)'
      BY <2>6, <3>1 DEF Owned
    <3> QED BY <3>2 DEF StalePending
  <2>8. Strands(0)
    BY <2>5, <2>7 DEF Strands
  <2>9. TooLong \subseteq TooLong'
    BY <2>3 DEF TooLong
  <2>10. faults <= faults'
    BY <1>2, <2>1
  <2> QED BY <1>2, <1>1, <2>8, <2>9, <2>10, KeepsAccount
<1>7. CASE GetFindsNothing(d)
  <2>1. /\ UNCHANGED <<rows, runs, faults>> /\ pollPc[d] = "get" /\ ~IsJob(cand[d])
        /\ pollPc' = [pollPc EXCEPT ![d] = "sleep"]
        /\ cand' = [cand EXCEPT ![d] = 0]
    BY <1>7 DEF GetFindsNothing, Rest, ClearClaim
  <2>2. \A e \in Daemons : pollPc[e] = "get" /\ cand[e] # cand[d] =>
           pollPc'[e] = "get" /\ cand'[e] = cand[e]
    BY <1>1, <2>1 DEF DaemonTypes
  <2>3. Strands(cand[d])
    BY <2>1, <2>2, StrandsLost DEF Ids, IsPending, IsLive
  <2>4. cand[d] \in Ids /\ rows[cand[d]].kind # "job"
    BY <1>1, <2>1 DEF KnownIds, IsJob
  <2>5. rows[cand[d]].status = "null"
    BY <2>4 DEF PayloadMatchesStatus
  <2>6. cand[d] \notin StalePending'
    BY <2>1, <2>5 DEF StalePending, IsPending
  <2>7. Strands(0)
    BY <2>3, <2>6 DEF Strands
  <2> QED BY <1>3, <2>1, <2>7
<1>8. CASE ClaimError(d)
  <2>1. /\ UNCHANGED runs /\ faults' = faults + 1
        /\ UNCHANGED rows \/ (pollPc[d] = "update" /\ rows' = TryClaim(cand[d]))
        /\ pollPc' = [pollPc EXCEPT ![d] = "sleep"]
        /\ cand' = [cand EXCEPT ![d] = 0]
    BY <1>8 DEF ClaimError, Fault, Rest, ClearClaim
  <2>2. \A e \in Daemons : pollPc[e] = "get" /\ cand[e] # cand[d] =>
           pollPc'[e] = "get" /\ cand'[e] = cand[e]
    BY <1>1, <2>1 DEF DaemonTypes
  <2>3. Ids' = Ids /\ \A k \in Ids : k # cand[d] => rows'[k] = rows[k]
    <3>1. CASE UNCHANGED rows
      BY <3>1 DEF Ids
    <3>2. CASE pollPc[d] = "update" /\ rows' = TryClaim(cand[d])
      <4>1. cand[d] \in Ids
        BY <1>1, <3>2 DEF KnownIds
      <4>2. DOMAIN rows' = Ids /\ \A k \in Ids : k # cand[d] => rows'[k] = rows[k]
        BY <1>1, <3>2, <4>1, TryClaimRows
      <4> QED BY <4>2 DEF Ids
    <3> QED BY <2>1, <3>1, <3>2
  <2>4. Strands(cand[d])
    BY <2>1, <2>2, <2>3, StrandsLost DEF IsPending, IsLive
  <2>5. TooLong \subseteq TooLong' /\ faults <= faults'
    BY <1>2, <2>1 DEF TooLong
  <2> QED BY <1>1, <1>2, <2>1, <2>4, <2>5, KeepsAccount
<1> QED BY <1>4, <1>5, <1>6, <1>7, <1>8 DEF PollStep

(* The steps of a job task.                                                *)
LEMMA TaskAccounted ==
    ASSUME RunnerInv, RunnerInv', Accounted, NEW r \in DOMAIN runs, TaskStep(r), [Next]_vars
    PROVE  Accounted'
<1>1. DaemonTypes /\ rows \in Seq(Row) /\ runs[r] \in Run
  BY DEF RunnerInv, TypeOK, StoreTypeOK, DaemonTypes
<1>2. rows' \in Seq(Row) /\ runs' \in Seq(Run) /\ faults' \in Nat /\ faults \in Nat /\ runs \in Seq(Run)
  BY RunnerAssumption DEF RunnerInv, TypeOK, StoreTypeOK
<1>3. runs[r].outcome \in Outcomes \cup {"none"}
  BY <1>1 DEF Run
<1>4. PICK from, to \in RunPcs, o \in Outcomes \cup {"none"} :
         RunStep(r, from, to, o) /\ from # "ended"
  BY <1>3, TaskStep(r), RunnerAssumption
     DEF TaskStep, CreateWorkspace, CreateFails, RunReturns, RunAborted, RemoveWorkspace,
         RecordOutcome, RecordFails, Panic, OrphanExits, Outcomes, RunPcs, IsLive, LivePcs
<1>5. /\ DOMAIN runs' = DOMAIN runs
      /\ runs[r].pc # "ended"
      /\ runs'[r].job = runs[r].job
      /\ \A k \in DOMAIN runs : k # r => runs'[k] = runs[k]
  <2>1. runs[r].pc = from
    BY <1>4 DEF RunStep
  <2> QED BY <1>2, <1>4, <2>1, RunStepRuns
<1>6. TooLong \subseteq TooLong'
  BY <1>5 DEF TooLong
<1>7. UNCHANGED <<pollPc, cand>> /\ faults <= faults'
  BY <1>2, TaskStep(r)
     DEF TaskStep, CreateWorkspace, CreateFails, RunReturns, RunAborted, RemoveWorkspace,
         RecordOutcome, RecordFails, Panic, OrphanExits, ReleasePermit, Fault, daemonVars
<1>8. NoNewPending
  <2>1. NoClaim
    <3>1. ASSUME NEW d \in Daemons, Claims(d)
          PROVE  UNCHANGED rows
      BY <1>1, <1>7, <3>1 DEF Claims, UpdateWins, ClaimError, Rest, DaemonTypes
    <3> QED BY <3>1, ClaimOrNot DEF NoClaim
  <2> QED BY <1>1, <2>1, NoClaimNoPending DEF NoNewPending
<1>9. \A k \in DOMAIN runs : IsLive(k) /\ k # r => IsLive(k)' /\ runs'[k].job = runs[k].job
  BY <1>5 DEF IsLive
<1>10. Strands(runs[r].job)
  BY <1>5, <1>7, <1>8, <1>9, StrandsLost DEF NoNewPending
<1>11. CASE faults' = faults + 1
  BY <1>1, <1>2, <1>6, <1>7, <1>10, <1>11, KeepsAccount
<1>12. ASSUME IsLive(r) => IsLive(r)'
       PROVE  Accounted'
  <2>1. Strands(0)
    BY <1>5, <1>7, <1>8, <1>9, <1>12, StrandsLost DEF NoNewPending
  <2> QED BY <1>1, <1>2, <1>6, <1>7, <2>1, KeepsAccount
<1>13. CASE RecordOutcome(r)
  <2>1. /\ RunStep(r, "finish", "ended", runs[r].outcome)
        /\ rows' = Finish(runs[r].job, runs[r].outcome)
        /\ runs[r].job \in Ids
    BY <1>13 DEF RecordOutcome, RunnerInv, KnownIds
  <2>2. runs'[r].pc = "ended" /\ runs'[r].outcome = runs[r].outcome
    BY <1>2, <1>3, <2>1, RunStepRuns, RunStepOutcome DEF RunPcs
  <2>3. CASE runs[r].outcome = "oversize"
    <3>1. r \in TooLong' /\ r \notin TooLong
      BY <1>5, <2>2, <2>3 DEF TooLong
    <3> QED BY <1>1, <1>2, <1>6, <1>7, <1>10, <3>1, KeepsAccount
  <2>4. CASE runs[r].outcome # "oversize"
    <3>1. ~(rows'[runs[r].job].status = "pending")
      <4>1. CASE ~IsPending(runs[r].job)
        BY <2>1, <4>1 DEF Finish, IsPending
      <4>2. CASE rows' = FinishDone(runs[r].job)
        <5>1. AnswerAdded(rows', runs[r].job, Len(rows) + 1)
          BY <1>1, <2>1, <4>2, FinishDoneRows
        <5> QED BY <5>1 DEF AnswerAdded
      <4>3. CASE rows' = FinishFailed(runs[r].job, runs[r].outcome = "partial")
        <5>1. (runs[r].outcome = "partial") \in BOOLEAN
          OBVIOUS
        <5>2. MarkedFailed(rows', runs[r].job)
          BY <1>1, <2>1, <4>3, <5>1, FinishFailedRows
        <5> QED BY <5>2 DEF MarkedFailed
      <4> QED BY <2>1, <2>4, <4>1, <4>2, <4>3 DEF Finish
    <3>2. runs[r].job \notin StalePending'
      BY <3>1 DEF StalePending, IsPending
    <3>3. Strands(0)
      BY <1>10, <3>2 DEF Strands
    <3> QED BY <1>1, <1>2, <1>6, <1>7, <3>3, KeepsAccount
  <2> QED BY <2>3, <2>4
<1>14. CASE CreateWorkspace(r) \/ (\E p \in Results : RunReturns(r, p)) \/ RunAborted(r) \/ RemoveWorkspace(r)
            \/ OrphanExits(r)
  <2>1. PICK a, b \in RunPcs, p \in Outcomes \cup {"none"} :
           RunStep(r, a, b, p) /\ (a \in LivePcs => b \in LivePcs)
    BY <1>3, <1>14, RunnerAssumption
       DEF CreateWorkspace, RunReturns, RunAborted, RemoveWorkspace, OrphanExits, Outcomes,
           RunPcs, LivePcs
  <2>2. runs'[r].pc = b
    BY <1>2, <2>1, RunStepRuns
  <2>3. runs[r].pc = a
    BY <2>1 DEF RunStep
  <2>4. IsLive(r) => IsLive(r)'
    BY <2>1, <2>2, <2>3 DEF IsLive
  <2> QED BY <1>12, <2>4
<1>15. CASE CreateFails(r) \/ RecordFails(r) \/ Panic(r)
  BY <1>11, <1>15 DEF CreateFails, RecordFails, Panic, Fault
<1> QED BY TaskStep(r), <1>13, <1>14, <1>15 DEF TaskStep

LEMMA AccountStep ==
    ASSUME RequeueOnStart, RunnerInv, PayloadMatchesStatus, PendingAccountedFor, [Next]_vars
    PROVE  PendingAccountedFor'
<1> DEFINE Up(d) == mainPc[d] \notin {"off", "requeue"}
<1> SUFFICES ASSUME \A d \in Daemons : mainPc'[d] \notin {"off", "requeue"}
             PROVE  Accounted'
  BY DEF PendingAccountedFor, Accounted
<1>1. RunnerInv' /\ DaemonTypes /\ rows \in Seq(Row)
  BY RunnerInvStep DEF RunnerInv, TypeOK, StoreTypeOK, DaemonTypes
<1>2. rows' \in Seq(Row) /\ runs' \in Seq(Run) /\ faults' \in Nat /\ faults \in Nat /\ runs \in Seq(Run)
  BY <1>1, RunnerAssumption DEF RunnerInv, TypeOK, StoreTypeOK
<1>3. ASSUME \A d \in Daemons : Up(d)
      PROVE  Accounted
  BY <1>3 DEF PendingAccountedFor, Accounted
<1>4. ASSUME Users \/ UNCHANGED vars \/ \E d \in Daemons : HttpStep(d)
      PROVE  Accounted'
  <2>1. UNCHANGED <<mainPc, pollPc, cand, runs, faults>>
    BY <1>4, HttpAlone DEF Users, vars, daemonVars
  <2>2. NoClaim
    BY <1>4, HttpAlone DEF Users, vars, NoClaim
  <2>3. NoNewPending
    BY <1>1, <2>2, NoClaimNoPending DEF NoNewPending
  <2>4. Strands(0)
    BY <2>1, <2>3, StrandsLost DEF NoNewPending, IsLive
  <2>5. Accounted
    BY <1>3, <2>1
  <2>6. TooLong \subseteq TooLong'
    BY <2>1 DEF TooLong
  <2> QED BY <1>1, <1>2, <2>1, <2>4, <2>5, <2>6, KeepsAccount
<1>5. ASSUME NEW d \in Daemons, MainStep(d)
      PROVE  Accounted'
  <2>1. CASE StartupRequeue(d)
    <3>1. rows' = RequeuePending
      BY <2>1 DEF StartupRequeue
    <3>2. /\ DOMAIN rows' = Ids
          /\ \A k \in Ids : ~IsPending(k) => rows'[k] = rows[k]
          /\ \A k \in Ids : IsPending(k) => rows'[k].status = "null"
      BY <1>1, <3>1, RequeueRows
    <3>3. \A k \in Ids : rows'[k].status # "pending"
      BY <3>2 DEF IsPending
    <3>4. StalePending' = {}
      BY <3>2, <3>3 DEF StalePending, Ids, IsPending
    <3>5. Cardinality(StalePending') = 0
      BY <3>4, FS_EmptySet
    <3>6. Cardinality(TooLong') \in Nat
      <4>1. DOMAIN runs' = 1..Len(runs') /\ Len(runs') \in Nat
        BY <1>2
      <4>2. IsFiniteSet(DOMAIN runs') /\ TooLong' \in SUBSET DOMAIN runs'
        BY <4>1, FS_Interval DEF TooLong
      <4> QED BY <4>2, FS_Subset, FS_CardinalityType
    <3> QED BY <1>2, <3>5, <3>6 DEF Accounted
  <2>2. CASE Start(d) \/ StartupFails(d) \/ BindFails(d) \/ Crash(d) \/ Exit(d)
    <3>1. mainPc'[d] \in {"off", "requeue"}
      BY <1>1, <2>2 DEF Start, StartupFails, BindFails, Crash, Exit, ClearDaemon, DaemonTypes
    <3> QED BY <3>1
  <2>3. CASE StartupSweep(d) \/ Bind(d) \/ Signal(d)
    <3>1. /\ UNCHANGED <<rows, cand, runs>>
          /\ faults <= faults'
          /\ mainPc[d] \in {"sweep", "bind", "up"}
          /\ \E pc \in {"bind", "up", "join"} : mainPc' = [mainPc EXCEPT ![d] = pc]
      BY <1>2, <2>3 DEF StartupSweep, Bind, Signal, Fault
    <3>2. \A e \in Daemons : Up(e)
      BY <1>1, <3>1 DEF DaemonTypes
    <3>3. \A e \in Daemons : pollPc[e] = "get" => pollPc'[e] = "get"
      <4>1. CASE Bind(d)
        <5>1. pollPc[d] = "off" /\ pollPc' = [pollPc EXCEPT ![d] = "acquire"]
          BY <4>1 DEF Bind, RunnerInv, WorkerMatchesMain
        <5> QED BY <1>1, <5>1 DEF DaemonTypes
      <4>2. CASE StartupSweep(d) \/ Signal(d)
        BY <4>2 DEF StartupSweep, Signal
      <4> QED BY <2>3, <4>1, <4>2
    <3>4. Strands(0)
      BY <3>1, <3>3, StrandsLost DEF Ids, IsPending, IsLive
    <3>5. TooLong \subseteq TooLong'
      BY <3>1 DEF TooLong
    <3>6. Accounted
      BY <1>3, <3>2
    <3> QED BY <1>1, <1>2, <3>1, <3>4, <3>5, <3>6, KeepsAccount
  <2> QED BY <1>5, <2>1, <2>2, <2>3 DEF MainStep
<1>6. ASSUME NEW d \in Daemons, PollStep(d)
      PROVE  Accounted'
  <2>1. UNCHANGED mainPc
    BY <1>6 DEF PollStep, Acquire, SelectOldest, UpdateWins, UpdateLoses, GetAndSpawn,
                GetFindsNothing, ClaimError, Wake, Break, Drained
  <2>2. Accounted
    BY <1>3, <2>1
  <2> QED BY <1>1, <1>6, <2>2, PollAccounted
<1>7. ASSUME NEW r \in DOMAIN runs, TaskStep(r)
      PROVE  Accounted'
  <2>1. UNCHANGED mainPc
    BY <1>7 DEF TaskStep, CreateWorkspace, CreateFails, RunReturns, RunAborted, RemoveWorkspace,
                RecordOutcome, RecordFails, Panic, OrphanExits, ReleasePermit, daemonVars
  <2>2. Accounted
    BY <1>3, <2>1
  <2> QED BY <1>1, <1>7, <2>2, TaskAccounted
<1> QED BY <1>4, <1>5, <1>6, <1>7 DEF Next

(* Where daemons requeue on start, however many there are, and all are     *)
(* past it, each pending row that no task works on is the work of a fault  *)
(* of its own or of an answer the table could not hold: claims, lost       *)
(* claims, deletions, shutdowns, crashes and restarts strand none.         *)
THEOREM NothingStranded ==
    ASSUME RequeueOnStart
    PROVE  Spec => []PendingAccountedFor
<1>1. Init => RunnerInv /\ StoreInv /\ PendingAccountedFor
  <2> SUFFICES ASSUME Init
               PROVE  RunnerInv /\ StoreInv /\ PendingAccountedFor
    OBVIOUS
  <2>1. RunnerInv /\ StoreInv
    BY RunnerInvInit, StoreInvInit DEF Init
  <2>2. StalePending = {} /\ TooLong = {} /\ faults = 0
    BY DEF Init, StoreInit, StalePending, TooLong, Ids
  <2> QED BY <2>1, <2>2, FS_EmptySet DEF PendingAccountedFor
<1>2. RunnerInv /\ StoreInv /\ [Next]_vars => RunnerInv' /\ StoreInv'
  BY RunnerInvStep, RunnerStepIsStoreStep, StoreInvStep DEF RunnerInv
<1>3. RunnerInv /\ StoreInv /\ PendingAccountedFor /\ [Next]_vars => PendingAccountedFor'
  BY AccountStep DEF StoreInv
<1> QED BY <1>1, <1>2, <1>3, PTL DEF Spec

-----------------------------------------------------------------------------
(* What the table promises, under the daemons.                             *)

(* Since the daemons implement ChatStore, the table they share keeps its   *)
(* promises whatever they do: every job is answered at most once and where *)
(* it was asked, its payload tells what became of it, and no outcome is    *)
(* ever revised.                                                           *)
THEOREM TableUnderDaemons == Spec => []AnsweredOnce /\ []PayloadMatchesStatus /\ OutcomeIsFinal
<1>1. Spec => StoreSpec
  BY RunnerImplementsStore DEF ImplementsStore
<1>2. StoreSpec => [](StoreTypeOK /\ AnsweredOnce /\ PayloadMatchesStatus)
  BY StoreIsSafe
<1>3. StoreSpec => OutcomeIsFinal
  BY OutcomesStay
<1> QED BY <1>1, <1>2, <1>3, PTL

(* And a job lives the life the chat application relies on.                *)
THEOREM RunnerImplementsLifecycle == Spec => ImplementsLifecycle
BY RunnerImplementsStore, StoreImplementsLifecycle DEF ImplementsStore
=============================================================================
