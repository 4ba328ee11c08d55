-------------------------------- MODULE Runner --------------------------------
(***************************************************************************)
(* The job runner daemon on top of the table: start-up and shutdown        *)
(* (src/src/main.rs), the polling loop and its concurrency slots           *)
(* (src/src/worker.rs), the job tasks with their workspaces                *)
(* (src/src/workspace.rs) and claude processes (src/src/claude.rs).        *)
(*                                                                         *)
(* Several daemons may share one table.  A daemon may crash at any step,   *)
(* a database call may fail before or after it took effect, a workspace    *)
(* may be impossible to create or to remove, and a job task may panic.     *)
(*                                                                         *)
(* One step is the code between two awaits whose interleaving with another *)
(* task can be observed: each SQL statement of claim_next is a step of its *)
(* own, while a permit and what is done with it without awaiting go        *)
(* together.                                                               *)
(***************************************************************************)
EXTENDS ChatStore

CONSTANTS
    Daemons,             \* runner processes that share the table
    MaxConcurrentJobs,   \* MAX_CONCURRENT_JOBS
    ClaimAttempts,       \* CLAIM_ATTEMPTS
    RequeueOnStart,      \* REQUEUE_PENDING_ON_START
    SharedRoot,          \* do the daemons have the same WORKSPACE_ROOT?
    SharedAddr,          \* do they have the same HTTP_ADDR?
    Clients,             \* are there clients of the HTTP API?
    Results,             \* outcomes the claude process can lead to
    MaxStarts,           \* bound: how often daemons are started, in total
    MaxFaults            \* bound: failing calls and panics, in total

ASSUME RunnerAssumption ==
    /\ MaxConcurrentJobs \in Nat \ {0}
    /\ ClaimAttempts \in Nat \ {0}
    /\ RequeueOnStart \in BOOLEAN
    /\ SharedRoot \in BOOLEAN
    /\ SharedAddr \in BOOLEAN
    /\ Clients \in BOOLEAN
    /\ Results \subseteq Outcomes
    /\ MaxStarts \in Nat
    /\ MaxFaults \in Nat

VARIABLES
    mainPc,    \* daemon -> where main.rs run() is
    pollPc,    \* daemon -> where Worker::run is
    cand,      \* daemon -> the id claim_next is working on
    attempts,  \* daemon -> claims lost in this claim_next
    permits,   \* daemon -> free permits of the semaphore
    shutdown,  \* daemon -> is the cancellation token cancelled?
    http,      \* daemon -> where http::serve is
    runs,      \* the job tasks ever spawned, oldest first
    dirs,      \* the runs whose workspace directory exists
    starts,    \* how often a daemon was started
    faults     \* how many faults have happened

daemonVars == <<mainPc, pollPc, cand, attempts, permits, shutdown, http>>
vars == <<rows, chats, daemonVars, runs, dirs, starts, faults>>

MainPcs == {"off", "requeue", "sweep", "bind", "up", "join"}
PollPcs == {"off", "acquire", "select", "update", "get", "sleep", "drain",
            "stopped"}

(* Accepting connections, without and with one that is in use; waiting for *)
(* that one when the token has been cancelled; returned.                   *)
HttpPcs == {"off", "idle", "busy", "draining", "closed"}

(* A run is one job task.  In "run" its claude process is alive; an        *)
(* "orphan" is a claude process that outlived the daemon it belonged to.   *)
RunPcs == {"create", "run", "remove", "finish", "ended", "orphan"}

Run == [daemon : Daemons, job : Nat, pc : RunPcs,
        outcome : Outcomes \cup {"none"}]

LivePcs == {"create", "run", "remove", "finish"}

IsLive(r) == runs[r].pc \in LivePcs

LiveRuns(d) == {r \in DOMAIN runs : runs[r].daemon = d /\ IsLive(r)}

(* The poll loop holds a permit for the job it is looking for.             *)
HoldsPermit(d) == pollPc[d] \in {"select", "update", "get"}

Held(d) == IF HoldsPermit(d) THEN 1 ELSE 0

Init ==
    /\ StoreInit
    /\ mainPc = [d \in Daemons |-> "off"]
    /\ pollPc = [d \in Daemons |-> "off"]
    /\ cand = [d \in Daemons |-> 0]
    /\ attempts = [d \in Daemons |-> 0]
    /\ permits = [d \in Daemons |-> 0]
    /\ shutdown = [d \in Daemons |-> FALSE]
    /\ http = [d \in Daemons |-> "off"]
    /\ runs = << >>
    /\ dirs = {}
    /\ starts = 0
    /\ faults = 0

Fault == faults < MaxFaults /\ faults' = faults + 1

(* The locals of claim_next go out of scope when it returns.               *)
ClearClaim(d) ==
    /\ cand' = [cand EXCEPT ![d] = 0]
    /\ attempts' = [attempts EXCEPT ![d] = 0]

(* And those of run() with the process.                                    *)
ClearDaemon(d) ==
    /\ mainPc' = [mainPc EXCEPT ![d] = "off"]
    /\ pollPc' = [pollPc EXCEPT ![d] = "off"]
    /\ permits' = [permits EXCEPT ![d] = 0]
    /\ shutdown' = [shutdown EXCEPT ![d] = FALSE]
    /\ http' = [http EXCEPT ![d] = "off"]
    /\ ClearClaim(d)

-----------------------------------------------------------------------------
(* Start-up: main.rs run().                                                *)

Start(d) ==
    /\ mainPc[d] = "off"
    /\ starts < MaxStarts
    /\ starts' = starts + 1
    /\ mainPc' = [mainPc EXCEPT ![d] = "requeue"]
    /\ UNCHANGED <<rows, chats, pollPc, cand, attempts, permits, shutdown, http,
                   runs, dirs, faults>>

(* Mutant: the meaning of REQUEUE_PENDING_ON_START turned round.           *)
StartupRequeueInverted(d) ==
    /\ mainPc[d] = "requeue"
    /\ rows' = IF RequeueOnStart THEN rows ELSE RequeuePending
    /\ mainPc' = [mainPc EXCEPT ![d] = "sweep"]
    /\ UNCHANGED <<chats, pollPc, cand, attempts, permits, shutdown, http, runs,
                   dirs, starts, faults>>

StartupRequeue(d) ==
    /\ mainPc[d] = "requeue"
    /\ rows' = IF RequeueOnStart THEN RequeuePending ELSE rows
    /\ mainPc' = [mainPc EXCEPT ![d] = "sweep"]
    /\ UNCHANGED <<chats, pollPc, cand, attempts, permits, shutdown, http, runs,
                   dirs, starts, faults>>

(* The runs whose workspaces are under the root of daemon d.               *)
RootOf(d) == {r \in DOMAIN runs : SharedRoot \/ runs[r].daemon = d}

(* The workspaces there are when those under d's root, but for kept, have  *)
(* been deleted.                                                           *)
Swept(d, kept) == (dirs \ RootOf(d)) \cup kept

(* Sweep the workspaces, which only warns about one it cannot delete.      *)
StartupSweep(d) ==
    /\ mainPc[d] = "sweep"
    /\ \E kept \in SUBSET (dirs \cap RootOf(d)) :
          /\ dirs' = Swept(d, kept)
          /\ IF kept = {} THEN UNCHANGED faults ELSE Fault
    /\ mainPc' = [mainPc EXCEPT ![d] = "bind"]
    /\ UNCHANGED <<rows, chats, pollPc, cand, attempts, permits, shutdown, http, runs, starts>>

(* The database cannot be reached, the requeue fails or its acknowledgement *)
(* is lost, or the listing of the root breaks off: run() returns the error. *)
StartupFails(d) ==
    /\ Fault
    /\ \/ /\ mainPc[d] = "requeue"
          /\ \/ UNCHANGED rows
             \/ RequeueOnStart /\ rows' = RequeuePending
          /\ UNCHANGED dirs
       \/ /\ mainPc[d] = "sweep"
          /\ \E kept \in SUBSET (dirs \cap RootOf(d)) : dirs' = Swept(d, kept)
          /\ UNCHANGED rows
    /\ mainPc' = [mainPc EXCEPT ![d] = "off"]
    /\ UNCHANGED <<chats, pollPc, cand, attempts, permits, shutdown, http, runs, starts>>

(* serve has the listener until it returns.                                *)
AddrTaken(d) ==
    SharedAddr /\ \E e \in Daemons \ {d} : http[e] \in {"idle", "busy", "draining"}

(* Spawn the worker, bind, and spawn the HTTP task.  There is one thread   *)
(* and binding does not wait, so the worker gets to run only now.          *)
Bind(d) ==
    /\ mainPc[d] = "bind"
    /\ ~AddrTaken(d)
    /\ mainPc' = [mainPc EXCEPT ![d] = "up"]
    /\ pollPc' = [pollPc EXCEPT ![d] = "acquire"]
    /\ permits' = [permits EXCEPT ![d] = MaxConcurrentJobs]
    /\ http' = [http EXCEPT ![d] = "idle"]
    /\ UNCHANGED <<rows, chats, cand, attempts, shutdown, runs, dirs, starts, faults>>

(* run() returns the error, and the worker task is dropped unstarted.      *)
BindFails(d) ==
    /\ mainPc[d] = "bind"
    /\ \/ AddrTaken(d) /\ UNCHANGED faults
       \/ Fault
    /\ ClearDaemon(d)
    /\ UNCHANGED <<rows, chats, runs, dirs, starts>>

(* SIGKILL, power, or SIGTERM before wait_for_signal has installed its     *)
(* handler: the tasks are gone with the process, claude processes are left *)
(* behind, and nothing is cleaned up.                                      *)
Crash(d) ==
    /\ mainPc[d] # "off"
    /\ ClearDaemon(d)
    /\ runs' = [r \in DOMAIN runs |->
                  IF r \notin LiveRuns(d) THEN runs[r]
                  ELSE [runs[r] EXCEPT !.pc =
                           IF runs[r].pc = "run" THEN "orphan" ELSE "ended"]]
    /\ UNCHANGED <<rows, chats, dirs, starts, faults>>

-----------------------------------------------------------------------------
(* Shutdown.                                                               *)

(* Mutant: the signal does not cancel the token.                           *)
SignalWithoutCancel(d) ==
    /\ mainPc[d] = "up"
    /\ mainPc' = [mainPc EXCEPT ![d] = "join"]
    /\ UNCHANGED <<rows, chats, pollPc, cand, attempts, permits, shutdown, http, runs, dirs,
                   starts, faults>>

Signal(d) ==
    /\ mainPc[d] = "up"
    /\ mainPc' = [mainPc EXCEPT ![d] = "join"]
    /\ shutdown' = [shutdown EXCEPT ![d] = TRUE]
    /\ UNCHANGED <<rows, chats, pollPc, cand, attempts, permits, http, runs, dirs,
                   starts, faults>>

(* The HTTP task of d, or what it serves, moves on.                        *)
HttpMoves(d, to) ==
    /\ http' = [http EXCEPT ![d] = to]
    /\ UNCHANGED <<rows, chats, mainPc, pollPc, cand, attempts, permits, shutdown, runs,
                   dirs, starts, faults>>

(* The select of serve's loop sees the cancelled token; a connection that  *)
(* is in use is waited for, without a time limit.                          *)
HttpBreak(d) ==
    /\ shutdown[d]
    /\ http[d] \in {"idle", "busy"}
    /\ HttpMoves(d, IF http[d] = "busy" THEN "draining" ELSE "closed")

(* Both the worker's task and the HTTP task have been joined.              *)
Exit(d) ==
    /\ mainPc[d] = "join"
    /\ pollPc[d] = "stopped"
    /\ http[d] = "closed"
    /\ ClearDaemon(d)
    /\ UNCHANGED <<rows, chats, runs, dirs, starts, faults>>

-----------------------------------------------------------------------------
(* Clients of the HTTP API, as far as they keep a connection in use.       *)

ClientComes(d) == Clients /\ http[d] = "idle" /\ HttpMoves(d, "busy")

(* The last of them has its response, or gives up.                         *)
ClientLeaves(d) ==
    \/ http[d] = "busy" /\ HttpMoves(d, "idle")
    \/ http[d] = "draining" /\ HttpMoves(d, "closed")

-----------------------------------------------------------------------------
(* The polling loop: Worker::run with claim_next inlined.                  *)

(* The select between the token and the semaphore takes either when both   *)
(* are ready.                                                              *)
Acquire(d) ==
    /\ pollPc[d] = "acquire"
    /\ permits[d] > 0
    /\ permits' = [permits EXCEPT ![d] = @ - 1]
    /\ pollPc' = [pollPc EXCEPT ![d] = "select"]
    /\ UNCHANGED <<rows, chats, mainPc, cand, attempts, shutdown, http, runs, dirs, starts,
                   faults>>

(* Mutant: the permit is not dropped before the sleep.                     *)
RestWithPermit(d) ==
    /\ pollPc' = [pollPc EXCEPT ![d] = "sleep"]
    /\ ClearClaim(d)
    /\ UNCHANGED permits

(* claim_next came back without a job: drop the permit and sleep.          *)
Rest(d) ==
    /\ permits' = [permits EXCEPT ![d] = @ + 1]
    /\ pollPc' = [pollPc EXCEPT ![d] = "sleep"]
    /\ ClearClaim(d)

SelectOldest(d) ==
    /\ pollPc[d] = "select"
    /\ IF Unclaimed = {}
       THEN Rest(d)
       ELSE /\ cand' = [cand EXCEPT ![d] = OldestUnclaimed]
            /\ pollPc' = [pollPc EXCEPT ![d] = "update"]
            /\ UNCHANGED <<permits, attempts>>
    /\ UNCHANGED <<rows, chats, mainPc, shutdown, http, runs, dirs, starts,
                   faults>>

(* Mutant: an UPDATE without "AND status IS NULL".                         *)
UpdateBlindly(d) ==
    /\ pollPc[d] = "update"
    /\ rows' = TryClaim(cand[d])
    /\ pollPc' = [pollPc EXCEPT ![d] = "get"]
    /\ UNCHANGED <<chats, mainPc, cand, attempts, permits, shutdown, http, runs,
                   dirs, starts, faults>>

UpdateWins(d) ==
    /\ pollPc[d] = "update"
    /\ IsUnclaimed(cand[d])
    /\ rows' = TryClaim(cand[d])
    /\ pollPc' = [pollPc EXCEPT ![d] = "get"]
    /\ UNCHANGED <<chats, mainPc, cand, attempts, permits, shutdown, http, runs,
                   dirs, starts, faults>>

(* Another worker got there first, or the row is gone.                     *)
UpdateLoses(d) ==
    /\ pollPc[d] = "update"
    /\ ~IsUnclaimed(cand[d])
    /\ IF attempts[d] + 1 < ClaimAttempts
       THEN /\ attempts' = [attempts EXCEPT ![d] = @ + 1]
            /\ cand' = [cand EXCEPT ![d] = 0]
            /\ pollPc' = [pollPc EXCEPT ![d] = "select"]
            /\ UNCHANGED permits
       ELSE Rest(d)
    /\ UNCHANGED <<rows, chats, mainPc, shutdown, http, runs, dirs, starts,
                   faults>>

(* The claimed row is loaded and its task spawned; the task takes the      *)
(* permit over.                                                            *)
GetAndSpawn(d) ==
    /\ pollPc[d] = "get"
    /\ IsJob(cand[d])
    /\ runs' = Append(runs, [daemon |-> d, job |-> cand[d], pc |-> "create",
                             outcome |-> "none"])
    /\ pollPc' = [pollPc EXCEPT ![d] = "acquire"]
    /\ ClearClaim(d)
    /\ UNCHANGED <<rows, chats, mainPc, permits, shutdown, http, dirs, starts, faults>>

GetFindsNothing(d) ==
    /\ pollPc[d] = "get"
    /\ ~IsJob(cand[d])
    /\ Rest(d)
    /\ UNCHANGED <<rows, chats, mainPc, shutdown, http, runs, dirs, starts, faults>>

(* A statement of claim_next returns an error.  An UPDATE whose            *)
(* acknowledgement was lost has taken effect all the same.                 *)
ClaimError(d) ==
    /\ HoldsPermit(d)
    /\ Fault
    /\ \/ UNCHANGED rows
       \/ pollPc[d] = "update" /\ IsUnclaimed(cand[d]) /\ rows' = TryClaim(cand[d])
    /\ Rest(d)
    /\ UNCHANGED <<chats, mainPc, shutdown, http, runs, dirs, starts>>

Wake(d) ==
    /\ pollPc[d] = "sleep"
    /\ pollPc' = [pollPc EXCEPT ![d] = "acquire"]
    /\ UNCHANGED <<rows, chats, mainPc, cand, attempts, permits, shutdown, http,
                   runs, dirs, starts, faults>>

(* Both selects of the loop see the cancelled token.                       *)
Break(d) ==
    /\ pollPc[d] \in {"acquire", "sleep"}
    /\ shutdown[d]
    /\ pollPc' = [pollPc EXCEPT ![d] = "drain"]
    /\ UNCHANGED <<rows, chats, mainPc, cand, attempts, permits, shutdown, http,
                   runs, dirs, starts, faults>>

(* join_next until no task is left.                                        *)
Drained(d) ==
    /\ pollPc[d] = "drain"
    /\ LiveRuns(d) = {}
    /\ pollPc' = [pollPc EXCEPT ![d] = "stopped"]
    /\ UNCHANGED <<rows, chats, mainPc, cand, attempts, permits, shutdown, http,
                   runs, dirs, starts, faults>>

-----------------------------------------------------------------------------
(* A job task: Worker::process and execute.                                *)

(* Run r, at pc from, moves to pc to with the given outcome.               *)
RunStep(r, from, to, outcome) ==
    /\ runs[r].pc = from
    /\ runs' = [runs EXCEPT ![r].pc = to, ![r].outcome = outcome]

CreateWorkspace(r) ==
    /\ RunStep(r, "create", "run", "none")
    /\ dirs' = dirs \cup {r}
    /\ UNCHANGED <<rows, chats, daemonVars, starts, faults>>

CreateFails(r) ==
    /\ Fault
    /\ RunStep(r, "create", "finish", "failed")
    /\ UNCHANGED <<rows, chats, daemonVars, dirs, starts>>

(* runner.run returns: a report, an exit without one, or the timeout.      *)
RunReturns(r, o) ==
    /\ RunStep(r, "run", "remove", o)
    /\ UNCHANGED <<rows, chats, daemonVars, dirs, starts, faults>>

(* The other branch of the select; dropping the run kills the process.     *)
RunAborted(r) ==
    /\ shutdown[runs[r].daemon]
    /\ RunStep(r, "run", "remove", "failed")
    /\ UNCHANGED <<rows, chats, daemonVars, dirs, starts, faults>>

(* Mutant: the task cleans up with the sweep of the start.                 *)
RemoveBySweeping(r) ==
    /\ RunStep(r, "remove", "finish", runs[r].outcome)
    /\ dirs' = Swept(runs[r].daemon, {})
    /\ UNCHANGED <<rows, chats, daemonVars, starts, faults>>

RemoveWorkspace(r) ==
    /\ RunStep(r, "remove", "finish", runs[r].outcome)
    /\ \/ dirs' = dirs \ {r} /\ UNCHANGED faults
       \/ Fault /\ UNCHANGED dirs
    /\ UNCHANGED <<rows, chats, daemonVars, starts>>

(* The outcome is recorded, or refused by the store with an error that is  *)
(* only logged; either way the task ends and its permit is dropped.        *)
ReleasePermit(r) ==
    /\ permits' = [permits EXCEPT ![runs[r].daemon] = @ + 1]
    /\ UNCHANGED <<mainPc, pollPc, cand, attempts, shutdown, http>>

RecordOutcome(r) ==
    /\ RunStep(r, "finish", "ended", runs[r].outcome)
    /\ rows' = Finish(runs[r].job, runs[r].outcome)
    /\ ReleasePermit(r)
    /\ UNCHANGED <<chats, dirs, starts, faults>>

(* The database refuses the statement, or cannot be reached.               *)
RecordFails(r) ==
    /\ Fault
    /\ RunStep(r, "finish", "ended", runs[r].outcome)
    /\ ReleasePermit(r)
    /\ UNCHANGED <<rows, chats, dirs, starts>>

(* The task ends abnormally (log_join_result): unwinding kills the process *)
(* and drops the permit, and nothing else is cleaned up.                   *)
Panic(r) ==
    /\ IsLive(r)
    /\ Fault
    /\ RunStep(r, runs[r].pc, "ended", runs[r].outcome)
    /\ ReleasePermit(r)
    /\ UNCHANGED <<rows, chats, dirs, starts>>

(* A claude process left behind by a crashed daemon finishes by itself.    *)
OrphanExits(r) ==
    /\ RunStep(r, "orphan", "ended", "none")
    /\ UNCHANGED <<rows, chats, daemonVars, dirs, starts, faults>>

-----------------------------------------------------------------------------

Users == UserStep /\ UNCHANGED <<daemonVars, runs, dirs, starts, faults>>

MainStep(d) == Start(d) \/ StartupRequeue(d) \/ StartupSweep(d) \/ StartupFails(d)
               \/ Bind(d) \/ BindFails(d) \/ Crash(d) \/ Signal(d) \/ Exit(d)

HttpStep(d) == HttpBreak(d) \/ ClientComes(d) \/ ClientLeaves(d)

PollStep(d) == Acquire(d) \/ SelectOldest(d) \/ UpdateWins(d) \/ UpdateLoses(d)
               \/ GetAndSpawn(d) \/ GetFindsNothing(d) \/ ClaimError(d) \/ Wake(d)
               \/ Break(d) \/ Drained(d)

TaskStep(r) == CreateWorkspace(r) \/ CreateFails(r) \/ (\E o \in Results : RunReturns(r, o))
               \/ RunAborted(r) \/ RemoveWorkspace(r) \/ RecordOutcome(r)
               \/ RecordFails(r) \/ Panic(r) \/ OrphanExits(r)

Next ==
    \/ Users
    \/ \E d \in Daemons : MainStep(d) \/ HttpStep(d) \/ PollStep(d)
    \/ \E r \in DOMAIN runs : TaskStep(r)

Spec == Init /\ [][Next]_vars

-----------------------------------------------------------------------------
(* Fairness.  The tokio runtime polls every task that can make progress,   *)
(* and CLAUDE_TIMEOUT_SECS bounds every run of claude, so no step that     *)
(* stays possible is put off for ever.  tokio::select! polls its branches  *)
(* in random order, so a cancelled token does not lose to the semaphore or *)
(* to the timer for ever: Break is strongly fair, while HttpBreak stays    *)
(* possible until it happens.  Nothing is assumed of users, clients,       *)
(* signals, faults, crashes or of whoever starts the daemon.               *)

MainProgress(d) == StartupRequeue(d) \/ StartupSweep(d) \/ Bind(d)
                   \/ BindFails(d) \/ Exit(d)

PollProgress(d) == Acquire(d) \/ SelectOldest(d) \/ UpdateWins(d) \/ UpdateLoses(d)
                   \/ GetAndSpawn(d) \/ GetFindsNothing(d) \/ Wake(d) \/ Drained(d)

TaskProgress(r) ==
    /\ r \in DOMAIN runs
    /\ \/ CreateWorkspace(r) \/ RunAborted(r) \/ RemoveWorkspace(r) \/ RecordOutcome(r)
       \/ \E o \in Results : RunReturns(r, o)

(* Each start of a daemon runs a job at most once more.                    *)
MaxRuns == MaxRows * MaxStarts

Fairness ==
    /\ \A d \in Daemons : /\ WF_vars(MainProgress(d))
                          /\ WF_vars(HttpBreak(d))
                          /\ WF_vars(PollProgress(d))
                          /\ SF_vars(Break(d))
    /\ \A r \in 1..MaxRuns : WF_vars(TaskProgress(r))

FairSpec == Spec /\ Fairness

-----------------------------------------------------------------------------
(* Properties.                                                             *)

TypeOK ==
    /\ StoreTypeOK
    /\ mainPc \in [Daemons -> MainPcs]
    /\ pollPc \in [Daemons -> PollPcs]
    /\ cand \in [Daemons -> Nat]
    /\ attempts \in [Daemons -> 0..(ClaimAttempts - 1)]
    /\ permits \in [Daemons -> 0..MaxConcurrentJobs]
    /\ shutdown \in [Daemons -> BOOLEAN]
    /\ http \in [Daemons -> HttpPcs]
    /\ runs \in Seq(Run)
    /\ dirs \subseteq DOMAIN runs
    /\ starts \in 0..MaxStarts
    /\ faults \in 0..MaxFaults

(* Every step any daemon takes is, for the table, one of the operations of *)
(* ChatStore used as its callers must use it (a claim only of an unclaimed *)
(* row), so everything that holds of ChatStore holds of the table here.    *)
ImplementsStore == StoreSpec

(* No permit is leaked or made up on any path, through errors, lost        *)
(* claims, aborts and panics: while a daemon's worker is alive, the free   *)
(* permits, the one the poll loop holds and those of the job tasks add up  *)
(* to MAX_CONCURRENT_JOBS.  So no more jobs than that run at once, and a   *)
(* slot that comes free can always be used again.                          *)
PermitsAddUp ==
    \A d \in Daemons :
        pollPc[d] # "off" =>
            permits[d] + Cardinality(LiveRuns(d)) + Held(d) = MaxConcurrentJobs

(* What PermitsAddUp rests on: the worker exists exactly from "up" to      *)
(* "join", it has no task outside that, and ids only name rows there are.  *)
WorkerMatchesMain ==
    \A d \in Daemons :
        /\ mainPc[d] \in {"off", "requeue", "sweep", "bind"} <=> pollPc[d] = "off"
        /\ pollPc[d] \in {"off", "stopped"} => LiveRuns(d) = {}
        /\ pollPc[d] = "off" => permits[d] = 0

KnownIds ==
    /\ \A r \in DOMAIN runs : runs[r].job \in Ids
    /\ \A d \in Daemons : pollPc[d] \in {"update", "get"} => cand[d] \in Ids

RunnerInv == TypeOK /\ PermitsAddUp /\ WorkerMatchesMain /\ KnownIds

(* No row is worked on by two job tasks at a time (README: "a row is never *)
(* handed to two workers").                                                *)
NeverHandedToTwo ==
    \A r, s \in DOMAIN runs :
        IsLive(r) /\ IsLive(s) /\ runs[r].job = runs[s].job => r = s

(* While claude runs, the directory that is its cwd exists: no sweep or    *)
(* removal takes the workspace of a running job away.                      *)
WorkspaceWhileRunning ==
    \A r \in DOMAIN runs : runs[r].pc = "run" => r \in dirs

(* Pending rows that no task is working on and no claim is about to load.  *)
Owned(i) ==
    \/ \E r \in DOMAIN runs : IsLive(r) /\ runs[r].job = i
    \/ \E d \in Daemons : pollPc[d] = "get" /\ cand[d] = i

StalePending == {i \in Ids : IsPending(i) /\ ~Owned(i)}

TooLong == {r \in DOMAIN runs : runs[r].pc = "ended" /\ runs[r].outcome = "oversize"}

(* When the daemons requeue on start, every pending row nobody works       *)
(* on is accounted for by a fault of its own, or by an answer the table    *)
(* could not hold: no interleaving of claims, finishes, deletions,         *)
(* shutdowns, crashes and restarts strands a row by itself once the        *)
(* start-up requeue is over.                                               *)
PendingAccountedFor ==
    (\A d \in Daemons : mainPc[d] \notin {"off", "requeue"}) =>
        Cardinality(StalePending) <= faults + Cardinality(TooLong)

(* Jobs are claimed in the order they were written: whoever marks a row    *)
(* pending leaves no older unclaimed row behind, although the row was      *)
(* chosen by an earlier statement than the one that claims it.             *)
OldestFirst ==
    [][\A i \in Ids : IsUnclaimed(i) /\ rows'[i].status = "pending" =>
          \A j \in Ids : j < i => ~IsUnclaimed(j)]_vars

(* Once no daemon can put a job back any more, each row is handed out at   *)
(* most once in its life (claim_next: "each row is handed out exactly      *)
(* once"); this is the deployment with several workers.                    *)
HandedOutOnce ==
    \A r, s \in DOMAIN runs : runs[r].job = runs[s].job => r = s

(* Its inductive form: what has been handed out can be claimed no more.    *)
HandedOut ==
    /\ HandedOutOnce
    /\ \A r \in DOMAIN runs : ~IsUnclaimed(runs[r].job)
    /\ \A d \in Daemons : pollPc[d] = "get" =>
          /\ ~IsUnclaimed(cand[d])
          /\ \A r \in DOMAIN runs : runs[r].job # cand[d]
          /\ \A e \in Daemons : pollPc[e] = "get" /\ cand[e] = cand[d] => e = d

Settled(i) ==
    i \in Ids /\ (rows[i].kind = "gone" \/ rows[i].status \in {"done", "failed"})

(* A job does not wait for ever while the daemon is there, and one a crash *)
(* left pending is run again by the next start: it is answered, failed or  *)
(* deleted, unless the worker stops first or the row is one of those       *)
(* PendingAccountedFor counts.                                             *)
EveryJobSettles ==
    \A i \in 1..MaxRows :
        IsJob(i) ~>
            \/ Settled(i)
            \/ \A d \in Daemons : mainPc[d] = "off" \/ pollPc[d] = "stopped"
            \/ i \in StalePending /\ \A d \in Daemons : mainPc[d] \notin {"off", "requeue"}

(* Shutdown completes, whatever the daemon is doing when the signal comes: *)
(* running jobs are aborted and their slots drained, so the worker stops;  *)
(* and run() returns, unless serve waits for ever for one connection       *)
(* (main.rs, graceful.shutdown() in http.rs).                              *)
ShutdownCompletes ==
    \A d \in Daemons :
        /\ mainPc[d] = "join" ~> pollPc[d] \in {"stopped", "off"}
        /\ <>[](http[d] = "draining") \/ (mainPc[d] = "join" ~> mainPc[d] = "off")

(* "the table never keeps a stale `pending` row": when Worker::run has     *)
(* returned, no row is pending.                                            *)
StoppedLeavesNoPending ==
    \A d \in Daemons : pollPc[d] = "stopped" => \A i \in Ids : ~IsPending(i)
=============================================================================
