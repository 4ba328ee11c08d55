# claude-job-runner in TLA+

A verification project for claude-job-runner, the daemon that turns the chat
application's `chat_messages` table into a queue of tasks for Claude Code. The
modules are translated from the Rust sources (paths below are relative to the
repository); TLC checks them on small instances and TLAPS proves the theorems.

## 1. The system

| Part | Source | State it keeps | Operations |
|---|---|---|---|
| Job table, `JobStore` | `src/store.rs`, `schema/mysql.sql` | rows of `chat_messages`: status, payload (`reply_id`, `error`, `result`, `in_reply_to`) | insert, get, reply, claim_next (three statements), finish, requeue_pending |
| Job types | `src/job.rs` | none | statuses, outcomes and their column values |
| Worker | `src/worker.rs` | semaphore permits, set of job tasks, cancellation token | poll loop, job task (process, execute), reaping, draining |
| Workspaces | `src/workspace.rs` | `job-*` directories under the root | prepare, sweep, create, remove |
| Claude runner | `src/claude.rs` | one child process per job | command line and environment, run, timeout, report parsing |
| QuickBooks broker | `src/qbo.rs` | the company's row: tokens and their expiry (shared with the chat application) | access: lock, read, refresh with Intuit, write, commit |
| HTTP API | `src/http.rs` | listening socket, connections | `POST /jobs`, `GET /jobs/{id}`, `/health` |
| Start and stop | `src/main.rs` | the order of all of the above | requeue, sweep, spawn worker, bind, wait for a signal, cancel, join |
| Configuration | `src/config.rs` | none | reads the environment once |
| `jobctl` | `crates/jobctl/src/{main,api,chats}.rs` | PID and log file | enqueue, ask (starts a daemon), ask --stop, sql, retrieve, qbo |
| `jobctl` library | `crates/jobctl/src/{db,sql}.rs` | none | credentials, rendering of rows |
| QuickBooks tools | `crates/jobctl/src/qbo.rs` | none between calls | queries and reports, scoped to the requester |
| `jobctl-mcp` | `crates/jobctl-mcp/src/main.rs` | one cached database connection | JSON-RPC over stdio, tool calls |

How they interact. The chat application, `POST /jobs` and `jobctl enqueue`
append rows; users delete chats, and the foreign key takes the rows along. A
daemon's worker holds a permit, claims the oldest unclaimed row, spawns a job
task and goes on. The task makes a workspace, asks the broker for an access
token, runs `claude` (which may call `jobctl-mcp`), removes the workspace and
writes the outcome back. Several daemons, the application and Intuit meet only
in the database and at Intuit; inside a daemon the tasks meet at the semaphore
and at the cancellation token.

What is hard: statements of several daemons and of the users interleave; a
claim is a SELECT, an UPDATE and another SELECT; a requeue may pull a row from
under a running job, which then finishes late; every await may be where a
signal, a crash or an error strikes; a slot must come back on every path; a
refresh token may be spent once only, and a row lock is all that guards it;
clocks are read late; clients read a job and its reply with two statements;
`claude` is served through three pipes at once and may leave processes behind;
all that ties `ask` and `ask --stop` together is a PID file.
`PROJECT.json` lists the hazards at their lines, each with the properties that
are there for it.

What makes each part correct:

* table: a job is done exactly when there is one answer to it, in its own
  chat; payload and status agree; outcomes are final;
* worker: no row runs twice at a time, oldest first, no slot is lost, every
  job settles, the worker stops when it is told to and only a client can hold up the
  rest of the shutdown, no row is left pending without a reason;
* workspaces: the directory of a running job is there, which needs a root per daemon;
* broker: a token outlives its job, no spent token is sent, a call returns,
  nothing is handed out once an admin has turned QuickBooks off;
* claude runner: prompt, answer and messages never wait for each other; the
  whole answer counts; no run outlasts its timeout, no `claude` its workspace; its
  tools are the requester's and no one else's, and the model is told of just those
  that are listed for it;
* `ask` and `ask --stop`: one daemon at a time, the PID file names it, and nothing
  else is signalled;
* clients: they show the answer to their own question, exit with the job's
  final outcome, and do exit;
* QuickBooks tools: who is not an admin sees linked customers, his own sales and the
  customer that alone fits an unlinked one, whatever changes between two requests; pages
  lose and double nothing but for reasons that can be named; a customer or a class is not
  taken for another; a report still adds up;
* `jobctl-mcp`: each request is answered once and in order, and a
  dropped connection costs one call.

## 2. The modules

`JobLifecycle` is the abstract specification: what the chat application may
rely on, in terms of job ids, four states and a set of (job, answer) pairs.
There is no table, worker or transaction in it.

`ChatStore` is the table with the operations of `JobStore` and of the users.
`rows` is the sequence of all rows ever inserted, so an id is a position and
AUTO_INCREMENT is `Append`; deleted rows stay as `"gone"`. Texts are reduced
to whether they are there. One SQL statement is one step, and `finish_done`, a
transaction of two, is one step as well; `FinishTx` shows that it may be. An answer too long
for the TEXT column is the outcome `"oversize"`, which MySQL refuses. `JobState`
and `JobAnswers` map the table to `JobLifecycle`, and `ImplementsLifecycle` is
the refinement.

`FinishTx` is `finish` statement by statement, for any number of callers at once
and among users, claims and requeues. The locks are explicit: `INSERT ... SELECT`
takes a shared lock of the question (`Insert`), `UPDATE` an exclusive one
(`Update`, until `Commit`), and whatever else wants to change the row waits
(`DeleteWaits`, `ClaimWaits`, `RequeueWaits`). `Abort` is a deadlock, a lock
timeout or an error at any statement, and the answer to a commit may be lost. This
rests on MySQL's default isolation level; `ImplementsStore` says that what is
committed changes only as `ChatStore` allows.

| Steps of `FinishTx` | Code |
|---|---|
| `Begin`, `Insert`, `Rollback`, `Update`, `Commit`, `Abort` | `finish_done`, `store.rs` 238-269 |
| `FailRow` | `finish_failed` |
| `DeleteWaits`, `ClaimWaits`, `RequeueWaits`, `Others` | the statements that meet it: the foreign key's cascade, `try_claim`, `requeue_pending` |

`Runner` is the daemon on top of `ChatStore`, any number of them on one table.
`mainPc` is the line `run()` of `main.rs` is at, `pollPc` that of
`Worker::run` with `claim_next` inlined, and `runs` holds the job tasks with
their own `pc`. One step is the code between two awaits whose interleaving can
be observed:

| Steps | Code |
|---|---|
| `Start`, `StartupRequeue`, `StartupSweep`, `Bind`, and `StartupFails`, `BindFails` | `main.rs` 35-82 |
| `Signal`, `Exit`, `Crash` | `main.rs` 84-114; a killed process |
| `HttpBreak`, and `ClientComes`, `ClientLeaves` | `http::serve`, and the clients it serves |
| `Acquire`, `SelectOldest`, `UpdateWins`, `UpdateLoses`, `GetAndSpawn`, `GetFindsNothing`, `ClaimError`, `Wake`, `Break`, `Drained` | `Worker::run`, `claim_next` |
| `CreateWorkspace`, `CreateFails`, `RunReturns`, `RunAborted`, `RemoveWorkspace`, `RecordOutcome`, `RecordFails`, `Panic` | `Worker::process`, `execute`, `log_join_result` |
| `OrphanExits` | a `claude` process whose daemon was killed |

Faults are steps of their own, counted by `faults`: a statement fails before
or after it took effect, a directory cannot be made or deleted, a task panics.
Crashes are not counted; `starts` bounds how often a daemon comes back. The runtime
has one thread and binding does not wait, so the worker, although spawned before, does
not run until `Bind`. `http` is where `serve` is: it accepts connections, none or some
of them in use; when the token is cancelled it waits for those in use, without a time
limit (`"draining"`); it has the address until it returns (`AddrTaken`), and `run()`
returns when both the worker and `serve` have (`Exit`). The sweep is one step, which leaves out that
another daemon may create a directory while the root is being listed.

`ClaudeRun` is one run of `claude` in detail: `CliRunner::run` inside
`Worker::execute`. Prompt, answer and messages are numbers of pieces that go
through pipes of `Cap` pieces; `feeding` is the task that writes the prompt,
`taken` what the two readers of `wait_with_output` have. `claude` reads and writes
in any order and waits for whatever pipe it has turned to; a process it started may
hold its outputs open after it is gone (`Descendant`). The timeout, a failing
wait, a cancelled job and a killed daemon may come at any moment.

| Steps of `ClaudeRun` | Code |
|---|---|
| `Access`, `Spawn`, `SpawnFails` | `claude.rs` 592-629 |
| `Feed`, `Drain`, `Returns`, `TimesOut`, `WaitFails` | the feeder and `timeout(child.wait_with_output())`, 617-649 |
| `Cancelled`, `RemoveWorkspace` | `Worker::execute` |
| `DaemonKilled`, `Sweep` | a killed daemon, and `WorkspaceRoot::sweep` of the next |
| `Begins`, `Reads`, `Writes`, `Exits`, `Descendant` | `claude` |

`JobEnv`, which `ClaudeRun` extends, is what a job knows and may use, as functions:
the requester from the job's row, the environment from the daemon's own and its
settings (`Environment`: `command_with_qbo`), the facts the system prompt states
(`SystemPrompt`), and what `jobctl-mcp` makes of that environment (`SessionOf`,
`ToolsOf`, `Works`). The daemon's environment may hold anything from before,
`QBO_*` variables of another job included.

`QboBroker` is `QboBroker::access` for the jobs of one company. A refresh token
is its generation, Intuit accepts the current one and answers with the next.
The row has two expiry columns, computed when the answer is read; what Intuit
goes by was fixed when the token was issued, and the module keeps both. Intuit,
the chat application, its admins and the row lock are modelled from how
`qbo.rs` uses and describes them. A cancelled job, a crash, a failing UPDATE
and a lost answer are `Interrupted`; a request that nobody waits for any more
may still arrive (`stray`).

`JobApi` is `POST /jobs` and `GET /jobs/{id}` with `jobctl ask`, and
`jobctl enqueue`, on top of `ChatStore` with its workers and users at any
moment. A client waits for its response, so request, handler and reaction are
one chain of steps, and each SQL statement in it is one step.

`AskCli` is what comes before that: `ask` asks for `/health`, starts a daemon if it
gets no answer, writes the PID file and polls; `ask --stop` reads the file, signals
and removes it. A daemon is a process number here, with the states it has for
them (`proc`). Any number of commands run at once, may be interrupted, and an
answer may come too late; a daemon may die, and its number be given to a
stranger. `mishaps` is a history variable, and the properties say which of them
something needs to go wrong.

| Steps of `AskCli` | Code |
|---|---|
| `Health`, `CannotStart`, `SpawnRunner`, `WritePidFile`, `WriteFails`, `PollHealth`, `TryWait` | `cmd_ask`, `start_runner` |
| `ReadPidFile`, `Kill`, `RemovePidFile` | `stop_runner` |
| `Interrupt` | Ctrl-C; a daemon is in a process group of its own |
| `Bind`, `ShutsDown`, `Dies` | the daemon: `main.rs` 81-91, `http.rs` 185-232 |
| `Reused` | the operating system |

`QboReports` holds the algorithms of `crates/jobctl/src/qbo.rs` as operators: report
rows and `omit_zero_rows`, the classes of a sales rep, the choice of a QuickBooks
customer, and the invoices of customers. A name is what comparing it trimmed and in
lower case leaves: words, `/` parts, and `:` levels. A list that the code filters is the
set of its positions here, and what it sorts, or QuickBooks does, is a set in an order
(`InOrder`: the n-th is the one that n - 1 others precede). Loops and trees are
recursive functions; the rows below a blank header are nested though it makes no row, as in
the code, and headers have no amount, which QuickBooks never gives them. `WithDescendants` runs the loop over child classes for as many
rounds as there are classes, which `ClassesLoopEnds` shows to be all that it does.
`QboTools` (`CallInit`, `CallNext`, `CallSpec`) is one call of a tool on top of them; a
step is one request to QuickBooks or one statement, and between any two others may add
or remove invoices and link or unlink CRM customers. What a query may give is chosen anew
in each: the order of the invoices of one day (`MayBeAt`; the query orders by date alone),
which 25 of more customers with a name like it (`MaxMatches`), which 1000 of a customer's
invoices (`MaxOfCustomer`). Any answer may be too long and be cut (`Answer`). `seen`,
`linked`, `before` and `midway` are history variables that remember what the call could
have seen.

| Steps of `QboTools` | Code |
|---|---|
| `Authorize` | `Session::authorize`, `call` |
| `FetchInvoice`, `ReadLinks` | `invoice`, `customer_invoices`, `linked_crm_customers` |
| `ReadCrmCustomer`, `FindByEmail`, `FindByName`, `FetchCustomer` | `crm_customer_invoices`, the two queries of `resolve_customer`, `invoices_for_customer` |
| `ReadOwnName`, `FetchClassSales`, `FetchClasses`, `FetchSellers` | `sales_rep` |
| `FetchPage` | `invoices_between`, a page at a time |
| `Fetch` | the tools of one request: `search_customers`, `class_sales`, `query`, `report` |
| `Fails` | every error of `get` and of a statement |

`McpServer` is the loop of `jobctl-mcp`: `ReadLine`, `Reply` and `Exit` are
`main`, `HandleAtOnce` the requests that need no database, `UseConnection`,
`Connect` and `ConnectFails` are `connection()`, and `RunTool` is the tool with
`forget_broken_connection` after it. A tool is reduced to how it ends
(`Endings`). The database may go away at any moment (`Drop`), and may leave a
parting message that the next statement reads as its answer: an error of the
database and not of the connection, so the broken connection is kept once more.

`MC...` modules and their `.cfg` files are the instances TLC checks;
the modules named `...Proofs` hold the theorems. A definition preceded by a
comment "Mutant: ..." is not part of any specification: it is a slip in the
definition below it, kept to show that the properties notice it.

## 3. What TLC checks

Runs that pass:

| Run | Instance | Shows |
|---|---|---|
| `store` | 1 chat, 3 rows, 2 callers of `finish` | `AnsweredOnce`, `OkMeansOwnOutcome`, `OutcomeIsFinal`, and the refinements `ImplementsStore` (of the one-step operations) and `ImplementsLifecycle`. Callers may finish rows they never claimed and a requeue may come at any time, which is more than the daemon does |
| `runner_two` | 2 daemons, 2 slots each, 2 rows, 3 starts, 1 fault; requeue off as the repository's README asks for with several workers; a root and an address each | several workers: `HandedOut` (each row is given to one task at most, ever), `OldestFirst`, `PermitsAddUp`, that every step is one `ChatStore` allows (`ImplementsStore`), and `WorkspaceWhileRunning`, for roots that are apart |
| `runner_live` | 1 daemon that requeues, 1 slot, 2 starts, 1 fault, clients of its API, fair | `PendingAccountedFor`; `EveryJobSettles`; `ShutdownCompletes`: after the signal the worker stops, and `run()` returns unless `serve` waits for one connection for ever |
| `claude` | 2 pieces each way, pipes of 1, every requester, setting and environment, fair | `NoPipeDeadlock`, `WholeAnswerCounts`, `GoneWithItsWorkspace`, `ToolsActForRequester`, `ToldWhatItHas`, `EveryRunEnds` |
| `qbo` | 3 jobs, 2 connections, 7 instants, 1 fault, fair | `TokenOutlivesJob`, `UnspentUnlessInterrupted`, `RefreshArrivesInTime`, `HandsOutOnlyWhileUsable`, `EveryAccessReturns` |
| `api` | one client of each kind and the other users of their chat, 1 fault, fair | `ShowsOwnAnswer`, `ExitTellsOutcome`, `EveryWaiterReturns` |
| `ask` | 2 `ask`, 2 `ask --stop`, 2 process numbers, 1 poll, 1 death | `SecondStartExplained`, `ServingIsOnFile`, `StrangersLeftAlone` |
| `qbo_tools` | every tool, 3 customers, 5 invoices, pages of 2, 2 changes; lists of up to 6 classes, directories of up to 3 customers, reports of up to 2 sections, nested ones and blank headers among them | `CallTypeOK`, `NonAdminsSeeLinkedOrOwn`, `NothingMissed`, `PagesInOrder`, `NamesFindTheirOwn`, `ReportsKeepTheirData` |
| `mcp` | 4 messages of any kind, any job, the database goes away twice | `AnsweredInOrder`, `DropFailsOneCall`, `KeepsGoodConnection` |

Runs that find a disagreement between the code and what its documents, comments
or tests say (details under `findings` in `PROJECT.json`):

| Run | Property | What happens |
|---|---|---|
| `stale_pending` | `StoppedLeavesNoPending` | an answer that does not fit its column cannot be recorded, the error is logged, and the row stays `pending` after a clean stop |
| `second_start` | `NeverHandedToTwo` | a daemon started by mistake requeues before it finds its address taken; the first one then claims a row it is running once more, with its second slot |
| `unlinked_shown` | `NonAdminsSeeLinkedOnly` | a CRM customer without a link is looked for by e-mail and name, and what is found is shown to anybody who asks; `sales_rep` does not ask for links at all |

The passing runs had to allow for more:

* a refresh interrupted after Intuit rotated the token leaves the spent one in the
  row, and the next reader sends it in vain (`UnspentUnlessInterrupted` excepts it);
* without `AGENT_DATABASE_URL` every QuickBooks tool fails, for each connects to
  the database first, while prompt and tool list offer them (`ToldWhatItHas`
  compares just those two);
* a process that outlives `claude` and holds its outputs turns an answer that is
  there into `RunError::Timeout`;
* `finish` may return an error for an outcome that is in the table (a lost answer
  to the commit), and `NotPending` is all a late run gets (`OkMeansOwnOutcome`);
* the PID file is one per directory, while the daemon is found by its address: two
  asks at once, an interrupted one, or a daemon slow to start or to answer leave a
  daemon that `ask --stop` does not find; SIGTERM before the daemon has its handler
  ends it without a drain; an `ask` right after `--stop` may find the address still
  taken, and one whose child loses the race for the address fails although a daemon
  serves;
* a `pending` row that nobody works on may exist while the daemon is up, after
  a lost acknowledgement, a failed load or a panic (`PendingAccountedFor` counts
  them; README's "`pending` always means running right now" holds without
  faults only);
* `jobctl ask` prints an empty line with exit code 0 when the chat is deleted
  between the two statements of `load_view` (`SuccessShowsAnswer`, proved, says when);
* the token is not looked at between slot and claim, so a row may still be
  claimed after a shutdown was requested; it is aborted and recorded as failed;
* daemons with the same root take each other's workspaces away: the sweep at the start of
  one deletes the directories of jobs another is running. `./workspaces` is the default,
  the repository's README asks several workers only to turn the requeue off, and the
  comment at `src/workspace.rs` 67 speaks of "leftover workspaces from previous runs".
  `WorkspaceWhileRunning` does not hold there, and is checked and proved for roots that
  are apart;
* `omit_zero_rows` takes a section whose data is all in sections inside it for empty and
  leaves out its header and total, although the comment at `crates/jobctl/src/qbo.rs` 1132
  speaks of "sections left without data"; of reports with nested sections
  `ReportsKeepTheirData` only says that they still add up;
* a refreshed token is not compared with the time a job may take: that Intuit's
  tokens last longer than `CLAUDE_TIMEOUT_SECS` is assumed (`MarginAssumption`);
* pages of invoices are cut by position: one removed meanwhile makes another
  slip through, one added doubles another, and what is beyond `MAX_PAGES` is left
  out although the tool is described as giving "every invoice";
* those pages are ordered by date alone, so when a page ends within a day QuickBooks
  may give an invoice of that day twice, or not at all, without any change of the books
  (`NothingMissed`, `PagesInOrder` except it); the order among equals is not documented
  by the code;
* an answer of more than `MAX_OUTPUT_CHARS` is cut, and says so; `NothingMissed` is about
  answers that are not;
* of more than 25 customers with a name like it, one may be taken for the only one that
  fits because the others were not in the answer (`NeverGuesses` excepts it);
* a connection the database closed with an error message fails two calls.

### Bounds, and why they are enough

* Rows: two questions are enough for "oldest", for a lost race and for two jobs
  on two slots; answers come on top. A third row in `store` and `api` lets two
  callers race for one question while another message or the first answer is there.
* Daemons: a conflict over a row, a root or an address needs two; that of `second_start`
  also needs a second slot, for the first daemon's own slot is taken by the row.
* Starts: a crash and the start after it need two; `runner_two` has a third so
  that a daemon can come back next to a running one.
* `ClaimAttempts` is 2 instead of 5: one lost claim that is retried, one that
  gives up.
* Faults: one at every place a call can fail; `PendingAccountedFor` states what
  several can do, as a count.
* Broker: two jobs race for the row while a third finds no connection. Times
  are small multiples: a job lasts 1, the slack of 5 minutes and
  the HTTP timeout 1 each, the refresh margin 2, tokens 3 and 6. The margin of
  the code is 60 s for a timeout of 20 s; in the model it is 2 for 1, the least
  that suffices (`RefreshArrivesInTime` needs twice the timeout: once for the
  drift of the column, once for the request).
* `claude`: two pieces in each direction and pipes of one let each pipe be full
  while its writer has more, with the other two in any state.
* `ask`: two commands of each kind overlap or follow each other in every way; a
  second process number is the second daemon, and one that has ended can become a
  stranger.
* QuickBooks tools: five invoices are more than the two pages of two that a call
  may read, four fill them exactly, and three leave the last one not full; the
  invoices' ids, dates and customers are ordered differently. Three levels of
  classes and a class of the rep below another's are enough for a missing level,
  an inferred parent and a descendant of a descendant; every subset of the six
  may be listed, with or without parents. Three customers let two be alike while
  a third fits in another way, and are more than the two that `MaxMatches` (25) lets
  through; two of the days have two invoices each, so that a page of two may end within
  one, and a customer with two has more than `MaxOfCustomer` (1000), which is 1 here.
* MCP server: a call that opens the connection, one that reads the parting
  message, one that finds it broken and one that opens a new one are four.
* Deadlock checking is off where users and daemons may all have stopped (every
  bound used up); what must go on is a liveness property.

### Fairness

* `Runner`: weak fairness for each daemon's start-up and poll loop and for each
  job task: the tokio runtime polls every task that can make progress, and
  `CLAUDE_TIMEOUT_SECS` bounds each run of `claude`. Strong fairness for `Break`
  only: `tokio::select!` polls its branches in random order, so a cancelled
  token cannot lose to the semaphore or the timer for ever. `HttpBreak`, which stays
  possible once the token is cancelled, is weakly fair for the same reason. Nothing is
  assumed of users, clients of the API, signals, crashes, faults or of whoever starts
  daemons.
* `QboBroker`: strong fairness for each job's call: InnoDB grants a row lock
  and sqlx a connection in the order they were asked for, and `HTTP_TIMEOUT`
  ends every wait for Intuit.
* `ClaudeRun`: weak fairness for the daemon's own steps (`Access`, `Spawn`, `Feed`)
  and for `TimesOut`, which `tokio::time::timeout` guarantees; none for `claude`, its
  descendants or the readers, so that `EveryRunEnds` holds whatever they do.
* `JobApi`: weak fairness for each client's own loop; none for workers.
* `FinishTx`, `AskCli`, `QboTools` and `McpServer` state safety only: locks and
  commands may wait as long as they like, and a statement of a tool has no timeout.

## 4. What is proved

| Module | Theorem | States |
|---|---|---|
| `ChatStoreProofs` | `StoreIsSafe` | `StoreSpec => [](StoreTypeOK /\ AnsweredOnce /\ PayloadMatchesStatus)` |
| | `OutcomesStay` | `StoreSpec => OutcomeIsFinal` |
| | `StoreImplementsLifecycle` | `StoreSpec => Lifecycle!Spec` under the refinement mapping |
| `RunnerProofs` | `RunnerIsSafe` | `Spec => [](TypeOK /\ PermitsAddUp /\ WorkerMatchesMain)` |
| | `RunnerImplementsStore` | `Spec => ImplementsStore`, which `TableUnderDaemons` and `RunnerImplementsLifecycle` follow from |
| | `HandedOutAtMostOnce` | with `REQUEUE_PENDING_ON_START` off, `Spec => [](HandedOut /\ NeverHandedToTwo)` |
| | `WorkspacesStay` | with roots that are not shared, or one daemon, `Spec => []WorkspaceWhileRunning` |
| | `OneDaemonHandsOutOnce` | with one daemon, which may requeue, `Spec => []NeverHandedToTwo` |
| | `ClaimsOldestFirst` | with one daemon or without a requeue, `Spec => OldestFirst` |
| | `NothingStranded` | with `REQUEUE_PENDING_ON_START` on, `Spec => []PendingAccountedFor` |
| | `TableUnderDaemons` | `Spec => []AnsweredOnce /\ []PayloadMatchesStatus /\ OutcomeIsFinal` |
| | `RunnerImplementsLifecycle` | `Spec => ImplementsLifecycle` |
| `FinishTxProofs` | `FinishIsSafe` | `Spec => [](TypeOK /\ OkMeansOwnOutcome /\ LocksEndWithCall)` |
| | `FinishImplementsStore` | `Spec => ImplementsStore`: the transaction may be taken for one step, so the first three theorems hold of it too |
| `ClaudeRunProofs` | `ClaudeIsSafe` | `Spec => [](TypeOK /\ NoPipeDeadlock)` |
| | `WholeAnswerDecides` | `Spec => []WholeAnswerCounts` |
| | `ClaudeGoesFirst` | `Spec => []GoneWithItsWorkspace` |
| | `JobActsForRequester` | `Spec => []ToolsActForRequester` |
| | `JobIsToldWhatItHas` | `Spec => []ToldWhatItHas` |
| `QboBrokerProofs` | `BrokerIsSafe` | `Spec => [](TypeOK /\ TokenOutlivesJob)` |
| | `NoTokenSpentTwice` | `Spec => []UnspentUnlessInterrupted` |
| | `NoTokenLate` | `Spec => []RefreshArrivesInTime` |
| | `OnlyWhileUsable` | `Spec => HandsOutOnlyWhileUsable` |
| `JobApiProofs` | `ClientsAreRight` | `Spec => [](TypeOK /\ ShowsOwnAnswer /\ SuccessShowsAnswer)` |
| | `ExitsAreRight` | `Spec => []ExitTellsOutcome` |
| `AskCliProofs` | `AskIsSafe` | `Spec => [](TypeOK /\ ServingIsOnFile)` |
| | `SecondStartNeedsMishap` | `Spec => []SecondStartExplained` |
| | `StopHitsNoStranger` | `Spec => []StrangersLeftAlone` |
| `McpProofs` | `CallTypeCorrect` | `CallSpec => []CallTypeOK` |
| | `LinkedOrOwnOnly` | `CallSpec => []NonAdminsSeeLinkedOrOwn` |
| | `NoInvoiceMissed` | `CallSpec => []NothingMissed` |
| | `PagesFollow` | `CallSpec => []PagesInOrder` |
| | `NamesLeadHome` | `CallSpec => []NamesFindTheirOwn` |
| | `ClassesLoopEnds` | one more round of the loop over child classes would find nothing |
| | `McpServerIsSafe` | `Spec => [](TypeOK /\ DropFailsOneCall)` |
| | `RequestsAnswered` | `Spec => []AnsweredInOrder` |
| | `GoodConnectionStays` | `Spec => KeepsGoodConnection` |

They hold for every value of the constants: any number of chats, rows, daemons, slots,
starts and faults, of callers, clients and commands, of messages and of drops, of
invoices, customers, classes and pages, pipes of any size, and any times. The
assumptions are the typing ones (`MaxRowsAssumption`, `RunnerAssumption`,
`ClaudeAssumption`, `BrokerAssumption`, `AskAssumption`, `McpAssumption` and the like,
each in its module) and those on how the daemons are deployed and timed:
`HandedOutAtMostOnce` has `~RequeueOnStart` and `OneDaemonHandsOutOnce` one daemon,
without which run `second_start` refutes them; `ClaimsOldestFirst` has one or the other,
since a second daemon's requeue may put an older row back between the two statements of
a claim; `NothingStranded` has `RequeueOnStart`, without which a crash leaves its rows
pending for good; `WorkspacesStay` has `RootsApart`, a root per daemon or one daemon,
without which one's sweep deletes what another uses; and the theorems on the broker
have `MarginAssumption`: `HTTP_TIMEOUT` (20 s) is within the slack (5 minutes) and twice
within the margin (60 s), as the code has it, and a token just issued lasts for
`CLAUDE_TIMEOUT_SECS` and one request.

Arguments. `AnsweredOnce` is not inductive: it speaks of the answers to a job,
while a step that adds or deletes rows has to know where each answer points.
`StoreInv` strengthens it to a link in both directions (`AnswerHasQuestion`,
`DoneHasAnswer`): every `ai` row points at a done job that points back from the
same chat, and every done job at its `ai` row. With it each operation either
adds one such pair, leaves all of them, or deletes a chat with both ends. The
refinement uses the same invariant: the new row of `FinishDone` is an id no
answer has, and deleting a chat withdraws jobs together with their answers.

`PermitsAddUp` needs to know that tasks exist only while the worker does, and
that a claim in progress has exactly one permit (`RunnerInv` adds
`WorkerMatchesMain` and `KnownIds`, that ids name rows there are). The lemmas
say how each kind of step changes the set of live tasks, as a finite set whose
cardinality goes up or down by one, and the proof has one lemma per group of
actions. `RunnerStepIsTableStep` maps every step of any daemon to an operation
of the table or none. `HandedOut` is the inductive form of "handed out once": a
row some task or claim has is no longer unclaimed, and without a requeue no
operation of the table makes it so again. With a requeue the same is said of the
tasks there are (`LiveOnce`, in `RunnerProofs`): a single daemon requeues before it
has a worker, so at that moment nothing is handed out. It sweeps then too, so with a
root of its own no running `claude` loses its directory (`WorkspacesStay`).

`OldestFirst` is about one step, the `UPDATE` of a claim, and what makes it true is
chosen one statement earlier: `HoldsOldest` says that no row older than the one
chosen is unclaimed, for as long as the claim is under way. New rows are younger,
and only a requeue could make an older one unclaimed again.

`PendingAccountedFor` is a count, so the proof is about how the set of stranded rows
grows: at most one row in a step (`Strands`), and then `faults` or the number of
answers too long for the table goes up by one as well. A row leaves the care of a
task only when its outcome is recorded, with a fault, or in a crash; after a crash
the claim is void until the daemon is past its requeue, which empties the set. That
recording an outcome takes the row out of the pending ones, and a claim that was
lost leaves none behind, comes from `RunnerInv` and `PayloadMatchesStatus`. The
theorem is not limited to one daemon, which is what run `runner_live` checks.

`OkMeansOwnOutcome` needs to know that what a transaction has read still holds
when it writes: `TxInv` adds that from its `INSERT` to its commit the question is
pending and locked by the caller, and after its `UPDATE` by nobody else
(`ReadHolds`), so that no committed step of another session can have changed it.
The commit is then one `FinishDone` of `ChatStore`, and every other step leaves the
committed rows alone or is the operation it is named for.

`NoPipeDeadlock` is a matter of counting: what is in a pipe is what went in less
what came out, never more than it holds (`TypeOK`), so a `claude` that waits finds
its pipe full, which `Drain` can empty, or empty, which `Feed` can fill unless the
prompt is at its end. `Inv` joins it to `RunInv`, what is known at each place of the
run, and to `WholeAnswerCounts`, which needs it. What a job may use is decided once:
`EnvInv` says that before `claude` is started there is no session, and from then on the
session and the prompt are the ones of this job's requester, settings and answer of the
broker; the lemmas `EnvironmentOfJob` and `SessionOfJob` say which those are,
whatever `QBO_*` variables the daemon had inherited.

The broker's invariant is about time (`RowRunsBehind`, `WaitedFor`): a column runs
behind what Intuit goes by, by one request at most, and an answer is as old as the
wait for it; the margins are larger than both. `LockIsHeld` says that the one who
refreshes has the row, so nobody writes to it meanwhile, and `LatestToken` where
the newest token is while nothing has been interrupted. `PoolAddsUp` is the count of
the connections.

A client knows its job by an id (`KnowsItsJob`), and rows only ever move on: the
lemma `RowsStay` says what any step of the table leaves of a row, so what a client
has seen of its job stays true or the row is gone. `ApiInv` says so for each place
a client may be at.

For `ask`, `AskInv` says that until two commands overlap one acts at a time, and
then that until an ask leaves its child unattended there is one daemon at most, which
its ask watches while it starts and which is on file from then on.

`DropFailsOneCall` is a count of the past, so `McpInv` says what the count can
be for each thing that may have become of the connection
(`FailuresOfConnection`); `AnsweredInOrder` needs to know which answer is still
missing while a message is handled (`AnswersSoFar`). The proof takes the driver at
its word: `Io`, `Protocol` and `Tls` errors come from broken connections only.

The invariant of a call, `CallInv`, joins `CallShape` (which tools come to which step and
what they know there) to what is said of links, pages and names. For the links that is
enough: the CRM's answer is in `linked`, nothing leaves `linked`, and on the ways that do
not ask the CRM the target is the customer found, or the asker is the rep
(`LinkedOrOwnStep`). Pages rest on counts: the places of a day in the answer to a query
are those after the number of earlier invoices and up to the number until that day
(`CountsOfDays`, `PlaceOfDay`), whatever order the day's invoices have among themselves.
A page is injective, so a day whose places are all within it is all on it: the invoices of
the day and their places are equally many (`DayWithinPage`). Adding invoices moves the
places of a day back and removing them moves them forward, never the other way
(`CountsGrow`). That gives the two halves of `PagesInv`. Unless something was added, fewer
than k invoices are from before the day of the k-th that was read (`ReadComesFirst`): a
removal only takes some away, and so the next page goes on at that day or later. Unless
something was removed, what was there at the first page still is, and it has been read, a
page ended within its day, or its day has only places that are still to come
(`ReadUpToHere`): an addition can only move it on. At the last page all places have been read, or
`MAX_PAGES` is used up. `InvoicesOfAll` and `AttachedAll` carry this over to the
customers of `sales_rep`: sorting loses nothing, since with a strict order on a finite set
the number of those that precede an element takes each value below the size of the set
just once (`PrecedingIsOrder`, `OrderedBy`).

For `NamesFindTheirOwn`, `ParentsByName` shows that a parent, given or inferred, is the
class named like all but the last part. By induction on the rounds what is found is
named after the rep (`RoundFinds`, `BelowIsOfRep`), and a class r parts below one that
matches is found in r rounds; there are no more parts than classes in between, as each
is the name of another class (`AsManyRounds`). The inductions are written as least
counterexamples (`LeastNumber`), and that the recursive function is there at all as
one more of them (`RoundsExist`). `UnlikeIsAlone`, with `AloneByEmail` and
`AloneByName`, goes through the lists a customer may be the only member of. The assumptions are what QuickBooks is taken at its word
for: ids of invoices, customers and classes are unique and there are finitely many of them
(`ToolsAssumption`, `DirectoriesAssumption`), and so are the full names of classes, whose `ParentRef`
agrees with them if there is one (`ClassesAssumption`).

Only proved, and in no passing run: `NeverHandedToTwo` for one daemon that requeues
(`OneDaemonHandsOutOnce`); `runner_two` has more, `HandedOut`, for daemons that do not.

Only model-checked: the liveness properties (`EveryJobSettles`, `ShutdownCompletes`,
`EveryRunEnds`, `EveryAccessReturns`, `EveryWaiterReturns`), which need fairness and
`ENABLED`; and `ReportsKeepTheirData`, which is about sums over trees of any depth:
induction over data, for a fold of the library besides.

## 5. What is not modelled

* Texts, formatting and logging; of the command line and the prompts what a job may
  use and is told of is modelled (`JobEnv`), flags and sandbox settings are not.
* Arguments of tools that are refused before anything is asked, and the fields
  of invoices and reports that are only passed on.
* The parsing of configuration, the credentials of `jobctl`, rendering of rows,
  deployment.
* The bodies of HTTP requests, and how many connections there are: `Runner` knows
  whether one is in use, `AskCli` only that a daemon may be slow to end.
* The connection pool outside the broker: a call that finds no connection is a
  fault like any other.
* Encryption: a token can be read, or reading fails.
* Rows the application changes by hand; it is assumed to insert and delete only.
* SIGKILL takes effect at once, and a sweep sees its root as it is at one moment.

## 6. Plan

Every part that keeps state is modelled. What could be added is the listing of the
workspace root as several steps, with another daemon's directories coming and going
meanwhile, and the connection pool that the store, the API and the broker share.
