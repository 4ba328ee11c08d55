------------------------------- MODULE ClaudeRun -------------------------------
(***************************************************************************)
(* One run of claude: CliRunner::run (src/src/claude.rs) inside            *)
(* Worker::execute (src/src/worker.rs).                                    *)
(*                                                                         *)
(* The prompt goes in through one pipe while the answer and the messages   *)
(* of claude come out through two others, each of which holds Cap pieces   *)
(* at most: whoever writes to a full one or reads from an empty one waits. *)
(* Three tasks of the daemon serve them: the feeder of stdin and the two   *)
(* readers inside wait_with_output, which is done once claude has exited   *)
(* and both outputs have come to their end.  Meanwhile the timeout may     *)
(* fire, the job may be cancelled and the daemon killed.                   *)
(*                                                                         *)
(* A piece is a number; what is in a pipe is what went in less what came   *)
(* out.  SIGKILL takes effect at once.                                     *)
(***************************************************************************)
EXTENDS JobEnv, Naturals

CONSTANTS
    Prompt,    \* pieces of the prompt
    Report,    \* pieces of the report that --output-format json prints
    Noise,     \* bound: pieces that claude writes to stderr
    Cap        \* pieces that a pipe holds

ASSUME ClaudeAssumption == {Prompt, Report, Noise, Cap} \subseteq Nat /\ Cap > 0

VARIABLES
    job,       \* the settings, the requester, and what the broker answered
    pc,        \* where execute is
    end,       \* how the run ended
    unsent,    \* pieces of the prompt the feeder still has
    feeding,   \* the feeder is there and holds stdin open
    claude,    \* what claude is doing, and its exit code
    heard,     \* pieces of the prompt that claude has read
    said,      \* output -> pieces claude has written
    taken,     \* output -> pieces the daemon has read
    holds,     \* a process that claude started holds the outputs open
    session,   \* what jobctl-mcp has for this job, and whether it can connect
    told,      \* what the system prompt says
    dir        \* the workspace is there

daemonVars == <<job, pc, end, session, told, dir>>
pipeVars == <<unsent, feeding, heard, said, taken>>
vars == <<daemonVars, pipeVars, claude, holds>>

Outputs == {"out", "err"}

(* "over" is when run has returned or has been dropped, "removed" once the *)
(* workspace has been deleted; "killed" is the daemon's end.               *)
Pcs == {"access", "spawn", "waiting", "over", "removed", "killed"}

(* The errors of RunError, a report, or none of them.                      *)
Ends == {"none", "report", "spawn", "io", "timeout", "exited", "invalid", "cancelled"}

(* claude waits in "reading", "out" and "err" for a pipe.                  *)
Doings == {"none", "idle", "reading", "out", "err", "exited"}

Size(o) == IF o = "out" THEN Report ELSE Noise

InPipe(o) == said[o] - taken[o]

InStdin == Prompt - unsent - heard

Alive == claude.doing \notin {"none", "exited"}

Init ==
    /\ \E s \in Settings, row \in JobRow, leftover \in BOOLEAN :
           job = [settings |-> s, requester |-> RequesterOf(row), access |-> "none",
                  inherited |-> RunnerEnv(s, leftover)]
    /\ pc = "access"
    /\ end = "none"
    /\ unsent = Prompt
    /\ feeding = FALSE
    /\ claude = [doing |-> "none", ok |-> FALSE]
    /\ heard = 0
    /\ said = [o \in Outputs |-> 0]
    /\ taken = [o \in Outputs |-> 0]
    /\ holds = FALSE
    /\ session = [qbo |-> NoSession, tools |-> {}, works |-> FALSE]
    /\ told = {}
    /\ dir = TRUE

-----------------------------------------------------------------------------
(* CliRunner::run.                                                         *)

(* broker.access, if there is a broker, a requester and jobctl-mcp.        *)
Access ==
    /\ pc = "access"
    /\ \E a \in IF AsksBroker(job.settings, job.requester)
                THEN {"unavailable", "connected"} ELSE {"none"} :
           job' = [job EXCEPT !.access = a]
    /\ pc' = "spawn"
    /\ UNCHANGED <<end, session, told, dir, pipeVars, claude, holds>>

Spawn ==
    /\ pc = "spawn"
    /\ pc' = "waiting"
    /\ claude' = [claude EXCEPT !.doing = "idle"]
    /\ feeding' = TRUE
    /\ LET env == Environment(job.settings, job.requester, job.access, job.inherited)
       IN  session' = [qbo   |-> SessionOf(env),
                       tools |-> ToolsOf(job.settings, SessionOf(env)),
                       works |-> Works(env)]
    /\ told' = SystemPrompt(job.settings, job.requester, job.access)
    /\ UNCHANGED <<job, end, dir, unsent, heard, said, taken, holds>>

SpawnFails ==
    /\ pc = "spawn"
    /\ pc' = "over"
    /\ end' = "spawn"
    /\ UNCHANGED <<job, session, told, dir, pipeVars, claude, holds>>

(* The feeder: write_all, then drop(stdin), which claude sees as the end   *)
(* of its input.  A write fails when nobody is there to read.              *)
CanFeed == feeding /\ (unsent = 0 \/ ~Alive \/ InStdin < Cap)

Feed ==
    /\ CanFeed
    /\ IF unsent = 0 \/ ~Alive
       THEN feeding' = FALSE /\ UNCHANGED unsent
       ELSE unsent' = unsent - 1 /\ UNCHANGED feeding
    /\ UNCHANGED <<daemonVars, heard, said, taken, claude, holds>>

(* Mutant: the prompt is written first and the outputs are read after it.  *)
CanDrainOnceFed(o) == pc = "waiting" /\ InPipe(o) > 0 /\ ~feeding

(* The two readers of wait_with_output.                                    *)
CanDrain(o) == pc = "waiting" /\ InPipe(o) > 0

Drain(o) ==
    /\ CanDrain(o)
    /\ taken' = [taken EXCEPT ![o] = @ + 1]
    /\ UNCHANGED <<daemonVars, unsent, feeding, heard, said, claude, holds>>

(* parse_report first, whatever the exit code; then the errors.            *)
Parsed ==
    IF taken["out"] = Report THEN "report" ELSE IF claude.ok THEN "invalid" ELSE "exited"

(* Mutant: wait() alone, which does not look at the outputs.               *)
ReturnsAtExit ==
    /\ pc = "waiting"
    /\ claude.doing = "exited"
    /\ end' = Parsed
    /\ pc' = "over"
    /\ feeding' = FALSE
    /\ UNCHANGED <<job, session, told, dir, unsent, heard, said, taken, claude, holds>>

(* wait_with_output: claude has exited, and both outputs have ended, which *)
(* they do when nobody holds them open any more.  The feeder is aborted.   *)
Returns ==
    /\ pc = "waiting"
    /\ claude.doing = "exited"
    /\ ~holds
    /\ \A o \in Outputs : InPipe(o) = 0
    /\ end' = Parsed
    /\ pc' = "over"
    /\ feeding' = FALSE
    /\ UNCHANGED <<job, session, told, dir, unsent, heard, said, taken, claude, holds>>

(* Mutant: no kill_on_drop.                                                *)
DropOnly == UNCHANGED claude

(* Dropping wait_with_output drops the child, which kills it, but not what *)
(* it has started.                                                         *)
KillOnDrop == claude' = IF Alive THEN [doing |-> "exited", ok |-> FALSE] ELSE claude

(* Mutant: the timeout is on the exit of claude only.                      *)
ExitTimesOut ==
    /\ pc = "waiting"
    /\ Alive
    /\ end' = "timeout"
    /\ pc' = "over"
    /\ feeding' = FALSE
    /\ KillOnDrop
    /\ UNCHANGED <<job, session, told, dir, unsent, heard, said, taken, holds>>

(* The timeout covers the whole of wait_with_output, so it may come after  *)
(* claude has exited, while something holds its outputs open.              *)
TimesOut ==
    /\ pc = "waiting"
    /\ end' = "timeout"
    /\ pc' = "over"
    /\ feeding' = FALSE
    /\ KillOnDrop
    /\ UNCHANGED <<job, session, told, dir, unsent, heard, said, taken, holds>>

WaitFails ==
    /\ pc = "waiting"
    /\ end' = "io"
    /\ pc' = "over"
    /\ feeding' = FALSE
    /\ KillOnDrop
    /\ UNCHANGED <<job, session, told, dir, unsent, heard, said, taken, holds>>

-----------------------------------------------------------------------------
(* Worker::execute around it.                                              *)

(* The token is cancelled and run is dropped where it is.  A feeder that   *)
(* was spawned is not: it goes on until its writes fail.                   *)
Cancelled ==
    /\ pc \in {"access", "spawn", "waiting"}
    /\ end' = "cancelled"
    /\ pc' = "over"
    /\ KillOnDrop
    /\ UNCHANGED <<job, session, told, dir, pipeVars, holds>>

(* Removing fails with a log line only.                                    *)
RemoveWorkspace ==
    /\ pc = "over"
    /\ pc' = "removed"
    /\ dir' \in {FALSE, dir}
    /\ UNCHANGED <<job, end, session, told, pipeVars, claude, holds>>

(* The daemon is killed: the feeder dies with it, and nothing kills claude.*)
DaemonKilled ==
    /\ pc \notin {"removed", "killed"}
    /\ pc' = "killed"
    /\ feeding' = FALSE
    /\ UNCHANGED <<job, end, session, told, dir, unsent, heard, said, taken, claude, holds>>

(* The next start sweeps the workspaces.                                   *)
Sweep ==
    /\ pc = "killed"
    /\ dir
    /\ dir' = FALSE
    /\ UNCHANGED <<job, pc, end, session, told, pipeVars, claude, holds>>

-----------------------------------------------------------------------------
(* claude, as far as its pipes go.                                         *)

(* What it has begun it has to wait for.                                   *)
Begins ==
    /\ claude.doing = "idle"
    /\ \E what \in {"reading"} \cup {o \in Outputs : said[o] < Size(o)} :
           claude' = [claude EXCEPT !.doing = what]
    /\ UNCHANGED <<daemonVars, pipeVars, holds>>

Reads ==
    /\ claude.doing = "reading"
    /\ InStdin > 0 \/ ~feeding
    /\ heard' = IF InStdin > 0 THEN heard + 1 ELSE heard
    /\ claude' = [claude EXCEPT !.doing = "idle"]
    /\ UNCHANGED <<daemonVars, unsent, feeding, said, taken, holds>>

Writes(o) ==
    /\ claude.doing = o
    /\ pc = "waiting"
    /\ InPipe(o) < Cap
    /\ said' = [said EXCEPT ![o] = @ + 1]
    /\ claude' = [claude EXCEPT !.doing = "idle"]
    /\ UNCHANGED <<daemonVars, unsent, feeding, heard, taken, holds>>

(* It exits of itself, or is killed by something else or by a write that   *)
(* nobody reads any more.                                                  *)
Exits ==
    /\ Alive
    /\ claude' \in [doing : {"exited"}, ok : IF claude.doing = "idle" THEN BOOLEAN ELSE {FALSE}]
    /\ UNCHANGED <<daemonVars, pipeVars, holds>>

(* A process that it has started may outlive it and holds its outputs.     *)
Descendant ==
    /\ holds \/ Alive
    /\ holds' = ~holds
    /\ UNCHANGED <<daemonVars, pipeVars, claude>>

-----------------------------------------------------------------------------

RunStep == Access \/ Spawn \/ SpawnFails \/ Feed \/ Returns \/ \E o \in Outputs : Drain(o)

ClaudeStep == Begins \/ Reads \/ Exits \/ Descendant \/ \E o \in Outputs : Writes(o)

Next ==
    \/ RunStep
    \/ TimesOut \/ WaitFails
    \/ Cancelled \/ RemoveWorkspace
    \/ DaemonKilled \/ Sweep
    \/ ClaudeStep

Spec == Init /\ [][Next]_vars

(* The tasks of the daemon go on and the timeout fires; nothing is asked   *)
(* of claude or of what it starts.                                         *)
Fairness ==
    /\ WF_vars(Access)
    /\ WF_vars(Spawn \/ SpawnFails)
    /\ WF_vars(Feed)
    /\ WF_vars(TimesOut)

FairSpec == Spec /\ Fairness

-----------------------------------------------------------------------------
(* Properties.                                                             *)

TypeOK ==
    /\ job \in [settings : Settings, requester : Requesters, access : Accesses,
                inherited : [Names -> {"own", "1", "unset"}]]
    /\ pc \in Pcs
    /\ end \in Ends
    /\ unsent \in Nat
    /\ feeding \in BOOLEAN
    /\ claude \in [doing : Doings, ok : BOOLEAN]
    /\ heard \in Nat
    /\ said \in [Outputs -> Nat]
    /\ taken \in [Outputs -> Nat]
    /\ InStdin \in 0..Cap
    /\ \A o \in Outputs : InPipe(o) \in 0..Cap /\ said[o] <= Size(o)
    /\ holds \in BOOLEAN
    /\ session.tools \subseteq Tools /\ session.works \in BOOLEAN
    /\ told \subseteq Facts
    /\ dir \in BOOLEAN

ClaudeWaits ==
    \/ claude.doing = "reading" /\ feeding /\ InStdin = 0
    \/ \E o \in Outputs : claude.doing = o /\ InPipe(o) = Cap

(* While the daemon waits for claude, nobody waits in a circle: a claude   *)
(* that is held up by a pipe is held up by a task of the daemon that can   *)
(* go on, however long the prompt and however much claude prints.          *)
NoPipeDeadlock ==
    pc = "waiting" /\ ClaudeWaits => CanFeed \/ \E o \in Outputs : CanDrain(o)

(* A run is decided by all that claude has written, not by what had been   *)
(* read when it exited: it is reported exactly when there is a report.     *)
WholeAnswerCounts ==
    /\ end = "report" => said["out"] = Report
    /\ end \in {"invalid", "exited"} => said["out"] < Report

(* claude is gone when its workspace is deleted.  Only a daemon that was   *)
(* killed leaves it running, without a workspace once the next one sweeps. *)
GoneWithItsWorkspace == ~dir /\ Alive => pc = "killed"

(* What the properties above rest on.                                      *)
RunInv ==
    /\ pc \in {"over", "removed"} => ~Alive
    /\ pc \in {"access", "spawn"} => ~Alive /\ said["out"] = 0
    /\ ~dir => pc \in {"removed", "killed"}
    /\ end # "none" => pc \notin {"access", "spawn", "waiting"}
    /\ claude.doing = "out" => said["out"] < Report
    /\ claude.doing = "err" => said["err"] < Noise

(* The tools of a job act for its requester, in his company and with his   *)
(* rights, or there are none, whatever the daemon itself was started with. *)
ToolsActForRequester ==
    \/ session.qbo = NoSession
    \/ /\ session.qbo.scope = job.requester
       /\ job.requester # NoRequester
       /\ session.qbo.token = "token"

(* The model is told of the QuickBooks tools that are listed for it, no    *)
(* more and no fewer, and of the database exactly if sql can reach one;    *)
(* that no tools are there is explained only if it is so.  Whether the     *)
(* listed QuickBooks tools work without a database is not part of it.      *)
ToldWhatItHas ==
    Alive =>
        /\ told \cap {"qbo", "qbo admin"} = session.tools \cap {"qbo", "qbo admin"}
        /\ "database" \in told <=> "sql" \in session.tools /\ session.works
        /\ "no qbo" \in told => session.qbo = NoSession
        /\ session.qbo # NoSession => "company only" \in told

(* Every run comes to its end, and so does its feeder, whatever claude and *)
(* its descendants do.                                                     *)
EveryRunEnds ==
    pc \in {"access", "spawn", "waiting"} ~> pc \in {"over", "removed", "killed"} /\ ~feeding
=============================================================================
