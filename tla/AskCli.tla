-------------------------------- MODULE AskCli --------------------------------
(***************************************************************************)
(* `jobctl ask` starting a daemon, and `jobctl ask --stop` stopping it     *)
(* (src/src/crates/jobctl/src/main.rs), with the daemon as they see it: a  *)
(* process with a number, an address and /health (src/src/main.rs,         *)
(* http.rs).  All that ties the two commands together is the PID file.     *)
(*                                                                         *)
(* Commands run side by side, in one directory and for one address.  They  *)
(* may be interrupted, an answer may not come in time, a daemon may die,   *)
(* and the number of one that is gone may be given to another process.     *)
(*                                                                         *)
(* mishaps is a history variable: what has happened that the commands do   *)
(* not guard against.                                                      *)
(***************************************************************************)
EXTENDS Naturals

CONSTANTS
    Asks,       \* runs of `jobctl ask`
    Stops,      \* runs of `jobctl ask --stop`
    Pids,       \* process numbers
    NoPid,      \* what is not one
    Polls,      \* how often start_runner asks whether the daemon is up
    MaxDeaths   \* bound: daemons that end without being asked to

ASSUME AskAssumption ==
    /\ Asks \cap Stops = {}
    /\ NoPid \notin Pids
    /\ {Polls, MaxDeaths} \subseteq Nat

VARIABLES
    proc,      \* number -> what the process with this number is
    pidFile,   \* the number in the PID file, or NoPid if there is no file
    pc,        \* command -> where it is
    pid,       \* ask -> its child; stop -> what it has read from the file
    polled,    \* ask -> polls so far
    asked,     \* the processes that have been sent SIGTERM
    deaths,    \* daemons that ended without being asked to
    mishaps

vars == <<proc, pidFile, pc, pid, polled, asked, deaths, mishaps>>

Commands == Asks \cup Stops

(* A daemon that has been told to stop answers nobody while it is          *)
(* "closing", but has the address until its connections are done; then its *)
(* jobs end ("draining").  A dead child has its number until it is reaped. *)
Procs == {"free", "starting", "serving", "closing", "draining", "dead", "stranger"}

(* An ask that is "ok" goes on to submit its job (JobApi).                 *)
Pcs == {"health", "spawn", "write", "poll", "check", "read", "kill", "remove", "ok", "error"}

Ended == {"ok", "error"}

(* Two commands at once, a daemon that serves but does not answer in time, *)
(* one that is not up after the last poll, a command that is interrupted,  *)
(* a file that cannot be written, a daemon that ends unasked.              *)
Mishaps == {"overlap", "no answer", "slow", "interrupted", "not written", "died"}

Init ==
    /\ proc = [p \in Pids |-> "free"]
    /\ pidFile = NoPid
    /\ pc = [c \in Commands |-> IF c \in Asks THEN "health" ELSE "read"]
    /\ pid = [c \in Commands |-> NoPid]
    /\ polled = [a \in Asks |-> 0]
    /\ asked = {}
    /\ deaths = 0
    /\ mishaps = {}

Serving == \E p \in Pids : proc[p] = "serving"

AddrTaken == \E p \in Pids : proc[p] \in {"serving", "closing"}

Go(c, to) == pc' = [pc EXCEPT ![c] = to]

Becomes(p, what) == proc' = [proc EXCEPT ![p] = what]

(* Between looking at the daemon or the file and being done.               *)
Acting == {"spawn", "write", "poll", "check", "kill", "remove"}

Midway(c) == \E d \in Commands \ {c} : pc[d] \in Acting

(* /health is answered by a daemon that serves, if in time.                *)
Answers == IF Serving THEN BOOLEAN ELSE {FALSE}

Note(answer, c) ==
    mishaps' = mishaps
        \cup (IF Serving /\ ~answer THEN {"no answer"} ELSE {})
        \cup (IF Midway(c) THEN {"overlap"} ELSE {})

-----------------------------------------------------------------------------
(* cmd_ask and start_runner.                                               *)

(* Mutant: a daemon is started first, to see whether it can be.            *)
StartsFirst(a) ==
    /\ pc[a] = "health"
    /\ Go(a, "spawn")
    /\ Note(TRUE, a)
    /\ UNCHANGED <<proc, pidFile, pid, polled, asked, deaths>>

Health(a) ==
    /\ pc[a] = "health"
    /\ \E answer \in Answers :
          /\ Go(a, IF answer THEN "ok" ELSE "spawn")
          /\ Note(answer, a)
    /\ UNCHANGED <<proc, pidFile, pid, polled, asked, deaths>>

(* --no-start, no executable next to jobctl, or no log file.               *)
CannotStart(a) ==
    /\ pc[a] = "spawn"
    /\ Go(a, "error")
    /\ UNCHANGED <<proc, pidFile, pid, polled, asked, deaths, mishaps>>

SpawnRunner(a) ==
    /\ pc[a] = "spawn"
    /\ \E p \in Pids :
          /\ proc[p] = "free"
          /\ Becomes(p, "starting")
          /\ pid' = [pid EXCEPT ![a] = p]
          /\ asked' = asked \ {p}
    /\ Go(a, "write")
    /\ UNCHANGED <<pidFile, polled, deaths, mishaps>>

(* Mutant: a file that is there already stays (create_new).                *)
WriteNewPidFile(a) ==
    /\ pc[a] = "write"
    /\ pidFile' = IF pidFile = NoPid THEN pid[a] ELSE pidFile
    /\ Go(a, "poll")
    /\ UNCHANGED <<proc, pid, polled, asked, deaths, mishaps>>

(* Whatever the file holds is replaced.                                    *)
WritePidFile(a) ==
    /\ pc[a] = "write"
    /\ pidFile' = pid[a]
    /\ Go(a, "poll")
    /\ UNCHANGED <<proc, pid, polled, asked, deaths, mishaps>>

(* The child is left to itself.                                            *)
WriteFails(a) ==
    /\ pc[a] = "write"
    /\ Go(a, "error")
    /\ mishaps' = mishaps \cup {"not written"}
    /\ UNCHANGED <<proc, pidFile, pid, polled, asked, deaths>>

(* Any daemon will do, not only the child.                                 *)
PollHealth(a) ==
    /\ pc[a] = "poll"
    /\ IF polled[a] = Polls
       THEN Go(a, "error") /\ mishaps' = mishaps \cup {"slow"}
       ELSE /\ \E answer \in Answers : Go(a, IF answer THEN "ok" ELSE "check")
            /\ UNCHANGED mishaps
    /\ UNCHANGED <<proc, pidFile, pid, polled, asked, deaths>>

(* try_wait: the child has exited, or there is another poll.               *)
TryWait(a) ==
    /\ pc[a] = "check"
    /\ Go(a, IF proc[pid[a]] = "dead" THEN "error" ELSE "poll")
    /\ polled' = [polled EXCEPT ![a] = @ + 1]
    /\ UNCHANGED <<proc, pidFile, pid, asked, deaths, mishaps>>

-----------------------------------------------------------------------------
(* stop_runner.                                                            *)

ReadPidFile(s) ==
    /\ pc[s] = "read"
    /\ IF pidFile = NoPid
       THEN Go(s, "error") /\ UNCHANGED <<pid, mishaps>>
       ELSE /\ Go(s, "kill")
            /\ pid' = [pid EXCEPT ![s] = pidFile]
            /\ Note(TRUE, s)
    /\ UNCHANGED <<proc, pidFile, polled, asked, deaths>>

(* SIGTERM before wait_for_signal has installed its handler ends a daemon  *)
(* on the spot; a second one changes nothing.                              *)
Terminated(p) ==
    CASE proc[p] = "starting" -> "dead"
      [] proc[p] = "serving"  -> "closing"
      [] OTHER                -> proc[p]

Kill(s) ==
    /\ pc[s] = "kill"
    /\ Becomes(pid[s], Terminated(pid[s]))
    /\ asked' = IF proc[pid[s]] \in {"starting", "serving", "closing", "draining", "stranger"}
                THEN asked \cup {pid[s]} ELSE asked
    /\ Go(s, "remove")
    /\ UNCHANGED <<pidFile, pid, polled, deaths, mishaps>>

(* Mutant: the file stays, with the number of a daemon that is ending.     *)
KeepPidFile(s) ==
    /\ pc[s] = "remove"
    /\ Go(s, "ok")
    /\ UNCHANGED <<proc, pidFile, pid, polled, asked, deaths, mishaps>>

(* Whether there was anyone to signal or not.                              *)
RemovePidFile(s) ==
    /\ pc[s] = "remove"
    /\ pidFile' = NoPid
    /\ Go(s, IF pidFile = NoPid THEN "error" ELSE "ok")
    /\ UNCHANGED <<proc, pid, polled, asked, deaths, mishaps>>

-----------------------------------------------------------------------------
(* Ctrl-C: a child is in a process group of its own and goes on.           *)

Interrupt(c) ==
    /\ pc[c] \notin Ended
    /\ Go(c, "error")
    /\ mishaps' = IF pc[c] \in {"write", "poll", "check", "remove"}
                THEN mishaps \cup {"interrupted"} ELSE mishaps
    /\ UNCHANGED <<proc, pidFile, pid, polled, asked, deaths>>

-----------------------------------------------------------------------------
(* The daemon.                                                             *)

Bind(p) ==
    /\ proc[p] = "starting"
    /\ IF AddrTaken
       THEN Becomes(p, "dead") /\ mishaps' = mishaps \cup {"died"}
       ELSE Becomes(p, "serving") /\ UNCHANGED mishaps
    /\ UNCHANGED <<pidFile, pc, pid, polled, asked, deaths>>

ShutsDown(p) ==
    /\ \/ proc[p] = "closing" /\ Becomes(p, "draining")
       \/ proc[p] = "draining" /\ Becomes(p, "dead")
    /\ UNCHANGED <<pidFile, pc, pid, polled, asked, deaths, mishaps>>

(* It cannot start, crashes, or is killed.                                 *)
Dies(p) ==
    /\ proc[p] \in {"starting", "serving", "closing", "draining"}
    /\ deaths < MaxDeaths
    /\ deaths' = deaths + 1
    /\ Becomes(p, "dead")
    /\ mishaps' = mishaps \cup {"died"}
    /\ UNCHANGED <<pidFile, pc, pid, polled, asked>>

(* The number of a process that has been reaped, by its ask or, once that  *)
(* has ended, by init, may be given to another process.                    *)
Reused(p) ==
    /\ proc[p] = "dead"
    /\ \A a \in Asks : pid[a] = p => pc[a] \in Ended
    /\ Becomes(p, "stranger")
    /\ asked' = asked \ {p}
    /\ UNCHANGED <<pidFile, pc, pid, polled, deaths, mishaps>>

-----------------------------------------------------------------------------

AskStep(a) ==
    \/ Health(a) \/ CannotStart(a) \/ SpawnRunner(a) \/ WritePidFile(a) \/ WriteFails(a)
    \/ PollHealth(a) \/ TryWait(a)

StopStep(s) == ReadPidFile(s) \/ Kill(s) \/ RemovePidFile(s)

DaemonStep(p) == Bind(p) \/ ShutsDown(p) \/ Dies(p) \/ Reused(p)

Next ==
    \/ \E a \in Asks : AskStep(a)
    \/ \E s \in Stops : StopStep(s)
    \/ \E c \in Commands : Interrupt(c)
    \/ \E p \in Pids : DaemonStep(p)

Spec == Init /\ [][Next]_vars

-----------------------------------------------------------------------------
(* Properties.                                                             *)

TypeOK ==
    /\ proc \in [Pids -> Procs]
    /\ pidFile \in Pids \cup {NoPid}
    /\ pc \in [Commands -> Pcs]
    /\ pid \in [Commands -> Pids \cup {NoPid}]
    /\ polled \in [Asks -> 0..Polls]
    /\ asked \subseteq Pids
    /\ deaths \in 0..MaxDeaths
    /\ mishaps \subseteq Mishaps

Happened(these) == mishaps \cap these # {}

(* `ask` starts a daemon beside one that starts or serves, whose running   *)
(* rows it would requeue, only if that one did not answer in time, two     *)
(* commands raced, or an earlier ask gave up on a daemon that was to come. *)
SecondStartExplained ==
    \A p, q \in Pids :
        p # q /\ proc[p] = "starting" /\ proc[q] \in {"starting", "serving"} =>
            Happened({"overlap", "no answer", "slow", "interrupted", "not written"})

(* The daemon that serves can be stopped: the PID file has its number,     *)
(* until it has been told to stop or while its ask is about to write it.   *)
(* What else can leave it without is named.                                *)
ServingIsOnFile ==
    \A p \in Pids :
        /\ proc[p] = "serving"
        /\ p \notin asked
        /\ ~\E a \in Asks : pc[a] = "write" /\ pid[a] = p
        => \/ pidFile = p
           \/ Happened({"overlap", "no answer", "slow", "interrupted", "not written"})

(* `ask --stop` signals a process that is no runner only if the runner on  *)
(* file had ended without it.                                              *)
StrangersLeftAlone ==
    (\E p \in asked : proc[p] = "stranger") => Happened({"died", "overlap", "interrupted"})

-----------------------------------------------------------------------------
(* What the properties rest on.                                            *)

Watching == {"write", "poll", "check"}

Unattended == {"overlap", "no answer", "slow", "interrupted", "not written"}

Up(p) == proc[p] \in {"starting", "serving"}

PlacesOfCommands ==
    /\ \A a \in Asks : /\ pc[a] \in {"health", "spawn"} \cup Watching \cup Ended
                       /\ pc[a] \in Watching => pid[a] \in Pids
                       /\ pc[a] = "check" => polled[a] < Polls
    /\ \A s \in Stops : /\ pc[s] \in {"read", "kill", "remove"} \cup Ended
                        /\ pc[s] \in {"kill", "remove"} => pid[s] \in Pids

(* Commands that do not overlap find the file as they left it.             *)
ActAlone ==
    "overlap" \notin mishaps =>
        /\ \A c, d \in Commands : pc[c] \in Acting /\ pc[d] \in Acting => c = d
        /\ \A s \in Stops : pc[s] \in {"kill", "remove"} => pidFile = pid[s]

OneDaemon ==
    ~Happened(Unattended) =>
        /\ \A p, q \in Pids : Up(p) /\ Up(q) => p = q
        /\ \A a \in Asks : pc[a] = "spawn" => \A p \in Pids : ~Up(p)
        /\ \A a \in Asks : pc[a] \in Watching => \A p \in Pids : Up(p) => p = pid[a]
        /\ \A p \in Pids :
               proc[p] = "starting" => \E a \in Asks : pc[a] \in Watching /\ pid[a] = p

OnFile ==
    ~Happened(Unattended) =>
        /\ \A p \in Pids \ asked :
               Up(p) => pidFile = p \/ \E a \in Asks : pc[a] = "write" /\ pid[a] = p
        /\ \A s \in Stops : pc[s] = "remove" /\ Up(pid[s]) => pid[s] \in asked

FileNamesRunner ==
    ~Happened({"died", "overlap", "interrupted"}) =>
        /\ \A a \in Asks : pc[a] = "write" => Up(pid[a])
        /\ pidFile # NoPid =>
               Up(pidFile) \/ \E s \in Stops : pc[s] = "remove" /\ pid[s] = pidFile
        /\ \A p \in asked : proc[p] # "stranger"

AskInv == PlacesOfCommands /\ ActAlone /\ OneDaemon /\ OnFile /\ FileNamesRunner
=============================================================================
