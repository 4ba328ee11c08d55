------------------------------ MODULE AskCliProofs ------------------------------
(***************************************************************************)
(* What `jobctl ask` and `jobctl ask --stop` do to each other and to the   *)
(* daemons, for any number of commands, of numbers and of deaths.          *)
(***************************************************************************)
EXTENDS AskCli, TLAPS

USE AskAssumption

LEMMA TerminatedIs ==
    ASSUME TypeOK, NEW p \in Pids
    PROVE  /\ proc[p] = "starting" => Terminated(p) = "dead"
           /\ proc[p] = "serving" => Terminated(p) = "closing"
           /\ ~Up(p) => Terminated(p) = proc[p]
           /\ Terminated(p) \in Procs \ {"starting", "serving"}
BY DEF TypeOK, Terminated, Up, Procs

(* What has happened has happened.                                         *)
LEMMA MishapsStay ==
    ASSUME TypeOK, [Next]_vars
    PROVE  mishaps \subseteq mishaps'
BY DEF TypeOK, Next, AskStep, StopStep, DaemonStep, Health, CannotStart, SpawnRunner,
       WritePidFile,
       WriteFails, PollHealth, TryWait, ReadPidFile, Kill, RemovePidFile, Interrupt, Bind,
       ShutsDown, Dies, Reused, Note, vars

-----------------------------------------------------------------------------
(* Every step keeps the types.                                             *)
LEMMA TypeStep ==
    ASSUME TypeOK, PlacesOfCommands, [Next]_vars
    PROVE  TypeOK'
<1>1. ASSUME NEW a \in Asks, Health(a)
      PROVE  TypeOK'
  BY <1>1 DEF Health, Note, Go, TypeOK, Commands, Procs, Pcs, Mishaps
<1>2. ASSUME NEW a \in Asks, CannotStart(a)
      PROVE  TypeOK'
  BY <1>2 DEF CannotStart, Go, TypeOK, Commands, Procs, Pcs, Mishaps
<1>3. ASSUME NEW a \in Asks, SpawnRunner(a)
      PROVE  TypeOK'
  <2>1. PICK p \in Pids : proc' = [proc EXCEPT ![p] = "starting"] /\ pid' = [pid EXCEPT ![a] = p]
                          /\ asked' = asked \ {p}
    BY <1>3 DEF SpawnRunner, Becomes
  <2>2. proc' \in [Pids -> Procs] /\ pid' \in [Commands -> Pids \cup {NoPid}]
    BY <2>1 DEF TypeOK, Procs, Commands
  <2> QED BY <1>3, <2>1, <2>2 DEF SpawnRunner, Go, TypeOK, Commands, Pcs
<1>4. ASSUME NEW a \in Asks, WritePidFile(a)
      PROVE  TypeOK'
  BY <1>4 DEF WritePidFile, Go, TypeOK, Commands, Procs, Pcs, Mishaps
<1>5. ASSUME NEW a \in Asks, WriteFails(a)
      PROVE  TypeOK'
  BY <1>5 DEF WriteFails, Go, TypeOK, Commands, Procs, Pcs, Mishaps
<1>6. ASSUME NEW a \in Asks, PollHealth(a)
      PROVE  TypeOK'
  BY <1>6 DEF PollHealth, Go, TypeOK, Commands, Procs, Pcs, Mishaps
<1>7. ASSUME NEW a \in Asks, TryWait(a)
      PROVE  TypeOK'
  <2>1. polled[a] + 1 \in 0..Polls
    BY <1>7 DEF TryWait, TypeOK, PlacesOfCommands
  <2> QED BY <1>7, <2>1 DEF TryWait, Go, TypeOK, Commands, Pcs
<1>8. ASSUME NEW s \in Stops, ReadPidFile(s)
      PROVE  TypeOK'
  <2>1. UNCHANGED <<proc, pidFile, polled, asked, deaths>>
    BY <1>8 DEF ReadPidFile
  <2>2. s \in Commands
    BY DEF Commands
  <2>3. CASE pidFile = NoPid
    BY <1>8, <2>1, <2>2, <2>3 DEF ReadPidFile, Go, TypeOK, Pcs
  <2>4. CASE pidFile # NoPid
    <3>1. /\ pc' = [pc EXCEPT ![s] = "kill"]
          /\ pid' = [pid EXCEPT ![s] = pidFile]
          /\ Note(TRUE, s)
      BY <1>8, <2>4 DEF ReadPidFile, Go
    <3>2. mishaps' \subseteq Mishaps
      BY <3>1 DEF Note, TypeOK, Mishaps
    <3>3. pc' \in [Commands -> Pcs] /\ pid' \in [Commands -> Pids \cup {NoPid}]
      BY <2>2, <3>1 DEF TypeOK, Pcs
    <3> QED BY <2>1, <3>2, <3>3 DEF TypeOK
  <2> QED BY <2>3, <2>4
<1>9. ASSUME NEW s \in Stops, Kill(s)
      PROVE  TypeOK'
  <2>1. proc' \in [Pids -> Procs]
    BY <1>9, TerminatedIs DEF Kill, Becomes, TypeOK, PlacesOfCommands
  <2>2. asked' \subseteq Pids
    BY <1>9 DEF Kill, TypeOK, PlacesOfCommands
  <2> QED BY <1>9, <2>1, <2>2 DEF Kill, Go, TypeOK, Commands, Pcs
<1>10. ASSUME NEW s \in Stops, RemovePidFile(s)
      PROVE  TypeOK'
  BY <1>10 DEF RemovePidFile, Go, TypeOK, Commands, Procs, Pcs, Mishaps
<1>11. ASSUME NEW c \in Commands, Interrupt(c)
      PROVE  TypeOK'
  BY <1>11 DEF Interrupt, Go, TypeOK, Commands, Procs, Pcs, Mishaps
<1>12. ASSUME NEW p \in Pids, Bind(p)
      PROVE  TypeOK'
  BY <1>12 DEF Bind, Becomes, TypeOK, Commands, Procs, Pcs, Mishaps
<1>13. ASSUME NEW p \in Pids, ShutsDown(p)
      PROVE  TypeOK'
  BY <1>13 DEF ShutsDown, Becomes, TypeOK, Commands, Procs, Pcs, Mishaps
<1>14. ASSUME NEW p \in Pids, Dies(p)
      PROVE  TypeOK'
  <2>1. proc' \in [Pids -> Procs]
    BY <1>14 DEF Dies, Becomes, TypeOK, Procs
  <2>2. deaths' \in 0..MaxDeaths
    BY <1>14 DEF Dies, TypeOK
  <2>3. mishaps' \subseteq Mishaps
    BY <1>14 DEF Dies, TypeOK, Mishaps
  <2> QED BY <1>14, <2>1, <2>2, <2>3 DEF Dies, TypeOK
<1>15. ASSUME NEW p \in Pids, Reused(p)
      PROVE  TypeOK'
  BY <1>15 DEF Reused, Becomes, TypeOK, Commands, Procs, Pcs, Mishaps
<1>16. CASE UNCHANGED vars
  BY <1>16 DEF vars, TypeOK, Commands, Procs, Pcs, Mishaps
<1> QED BY <1>1, <1>2, <1>3, <1>4, <1>5, <1>6, <1>7, <1>8, <1>9,
           <1>10, <1>11, <1>12, <1>13, <1>14, <1>15, <1>16
        DEF Next, AskStep, StopStep, DaemonStep

-----------------------------------------------------------------------------
(* An ask is where asks can be, with its child's number, a stop likewise.  *)
LEMMA PlacesStep ==
    ASSUME TypeOK, PlacesOfCommands, [Next]_vars
    PROVE  PlacesOfCommands'
<1>1. ASSUME NEW a \in Asks, Health(a)
      PROVE  PlacesOfCommands'
  BY <1>1 DEF Health, Note, Go, TypeOK, PlacesOfCommands, Commands, Watching, Ended
<1>2. ASSUME NEW a \in Asks, CannotStart(a)
      PROVE  PlacesOfCommands'
  BY <1>2 DEF CannotStart, Go, TypeOK, PlacesOfCommands, Commands, Watching, Ended
<1>3. ASSUME NEW a \in Asks, SpawnRunner(a)
      PROVE  PlacesOfCommands'
  BY <1>3 DEF SpawnRunner, Go, Becomes, TypeOK, PlacesOfCommands, Commands, Watching, Ended
<1>4. ASSUME NEW a \in Asks, WritePidFile(a)
      PROVE  PlacesOfCommands'
  BY <1>4 DEF WritePidFile, Go, TypeOK, PlacesOfCommands, Commands, Watching, Ended
<1>5. ASSUME NEW a \in Asks, WriteFails(a)
      PROVE  PlacesOfCommands'
  BY <1>5 DEF WriteFails, Go, TypeOK, PlacesOfCommands, Commands, Watching, Ended
<1>6. ASSUME NEW a \in Asks, PollHealth(a)
      PROVE  PlacesOfCommands'
  BY <1>6 DEF PollHealth, Go, TypeOK, PlacesOfCommands, Commands, Watching, Ended
<1>7. ASSUME NEW a \in Asks, TryWait(a)
      PROVE  PlacesOfCommands'
  BY <1>7 DEF TryWait, Go, TypeOK, PlacesOfCommands, Commands, Watching, Ended
<1>8. ASSUME NEW s \in Stops, ReadPidFile(s)
      PROVE  PlacesOfCommands'
  BY <1>8 DEF ReadPidFile, Note, Go, TypeOK, PlacesOfCommands, Commands, Watching, Ended
<1>9. ASSUME NEW s \in Stops, Kill(s)
      PROVE  PlacesOfCommands'
  BY <1>9 DEF Kill, Go, Becomes, TypeOK, PlacesOfCommands, Commands, Watching, Ended
<1>10. ASSUME NEW s \in Stops, RemovePidFile(s)
      PROVE  PlacesOfCommands'
  BY <1>10 DEF RemovePidFile, Go, TypeOK, PlacesOfCommands, Commands, Watching, Ended
<1>11. ASSUME NEW c \in Commands, Interrupt(c)
      PROVE  PlacesOfCommands'
  BY <1>11 DEF Interrupt, Go, TypeOK, PlacesOfCommands, Commands, Watching, Ended
<1>12. ASSUME NEW p \in Pids, Bind(p)
      PROVE  PlacesOfCommands'
  BY <1>12 DEF Bind, Becomes, TypeOK, PlacesOfCommands, Commands, Watching, Ended
<1>13. ASSUME NEW p \in Pids, ShutsDown(p)
      PROVE  PlacesOfCommands'
  BY <1>13 DEF ShutsDown, Becomes, TypeOK, PlacesOfCommands, Commands, Watching, Ended
<1>14. ASSUME NEW p \in Pids, Dies(p)
      PROVE  PlacesOfCommands'
  BY <1>14 DEF Dies, Becomes, TypeOK, PlacesOfCommands, Commands, Watching, Ended
<1>15. ASSUME NEW p \in Pids, Reused(p)
      PROVE  PlacesOfCommands'
  BY <1>15 DEF Reused, Becomes, TypeOK, PlacesOfCommands, Commands, Watching, Ended
<1>16. CASE UNCHANGED vars
  BY <1>16 DEF vars, TypeOK, PlacesOfCommands, Commands, Watching, Ended
<1> QED BY <1>1, <1>2, <1>3, <1>4, <1>5, <1>6, <1>7, <1>8, <1>9,
           <1>10, <1>11, <1>12, <1>13, <1>14, <1>15, <1>16
        DEF Next, AskStep, StopStep, DaemonStep

-----------------------------------------------------------------------------
(* Until two overlap, one command acts at a time, on the file it has read. *)
LEMMA AloneStep ==
    ASSUME TypeOK, PlacesOfCommands, ActAlone, [Next]_vars
    PROVE  ActAlone'
<1>1. ASSUME NEW a \in Asks, Health(a)
      PROVE  ActAlone'
  <2>1. /\ "overlap" \notin mishaps' => "overlap" \notin mishaps /\ ~Midway(a)
        /\ \A d \in Commands \ {a} : pc'[d] = pc[d]
        /\ UNCHANGED <<pid, pidFile>>
    BY <1>1 DEF Health, Note, Go, TypeOK, Commands
  <2>2. a \in Commands /\ a \notin Stops
    BY DEF Commands
  <2> QED BY <2>1, <2>2 DEF ActAlone, Midway, Commands
<1>2. ASSUME NEW a \in Asks, CannotStart(a)
      PROVE  ActAlone'
  BY <1>2 DEF CannotStart, Go, TypeOK, PlacesOfCommands, ActAlone, Acting, Commands,
         Watching, Ended
<1>3. ASSUME NEW a \in Asks, SpawnRunner(a)
      PROVE  ActAlone'
  BY <1>3 DEF SpawnRunner, Go, Becomes, TypeOK, PlacesOfCommands, ActAlone, Acting,
         Commands, Watching, Ended
<1>4. ASSUME NEW a \in Asks, WritePidFile(a)
      PROVE  ActAlone'
  BY <1>4 DEF WritePidFile, Go, TypeOK, PlacesOfCommands, ActAlone, Acting, Commands,
         Watching, Ended
<1>5. ASSUME NEW a \in Asks, WriteFails(a)
      PROVE  ActAlone'
  BY <1>5 DEF WriteFails, Go, TypeOK, PlacesOfCommands, ActAlone, Acting, Commands,
         Watching, Ended
<1>6. ASSUME NEW a \in Asks, PollHealth(a)
      PROVE  ActAlone'
  BY <1>6 DEF PollHealth, Go, TypeOK, PlacesOfCommands, ActAlone, Acting, Commands,
         Watching, Ended
<1>7. ASSUME NEW a \in Asks, TryWait(a)
      PROVE  ActAlone'
  BY <1>7 DEF TryWait, Go, TypeOK, PlacesOfCommands, ActAlone, Acting, Commands, Watching,
         Ended
<1>8. ASSUME NEW s \in Stops, ReadPidFile(s)
      PROVE  ActAlone'
  <2>1. CASE pidFile = NoPid
    BY <1>8, <2>1 DEF ReadPidFile, Go, TypeOK, ActAlone, Acting, Commands
  <2>2. CASE pidFile # NoPid
    <3>1. /\ "overlap" \notin mishaps' => "overlap" \notin mishaps /\ ~Midway(s)
          /\ \A d \in Commands \ {s} : pc'[d] = pc[d] /\ pid'[d] = pid[d]
          /\ pid'[s] = pidFile /\ pidFile' = pidFile
      BY <1>8, <2>2 DEF ReadPidFile, Note, Go, TypeOK, Commands
    <3>2. s \in Commands /\ {"kill", "remove"} \subseteq Acting
      BY DEF Commands, Acting
    <3> QED BY <3>1, <3>2 DEF ActAlone, Midway, Commands
  <2> QED BY <2>1, <2>2
<1>9. ASSUME NEW s \in Stops, Kill(s)
      PROVE  ActAlone'
  BY <1>9 DEF Kill, Go, Becomes, TypeOK, PlacesOfCommands, ActAlone, Acting, Commands,
         Watching, Ended
<1>10. ASSUME NEW s \in Stops, RemovePidFile(s)
      PROVE  ActAlone'
  BY <1>10 DEF RemovePidFile, Go, TypeOK, PlacesOfCommands, ActAlone, Acting, Commands,
         Watching, Ended
<1>11. ASSUME NEW c \in Commands, Interrupt(c)
      PROVE  ActAlone'
  BY <1>11 DEF Interrupt, Go, TypeOK, PlacesOfCommands, ActAlone, Acting, Commands,
         Watching, Ended
<1>12. ASSUME NEW p \in Pids, Bind(p)
      PROVE  ActAlone'
  BY <1>12 DEF Bind, Becomes, TypeOK, PlacesOfCommands, ActAlone, Acting, Commands,
         Watching, Ended
<1>13. ASSUME NEW p \in Pids, ShutsDown(p)
      PROVE  ActAlone'
  BY <1>13 DEF ShutsDown, Becomes, TypeOK, PlacesOfCommands, ActAlone, Acting, Commands,
         Watching, Ended
<1>14. ASSUME NEW p \in Pids, Dies(p)
      PROVE  ActAlone'
  BY <1>14 DEF Dies, Becomes, TypeOK, PlacesOfCommands, ActAlone, Acting, Commands,
         Watching, Ended
<1>15. ASSUME NEW p \in Pids, Reused(p)
      PROVE  ActAlone'
  BY <1>15 DEF Reused, Becomes, TypeOK, PlacesOfCommands, ActAlone, Acting, Commands,
         Watching, Ended
<1>16. CASE UNCHANGED vars
  BY <1>16 DEF vars, TypeOK, PlacesOfCommands, ActAlone, Acting, Commands, Watching, Ended
<1> QED BY <1>1, <1>2, <1>3, <1>4, <1>5, <1>6, <1>7, <1>8, <1>9,
           <1>10, <1>11, <1>12, <1>13, <1>14, <1>15, <1>16
        DEF Next, AskStep, StopStep, DaemonStep

-----------------------------------------------------------------------------
(* What daemons and stops do leaves fewer daemons for the asks.            *)
LEMMA FewerDaemons ==
    ASSUME OneDaemon, mishaps \subseteq mishaps',
           \A a \in Asks : pc'[a] = pc[a] /\ pid'[a] = pid[a],
           \A p \in Pids : /\ Up(p)' => Up(p)
                           /\ proc'[p] = "starting" => proc[p] = "starting"
    PROVE  OneDaemon'
BY DEF OneDaemon, Happened

(* Asks that go on as they should leave no child unattended.               *)
LEMMA AsksMoveOn ==
    ASSUME OneDaemon, UNCHANGED <<proc, pid>>, mishaps \subseteq mishaps',
           \A a \in Asks : /\ pc'[a] = "spawn" => pc[a] = "spawn"
                           /\ pc'[a] \in Watching => pc[a] \in Watching,
           mishaps' \cap Unattended = {} =>
               \A a \in Asks : pc[a] \in Watching /\ proc[pid[a]] = "starting" => pc'[a] \in Watching
    PROVE  OneDaemon'
<1> SUFFICES ASSUME mishaps' \cap Unattended = {}
             PROVE  OneDaemon'
  BY DEF OneDaemon, Happened
<1>1. mishaps \cap Unattended = {}
  OBVIOUS
<1>2. /\ \A p, q \in Pids : Up(p) /\ Up(q) => p = q
      /\ \A a \in Asks : pc[a] = "spawn" => \A p \in Pids : ~Up(p)
      /\ \A a \in Asks : pc[a] \in Watching => \A p \in Pids : Up(p) => p = pid[a]
      /\ \A p \in Pids : proc[p] = "starting" => \E a \in Asks : pc[a] \in Watching /\ pid[a] = p
  BY <1>1 DEF OneDaemon, Happened
<1>3. \A p : Up(p)' <=> Up(p)
  BY DEF Up
<1>4. \A p \in Pids : proc'[p] = "starting" => \E a \in Asks : pc'[a] \in Watching /\ pid'[a] = p
  BY <1>2
<1> QED BY <1>2, <1>3, <1>4 DEF OneDaemon

(* Until an ask leaves its child unattended there is one daemon at most,   *)
(* and while it starts its ask watches it.                                 *)
LEMMA OneDaemonStep ==
    ASSUME TypeOK, PlacesOfCommands, ActAlone, OneDaemon, [Next]_vars
    PROVE  OneDaemon'
<1>1. ASSUME NEW a \in Asks, Health(a)
      PROVE  OneDaemon'
  <2>1. PICK answer \in BOOLEAN :
            /\ pc' = [pc EXCEPT ![a] = IF answer THEN "ok" ELSE "spawn"]
            /\ Note(answer, a)
    BY <1>1 DEF Health, Answers, Go
  <2>2. UNCHANGED <<proc, pid>> /\ mishaps \subseteq mishaps' /\ pc[a] = "health"
    BY <1>1, MishapsStay DEF Health
  <2>3. /\ pc'[a] = IF answer THEN "ok" ELSE "spawn"
        /\ \A b \in Asks \ {a} : pc'[b] = pc[b]
    BY <2>1 DEF TypeOK, Commands
  <2>4. ASSUME ~Happened(Unattended)', ~answer, NEW p \in Pids, Up(p)
        PROVE  FALSE
    <3>1. ~Midway(a) /\ ~Serving
      BY <2>1, <2>4 DEF Note, Happened, Unattended
    <3>2. proc[p] = "starting"
      BY <2>4, <3>1 DEF Up, Serving
    <3>3. PICK b \in Asks : pc[b] \in Watching
      BY <2>2, <2>4, <3>2 DEF OneDaemon, Happened
    <3> QED BY <2>2, <3>1, <3>3 DEF Midway, Watching, Acting, Commands
  <2>5. ~Happened(Unattended)' => ~Happened(Unattended)
    BY <2>2 DEF Happened
  <2>6. \A b \in Asks : pc'[b] \in Watching => pc[b] \in Watching
    BY <2>3 DEF Watching
  <2>7. \A b \in Asks : pc[b] \in Watching => pc'[b] \in Watching
    BY <2>2, <2>3 DEF Watching
  <2>8. \A p \in Pids : Up(p)' <=> Up(p)
    BY <2>2 DEF Up
  <2> QED BY <2>2, <2>3, <2>4, <2>5, <2>6, <2>7, <2>8 DEF OneDaemon
<1>2. ASSUME NEW a \in Asks, CannotStart(a)
      PROVE  OneDaemon'
  BY <1>2 DEF CannotStart, Go, TypeOK, PlacesOfCommands, ActAlone, OneDaemon, Acting,
         Commands, Watching, Ended, Happened, Unattended, Up
<1>3. ASSUME NEW a \in Asks, SpawnRunner(a)
      PROVE  OneDaemon'
  <2>1. PICK p \in Pids : proc' = [proc EXCEPT ![p] = "starting"] /\ pid' = [pid EXCEPT ![a] = p]
    BY <1>3 DEF SpawnRunner, Becomes
  <2>2. pc[a] = "spawn" /\ pc' = [pc EXCEPT ![a] = "write"] /\ mishaps' = mishaps
    BY <1>3 DEF SpawnRunner, Go
  <2>3. SUFFICES ASSUME ~Happened(Unattended)
                 PROVE  OneDaemon'
    BY <2>2 DEF OneDaemon, Happened
  <2>4. \A q \in Pids : Up(q)' <=> q = p
    BY <2>1, <2>2, <2>3 DEF OneDaemon, Up, TypeOK
  <2>5. pc'[a] = "write" /\ pid'[a] = p
    BY <2>1, <2>2 DEF TypeOK, Commands
  <2>6. \A b \in Asks \ {a} : pc'[b] \notin Acting
    BY <2>2, <2>3 DEF ActAlone, Happened, Unattended, Acting, Commands, TypeOK
  <2> QED BY <2>4, <2>5, <2>6 DEF OneDaemon, Watching, Acting, Up
<1>4. ASSUME NEW a \in Asks, WritePidFile(a)
      PROVE  OneDaemon'
  <2>1. pc[a] = "write" /\ pc' = [pc EXCEPT ![a] = "poll"] /\ UNCHANGED <<proc, pid, mishaps>>
    BY <1>4 DEF WritePidFile, Go
  <2>2. \A b \in Asks : pc'[b] = IF b = a THEN "poll" ELSE pc[b]
    BY <2>1 DEF TypeOK, Commands
  <2> QED BY <2>1, <2>2, AsksMoveOn DEF Watching
<1>5. ASSUME NEW a \in Asks, WriteFails(a)
      PROVE  OneDaemon'
  BY <1>5 DEF WriteFails, Go, TypeOK, PlacesOfCommands, ActAlone, OneDaemon, Acting,
         Commands, Watching, Ended, Happened, Unattended, Up
<1>6. ASSUME NEW a \in Asks, PollHealth(a)
      PROVE  OneDaemon'
  <2>1. pc[a] = "poll" /\ UNCHANGED <<proc, pid>>
    BY <1>6 DEF PollHealth
  <2>2. /\ pc'[a] \in {"ok", "error", "check"}
        /\ pc'[a] = "ok" => Serving
        /\ pc'[a] = "error" => "slow" \in mishaps'
        /\ \A b \in Asks \ {a} : pc'[b] = pc[b]
    BY <1>6 DEF PollHealth, Go, Answers, TypeOK, Commands
  <2>3. SUFFICES ASSUME ~Happened(Unattended)'
                 PROVE  OneDaemon'
    BY DEF OneDaemon
  <2>4. ~Happened(Unattended) /\ pc'[a] # "error"
    BY <2>2, <2>3, MishapsStay DEF Happened, Unattended
  <2>5. ASSUME NEW p \in Pids, proc[p] = "starting"
        PROVE  pc'[a] = "check"
    <3>1. ~Serving
      BY <2>4, <2>5 DEF OneDaemon, Up, Serving
    <3> QED BY <2>2, <2>4, <3>1
  <2>6. \A p \in Pids : Up(p)' <=> Up(p)
    BY <2>1 DEF Up
  <2>7. \A b \in Asks : pc'[b] = "spawn" => pc[b] = "spawn"
    BY <2>2
  <2>8. \A b \in Asks : pc'[b] \in Watching => pc[b] \in Watching
    BY <2>1, <2>2 DEF Watching
  <2>9. ASSUME NEW p \in Pids, proc[p] = "starting"
        PROVE  \E b \in Asks : pc'[b] \in Watching /\ pid[b] = p
    BY <2>2, <2>4, <2>5, <2>9 DEF OneDaemon, Watching
  <2> QED BY <2>1, <2>4, <2>6, <2>7, <2>8, <2>9 DEF OneDaemon
<1>7. ASSUME NEW a \in Asks, TryWait(a)
      PROVE  OneDaemon'
  <2>1. /\ pc[a] = "check" /\ UNCHANGED <<proc, pid, mishaps>>
        /\ pc' = [pc EXCEPT ![a] = IF proc[pid[a]] = "dead" THEN "error" ELSE "poll"]
    BY <1>7 DEF TryWait, Go
  <2>2. \A b \in Asks : b # a => pc'[b] = pc[b]
    BY <2>1 DEF TypeOK, Commands
  <2>3. pc'[a] = IF proc[pid[a]] = "dead" THEN "error" ELSE "poll"
    BY <2>1 DEF TypeOK, Commands
  <2> QED BY <2>1, <2>2, <2>3, AsksMoveOn DEF Watching
<1>8. ASSUME NEW s \in Stops, ReadPidFile(s)
      PROVE  OneDaemon'
  <2>1. \A a \in Asks : pc'[a] = pc[a] /\ pid'[a] = pid[a]
    BY <1>8 DEF ReadPidFile, Go, TypeOK, Commands
  <2> QED BY <1>8, <2>1, MishapsStay, FewerDaemons DEF ReadPidFile, Up
<1>9. ASSUME NEW s \in Stops, Kill(s)
      PROVE  OneDaemon'
  <2>1. /\ \A a \in Asks : pc'[a] = pc[a] /\ pid'[a] = pid[a]
        /\ proc' = [proc EXCEPT ![pid[s]] = Terminated(pid[s])]
        /\ pid[s] \in Pids
    BY <1>9 DEF Kill, Go, Becomes, TypeOK, PlacesOfCommands, Commands
  <2>2. \A q \in Pids : /\ Up(q)' => Up(q)
                        /\ proc'[q] = "starting" => proc[q] = "starting"
    BY <2>1, TerminatedIs DEF Up, TypeOK
  <2> QED BY <2>1, <2>2, MishapsStay, FewerDaemons
<1>10. ASSUME NEW s \in Stops, RemovePidFile(s)
      PROVE  OneDaemon'
  BY <1>10 DEF RemovePidFile, Go, TypeOK, PlacesOfCommands, ActAlone, OneDaemon, Acting,
         Commands, Watching, Ended, Happened, Unattended, Up
<1>11. ASSUME NEW c \in Commands, Interrupt(c)
      PROVE  OneDaemon'
  <2>1. pc' = [pc EXCEPT ![c] = "error"] /\ UNCHANGED <<proc, pid>> /\ mishaps \subseteq mishaps'
    BY <1>11 DEF Interrupt, Go
  <2>2. \A b \in Asks : pc'[b] = IF b = c THEN "error" ELSE pc[b]
    BY <2>1 DEF TypeOK, Commands
  <2>3. pc[c] \in Watching => "interrupted" \in mishaps'
    BY <1>11 DEF Interrupt, Watching
  <2>4. "error" # "spawn" /\ "error" \notin Watching
    BY DEF Watching
  <2>5. \A b \in Asks : /\ pc'[b] = "spawn" => pc[b] = "spawn"
                        /\ pc'[b] \in Watching => pc[b] \in Watching
    BY <2>2, <2>4
  <2>6. ASSUME mishaps' \cap Unattended = {}, NEW b \in Asks, pc[b] \in Watching
        PROVE  pc'[b] \in Watching
    <3>1. "interrupted" \notin mishaps'
      BY <2>6 DEF Unattended
    <3>2. b # c
      BY <2>3, <2>6, <3>1
    <3> QED BY <2>2, <2>6, <3>2
  <2> QED BY <2>1, <2>5, <2>6, AsksMoveOn
<1>12. ASSUME NEW p \in Pids, Bind(p)
      PROVE  OneDaemon'
  <2>1. \A q \in Pids : /\ Up(q)' => Up(q)
                        /\ proc'[q] = "starting" => proc[q] = "starting"
    BY <1>12 DEF Bind, Becomes, Up, TypeOK
  <2> QED BY <1>12, <2>1, MishapsStay, FewerDaemons DEF Bind
<1>13. ASSUME NEW p \in Pids, ShutsDown(p)
      PROVE  OneDaemon'
  <2>1. \A q \in Pids : /\ Up(q)' => Up(q)
                        /\ proc'[q] = "starting" => proc[q] = "starting"
    BY <1>13 DEF ShutsDown, Becomes, Up, TypeOK
  <2> QED BY <1>13, <2>1, MishapsStay, FewerDaemons DEF ShutsDown
<1>14. ASSUME NEW p \in Pids, Dies(p)
      PROVE  OneDaemon'
  <2>1. \A q \in Pids : /\ Up(q)' => Up(q)
                        /\ proc'[q] = "starting" => proc[q] = "starting"
    BY <1>14 DEF Dies, Becomes, Up, TypeOK
  <2> QED BY <1>14, <2>1, MishapsStay, FewerDaemons DEF Dies
<1>15. ASSUME NEW p \in Pids, Reused(p)
      PROVE  OneDaemon'
  <2>1. \A q \in Pids : /\ Up(q)' => Up(q)
                        /\ proc'[q] = "starting" => proc[q] = "starting"
    BY <1>15 DEF Reused, Becomes, Up, TypeOK
  <2> QED BY <1>15, <2>1, MishapsStay, FewerDaemons DEF Reused
<1>16. CASE UNCHANGED vars
  BY <1>16, AsksMoveOn DEF vars
<1> QED BY <1>1, <1>2, <1>3, <1>4, <1>5, <1>6, <1>7, <1>8, <1>9,
           <1>10, <1>11, <1>12, <1>13, <1>14, <1>15, <1>16
        DEF Next, AskStep, StopStep, DaemonStep

(* A daemon that ends needs no file.                                       *)
LEMMA FewerOnFile ==
    ASSUME OnFile, mishaps \subseteq mishaps', asked' = asked, pidFile' = pidFile,
           UNCHANGED <<pc, pid>>, \A p \in Pids : Up(p)' => Up(p), PlacesOfCommands
    PROVE  OnFile'
BY DEF OnFile, Happened, PlacesOfCommands

-----------------------------------------------------------------------------
(* ... and the PID file names it, unless it has been told to stop.         *)
LEMMA OnFileStep ==
    ASSUME TypeOK, PlacesOfCommands, ActAlone, OneDaemon, OnFile, [Next]_vars
    PROVE  OnFile'
<1>1. ASSUME NEW a \in Asks, Health(a)
      PROVE  OnFile'
  <2>1. UNCHANGED <<proc, pidFile, pid, asked>> /\ pc[a] = "health"
    BY <1>1 DEF Health
  <2>2. /\ pc'[a] \in {"ok", "spawn"}
        /\ \A c \in Commands \ {a} : pc'[c] = pc[c]
    BY <1>1 DEF Health, Go, TypeOK, Commands
  <2>3. ~Happened(Unattended)' => ~Happened(Unattended)
    BY <1>1, MishapsStay DEF Happened
  <2>4. \A b \in Asks : pc[b] = "write" => pc'[b] = "write"
    BY <2>1, <2>2 DEF Commands
  <2>5. \A s \in Stops : pc'[s] = pc[s]
    BY <2>2 DEF Commands
  <2>6. \A p \in Pids : Up(p)' <=> Up(p)
    BY <2>1 DEF Up
  <2>7. \A s \in Stops : Up(pid[s])' <=> Up(pid[s])
    BY <2>1 DEF Up
  <2> QED BY <2>1, <2>3, <2>4, <2>5, <2>6, <2>7 DEF OnFile
<1>2. ASSUME NEW a \in Asks, CannotStart(a)
      PROVE  OnFile'
  BY <1>2 DEF CannotStart, Go, TypeOK, PlacesOfCommands, ActAlone, OnFile, Acting,
         Commands, Watching, Ended, Happened, Unattended, Up
<1>3. ASSUME NEW a \in Asks, SpawnRunner(a)
      PROVE  OnFile'
  <2>1. PICK p \in Pids : /\ proc' = [proc EXCEPT ![p] = "starting"]
                          /\ pid' = [pid EXCEPT ![a] = p]
                          /\ asked' = asked \ {p}
    BY <1>3 DEF SpawnRunner, Becomes
  <2>2. pc[a] = "spawn" /\ pc' = [pc EXCEPT ![a] = "write"] /\ mishaps' = mishaps
    BY <1>3 DEF SpawnRunner, Go
  <2>3. SUFFICES ASSUME ~Happened(Unattended)
                 PROVE  OnFile'
    BY <2>2 DEF OnFile, Happened
  <2>4. \A q \in Pids : Up(q)' <=> q = p
    BY <2>1, <2>2, <2>3 DEF OneDaemon, Up, TypeOK
  <2>5. pc'[a] = "write" /\ pid'[a] = p
    BY <2>1, <2>2 DEF TypeOK, Commands
  <2>6. \A s \in Stops : pc'[s] # "remove"
    BY <2>2, <2>3 DEF ActAlone, Happened, Unattended, Acting, Commands, TypeOK
  <2> QED BY <2>4, <2>5, <2>6 DEF OnFile
<1>4. ASSUME NEW a \in Asks, WritePidFile(a)
      PROVE  OnFile'
  <2>1. /\ pc[a] = "write" /\ pidFile' = pid[a] /\ pc' = [pc EXCEPT ![a] = "poll"]
        /\ UNCHANGED <<proc, pid, asked, mishaps>>
    BY <1>4 DEF WritePidFile, Go
  <2>2. SUFFICES ASSUME ~Happened(Unattended)
                 PROVE  OnFile'
    BY <2>1 DEF OnFile, Happened
  <2>3. \A p \in Pids : Up(p)' => p = pidFile'
    BY <2>1, <2>2 DEF OneDaemon, Watching, Up
  <2>4. \A s \in Stops : pc'[s] # "remove"
    BY <2>1, <2>2 DEF ActAlone, Happened, Unattended, Acting, Commands, TypeOK
  <2> QED BY <2>3, <2>4 DEF OnFile
<1>5. ASSUME NEW a \in Asks, WriteFails(a)
      PROVE  OnFile'
  BY <1>5 DEF WriteFails, Go, TypeOK, PlacesOfCommands, ActAlone, OnFile, Acting, Commands,
         Watching, Ended, Happened, Unattended, Up
<1>6. ASSUME NEW a \in Asks, PollHealth(a)
      PROVE  OnFile'
  BY <1>6 DEF PollHealth, Go, TypeOK, PlacesOfCommands, ActAlone, OnFile, Acting, Commands,
         Watching, Ended, Happened, Unattended, Up
<1>7. ASSUME NEW a \in Asks, TryWait(a)
      PROVE  OnFile'
  BY <1>7 DEF TryWait, Go, TypeOK, PlacesOfCommands, ActAlone, OnFile, Acting, Commands,
         Watching, Ended, Happened, Unattended, Up
<1>8. ASSUME NEW s \in Stops, ReadPidFile(s)
      PROVE  OnFile'
  <2>1. UNCHANGED <<proc, pidFile, asked>> /\ mishaps \subseteq mishaps' /\ pc'[s] # "remove"
    BY <1>8, MishapsStay DEF ReadPidFile, Go, TypeOK, Commands
  <2>2. \A c \in Commands \ {s} : pc'[c] = pc[c] /\ pid'[c] = pid[c]
    BY <1>8 DEF ReadPidFile, Go, TypeOK, Commands
  <2>3. s \notin Asks /\ Asks \cup Stops = Commands
    BY DEF Commands
  <2>4. ~Happened(Unattended)' => ~Happened(Unattended)
    BY <2>1 DEF Happened
  <2> QED BY <2>1, <2>2, <2>3, <2>4 DEF OnFile, Up
<1>9. ASSUME NEW s \in Stops, Kill(s)
      PROVE  OnFile'
  <2>1. /\ \A c \in Commands \ {s} : pc'[c] = pc[c] /\ pid'[c] = pid[c]
        /\ proc' = [proc EXCEPT ![pid[s]] = Terminated(pid[s])]
        /\ pid[s] \in Pids /\ pid' = pid
        /\ UNCHANGED <<pidFile, mishaps>>
        /\ asked \subseteq asked'
    BY <1>9 DEF Kill, Go, Becomes, TypeOK, PlacesOfCommands, Commands
  <2>2. \A q \in Pids : Up(q)' => Up(q) /\ q # pid[s]
    BY <2>1, TerminatedIs DEF Up, TypeOK
  <2>3. s \notin Asks /\ Asks \cup Stops = Commands
    BY DEF Commands
  <2>4. \A t \in Stops \ {s} : pc[t] = "remove" => pid[t] \in Pids
    BY DEF PlacesOfCommands
  <2> QED BY <2>1, <2>2, <2>3, <2>4 DEF OnFile, Happened
<1>10. ASSUME NEW s \in Stops, RemovePidFile(s)
      PROVE  OnFile'
  <2>1. /\ pc[s] = "remove" /\ pidFile' = NoPid /\ UNCHANGED <<proc, pid, asked, mishaps>>
        /\ pc'[s] \in Ended
        /\ \A c \in Commands \ {s} : pc'[c] = pc[c]
    BY <1>10 DEF RemovePidFile, Go, TypeOK, Commands, Ended
  <2>2. SUFFICES ASSUME ~Happened(Unattended)
                 PROVE  OnFile'
    BY <2>1 DEF OnFile, Happened
  <2>3. pidFile = pid[s]
    BY <2>1, <2>2 DEF ActAlone, Happened, Unattended
  <2>4. \A a \in Asks : pc'[a] = pc[a]
    BY <2>1 DEF Commands
  <2>5. ASSUME NEW p \in Pids \ asked, Up(p)
        PROVE  \E a \in Asks : pc'[a] = "write" /\ pid[a] = p
    BY <2>1, <2>2, <2>3, <2>4, <2>5 DEF OnFile
  <2>6. ASSUME NEW t \in Stops, pc'[t] = "remove", Up(pid[t])
        PROVE  pid[t] \in asked
    BY <2>1, <2>2, <2>6 DEF OnFile, Ended, Commands
  <2> QED BY <2>1, <2>5, <2>6 DEF OnFile, Up
<1>11. ASSUME NEW c \in Commands, Interrupt(c)
      PROVE  OnFile'
  <2>1. /\ pc' = [pc EXCEPT ![c] = "error"] /\ UNCHANGED <<proc, pidFile, pid, asked>>
        /\ mishaps \subseteq mishaps'
    BY <1>11 DEF Interrupt, Go
  <2>2. \A b \in Commands : pc'[b] = IF b = c THEN "error" ELSE pc[b]
    BY <2>1 DEF TypeOK, Commands
  <2>3. pc[c] = "write" => "interrupted" \in mishaps'
    BY <1>11 DEF Interrupt
  <2>4. SUFFICES ASSUME mishaps' \cap Unattended = {}
                 PROVE  OnFile'
    BY DEF OnFile, Happened
  <2>5. mishaps \cap Unattended = {} /\ pc[c] # "write"
    BY <2>1, <2>3, <2>4 DEF Unattended
  <2>6. \A p : Up(p)' <=> Up(p)
    BY <2>1 DEF Up
  <2>7. ASSUME NEW p \in Pids \ asked, Up(p), pidFile # p
        PROVE  \E a \in Asks : pc'[a] = "write" /\ pid[a] = p
    <3>1. PICK a \in Asks : pc[a] = "write" /\ pid[a] = p
      BY <2>5, <2>7 DEF OnFile, Happened
    <3> QED BY <2>2, <2>5, <3>1 DEF Commands
  <2>8. ASSUME NEW t \in Stops, pc'[t] = "remove", Up(pid[t])
        PROVE  pid[t] \in asked
    <3>1. pc[t] = "remove"
      BY <2>2, <2>8 DEF Commands
    <3> QED BY <2>5, <2>8, <3>1 DEF OnFile, Happened
  <2> QED BY <2>1, <2>6, <2>7, <2>8 DEF OnFile
<1>12. ASSUME NEW p \in Pids, Bind(p)
      PROVE  OnFile'
  <2>1. \A q \in Pids : Up(q)' => Up(q)
    BY <1>12 DEF Bind, Becomes, Up, TypeOK
  <2> QED BY <1>12, <2>1, MishapsStay, FewerOnFile DEF Bind
<1>13. ASSUME NEW p \in Pids, ShutsDown(p)
      PROVE  OnFile'
  <2>1. \A q \in Pids : Up(q)' => Up(q)
    BY <1>13 DEF ShutsDown, Becomes, Up, TypeOK
  <2> QED BY <1>13, <2>1, MishapsStay, FewerOnFile DEF ShutsDown
<1>14. ASSUME NEW p \in Pids, Dies(p)
      PROVE  OnFile'
  <2>1. \A q \in Pids : Up(q)' => Up(q)
    BY <1>14 DEF Dies, Becomes, Up, TypeOK
  <2> QED BY <1>14, <2>1, MishapsStay, FewerOnFile DEF Dies
<1>15. ASSUME NEW p \in Pids, Reused(p)
      PROVE  OnFile'
  <2>1. UNCHANGED <<pidFile, pc, pid, mishaps>> /\ asked' = asked \ {p} /\ ~Up(p)'
    BY <1>15 DEF Reused, Becomes, Up, TypeOK
  <2>2. \A q \in Pids : Up(q)' => Up(q) /\ q # p
    BY <1>15 DEF Reused, Becomes, Up, TypeOK
  <2>3. \A t \in Stops : pc[t] = "remove" => pid[t] \in Pids
    BY DEF PlacesOfCommands
  <2> QED BY <2>1, <2>2, <2>3 DEF OnFile, Happened
<1>16. CASE UNCHANGED vars
  BY <1>16, FewerOnFile DEF vars, Up
<1> QED BY <1>1, <1>2, <1>3, <1>4, <1>5, <1>6, <1>7, <1>8, <1>9,
           <1>10, <1>11, <1>12, <1>13, <1>14, <1>15, <1>16
        DEF Next, AskStep, StopStep, DaemonStep

-----------------------------------------------------------------------------
(* Until a daemon ends unasked, the file names a runner or is on its way   *)
(* out.                                                                    *)
LEMMA FileNamesStep ==
    ASSUME TypeOK, PlacesOfCommands, ActAlone, FileNamesRunner, [Next]_vars
    PROVE  FileNamesRunner'
<1>1. ASSUME NEW a \in Asks, Health(a)
      PROVE  FileNamesRunner'
  BY <1>1 DEF Health, Note, Go, TypeOK, PlacesOfCommands, ActAlone, FileNamesRunner,
         Acting, Commands, Watching, Ended, Happened, Up
<1>2. ASSUME NEW a \in Asks, CannotStart(a)
      PROVE  FileNamesRunner'
  BY <1>2 DEF CannotStart, Go, TypeOK, PlacesOfCommands, ActAlone, FileNamesRunner, Acting,
         Commands, Watching, Ended, Happened, Up
<1>3. ASSUME NEW a \in Asks, SpawnRunner(a)
      PROVE  FileNamesRunner'
  BY <1>3 DEF SpawnRunner, Go, Becomes, TypeOK, PlacesOfCommands, ActAlone,
         FileNamesRunner, Acting, Commands, Watching, Ended, Happened, Up
<1>4. ASSUME NEW a \in Asks, WritePidFile(a)
      PROVE  FileNamesRunner'
  BY <1>4 DEF WritePidFile, Go, TypeOK, PlacesOfCommands, ActAlone, FileNamesRunner,
         Acting, Commands, Watching, Ended, Happened, Up
<1>5. ASSUME NEW a \in Asks, WriteFails(a)
      PROVE  FileNamesRunner'
  BY <1>5 DEF WriteFails, Go, TypeOK, PlacesOfCommands, ActAlone, FileNamesRunner, Acting,
         Commands, Watching, Ended, Happened, Up
<1>6. ASSUME NEW a \in Asks, PollHealth(a)
      PROVE  FileNamesRunner'
  BY <1>6 DEF PollHealth, Go, TypeOK, PlacesOfCommands, ActAlone, FileNamesRunner, Acting,
         Commands, Watching, Ended, Happened, Up
<1>7. ASSUME NEW a \in Asks, TryWait(a)
      PROVE  FileNamesRunner'
  BY <1>7 DEF TryWait, Go, TypeOK, PlacesOfCommands, ActAlone, FileNamesRunner, Acting,
         Commands, Watching, Ended, Happened, Up
<1>8. ASSUME NEW s \in Stops, ReadPidFile(s)
      PROVE  FileNamesRunner'
  BY <1>8 DEF ReadPidFile, Note, Go, TypeOK, PlacesOfCommands, ActAlone, FileNamesRunner,
         Acting, Commands, Watching, Ended, Happened, Up
<1>9. ASSUME NEW s \in Stops, Kill(s)
      PROVE  FileNamesRunner'
  <2>1. /\ pc[s] = "kill" /\ pc'[s] = "remove" /\ pid[s] \in Pids
        /\ \A a \in Asks : pc'[a] = pc[a]
        /\ UNCHANGED <<pidFile, pid, mishaps>>
        /\ asked' \subseteq asked \cup {pid[s]}
        /\ proc' = [proc EXCEPT ![pid[s]] = Terminated(pid[s])]
    BY <1>9 DEF Kill, Go, Becomes, TypeOK, PlacesOfCommands, Commands
  <2>2. SUFFICES ASSUME ~Happened({"died", "overlap", "interrupted"})
                 PROVE  FileNamesRunner'
    BY <2>1 DEF FileNamesRunner, Happened
  <2>3. \A c \in Commands \ {s} : pc[c] \notin Acting
    BY <2>1, <2>2 DEF ActAlone, Happened, Acting, Commands
  <2>4. pidFile = pid[s] /\ pidFile # NoPid
    BY <2>1, <2>2 DEF ActAlone, Happened
  <2>5. Up(pid[s])
    BY <2>1, <2>2, <2>3, <2>4 DEF FileNamesRunner, Acting, Commands
  <2>6. \A p \in asked' : proc'[p] # "stranger"
    BY <2>1, <2>2, <2>5, TerminatedIs DEF FileNamesRunner, Up, TypeOK
  <2>7. \A a \in Asks : pc'[a] # "write"
    BY <2>1, <2>3 DEF Acting, Commands
  <2> QED BY <2>1, <2>4, <2>6, <2>7 DEF FileNamesRunner
<1>10. ASSUME NEW s \in Stops, RemovePidFile(s)
      PROVE  FileNamesRunner'
  BY <1>10 DEF RemovePidFile, Go, TypeOK, PlacesOfCommands, ActAlone, FileNamesRunner,
         Acting, Commands, Watching, Ended, Happened, Up
<1>11. ASSUME NEW c \in Commands, Interrupt(c)
      PROVE  FileNamesRunner'
  BY <1>11 DEF Interrupt, Go, TypeOK, PlacesOfCommands, ActAlone, FileNamesRunner, Acting,
         Commands, Watching, Ended, Happened, Up
<1>12. ASSUME NEW p \in Pids, Bind(p)
      PROVE  FileNamesRunner'
  BY <1>12 DEF Bind, Becomes, TypeOK, PlacesOfCommands, ActAlone, FileNamesRunner, Acting,
         Commands, Watching, Ended, Happened, Up
<1>13. ASSUME NEW p \in Pids, ShutsDown(p)
      PROVE  FileNamesRunner'
  BY <1>13 DEF ShutsDown, Becomes, TypeOK, PlacesOfCommands, ActAlone, FileNamesRunner,
         Acting, Commands, Watching, Ended, Happened, Up
<1>14. ASSUME NEW p \in Pids, Dies(p)
      PROVE  FileNamesRunner'
  BY <1>14 DEF Dies, Becomes, TypeOK, PlacesOfCommands, ActAlone, FileNamesRunner, Acting,
         Commands, Watching, Ended, Happened, Up
<1>15. ASSUME NEW p \in Pids, Reused(p)
      PROVE  FileNamesRunner'
  BY <1>15 DEF Reused, Becomes, TypeOK, PlacesOfCommands, ActAlone, FileNamesRunner,
         Acting, Commands, Watching, Ended, Happened, Up
<1>16. CASE UNCHANGED vars
  BY <1>16 DEF vars, TypeOK, PlacesOfCommands, ActAlone, FileNamesRunner, Acting, Commands,
         Watching, Ended, Happened, Up
<1> QED BY <1>1, <1>2, <1>3, <1>4, <1>5, <1>6, <1>7, <1>8, <1>9,
           <1>10, <1>11, <1>12, <1>13, <1>14, <1>15, <1>16
        DEF Next, AskStep, StopStep, DaemonStep

-----------------------------------------------------------------------------
(* The theorems.                                                           *)

LEMMA InitInv ==
    ASSUME Init
    PROVE  TypeOK /\ AskInv
<1>1. TypeOK
  BY DEF Init, TypeOK, Commands, Procs, Pcs
<1>2. PlacesOfCommands /\ ActAlone
  BY DEF Init, PlacesOfCommands, ActAlone, Commands, Acting, Watching, Ended
<1>3. OneDaemon /\ OnFile /\ FileNamesRunner
  BY DEF Init, OneDaemon, OnFile, FileNamesRunner, Up, Watching, Commands
<1> QED BY <1>1, <1>2, <1>3 DEF AskInv

LEMMA AskInvAlways == Spec => [](TypeOK /\ AskInv)
<1>1. ASSUME TypeOK, AskInv, [Next]_vars
      PROVE  (TypeOK /\ AskInv)'
  <2>1. TypeOK' /\ PlacesOfCommands'
    BY <1>1, TypeStep, PlacesStep DEF AskInv
  <2>2. ActAlone' /\ OneDaemon'
    BY <1>1, AloneStep, OneDaemonStep DEF AskInv
  <2>3. OnFile' /\ FileNamesRunner'
    BY <1>1, OnFileStep, FileNamesStep DEF AskInv
  <2> QED BY <2>1, <2>2, <2>3 DEF AskInv
<1> QED BY <1>1, InitInv, PTL DEF Spec

(* However many commands there are, one daemon serves at a time and the    *)
(* PID file has it: one that serves is not on file only after a mishap     *)
(* that is named (start_runner, stop_runner).                              *)
THEOREM AskIsSafe == Spec => [](TypeOK /\ ServingIsOnFile)
<1>1. TypeOK /\ AskInv => ServingIsOnFile
  BY DEF AskInv, OnFile, ServingIsOnFile, Up, Unattended, Happened
<1> QED BY <1>1, AskInvAlways, PTL

(* A second daemon is started beside one that starts or serves, whose rows *)
(* it would requeue, only after a race, a daemon that did not answer in    *)
(* time, or an ask that gave up (cmd_ask, start_runner).                   *)
THEOREM SecondStartNeedsMishap == Spec => []SecondStartExplained
<1>1. TypeOK /\ AskInv => SecondStartExplained
  BY DEF AskInv, OneDaemon, SecondStartExplained, Up, Unattended, Happened
<1> QED BY <1>1, AskInvAlways, PTL

(* A stop signals no process but a daemon, unless one died by itself or    *)
(* commands overlapped or were interrupted (stop_runner).                  *)
THEOREM StopHitsNoStranger == Spec => []StrangersLeftAlone
<1>1. TypeOK /\ AskInv => StrangersLeftAlone
  BY DEF AskInv, FileNamesRunner, StrangersLeftAlone, Happened
<1> QED BY <1>1, AskInvAlways, PTL
=============================================================================
