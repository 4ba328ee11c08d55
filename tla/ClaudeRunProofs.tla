---------------------------- MODULE ClaudeRunProofs ----------------------------
(* Theorems about ClaudeRun, for prompts, reports and pipes of any size,   *)
(* and every requester and setting.                                        *)
EXTENDS ClaudeRun, TLAPS

(* TypeOK in two parts, as few steps touch both: the pipes,                *)
PipesOK ==
    /\ unsent \in Nat
    /\ feeding \in BOOLEAN
    /\ heard \in Nat
    /\ said \in [Outputs -> Nat]
    /\ taken \in [Outputs -> Nat]
    /\ InStdin \in 0..Cap
    /\ \A o \in Outputs : InPipe(o) \in 0..Cap /\ said[o] <= Size(o)

(* and the rest.                                                           *)
StateOK ==
    /\ job \in [settings : Settings, requester : Requesters, access : Accesses,
                inherited : [Names -> {"own", "1", "unset"}]]
    /\ pc \in Pcs
    /\ end \in Ends
    /\ claude \in [doing : Doings, ok : BOOLEAN]
    /\ holds \in BOOLEAN
    /\ session.tools \subseteq Tools /\ session.works \in BOOLEAN
    /\ told \subseteq Facts
    /\ dir \in BOOLEAN

LEMMA TypesInTwo == TypeOK <=> PipesOK /\ StateOK
BY DEF TypeOK, PipesOK, StateOK

(* What one invariant after the other rests on.                            *)
Inv == PipesOK /\ StateOK /\ RunInv /\ WholeAnswerCounts

LEMMA PipesStay ==
    ASSUME PipesOK, UNCHANGED pipeVars
    PROVE  PipesOK'
BY DEF PipesOK, pipeVars, InStdin, InPipe

(* A step that ends claude or the feeder at most, and the run with it.     *)
LEMMA FeederMayEnd ==
    ASSUME PipesOK, UNCHANGED <<unsent, heard, said, taken>>, feeding' \in BOOLEAN
    PROVE  PipesOK'
BY DEF PipesOK, InStdin, InPipe

(* Dropping the run leaves no claude alive.                                *)
LEMMA DropKills ==
    ASSUME claude \in [doing : Doings, ok : BOOLEAN], KillOnDrop
    PROVE  /\ claude' \in [doing : Doings, ok : BOOLEAN]
           /\ claude'.doing \in {"none", "exited"}
BY DEF KillOnDrop, Alive, Doings

(* The prompt tells only of things there are, and so do the tools.         *)
LEMMA PromptAndTools ==
    \A s, r, a, q : SystemPrompt(s, r, a) \subseteq Facts /\ ToolsOf(s, q) \subseteq Tools
BY DEF SystemPrompt, ToolsOf, Facts, Tools

LEMMA RunnerEnvType ==
    ASSUME NEW s \in Settings, NEW leftover \in BOOLEAN
    PROVE  RunnerEnv(s, leftover) \in [Names -> {"own", "1", "unset"}]
<1>1. CASE s.aes_key
    BY <1>1 DEF RunnerEnv
<1>2. CASE ~s.aes_key
    BY <1>2 DEF RunnerEnv
<1> QED
    BY <1>1, <1>2

(* Whatever daemon and row: a run starts with everything still to do.      *)
LEMMA InvInit == Init => Inv
<1> SUFFICES ASSUME Init PROVE Inv
    OBVIOUS
<1> USE ClaudeAssumption DEF Init
<1>1. PICK s \in Settings, row \in JobRow, leftover \in BOOLEAN :
          job = [settings |-> s, requester |-> RequesterOf(row), access |-> "none",
                 inherited |-> RunnerEnv(s, leftover)]
    OBVIOUS
<1>2. RunnerEnv(s, leftover) \in [Names -> {"own", "1", "unset"}]
    BY RunnerEnvType
<1>3. RequesterOf(row) \in Requesters
    BY DEF Requesters
<1>4. job \in [settings : Settings, requester : Requesters, access : Accesses,
               inherited : [Names -> {"own", "1", "unset"}]]
    BY <1>1, <1>2, <1>3 DEF Accesses
<1>5. PipesOK
    <2>1. InStdin \in 0..Cap
        BY DEF InStdin
    <2>2. ASSUME NEW o \in Outputs PROVE InPipe(o) \in 0..Cap /\ said[o] <= Size(o)
        BY <2>2 DEF InPipe, Size
    <2> QED
        BY <2>1, <2>2 DEF PipesOK
<1>6. StateOK
    BY <1>4 DEF StateOK, Pcs, Ends, Doings
<1>7. RunInv /\ WholeAnswerCounts
    BY DEF RunInv, WholeAnswerCounts, Alive, Outputs
<1> QED
    BY <1>5, <1>6, <1>7 DEF Inv

-----------------------------------------------------------------------------
(* The steps, one action after the other.                                  *)

(* The end of a run that is dropped, for whatever reason.                  *)
LEMMA DroppedRun ==
    ASSUME Inv, pc \in {"access", "spawn", "waiting"}, pc' = "over",
           end' \in {"timeout", "io", "cancelled"}, KillOnDrop, feeding' \in BOOLEAN,
           UNCHANGED <<job, session, told, dir, unsent, heard, said, taken, holds>>
    PROVE  Inv'
<1>1. PipesOK'
    BY FeederMayEnd DEF Inv
<1>2. /\ claude' \in [doing : Doings, ok : BOOLEAN]
      /\ claude'.doing \in {"none", "exited"}
    BY DropKills DEF Inv, StateOK
<1>3. StateOK'
    BY <1>2 DEF Inv, StateOK, Pcs, Ends
<1>4. RunInv'
    <2>1. dir
        BY DEF Inv, RunInv
    <2> QED
        BY <1>2, <2>1 DEF RunInv, Alive
<1>5. WholeAnswerCounts'
    BY DEF WholeAnswerCounts
<1> QED
    BY <1>1, <1>3, <1>4, <1>5 DEF Inv

(* The daemon's tasks,                                                     *)
LEMMA RunSteps ==
    ASSUME Inv, RunStep
    PROVE  Inv'
<1>1. CASE Access
    <2>1. UNCHANGED <<end, session, told, dir, pipeVars, claude, holds>> /\ pc = "access" /\ pc' = "spawn"
        BY <1>1 DEF Access
    <2>2. job' \in [settings : Settings, requester : Requesters, access : Accesses,
                    inherited : [Names -> {"own", "1", "unset"}]]
        BY <1>1 DEF Access, Inv, StateOK, Accesses
    <2>3. StateOK'
        BY <2>1, <2>2 DEF Inv, StateOK, Pcs
    <2>4. PipesOK'
        BY <2>1, PipesStay DEF Inv
    <2>5. RunInv' /\ WholeAnswerCounts'
        BY <2>1 DEF Inv, RunInv, WholeAnswerCounts, Alive, pipeVars
    <2> QED
        BY <2>3, <2>4, <2>5 DEF Inv
<1>2. CASE Spawn
    <2>1. session'.tools \subseteq Tools /\ session'.works \in BOOLEAN
        BY <1>2, PromptAndTools DEF Spawn, Works
    <2>2. told' \subseteq Facts
        BY <1>2, PromptAndTools DEF Spawn
    <2>3. /\ pc = "spawn" /\ pc' = "waiting" /\ feeding' = TRUE
          /\ claude' = [claude EXCEPT !.doing = "idle"]
          /\ UNCHANGED <<job, end, dir, unsent, heard, said, taken, holds>>
        BY <1>2 DEF Spawn
    <2>4. claude' \in [doing : Doings, ok : BOOLEAN] /\ claude'.doing = "idle"
        BY <2>3 DEF Inv, StateOK, Doings
    <2>5. PipesOK'
        BY <2>3, FeederMayEnd DEF Inv
    <2>6. StateOK'
        BY <2>1, <2>2, <2>3, <2>4 DEF Inv, StateOK, Pcs
    <2>7. RunInv' /\ WholeAnswerCounts'
        BY <2>3, <2>4 DEF Inv, RunInv, WholeAnswerCounts, Alive
    <2> QED
        BY <2>5, <2>6, <2>7 DEF Inv
<1>3. CASE SpawnFails
    <2>1. /\ pc = "spawn" /\ pc' = "over" /\ end' = "spawn"
          /\ UNCHANGED <<job, session, told, dir, pipeVars, claude, holds>>
        BY <1>3 DEF SpawnFails
    <2>2. PipesOK'
        BY <2>1, PipesStay DEF Inv
    <2>3. StateOK'
        BY <2>1 DEF Inv, StateOK, Pcs, Ends
    <2>4. RunInv' /\ WholeAnswerCounts'
        BY <2>1 DEF Inv, RunInv, WholeAnswerCounts, Alive, pipeVars
    <2> QED
        BY <2>2, <2>3, <2>4 DEF Inv
<1>4. CASE Feed
    <2>1. UNCHANGED <<daemonVars, heard, said, taken, claude, holds>>
        BY <1>4 DEF Feed
    <2>2. PipesOK'
        <3>1. CASE feeding' = FALSE /\ UNCHANGED unsent
            BY <2>1, <3>1, FeederMayEnd DEF Inv
        <3>2. CASE unsent' = unsent - 1 /\ UNCHANGED feeding /\ unsent # 0 /\ InStdin < Cap
            <4>1. unsent' \in Nat
                BY <3>2 DEF Inv, PipesOK
            <4>2. InStdin' = InStdin + 1 /\ InStdin' \in 0..Cap
                BY <2>1, <3>2, ClaudeAssumption DEF Inv, PipesOK, InStdin
            <4>3. \A o \in Outputs : InPipe(o)' = InPipe(o)
                BY <2>1 DEF InPipe
            <4> QED
                BY <2>1, <3>2, <4>1, <4>2, <4>3 DEF Inv, PipesOK
        <3> QED
            BY <1>4, <3>1, <3>2 DEF Feed, CanFeed
    <2>3. StateOK' /\ RunInv' /\ WholeAnswerCounts'
        BY <2>1 DEF Inv, StateOK, RunInv, WholeAnswerCounts, Alive, daemonVars
    <2> QED
        BY <2>2, <2>3 DEF Inv
<1>5. CASE Returns
    <2>1. /\ pc = "waiting" /\ pc' = "over" /\ end' = Parsed /\ feeding' = FALSE
          /\ claude.doing = "exited" /\ InPipe("out") = 0
          /\ UNCHANGED <<job, session, told, dir, unsent, heard, said, taken, claude, holds>>
        BY <1>5 DEF Returns, Outputs
    <2>2. Parsed \in {"report", "invalid", "exited"} /\ (Parsed = "report" <=> taken["out"] = Report)
        BY DEF Parsed
    <2>3. taken["out"] = said["out"] /\ said["out"] <= Report /\ said["out"] \in Nat
        <3>1. said["out"] \in Nat /\ taken["out"] \in Nat /\ said["out"] <= Report
            BY DEF Inv, PipesOK, Outputs, Size
        <3> QED
            BY <2>1, <3>1 DEF InPipe
    <2>4. WholeAnswerCounts'
        BY <2>1, <2>2, <2>3, ClaudeAssumption DEF WholeAnswerCounts
    <2>5. PipesOK'
        BY <2>1, FeederMayEnd DEF Inv
    <2>6. StateOK'
        BY <2>1, <2>2 DEF Inv, StateOK, Pcs, Ends
    <2>7. RunInv'
        BY <2>1 DEF Inv, RunInv, Alive
    <2> QED
        BY <2>4, <2>5, <2>6, <2>7 DEF Inv
<1>6. ASSUME NEW p \in Outputs, Drain(p) PROVE Inv'
    <2>1. /\ CanDrain(p) /\ taken' = [taken EXCEPT ![p] = @ + 1]
          /\ UNCHANGED <<daemonVars, unsent, feeding, heard, said, claude, holds>>
        BY <1>6 DEF Drain
    <2>2. taken' \in [Outputs -> Nat]
        BY <2>1 DEF Inv, PipesOK
    <2>3. \A o \in Outputs : InPipe(o)' \in 0..Cap
        <3> SUFFICES ASSUME NEW o \in Outputs PROVE InPipe(o)' \in 0..Cap
            OBVIOUS
        <3>1. said[o] \in Nat /\ taken[o] \in Nat /\ InPipe(o) \in 0..Cap
            BY DEF Inv, PipesOK
        <3>2. CASE o = p
            <4>1. taken'[o] = taken[o] + 1 /\ InPipe(o) > 0
                BY <2>1, <3>2 DEF CanDrain, Inv, PipesOK
            <4> QED
                BY <2>1, <3>1, <4>1, ClaudeAssumption DEF InPipe
        <3>3. CASE o # p
            BY <2>1, <3>1, <3>3 DEF InPipe, Inv, PipesOK
        <3> QED
            BY <3>2, <3>3
    <2>4. PipesOK'
        BY <2>1, <2>2, <2>3 DEF Inv, PipesOK, InStdin
    <2>5. StateOK' /\ RunInv' /\ WholeAnswerCounts'
        BY <2>1 DEF Inv, StateOK, RunInv, WholeAnswerCounts, Alive, daemonVars
    <2> QED
        BY <2>4, <2>5 DEF Inv
<1> QED
    BY <1>1, <1>2, <1>3, <1>4, <1>5, <1>6 DEF RunStep

(* what comes between them and the run,                                    *)
LEMMA Interruptions ==
    ASSUME Inv, TimesOut \/ WaitFails \/ Cancelled \/ RemoveWorkspace \/ DaemonKilled \/ Sweep
    PROVE  Inv'
<1>1. CASE TimesOut \/ WaitFails
    BY <1>1, DroppedRun DEF TimesOut, WaitFails
<1>2. CASE Cancelled
    <2>1. feeding' \in BOOLEAN
        BY <1>2 DEF Cancelled, pipeVars, Inv, PipesOK
    <2> QED
        BY <1>2, <2>1, DroppedRun DEF Cancelled, pipeVars
<1>3. CASE RemoveWorkspace
    <2>1. /\ pc = "over" /\ pc' = "removed" /\ dir' \in {FALSE, dir}
          /\ UNCHANGED <<job, end, session, told, pipeVars, claude, holds>>
        BY <1>3 DEF RemoveWorkspace
    <2>2. PipesOK'
        BY <2>1, PipesStay DEF Inv
    <2>3. dir' \in BOOLEAN
        BY <2>1 DEF Inv, StateOK
    <2>4. StateOK'
        BY <2>1, <2>3 DEF Inv, StateOK, Pcs
    <2>5. RunInv' /\ WholeAnswerCounts'
        BY <2>1 DEF Inv, RunInv, WholeAnswerCounts, Alive, pipeVars
    <2> QED
        BY <2>2, <2>4, <2>5 DEF Inv
<1>4. CASE DaemonKilled
    <2>1. /\ pc' = "killed" /\ feeding' = FALSE
          /\ UNCHANGED <<job, end, session, told, dir, unsent, heard, said, taken, claude, holds>>
        BY <1>4 DEF DaemonKilled
    <2>2. PipesOK'
        BY <2>1, FeederMayEnd DEF Inv
    <2>3. StateOK'
        BY <2>1 DEF Inv, StateOK, Pcs
    <2>4. RunInv' /\ WholeAnswerCounts'
        BY <2>1 DEF Inv, RunInv, WholeAnswerCounts
    <2> QED
        BY <2>2, <2>3, <2>4 DEF Inv
<1>5. CASE Sweep
    <2>1. /\ pc = "killed" /\ dir' = FALSE
          /\ UNCHANGED <<job, pc, end, session, told, pipeVars, claude, holds>>
        BY <1>5 DEF Sweep
    <2>2. PipesOK'
        BY <2>1, PipesStay DEF Inv
    <2>3. StateOK'
        BY <2>1 DEF Inv, StateOK
    <2>4. RunInv' /\ WholeAnswerCounts'
        BY <2>1 DEF Inv, RunInv, WholeAnswerCounts, pipeVars
    <2> QED
        BY <2>2, <2>3, <2>4 DEF Inv
<1> QED
    BY <1>1, <1>2, <1>3, <1>4, <1>5

(* and claude, whatever it does.                                           *)
LEMMA ClaudeSteps ==
    ASSUME Inv, ClaudeStep
    PROVE  Inv'
<1>1. CASE Begins
    <2>1. /\ UNCHANGED <<daemonVars, pipeVars, holds>> /\ claude.doing = "idle"
        BY <1>1 DEF Begins
    <2>2. PICK what \in {"reading"} \cup {o \in Outputs : said[o] < Size(o)} :
              claude' = [claude EXCEPT !.doing = what]
        BY <1>1 DEF Begins
    <2>3. claude' \in [doing : Doings, ok : BOOLEAN] /\ claude'.doing = what
        BY <2>2 DEF Inv, StateOK, Doings, Outputs
    <2>4. PipesOK'
        BY <2>1, PipesStay DEF Inv
    <2>5. StateOK'
        BY <2>1, <2>3 DEF Inv, StateOK, daemonVars
    <2>6. /\ what = "out" => said["out"] < Report
          /\ what = "err" => said["err"] < Noise
        BY <2>2 DEF Size
    <2>7. RunInv' /\ WholeAnswerCounts'
        BY <2>1, <2>3, <2>6 DEF Inv, RunInv, WholeAnswerCounts, Alive, daemonVars, pipeVars
    <2> QED
        BY <2>4, <2>5, <2>7 DEF Inv
<1>2. CASE Reads
    <2>1. /\ UNCHANGED <<daemonVars, unsent, feeding, said, taken, holds>>
          /\ claude.doing = "reading" /\ claude' = [claude EXCEPT !.doing = "idle"]
          /\ heard' = IF InStdin > 0 THEN heard + 1 ELSE heard
        BY <1>2 DEF Reads
    <2>2. claude' \in [doing : Doings, ok : BOOLEAN] /\ claude'.doing = "idle"
        BY <2>1 DEF Inv, StateOK, Doings
    <2>3. heard' \in Nat /\ InStdin' \in 0..Cap
        <3>1. unsent \in Nat /\ heard \in Nat /\ InStdin \in 0..Cap
            BY DEF Inv, PipesOK
        <3>2. CASE InStdin > 0
            BY <2>1, <3>1, <3>2, ClaudeAssumption DEF InStdin
        <3>3. CASE ~(InStdin > 0)
            BY <2>1, <3>1, <3>3 DEF InStdin
        <3> QED
            BY <3>2, <3>3
    <2>4. PipesOK'
        BY <2>1, <2>3 DEF Inv, PipesOK, InPipe
    <2>5. StateOK'
        BY <2>1, <2>2 DEF Inv, StateOK, daemonVars
    <2>6. RunInv' /\ WholeAnswerCounts'
        BY <2>1, <2>2 DEF Inv, RunInv, WholeAnswerCounts, Alive, daemonVars
    <2> QED
        BY <2>4, <2>5, <2>6 DEF Inv
<1>3. CASE Exits
    <2>1. /\ UNCHANGED <<daemonVars, pipeVars, holds>>
          /\ claude' \in [doing : {"exited"}, ok : BOOLEAN]
        BY <1>3 DEF Exits
    <2>2. claude' \in [doing : Doings, ok : BOOLEAN] /\ claude'.doing = "exited"
        BY <2>1 DEF Doings
    <2>3. PipesOK'
        BY <2>1, PipesStay DEF Inv
    <2>4. StateOK'
        BY <2>1, <2>2 DEF Inv, StateOK, daemonVars
    <2>5. RunInv' /\ WholeAnswerCounts'
        BY <2>1, <2>2 DEF Inv, RunInv, WholeAnswerCounts, Alive, daemonVars, pipeVars
    <2> QED
        BY <2>3, <2>4, <2>5 DEF Inv
<1>4. CASE Descendant
    <2>1. /\ UNCHANGED <<daemonVars, pipeVars, claude>> /\ holds' = ~holds
        BY <1>4 DEF Descendant
    <2>2. holds' \in BOOLEAN
        BY <2>1
    <2>3. PipesOK'
        BY <2>1, PipesStay DEF Inv
    <2>4. StateOK'
        BY <2>1, <2>2 DEF Inv, StateOK, daemonVars
    <2>5. RunInv' /\ WholeAnswerCounts'
        BY <2>1 DEF Inv, RunInv, WholeAnswerCounts, Alive, daemonVars, pipeVars
    <2> QED
        BY <2>3, <2>4, <2>5 DEF Inv
<1>5. ASSUME NEW p \in Outputs, Writes(p) PROVE Inv'
    <2>1. /\ claude.doing = p /\ pc = "waiting" /\ InPipe(p) < Cap
          /\ said' = [said EXCEPT ![p] = @ + 1]
          /\ claude' = [claude EXCEPT !.doing = "idle"]
          /\ UNCHANGED <<daemonVars, unsent, feeding, heard, taken, holds>>
        BY <1>5 DEF Writes
    <2>2. claude' \in [doing : Doings, ok : BOOLEAN] /\ claude'.doing = "idle"
        BY <2>1 DEF Inv, StateOK, Doings
    <2>3. said' \in [Outputs -> Nat]
        BY <2>1 DEF Inv, PipesOK
    <2>4. said[p] < Size(p)
        BY <2>1 DEF Inv, RunInv, Outputs, Size
    <2>5. ASSUME NEW o \in Outputs PROVE InPipe(o)' \in 0..Cap /\ said'[o] <= Size(o)
        <3>1. /\ said[o] \in Nat /\ taken[o] \in Nat /\ InPipe(o) \in 0..Cap
              /\ said[o] <= Size(o) /\ Size(o) \in Nat
            BY ClaudeAssumption DEF Inv, PipesOK, Size
        <3>2. CASE o = p
            <4>1. said'[o] = said[o] + 1
                BY <2>1, <3>2 DEF Inv, PipesOK
            <4> QED
                BY <2>1, <2>4, <3>1, <3>2, <4>1, ClaudeAssumption DEF InPipe
        <3>3. CASE o # p
            <4>1. said'[o] = said[o]
                BY <2>1, <3>3 DEF Inv, PipesOK
            <4> QED
                BY <2>1, <3>1, <4>1 DEF InPipe
        <3> QED
            BY <3>2, <3>3
    <2>6. PipesOK'
        BY <2>1, <2>3, <2>5 DEF Inv, PipesOK, InStdin, Size
    <2>7. StateOK'
        BY <2>1, <2>2 DEF Inv, StateOK, daemonVars
    <2>8. end = "none" \/ end \notin {"report", "invalid", "exited"}
        BY <2>1 DEF Inv, RunInv
    <2>9. RunInv' /\ WholeAnswerCounts'
        BY <2>1, <2>2, <2>8 DEF Inv, RunInv, WholeAnswerCounts, Alive, daemonVars
    <2> QED
        BY <2>6, <2>7, <2>9 DEF Inv
<1> QED
    BY <1>1, <1>2, <1>3, <1>4, <1>5 DEF ClaudeStep

LEMMA InvStep ==
    ASSUME Inv, [Next]_vars
    PROVE  Inv'
<1>1. CASE Next
    BY <1>1, RunSteps, Interruptions, ClaudeSteps DEF Next
<1>2. CASE UNCHANGED vars
    <2>1. PipesOK'
        BY <1>2, PipesStay DEF Inv, vars
    <2> QED
        BY <1>2, <2>1 DEF Inv, vars, daemonVars, pipeVars, StateOK, RunInv, WholeAnswerCounts, Alive
<1> QED
    BY <1>1, <1>2

LEMMA InvInductive == Spec => []Inv
BY InvInit, InvStep, PTL DEF Spec

(* However long the prompt and the answer and however small the pipes      *)
(* (src/src/claude.rs:592-650): the daemon and claude never wait for each  *)
(* other in a circle.                                                      *)
THEOREM ClaudeIsSafe == Spec => [](TypeOK /\ NoPipeDeadlock)
<1>1. Inv => NoPipeDeadlock
    BY ClaudeAssumption DEF Inv, PipesOK, NoPipeDeadlock, ClaudeWaits, CanFeed, CanDrain
<1>2. Inv => TypeOK
    BY TypesInTwo DEF Inv
<1> QED
    BY InvInductive, <1>1, <1>2, PTL

(* A run is decided by the whole of what claude wrote: a report is never   *)
(* parsed, nor an exit without one reported, from a part of the output.    *)
THEOREM WholeAnswerDecides == Spec => []WholeAnswerCounts
<1>1. Inv => WholeAnswerCounts
    BY DEF Inv
<1> QED
    BY InvInductive, <1>1, PTL

(* Whichever way a run ends, claude outlives its workspace only if the     *)
(* daemon was killed (kill_on_drop, Workspace::remove).                    *)
THEOREM ClaudeGoesFirst == Spec => []GoneWithItsWorkspace
<1>1. Inv => GoneWithItsWorkspace
    BY DEF Inv, RunInv, GoneWithItsWorkspace
<1> QED
    BY InvInductive, <1>1, PTL

-----------------------------------------------------------------------------
(* What a job may use and is told.                                         *)

(* The variables of claude's environment, by their names: those of a       *)
(* QuickBooks session are set for its requester or not at all, and the     *)
(* database is the one for jobs or none.                                   *)
LEMMA EnvironmentOfJob ==
    ASSUME NEW s, NEW r, NEW a, NEW inherited, NEW env,
           env = Environment(s, r, a, inherited)
    PROVE  /\ HasQbo(s, r, a) =>
                  /\ env["QBO_ACCESS_TOKEN"] = "token"
                  /\ env["QBO_REALM_ID"] = "realm"
                  /\ env["QBO_API_BASE"] = "api"
                  /\ env["QBO_COMPANY_ID"] = r.company_id
                  /\ env["QBO_USER_ID"] = r.user_id
                  /\ env["QBO_REQUESTER_IS_ADMIN"] = IF r.is_admin THEN "1" ELSE "0"
           /\ ~HasQbo(s, r, a) => env["QBO_ACCESS_TOKEN"] = "unset"
           /\ env["DATABASE_URL"] = IF s.agent_database_url THEN "readonly" ELSE "unset"
<1>1. \A n \in QboJobEnv : n \in Names /\ n \in Cleared /\ n # "DATABASE_URL"
    BY DEF Names, QboJobEnv, SessionEnv, Cleared
<1>2. ASSUME NEW n \in QboJobEnv
      PROVE  env[n] = IF HasQbo(s, r, a) THEN QboVars(r)[n] ELSE "unset"
    BY <1>1 DEF Environment
<1>3. env["DATABASE_URL"] = IF s.agent_database_url THEN "readonly" ELSE "unset"
    BY <1>1 DEF Environment, Names, Cleared
<1>4. /\ QboVars(r)["QBO_ACCESS_TOKEN"] = "token"
      /\ QboVars(r)["QBO_REALM_ID"] = "realm"
      /\ QboVars(r)["QBO_API_BASE"] = "api"
      /\ QboVars(r)["QBO_COMPANY_ID"] = r.company_id
      /\ QboVars(r)["QBO_USER_ID"] = r.user_id
      /\ QboVars(r)["QBO_REQUESTER_IS_ADMIN"] = IF r.is_admin THEN "1" ELSE "0"
    BY DEF QboVars
<1> QED
    BY <1>2, <1>3, <1>4 DEF QboJobEnv, SessionEnv

(* So jobctl-mcp has the session of the requester, or none.                *)
LEMMA SessionOfJob ==
    ASSUME NEW s \in Settings, NEW r \in Requesters, NEW a \in Accesses, NEW inherited, NEW env,
           env = Environment(s, r, a, inherited)
    PROVE  /\ HasQbo(s, r, a) => SessionOf(env) = [scope |-> r, token |-> "token"]
           /\ ~HasQbo(s, r, a) => SessionOf(env) = NoSession
           /\ Works(env) <=> s.agent_database_url
<1>1. CASE HasQbo(s, r, a)
    <2>1. /\ r.user_id = "user" /\ r.company_id = "company" /\ r.is_admin \in BOOLEAN
          /\ r = [user_id |-> r.user_id, company_id |-> r.company_id, is_admin |-> r.is_admin]
        <3>1. PICK row \in JobRow : r = RequesterOf(row)
            BY DEF Requesters
        <3>2. row.chat
            BY <1>1, <3>1 DEF HasQbo, RequesterOf
        <3> QED
            BY <3>1, <3>2 DEF RequesterOf
    <2>2. \A n \in SessionEnv : env[n] # "unset"
        BY <1>1, <2>1, EnvironmentOfJob DEF SessionEnv
    <2>3. /\ env["QBO_USER_ID"] = r.user_id /\ env["QBO_COMPANY_ID"] = r.company_id
          /\ env["QBO_ACCESS_TOKEN"] = "token"
          /\ env["QBO_REQUESTER_IS_ADMIN"] = IF r.is_admin THEN "1" ELSE "0"
        BY <1>1, EnvironmentOfJob
    <2>4. (env["QBO_REQUESTER_IS_ADMIN"] = "1") = r.is_admin
        BY <2>1, <2>3
    <2>5. SessionOf(env) = [scope |-> r, token |-> "token"]
        BY <2>1, <2>2, <2>3, <2>4 DEF SessionOf
    <2>6. Works(env) <=> s.agent_database_url
        BY EnvironmentOfJob DEF Works
    <2> QED
        BY <1>1, <2>5, <2>6
<1>2. CASE ~HasQbo(s, r, a)
    <2>1. env["QBO_ACCESS_TOKEN"] = "unset"
        BY <1>2, EnvironmentOfJob
    <2>2. SessionOf(env) = NoSession
        BY <2>1 DEF SessionOf, SessionEnv
    <2>3. Works(env) <=> s.agent_database_url
        BY EnvironmentOfJob DEF Works
    <2> QED
        BY <1>2, <2>2, <2>3
<1> QED
    BY <1>1, <1>2

(* Until claude is started there is no session; then what jobctl-mcp has   *)
(* and what the prompt says are those of the job, for good.                *)
EnvInv ==
    /\ pc \in {"access", "spawn"} => claude.doing = "none"
    /\ claude.doing = "none" => session.qbo = NoSession
    /\ claude.doing # "none" =>
          LET q == IF HasQbo(job.settings, job.requester, job.access)
                   THEN [scope |-> job.requester, token |-> "token"] ELSE NoSession
          IN  /\ session.qbo = q
              /\ session.tools = ToolsOf(job.settings, q)
              /\ session.works <=> job.settings.agent_database_url
              /\ told = SystemPrompt(job.settings, job.requester, job.access)

(* A step after which claude has been started if it had been before.       *)
LEMMA JobStays ==
    ASSUME EnvInv, UNCHANGED <<job, session, told>>,
           claude'.doing = "none" <=> claude.doing = "none",
           pc' \in {"access", "spawn"} => pc \in {"access", "spawn"}
    PROVE  EnvInv'
<1>1. CASE claude.doing = "none"
    BY <1>1 DEF EnvInv
<1>2. CASE claude.doing # "none"
    BY <1>2 DEF EnvInv
<1> QED
    BY <1>1, <1>2

LEMMA EnvInvStep ==
    ASSUME Inv, EnvInv, [Next]_vars
    PROVE  EnvInv'
<1>0. /\ claude \in [doing : Doings, ok : BOOLEAN]
      /\ job \in [settings : Settings, requester : Requesters, access : Accesses,
                  inherited : [Names -> {"own", "1", "unset"}]]
    BY DEF Inv, StateOK
<1>1. CASE Spawn
    <2> DEFINE s == job.settings
               r == job.requester
               a == job.access
               env == Environment(s, r, a, job.inherited)
               q == IF HasQbo(s, r, a) THEN [scope |-> r, token |-> "token"] ELSE NoSession
    <2>1. s \in Settings /\ r \in Requesters /\ a \in Accesses
        BY <1>0
    <2>2. /\ pc' = "waiting" /\ claude' = [claude EXCEPT !.doing = "idle"] /\ UNCHANGED job
          /\ session' = [qbo |-> SessionOf(env), tools |-> ToolsOf(s, SessionOf(env)),
                         works |-> Works(env)]
          /\ told' = SystemPrompt(s, r, a)
        BY <1>1 DEF Spawn
    <2>3. claude'.doing = "idle"
        BY <1>0, <2>2
    <2> HIDE DEF s, r, a, env
    <2>4. SessionOf(env) = q /\ (Works(env) <=> s.agent_database_url)
        BY <2>1, SessionOfJob DEF env
    <2> HIDE DEF q
    <2>5. /\ session'.qbo = q /\ session'.tools = ToolsOf(s, q)
          /\ session'.works <=> s.agent_database_url
        BY <2>2, <2>4
    <2> QED
        BY <2>2, <2>3, <2>5 DEF EnvInv, s, r, a, q
<1>2. CASE Access
    <2>1. /\ pc = "access" /\ pc' = "spawn" /\ UNCHANGED <<session, claude>>
        BY <1>2 DEF Access
    <2> QED
        BY <2>1 DEF EnvInv
<1>3. CASE SpawnFails \/ Feed \/ Returns \/ RemoveWorkspace \/ DaemonKilled \/ Sweep \/ Descendant
    <2>1. UNCHANGED <<job, session, told, claude>>
        BY <1>3 DEF SpawnFails, Feed, Returns, RemoveWorkspace, DaemonKilled, Sweep,
                    Descendant, daemonVars
    <2>2. pc' \in {"access", "spawn"} => pc' = pc
        BY <1>3 DEF SpawnFails, Feed, Returns, RemoveWorkspace, DaemonKilled, Sweep,
                    Descendant, daemonVars
    <2> QED
        BY <2>1, <2>2, JobStays
<1>4. ASSUME NEW o \in Outputs, Drain(o) PROVE EnvInv'
    BY <1>4, JobStays DEF Drain, daemonVars
<1>5. CASE TimesOut \/ WaitFails \/ Cancelled
    <2>1. /\ pc' = "over" /\ KillOnDrop /\ UNCHANGED <<job, session, told>>
        BY <1>5 DEF TimesOut, WaitFails, Cancelled
    <2>2. claude'.doing = "none" <=> claude.doing = "none"
        BY <1>0, <2>1 DEF KillOnDrop, Alive
    <2> QED
        BY <2>1, <2>2, JobStays
<1>6. CASE Begins \/ Reads \/ Exits \/ \E o \in Outputs : Writes(o)
    <2>1. UNCHANGED <<pc, job, session, told>>
        BY <1>6 DEF Begins, Reads, Exits, Writes, daemonVars
    <2>2. claude.doing # "none"
        BY <1>6 DEF Begins, Reads, Exits, Writes, Alive, Outputs
    <2>3. claude'.doing # "none"
        <3>1. CASE Begins
            <4>1. PICK what \in {"reading"} \cup {o \in Outputs : said[o] < Size(o)} :
                      claude' = [claude EXCEPT !.doing = what]
                BY <3>1 DEF Begins
            <4> QED
                BY <1>0, <4>1 DEF Outputs
        <3>2. CASE Reads \/ \E o \in Outputs : Writes(o)
            BY <1>0, <3>2 DEF Reads, Writes
        <3>3. CASE Exits
            BY <3>3 DEF Exits
        <3> QED
            BY <1>6, <3>1, <3>2, <3>3
    <2> QED
        BY <2>1, <2>2, <2>3, JobStays
<1>7. CASE UNCHANGED vars
    BY <1>7, JobStays DEF vars, daemonVars
<1> QED
    BY <1>1, <1>2, <1>3, <1>4, <1>5, <1>6, <1>7 DEF Next, RunStep, ClaudeStep

LEMMA EnvInvAlways == Spec => [](ToolsActForRequester /\ ToldWhatItHas)
<1>1. Init => EnvInv
    BY DEF Init, EnvInv
<1>2. Inv /\ EnvInv /\ [Next]_vars => EnvInv'
    BY EnvInvStep
<1>3. Inv /\ EnvInv => ToolsActForRequester /\ ToldWhatItHas
    <2> SUFFICES ASSUME Inv, EnvInv PROVE ToolsActForRequester /\ ToldWhatItHas
        OBVIOUS
    <2> DEFINE s == job.settings
               r == job.requester
               a == job.access
    <2>1. CASE claude.doing = "none"
        BY <2>1 DEF EnvInv, ToolsActForRequester, ToldWhatItHas, Alive
    <2>2. CASE claude.doing # "none" /\ HasQbo(s, r, a)
        <3>1. session.qbo = [scope |-> r, token |-> "token"]
            BY <2>2 DEF EnvInv
        <3>2. /\ session.tools = {"sql", "qbo"} \cup (IF r.is_admin THEN {"qbo admin"} ELSE {})
              /\ session.works <=> s.agent_database_url
            <4>1. [scope |-> r, token |-> "token"] # NoSession
                BY DEF NoSession
            <4>2. s.jobctl_mcp
                BY <2>2 DEF HasQbo
            <4> QED
                BY <2>2, <4>1, <4>2 DEF EnvInv, ToolsOf
        <3>3. r # NoRequester /\ s.jobctl_mcp /\ a = "connected"
            BY <2>2 DEF HasQbo
        <3>4. told = (IF s.agent_database_url THEN {"database"} ELSE {})
                     \cup {"company only"} \cup (IF r.is_admin THEN {} ELSE {"own data only"})
                     \cup {"qbo"} \cup (IF r.is_admin THEN {"qbo admin"} ELSE {})
            BY <2>2, <3>3 DEF EnvInv, SystemPrompt
        <3>5. ToolsActForRequester
            BY <3>1, <3>3 DEF ToolsActForRequester
        <3>6. ToldWhatItHas
            BY <3>2, <3>4 DEF ToldWhatItHas
        <3> QED
            BY <3>5, <3>6
    <2>3. CASE claude.doing # "none" /\ ~HasQbo(s, r, a)
        <3>1. /\ session.qbo = NoSession
              /\ session.tools = IF s.jobctl_mcp THEN {"sql"} ELSE {}
              /\ session.works <=> s.agent_database_url
            BY <2>3 DEF EnvInv, ToolsOf
        <3>2. /\ "qbo" \notin told /\ "qbo admin" \notin told
              /\ "database" \in told <=> s.jobctl_mcp /\ s.agent_database_url
            BY <2>3 DEF EnvInv, SystemPrompt
        <3> QED
            BY <3>1, <3>2 DEF ToolsActForRequester, ToldWhatItHas
    <2> QED
        BY <2>1, <2>2, <2>3
<1> QED
    BY <1>1, <1>2, <1>3, InvInductive, PTL DEF Spec

(* Whatever the daemon was started with and whoever asks, the QuickBooks   *)
(* tools of a job act for its requester, or there are none                 *)
(* (command_with_qbo, Session::from_env).                                  *)
THEOREM JobActsForRequester == Spec => []ToolsActForRequester
BY EnvInvAlways, PTL

(* The model is told of exactly the QuickBooks tools that tools/list gives *)
(* it, and of the database exactly if the sql tool is there and has one    *)
(* (qbo_system_prompt, command_with_qbo).                                  *)
THEOREM JobIsToldWhatItHas == Spec => []ToldWhatItHas
BY EnvInvAlways, PTL
=============================================================================
