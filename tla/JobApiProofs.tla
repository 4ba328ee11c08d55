----------------------------- MODULE JobApiProofs -----------------------------
(***************************************************************************)
(* What clients print and how they exit, for any number of clients of both *)
(* kinds, whatever workers, restarts and other users do between two of     *)
(* their statements.                                                       *)
(***************************************************************************)
EXTENDS JobApi, ChatStoreProofs

-----------------------------------------------------------------------------
(* Clients do to the table only what its users do: they insert jobs.       *)
LEMMA ClientStepOnTable ==
    ASSUME NEW c \in Clients, ClientStep(c)
    PROVE  UNCHANGED <<rows, chats>> \/ \E chat \in Chats : InsertJob(chat)
BY DEF ClientStep, Submit, Show, SubmitRefused, Wait, Created, ReadJob, ReadReply, Poll, Fails

LEMMA StepIsTableStep ==
    ASSUME [Next]_vars
    PROVE  [StoreNext]_storeVars
<1>1. ASSUME NEW c \in Clients, ClientStep(c)
      PROVE  [StoreNext]_storeVars
  BY <1>1, ClientStepOnTable DEF StoreNext, UserStep, storeVars
<1> QED BY <1>1 DEF Next, vars, storeVars

(* A client's step concerns this client alone.                             *)
SameFor(d) ==
    /\ pc'[d] = pc[d]
    /\ job'[d] = job[d]
    /\ view'[d] = view[d]
    /\ shown'[d] = shown[d]

LEMMA OthersUntouched ==
    ASSUME TypeOK, NEW c \in Clients, ClientStep(c), NEW d \in Clients \ {c}
    PROVE  SameFor(d)
BY DEF TypeOK, SameFor, ClientStep, Submit, Show, SubmitRefused, Wait, Created, ReadJob,
       ReadReply, Conclude, Poll, Fails, Go

-----------------------------------------------------------------------------
(* Types.                                                                  *)

(* A client concludes with an exit or goes to sleep.                       *)
LEMMA ConcludeType ==
    ASSUME TypeOK, NEW c \in Clients, NEW s \in JobStatus, NEW r \in Nat, Conclude(c, s, r)
    PROVE  /\ pc' \in [Clients -> Pcs]
           /\ shown' \in [Clients -> Nat]
BY DEF TypeOK, Conclude, Go, Pcs

LEMMA ClientTypeStep ==
    ASSUME TypeOK, NEW c \in Clients, ClientStep(c)
    PROVE  /\ pc' \in [Clients -> Pcs]
           /\ job' \in [Clients -> Nat]
           /\ view' \in [Clients -> View]
           /\ shown' \in [Clients -> Nat]
           /\ faults' \in 0..MaxFaults
<1>1. rows \in Seq(Row)
  BY DEF TypeOK, StoreTypeOK
<1>2. Len(rows) + 1 \in Nat /\ Ids \subseteq Nat
  BY <1>1 DEF Ids
<1>3. CASE \E chat \in Chats : Submit(c, chat) \/ SubmitRefused(c, chat)
  BY <1>2, <1>3 DEF TypeOK, Submit, SubmitRefused, Go, Pcs
<1>4. CASE \E i \in Ids : Show(c, i)
  BY <1>2, <1>4 DEF TypeOK, Show, Go, Pcs
<1>5. CASE Created(c) \/ Poll(c)
  BY <1>5 DEF TypeOK, Created, Poll, Go, Pcs
<1>6. CASE ReadJob(c)
  <2>1. CASE ~IsJob(job[c])
    BY <1>6, <2>1 DEF TypeOK, ReadJob, Go, Pcs
  <2>2. CASE IsJob(job[c])
    <3>1. rows[job[c]] \in Row
      BY <1>1, <2>2, RowOfId DEF IsJob
    <3>2. rows[job[c]].status \in JobStatus /\ rows[job[c]].reply_id \in Nat
      BY <3>1 DEF Row
    <3>3. view' \in [Clients -> View]
      BY <1>6, <2>2, <3>2 DEF TypeOK, ReadJob, View
    <3>4. pc' \in [Clients -> Pcs] /\ shown' \in [Clients -> Nat]
      <4>1. CASE rows[job[c]].reply_id # 0
        BY <1>6, <2>2, <4>1 DEF TypeOK, ReadJob, Go, Pcs
      <4>2. CASE rows[job[c]].reply_id = 0
        BY <1>6, <2>2, <3>2, <4>2, ConcludeType DEF ReadJob
      <4> QED BY <4>1, <4>2
    <3> QED BY <1>6, <3>3, <3>4 DEF TypeOK, ReadJob
  <2> QED BY <2>1, <2>2
<1>7. CASE ReadReply(c)
  <2>1. view[c].status \in JobStatus /\ FoundReply(c) \in Nat
    BY DEF TypeOK, View, FoundReply
  <2> QED BY <1>7, <2>1, ConcludeType DEF TypeOK, ReadReply
<1>8. CASE Fails(c)
  <2>1. faults' \in 0..MaxFaults
    BY <1>8, ApiAssumption DEF TypeOK, Fails
  <2> QED BY <1>8, <2>1 DEF TypeOK, Fails, Go, Pcs
<1> QED BY <1>3, <1>4, <1>5, <1>6, <1>7, <1>8 DEF ClientStep, Wait

LEMMA TypeStep ==
    ASSUME TypeOK, [Next]_vars
    PROVE  TypeOK'
<1>1. StoreTypeOK'
  BY StepIsTableStep, StoreTypeStep DEF TypeOK
<1>2. CASE UNCHANGED clientVars
  BY <1>1, <1>2 DEF TypeOK, clientVars
<1>3. ASSUME NEW c \in Clients, ClientStep(c)
      PROVE  TypeOK'
  BY <1>1, <1>3, ClientTypeStep DEF TypeOK
<1> QED BY <1>2, <1>3 DEF Next, vars, clientVars

-----------------------------------------------------------------------------
(* The invariant.                                                          *)

LEMMA ApiInvInit == Init => ApiInv
<1> SUFFICES ASSUME Init PROVE ApiInv
  OBVIOUS
<1>1. StoreInv
  BY StoreInvInit DEF Init
<1>2. TypeOK
  BY <1>1, ApiAssumption DEF Init, TypeOK, StoreInv, Pcs, View, NoView, JobStatus
<1>3. ASSUME NEW c \in Clients PROVE ClientInv(c)
  BY DEF Init, ClientInv, KnowsItsJob, PrintsOwnAnswer, ExitIsOutcome, PrintsAnswer, Exits
<1> QED BY <1>1, <1>2, <1>3 DEF ApiInv

(* What a client knows stays true while the table goes on without it: the  *)
(* outcome of its job is final, and an answer keeps its question.          *)
LEMMA KnowledgeStays ==
    ASSUME ApiInv, [StoreNext]_storeVars, NEW c \in Clients, SameFor(c)
    PROVE  ClientInv(c)'
<1>1. StoreInv
  BY DEF ApiInv
<1>2. \A i \in Ids : /\ i \in Ids'
                     /\ rows[i].kind = "gone" => rows'[i].kind = "gone"
                     /\ rows'[i].kind = "gone" \/ rows'[i].in_reply_to = rows[i].in_reply_to
  BY <1>1, RowsStay
<1>3. \A i \in Ids : rows[i].status \in {"done", "failed"} =>
          rows'[i] = rows[i] \/ rows'[i].kind = "gone"
  BY <1>1, FinalStep
<1>4. ClientInv(c)
  BY DEF ApiInv
<1>5. KnowsItsJob(c)'
  BY <1>2, <1>3, <1>4 DEF ClientInv, KnowsItsJob, SameFor, Exits
<1>6. PrintsOwnAnswer(c)'
  BY <1>2, <1>4 DEF ClientInv, PrintsOwnAnswer, SameFor
<1>7. ExitIsOutcome(c)'
  BY <1>2, <1>3, <1>4 DEF ClientInv, KnowsItsJob, ExitIsOutcome, SameFor
<1>8. PrintsAnswer(c)'
  BY <1>2, <1>4 DEF ClientInv, KnowsItsJob, PrintsAnswer, SameFor
<1> QED BY <1>5, <1>6, <1>7, <1>8 DEF ClientInv

(* A job without an answer is not done.                                    *)
LEMMA ReadJobKeeps ==
    ASSUME ApiInv, NEW c \in Clients, ReadJob(c)
    PROVE  ClientInv(c)'
<1> DEFINE r == rows[job[c]]
<1>1. /\ pc \in [Clients -> Pcs]
      /\ view \in [Clients -> View]
      /\ shown \in [Clients -> Nat]
      /\ shown[c] = 0
      /\ UNCHANGED <<rows, job>>
      /\ pc[c] = "view"
  BY DEF ApiInv, TypeOK, ClientInv, KnowsItsJob, ReadJob, Exits
<1>2. CASE ~IsJob(job[c])
  <2>1. pc'[c] = "error" /\ shown'[c] = 0
    BY <1>1, <1>2 DEF ReadJob, Go
  <2> QED BY <2>1 DEF ClientInv, KnowsItsJob, PrintsOwnAnswer, ExitIsOutcome, PrintsAnswer, Exits
<1>3. CASE IsJob(job[c]) /\ r.reply_id # 0
  <2>1. /\ pc'[c] = "reply"
        /\ shown'[c] = 0
        /\ view'[c] = [status |-> r.status, reply_id |-> r.reply_id]
    BY <1>1, <1>3 DEF ReadJob, Go
  <2>2. job[c] \in Ids /\ r.status = "done"
    BY <1>3 DEF ApiInv, StoreInv, PayloadMatchesStatus, IsJob
  <2>3. /\ r.reply_id \in Ids
        /\ rows[r.reply_id].in_reply_to = job[c]
    BY <2>2 DEF ApiInv, StoreInv, DoneHasAnswer
  <2> QED BY <1>1, <2>1, <2>2, <2>3
          DEF ClientInv, KnowsItsJob, PrintsOwnAnswer, ExitIsOutcome, PrintsAnswer, Exits, Ids
<1>4. CASE IsJob(job[c]) /\ r.reply_id = 0
  <2>1. job[c] \in Ids /\ r.status # "done"
    BY <1>4 DEF ApiInv, StoreInv, PayloadMatchesStatus, IsJob
  <2>2. Conclude(c, r.status, 0)
    BY <1>4 DEF ReadJob
  <2>3. CASE r.status = "failed"
    <3>1. pc'[c] = "failure" /\ shown'[c] = 0
      BY <1>1, <2>2, <2>3 DEF Conclude, Go
    <3> QED BY <1>1, <2>1, <2>3, <3>1
            DEF ClientInv, KnowsItsJob, PrintsOwnAnswer, ExitIsOutcome, PrintsAnswer, Exits, Ids
  <2>4. CASE r.status # "failed"
    <3>1. pc'[c] = "sleep" /\ shown'[c] = 0
      BY <1>1, <2>1, <2>2, <2>4 DEF Conclude, Go
    <3> QED BY <1>1, <2>1, <3>1
            DEF ClientInv, KnowsItsJob, PrintsOwnAnswer, ExitIsOutcome, PrintsAnswer, Exits, Ids
  <2> QED BY <2>3, <2>4
<1> QED BY <1>2, <1>3, <1>4

(* The answer can only be missing if the chat is gone, and if it is there  *)
(* it is the answer to this job.                                           *)
LEMMA ReadReplyKeeps ==
    ASSUME ApiInv, NEW c \in Clients, ReadReply(c)
    PROVE  ClientInv(c)'
<1> DEFINE a == view[c].reply_id
           f == FoundReply(c)
<1>1. /\ pc \in [Clients -> Pcs]
      /\ shown \in [Clients -> Nat]
      /\ UNCHANGED <<rows, job>>
      /\ pc[c] = "reply"
  BY DEF ApiInv, TypeOK, ReadReply
<1>2. /\ job[c] \in Ids
      /\ view[c].status = "done"
      /\ a \in Ids
      /\ rows[a].kind = "gone" \/ rows[a].in_reply_to = job[c]
      /\ \/ rows[job[c]].kind = "gone"
         \/ rows[job[c]].status = "done" /\ rows[job[c]].reply_id = a
  BY <1>1 DEF ApiInv, ClientInv, KnowsItsJob
<1>3. /\ shown'[c] = f
      /\ pc'[c] = IF f = 0 /\ c \in EnqueueClients THEN "error" ELSE "success"
  BY <1>1, <1>2 DEF ReadReply, Conclude, Go
<1>4. CASE rows[a].kind = "ai"
  <2>1. f = a
    BY <1>4 DEF FoundReply
  <2>2. a # 0
    BY <1>2, RowOfId DEF ApiInv, StoreInv, StoreTypeOK
  <2> QED BY <1>1, <1>2, <1>3, <1>4, <2>1, <2>2
          DEF ClientInv, KnowsItsJob, PrintsOwnAnswer, ExitIsOutcome, PrintsAnswer, Exits, Ids
<1>5. CASE rows[a].kind # "ai"
  <2>1. f = 0
    BY <1>5 DEF FoundReply
  <2>2. rows[job[c]].kind = "gone"
    BY <1>2, <1>5 DEF ApiInv, StoreInv, DoneHasAnswer
  <2>3. pc'[c] = "success" => c \in AskClients
    BY <1>3, <2>1 DEF Clients
  <2> QED BY <1>1, <1>2, <1>3, <2>1, <2>2, <2>3
          DEF ClientInv, KnowsItsJob, PrintsOwnAnswer, ExitIsOutcome, PrintsAnswer, Exits, Ids
<1> QED BY <1>4, <1>5

(* The other steps of a client print nothing and end in no outcome.        *)
LEMMA QuietStepKeeps ==
    ASSUME ApiInv, NEW c \in Clients, [StoreNext]_storeVars,
           shown' = shown,
           pc[c] \notin Exits,
           pc'[c] \in {"created", "view", "error"},
           pc'[c] # "error" => job'[c] \in Ids'
    PROVE  ClientInv(c)'
<1>1. shown[c] = 0
  BY DEF ApiInv, ClientInv, KnowsItsJob
<1> QED BY <1>1
        DEF ClientInv, KnowsItsJob, PrintsOwnAnswer, ExitIsOutcome, PrintsAnswer, Exits

LEMMA ClientKeepsItsInv ==
    ASSUME ApiInv, [StoreNext]_storeVars, NEW c \in Clients, ClientStep(c)
    PROVE  ClientInv(c)'
<1>1. /\ pc \in [Clients -> Pcs]
      /\ job \in [Clients -> Nat]
      /\ rows \in Seq(Row)
  BY DEF ApiInv, TypeOK, StoreTypeOK
<1>2. KnowsItsJob(c)
  BY DEF ApiInv, ClientInv
<1>3. ASSUME NEW chat \in Chats, Submit(c, chat)
      PROVE  ClientInv(c)'
  <2>1. job'[c] = Len(rows) + 1 /\ pc'[c] \in {"created", "view"} /\ pc[c] \notin Exits
    BY <1>1, <1>3 DEF Submit, Go, Exits
  <2>2. rows' = Append(rows, NewRow("job", chat, 0)) /\ shown' = shown
    BY <1>3 DEF Submit, InsertJob
  <2>3. job'[c] \in Ids'
    BY <1>1, <2>1, <2>2 DEF Ids
  <2> QED BY <2>1, <2>2, <2>3, QuietStepKeeps
<1>4. ASSUME NEW chat \in Chats, SubmitRefused(c, chat)
      PROVE  ClientInv(c)'
  BY <1>1, <1>4, QuietStepKeeps DEF SubmitRefused, Go, Exits
<1>5. ASSUME NEW i \in Ids, Show(c, i)
      PROVE  ClientInv(c)'
  BY <1>1, <1>5, QuietStepKeeps DEF Show, Go, Exits, Ids
<1>6. CASE Created(c)
  BY <1>1, <1>2, <1>6, QuietStepKeeps DEF Created, Go, Exits, Ids, KnowsItsJob
<1>7. CASE Poll(c)
  BY <1>1, <1>2, <1>7, QuietStepKeeps DEF Poll, Go, Exits, Ids, KnowsItsJob
<1>8. CASE Fails(c)
  BY <1>1, <1>8, QuietStepKeeps DEF Fails, Go, Exits
<1> QED BY <1>3, <1>4, <1>5, <1>6, <1>7, <1>8, ReadJobKeeps, ReadReplyKeeps
        DEF ClientStep, Wait

LEMMA ApiInvStep == ApiInv /\ [Next]_vars => ApiInv'
<1> SUFFICES ASSUME ApiInv, [Next]_vars PROVE ApiInv'
  OBVIOUS
<1>1. [StoreNext]_storeVars
  BY StepIsTableStep
<1>2. StoreInv'
  BY <1>1, StoreInvStep DEF ApiInv
<1>3. TypeOK'
  BY TypeStep DEF ApiInv
<1>4. ASSUME NEW c \in Clients
      PROVE  ClientInv(c)'
  <2>1. CASE UNCHANGED clientVars
    <3>1. SameFor(c)
      BY <2>1 DEF clientVars, SameFor
    <3> QED BY <1>1, <3>1, KnowledgeStays
  <2>2. ASSUME NEW d \in Clients, ClientStep(d)
        PROVE  ClientInv(c)'
    <3>1. CASE d = c
      BY <1>1, <2>2, <3>1, ClientKeepsItsInv
    <3>2. CASE d # c
      <4>1. SameFor(c)
        BY <2>2, <3>2, OthersUntouched DEF ApiInv
      <4> QED BY <1>1, <4>1, KnowledgeStays
    <3> QED BY <3>1, <3>2
  <2> QED BY <2>1, <2>2 DEF Next, vars, clientVars
<1> QED BY <1>2, <1>3, <1>4 DEF ApiInv

(* Whatever happens between two statements of a read, a client prints the  *)
(* answer to its own question, and nothing on success only if its chat was *)
(* deleted.                                                                *)
THEOREM ClientsAreRight == Spec => [](TypeOK /\ ShowsOwnAnswer /\ SuccessShowsAnswer)
<1>1. ApiInv => TypeOK /\ ShowsOwnAnswer /\ SuccessShowsAnswer
  BY DEF ApiInv, ClientInv, ShowsOwnAnswer, SuccessShowsAnswer
<1> QED BY <1>1, ApiInvInit, ApiInvStep, PTL DEF Spec

(* The exit status of a client that waited is the outcome of its job, and  *)
(* still is when anybody looks at the table afterwards.                    *)
THEOREM ExitsAreRight == Spec => []ExitTellsOutcome
<1>1. ApiInv => ExitTellsOutcome
  BY DEF ApiInv, ClientInv, ExitTellsOutcome
<1> QED BY <1>1, ApiInvInit, ApiInvStep, PTL DEF Spec
=============================================================================
