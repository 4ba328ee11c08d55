-------------------------------- MODULE JobApi --------------------------------
(***************************************************************************)
(* Those who submit a job and wait for its answer: the handlers of the     *)
(* daemon's HTTP API (src/src/http.rs) with the client that calls them,    *)
(* `jobctl ask`, and `jobctl enqueue`, which goes to the table itself      *)
(* (src/crates/jobctl/src/main.rs).                                        *)
(*                                                                         *)
(* Each handler and each poll reads the table with several statements;     *)
(* workers, restarts and users (StoreNext) come in between.  A client      *)
(* waits for its response, so a request, its handler and what the client   *)
(* does with the response are one chain of steps.                          *)
(***************************************************************************)
EXTENDS ChatStore

CONSTANTS
    AskClients,       \* runs of `jobctl ask`
    EnqueueClients,   \* runs of `jobctl enqueue`
    MaxFaults         \* bound: requests and statements that fail

ASSUME ApiAssumption ==
    /\ AskClients \cap EnqueueClients = {}
    /\ MaxFaults \in Nat

VARIABLES
    pc,       \* client -> where it is
    job,      \* client -> the id of the message it waits for, or 0
    view,     \* client -> status and reply_id of the job it has read last
    shown,    \* client -> the id of the ai message it printed, or 0
    faults    \* how many faults have happened

clientVars == <<pc, job, view, shown, faults>>
vars == <<rows, chats, clientVars>>

Clients == AskClients \cup EnqueueClients

(* "view" and "reply" are the two statements of load_view and of           *)
(* watch_row; the last three are the ways to exit.                         *)
Pcs == {"start", "created", "view", "reply", "sleep", "success", "failure", "error"}

Exits == {"success", "failure", "error"}

View == [status : JobStatus, reply_id : Nat]

NoView == [status |-> "null", reply_id |-> 0]

Init ==
    /\ StoreInit
    /\ pc = [c \in Clients |-> "start"]
    /\ job = [c \in Clients |-> 0]
    /\ view = [c \in Clients |-> NoView]
    /\ shown = [c \in Clients |-> 0]
    /\ faults = 0

Go(c, to) == pc' = [pc EXCEPT ![c] = to]

-----------------------------------------------------------------------------
(* Submitting: POST /jobs, or insert_agentic.                              *)

Submit(c, chat) ==
    /\ pc[c] = "start"
    /\ InsertJob(chat)
    /\ job' = [job EXCEPT ![c] = Len(rows) + 1]
    /\ Go(c, IF c \in AskClients THEN "created" ELSE "view")
    /\ UNCHANGED <<view, shown, faults>>

(* `jobctl enqueue --show` watches a message that is there already.        *)
Show(c, i) ==
    /\ pc[c] = "start"
    /\ c \in EnqueueClients
    /\ job' = [job EXCEPT ![c] = i]
    /\ Go(c, "view")
    /\ UNCHANGED <<rows, chats, view, shown, faults>>

(* The chat is gone: the foreign key refuses the row.                      *)
SubmitRefused(c, chat) ==
    /\ pc[c] = "start"
    /\ chat \notin chats
    /\ Go(c, "error")
    /\ UNCHANGED <<rows, chats, job, view, shown, faults>>

(* route() loads the view of the job it has just inserted, and answers 404 *)
(* if it is gone again.  A job that is done already comes with its reply,  *)
(* which cmd_ask does not look at: it only takes the id.                   *)
Created(c) ==
    /\ pc[c] = "created"
    /\ Go(c, IF IsJob(job[c]) THEN "view" ELSE "error")
    /\ UNCHANGED <<rows, chats, job, view, shown, faults>>

-----------------------------------------------------------------------------
(* Waiting.                                                                *)

(* What a client does once it knows a job's status and, for a done one,    *)
(* which ai message, if any, was found: cmd_ask prints an empty line when  *)
(* there is none, watch_row fails.                                         *)
Conclude(c, status, reply) ==
    CASE status = "done" ->
           /\ shown' = [shown EXCEPT ![c] = reply]
           /\ Go(c, IF reply = 0 /\ c \in EnqueueClients THEN "error" ELSE "success")
      [] status = "failed" -> Go(c, "failure") /\ UNCHANGED shown
      [] OTHER -> Go(c, "sleep") /\ UNCHANGED shown

(* Mutant: a failed job is waited for like any other that is not done.     *)
ReadJobDoneOnly(c) ==
    /\ pc[c] = "view"
    /\ IF IsJob(job[c])
       THEN /\ view' = [view EXCEPT ![c] = [status   |-> rows[job[c]].status,
                                            reply_id |-> rows[job[c]].reply_id]]
            /\ IF rows[job[c]].reply_id # 0
               THEN Go(c, "reply") /\ UNCHANGED shown
               ELSE Go(c, "sleep") /\ UNCHANGED shown
       ELSE Go(c, "error") /\ UNCHANGED <<view, shown>>
    /\ UNCHANGED <<rows, chats, job, faults>>

(* The row of the job: 404, or "not an agentic user message", once it is   *)
(* gone.                                                                   *)
ReadJob(c) ==
    /\ pc[c] = "view"
    /\ IF IsJob(job[c])
       THEN /\ view' = [view EXCEPT ![c] = [status   |-> rows[job[c]].status,
                                            reply_id |-> rows[job[c]].reply_id]]
            /\ IF rows[job[c]].reply_id # 0
               THEN Go(c, "reply") /\ UNCHANGED shown
               ELSE Conclude(c, rows[job[c]].status, 0)
       ELSE Go(c, "error") /\ UNCHANGED <<view, shown>>
    /\ UNCHANGED <<rows, chats, job, faults>>

(* Mutant: the reply is the last ai message of the job's chat, whichever   *)
(* job it answers.                                                         *)
LatestReply(c) ==
    LET replies == {k \in Ids : rows[k].kind = "ai" /\ rows[k].chat = rows[job[c]].chat}
    IN  IF replies = {} THEN 0 ELSE Max(replies)

(* The row that reply_id names, if it is still there.                      *)
FoundReply(c) == IF rows[view[c].reply_id].kind = "ai" THEN view[c].reply_id ELSE 0

ReadReply(c) ==
    /\ pc[c] = "reply"
    /\ Conclude(c, view[c].status, FoundReply(c))
    /\ UNCHANGED <<rows, chats, job, view, faults>>

(* Ask again after the poll interval.                                      *)
Poll(c) ==
    /\ pc[c] = "sleep"
    /\ Go(c, "view")
    /\ UNCHANGED <<rows, chats, job, view, shown, faults>>

(* A statement or the request around it fails, or is not answered in time: *)
(* neither client tries again.  A POST may have inserted the row.          *)
Fails(c) ==
    /\ pc[c] \notin Exits \cup {"sleep"}
    /\ faults < MaxFaults
    /\ faults' = faults + 1
    /\ \/ UNCHANGED <<rows, chats>>
       \/ pc[c] = "start" /\ \E chat \in Chats : InsertJob(chat)
    /\ Go(c, "error")
    /\ UNCHANGED <<job, view, shown>>

-----------------------------------------------------------------------------

Wait(c) == Created(c) \/ ReadJob(c) \/ ReadReply(c) \/ Poll(c)

ClientStep(c) ==
    \/ \E chat \in Chats : Submit(c, chat) \/ SubmitRefused(c, chat)
    \/ \E i \in Ids : Show(c, i)
    \/ Wait(c)
    \/ Fails(c)

Next == (StoreNext /\ UNCHANGED clientVars) \/ \E c \in Clients : ClientStep(c)

Spec == Init /\ [][Next]_vars

(* The clients' own loops go on; nothing is asked of the workers.          *)
Fairness == \A c \in Clients : WF_vars(Wait(c))

FairSpec == Spec /\ Fairness

-----------------------------------------------------------------------------
(* Properties.                                                             *)

TypeOK ==
    /\ StoreTypeOK
    /\ pc \in [Clients -> Pcs]
    /\ job \in [Clients -> Nat]
    /\ view \in [Clients -> View]
    /\ shown \in [Clients -> Nat]
    /\ faults \in 0..MaxFaults

(* What is printed is the answer to the client's own question, whatever    *)
(* else is answered in the same chat meanwhile.                            *)
PrintsOwnAnswer(c) ==
    shown[c] # 0 =>
        /\ shown[c] \in Ids
        /\ rows[shown[c]].kind = "gone" \/ rows[shown[c]].in_reply_to = job[c]

ShowsOwnAnswer == \A c \in Clients : PrintsOwnAnswer(c)

(* The exit code is the job's outcome, for good: a client that exits with  *)
(* success leaves a done job behind and one that reports failure a failed  *)
(* one, and neither is ever revised (unless the chat is deleted).          *)
ExitIsOutcome(c) ==
    /\ pc[c] = "success" => rows[job[c]].kind = "gone" \/ rows[job[c]].status = "done"
    /\ pc[c] = "failure" => rows[job[c]].kind = "gone" \/ rows[job[c]].status = "failed"

ExitTellsOutcome == \A c \in Clients : ExitIsOutcome(c)

(* Success without an answer on the screen happens to `ask` only, and only *)
(* when the chat was deleted under it.                                     *)
PrintsAnswer(c) ==
    pc[c] = "success" /\ shown[c] = 0 => c \in AskClients /\ rows[job[c]].kind = "gone"

SuccessShowsAnswer == \A c \in Clients : PrintsAnswer(c)

(* What a client knows of the table, although the table goes on: its job   *)
(* is there or deleted, and between the two statements of a read the job   *)
(* and the answer that the first has seen stay each other's.               *)
KnowsItsJob(c) ==
    /\ pc[c] \notin {"start", "error"} => job[c] \in Ids
    /\ pc[c] \notin Exits => shown[c] = 0
    /\ pc[c] = "reply" =>
          /\ view[c].status = "done"
          /\ view[c].reply_id \in Ids
          /\ \/ rows[view[c].reply_id].kind = "gone"
             \/ rows[view[c].reply_id].in_reply_to = job[c]
          /\ \/ rows[job[c]].kind = "gone"
             \/ rows[job[c]].status = "done" /\ rows[job[c]].reply_id = view[c].reply_id

(* The inductive invariant.                                                *)
ClientInv(c) == KnowsItsJob(c) /\ PrintsOwnAnswer(c) /\ ExitIsOutcome(c) /\ PrintsAnswer(c)

ApiInv == TypeOK /\ StoreInv /\ \A c \in Clients : ClientInv(c)

(* A client does not outlive its job: when the job is answered, failed or  *)
(* deleted, it exits.                                                      *)
EveryWaiterReturns ==
    \A c \in Clients :
        job[c] # 0 /\ (~IsJob(job[c]) \/ rows[job[c]].status \in {"done", "failed"})
            ~> pc[c] \in Exits
=============================================================================
