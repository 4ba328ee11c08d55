------------------------------ MODULE ChatStore ------------------------------
(***************************************************************************)
(* The chat_messages table and the operations JobStore (src/src/store.rs)  *)
(* performs on it, together with what the chat application does to it.     *)
(*                                                                         *)
(* The table is the sequence of rows ever inserted, so a row's id is its   *)
(* position and AUTO_INCREMENT is Append; a deleted row keeps its place as *)
(* "gone".  Each operation is one step: an SQL statement, or finish_done,  *)
(* a transaction that FinishTx takes apart.  Nothing is assumed about who  *)
(* calls which operation when: every caller allowed by the interface is a  *)
(* behaviour of Spec.                                                      *)
(***************************************************************************)
EXTENDS Naturals, Sequences, FiniteSetsExt

CONSTANTS
    Chats,     \* ids of the chats that exist when the system starts
    MaxRows    \* bound: users write while the table is shorter than this

ASSUME MaxRowsAssumption == MaxRows \in Nat

VARIABLES
    rows,      \* chat_messages
    chats      \* chats that have not been deleted

storeVars == <<rows, chats>>

-----------------------------------------------------------------------------
(* Rows.  kind tells apart what sender and is_agentic tell apart: a "job"  *)
(* is a user row with is_agentic = 1, an "ai" row is the answer to a job,  *)
(* and "plain" is every other message.  reply_id, error, result and        *)
(* in_reply_to are the members of the JSON payload; 0 and FALSE stand for  *)
(* a member that is not there, and texts are reduced to their presence.    *)

Kinds == {"job", "plain", "ai", "gone"}

JobStatus == {"null", "pending", "done", "failed"}

Row == [kind : Kinds, chat : Chats, status : JobStatus, reply_id : Nat,
        error : BOOLEAN, result : BOOLEAN, in_reply_to : Nat]

NewRow(kind, c, question) ==
    [kind |-> kind, chat |-> c, status |-> "null", reply_id |-> 0,
     error |-> FALSE, result |-> FALSE, in_reply_to |-> question]

Ids == DOMAIN rows

(* JobOutcome.  An "oversize" success carries an answer that does not fit  *)
(* the content column, a TEXT; "partial" is a failure that comes with the  *)
(* text produced so far.                                                   *)
Outcomes == {"success", "oversize", "failed", "partial"}

-----------------------------------------------------------------------------
(* Queries.                                                                *)

IsUnclaimed(i) == rows[i].kind = "job" /\ rows[i].status = "null"

IsPending(i) == rows[i].status = "pending"

Unclaimed == {i \in Ids : IsUnclaimed(i)}

(* Mutant: ORDER BY id DESC.                                               *)
NewestUnclaimed == Max(Unclaimed)

OldestUnclaimed == Min(Unclaimed)

(* JobStore::get finds agentic user messages only.                         *)
IsJob(i) == i \in Ids /\ rows[i].kind = "job"

Answers(i) == {k \in Ids : rows[k].kind = "ai" /\ rows[k].in_reply_to = i}

-----------------------------------------------------------------------------
(* Statements: what each one leaves in the table.                          *)

TryClaim(i) == [rows EXCEPT ![i].status = "pending"]

FinishDone(i) ==
    Append([rows EXCEPT ![i].status = "done", ![i].reply_id = Len(rows) + 1],
           NewRow("ai", rows[i].chat, i))

FinishFailed(i, withResult) ==
    [rows EXCEPT ![i].status = "failed", ![i].error = TRUE,
                 ![i].result = withResult]

(* Mutant: failed rows are queued again as well.                           *)
RequeueUnanswered ==
    [i \in Ids |-> IF rows[i].status \in {"pending", "failed"}
                    THEN [rows[i] EXCEPT !.status = "null"]
                    ELSE rows[i]]

RequeuePending ==
    [i \in Ids |-> IF IsPending(i) THEN [rows[i] EXCEPT !.status = "null"]
                                   ELSE rows[i]]

(* The rows after finish(i, outcome).  A row that is not pending is left   *)
(* alone (StoreError::NotPending), and so is everything when the answer is *)
(* too long for its column: the transaction fails as a whole.              *)
Finish(i, outcome) ==
    IF ~IsPending(i) \/ outcome = "oversize" THEN rows
    ELSE IF outcome = "success" THEN FinishDone(i)
    ELSE FinishFailed(i, outcome = "partial")

-----------------------------------------------------------------------------
(* The users of the chat application, and clients of POST /jobs.           *)

InsertJob(c) ==
    /\ c \in chats
    /\ Len(rows) < MaxRows
    /\ rows' = Append(rows, NewRow("job", c, 0))
    /\ UNCHANGED chats

InsertPlain(c) ==
    /\ c \in chats
    /\ Len(rows) < MaxRows
    /\ rows' = Append(rows, NewRow("plain", c, 0))
    /\ UNCHANGED chats

(* ON DELETE CASCADE.                                                      *)
DeleteChat(c) ==
    /\ c \in chats
    /\ chats' = chats \ {c}
    /\ rows' = [i \in Ids |-> IF rows[i].chat = c THEN NewRow("gone", c, 0)
                                                  ELSE rows[i]]

UserStep == \E c \in Chats : InsertJob(c) \/ InsertPlain(c) \/ DeleteChat(c)

-----------------------------------------------------------------------------
(* Any number of workers, in any order.                                    *)

(* Mutant: an UPDATE without "AND status IS NULL".                         *)
ClaimBlindly(i) ==
    /\ IsJob(i)
    /\ rows' = TryClaim(i)
    /\ UNCHANGED chats

ClaimStep(i) ==
    /\ IsUnclaimed(i)
    /\ rows' = TryClaim(i)
    /\ UNCHANGED chats

FinishStep(i, outcome) ==
    /\ rows' = Finish(i, outcome)
    /\ UNCHANGED chats

RequeueStep ==
    /\ rows' = RequeuePending
    /\ UNCHANGED chats

StoreInit ==
    /\ rows = << >>
    /\ chats = Chats

WorkerStep == \E i \in Ids : ClaimStep(i) \/ \E o \in Outcomes : FinishStep(i, o)

StoreNext == UserStep \/ WorkerStep \/ RequeueStep

StoreSpec == StoreInit /\ [][StoreNext]_storeVars

-----------------------------------------------------------------------------
(* Properties.                                                             *)

StoreTypeOK ==
    /\ rows \in Seq(Row)
    /\ chats \in SUBSET Chats

(* A job is done exactly when the table holds an answer to it, there is    *)
(* never a second answer, reply_id names it, and it was written to the     *)
(* chat the question came from (finish_done inserts and updates in one     *)
(* transaction, from the pending row itself).                              *)
AnsweredOnce ==
    \A i \in Ids :
        IF rows[i].kind = "job" /\ rows[i].status = "done"
        THEN /\ Answers(i) = {rows[i].reply_id}
             /\ rows[rows[i].reply_id].chat = rows[i].chat
        ELSE Answers(i) = {}

(* The payload tells the same story as the status: error exactly when      *)
(* failed, a partial result only next to an error, reply_id exactly when   *)
(* done, and only jobs have a status at all.  A retry must not leave the   *)
(* marks of an earlier attempt behind.                                     *)
PayloadMatchesStatus ==
    \A i \in Ids :
        /\ rows[i].error <=> rows[i].status = "failed"
        /\ rows[i].result => rows[i].error
        /\ rows[i].reply_id # 0 <=> rows[i].status = "done"
        /\ rows[i].status # "null" => rows[i].kind = "job"

(* The inductive form of the two properties above: every answer points at  *)
(* the done job that points back at it, from the same chat, and the other  *)
(* way round.                                                              *)
AnswerHasQuestion ==
    \A k \in Ids :
        rows[k].kind = "ai" =>
            /\ rows[k].in_reply_to \in Ids
            /\ rows[rows[k].in_reply_to].status = "done"
            /\ rows[rows[k].in_reply_to].reply_id = k
            /\ rows[rows[k].in_reply_to].chat = rows[k].chat

DoneHasAnswer ==
    \A i \in Ids :
        rows[i].status = "done" =>
            /\ rows[i].reply_id \in Ids
            /\ rows[rows[i].reply_id].kind = "ai"
            /\ rows[rows[i].reply_id].in_reply_to = i

StoreInv ==
    /\ StoreTypeOK
    /\ PayloadMatchesStatus
    /\ AnswerHasQuestion
    /\ DoneHasAnswer

(* What a job came to is never revised: once a row is done or failed no    *)
(* late worker, second finish or start-up requeue changes it; only         *)
(* deleting its chat removes it.                                           *)
OutcomeIsFinal ==
    [][\A i \in Ids :
          rows[i].status \in {"done", "failed"} =>
              rows'[i] = rows[i] \/ rows'[i].kind = "gone"]_storeVars

(* The table implements the life of a job that the chat application relies *)
(* on (JobLifecycle).                                                      *)
Jobs == {k \in Ids : rows[k].kind = "job"}

LifeOf(status) == CASE status = "null"    -> "queued"
                    [] status = "pending" -> "running"
                    [] OTHER              -> status

JobState == [i \in Jobs |-> LifeOf(rows[i].status)]

JobAnswers == {<<rows[k].in_reply_to, k>> : k \in {j \in Ids : rows[j].kind = "ai"}}

Lifecycle == INSTANCE JobLifecycle WITH state <- JobState, answers <- JobAnswers

ImplementsLifecycle == Lifecycle!Spec
=============================================================================
