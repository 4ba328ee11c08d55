--------------------------- MODULE ChatStoreProofs ---------------------------
(***************************************************************************)
(* What the table guarantees, for any number of chats, rows and callers.   *)
(***************************************************************************)
EXTENDS ChatStore, TLAPS

-----------------------------------------------------------------------------
(* The operations, row by row.                                             *)

(* A fresh row is a row.                                                   *)
LEMMA NewRowType ==
    ASSUME NEW kind \in Kinds, NEW c \in Chats, NEW q \in Nat
    PROVE  NewRow(kind, c, q) \in Row
BY DEF NewRow, Row, JobStatus

(* What the statements write into a row keeps it a row.                    *)
LEMMA RowUpdates ==
    ASSUME NEW r \in Row, NEW n \in Nat, NEW b \in BOOLEAN
    PROVE  /\ [r EXCEPT !.status = "null"] \in Row
           /\ [r EXCEPT !.status = "pending"] \in Row
           /\ [r EXCEPT !.status = "done", !.reply_id = n] \in Row
           /\ [r EXCEPT !.status = "failed", !.error = TRUE, !.result = b] \in Row
BY DEF Row, JobStatus

(* Every id names a row.                                                   *)
LEMMA RowOfId ==
    ASSUME rows \in Seq(Row), NEW i \in Ids
    PROVE  /\ i \in Nat \ {0}
           /\ Len(rows) \in Nat
           /\ rows[i] \in Row
           /\ rows[i].chat \in Chats
<1>1. /\ i \in Nat \ {0}
      /\ Len(rows) \in Nat
      /\ rows[i] \in Row
  BY DEF Ids
<1>2. rows[i].chat \in Chats
  BY <1>1 DEF Row
<1> QED BY <1>1, <1>2

(* Inserting a row leaves the others alone.                                *)
LEMMA AppendRow ==
    ASSUME rows \in Seq(Row), NEW x \in Row, NEW t, t = Append(rows, x)
    PROVE  /\ t \in Seq(Row)
           /\ DOMAIN t = Ids \cup {Len(rows) + 1}
           /\ Len(rows) + 1 \notin Ids
           /\ Len(rows) \in Nat
           /\ \A k \in Ids : k < Len(rows) + 1
           /\ t[Len(rows) + 1] = x
           /\ \A k \in Ids : t[k] = rows[k]
BY DEF Ids

(* An update in place changes one row and no id.                           *)
LEMMA UpdateRow ==
    ASSUME rows \in Seq(Row), NEW i \in Ids, NEW x \in Row, NEW t,
           t = [rows EXCEPT ![i] = x]
    PROVE  /\ t \in Seq(Row)
           /\ DOMAIN t = Ids
           /\ t[i] = x
           /\ \A k \in Ids : k # i => t[k] = rows[k]
BY DEF Ids

(* Rows that differ at most in their status.                               *)
SameBut(x, y) ==
    /\ x.kind = y.kind
    /\ x.chat = y.chat
    /\ x.error = y.error
    /\ x.result = y.result
    /\ x.reply_id = y.reply_id
    /\ x.in_reply_to = y.in_reply_to

(* TryClaim touches the status of its row only.                            *)
LEMMA TryClaimRows ==
    ASSUME rows \in Seq(Row), NEW i \in Ids, NEW t, t = TryClaim(i)
    PROVE  /\ t \in Seq(Row)
           /\ DOMAIN t = Ids
           /\ t[i].status = "pending"
           /\ SameBut(t[i], rows[i])
           /\ \A k \in Ids : k # i => t[k] = rows[k]
<1> DEFINE x == [rows[i] EXCEPT !.status = "pending"]
<1>1. x \in Row
  <2>1. rows[i] \in Row /\ Len(rows) + 1 \in Nat
    BY RowOfId
  <2> QED BY <2>1, RowUpdates
<1>2. t = [rows EXCEPT ![i] = x]
  BY DEF TryClaim
<1>3. /\ x.status = "pending"
      /\ SameBut(x, rows[i])
  BY RowOfId DEF Row, SameBut
<1> HIDE DEF x
<1> QED BY <1>1, <1>2, <1>3, UpdateRow

(* Table t is rows with i marked failed.                                   *)
MarkedFailed(t, i) ==
    /\ t \in Seq(Row)
    /\ DOMAIN t = Ids
    /\ t[i].kind = rows[i].kind
    /\ t[i].chat = rows[i].chat
    /\ t[i].status = "failed"
    /\ t[i].error = TRUE
    /\ t[i].reply_id = rows[i].reply_id
    /\ t[i].in_reply_to = rows[i].in_reply_to
    /\ \A k \in Ids : k # i => t[k] = rows[k]

(* FinishFailed touches its row only.                                      *)
LEMMA FinishFailedRows ==
    ASSUME rows \in Seq(Row), NEW i \in Ids, NEW b \in BOOLEAN, NEW t,
           t = FinishFailed(i, b)
    PROVE  MarkedFailed(t, i)
<1> DEFINE x == [rows[i] EXCEPT !.status = "failed", !.error = TRUE, !.result = b]
<1>1. x \in Row
  <2>1. rows[i] \in Row /\ Len(rows) + 1 \in Nat
    BY RowOfId
  <2> QED BY <2>1, RowUpdates
<1>2. t = [rows EXCEPT ![i] = x]
  BY DEF FinishFailed
<1>3. /\ x.kind = rows[i].kind
      /\ x.chat = rows[i].chat
      /\ x.status = "failed"
      /\ x.error = TRUE
      /\ x.reply_id = rows[i].reply_id
      /\ x.in_reply_to = rows[i].in_reply_to
  BY RowOfId DEF Row
<1> HIDE DEF x
<1> QED BY <1>1, <1>2, <1>3, UpdateRow DEF MarkedFailed

(* Table t is rows with i marked done and a new row a that answers it.     *)
AnswerAdded(t, i, a) ==
    /\ t \in Seq(Row)
    /\ DOMAIN t = Ids \cup {a}
    /\ a \notin Ids
    /\ a \in Nat \ {0}
    /\ \A k \in Ids : k < a
    /\ t[i].kind = rows[i].kind
    /\ t[i].chat = rows[i].chat
    /\ t[i].status = "done"
    /\ t[i].error = rows[i].error
    /\ t[i].result = rows[i].result
    /\ t[i].reply_id = a
    /\ t[i].in_reply_to = rows[i].in_reply_to
    /\ t[a] = NewRow("ai", rows[i].chat, i)
    /\ \A k \in Ids : k # i => t[k] = rows[k]

(* FinishDone touches its row and adds the answer.                         *)
LEMMA FinishDoneRows ==
    ASSUME rows \in Seq(Row), NEW i \in Ids, NEW t, t = FinishDone(i)
    PROVE  AnswerAdded(t, i, Len(rows) + 1)
<1> DEFINE a == Len(rows) + 1
           x == [rows[i] EXCEPT !.status = "done", !.reply_id = a]
           u == [rows EXCEPT ![i] = x]
           y == NewRow("ai", rows[i].chat, i)
<1>1. x \in Row
  <2>1. rows[i] \in Row /\ Len(rows) + 1 \in Nat
    BY RowOfId
  <2> QED BY <2>1, RowUpdates
<1>2. /\ u \in Seq(Row)
      /\ DOMAIN u = Ids
      /\ Len(u) = Len(rows)
      /\ u[i] = x
      /\ \A k \in Ids : k # i => u[k] = rows[k]
  BY <1>1, UpdateRow DEF Ids
<1>3. y \in Row
  BY NewRowType, RowOfId DEF Kinds
<1>4. t = Append(u, y)
  BY DEF FinishDone
<1>5. /\ x.kind = rows[i].kind
      /\ x.chat = rows[i].chat
      /\ x.status = "done"
      /\ x.error = rows[i].error
      /\ x.result = rows[i].result
      /\ x.reply_id = a
      /\ x.in_reply_to = rows[i].in_reply_to
  BY RowOfId DEF Row
<1> HIDE DEF x, u, y
<1>6. /\ t \in Seq(Row)
      /\ DOMAIN t = Ids \cup {a}
      /\ a \notin Ids
      /\ a \in Nat \ {0}
      /\ \A k \in Ids : k < a
      /\ t[a] = y
      /\ \A k \in Ids : t[k] = u[k]
  BY <1>2, <1>3, <1>4 DEF Ids
<1> QED BY <1>2, <1>5, <1>6 DEF y, AnswerAdded

(* Requeueing rewrites the pending rows in place.                          *)
LEMMA RequeueRows ==
    ASSUME rows \in Seq(Row), NEW t, t = RequeuePending
    PROVE  /\ t \in Seq(Row)
           /\ DOMAIN t = Ids
           /\ \A k \in Ids : ~IsPending(k) => t[k] = rows[k]
           /\ \A k \in Ids : IsPending(k) => t[k].status = "null"
           /\ \A k \in Ids : SameBut(t[k], rows[k])
<1> DEFINE x(k) == IF IsPending(k) THEN [rows[k] EXCEPT !.status = "null"] ELSE rows[k]
<1>1. \A k \in Ids : x(k) \in Row
  BY RowOfId, RowUpdates
<1>2. t = [k \in Ids |-> x(k)]
  BY DEF RequeuePending
<1>3. ASSUME NEW k \in Ids
      PROVE  /\ ~IsPending(k) => x(k) = rows[k]
             /\ IsPending(k) => x(k).status = "null"
             /\ SameBut(x(k), rows[k])
  BY RowOfId DEF Row, SameBut
<1> HIDE DEF x
<1>4. t \in Seq(Row) /\ DOMAIN t = Ids /\ \A k \in Ids : t[k] = x(k)
  BY <1>1, <1>2 DEF Ids
<1> QED BY <1>3, <1>4

(* Deleting a chat rewrites its rows in place.                             *)
LEMMA DeleteRows ==
    ASSUME rows \in Seq(Row), NEW c \in Chats, NEW t,
           t = [i \in Ids |-> IF rows[i].chat = c THEN NewRow("gone", c, 0) ELSE rows[i]]
    PROVE  /\ t \in Seq(Row)
           /\ DOMAIN t = Ids
           /\ \A k \in Ids : t[k] = IF rows[k].chat = c THEN NewRow("gone", c, 0)
                                                        ELSE rows[k]
<1> DEFINE x(k) == IF rows[k].chat = c THEN NewRow("gone", c, 0) ELSE rows[k]
<1>1. \A k \in Ids : x(k) \in Row
  BY RowOfId, NewRowType DEF Kinds
<1>2. t = [k \in Ids |-> x(k)]
  OBVIOUS
<1> HIDE DEF x
<1>3. t \in Seq(Row) /\ DOMAIN t = Ids /\ \A k \in Ids : t[k] = x(k)
  BY <1>1, <1>2 DEF Ids
<1> QED BY <1>3 DEF x

-----------------------------------------------------------------------------
(* Type correctness.                                                       *)

(* Every operation of the store, called at any time, leaves a well-formed  *)
(* table.                                                                  *)
LEMMA StoreTypeStep ==
    ASSUME StoreTypeOK, [StoreNext]_storeVars
    PROVE  StoreTypeOK'
<1>1. rows \in Seq(Row) /\ chats \in SUBSET Chats
  BY DEF StoreTypeOK
<1>2. ASSUME NEW c \in Chats, InsertJob(c) \/ InsertPlain(c)
      PROVE  StoreTypeOK'
  <2>1. /\ NewRow("job", c, 0) \in Row
        /\ NewRow("plain", c, 0) \in Row
    BY NewRowType DEF Kinds
  <2> QED BY <1>1, <1>2, <2>1, AppendRow DEF InsertJob, InsertPlain, StoreTypeOK
<1>3. ASSUME NEW c \in Chats, DeleteChat(c)
      PROVE  StoreTypeOK'
  BY <1>1, <1>3, DeleteRows DEF DeleteChat, StoreTypeOK
<1>4. ASSUME NEW i \in Ids, ClaimStep(i)
      PROVE  StoreTypeOK'
  BY <1>1, <1>4, TryClaimRows DEF ClaimStep, StoreTypeOK
<1>5. ASSUME NEW i \in Ids, NEW o \in Outcomes, FinishStep(i, o)
      PROVE  StoreTypeOK'
  BY <1>1, <1>5, FinishDoneRows, FinishFailedRows
     DEF FinishStep, Finish, StoreTypeOK, AnswerAdded, MarkedFailed
<1>6. CASE RequeueStep
  BY <1>1, <1>6, RequeueRows DEF RequeueStep, StoreTypeOK
<1>7. CASE UNCHANGED storeVars
  BY <1>1, <1>7 DEF storeVars, StoreTypeOK
<1> QED BY <1>2, <1>3, <1>4, <1>5, <1>6, <1>7 DEF StoreNext, UserStep, WorkerStep

-----------------------------------------------------------------------------
(* Answers.  The step lemmas share their frame: StoreInv holds, and StoreInv*)
(* but for the type is to be shown of the table the operation leaves.      *)

LinksOK == PayloadMatchesStatus /\ AnswerHasQuestion /\ DoneHasAnswer

(* A message that is not an answer can be added.                           *)
LEMMA InsertKeepsLinks ==
    ASSUME StoreInv, NEW c \in Chats, InsertJob(c) \/ InsertPlain(c)
    PROVE  LinksOK'
<1>1. PICK x \in {NewRow("job", c, 0), NewRow("plain", c, 0)} : rows' = Append(rows, x)
  BY DEF InsertJob, InsertPlain
<1>2. x \in Row
  BY NewRowType DEF Kinds
<1>3. /\ Ids' = Ids \cup {Len(rows) + 1}
      /\ Len(rows) + 1 \notin Ids
      /\ rows'[Len(rows) + 1] = x
      /\ \A k \in Ids : rows'[k] = rows[k]
  BY <1>1, <1>2, AppendRow DEF StoreInv, StoreTypeOK, Ids
<1>4. /\ x.kind \in {"job", "plain"}
      /\ x.status = "null"
      /\ x.reply_id = 0
      /\ x.error = FALSE
      /\ x.result = FALSE
  BY DEF NewRow
<1>5. PayloadMatchesStatus'
  BY <1>3, <1>4 DEF StoreInv, PayloadMatchesStatus
<1>6. AnswerHasQuestion'
  BY <1>3, <1>4 DEF StoreInv, AnswerHasQuestion
<1>7. DoneHasAnswer'
  BY <1>3, <1>4 DEF StoreInv, DoneHasAnswer
<1> QED BY <1>5, <1>6, <1>7 DEF LinksOK

(* A job and its answer are deleted together, being in one chat.           *)
LEMMA DeleteKeepsLinks ==
    ASSUME StoreInv, NEW c \in Chats, DeleteChat(c)
    PROVE  LinksOK'
<1> DEFINE g == NewRow("gone", c, 0)
<1>1. /\ Ids' = Ids
      /\ \A k \in Ids : rows'[k] = IF rows[k].chat = c THEN g ELSE rows[k]
  BY DeleteRows DEF DeleteChat, StoreInv, StoreTypeOK, Ids
<1>2. /\ g.kind = "gone"
      /\ g.status = "null"
      /\ g.reply_id = 0
      /\ g.error = FALSE
      /\ g.result = FALSE
  BY DEF NewRow
<1> HIDE DEF g
<1>3. PayloadMatchesStatus'
  BY <1>1, <1>2 DEF StoreInv, PayloadMatchesStatus
<1>4. AnswerHasQuestion'
  BY <1>1, <1>2 DEF StoreInv, AnswerHasQuestion
<1>5. DoneHasAnswer'
  BY <1>1, <1>2 DEF StoreInv, DoneHasAnswer, AnswerHasQuestion
<1> QED BY <1>3, <1>4, <1>5 DEF LinksOK

(* Neither claiming, nor failing, nor requeueing makes or breaks a link.   *)
LEMMA ClaimKeepsLinks ==
    ASSUME StoreInv, NEW i \in Ids, ClaimStep(i)
    PROVE  LinksOK'
<1>1. /\ Ids' = Ids
      /\ rows'[i].status = "pending"
      /\ SameBut(rows'[i], rows[i])
      /\ \A k \in Ids : k # i => rows'[k] = rows[k]
  BY TryClaimRows DEF ClaimStep, StoreInv, StoreTypeOK, Ids
<1>2. rows[i].kind = "job" /\ rows[i].status = "null"
  BY DEF ClaimStep, IsUnclaimed
<1>3. PayloadMatchesStatus'
  BY <1>1, <1>2 DEF StoreInv, PayloadMatchesStatus, SameBut
<1>4. AnswerHasQuestion'
  BY <1>1, <1>2 DEF StoreInv, AnswerHasQuestion, SameBut
<1>5. DoneHasAnswer'
  BY <1>1, <1>2 DEF StoreInv, DoneHasAnswer, SameBut
<1> QED BY <1>3, <1>4, <1>5 DEF LinksOK

LEMMA RequeueKeepsLinks ==
    ASSUME StoreInv, RequeueStep
    PROVE  LinksOK'
<1>1. /\ Ids' = Ids
      /\ \A k \in Ids : ~IsPending(k) => rows'[k] = rows[k]
      /\ \A k \in Ids : IsPending(k) => rows'[k].status = "null"
      /\ \A k \in Ids : SameBut(rows'[k], rows[k])
  BY RequeueRows DEF RequeueStep, StoreInv, StoreTypeOK, Ids
<1>2. PayloadMatchesStatus'
  BY <1>1 DEF StoreInv, PayloadMatchesStatus, SameBut, IsPending
<1>3. AnswerHasQuestion'
  BY <1>1 DEF StoreInv, AnswerHasQuestion, SameBut, IsPending
<1>4. DoneHasAnswer'
  BY <1>1 DEF StoreInv, DoneHasAnswer, SameBut, IsPending
<1> QED BY <1>2, <1>3, <1>4 DEF LinksOK

LEMMA FailKeepsLinks ==
    ASSUME StoreInv, NEW i \in Ids, IsPending(i), NEW b \in BOOLEAN,
           rows' = FinishFailed(i, b)
    PROVE  LinksOK'
<1>1. /\ Ids' = Ids
      /\ rows'[i].kind = rows[i].kind
      /\ rows'[i].status = "failed"
      /\ rows'[i].error = TRUE
      /\ rows'[i].reply_id = rows[i].reply_id
      /\ \A k \in Ids : k # i => rows'[k] = rows[k]
  <2>1. rows \in Seq(Row)
    BY DEF StoreInv, StoreTypeOK
  <2>2. MarkedFailed(rows', i)
    BY <2>1, FinishFailedRows
  <2> QED BY <2>2 DEF MarkedFailed, Ids
<1>2. rows[i].status = "pending"
  BY DEF IsPending
<1>3. rows[i].kind = "job"
  BY <1>2 DEF StoreInv, PayloadMatchesStatus
<1>4. PayloadMatchesStatus'
  BY <1>1, <1>2, <1>3 DEF StoreInv, PayloadMatchesStatus
<1>5. AnswerHasQuestion'
  BY <1>1, <1>2, <1>3 DEF StoreInv, AnswerHasQuestion
<1>6. DoneHasAnswer'
  BY <1>1, <1>2, <1>3 DEF StoreInv, DoneHasAnswer
<1> QED BY <1>4, <1>5, <1>6 DEF LinksOK

(* The answer and the mark on its question appear in one step.             *)
LEMMA DoneKeepsLinks ==
    ASSUME StoreInv, NEW i \in Ids, IsPending(i), rows' = FinishDone(i)
    PROVE  LinksOK'
<1>0. PICK a : AnswerAdded(rows', i, a)
  <2>1. rows \in Seq(Row)
    BY DEF StoreInv, StoreTypeOK
  <2> QED BY <2>1, FinishDoneRows
<1>1. /\ Ids' = Ids \cup {a}
      /\ a \notin Ids
      /\ a \in Nat \ {0}
      /\ \A k \in Ids : k # i => rows'[k] = rows[k]
  BY <1>0 DEF AnswerAdded, Ids
<1>2. rows[i].status = "pending"
  BY DEF IsPending
<1>3. rows[i].kind = "job"
  BY <1>2 DEF StoreInv, PayloadMatchesStatus
<1>4. /\ rows'[a].kind = "ai"
      /\ rows'[a].status = "null"
      /\ rows'[a].reply_id = 0
      /\ rows'[a].error = FALSE
      /\ rows'[a].result = FALSE
      /\ rows'[a].in_reply_to = i
      /\ rows'[a].chat = rows[i].chat
  BY <1>0 DEF AnswerAdded, NewRow
<1>5. /\ rows'[i].kind = "job"
      /\ rows'[i].status = "done"
      /\ rows'[i].reply_id = a
      /\ rows'[i].chat = rows[i].chat
      /\ rows'[i].error = rows[i].error
      /\ rows'[i].result = rows[i].result
  BY <1>0, <1>3 DEF AnswerAdded
<1>6. PayloadMatchesStatus'
  BY <1>1, <1>2, <1>4, <1>5 DEF StoreInv, PayloadMatchesStatus
<1>7. AnswerHasQuestion'
  BY <1>1, <1>2, <1>4, <1>5 DEF StoreInv, AnswerHasQuestion
<1>8. DoneHasAnswer'
  BY <1>1, <1>2, <1>3, <1>4, <1>5 DEF StoreInv, DoneHasAnswer
<1> QED BY <1>6, <1>7, <1>8 DEF LinksOK

-----------------------------------------------------------------------------

(* StoreInv holds of the empty table.                                      *)
LEMMA StoreInvInit == StoreInit => StoreInv
BY DEF StoreInit, StoreInv, StoreTypeOK, PayloadMatchesStatus, AnswerHasQuestion,
       DoneHasAnswer, Ids

(* StoreInv is preserved by every operation.                               *)
LEMMA StoreInvStep ==
    ASSUME StoreInv, [StoreNext]_storeVars
    PROVE  StoreInv'
<1>1. StoreTypeOK'
  BY StoreTypeStep DEF StoreInv
<1>2. ASSUME NEW c \in Chats, InsertJob(c) \/ InsertPlain(c) \/ DeleteChat(c)
      PROVE  LinksOK'
  BY <1>2, InsertKeepsLinks, DeleteKeepsLinks
<1>3. ASSUME NEW i \in Ids, ClaimStep(i)
      PROVE  LinksOK'
  BY <1>3, ClaimKeepsLinks
<1>4. ASSUME UNCHANGED rows
      PROVE  LinksOK'
  BY <1>4 DEF StoreInv, LinksOK, PayloadMatchesStatus, AnswerHasQuestion,
              DoneHasAnswer, Ids
<1>5. ASSUME NEW i \in Ids, NEW o \in Outcomes, FinishStep(i, o)
      PROVE  LinksOK'
  BY <1>4, <1>5, DoneKeepsLinks, FailKeepsLinks DEF FinishStep, Finish
<1>6. ASSUME RequeueStep
      PROVE  LinksOK'
  BY <1>6, RequeueKeepsLinks
<1> QED BY <1>1, <1>2, <1>3, <1>4, <1>5, <1>6
       DEF StoreNext, UserStep, WorkerStep, storeVars, LinksOK, StoreInv

(* The two links leave room for exactly one answer.                        *)
LEMMA LinksGiveAnsweredOnce == StoreInv => AnsweredOnce
<1> SUFFICES ASSUME StoreInv, NEW i \in Ids
             PROVE  IF rows[i].kind = "job" /\ rows[i].status = "done"
                    THEN /\ Answers(i) = {rows[i].reply_id}
                         /\ rows[rows[i].reply_id].chat = rows[i].chat
                    ELSE Answers(i) = {}
  BY DEF AnsweredOnce
<1>1. \A k \in Answers(i) : rows[i].status = "done" /\ rows[i].reply_id = k
  BY DEF Answers, StoreInv, AnswerHasQuestion
<1>2. rows[i].status = "done" => rows[i].kind = "job"
  BY DEF StoreInv, PayloadMatchesStatus
<1>3. rows[i].status = "done" =>
         /\ rows[i].reply_id \in Answers(i)
         /\ rows[rows[i].reply_id].chat = rows[i].chat
  BY DEF Answers, StoreInv, DoneHasAnswer, AnswerHasQuestion
<1> QED BY <1>1, <1>2, <1>3

(* The table is well formed, answers a job exactly once and tells the same *)
(* story in status and payload, whoever calls finish, claim_next and       *)
(* requeue_pending in whatever order.                                      *)
THEOREM StoreIsSafe == StoreSpec => [](StoreTypeOK /\ AnsweredOnce /\ PayloadMatchesStatus)
<1>1. StoreInit => StoreInv
  BY StoreInvInit
<1>2. StoreInv /\ [StoreNext]_storeVars => StoreInv'
  BY StoreInvStep
<1>3. StoreInv => StoreTypeOK /\ AnsweredOnce /\ PayloadMatchesStatus
  BY LinksGiveAnsweredOnce DEF StoreInv
<1> QED BY <1>1, <1>2, <1>3, PTL DEF StoreSpec

-----------------------------------------------------------------------------
(* What every operation of the table leaves alone: rows are never taken    *)
(* out, a deleted one stays deleted, and an answer keeps its question.     *)
LEMMA RowsStay ==
    ASSUME StoreInv, [StoreNext]_storeVars, NEW i \in Ids
    PROVE  /\ i \in Ids'
           /\ rows[i].kind = "gone" => rows'[i].kind = "gone"
           /\ rows'[i].kind = "gone" \/ rows'[i].in_reply_to = rows[i].in_reply_to
<1> DEFINE Stays == /\ i \in Ids'
                   /\ rows'[i].kind = rows[i].kind
                   /\ rows'[i].in_reply_to = rows[i].in_reply_to
<1>1. rows \in Seq(Row)
  BY DEF StoreInv, StoreTypeOK
<1>2. ASSUME NEW c \in Chats, InsertJob(c) \/ InsertPlain(c)
      PROVE  Stays
  <2>1. PICK x \in Row : rows' = Append(rows, x)
    BY <1>2, NewRowType DEF InsertJob, InsertPlain, Kinds
  <2> QED BY <1>1, <2>1, AppendRow DEF Ids
<1>3. ASSUME NEW c \in Chats, DeleteChat(c)
      PROVE  i \in Ids' /\ (rows'[i] = rows[i] \/ rows'[i].kind = "gone")
  <2>1. i \in Ids' /\ (rows'[i] = rows[i] \/ rows'[i] = NewRow("gone", c, 0))
    BY <1>1, <1>3, DeleteRows DEF DeleteChat, Ids
  <2> QED BY <2>1 DEF NewRow
<1>4. ASSUME NEW j \in Ids, ClaimStep(j)
      PROVE  Stays
  BY <1>1, <1>4, TryClaimRows DEF ClaimStep, SameBut, Ids
<1>5. ASSUME NEW j \in Ids, NEW o \in Outcomes, FinishStep(j, o)
      PROVE  Stays
  <2>1. CASE rows' = rows
    BY <2>1 DEF Ids
  <2>2. CASE rows' = FinishDone(j)
    BY <1>1, <2>2, FinishDoneRows DEF AnswerAdded, Ids
  <2>3. CASE rows' = FinishFailed(j, o = "partial")
    <3>1. (o = "partial") \in BOOLEAN
      OBVIOUS
    <3>2. MarkedFailed(rows', j)
      BY <1>1, <2>3, <3>1, FinishFailedRows
    <3> QED BY <3>2 DEF MarkedFailed, Ids
  <2> QED BY <1>5, <2>1, <2>2, <2>3 DEF FinishStep, Finish
<1>6. ASSUME RequeueStep
      PROVE  Stays
  BY <1>1, <1>6, RequeueRows DEF RequeueStep, SameBut, Ids
<1>7. CASE UNCHANGED storeVars
  BY <1>7 DEF storeVars, Ids
<1> QED BY <1>2, <1>3, <1>4, <1>5, <1>6, <1>7
       DEF StoreNext, UserStep, WorkerStep

-----------------------------------------------------------------------------
(* No operation touches a row whose outcome is recorded, except deleting   *)
(* its chat.                                                               *)
LEMMA FinalStep ==
    ASSUME StoreInv, [StoreNext]_storeVars, NEW i \in Ids,
           rows[i].status \in {"done", "failed"}
    PROVE  rows'[i] = rows[i] \/ rows'[i].kind = "gone"
<1>1. rows \in Seq(Row)
  BY DEF StoreInv, StoreTypeOK
<1>2. ASSUME NEW c \in Chats, InsertJob(c) \/ InsertPlain(c)
      PROVE  rows'[i] = rows[i]
  <2>1. PICK x \in Row : rows' = Append(rows, x)
    BY <1>2, NewRowType DEF InsertJob, InsertPlain, Kinds
  <2> QED BY <1>1, <2>1, AppendRow
<1>3. ASSUME NEW c \in Chats, DeleteChat(c)
      PROVE  rows'[i] = rows[i] \/ rows'[i].kind = "gone"
  <2>1. rows'[i] = rows[i] \/ rows'[i] = NewRow("gone", c, 0)
    BY <1>1, <1>3, DeleteRows DEF DeleteChat
  <2> QED BY <2>1 DEF NewRow
<1>4. ASSUME NEW j \in Ids, ClaimStep(j)
      PROVE  rows'[i] = rows[i]
  <2>1. i # j
    BY <1>4 DEF ClaimStep, IsUnclaimed
  <2> QED BY <1>1, <1>4, <2>1, TryClaimRows DEF ClaimStep
<1>5. ASSUME NEW j \in Ids, NEW o \in Outcomes, FinishStep(j, o)
      PROVE  rows'[i] = rows[i]
  <2>1. CASE rows' = rows
    BY <2>1
  <2>2. CASE IsPending(j)
    <3>1. i # j
      BY <2>2 DEF IsPending
    <3>2. CASE rows' = FinishDone(j)
      BY <1>1, <3>1, <3>2, FinishDoneRows DEF AnswerAdded
    <3>3. CASE rows' = FinishFailed(j, o = "partial")
      <4>1. (o = "partial") \in BOOLEAN
        OBVIOUS
      <4>2. MarkedFailed(rows', j)
        BY <1>1, <3>3, <4>1, FinishFailedRows
      <4> QED BY <3>1, <4>2 DEF MarkedFailed
    <3> QED BY <1>5, <2>1, <3>2, <3>3 DEF FinishStep, Finish
  <2> QED BY <1>5, <2>1, <2>2 DEF FinishStep, Finish
<1>6. ASSUME RequeueStep
      PROVE  rows'[i] = rows[i]
  BY <1>1, <1>6, RequeueRows DEF RequeueStep, IsPending
<1> QED BY <1>2, <1>3, <1>4, <1>5, <1>6 DEF StoreNext, UserStep, WorkerStep, storeVars

(* A recorded outcome is never revised: neither a second finish, nor a     *)
(* claim, nor the start-up requeue changes a row that is done or failed.   *)
THEOREM OutcomesStay == StoreSpec => OutcomeIsFinal
<1>1. StoreInit => StoreInv
  BY StoreInvInit
<1>2. StoreInv /\ [StoreNext]_storeVars => StoreInv'
  BY StoreInvStep
<1>3. StoreInv /\ [StoreNext]_storeVars =>
        [\A i \in Ids : rows[i].status \in {"done", "failed"} =>
            rows'[i] = rows[i] \/ rows'[i].kind = "gone"]_storeVars
  BY FinalStep
<1> QED BY <1>1, <1>2, <1>3, PTL DEF StoreSpec, OutcomeIsFinal

-----------------------------------------------------------------------------
(* The table implements JobLifecycle.                                      *)

(* The empty table maps to no jobs and no answers.                         *)
LEMMA LifecycleInit == StoreInit => Lifecycle!Init
<1> SUFFICES ASSUME StoreInit PROVE Lifecycle!Init
  OBVIOUS
<1>1. Ids = {}
  BY DEF StoreInit, Ids
<1>2. JobAnswers = {}
  BY <1>1 DEF JobAnswers
<1>3. JobState = << >>
  BY <1>1 DEF JobState, Jobs
<1> QED BY <1>2, <1>3 DEF Lifecycle!Init

(* A new job is a submission, any other message nothing.                   *)
LEMMA InsertIsSubmit ==
    ASSUME StoreInv, NEW c \in Chats, InsertJob(c)
    PROVE  \E i \in DOMAIN JobState' : Lifecycle!Submit(i)
<1> DEFINE a == Len(rows) + 1
<1>1. /\ Ids' = Ids \cup {a}
      /\ a \notin Ids
      /\ a \in Nat \ {0}
      /\ \A k \in Ids : k < a
      /\ rows'[a] = NewRow("job", c, 0)
      /\ \A k \in Ids : rows'[k] = rows[k]
  BY AppendRow, NewRowType DEF InsertJob, StoreInv, StoreTypeOK, Ids, Kinds
<1>2. rows'[a].kind = "job" /\ LifeOf(rows'[a].status) = "queued"
  BY <1>1 DEF NewRow, LifeOf
<1> HIDE DEF a
<1>3. Jobs' = Jobs \cup {a}
  BY <1>1, <1>2 DEF Jobs
<1>4. JobState' = [j \in DOMAIN JobState \cup {a} |->
                      IF j = a THEN "queued" ELSE JobState[j]]
  BY <1>1, <1>2, <1>3 DEF JobState, Jobs
<1>5. JobAnswers' = JobAnswers
  BY <1>1, <1>2 DEF JobAnswers
<1>6. a \in DOMAIN JobState' /\ \A j \in DOMAIN JobState : j < a
  BY <1>1, <1>3 DEF JobState, Jobs
<1> QED BY <1>1, <1>4, <1>5, <1>6 DEF Lifecycle!Submit

LEMMA PlainIsNothing ==
    ASSUME StoreInv, NEW c \in Chats, InsertPlain(c)
    PROVE  UNCHANGED <<JobState, JobAnswers>>
<1> DEFINE a == Len(rows) + 1
<1>1. /\ Ids' = Ids \cup {a}
      /\ a \notin Ids
      /\ rows'[a] = NewRow("plain", c, 0)
      /\ \A k \in Ids : rows'[k] = rows[k]
  BY AppendRow, NewRowType DEF InsertPlain, StoreInv, StoreTypeOK, Ids, Kinds
<1>2. rows'[a].kind = "plain"
  BY <1>1 DEF NewRow
<1> HIDE DEF a
<1>3. Jobs' = Jobs
  BY <1>1, <1>2 DEF Jobs
<1>4. JobState' = JobState
  BY <1>1, <1>3 DEF JobState, Jobs
<1>5. JobAnswers' = JobAnswers
  BY <1>1, <1>2 DEF JobAnswers
<1> QED BY <1>4, <1>5

(* Deleting a chat withdraws its jobs, and their answers with them.        *)
LEMMA DeleteIsWithdraw ==
    ASSUME StoreInv, NEW c \in Chats, DeleteChat(c)
    PROVE  \E J \in SUBSET DOMAIN JobState : Lifecycle!Withdraw(J)
<1> DEFINE J == {k \in Jobs : rows[k].chat = c}
<1>1. /\ Ids' = Ids
      /\ \A k \in Ids : rows'[k] = IF rows[k].chat = c THEN NewRow("gone", c, 0)
                                                       ELSE rows[k]
  BY DeleteRows DEF DeleteChat, StoreInv, StoreTypeOK, Ids
<1>2. NewRow("gone", c, 0).kind = "gone"
  BY DEF NewRow
<1>3. Jobs' = Jobs \ J
  BY <1>1, <1>2 DEF Jobs
<1>4. JobState' = [j \in DOMAIN JobState \ J |-> JobState[j]]
  BY <1>1, <1>3 DEF JobState, Jobs
<1>5. \A k \in Ids : rows[k].kind = "ai" =>
         /\ rows[k].in_reply_to \in Jobs
         /\ rows[rows[k].in_reply_to].chat = rows[k].chat
  BY DEF StoreInv, AnswerHasQuestion, PayloadMatchesStatus, Jobs
<1>6. JobAnswers' = {p \in JobAnswers : p[1] \notin J}
  BY <1>1, <1>2, <1>5 DEF JobAnswers
<1>7. J \in SUBSET DOMAIN JobState
  BY DEF JobState
<1> QED BY <1>4, <1>6, <1>7 DEF Lifecycle!Withdraw

(* A claim begins the job.                                                 *)
LEMMA ClaimIsBegin ==
    ASSUME StoreInv, NEW i \in Ids, ClaimStep(i)
    PROVE  i \in DOMAIN JobState /\ Lifecycle!Begin(i)
<1>1. /\ Ids' = Ids
      /\ rows'[i].status = "pending"
      /\ SameBut(rows'[i], rows[i])
      /\ \A k \in Ids : k # i => rows'[k] = rows[k]
  BY TryClaimRows DEF ClaimStep, StoreInv, StoreTypeOK, Ids
<1>2. rows[i].kind = "job" /\ rows[i].status = "null"
  BY DEF ClaimStep, IsUnclaimed
<1>3. Jobs' = Jobs /\ i \in Jobs
  BY <1>1, <1>2 DEF Jobs, SameBut
<1>4. JobState' = [JobState EXCEPT ![i] = "running"]
  BY <1>1, <1>3 DEF JobState, Jobs, LifeOf
<1>5. JobAnswers' = JobAnswers
  BY <1>1 DEF JobAnswers, SameBut
<1>6. i \in DOMAIN JobState /\ JobState[i] = "queued"
  BY <1>2, <1>3 DEF JobState, LifeOf
<1> QED BY <1>4, <1>5, <1>6 DEF Lifecycle!Begin

(* The requeue retries the jobs that were pending.                         *)
LEMMA RequeueIsRetry ==
    ASSUME StoreInv, RequeueStep
    PROVE  \E J \in SUBSET DOMAIN JobState : Lifecycle!Retry(J)
<1> DEFINE J == {k \in Jobs : rows[k].status = "pending"}
<1>1. /\ Ids' = Ids
      /\ \A k \in Ids : ~IsPending(k) => rows'[k] = rows[k]
      /\ \A k \in Ids : IsPending(k) => rows'[k].status = "null"
      /\ \A k \in Ids : SameBut(rows'[k], rows[k])
  BY RequeueRows DEF RequeueStep, StoreInv, StoreTypeOK, Ids
<1>2. Jobs' = Jobs
  BY <1>1 DEF Jobs, SameBut
<1>3. JobState' = [j \in DOMAIN JobState |-> IF j \in J THEN "queued" ELSE JobState[j]]
  BY <1>1, <1>2 DEF JobState, Jobs, LifeOf, IsPending
<1>4. JobAnswers' = JobAnswers
  BY <1>1 DEF JobAnswers, SameBut
<1>5. J \in SUBSET DOMAIN JobState /\ \A j \in J : JobState[j] = "running"
  BY DEF JobState, LifeOf
<1> QED BY <1>3, <1>4, <1>5 DEF Lifecycle!Retry

(* A failure fails the job.                                                *)
LEMMA FinishFailedIsFail ==
    ASSUME StoreInv, NEW i \in Ids, IsPending(i), NEW b \in BOOLEAN,
           rows' = FinishFailed(i, b)
    PROVE  i \in DOMAIN JobState /\ Lifecycle!Fail(i)
<1>1. /\ Ids' = Ids
      /\ rows'[i].kind = rows[i].kind
      /\ rows'[i].status = "failed"
      /\ rows'[i].in_reply_to = rows[i].in_reply_to
      /\ \A k \in Ids : k # i => rows'[k] = rows[k]
  <2>1. rows \in Seq(Row)
    BY DEF StoreInv, StoreTypeOK
  <2>2. MarkedFailed(rows', i)
    BY <2>1, FinishFailedRows
  <2> QED BY <2>2 DEF MarkedFailed, Ids
<1>2. rows[i].kind = "job" /\ rows[i].status = "pending"
  BY DEF StoreInv, PayloadMatchesStatus, IsPending
<1>3. Jobs' = Jobs /\ i \in Jobs
  BY <1>1, <1>2 DEF Jobs
<1>4. JobState' = [JobState EXCEPT ![i] = "failed"]
  BY <1>1, <1>3 DEF JobState, Jobs, LifeOf
<1>5. JobAnswers' = JobAnswers
  BY <1>1 DEF JobAnswers
<1>6. i \in DOMAIN JobState /\ JobState[i] = "running"
  BY <1>2, <1>3 DEF JobState, LifeOf
<1> QED BY <1>4, <1>5, <1>6 DEF Lifecycle!Fail

(* A success answers it with the row it adds.                              *)
LEMMA FinishDoneIsAnswer ==
    ASSUME StoreInv, NEW i \in Ids, IsPending(i), rows' = FinishDone(i)
    PROVE  \E p \in JobAnswers' : Lifecycle!Answer(p[1], p[2])
<1>0. PICK a : AnswerAdded(rows', i, a)
  <2>1. rows \in Seq(Row)
    BY DEF StoreInv, StoreTypeOK
  <2> QED BY <2>1, FinishDoneRows
<1>1. /\ Ids' = Ids \cup {a}
      /\ a \notin Ids
      /\ a \in Nat
      /\ rows'[i].kind = rows[i].kind
      /\ rows'[i].status = "done"
      /\ rows'[i].in_reply_to = rows[i].in_reply_to
      /\ \A k \in Ids : k # i => rows'[k] = rows[k]
  BY <1>0 DEF AnswerAdded, Ids
<1>2. rows'[a].kind = "ai" /\ rows'[a].in_reply_to = i
  BY <1>0 DEF AnswerAdded, NewRow
<1>3. rows[i].kind = "job" /\ rows[i].status = "pending"
  BY DEF StoreInv, PayloadMatchesStatus, IsPending
<1>4. Jobs' = Jobs /\ i \in Jobs
  BY <1>1, <1>2, <1>3 DEF Jobs
<1>5. JobState' = [JobState EXCEPT ![i] = "done"]
  BY <1>1, <1>4 DEF JobState, Jobs, LifeOf
<1>6. JobAnswers' = JobAnswers \cup {<<i, a>>}
  BY <1>1, <1>2, <1>3 DEF JobAnswers
<1>7. i \in DOMAIN JobState /\ JobState[i] = "running"
  BY <1>3, <1>4 DEF JobState, LifeOf
<1>8. a \in Nat \ DOMAIN JobState /\ \A p \in JobAnswers : p[2] # a
  BY <1>1 DEF JobState, Jobs, JobAnswers
<1>9. Lifecycle!Answer(i, a)
  BY <1>5, <1>6, <1>7, <1>8 DEF Lifecycle!Answer
<1>10. <<i, a>> \in JobAnswers'
  BY <1>6
<1>11. Lifecycle!Answer(<<i, a>>[1], <<i, a>>[2])
  BY <1>9
<1> QED BY <1>10, <1>11

(* Every operation of the store is a step in the life of a job, or none.   *)
LEMMA LifecycleStep ==
    ASSUME StoreInv, [StoreNext]_storeVars
    PROVE  [Lifecycle!Next]_<<JobState, JobAnswers>>
<1>1. ASSUME NEW c \in Chats, InsertJob(c) \/ InsertPlain(c) \/ DeleteChat(c)
      PROVE  [Lifecycle!Next]_<<JobState, JobAnswers>>
  BY <1>1, InsertIsSubmit, PlainIsNothing, DeleteIsWithdraw DEF Lifecycle!Next
<1>2. ASSUME NEW i \in Ids, ClaimStep(i)
      PROVE  Lifecycle!Next
  BY <1>2, ClaimIsBegin DEF Lifecycle!Next
<1>3. ASSUME UNCHANGED rows
      PROVE  UNCHANGED <<JobState, JobAnswers>>
  BY <1>3 DEF JobState, JobAnswers, Jobs, Ids
<1>4. ASSUME NEW i \in Ids, NEW o \in Outcomes, FinishStep(i, o)
      PROVE  [Lifecycle!Next]_<<JobState, JobAnswers>>
  <2>1. (o = "partial") \in BOOLEAN
    OBVIOUS
  <2>2. CASE UNCHANGED rows
    BY <2>2, <1>3
  <2>3. CASE IsPending(i) /\ rows' = FinishDone(i)
    BY <2>3, FinishDoneIsAnswer DEF Lifecycle!Next
  <2>4. CASE IsPending(i) /\ rows' = FinishFailed(i, o = "partial")
    BY <2>1, <2>4, FinishFailedIsFail DEF Lifecycle!Next
  <2> QED BY <1>4, <2>2, <2>3, <2>4 DEF FinishStep, Finish
<1>5. ASSUME RequeueStep
      PROVE  Lifecycle!Next
  BY <1>5, RequeueIsRetry DEF Lifecycle!Next
<1> QED BY <1>1, <1>2, <1>3, <1>4, <1>5 DEF StoreNext, UserStep, WorkerStep, storeVars

(* The table, used by anyone in any order, gives each job the life the     *)
(* chat application relies on: queued, running, and then one outcome, with *)
(* one answer that appears together with "done".                           *)
THEOREM StoreImplementsLifecycle == StoreSpec => ImplementsLifecycle
<1>1. StoreInit => StoreInv /\ Lifecycle!Init
  BY StoreInvInit, LifecycleInit
<1>2. StoreInv /\ [StoreNext]_storeVars => StoreInv'
  BY StoreInvStep
<1>3. StoreInv /\ [StoreNext]_storeVars => [Lifecycle!Next]_<<JobState, JobAnswers>>
  BY LifecycleStep
<1> QED BY <1>1, <1>2, <1>3, PTL
       DEF StoreSpec, ImplementsLifecycle, Lifecycle!Spec, Lifecycle!vars
=============================================================================
