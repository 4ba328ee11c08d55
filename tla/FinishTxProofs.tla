---------------------------- MODULE FinishTxProofs ----------------------------
(***************************************************************************)
(* finish_done, statement by statement, does what ChatStore's one step     *)
(* does: for any number of workers, rows and chats, and whichever          *)
(* statements fail.                                                        *)
(***************************************************************************)
EXTENDS FinishTx, ChatStoreProofs

-----------------------------------------------------------------------------
(* Each step of a transaction is a step of the table, or none.             *)

LEMMA CommitIsFinish ==
    ASSUME TxInv, NEW w \in Workers, Commit(w)
    PROVE  /\ call[w].id \in Ids
           /\ FinishStep(call[w].id, "success")
BY DEF TxInv, KnownRows, ReadStaysTrue, ReadHolds, Commit, FinishStep, Finish

LEMMA FailRowIsFinish ==
    ASSUME NEW w \in Workers, NEW i \in Ids, NEW p \in BOOLEAN, FailRow(w, i, p)
    PROVE  FinishStep(i, IF p THEN "partial" ELSE "failed")
<1>1. Finish(i, IF p THEN "partial" ELSE "failed") =
        IF IsPending(i) THEN FinishFailed(i, p) ELSE rows
  BY DEF Finish
<1> QED BY <1>1 DEF FailRow, FinishStep

LEMMA OtherIsTableStep ==
    ASSUME Others
    PROVE  StoreNext
BY DEF Others, DeleteWaits, ClaimWaits, RequeueWaits, StoreNext, UserStep, WorkerStep

LEMMA StepIsTableStep ==
    ASSUME TxInv, [Next]_vars
    PROVE  [StoreNext]_storeVars
<1>1. ASSUME NEW w \in Workers, Commit(w)
      PROVE  StoreNext
  BY <1>1, CommitIsFinish DEF StoreNext, WorkerStep, Outcomes
<1>2. ASSUME NEW w \in Workers, NEW i \in Ids, NEW p \in BOOLEAN, FailRow(w, i, p)
      PROVE  StoreNext
  <2>1. (IF p THEN "partial" ELSE "failed") \in Outcomes
    BY DEF Outcomes
  <2> QED BY <1>2, <2>1, FailRowIsFinish DEF StoreNext, WorkerStep
<1>3. ASSUME NEW w \in Workers,
             \/ \E i \in Ids : Begin(w, i)
             \/ Insert(w) \/ Rollback(w) \/ Update(w) \/ Abort(w)
      PROVE  UNCHANGED storeVars
  BY <1>3 DEF Begin, Insert, Rollback, Update, Abort, storeVars
<1>4. CASE Others
  BY <1>4, OtherIsTableStep
<1> QED BY <1>1, <1>2, <1>3, <1>4 DEF Next, FinishDoneStep, vars, storeVars

-----------------------------------------------------------------------------
(* The invariant.                                                          *)

LEMMA TxInvInit == Init => TxInv
<1> SUFFICES ASSUME Init PROVE TxInv
  OBVIOUS
<1>1. StoreInv
  BY StoreInvInit DEF Init
<1>2. \A w \in Workers : call[w] = NoCall
  BY DEF Init
<1>3. TypeOK
  BY <1>1 DEF Init, TypeOK, StoreInv, NoCall, Call, Pcs
<1> QED BY <1>1, <1>2, <1>3 DEF Init, TxInv, NoCall, KnownRows, LocksEndWithCall,
       ReadStaysTrue, ReadHolds, OkMeansOwnOutcome, Busy

(* A row in the hands of a transaction is touched by nobody else.          *)
LEMMA LockedRowStays ==
    ASSUME TxInv, Others, NEW w \in Workers, call[w].pc \in {"update", "commit"}
    PROVE  IsPending(call[w].id)'
<1> DEFINE i == call[w].id
<1>1. /\ rows \in Seq(Row)
      /\ i \in Ids
      /\ IsPending(i)
      /\ <<w, i>> \in shared
  BY DEF TxInv, StoreInv, StoreTypeOK, KnownRows, ReadStaysTrue, ReadHolds, Busy
<1>2. call' = call
  BY DEF Others
<1>3. ~Free(i)
  BY <1>1 DEF Free
<1>4. ASSUME NEW c \in Chats, InsertJob(c) \/ InsertPlain(c)
      PROVE  rows'[i] = rows[i]
  <2>1. PICK x \in Row : rows' = Append(rows, x)
    BY <1>4, NewRowType DEF InsertJob, InsertPlain, Kinds
  <2> QED BY <1>1, <2>1, AppendRow
<1>5. ASSUME NEW c \in Chats, DeleteWaits(c)
      PROVE  rows'[i] = rows[i]
  <2>1. rows[i].chat # c
    BY <1>1, <1>3, <1>5 DEF DeleteWaits
  <2> QED BY <1>1, <1>5, <2>1, DeleteRows DEF DeleteWaits, DeleteChat
<1>6. ASSUME NEW j \in Ids, ClaimWaits(j)
      PROVE  rows'[i] = rows[i]
  BY <1>1, <1>3, <1>6, TryClaimRows DEF ClaimWaits, ClaimStep
<1>7. ~RequeueWaits
  BY <1>1, <1>3 DEF RequeueWaits
<1>8. rows'[i] = rows[i]
  BY <1>4, <1>5, <1>6, <1>7 DEF Others
<1> QED BY <1>1, <1>2, <1>8 DEF IsPending

(* A caller that was told Ok keeps what it was told.                       *)
LEMMA OkStays ==
    ASSUME TxInv, [StoreNext]_storeVars, NEW w \in Workers,
           call'[w] = call[w], call[w].pc = "ok"
    PROVE  \/ rows'[call'[w].id].kind = "gone"
           \/ IF call'[w].reply = 0
              THEN rows'[call'[w].id].status = "failed"
              ELSE /\ rows'[call'[w].id].status = "done"
                   /\ rows'[call'[w].id].reply_id = call'[w].reply
<1> DEFINE i == call[w].id
<1>1. StoreInv /\ i \in Ids
  BY DEF TxInv, KnownRows
<1>2. CASE rows[i].kind = "gone"
  BY <1>1, <1>2, RowsStay
<1>3. CASE rows[i].kind # "gone"
  <2>1. IF call[w].reply = 0
        THEN rows[i].status = "failed"
        ELSE rows[i].status = "done" /\ rows[i].reply_id = call[w].reply
    BY <1>3 DEF TxInv, OkMeansOwnOutcome
  <2>2. rows'[i] = rows[i] \/ rows'[i].kind = "gone"
    BY <1>1, <2>1, FinalStep
  <2> QED BY <2>1, <2>2
<1> QED BY <1>2, <1>3

LEMMA OthersKeepTxInv ==
    ASSUME TxInv, Others
    PROVE  TxInv'
<1>1. [StoreNext]_storeVars
  BY OtherIsTableStep
<1>2. StoreInv'
  BY <1>1, StoreInvStep DEF TxInv
<1>3. call' = call /\ shared' = shared
  BY DEF Others
<1>4. TypeOK'
  BY <1>2, <1>3 DEF TxInv, TypeOK, StoreInv
<1>5. KnownRows'
  BY <1>1, <1>3, RowsStay DEF TxInv, KnownRows
<1>6. LocksEndWithCall'
  BY <1>3 DEF TxInv, LocksEndWithCall
<1>7. ReadStaysTrue'
  BY <1>3, LockedRowStays DEF TxInv, ReadStaysTrue, ReadHolds
<1>8. OkMeansOwnOutcome'
  BY <1>1, <1>3, OkStays DEF OkMeansOwnOutcome
<1> QED BY <1>2, <1>4, <1>5, <1>6, <1>7, <1>8 DEF TxInv
(* A step of one call that leaves the table alone: what is left to show is *)
(* about that call and its locks.                                          *)
LEMMA CallStepKeeps ==
    ASSUME TxInv, NEW w \in Workers, UNCHANGED <<rows, chats>>,
           call' \in [Workers -> Call],
           \A v \in Workers \ {w} : call'[v] = call[v],
           call'[w].id \in Ids,
           call'[w].pc # "ok"
    PROVE  StoreInv' /\ KnownRows' /\ OkMeansOwnOutcome'
<1>1. [StoreNext]_storeVars
  BY DEF storeVars
<1>2. StoreInv'
  BY <1>1, StoreInvStep DEF TxInv
<1>3. KnownRows'
  BY DEF TxInv, KnownRows, Ids
<1>4. OkMeansOwnOutcome'
  BY <1>1, OkStays DEF OkMeansOwnOutcome
<1> QED BY <1>2, <1>3, <1>4

LEMMA BeginKeepsTxInv ==
    ASSUME TxInv, NEW w \in Workers, NEW i \in Ids, Begin(w, i)
    PROVE  TxInv'
<1>1. /\ call \in [Workers -> Call]
      /\ shared \subseteq Workers \X Nat
      /\ i \in Nat
  BY RowOfId DEF TxInv, TypeOK, StoreTypeOK
<1>2. /\ call'[w] = [pc |-> "insert", id |-> i, reply |-> 0]
      /\ call' \in [Workers -> Call]
      /\ \A v \in Workers \ {w} : call'[v] = call[v]
      /\ UNCHANGED <<rows, chats, shared>>
      /\ call[w].pc \notin Busy
  BY <1>1 DEF Begin, Call, Pcs
<1>3. StoreInv' /\ KnownRows' /\ OkMeansOwnOutcome'
  BY <1>2, CallStepKeeps
<1>4. TypeOK'
  BY <1>1, <1>2, <1>3 DEF TypeOK, StoreInv
<1>5. LocksEndWithCall'
  <2> SUFFICES ASSUME NEW l \in shared
               PROVE  /\ call'[l[1]].pc \in Busy \ {"insert"}
                      /\ call'[l[1]].id = l[2]
    BY <1>2 DEF LocksEndWithCall
  <2>1. call[l[1]].pc \in Busy \ {"insert"} /\ call[l[1]].id = l[2]
    BY DEF TxInv, LocksEndWithCall
  <2>2. l[1] \in Workers \ {w}
    BY <1>1, <1>2, <2>1
  <2> QED BY <1>2, <2>1, <2>2
<1>6. ReadStaysTrue'
  BY <1>2 DEF TxInv, ReadStaysTrue, ReadHolds, IsPending, Busy
<1> QED BY <1>3, <1>4, <1>5, <1>6 DEF TxInv

LEMMA InsertKeepsTxInv ==
    ASSUME TxInv, NEW w \in Workers, Insert(w)
    PROVE  TxInv'
<1>1. /\ call \in [Workers -> Call]
      /\ shared \subseteq Workers \X Nat
      /\ call[w].pc = "insert"
      /\ call[w].id \in Ids
      /\ call[w].id \in Nat
  BY RowOfId DEF TxInv, TypeOK, StoreTypeOK, KnownRows, Insert, CanRead
<1>2. /\ call'[w].id = call[w].id
      /\ call'[w].pc = IF IsPending(call[w].id) THEN "update" ELSE "notThere"
      /\ call' \in [Workers -> Call]
      /\ \A v \in Workers \ {w} : call'[v] = call[v]
      /\ UNCHANGED <<rows, chats>>
      /\ shared' = shared \cup {<<w, call[w].id>>}
  BY <1>1 DEF Insert, Tell, Call, Pcs
<1>3. StoreInv' /\ KnownRows' /\ OkMeansOwnOutcome'
  BY <1>1, <1>2, CallStepKeeps
<1>4. TypeOK'
  BY <1>1, <1>2, <1>3 DEF TypeOK, StoreInv
<1>5. LocksEndWithCall'
  <2> SUFFICES ASSUME NEW l \in shared'
               PROVE  /\ call'[l[1]].pc \in Busy \ {"insert"}
                      /\ call'[l[1]].id = l[2]
    BY DEF LocksEndWithCall
  <2>1. CASE l = <<w, call[w].id>>
    BY <1>2, <2>1 DEF Busy
  <2>2. CASE l \in shared
    <3>1. call[l[1]].pc \in Busy \ {"insert"} /\ call[l[1]].id = l[2]
      BY <2>2 DEF TxInv, LocksEndWithCall
    <3>2. l[1] \in Workers \ {w}
      BY <1>1, <2>2, <3>1
    <3> QED BY <1>2, <3>1, <3>2
  <2> QED BY <1>2, <2>1, <2>2
<1>6. ReadStaysTrue'
  <2> SUFFICES ASSUME NEW v \in Workers
               PROVE  ReadHolds(v)'
    BY DEF ReadStaysTrue
  <2>1. CASE v = w
    BY <1>2, <2>1 DEF ReadHolds, IsPending
  <2>2. CASE v # w
    <3>1. call'[v] = call[v]
      BY <1>2, <2>2
    <3>2. call[v].pc = "commit" => call[v].id # call[w].id
      BY <2>2 DEF Insert, CanRead
    <3> QED BY <1>2, <3>1, <3>2 DEF TxInv, ReadStaysTrue, ReadHolds, IsPending
  <2> QED BY <2>1, <2>2
<1> QED BY <1>3, <1>4, <1>5, <1>6 DEF TxInv

(* Rolling back and being ended by the database look alike.                *)
LEMMA EndKeepsTxInv ==
    ASSUME TxInv, NEW w \in Workers, Rollback(w) \/ Abort(w)
    PROVE  TxInv'
<1>1. /\ call \in [Workers -> Call]
      /\ shared \subseteq Workers \X Nat
      /\ call[w].pc \in Busy
      /\ call[w].id \in Ids
  BY DEF TxInv, TypeOK, KnownRows, Rollback, Abort, Busy
<1>2. /\ call'[w].id = call[w].id
      /\ call'[w].pc \in {"notPending", "error"}
      /\ call' \in [Workers -> Call]
      /\ \A v \in Workers \ {w} : call'[v] = call[v]
      /\ UNCHANGED <<rows, chats>>
      /\ shared' = Unlocked(w)
  BY <1>1 DEF Rollback, Abort, Tell, Call, Pcs
<1>3. StoreInv' /\ KnownRows' /\ OkMeansOwnOutcome'
  BY <1>1, <1>2, CallStepKeeps
<1>4. TypeOK'
  BY <1>1, <1>2, <1>3 DEF TypeOK, StoreInv, Unlocked
<1>5. LocksEndWithCall'
  <2> SUFFICES ASSUME NEW l \in shared, l[1] # w
               PROVE  /\ call'[l[1]].pc \in Busy \ {"insert"}
                      /\ call'[l[1]].id = l[2]
    BY <1>2 DEF LocksEndWithCall, Unlocked
  <2>1. l[1] \in Workers \ {w}
    BY <1>1
  <2> QED BY <1>2, <2>1 DEF TxInv, LocksEndWithCall
<1>6. ReadStaysTrue'
  <2> SUFFICES ASSUME NEW v \in Workers
               PROVE  ReadHolds(v)'
    BY DEF ReadStaysTrue
  <2>1. CASE v = w
    BY <1>2, <2>1 DEF ReadHolds, Busy
  <2>2. CASE v # w
    BY <1>2, <2>2 DEF TxInv, ReadStaysTrue, ReadHolds, IsPending, Unlocked
  <2> QED BY <2>1, <2>2
<1> QED BY <1>3, <1>4, <1>5, <1>6 DEF TxInv
LEMMA UpdateKeepsTxInv ==
    ASSUME TxInv, NEW w \in Workers, Update(w)
    PROVE  TxInv'
<1>1. /\ call \in [Workers -> Call]
      /\ call[w].pc = "update"
      /\ call[w].id \in Ids
      /\ ReadHolds(w)
  BY DEF TxInv, TypeOK, KnownRows, ReadStaysTrue, Update
<1>2. /\ call'[w].id = call[w].id
      /\ call'[w].pc = "commit"
      /\ call' \in [Workers -> Call]
      /\ \A v \in Workers \ {w} : call'[v] = call[v]
      /\ UNCHANGED <<rows, chats, shared>>
  BY <1>1 DEF Update, Tell, Call, Pcs
<1>3. StoreInv' /\ KnownRows' /\ OkMeansOwnOutcome'
  BY <1>1, <1>2, CallStepKeeps
<1>4. TypeOK'
  BY <1>2, <1>3 DEF TxInv, TypeOK, StoreInv
<1>5. LocksEndWithCall'
  <2> SUFFICES ASSUME NEW l \in shared
               PROVE  /\ call'[l[1]].pc \in Busy \ {"insert"}
                      /\ call'[l[1]].id = l[2]
    BY <1>2 DEF LocksEndWithCall
  <2>1. l[1] \in Workers
    BY DEF TxInv, TypeOK
  <2> QED BY <1>2, <2>1 DEF TxInv, LocksEndWithCall, Busy
<1>6. ReadStaysTrue'
  <2> SUFFICES ASSUME NEW v \in Workers
               PROVE  ReadHolds(v)'
    BY DEF ReadStaysTrue
  <2>1. CASE v = w
    BY <1>1, <1>2, <2>1 DEF Update, ReadHolds, IsPending, Busy
  <2>2. CASE v # w
    BY <1>2, <2>2 DEF TxInv, ReadStaysTrue, ReadHolds, IsPending
  <2> QED BY <2>1, <2>2
<1> QED BY <1>3, <1>4, <1>5, <1>6 DEF TxInv

(* Nobody else has a transaction on the row that is committed: those on    *)
(* other rows find theirs as it was.                                       *)
LEMMA CommitKeepsTxInv ==
    ASSUME TxInv, NEW w \in Workers, Commit(w)
    PROVE  TxInv'
<1> DEFINE i == call[w].id
           a == Len(rows) + 1
<1>1. /\ rows \in Seq(Row)
      /\ call \in [Workers -> Call]
      /\ shared \subseteq Workers \X Nat
      /\ call[w].pc = "commit"
      /\ i \in Ids
      /\ ReadHolds(w)
      /\ a \in Nat \ {0}
  BY RowOfId DEF TxInv, TypeOK, StoreTypeOK, KnownRows, ReadStaysTrue, Commit
<1>2. [StoreNext]_storeVars
  BY StepIsTableStep DEF Next, FinishDoneStep
<1>3. StoreInv'
  BY <1>2, StoreInvStep DEF TxInv
<1>4. AnswerAdded(rows', i, a)
  BY <1>1, FinishDoneRows DEF Commit
<1>5. /\ call'[w].id = i
      /\ (call'[w].pc = "ok" /\ call'[w].reply = a) \/ call'[w].pc = "error"
      /\ call' \in [Workers -> Call]
      /\ \A v \in Workers \ {w} : call'[v] = call[v]
      /\ shared' = Unlocked(w)
  <2>1. call[w] \in Call /\ i \in Nat
    BY <1>1 DEF Call
  <2>2. CASE call' = [call EXCEPT ![w] = [pc |-> "ok", id |-> i, reply |-> a]]
    <3>1. [pc |-> "ok", id |-> i, reply |-> a] \in Call
      BY <1>1, <2>1 DEF Call, Pcs
    <3> QED BY <1>1, <2>2, <3>1 DEF Commit
  <2>3. CASE Tell(w, "error")
    BY <1>1, <2>3 DEF Commit, Tell, Call, Pcs
  <2> QED BY <2>2, <2>3 DEF Commit
<1>6. TypeOK'
  BY <1>1, <1>3, <1>5 DEF TypeOK, StoreInv, Unlocked
<1>7. KnownRows'
  <2>1. \A k \in Ids : k \in Ids'
    BY <1>2, RowsStay DEF TxInv
  <2> QED BY <1>1, <1>5, <2>1 DEF TxInv, KnownRows
<1>8. LocksEndWithCall'
  <2> SUFFICES ASSUME NEW l \in shared, l[1] # w
               PROVE  /\ call'[l[1]].pc \in Busy \ {"insert"}
                      /\ call'[l[1]].id = l[2]
    BY <1>5 DEF LocksEndWithCall, Unlocked
  <2>1. l[1] \in Workers \ {w}
    BY <1>1
  <2> QED BY <1>5, <2>1 DEF TxInv, LocksEndWithCall
<1>9. ReadStaysTrue'
  <2> SUFFICES ASSUME NEW v \in Workers
               PROVE  ReadHolds(v)'
    BY DEF ReadStaysTrue
  <2>1. CASE v = w
    BY <1>5, <2>1 DEF ReadHolds, Busy
  <2>2. CASE v # w
    <3>1. ReadHolds(v) /\ call'[v] = call[v] /\ (call[v].pc # "idle" => call[v].id \in Ids)
      BY <1>5, <2>2 DEF TxInv, ReadStaysTrue, KnownRows
    <3>2. call[v].pc \in {"update", "commit"} => call[v].id # i
      BY <1>1, <2>2, <3>1 DEF ReadHolds, Busy
    <3>3. call[v].pc \in {"update", "commit"} => rows'[call[v].id] = rows[call[v].id]
      BY <1>4, <3>1, <3>2 DEF AnswerAdded
    <3> QED BY <1>5, <2>2, <3>1, <3>3 DEF ReadHolds, IsPending, Unlocked
  <2> QED BY <2>1, <2>2
<1>10. OkMeansOwnOutcome'
  <2> SUFFICES ASSUME NEW v \in Workers, call'[v].pc = "ok"
               PROVE  \/ rows'[call'[v].id].kind = "gone"
                      \/ IF call'[v].reply = 0
                         THEN rows'[call'[v].id].status = "failed"
                         ELSE /\ rows'[call'[v].id].status = "done"
                              /\ rows'[call'[v].id].reply_id = call'[v].reply
    BY DEF OkMeansOwnOutcome
  <2>1. CASE v = w
    BY <1>1, <1>4, <1>5, <2>1 DEF AnswerAdded
  <2>2. CASE v # w
    BY <1>2, <1>5, <2>2, OkStays
  <2> QED BY <2>1, <2>2
<1> QED BY <1>3, <1>6, <1>7, <1>8, <1>9, <1>10 DEF TxInv

LEMMA FailRowKeepsTxInv ==
    ASSUME TxInv, NEW w \in Workers, NEW i \in Ids, NEW p \in BOOLEAN, FailRow(w, i, p)
    PROVE  TxInv'
<1>1. /\ rows \in Seq(Row)
      /\ call \in [Workers -> Call]
      /\ shared \subseteq Workers \X Nat
      /\ i \in Nat
      /\ call[w].pc \notin Busy
      /\ Free(i)
  BY RowOfId DEF TxInv, TypeOK, StoreTypeOK, FailRow
<1>2. [StoreNext]_storeVars
  BY StepIsTableStep DEF Next
<1>3. StoreInv'
  BY <1>2, StoreInvStep DEF TxInv
<1>4. \/ ~IsPending(i) /\ rows' = rows
      \/ MarkedFailed(rows', i)
  BY <1>1, FinishFailedRows DEF FailRow
<1>5. /\ call'[w].id = i
      /\ call'[w].reply = 0
      /\ call'[w].pc \in {"ok", "notPending", "error"}
      /\ call'[w].pc = "ok" => IsPending(i)
      /\ call' \in [Workers -> Call]
      /\ \A v \in Workers \ {w} : call'[v] = call[v]
      /\ shared' = shared
  <2>1. PICK told \in {IF IsPending(i) THEN "ok" ELSE "notPending", "error"} :
            call' = [call EXCEPT ![w] = [pc |-> told, id |-> i, reply |-> 0]]
    BY DEF FailRow
  <2>2. [pc |-> told, id |-> i, reply |-> 0] \in Call
    BY <1>1 DEF Call, Pcs
  <2> QED BY <1>1, <2>1, <2>2 DEF FailRow
<1>6. TypeOK'
  BY <1>1, <1>3, <1>5 DEF TypeOK, StoreInv
<1>7. KnownRows'
  BY <1>2, <1>5, RowsStay DEF TxInv, KnownRows
<1>8. LocksEndWithCall'
  <2> SUFFICES ASSUME NEW l \in shared
               PROVE  /\ call'[l[1]].pc \in Busy \ {"insert"}
                      /\ call'[l[1]].id = l[2]
    BY <1>5 DEF LocksEndWithCall
  <2>1. call[l[1]].pc \in Busy \ {"insert"} /\ call[l[1]].id = l[2]
    BY DEF TxInv, LocksEndWithCall
  <2>2. l[1] \in Workers \ {w}
    BY <1>1, <2>1
  <2> QED BY <1>5, <2>1, <2>2
<1>9. ReadStaysTrue'
  <2> SUFFICES ASSUME NEW v \in Workers
               PROVE  ReadHolds(v)'
    BY DEF ReadStaysTrue
  <2>1. CASE v = w
    BY <1>5, <2>1 DEF ReadHolds, Busy
  <2>2. CASE v # w
    <3>1. ReadHolds(v) /\ call'[v] = call[v] /\ (call[v].pc # "idle" => call[v].id \in Ids)
      BY <1>5, <2>2 DEF TxInv, ReadStaysTrue, KnownRows
    <3>2. call[v].pc \in {"update", "commit"} => call[v].id # i
      BY <1>1, <3>1 DEF ReadHolds, Busy, Free
    <3>3. call[v].pc \in {"update", "commit"} => rows'[call[v].id] = rows[call[v].id]
      BY <1>4, <3>1, <3>2 DEF MarkedFailed
    <3> QED BY <1>5, <3>1, <3>3 DEF ReadHolds, IsPending
  <2> QED BY <2>1, <2>2
<1>10. OkMeansOwnOutcome'
  <2> SUFFICES ASSUME NEW v \in Workers, call'[v].pc = "ok"
               PROVE  \/ rows'[call'[v].id].kind = "gone"
                      \/ IF call'[v].reply = 0
                         THEN rows'[call'[v].id].status = "failed"
                         ELSE /\ rows'[call'[v].id].status = "done"
                              /\ rows'[call'[v].id].reply_id = call'[v].reply
    BY DEF OkMeansOwnOutcome
  <2>1. CASE v = w
    BY <1>4, <1>5, <2>1 DEF MarkedFailed
  <2>2. CASE v # w
    BY <1>2, <1>5, <2>2, OkStays
  <2> QED BY <2>1, <2>2
<1> QED BY <1>3, <1>6, <1>7, <1>8, <1>9, <1>10 DEF TxInv

LEMMA TxInvStep == TxInv /\ [Next]_vars => TxInv'
<1> SUFFICES ASSUME TxInv, [Next]_vars PROVE TxInv'
  OBVIOUS
<1>1. CASE UNCHANGED vars
  BY <1>1 DEF vars, TxInv, TypeOK, StoreInv, StoreTypeOK, PayloadMatchesStatus,
       AnswerHasQuestion, DoneHasAnswer, KnownRows, LocksEndWithCall, ReadStaysTrue,
       ReadHolds, OkMeansOwnOutcome, Ids, IsPending
<1>2. CASE Others
  BY <1>2, OthersKeepTxInv
<1>3. ASSUME NEW w \in Workers, NEW i \in Ids,
             Begin(w, i) \/ \E p \in BOOLEAN : FailRow(w, i, p)
      PROVE  TxInv'
  BY <1>3, BeginKeepsTxInv, FailRowKeepsTxInv
<1>4. ASSUME NEW w \in Workers, FinishDoneStep(w)
      PROVE  TxInv'
  BY <1>4, InsertKeepsTxInv, EndKeepsTxInv, UpdateKeepsTxInv, CommitKeepsTxInv
     DEF FinishDoneStep
<1> QED BY <1>1, <1>2, <1>3, <1>4 DEF Next

(* finish tells the truth and leaves no lock behind: a caller that got Ok  *)
(* finds the outcome it recorded, and what its transaction has read holds  *)
(* until the commit.                                                       *)
THEOREM FinishIsSafe == Spec => [](TypeOK /\ OkMeansOwnOutcome /\ LocksEndWithCall)
<1>1. TxInv => TypeOK /\ OkMeansOwnOutcome /\ LocksEndWithCall
  BY DEF TxInv
<1> QED BY <1>1, TxInvInit, TxInvStep, PTL DEF Spec

(* The statements of finish together are the one step that ChatStore has   *)
(* for it, so all that is proved of the table holds statement by           *)
(* statement.                                                              *)
THEOREM FinishImplementsStore == Spec => ImplementsStore
<1>1. Init => StoreInit
  BY DEF Init
<1>2. TxInv /\ [Next]_vars => [StoreNext]_storeVars
  BY StepIsTableStep
<1> QED BY <1>1, <1>2, TxInvInit, TxInvStep, PTL DEF Spec, ImplementsStore, StoreSpec
=============================================================================
