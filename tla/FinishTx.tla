------------------------------- MODULE FinishTx -------------------------------
(***************************************************************************)
(* JobStore::finish statement by statement (src/src/store.rs).             *)
(*                                                                         *)
(* ChatStore takes a finish for one step.  finish_done is a transaction of *)
(* two statements with other sessions in between, and its second statement *)
(* does not look at the status again: that no one else has finished,       *)
(* requeued or deleted the row meanwhile rests on the shared lock which    *)
(* INSERT ... SELECT leaves on the row it reads (MySQL's default           *)
(* isolation level, REPEATABLE READ).  Here the locks are explicit, a      *)
(* transaction may end at any statement, and the acknowledgement of a      *)
(* statement or of the commit may be lost.                                 *)
(*                                                                         *)
(* rows is what is committed.  The id that the INSERT reserves is only a   *)
(* name until then; the answer takes its place in rows at the commit.      *)
(***************************************************************************)
EXTENDS ChatStore

CONSTANT Workers   \* callers of finish, each with a connection of its own

VARIABLES
    call,      \* worker -> its call of finish: where it is, for which row
    shared     \* shared row locks held: <<worker, id>>

vars == <<rows, chats, call, shared>>

(* "insert" and "update" are the statement of finish_done that comes next; *)
(* the last three are what the caller is told.                             *)
Pcs == {"idle", "insert", "notThere", "update", "commit", "ok", "notPending", "error"}

Busy == {"insert", "notThere", "update", "commit"}

Call == [pc : Pcs, id : Nat, reply : Nat]

NoCall == [pc |-> "idle", id |-> 0, reply |-> 0]

Init ==
    /\ StoreInit
    /\ call = [w \in Workers |-> NoCall]
    /\ shared = {}

Tell(w, what) == call' = [call EXCEPT ![w].pc = what]

Unlocked(w) == {l \in shared : l[1] # w}

(* What a statement that locks the row for itself waits for.               *)
Free(i) == \A w \in Workers : <<w, i>> \notin shared

-----------------------------------------------------------------------------
(* finish_done.                                                            *)

Begin(w, i) ==
    /\ call[w].pc \notin Busy
    /\ call' = [call EXCEPT ![w] = [pc |-> "insert", id |-> i, reply |-> 0]]
    /\ UNCHANGED <<rows, chats, shared>>

(* The row can be read with a shared lock: nobody has it for himself.      *)
CanRead(w) ==
    /\ call[w].pc = "insert"
    /\ \A v \in Workers \ {w} : call[v].pc = "commit" => call[v].id # call[w].id

(* Mutant: a plain SELECT, or READ COMMITTED, locks nothing.               *)
InsertUnlocked(w) ==
    /\ CanRead(w)
    /\ Tell(w, IF IsPending(call[w].id) THEN "update" ELSE "notThere")
    /\ UNCHANGED <<rows, chats, shared>>

(* INSERT ... SELECT ... WHERE id = ? AND status = 'pending': the row      *)
(* stays locked whether it was pending or not.                             *)
Insert(w) ==
    /\ CanRead(w)
    /\ Tell(w, IF IsPending(call[w].id) THEN "update" ELSE "notThere")
    /\ shared' = shared \cup {<<w, call[w].id>>}
    /\ UNCHANGED <<rows, chats>>

(* rows_affected() != 1: roll back.                                        *)
Rollback(w) ==
    /\ call[w].pc = "notThere"
    /\ Tell(w, "notPending")
    /\ shared' = Unlocked(w)
    /\ UNCHANGED <<rows, chats>>

(* UPDATE ... WHERE id = ?: the row must be locked by nobody else.         *)
Update(w) ==
    /\ call[w].pc = "update"
    /\ \A v \in Workers \ {w} : <<v, call[w].id>> \notin shared
    /\ Tell(w, "commit")
    /\ UNCHANGED <<rows, chats, shared>>

Commit(w) ==
    /\ call[w].pc = "commit"
    /\ rows' = FinishDone(call[w].id)
    /\ \/ call' = [call EXCEPT ![w] = [pc |-> "ok", id |-> call[w].id, reply |-> Len(rows) + 1]]
       \/ Tell(w, "error")
    /\ shared' = Unlocked(w)
    /\ UNCHANGED chats

(* A statement fails and the transaction is dropped: the answer does not   *)
(* fit, the connection is lost, the process dies, or InnoDB ends a         *)
(* deadlock of two transactions that both hold the shared lock and both    *)
(* want the row, or of one with a DELETE of the chat.                      *)
Abort(w) ==
    /\ call[w].pc \in Busy
    /\ Tell(w, "error")
    /\ shared' = Unlocked(w)
    /\ UNCHANGED <<rows, chats>>

-----------------------------------------------------------------------------
(* finish_failed: one statement.                                           *)

FailRow(w, i, partial) ==
    /\ call[w].pc \notin Busy
    /\ Free(i)
    /\ rows' = IF IsPending(i) THEN FinishFailed(i, partial) ELSE rows
    /\ \E told \in {IF IsPending(i) THEN "ok" ELSE "notPending", "error"} :
           call' = [call EXCEPT ![w] = [pc |-> told, id |-> i, reply |-> 0]]
    /\ UNCHANGED <<chats, shared>>

-----------------------------------------------------------------------------
(* The other statements wait for the rows they lock.                       *)

(* Mutant: the application deletes a chat without regard to row locks.     *)
DeleteAtOnce(c) == DeleteChat(c)

DeleteWaits(c) ==
    /\ \A i \in Ids : rows[i].chat = c => Free(i)
    /\ DeleteChat(c)

ClaimWaits(i) == Free(i) /\ ClaimStep(i)

(* No index helps WHERE status = 'pending': every row is locked.           *)
RequeueWaits == (\A i \in Ids : Free(i)) /\ RequeueStep

Others ==
    /\ \/ \E c \in Chats : InsertJob(c) \/ InsertPlain(c) \/ DeleteWaits(c)
       \/ \E i \in Ids : ClaimWaits(i)
       \/ RequeueWaits
    /\ UNCHANGED <<call, shared>>

FinishDoneStep(w) == Insert(w) \/ Rollback(w) \/ Update(w) \/ Commit(w) \/ Abort(w)

Next ==
    \/ \E w \in Workers :
          \/ \E i \in Ids : Begin(w, i) \/ \E p \in BOOLEAN : FailRow(w, i, p)
          \/ FinishDoneStep(w)
    \/ Others

Spec == Init /\ [][Next]_vars

-----------------------------------------------------------------------------
(* Properties.                                                             *)

TypeOK ==
    /\ StoreTypeOK
    /\ call \in [Workers -> Call]
    /\ shared \subseteq Workers \X Nat

(* A lock is held by a call under way, on its own row: one that has        *)
(* returned, whichever way, keeps no later statement waiting.              *)
LocksEndWithCall ==
    \A l \in shared : call[l[1]].pc \in Busy \ {"insert"} /\ call[l[1]].id = l[2]

(* What the transaction has read still holds when it writes: from its      *)
(* first statement to its commit the row is pending, locked, and once it   *)
(* has written to it nobody else has a lock on it.                         *)
ReadHolds(w) ==
    /\ call[w].pc \in {"update", "commit"} => IsPending(call[w].id)
    /\ call[w].pc \in Busy \ {"insert"} => <<w, call[w].id>> \in shared
    /\ call[w].pc = "commit" =>
          \A v \in Workers \ {w} : <<v, call[w].id>> \notin shared

ReadStaysTrue == \A w \in Workers : ReadHolds(w)

(* A caller that is told Ok has had its way, for good: the answer in the   *)
(* table is the one it wrote, whoever else finished the row at the same    *)
(* time; only deleting the chat takes it away.                             *)
OkMeansOwnOutcome ==
    \A w \in Workers :
        call[w].pc = "ok" =>
            \/ rows[call[w].id].kind = "gone"
            \/ IF call[w].reply = 0
               THEN rows[call[w].id].status = "failed"
               ELSE /\ rows[call[w].id].status = "done"
                    /\ rows[call[w].id].reply_id = call[w].reply

KnownRows == \A w \in Workers : call[w].pc # "idle" => call[w].id \in Ids

(* The inductive invariant.                                                *)
TxInv ==
    /\ TypeOK
    /\ StoreInv
    /\ KnownRows
    /\ LocksEndWithCall
    /\ ReadStaysTrue
    /\ OkMeansOwnOutcome

(* Statement by statement, the table changes in no way that the one-step   *)
(* operations of ChatStore do not allow.                                   *)
ImplementsStore == StoreSpec
=============================================================================
