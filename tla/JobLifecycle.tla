---------------------------- MODULE JobLifecycle ----------------------------
(***************************************************************************)
(* What the chat application may rely on, whoever runs the jobs and        *)
(* whatever happens to them: the life of an agentic user message, from the *)
(* moment it is written until it is answered, failed or deleted with its   *)
(* chat.  src/README.md ("Lifecycle of a user row") is the prose version.  *)
(*                                                                         *)
(* There is no table, worker or transaction here.  ChatStore implements    *)
(* this specification.                                                     *)
(***************************************************************************)
EXTENDS Naturals

VARIABLES
    state,    \* job id -> where the job is in its life
    answers   \* set of <<job id, id of the ai message that answers it>>

vars == <<state, answers>>

States == {"queued", "running", "done", "failed"}

Init ==
    /\ state = << >>
    /\ answers = {}

(* A new job is newer than every job there is.                             *)
Submit(i) ==
    /\ i \in Nat \ {0}
    /\ \A j \in DOMAIN state : j < i
    /\ state' = [j \in DOMAIN state \cup {i} |->
                    IF j = i THEN "queued" ELSE state[j]]
    /\ UNCHANGED answers

Begin(i) ==
    /\ i \in DOMAIN state
    /\ state[i] = "queued"
    /\ state' = [state EXCEPT ![i] = "running"]
    /\ UNCHANGED answers

(* The answer and the status appear together; the answer is a new message. *)
Answer(i, a) ==
    /\ i \in DOMAIN state
    /\ state[i] = "running"
    /\ a \in Nat \ DOMAIN state
    /\ \A p \in answers : p[2] # a
    /\ state' = [state EXCEPT ![i] = "done"]
    /\ answers' = answers \cup {<<i, a>>}

Fail(i) ==
    /\ i \in DOMAIN state
    /\ state[i] = "running"
    /\ state' = [state EXCEPT ![i] = "failed"]
    /\ UNCHANGED answers

(* Jobs that were interrupted wait for their turn again.                   *)
Retry(J) ==
    /\ J \subseteq DOMAIN state
    /\ \A j \in J : state[j] = "running"
    /\ state' = [j \in DOMAIN state |-> IF j \in J THEN "queued" ELSE state[j]]
    /\ UNCHANGED answers

(* Deleting a chat takes its jobs and their answers along.                 *)
Withdraw(J) ==
    /\ J \subseteq DOMAIN state
    /\ state' = [j \in DOMAIN state \ J |-> state[j]]
    /\ answers' = {p \in answers : p[1] \notin J}

(* Ids are unbounded; a step only adds the ones it leaves behind, so it is *)
(* enough to look for them there.                                          *)
Next ==
    \/ \E i \in DOMAIN state' : Submit(i)
    \/ \E i \in DOMAIN state : Begin(i) \/ Fail(i)
    \/ \E p \in answers' : Answer(p[1], p[2])
    \/ \E J \in SUBSET DOMAIN state : Retry(J) \/ Withdraw(J)

Spec == Init /\ [][Next]_vars
=============================================================================
