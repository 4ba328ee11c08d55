------------------------------ MODULE McpServer ------------------------------
(***************************************************************************)
(* The MCP server of a job (src/crates/jobctl-mcp/src/main.rs): it reads   *)
(* one JSON-RPC message per line, answers it before it reads the next, and *)
(* keeps one database connection from call to call, which it opens when a  *)
(* tool first needs it.  The database may drop the connection or be away   *)
(* at any moment.                                                          *)
(*                                                                         *)
(* What the tools do is abstracted to what becomes of the connection;      *)
(* QboTools models the QuickBooks ones.  Of a message only its kind        *)
(* matters, of an answer only which message it is for.                     *)
(***************************************************************************)
EXTENDS Naturals, SequencesExt

CONSTANTS
    MaxMessages,   \* bound: lines the client sends
    MaxDrops       \* bound: how often the database goes away

ASSUME McpAssumption ==
    /\ MaxMessages \in Nat
    /\ MaxDrops \in Nat

VARIABLES
    job,       \* what the runner gave the job: QuickBooks, admin, database
    stdin,     \* lines sent and not read yet
    sent,      \* how many lines have been sent
    current,   \* the message being handled, or NoMessage
    pc,        \* where the server is with it
    conn,      \* Server.conn: see Conns
    up,        \* whether the database can be reached
    drops,     \* how often it could not any more
    stdout,    \* the ids that have been answered, in order
    due,       \* history: the ids to answer, in the order they were read
    failed,    \* history: calls that failed because of this connection
    bye        \* history: the database closed it with an error message

vars == <<job, stdin, sent, current, pc, conn, up, drops, stdout, due, failed, bye>>

(* A blank line, a line that is no JSON, a notification, a request that    *)
(* needs no tool (a known method or not), and the tools: one there is not, *)
(* sql with and without a statement, one of the QuickBooks tools for all   *)
(* and one for admins.                                                     *)
Kinds == {"blank", "garbage", "notification", "plain",
          "unknown", "sql", "sql_empty", "qbo", "qbo_admin"}

Message == [id : Nat, kind : Kinds]

NoMessage == [id |-> 0, kind |-> "blank"]

Pcs == {"read", "handle", "connect", "run", "exited"}

(* None; one that works; one the database has closed, with an error        *)
(* message that the next statement reads as its answer ("bye") or without. *)
Conns == {"none", "open", "bye", "broken"}

Init ==
    /\ job \in [qbo : BOOLEAN, admin : BOOLEAN, database : BOOLEAN]
    /\ stdin = <<>>
    /\ sent = 0
    /\ current = NoMessage
    /\ pc = "read"
    /\ conn = "none"
    /\ up = TRUE
    /\ drops = 0
    /\ stdout = <<>>
    /\ due = <<>>
    /\ failed = 0
    /\ bye = FALSE

environment == <<job, stdin, sent, up, drops>>

-----------------------------------------------------------------------------
(* The loop of main().                                                     *)

(* What the answer says it answers: nothing if the line is no JSON.        *)
AnswerId(message) == IF message.kind = "garbage" THEN 0 ELSE message.id

(* A blank line is skipped; handle() gives a notification no reply.        *)
ReadLine ==
    /\ pc = "read"
    /\ stdin # <<>>
    /\ stdin' = Tail(stdin)
    /\ IF Head(stdin).kind \in {"blank", "notification"}
       THEN UNCHANGED <<current, pc, due>>
       ELSE /\ current' = Head(stdin)
            /\ pc' = "handle"
            /\ due' = Append(due, AnswerId(Head(stdin)))
    /\ UNCHANGED <<job, sent, conn, up, drops, stdout, failed, bye>>

(* The answer is written, or the client does not take it any more.         *)
Reply ==
    /\ current' = NoMessage
    /\ \/ stdout' = Append(stdout, AnswerId(current)) /\ pc' = "read"
       \/ UNCHANGED stdout /\ pc' = "exited"

(* The end of stdin, or an error reading it.                               *)
Exit ==
    /\ pc = "read"
    /\ pc' = "exited"
    /\ UNCHANGED <<environment, current, conn, stdout, due, failed, bye>>

-----------------------------------------------------------------------------
(* Server::handle, call, sql and qbo.                                      *)

(* Whether the message is a call of a tool that gets as far as the         *)
(* database: authorize comes before connection().                          *)
NeedsDatabase(kind) ==
    \/ kind = "sql"
    \/ kind = "qbo" /\ job.qbo
    \/ kind = "qbo_admin" /\ job.qbo /\ job.admin

(* Mutant: a call of a tool there is not ends without an answer.           *)
HandleAtOnceOrNever ==
    /\ pc = "handle"
    /\ ~NeedsDatabase(current.kind)
    /\ IF current.kind = "unknown"
       THEN current' = NoMessage /\ pc' = "read" /\ UNCHANGED stdout
       ELSE Reply
    /\ UNCHANGED <<environment, conn, due, failed, bye>>

(* Every other message is answered without it: a parse error, the result   *)
(* or the error of a method, an unknown tool, an empty statement, a tool   *)
(* for admins.                                                             *)
HandleAtOnce ==
    /\ pc = "handle"
    /\ ~NeedsDatabase(current.kind)
    /\ Reply
    /\ UNCHANGED <<environment, conn, due, failed, bye>>

(* connection(): the cached one, or a new one.                             *)
UseConnection ==
    /\ pc = "handle"
    /\ NeedsDatabase(current.kind)
    /\ pc' = IF conn = "none" THEN "connect" ELSE "run"
    /\ UNCHANGED <<environment, current, conn, stdout, due, failed, bye>>

Connect ==
    /\ pc = "connect"
    /\ job.database /\ up
    /\ conn' = "open"
    /\ failed' = 0
    /\ bye' = FALSE
    /\ pc' = "run"
    /\ UNCHANGED <<environment, current, stdout, due>>

(* No DATABASE_URL, or nobody there.                                       *)
ConnectFails ==
    /\ pc = "connect"
    /\ ~job.database \/ ~up
    /\ Reply
    /\ UNCHANGED <<environment, conn, due, failed, bye>>

(* How a tool may end, by the connection it gets: well, with an error of   *)
(* the database or of the connection, or with one that has nothing to do   *)
(* with either.  A parting message is read as an error of the database.  A *)
(* QuickBooks tool may end before its first statement, or have none, and   *)
(* not notice what became of the connection.                               *)
Endings(kind) ==
    (CASE conn = "open" -> {"ok", "database"}
       [] conn = "bye"  -> {"database"}
       [] OTHER         -> {"connection"})
    \cup (IF kind = "sql" THEN {} ELSE {"ok", "other"})

(* Mutant: an error of the database makes the server forget it as well.    *)
KeptAfterSuccess(ending) ==
    CASE ending \in {"connection", "database"} -> "none"
      [] OTHER -> conn

(* Mutant: the server never forgets it.                                    *)
KeptForEver(ending) == IF conn = "bye" /\ ending = "database" THEN "broken" ELSE conn

(* forget_broken_connection.  After its parting message there is nothing   *)
(* more to come on a connection.                                           *)
KeptAfter(ending) ==
    CASE ending = "connection" -> "none"
      [] ending = "database" /\ conn = "bye" -> "broken"
      [] OTHER -> conn

RunTool ==
    /\ pc = "run"
    /\ \E ending \in Endings(current.kind) :
           /\ conn' = KeptAfter(ending)
           /\ failed' = IF conn # "open" /\ ending \in {"database", "connection"}
                        THEN failed + 1 ELSE failed
    /\ Reply
    /\ UNCHANGED <<environment, due, bye>>

-----------------------------------------------------------------------------
(* The client and the database.                                            *)

Send ==
    /\ sent < MaxMessages
    /\ sent' = sent + 1
    /\ \E kind \in Kinds : stdin' = Append(stdin, [id |-> sent + 1, kind |-> kind])
    /\ UNCHANGED <<job, current, pc, conn, up, drops, stdout, due, failed, bye>>

(* A restart, or the idle timeout.                                         *)
Drop ==
    /\ drops < MaxDrops
    /\ drops' = drops + 1
    /\ up' \in BOOLEAN
    /\ conn' \in IF conn = "open" THEN {"bye", "broken"} ELSE {conn}
    /\ bye' = (bye \/ conn' = "bye")
    /\ UNCHANGED <<job, stdin, sent, current, pc, stdout, due, failed>>

ComesBack ==
    /\ ~up
    /\ up' = TRUE
    /\ UNCHANGED <<job, stdin, sent, current, pc, conn, drops, stdout, due, failed, bye>>

Server ==
    \/ ReadLine \/ Exit \/ HandleAtOnce \/ UseConnection \/ Connect \/ ConnectFails
    \/ RunTool

Next == Server \/ Send \/ Drop \/ ComesBack

Spec == Init /\ [][Next]_vars

-----------------------------------------------------------------------------
(* Properties.                                                             *)

TypeOK ==
    /\ job \in [qbo : BOOLEAN, admin : BOOLEAN, database : BOOLEAN]
    /\ stdin \in Seq(Message)
    /\ sent \in 0..MaxMessages /\ Len(stdin) <= sent
    /\ current \in Message
    /\ pc \in Pcs
    /\ conn \in Conns
    /\ (pc = "run" => conn # "none") /\ (pc = "connect" => conn = "none")
    /\ up \in BOOLEAN
    /\ drops \in 0..MaxDrops
    /\ stdout \in Seq(0..MaxMessages) /\ due \in Seq(0..MaxMessages)
    /\ failed \in Nat
    /\ bye \in BOOLEAN

(* Every request is answered once, in order, whatever becomes of its tool, *)
(* and nothing else is; one that is being handled, or whose answer the     *)
(* client did not take, is the only one to be missing (main, handle).      *)
AnsweredInOrder ==
    /\ IsPrefix(stdout, due)
    /\ Len(due) - Len(stdout) <= (IF pc = "read" THEN 0 ELSE 1)

(* A connection the database has dropped "is reopened on the next call     *)
(* instead of failing every call after it": it makes one call fail, and    *)
(* one more if the database closed it with an error message, which the     *)
(* server takes for an answer (forget_broken_connection).                  *)
DropFailsOneCall == failed <= (IF bye THEN 2 ELSE 1)

(* No error of a tool costs a connection that works.                       *)
KeepsGoodConnection == [][conn = "open" => conn' # "none"]_vars

=============================================================================
