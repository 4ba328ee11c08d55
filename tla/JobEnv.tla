-------------------------------- MODULE JobEnv --------------------------------
(***************************************************************************)
(* What a job knows and may use: the environment and the system prompt     *)
(* that command_with_qbo gives to claude (src/src/claude.rs), from the row *)
(* of the job (src/src/store.rs) and the settings of the daemon            *)
(* (src/src/config.rs, main.rs), and what jobctl-mcp, started by claude,   *)
(* makes of that environment (src/crates/jobctl/src/qbo.rs,                *)
(* src/crates/jobctl-mcp/src/main.rs).                                     *)
(*                                                                         *)
(* A variable is its value or "unset"; of the settings there is whether    *)
(* they are set.  Ids, tokens and URLs are names.                          *)
(***************************************************************************)
RunnerOnlyEnv == {"AES_KEY", "QBO_CLIENT_ID", "QBO_CLIENT_SECRET"}

(* What a QuickBooks session cannot do without, and who is an admin.       *)
SessionEnv ==
    {"QBO_ACCESS_TOKEN", "QBO_REALM_ID", "QBO_API_BASE", "QBO_COMPANY_ID", "QBO_USER_ID"}

QboJobEnv == SessionEnv \cup {"QBO_REQUESTER_IS_ADMIN"}

Names == RunnerOnlyEnv \cup QboJobEnv \cup {"DATABASE_URL", "CLAUDECODE"}

Settings == [aes_key : BOOLEAN, jobctl_mcp : BOOLEAN, agent_database_url : BOOLEAN]

(* The daemon's own environment.  It needs DATABASE_URL; the rest may be   *)
(* left over from whatever it was started from, a job of another company   *)
(* for instance.                                                           *)
RunnerEnv(s, leftover) ==
    LET own == {"DATABASE_URL"} \cup (IF s.aes_key THEN RunnerOnlyEnv ELSE {})
    IN  [n \in Names |->
            IF n \in own THEN "own"
            ELSE IF leftover /\ n \notin RunnerOnlyEnv THEN "1" ELSE "unset"]

-----------------------------------------------------------------------------
(* Who asks.                                                               *)

NoRequester == [user_id |-> "unset", company_id |-> "unset", is_admin |-> FALSE]

(* A job row joined with its chat, which may be missing, and what is in    *)
(* payload.requester_is_admin: the application writes true or 1, any other *)
(* value or none means no.                                                 *)
JobRow == [chat : BOOLEAN, requester_is_admin : {"true", "1", "false", "absent"}]

RequesterOf(row) ==
    IF row.chat
    THEN [user_id |-> "user", company_id |-> "company",
          is_admin |-> row.requester_is_admin \in {"true", "1"}]
    ELSE NoRequester

Requesters == {RequesterOf(row) : row \in JobRow}

(* What the broker answered for the requester's company, if it was asked.  *)
Accesses == {"none", "unavailable", "connected"}

(* main.rs gives the runner a broker only if jobs have jobctl-mcp.         *)
HasBroker(s) == s.aes_key /\ s.jobctl_mcp

AsksBroker(s, r) == HasBroker(s) /\ r # NoRequester

-----------------------------------------------------------------------------
(* The command.                                                            *)

HasQbo(s, r, access) == access = "connected" /\ r # NoRequester /\ s.jobctl_mcp

(* Mutant: only the secrets are cleared, what the job is not given stays.  *)
ClearedSecrets == RunnerOnlyEnv \cup {"CLAUDECODE", "DATABASE_URL"}

(* Whatever of these is not set below is unset.                            *)
Cleared == RunnerOnlyEnv \cup QboJobEnv \cup {"CLAUDECODE", "DATABASE_URL"}

QboVars(r) ==
    [QBO_ACCESS_TOKEN       |-> "token",
     QBO_REALM_ID           |-> "realm",
     QBO_API_BASE           |-> "api",
     QBO_COMPANY_ID         |-> r.company_id,
     QBO_USER_ID            |-> r.user_id,
     QBO_REQUESTER_IS_ADMIN |-> IF r.is_admin THEN "1" ELSE "0"]

(* Later settings win over clearing, and both over what is inherited.      *)
Environment(s, r, access, inherited) ==
    [n \in Names |->
        IF HasQbo(s, r, access) /\ n \in QboJobEnv THEN QboVars(r)[n]
        ELSE IF s.agent_database_url /\ n = "DATABASE_URL" THEN "readonly"
        ELSE IF n \in Cleared THEN "unset"
        ELSE inherited[n]]

Facts == {"database", "company only", "own data only", "qbo", "qbo admin", "no qbo"}

(* Mutant: whoever gets QuickBooks is told of the tools of admins.         *)
PromptOfAdmins(s, r, access) ==
         (IF s.jobctl_mcp /\ s.agent_database_url THEN {"database"} ELSE {})
    \cup (IF r # NoRequester
          THEN {"company only"} \cup (IF r.is_admin THEN {} ELSE {"own data only"})
          ELSE {})
    \cup (IF HasQbo(s, r, access) THEN {"qbo", "qbo admin"} ELSE {})
    \cup (IF access = "unavailable" /\ AsksBroker(s, r) THEN {"no qbo"} ELSE {})

(* What the system prompt tells the model.                                 *)
SystemPrompt(s, r, access) ==
         (IF s.jobctl_mcp /\ s.agent_database_url THEN {"database"} ELSE {})
    \cup (IF r # NoRequester
          THEN {"company only"} \cup (IF r.is_admin THEN {} ELSE {"own data only"})
          ELSE {})
    \cup (IF HasQbo(s, r, access)
          THEN {"qbo"} \cup (IF r.is_admin THEN {"qbo admin"} ELSE {})
          ELSE {})
    \cup (IF access = "unavailable" /\ AsksBroker(s, r) THEN {"no qbo"} ELSE {})

-----------------------------------------------------------------------------
(* jobctl-mcp in that environment.                                         *)

NoSession == [scope |-> NoRequester, token |-> "unset"]

(* Session::from_env: without a token there is none, and with a variable   *)
(* missing the tools are disabled.                                         *)
SessionOf(env) ==
    IF \E n \in SessionEnv : env[n] = "unset"
    THEN NoSession
    ELSE [scope |-> [user_id |-> env["QBO_USER_ID"], company_id |-> env["QBO_COMPANY_ID"],
                     is_admin |-> env["QBO_REQUESTER_IS_ADMIN"] = "1"],
          token |-> env["QBO_ACCESS_TOKEN"]]

Tools == {"sql", "qbo", "qbo admin"}

(* tools/list, for claude that was told of the server.                     *)
ToolsOf(s, session) ==
    IF s.jobctl_mcp
    THEN {"sql"} \cup (IF session = NoSession THEN {}
                       ELSE {"qbo"} \cup (IF session.scope.is_admin THEN {"qbo admin"} ELSE {}))
    ELSE {}

(* connection() comes before every tool, the ones of QuickBooks included.  *)
Works(env) == env["DATABASE_URL"] # "unset"
=============================================================================
