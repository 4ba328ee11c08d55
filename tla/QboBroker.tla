------------------------------ MODULE QboBroker ------------------------------
(***************************************************************************)
(* QuickBooks access for jobs: QboBroker::access (src/src/qbo.rs), called  *)
(* by CliRunner::run before it spawns claude, for the jobs of one company. *)
(*                                                                         *)
(* Jobs of any number of runners, the chat application and its admins meet *)
(* at the company's row, and Intuit accepts a refresh token once only:     *)
(* every refresh answers with the next one.  A refresh token is its        *)
(* generation; an access token is the time until which it really is valid, *)
(* which is not quite the time the row says (the row's is computed when    *)
(* the answer arrives, not when the token was issued).                     *)
(*                                                                         *)
(* Intuit, the chat application and the row lock of MySQL are modelled     *)
(* from how qbo.rs uses them: the application reads the row FOR UPDATE     *)
(* before it refreshes, and any write to the row waits for the lock.       *)
(***************************************************************************)
EXTENDS Integers, FiniteSets

CONSTANTS
    Jobs,          \* job tasks that ask for access
    PoolSize,      \* DB_MAX_CONNECTIONS
    JobTime,       \* CLAUDE_TIMEOUT_SECS
    Slack,         \* the 5 minutes main.rs adds to it
    HttpTimeout,   \* HTTP_TIMEOUT
    Margin,        \* the 60 seconds a refresh token must have left
    TokenLife,     \* expires_in of Intuit's answers
    RefreshLife,   \* x_refresh_token_expires_in
    MaxTime,       \* bound: the clock stops there
    MaxRefresh,    \* bound: refresh tokens ever issued
    MaxFaults      \* bound: interrupted or failing calls

ASSUME BrokerAssumption ==
    /\ PoolSize \in Nat \ {0}
    /\ JobTime \in Nat /\ Slack \in Nat /\ HttpTimeout \in Nat /\ Margin \in Nat
    /\ TokenLife \in Nat /\ RefreshLife \in Nat
    /\ MaxTime \in Nat /\ MaxRefresh \in Nat \ {0} /\ MaxFaults \in Nat
    /\ "free" \notin Jobs

(* 20 s are less than 5 minutes, and thrice 20 s are 60 s; that a token    *)
(* Intuit has just issued outlasts a job is up to CLAUDE_TIMEOUT_SECS.     *)
ASSUME MarginAssumption ==
    /\ HttpTimeout <= Slack
    /\ 2 * HttpTimeout <= Margin
    /\ JobTime + HttpTimeout <= TokenLife

VARIABLES
    company,   \* the company's row
    lock,      \* the job whose transaction holds the row lock, or "free"
    intuit,    \* the refresh token Intuit would accept
    stray,     \* refresh tokens in requests whose sender is gone
    now,       \* the time
    pool,      \* free database connections
    pc,        \* job -> where its call of access is
    sent,      \* job -> the refresh token it has read and sent
    waited,    \* job -> how long it has waited for Intuit
    fresh,     \* job -> what Intuit answered
    got,       \* job -> what access returned
    faults     \* how many faults have happened

vars == <<company, lock, intuit, stray, now, pool, pc, sent, waited, fresh, got, faults>>

(* Mutant: a token need only be valid for the job's own time.              *)
JobTimeOnly == JobTime

(* How long a token must be valid to be handed out (main.rs).              *)
ValidFor == JobTime + Slack

Tokens == Nat \ {0}

(* usable: quickbooks_enabled, and none of realm id and tokens missing.    *)
(* accessExp and refreshExp are the row's columns, accessUntil and         *)
(* refreshUntil what Intuit goes by.                                       *)
Company == [usable : BOOLEAN, refresh : Tokens, accessExp : Nat, accessUntil : Nat,
            refreshExp : Nat, refreshUntil : Nat]

TokenSet == [refresh : Tokens, accessUntil : Nat, refreshUntil : Nat]

Granted == [at : Nat, until : Nat]

NoTokens == [refresh |-> 1, accessUntil |-> 0, refreshUntil |-> 0]

Nothing == [at |-> 0, until |-> 0]

Fault == faults < MaxFaults /\ faults' = faults + 1

(* The set of tokens Intuit issues at this moment, generation g.           *)
Issue(g) == [refresh |-> g, accessUntil |-> now + TokenLife, refreshUntil |-> now + RefreshLife]

(* The row once tokens t have been written to it.                          *)
Stored(t, usable) ==
    [usable |-> usable, refresh |-> t.refresh,
     accessExp |-> now + TokenLife, accessUntil |-> t.accessUntil,
     refreshExp |-> now + RefreshLife, refreshUntil |-> t.refreshUntil]

Init ==
    /\ intuit = 1
    /\ now = 0
    /\ company = Stored(Issue(1), TRUE)
    /\ lock = "free"
    /\ stray = {}
    /\ pool = PoolSize
    /\ pc = [j \in Jobs |-> "idle"]
    /\ sent = [j \in Jobs |-> 1]
    /\ waited = [j \in Jobs |-> 0]
    /\ fresh = [j \in Jobs |-> NoTokens]
    /\ got = [j \in Jobs |-> Nothing]
    /\ faults = 0

-----------------------------------------------------------------------------
(* access and try_access.                                                  *)

Idle(j) ==
    /\ sent' = [sent EXCEPT ![j] = 1]
    /\ waited' = [waited EXCEPT ![j] = 0]
    /\ fresh' = [fresh EXCEPT ![j] = NoTokens]

Active == {j \in Jobs : pc[j] # "idle"}

(* Every call and every stray request can rotate the token once.           *)
Room == intuit + Cardinality(Active) + Cardinality(stray) < MaxRefresh

Call(j) ==
    /\ pc[j] = "idle"
    /\ Room
    /\ pc' = [pc EXCEPT ![j] = "begin"]
    /\ got' = [got EXCEPT ![j] = Nothing]
    /\ UNCHANGED <<company, lock, intuit, stray, now, pool, sent, waited, fresh, faults>>

Begin(j) ==
    /\ pc[j] = "begin"
    /\ pool > 0
    /\ pool' = pool - 1
    /\ pc' = [pc EXCEPT ![j] = "lock"]
    /\ UNCHANGED <<company, lock, intuit, stray, now, sent, waited, fresh, got, faults>>

(* No connection in time, or no database.                                  *)
BeginFails(j) ==
    /\ pc[j] = "begin"
    /\ Fault
    /\ pc' = [pc EXCEPT ![j] = "idle"]
    /\ UNCHANGED <<company, lock, intuit, stray, now, pool, sent, waited, fresh, got>>

(* Mutant: the lock outlives the transaction.                              *)
ReturnHoldingLock(j, result) ==
    /\ pc' = [pc EXCEPT ![j] = "idle"]
    /\ got' = [got EXCEPT ![j] = result]
    /\ pool' = pool + 1
    /\ Idle(j)
    /\ UNCHANGED lock

(* The transaction ends, by commit or by being dropped, and what access    *)
(* returns is result.                                                      *)
Return(j, result) ==
    /\ pc' = [pc EXCEPT ![j] = "idle"]
    /\ got' = [got EXCEPT ![j] = result]
    /\ lock' = IF lock = j THEN "free" ELSE lock
    /\ pool' = pool + 1
    /\ Idle(j)

(* Long enough for a job that starts now?                                  *)
FreshEnough == company.accessExp - now >= ValidFor

(* Mutant: no margin for the request's own time.                           *)
RefreshExpiredNow == company.refreshExp <= now

RefreshExpired == company.refreshExp <= now + Margin

(* SELECT ... FOR UPDATE has the row, and it says Unavailable: turned off, *)
(* not connected, or in need of a new connection.                          *)
ReadUnusable(j) ==
    /\ pc[j] = "lock"
    /\ lock = "free"
    /\ ~company.usable \/ (~FreshEnough /\ RefreshExpired)
    /\ Return(j, Nothing)
    /\ UNCHANGED <<company, intuit, stray, now, faults>>

ReadFresh(j) ==
    /\ pc[j] = "lock"
    /\ lock = "free"
    /\ company.usable
    /\ FreshEnough
    /\ Return(j, [at |-> now, until |-> company.accessUntil])
    /\ UNCHANGED <<company, intuit, stray, now, faults>>

(* Mutant: a SELECT without FOR UPDATE.                                    *)
ReadAndRefreshUnlocked(j) ==
    /\ pc[j] = "lock"
    /\ lock = "free"
    /\ company.usable
    /\ ~FreshEnough
    /\ ~RefreshExpired
    /\ sent' = [sent EXCEPT ![j] = company.refresh]
    /\ pc' = [pc EXCEPT ![j] = "refresh"]
    /\ UNCHANGED <<company, lock, intuit, stray, now, pool, waited, fresh, got, faults>>

(* The row stays locked while the refresh token is on its way.             *)
ReadAndRefresh(j) ==
    /\ pc[j] = "lock"
    /\ lock = "free"
    /\ company.usable
    /\ ~FreshEnough
    /\ ~RefreshExpired
    /\ lock' = j
    /\ sent' = [sent EXCEPT ![j] = company.refresh]
    /\ pc' = [pc EXCEPT ![j] = "refresh"]
    /\ UNCHANGED <<company, intuit, stray, now, pool, waited, fresh, got, faults>>

(* The SELECT fails or waits too long for the lock, a value cannot be      *)
(* decrypted, or there are no app credentials.                             *)
ReadFails(j) ==
    /\ pc[j] = "lock"
    /\ Fault
    /\ Return(j, Nothing)
    /\ UNCHANGED <<company, intuit, stray, now>>

(* Intuit rotates the token, or refuses one it does not know any more.     *)
IntuitRotates(j) ==
    /\ pc[j] = "refresh"
    /\ sent[j] = intuit
    /\ intuit' = intuit + 1
    /\ fresh' = [fresh EXCEPT ![j] = Issue(intuit + 1)]
    /\ pc' = [pc EXCEPT ![j] = "answer"]
    /\ UNCHANGED <<company, lock, stray, now, pool, sent, waited, got, faults>>

IntuitRefuses(j) ==
    /\ pc[j] = "refresh"
    /\ sent[j] # intuit
    /\ Return(j, Nothing)
    /\ UNCHANGED <<company, intuit, stray, now, faults>>

(* UPDATE and commit.  Both clocks are read once the answer is here.       *)
StoreAndCommit(j) ==
    /\ pc[j] = "answer"
    /\ company' = Stored(fresh[j], company.usable)
    /\ Return(j, [at |-> now, until |-> fresh[j].accessUntil])
    /\ UNCHANGED <<intuit, stray, now, faults>>

(* The refresh or the UPDATE fails, or the commit does, which may have     *)
(* taken effect; or the job is cancelled or its process killed, which      *)
(* drops the transaction.  The request may have reached Intuit already, or *)
(* may still reach it later, or never.                                     *)
Interrupted(j) ==
    /\ pc[j] \in {"refresh", "answer"}
    /\ Fault
    /\ \/ UNCHANGED <<company, stray>>
       \/ pc[j] = "refresh" /\ stray' = stray \cup {sent[j]} /\ UNCHANGED company
       \/ pc[j] = "answer" /\ company' = Stored(fresh[j], company.usable) /\ UNCHANGED stray
    /\ Return(j, Nothing)
    /\ UNCHANGED <<intuit, now>>

-----------------------------------------------------------------------------
(* Everybody else.                                                         *)

StrayArrives(t) ==
    /\ stray' = stray \ {t}
    /\ intuit' = IF t = intuit THEN intuit + 1 ELSE intuit
    /\ UNCHANGED <<company, lock, now, pool, pc, sent, waited, fresh, got, faults>>

(* The chat application refreshes for its own use, under the row lock.     *)
AppRefreshes ==
    /\ lock = "free"
    /\ company.usable
    /\ company.refresh = intuit
    /\ Room
    /\ intuit' = intuit + 1
    /\ company' = Stored(Issue(intuit + 1), TRUE)
    /\ UNCHANGED <<lock, stray, now, pool, pc, sent, waited, fresh, got, faults>>

AdminConnects ==
    /\ lock = "free"
    /\ Room
    /\ intuit' = intuit + 1
    /\ company' = Stored(Issue(intuit + 1), TRUE)
    /\ UNCHANGED <<lock, stray, now, pool, pc, sent, waited, fresh, got, faults>>

AdminTurnsOff ==
    /\ lock = "free"
    /\ company.usable
    /\ company' = [company EXCEPT !.usable = FALSE]
    /\ UNCHANGED <<lock, intuit, stray, now, pool, pc, sent, waited, fresh, got, faults>>

(* The HTTP client gives up after HttpTimeout.  Statements of a            *)
(* transaction that has its lock take no time on this scale.               *)
Tick ==
    /\ now < MaxTime
    /\ \A j \in Jobs : pc[j] \in {"refresh", "answer"} => waited[j] < HttpTimeout
    /\ now' = now + 1
    /\ waited' = [j \in Jobs |-> IF pc[j] \in {"refresh", "answer"} THEN waited[j] + 1
                                                                    ELSE waited[j]]
    /\ UNCHANGED <<company, lock, intuit, stray, pool, pc, sent, fresh, got, faults>>

Access(j) == Begin(j) \/ ReadUnusable(j) \/ ReadFresh(j) \/ ReadAndRefresh(j)
             \/ IntuitRotates(j) \/ IntuitRefuses(j) \/ StoreAndCommit(j)

Mishap(j) == BeginFails(j) \/ ReadFails(j) \/ Interrupted(j)

Others == (\E t \in stray : StrayArrives(t)) \/ AppRefreshes \/ AdminConnects
          \/ AdminTurnsOff \/ Tick

Next == (\E j \in Jobs : Call(j) \/ Access(j) \/ Mishap(j)) \/ Others

Spec == Init /\ [][Next]_vars

(* Fairness.  Connections and row locks are granted first come, first      *)
(* served, so a call that can go on again and again does; Intuit answers,  *)
(* or HTTP_TIMEOUT ends the wait, which is an answer of its own.           *)
Fairness == \A j \in Jobs : SF_vars(Access(j))

FairSpec == Spec /\ Fairness

-----------------------------------------------------------------------------
(* Properties.                                                             *)

Pcs == {"idle", "begin", "lock", "refresh", "answer"}

TypeOK ==
    /\ company \in Company
    /\ lock \in Jobs \cup {"free"}
    /\ intuit \in Tokens
    /\ stray \subseteq Tokens
    /\ now \in Nat
    /\ pool \in 0..PoolSize
    /\ pc \in [Jobs -> Pcs]
    /\ sent \in [Jobs -> Tokens]
    /\ waited \in [Jobs -> 0..HttpTimeout]
    /\ fresh \in [Jobs -> TokenSet]
    /\ got \in [Jobs -> Granted]
    /\ faults \in 0..MaxFaults

(* A token handed to a job outlives the job (main.rs), even the one read   *)
(* from a row whose expiry was computed HTTP_TIMEOUT too late.             *)
TokenOutlivesJob ==
    \A j \in Jobs : got[j] # Nothing => got[j].until >= got[j].at + JobTime

(* The runner and the application never both spend the same refresh token  *)
(* (try_access): whoever sends one sends the one Intuit knows, as long as  *)
(* no refresh has been interrupted between Intuit's answer and the commit. *)
UnspentUnlessInterrupted ==
    \A j \in Jobs : pc[j] = "refresh" /\ faults = 0 => sent[j] = intuit

(* A refresh token that is sent does not expire on the way, although the   *)
(* row's idea of when it expires may be late as well.                      *)
RefreshArrivesInTime ==
    \A j \in Jobs : pc[j] = "refresh" => now < company.refreshUntil

(* QuickBooks is not turned off behind the back of a refresh: a job gets a *)
(* token only while the row says the company uses QuickBooks.              *)
HandsOutOnlyWhileUsable ==
    [][\A j \in Jobs : got'[j] # got[j] /\ got'[j] # Nothing => company.usable]_vars

(* access returns, however many jobs queue for the row and for the pool's  *)
(* connections: the one that holds the row always has a connection.        *)
EveryAccessReturns == \A j \in Jobs : pc[j] = "begin" ~> pc[j] = "idle"

-----------------------------------------------------------------------------
(* What the safety properties rest on.                                     *)

Refreshing == {j \in Jobs : pc[j] \in {"refresh", "answer"}}

(* Whoever refreshes holds the row, and nobody else does.                  *)
LockIsHeld == \A j \in Jobs : j \in Refreshing <=> lock = j

UsableWhileHeld == Refreshing # {} => company.usable

Connected == {j \in Jobs : pc[j] \in {"lock", "refresh", "answer"}}

PoolAddsUp ==
    /\ IsFiniteSet(Connected)
    /\ pool \in Nat
    /\ pool + Cardinality(Connected) = PoolSize

(* The columns run behind what Intuit goes by, by one request at most.     *)
RowRunsBehind ==
    /\ company.accessExp <= company.accessUntil + HttpTimeout
    /\ company.refreshExp <= company.refreshUntil + HttpTimeout

(* A token sent had the margin left, and an answer is as old as the wait.  *)
WaitedFor ==
    \A j \in Jobs :
        /\ pc[j] = "refresh" => now + Margin < company.refreshExp + waited[j]
        /\ pc[j] = "answer" =>
               /\ now + TokenLife <= fresh[j].accessUntil + waited[j]
               /\ now + RefreshLife <= fresh[j].refreshUntil + waited[j]

(* Where the token is that Intuit would accept.                            *)
LatestToken ==
    faults = 0 =>
        /\ stray = {}
        /\ \A j \in Jobs : pc[j] = "refresh" => sent[j] = intuit
        /\ \A j \in Jobs : pc[j] = "answer" => fresh[j].refresh = intuit
        /\ (\A j \in Jobs : pc[j] # "answer") => company.refresh = intuit

BrokerInv ==
    /\ LockIsHeld
    /\ UsableWhileHeld
    /\ PoolAddsUp
    /\ RowRunsBehind
    /\ WaitedFor
    /\ LatestToken
=============================================================================
