---------------------------- MODULE QboBrokerProofs ----------------------------
(***************************************************************************)
(* What the broker guarantees for any number of jobs, any pool and any     *)
(* times that satisfy MarginAssumption.                                    *)
(***************************************************************************)
EXTENDS QboBroker, FiniteSetTheorems, TLAPS

USE BrokerAssumption

LEMMA IssueType ==
    ASSUME TypeOK, NEW g \in Tokens
    PROVE  Issue(g) \in TokenSet
BY DEF TypeOK, Issue, TokenSet, Tokens

LEMMA StoredType ==
    ASSUME TypeOK, NEW t \in TokenSet, NEW usable \in BOOLEAN
    PROVE  Stored(t, usable) \in Company
BY DEF TypeOK, Stored, TokenSet, Company, Tokens

-----------------------------------------------------------------------------
(* The pool.                                                               *)

LEMMA PoolStays ==
    ASSUME PoolAddsUp, Connected' = Connected, pool' = pool
    PROVE  PoolAddsUp'
BY DEF PoolAddsUp

LEMMA PoolTaken ==
    ASSUME PoolAddsUp, NEW j \in Jobs, j \notin Connected, pool > 0,
           Connected' = Connected \cup {j}, pool' = pool - 1
    PROVE  PoolAddsUp'
<1>1. IsFiniteSet(Connected') /\ Cardinality(Connected') = Cardinality(Connected) + 1
  BY FS_AddElement DEF PoolAddsUp
<1>2. Cardinality(Connected) \in Nat
  BY FS_CardinalityType DEF PoolAddsUp
<1> QED BY <1>1, <1>2 DEF PoolAddsUp

LEMMA PoolGivenBack ==
    ASSUME PoolAddsUp, NEW j \in Jobs, j \in Connected,
           Connected' = Connected \ {j}, pool' = pool + 1
    PROVE  PoolAddsUp'
<1>1. IsFiniteSet(Connected') /\ Cardinality(Connected') = Cardinality(Connected) - 1
  BY FS_RemoveElement DEF PoolAddsUp
<1>2. Cardinality(Connected) \in Nat
  BY FS_CardinalityType DEF PoolAddsUp
<1> QED BY <1>1, <1>2 DEF PoolAddsUp

(* No more connections than the pool has.                                  *)
LEMMA PoolBounded ==
    ASSUME PoolAddsUp
    PROVE  pool \in 0..PoolSize
<1>1. Cardinality(Connected) \in Nat
  BY FS_CardinalityType DEF PoolAddsUp
<1> QED BY <1>1 DEF PoolAddsUp

-----------------------------------------------------------------------------
(* The end of a call.                                                      *)

(* The steps with which a call of access ends.                             *)
Ends(j, result) ==
    /\ pc[j] \in {"lock", "refresh", "answer"}
    /\ Return(j, result)

LEMMA EndsTypes ==
    ASSUME TypeOK, NEW j \in Jobs, NEW result \in Granted, Ends(j, result)
    PROVE  /\ pc' \in [Jobs -> Pcs]
           /\ sent' \in [Jobs -> Tokens]
           /\ waited' \in [Jobs -> 0..HttpTimeout]
           /\ fresh' \in [Jobs -> TokenSet]
           /\ got' \in [Jobs -> Granted]
           /\ lock' \in Jobs \cup {"free"}
<1>1. NoTokens \in TokenSet /\ 1 \in Tokens /\ 0 \in 0..HttpTimeout
  BY DEF NoTokens, TokenSet, Tokens
<1> QED BY <1>1 DEF TypeOK, Ends, Return, Idle, Pcs

LEMMA EndsPool ==
    ASSUME TypeOK, PoolAddsUp, NEW j \in Jobs, NEW result, Ends(j, result)
    PROVE  PoolAddsUp'
<1>1. j \in Connected
  BY DEF Ends, Connected
<1>2. Connected' = Connected \ {j}
  BY DEF Ends, Return, Connected, TypeOK
<1>3. pool' = pool + 1
  BY DEF Ends, Return
<1> QED BY <1>1, <1>2, <1>3, PoolGivenBack

(* The call that ends is out of the way of all that is said of the others. *)
LEMMA EndsLock ==
    ASSUME TypeOK, LockIsHeld, NEW j \in Jobs, NEW result, Ends(j, result)
    PROVE  /\ LockIsHeld'
           /\ Refreshing' = Refreshing \ {j}
           /\ \A k \in Jobs \ {j} : pc'[k] = pc[k] /\ sent'[k] = sent[k] /\ waited'[k] = waited[k]
                                    /\ fresh'[k] = fresh[k] /\ got'[k] = got[k]
           /\ pc'[j] = "idle" /\ got'[j] = result
BY DEF TypeOK, LockIsHeld, Ends, Return, Idle, Refreshing

(* With the row free nobody refreshes; with a refresh nobody else does.    *)
LEMMA FreeMeansNobody ==
    ASSUME LockIsHeld, lock = "free"
    PROVE  Refreshing = {}
BY DEF LockIsHeld, Refreshing

LEMMA OnlyOne ==
    ASSUME LockIsHeld, NEW j \in Refreshing
    PROVE  Refreshing = {j}
BY DEF LockIsHeld, Refreshing

-----------------------------------------------------------------------------
(* A call ends.                                                            *)

(* Every step that ends a call, with what it does to the row and to the    *)
(* requests that have lost their sender.                                   *)
EndStep(j) ==
    \/ ReadUnusable(j) \/ ReadFresh(j) \/ ReadFails(j)
    \/ IntuitRefuses(j) \/ StoreAndCommit(j) \/ Interrupted(j)

(* What access returned: nothing, the row's token, or the fresh one.       *)
Result(j) ==
    {Nothing} \cup [at : {now}, until : {company.accessUntil}]
              \cup [at : {now}, until : {fresh[j].accessUntil}]

LEMMA EndStepEnds ==
    ASSUME TypeOK, NEW j \in Jobs, EndStep(j)
    PROVE  /\ \E result \in Result(j) : Ends(j, result)
           /\ UNCHANGED <<intuit, now>>
           /\ company' \in {company, Stored(fresh[j], company.usable)}
           /\ company' # company => pc[j] = "answer"
           /\ stray' \in {stray, stray \cup {sent[j]}}
           /\ faults' = faults \/ (faults' = faults + 1 /\ faults < MaxFaults)
           /\ faults' = faults =>
                  /\ stray' = stray
                  /\ pc[j] = "answer" => company' = Stored(fresh[j], company.usable)
<1>1. CASE ReadUnusable(j)
  BY <1>1 DEF ReadUnusable, Ends, Result
<1>2. CASE ReadFresh(j)
  BY <1>2 DEF ReadFresh, Ends, Result
<1>3. CASE ReadFails(j)
  BY <1>3 DEF ReadFails, Ends, Result, Fault, TypeOK
<1>4. CASE IntuitRefuses(j)
  BY <1>4 DEF IntuitRefuses, Ends, Result
<1>5. CASE StoreAndCommit(j)
  BY <1>5 DEF StoreAndCommit, Ends, Result
<1>6. CASE Interrupted(j)
  BY <1>6 DEF Interrupted, Ends, Result, Fault, TypeOK
<1> QED BY <1>1, <1>2, <1>3, <1>4, <1>5, <1>6 DEF EndStep

LEMMA ResultType ==
    ASSUME TypeOK, NEW j \in Jobs
    PROVE  Result(j) \subseteq Granted
BY DEF TypeOK, Result, Nothing, Granted, Company, TokenSet

LEMMA EndStepTypes ==
    ASSUME TypeOK, PoolAddsUp, NEW j \in Jobs, EndStep(j)
    PROVE  TypeOK' /\ PoolAddsUp'
<1>1. PICK result \in Result(j) : Ends(j, result)
  BY EndStepEnds
<1>2. PoolAddsUp'
  BY <1>1, EndsPool
<1>3. pool' \in 0..PoolSize
  <2>1. ASSUME PoolAddsUp' PROVE pool' \in 0..PoolSize
    BY <2>1, FS_CardinalityType DEF PoolAddsUp
  <2> QED BY <1>2, <2>1
<1>4. company' \in Company
  BY EndStepEnds, StoredType DEF TypeOK, Company
<1>5. /\ lock' \in Jobs \cup {"free"}
      /\ pc' \in [Jobs -> Pcs]
      /\ sent' \in [Jobs -> Tokens]
      /\ waited' \in [Jobs -> 0..HttpTimeout]
      /\ fresh' \in [Jobs -> TokenSet]
      /\ got' \in [Jobs -> Granted]
  BY <1>1, ResultType, EndsTypes
<1>6. intuit' \in Tokens /\ now' \in Nat /\ stray' \subseteq Tokens /\ faults' \in 0..MaxFaults
  BY EndStepEnds DEF TypeOK
<1> QED BY <1>2, <1>3, <1>4, <1>5, <1>6 DEF TypeOK

-----------------------------------------------------------------------------
(* Types and the pool, over all steps.                                     *)

LEMMA OtherTypes ==
    ASSUME TypeOK, PoolAddsUp, Others
    PROVE  TypeOK' /\ PoolAddsUp'
<1>1. ASSUME NEW t \in stray, StrayArrives(t)
      PROVE  TypeOK' /\ PoolAddsUp'
  BY <1>1, PoolStays DEF StrayArrives, TypeOK, Connected, Tokens
<1>2. CASE AppRefreshes \/ AdminConnects
  <2>1. intuit + 1 \in Tokens
    BY DEF TypeOK, Tokens
  <2>2. Stored(Issue(intuit + 1), TRUE) \in Company
    BY <2>1, IssueType, StoredType
  <2> QED BY <1>2, <2>1, <2>2, PoolStays DEF AppRefreshes, AdminConnects, TypeOK, Connected
<1>3. CASE AdminTurnsOff
  BY <1>3, PoolStays DEF AdminTurnsOff, TypeOK, Connected, Company
<1>4. CASE Tick
  BY <1>4, PoolStays DEF Tick, TypeOK, Connected
<1> QED BY <1>1, <1>2, <1>3, <1>4 DEF Others

LEMMA TypeStep ==
    ASSUME TypeOK, PoolAddsUp, [Next]_vars
    PROVE  TypeOK' /\ PoolAddsUp'
<1>1. ASSUME NEW j \in Jobs, Call(j)
      PROVE  TypeOK' /\ PoolAddsUp'
  <2>1. Nothing \in Granted
    BY DEF Nothing, Granted
  <2>2. TypeOK'
    BY <1>1, <2>1 DEF Call, TypeOK, Pcs
  <2>3. Connected' = Connected
    BY <1>1 DEF Call, TypeOK, Connected
  <2> QED BY <1>1, <2>2, <2>3, PoolStays DEF Call
<1>2. ASSUME NEW j \in Jobs, Begin(j)
      PROVE  TypeOK' /\ PoolAddsUp'
  <2>1. Connected' = Connected \cup {j} /\ j \notin Connected
    BY <1>2 DEF Begin, TypeOK, Connected
  <2>2. PoolAddsUp'
    BY <1>2, <2>1, PoolTaken DEF Begin
  <2> QED BY <1>2, <2>2 DEF Begin, TypeOK, Pcs
<1>3. ASSUME NEW j \in Jobs, BeginFails(j)
      PROVE  TypeOK' /\ PoolAddsUp'
  <2>1. Connected' = Connected
    BY <1>3 DEF BeginFails, TypeOK, Connected
  <2> QED BY <1>3, <2>1, PoolStays DEF BeginFails, TypeOK, Pcs, Fault
<1>4. ASSUME NEW j \in Jobs, ReadAndRefresh(j)
      PROVE  TypeOK' /\ PoolAddsUp'
  <2>1. Connected' = Connected
    BY <1>4 DEF ReadAndRefresh, TypeOK, Connected
  <2> QED BY <1>4, <2>1, PoolStays DEF ReadAndRefresh, TypeOK, Pcs, Company
<1>5. ASSUME NEW j \in Jobs, IntuitRotates(j)
      PROVE  TypeOK' /\ PoolAddsUp'
  <2>1. Connected' = Connected
    BY <1>5 DEF IntuitRotates, TypeOK, Connected
  <2>2. intuit + 1 \in Tokens
    BY DEF TypeOK, Tokens
  <2>3. Issue(intuit + 1) \in TokenSet
    BY <2>2, IssueType
  <2> QED BY <1>5, <2>1, <2>2, <2>3, PoolStays DEF IntuitRotates, TypeOK, Pcs
<1>6. ASSUME NEW j \in Jobs, EndStep(j)
      PROVE  TypeOK' /\ PoolAddsUp'
  BY <1>6, EndStepTypes
<1>7. CASE UNCHANGED vars
  BY <1>7 DEF vars, TypeOK, PoolAddsUp, Connected
<1> QED BY <1>1, <1>2, <1>3, <1>4, <1>5, <1>6, <1>7, OtherTypes
        DEF Next, Access, Mishap, EndStep

-----------------------------------------------------------------------------
(* The row lock.                                                           *)

LEMMA LockStep ==
    ASSUME TypeOK, LockIsHeld, UsableWhileHeld, [Next]_vars
    PROVE  LockIsHeld' /\ UsableWhileHeld'
<1>1. ASSUME NEW j \in Jobs, Call(j) \/ Begin(j) \/ BeginFails(j)
      PROVE  LockIsHeld' /\ UsableWhileHeld'
  <2>1. lock' = lock /\ company' = company /\ Refreshing' = Refreshing
    BY <1>1 DEF Call, Begin, BeginFails, TypeOK, Refreshing
  <2> QED BY <2>1 DEF LockIsHeld, UsableWhileHeld
<1>2. ASSUME NEW j \in Jobs, ReadAndRefresh(j)
      PROVE  LockIsHeld' /\ UsableWhileHeld'
  <2>1. Refreshing' = Refreshing \cup {j} /\ lock' = j /\ company' = company /\ company.usable
    BY <1>2 DEF ReadAndRefresh, TypeOK, Refreshing
  <2>2. Refreshing = {}
    BY <1>2, FreeMeansNobody DEF ReadAndRefresh
  <2> QED BY <2>1, <2>2 DEF LockIsHeld, UsableWhileHeld
<1>3. ASSUME NEW j \in Jobs, IntuitRotates(j)
      PROVE  LockIsHeld' /\ UsableWhileHeld'
  <2>1. lock' = lock /\ company' = company /\ Refreshing' = Refreshing
    BY <1>3 DEF IntuitRotates, TypeOK, Refreshing
  <2> QED BY <2>1 DEF LockIsHeld, UsableWhileHeld
<1>4. ASSUME NEW j \in Jobs, EndStep(j)
      PROVE  LockIsHeld' /\ UsableWhileHeld'
  <2>1. PICK result \in Result(j) : Ends(j, result)
    BY <1>4, EndStepEnds
  <2>2. LockIsHeld' /\ Refreshing' \subseteq Refreshing
    BY <2>1, EndsLock
  <2>3. company'.usable = company.usable
    BY <1>4, EndStepEnds DEF Stored
  <2> QED BY <2>2, <2>3 DEF UsableWhileHeld
<1>5. ASSUME Others
      PROVE  LockIsHeld' /\ UsableWhileHeld'
  <2>1. lock' = lock /\ Refreshing' = Refreshing
    BY <1>5 DEF Others, StrayArrives, AppRefreshes, AdminConnects, AdminTurnsOff, Tick, Refreshing
  <2>2. company' = company \/ lock = "free"
    BY <1>5 DEF Others, StrayArrives, AppRefreshes, AdminConnects, AdminTurnsOff, Tick
  <2>3. company' = company \/ Refreshing = {}
    BY <2>2, FreeMeansNobody
  <2> QED BY <2>1, <2>3 DEF LockIsHeld, UsableWhileHeld
<1>6. CASE UNCHANGED vars
  BY <1>6 DEF vars, LockIsHeld, UsableWhileHeld, Refreshing
<1> QED BY <1>1, <1>2, <1>3, <1>4, <1>5, <1>6 DEF Next, Access, Mishap, EndStep

-----------------------------------------------------------------------------
(* Times.                                                                  *)

(* The columns of a row that has just been written from t.                 *)
Recent(t) ==
    /\ now + TokenLife <= t.accessUntil + HttpTimeout
    /\ now + RefreshLife <= t.refreshUntil + HttpTimeout

LEMMA StoredRunsBehind ==
    ASSUME TypeOK, NEW t \in TokenSet, NEW usable, Recent(t), company' = Stored(t, usable)
    PROVE  RowRunsBehind'
BY DEF TypeOK, Recent, Stored, RowRunsBehind, TokenSet

LEMMA AnswerIsRecent ==
    ASSUME TypeOK, WaitedFor, NEW j \in Jobs, pc[j] = "answer"
    PROVE  Recent(fresh[j])
BY DEF TypeOK, WaitedFor, Recent, TokenSet

LEMMA TimesStep ==
    ASSUME TypeOK, LockIsHeld, RowRunsBehind, WaitedFor, [Next]_vars
    PROVE  RowRunsBehind' /\ WaitedFor'
<1>1. ASSUME NEW j \in Jobs, Call(j) \/ Begin(j) \/ BeginFails(j)
      PROVE  RowRunsBehind' /\ WaitedFor'
  BY <1>1 DEF Call, Begin, BeginFails, TypeOK, RowRunsBehind, WaitedFor
<1>2. ASSUME NEW j \in Jobs, ReadAndRefresh(j)
      PROVE  RowRunsBehind' /\ WaitedFor'
  <2>1. now + Margin < company.refreshExp + waited[j]
    BY <1>2 DEF ReadAndRefresh, RefreshExpired, TypeOK, Company
  <2> QED BY <1>2, <2>1 DEF ReadAndRefresh, TypeOK, RowRunsBehind, WaitedFor
<1>3. ASSUME NEW j \in Jobs, IntuitRotates(j)
      PROVE  RowRunsBehind' /\ WaitedFor'
  <2>1. fresh' = [fresh EXCEPT ![j] = Issue(intuit + 1)] /\ pc' = [pc EXCEPT ![j] = "answer"]
        /\ UNCHANGED <<company, now, waited>>
    BY <1>3 DEF IntuitRotates
  <2>2. now + TokenLife <= Issue(intuit + 1).accessUntil + waited[j]
        /\ now + RefreshLife <= Issue(intuit + 1).refreshUntil + waited[j]
    BY DEF Issue, TypeOK
  <2> QED BY <2>1, <2>2 DEF TypeOK, RowRunsBehind, WaitedFor
<1>4. ASSUME NEW j \in Jobs, EndStep(j)
      PROVE  RowRunsBehind' /\ WaitedFor'
  <2>1. PICK result \in Result(j) : Ends(j, result)
    BY <1>4, EndStepEnds
  <2>2. /\ pc'[j] = "idle"
        /\ \A k \in Jobs \ {j} : pc'[k] = pc[k] /\ waited'[k] = waited[k] /\ fresh'[k] = fresh[k]
    BY <2>1, EndsLock
  <2>3. CASE company' = company
    BY <1>4, <2>2, <2>3, EndStepEnds DEF RowRunsBehind, WaitedFor
  <2>4. CASE company' # company
    <3>1. pc[j] = "answer" /\ company' = Stored(fresh[j], company.usable) /\ now' = now
      BY <1>4, <2>4, EndStepEnds
    <3>2. RowRunsBehind'
      BY <3>1, AnswerIsRecent, StoredRunsBehind DEF TypeOK
    <3>3. Refreshing = {j}
      BY <3>1, OnlyOne DEF Refreshing
    <3>4. \A k \in Jobs : pc'[k] \notin {"refresh", "answer"}
      BY <2>2, <3>3 DEF Refreshing
    <3> QED BY <3>2, <3>4 DEF WaitedFor
  <2> QED BY <2>3, <2>4
<1>5. ASSUME NEW t \in stray, StrayArrives(t)
      PROVE  RowRunsBehind' /\ WaitedFor'
  BY <1>5 DEF StrayArrives, RowRunsBehind, WaitedFor
<1>6. CASE AppRefreshes \/ AdminConnects
  <2>1. company' = Stored(Issue(intuit + 1), TRUE) /\ pc' = pc /\ lock = "free"
    BY <1>6 DEF AppRefreshes, AdminConnects
  <2>2. intuit + 1 \in Tokens
    BY DEF TypeOK, Tokens
  <2>3. Recent(Issue(intuit + 1))
    BY DEF Recent, Issue, TypeOK
  <2>4. RowRunsBehind'
    BY <2>1, <2>2, <2>3, IssueType, StoredRunsBehind
  <2>5. \A k \in Jobs : pc'[k] \notin {"refresh", "answer"}
    BY <2>1, FreeMeansNobody DEF Refreshing
  <2> QED BY <2>4, <2>5 DEF WaitedFor
<1>7. CASE AdminTurnsOff
  <2>1. /\ company'.accessExp = company.accessExp /\ company'.accessUntil = company.accessUntil
        /\ company'.refreshExp = company.refreshExp
        /\ company'.refreshUntil = company.refreshUntil
    BY <1>7 DEF AdminTurnsOff, TypeOK, Company
  <2> QED BY <1>7, <2>1 DEF AdminTurnsOff, RowRunsBehind, WaitedFor
<1>8. CASE Tick
  <2>1. now' = now + 1 /\ UNCHANGED <<company, pc, fresh>>
    BY <1>8 DEF Tick
  <2>2. \A j \in Jobs : pc[j] \in {"refresh", "answer"} => waited'[j] = waited[j] + 1
    BY <1>8 DEF Tick
  <2> QED BY <2>1, <2>2 DEF RowRunsBehind, WaitedFor, TypeOK, Company, TokenSet
<1>9. CASE UNCHANGED vars
  BY <1>9 DEF vars, RowRunsBehind, WaitedFor
<1> QED BY <1>1, <1>2, <1>3, <1>4, <1>5, <1>6, <1>7, <1>8, <1>9
        DEF Next, Access, Mishap, EndStep, Others

-----------------------------------------------------------------------------
(* Which refresh token is the one that Intuit knows.                       *)

LEMMA LatestTokenStep ==
    ASSUME TypeOK, LockIsHeld, LatestToken, [Next]_vars
    PROVE  LatestToken'
<1> faults \in Nat /\ intuit \in Nat
  BY DEF TypeOK, Tokens
<1>1. ASSUME NEW j \in Jobs, Call(j) \/ Begin(j)
      PROVE  LatestToken'
  BY <1>1 DEF Call, Begin, TypeOK, LatestToken
<1>2. ASSUME NEW j \in Jobs, BeginFails(j)
      PROVE  LatestToken'
  BY <1>2 DEF BeginFails, Fault, LatestToken
<1>3. ASSUME NEW j \in Jobs, ReadAndRefresh(j)
      PROVE  LatestToken'
  <2>1. \A k \in Jobs : pc[k] # "answer"
    BY <1>3, FreeMeansNobody DEF ReadAndRefresh, Refreshing
  <2> QED BY <1>3, <2>1 DEF ReadAndRefresh, TypeOK, LatestToken
<1>4. ASSUME NEW j \in Jobs, IntuitRotates(j)
      PROVE  LatestToken'
  <2>1. Refreshing = {j}
    BY <1>4, OnlyOne DEF IntuitRotates, Refreshing
  <2>2. \A k \in Jobs \ {j} : pc'[k] \notin {"refresh", "answer"}
    BY <1>4, <2>1 DEF IntuitRotates, TypeOK, Refreshing
  <2>3. pc'[j] = "answer" /\ fresh'[j].refresh = intuit' /\ stray' = stray /\ faults' = faults
    BY <1>4 DEF IntuitRotates, TypeOK, Issue
  <2> QED BY <2>2, <2>3 DEF LatestToken
<1>5. ASSUME NEW j \in Jobs, EndStep(j)
      PROVE  LatestToken'
  <2>1. PICK result \in Result(j) : Ends(j, result)
    BY <1>5, EndStepEnds
  <2>2. /\ pc'[j] = "idle" /\ intuit' = intuit
        /\ \A k \in Jobs \ {j} : pc'[k] = pc[k] /\ sent'[k] = sent[k] /\ fresh'[k] = fresh[k]
    BY <1>5, <2>1, EndsLock, EndStepEnds
  <2>3. CASE faults' # faults
    <3>1. faults' # 0
      BY <1>5, <2>3, EndStepEnds
    <3> QED BY <3>1 DEF LatestToken
  <2>4. CASE faults' = faults /\ pc[j] = "answer"
    <3>1. stray' = stray /\ company'.refresh = fresh[j].refresh
      BY <1>5, <2>4, EndStepEnds DEF Stored
    <3> QED BY <2>2, <2>4, <3>1 DEF LatestToken
  <2>5. CASE faults' = faults /\ pc[j] # "answer"
    <3>1. stray' = stray /\ company' = company
      BY <1>5, <2>5, EndStepEnds
    <3>2. (\A k \in Jobs : pc'[k] # "answer") => \A k \in Jobs : pc[k] # "answer"
      BY <2>2, <2>5
    <3> QED BY <2>2, <2>5, <3>1, <3>2 DEF LatestToken
  <2> QED BY <2>3, <2>4, <2>5
<1>6. ASSUME NEW t \in stray, StrayArrives(t)
      PROVE  LatestToken'
  BY <1>6 DEF StrayArrives, LatestToken
<1>7. CASE AppRefreshes \/ AdminConnects
  <2>1. company'.refresh = intuit' /\ lock = "free" /\ UNCHANGED <<pc, stray, faults>>
    BY <1>7 DEF AppRefreshes, AdminConnects, Stored, Issue
  <2>2. \A k \in Jobs : pc'[k] \notin {"refresh", "answer"}
    BY <2>1, FreeMeansNobody DEF Refreshing
  <2> QED BY <2>1, <2>2 DEF LatestToken
<1>8. CASE AdminTurnsOff
  <2>1. company'.refresh = company.refresh
    BY <1>8 DEF AdminTurnsOff, TypeOK, Company
  <2> QED BY <1>8, <2>1 DEF AdminTurnsOff, LatestToken
<1>9. CASE Tick \/ UNCHANGED vars
  BY <1>9 DEF Tick, vars, LatestToken
<1> QED BY <1>1, <1>2, <1>3, <1>4, <1>5, <1>6, <1>7, <1>8, <1>9
        DEF Next, Access, Mishap, EndStep, Others

-----------------------------------------------------------------------------
(* What is handed out.                                                     *)

(* A token that is handed out is a usable company's, and has the job's     *)
(* time left although the row's column may run behind.                     *)
LEMMA EndStepGrants ==
    ASSUME TypeOK, UsableWhileHeld, RowRunsBehind, WaitedFor, NEW j \in Jobs, EndStep(j)
    PROVE  /\ got'[j] # Nothing => company.usable
           /\ got'[j] # Nothing => got'[j].until >= got'[j].at + JobTime
           /\ \A k \in Jobs \ {j} : got'[k] = got[k]
<1> USE MarginAssumption
<1>1. ASSUME NEW result, Return(j, result)
      PROVE  got'[j] = result /\ \A k \in Jobs \ {j} : got'[k] = got[k]
  BY <1>1 DEF Return, TypeOK
<1>2. CASE ReadUnusable(j) \/ ReadFails(j) \/ IntuitRefuses(j) \/ Interrupted(j)
  BY <1>1, <1>2 DEF ReadUnusable, ReadFails, IntuitRefuses, Interrupted
<1>3. CASE ReadFresh(j)
  <2>1. company.usable /\ company.accessExp - now >= JobTime + Slack
    BY <1>3 DEF ReadFresh, FreshEnough, ValidFor
  <2>2. company.accessUntil >= now + JobTime
    BY <2>1 DEF RowRunsBehind, TypeOK, Company
  <2> QED BY <1>1, <1>3, <2>1, <2>2 DEF ReadFresh
<1>4. CASE StoreAndCommit(j)
  <2>1. pc[j] = "answer" /\ company.usable
    BY <1>4 DEF StoreAndCommit, UsableWhileHeld, Refreshing
  <2>2. fresh[j].accessUntil >= now + JobTime
    BY <2>1, AnswerIsRecent DEF Recent, TypeOK, TokenSet
  <2> QED BY <1>1, <1>4, <2>1, <2>2 DEF StoreAndCommit
<1> QED BY <1>2, <1>3, <1>4 DEF EndStep

(* Other steps hand out nothing.                                           *)
LEMMA OthersGrantNothing ==
    ASSUME TypeOK, [Next]_vars, ~\E j \in Jobs : EndStep(j)
    PROVE  \A j \in Jobs : got'[j] \in {got[j], Nothing}
<1>1. ASSUME NEW j \in Jobs, Call(j)
      PROVE  \A k \in Jobs : got'[k] \in {got[k], Nothing}
  BY <1>1 DEF Call, TypeOK
<1>2. ASSUME NEW j \in Jobs, Begin(j) \/ BeginFails(j) \/ ReadAndRefresh(j) \/ IntuitRotates(j)
      PROVE  got' = got
  BY <1>2 DEF Begin, BeginFails, ReadAndRefresh, IntuitRotates
<1>3. CASE Others \/ UNCHANGED vars
  BY <1>3 DEF Others, StrayArrives, AppRefreshes, AdminConnects, AdminTurnsOff, Tick, vars
<1> QED BY <1>1, <1>2, <1>3 DEF Next, Access, Mishap, EndStep

LEMMA TokenStep ==
    ASSUME TypeOK, BrokerInv, TokenOutlivesJob, [Next]_vars
    PROVE  TokenOutlivesJob'
<1>1. ASSUME NEW j \in Jobs, EndStep(j)
      PROVE  TokenOutlivesJob'
  BY <1>1, EndStepGrants DEF BrokerInv, TokenOutlivesJob
<1>2. CASE ~\E j \in Jobs : EndStep(j)
  BY <1>2, OthersGrantNothing DEF TokenOutlivesJob
<1> QED BY <1>1, <1>2

(* The margin is spent on a column that runs behind and on the request.    *)
LEMMA MarginSuffices ==
    ASSUME TypeOK, BrokerInv
    PROVE  RefreshArrivesInTime
BY MarginAssumption DEF TypeOK, BrokerInv, WaitedFor, RowRunsBehind, RefreshArrivesInTime, Company

-----------------------------------------------------------------------------
(* The theorems.                                                           *)

LEMMA InitInv ==
    ASSUME Init
    PROVE  TypeOK /\ BrokerInv /\ TokenOutlivesJob
<1>1. company = [usable |-> TRUE, refresh |-> 1, accessExp |-> TokenLife, accessUntil |-> TokenLife,
                 refreshExp |-> RefreshLife, refreshUntil |-> RefreshLife]
  BY DEF Init, Stored, Issue
<1>2. TypeOK
  <2>1. company \in Company
    BY <1>1 DEF Company, Tokens
  <2>2. NoTokens \in TokenSet /\ Nothing \in Granted
    BY DEF NoTokens, TokenSet, Nothing, Granted, Tokens
  <2>3. /\ pc \in [Jobs -> Pcs] /\ sent \in [Jobs -> Tokens]
        /\ waited \in [Jobs -> 0..HttpTimeout]
        /\ fresh \in [Jobs -> TokenSet] /\ got \in [Jobs -> Granted]
    BY <2>2 DEF Init, Tokens, Pcs
  <2>4. intuit = 1 /\ now = 0 /\ lock = "free" /\ stray = {} /\ pool = PoolSize /\ faults = 0
    BY DEF Init
  <2>5. pool \in 0..PoolSize /\ faults \in 0..MaxFaults
    BY <2>4
  <2> QED BY <2>1, <2>3, <2>4, <2>5 DEF TypeOK, Tokens
<1>3. Connected = {}
  BY DEF Init, Connected
<1>4. PoolAddsUp
  BY <1>3, FS_EmptySet DEF Init, PoolAddsUp
<1>5. LockIsHeld /\ UsableWhileHeld
  BY DEF Init, LockIsHeld, UsableWhileHeld, Refreshing
<1>6. RowRunsBehind /\ WaitedFor /\ LatestToken
  <2>1. RowRunsBehind
    BY <1>1 DEF RowRunsBehind
  <2>2. stray = {} /\ intuit = 1 /\ \A j \in Jobs : pc[j] = "idle"
    BY DEF Init
  <2>3. company.refresh = 1
    BY <1>1
  <2> QED BY <2>1, <2>2, <2>3 DEF WaitedFor, LatestToken
<1>7. TokenOutlivesJob
  BY DEF Init, TokenOutlivesJob
<1> QED BY <1>2, <1>4, <1>5, <1>6, <1>7 DEF BrokerInv

LEMMA Inductive ==
    Spec => [](TypeOK /\ BrokerInv /\ TokenOutlivesJob)
<1>1. ASSUME TypeOK, BrokerInv, TokenOutlivesJob, [Next]_vars
      PROVE  (TypeOK /\ BrokerInv /\ TokenOutlivesJob)'
  <2>1. TypeOK' /\ PoolAddsUp'
    BY <1>1, TypeStep DEF BrokerInv
  <2>2. LockIsHeld' /\ UsableWhileHeld'
    BY <1>1, LockStep DEF BrokerInv
  <2>3. RowRunsBehind' /\ WaitedFor'
    BY <1>1, TimesStep DEF BrokerInv
  <2>4. LatestToken'
    BY <1>1, LatestTokenStep DEF BrokerInv
  <2>5. TokenOutlivesJob'
    BY <1>1, TokenStep
  <2> QED BY <2>1, <2>2, <2>3, <2>4, <2>5 DEF BrokerInv
<1> QED BY <1>1, InitInv, PTL DEF Spec

(* What a job is given lasts as long as the job may (valid_for).           *)
THEOREM BrokerIsSafe == Spec => [](TypeOK /\ TokenOutlivesJob)
BY Inductive, PTL

(* No refresh token is sent twice unless a refresh was interrupted between *)
(* Intuit's answer and the commit (try_access, which holds the row lock).  *)
THEOREM NoTokenSpentTwice == Spec => []UnspentUnlessInterrupted
<1>1. BrokerInv => UnspentUnlessInterrupted
  BY DEF BrokerInv, LatestToken, UnspentUnlessInterrupted
<1> QED BY <1>1, Inductive, PTL

(* No refresh token expires between the check of its time and its arrival  *)
(* (try_access, refresh).                                                  *)
THEOREM NoTokenLate == Spec => []RefreshArrivesInTime
<1>1. TypeOK /\ BrokerInv => RefreshArrivesInTime
  BY MarginSuffices DEF BrokerInv
<1> QED BY <1>1, Inductive, PTL

(* A job gets a token only while the company uses QuickBooks.              *)
THEOREM OnlyWhileUsable ==
    Spec => HandsOutOnlyWhileUsable
<1>1. ASSUME TypeOK, BrokerInv, [Next]_vars
      PROVE  [\A j \in Jobs : got'[j] # got[j] /\ got'[j] # Nothing => company.usable]_vars
  <2>1. ASSUME NEW j \in Jobs, EndStep(j)
        PROVE  \A k \in Jobs : got'[k] # got[k] /\ got'[k] # Nothing => company.usable
    BY <1>1, <2>1, EndStepGrants DEF BrokerInv
  <2>2. CASE ~\E j \in Jobs : EndStep(j)
    BY <1>1, <2>2, OthersGrantNothing
  <2> QED BY <2>1, <2>2
<1> QED BY <1>1, Inductive, PTL DEF Spec, HandsOutOnlyWhileUsable
=============================================================================
