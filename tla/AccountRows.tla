----------------------------- MODULE AccountRows -----------------------------
(***************************************************************************)
(* The accounts table of account-service and the requests that change it.  *)
(*                                                                         *)
(* Every request but a reversal works on an entity: findById reads the row *)
(* into memory, the handler changes the entity, and repository.save reads  *)
(* the row again, computes the columns in which the entity differs from    *)
(* it, and updates exactly these columns.  The three database statements   *)
(* are separate transactions, so other requests run between them.  A       *)
(* reversal is one database transaction that locks its rows with SELECT    *)
(* FOR UPDATE and publishes its writes at COMMIT.                          *)
(*                                                                         *)
(* A balance is a whole number of ten-thousandths (DECIMAL(18,4)).         *)
(***************************************************************************)
EXTENDS Integers

CONSTANTS
    Account,        \* account ids
    NoAccount,      \* the missing optional id of a reversal
    Request,        \* the requests being served, by any number of instances
    NoRequest,      \* "no request holds this row lock"
    Offered,        \* the requests a caller may make
    OpeningBalance, \* the balance each account was opened with
    MaxBalance      \* the largest balance DECIMAL(18,4) holds

Status == {"active", "frozen", "closed"}
KycStatus == {"pending", "approved", "rejected"}

BalanceJob == [op: {"credit", "debit"}, account: Account, amount: Nat]
StatusJob == [op: {"freeze", "unfreeze", "close"}, account: Account]
KycJob == [op: {"updateKyc"}, account: Account, kyc: KycStatus]
DeleteJob == [op: {"delete"}, account: Account, byAdmin: BOOLEAN]
ReversalJob ==
    [op: {"reverse"},
     debit: Account \union {NoAccount}, debitAmount: Nat,
     credit: Account \union {NoAccount}, creditAmount: Nat]

EntityJob == BalanceJob \union StatusJob \union KycJob \union DeleteJob
Job == EntityJob \union ReversalJob

ASSUME ConstantsAssumption ==
    /\ MaxBalance \in Nat
    /\ OpeningBalance \in [Account -> 0..MaxBalance]
    /\ Offered \subseteq Job
    /\ NoAccount \notin Account
    /\ NoRequest \notin Request

Column == {"balance", "status", "kyc", "deleted"}
Row == [balance: Int, status: Status, kyc: KycStatus, deleted: BOOLEAN]

Stage == {"new", "otp", "save", "update", "softDelete", "lockCredit", "commit",
          "done", "failed"}

VARIABLES
    row,      \* the committed version of each account's row
    lock,     \* which reversal's transaction holds the row lock
    job,      \* what each request asks for
    stage,    \* where each request stands
    entity,   \* each request's in-memory Account, set by findById
    columns,  \* the columns its save found changed
    draft,    \* the balances a reversal has written and not yet committed
    \* History variables: read by properties only.
    fresh,    \* no one has written the row since the request read it
    clean,    \* no stale save has touched the account's balance
    booked    \* the balance the accepted requests add up to

vars == <<row, lock, job, stage, entity, columns, draft, fresh, clean, booked>>

NewRow(balance) ==
    [balance |-> balance, status |-> "active", kyc |-> "pending",
     deleted |-> FALSE]

Init ==
    /\ row = [a \in Account |-> NewRow(OpeningBalance[a])]
    /\ lock = [a \in Account |-> NoRequest]
    /\ job \in [Request -> Offered]
    /\ stage = [r \in Request |-> "new"]
    /\ entity = [r \in Request |-> NewRow(0)]
    /\ columns = [r \in Request |-> {}]
    /\ draft = [r \in Request |-> [a \in Account |-> 0]]
    /\ fresh = [r \in Request |-> FALSE]
    /\ clean = [a \in Account |-> TRUE]
    /\ booked = OpeningBalance

-----------------------------------------------------------------------------
(* What the operations ask of an entity.                                   *)

\* Mutant: the debit's funds check is dropped.
AcceptsOverdraft(j, e) ==
    j.op \in {"credit", "debit"} => j.amount > 0

\* Checks made on the entity before it is changed: updateBalance refuses an
\* amount that is not positive and a debit the entity's balance cannot cover.
Accepts(j, e) ==
    j.op \in {"credit", "debit"} =>
        /\ j.amount > 0
        /\ j.op = "debit" => e.balance >= j.amount

\* What the operation adds to the balance.
Change(j) ==
    IF j.op = "credit" THEN j.amount
    ELSE IF j.op = "debit" THEN -j.amount
    ELSE 0

\* freeze, unfreeze, close and deleteWithOtp set the status whatever it was.
StatusAfter(j, status) ==
    IF j.op = "freeze" THEN "frozen"
    ELSE IF j.op = "unfreeze" THEN "active"
    ELSE IF j.op \in {"close", "delete"} THEN "closed"
    ELSE status

\* Mutant: updateKyc assigns the wrong property.
MutatedWrongProperty(j, e) ==
    [e EXCEPT !.balance = @ + Change(j),
              !.status = IF j.op = "updateKyc" THEN j.kyc ELSE StatusAfter(j, @)]

\* Mutant: lifting a freeze also asks for a new KYC check.
MutatedKycReset(j, e) ==
    [e EXCEPT !.balance = @ + Change(j),
              !.status = StatusAfter(j, @),
              !.kyc = IF j.op = "unfreeze" THEN "rejected"
                      ELSE IF j.op = "updateKyc" THEN j.kyc ELSE @]

\* The entity as the operation leaves it.
Mutated(j, e) ==
    [balance |-> e.balance + Change(j),
     status  |-> StatusAfter(j, e.status),
     kyc     |-> IF j.op = "updateKyc" THEN j.kyc ELSE e.kyc,
     deleted |-> e.deleted]

\* The columns an operation is about.
Owned(j) ==
    IF j.op \in {"credit", "debit"} THEN {"balance"}
    ELSE IF j.op = "updateKyc" THEN {"kyc"}
    ELSE {"status"}

Differing(e, w) == {c \in Column : e[c] # w[c]}

\* The row after UPDATE ... SET of the columns in cols.
Overlay(w, e, cols) ==
    [balance |-> IF "balance" \in cols THEN e.balance ELSE w.balance,
     status  |-> IF "status" \in cols THEN e.status ELSE w.status,
     kyc     |-> IF "kyc" \in cols THEN e.kyc ELSE w.kyc,
     deleted |-> IF "deleted" \in cols THEN e.deleted ELSE w.deleted]

Fits(balance) == balance <= MaxBalance

-----------------------------------------------------------------------------
(* Requests that load, change and save an entity.                          *)

Goto(r, s) == stage' = [stage EXCEPT ![r] = s]

\* requiredAccount: findById does not see a soft-deleted row.
FindMissing(r) ==
    /\ stage[r] = "new" /\ job[r] \in EntityJob
    /\ row[job[r].account].deleted
    /\ Goto(r, "failed")
    /\ UNCHANGED <<row, lock, job, entity, columns, draft, fresh, clean, booked>>

FindRefused(r) ==
    /\ stage[r] = "new" /\ job[r] \in EntityJob
    /\ ~row[job[r].account].deleted
    /\ ~Accepts(job[r], row[job[r].account])
    /\ Goto(r, "failed")
    /\ UNCHANGED <<row, lock, job, entity, columns, draft, fresh, clean, booked>>

\* Mutant: the lookup does not exclude soft-deleted rows.
FindAccountWithDeleted(r) ==
    LET found == row[job[r].account] IN
    /\ stage[r] = "new" /\ job[r] \in EntityJob
    /\ Accepts(job[r], found)
    /\ Goto(r, "save")
    /\ entity' = [entity EXCEPT ![r] = Mutated(job[r], found)]
    /\ fresh' = [fresh EXCEPT ![r] = TRUE]
    /\ UNCHANGED <<row, lock, job, columns, draft, clean, booked>>

\* The handler runs from the read to its next await without interruption. A
\* deletion by the owner awaits the OTP check with the entity in its hands.
FindAccount(r) ==
    LET found == row[job[r].account] IN
    /\ stage[r] = "new" /\ job[r] \in EntityJob
    /\ ~found.deleted
    /\ Accepts(job[r], found)
    /\ IF job[r].op = "delete" /\ ~job[r].byAdmin
       THEN Goto(r, "otp") /\ entity' = [entity EXCEPT ![r] = found]
       ELSE Goto(r, "save") /\ entity' = [entity EXCEPT ![r] = Mutated(job[r], found)]
    /\ fresh' = [fresh EXCEPT ![r] = TRUE]
    /\ UNCHANGED <<row, lock, job, columns, draft, clean, booked>>

OtpVerified(r) ==
    /\ stage[r] = "otp"
    /\ entity' = [entity EXCEPT ![r] = Mutated(job[r], @)]
    /\ Goto(r, "save")
    /\ UNCHANGED <<row, lock, job, columns, draft, fresh, clean, booked>>

\* A wrong code, or an auth-service that does not answer in time.
OtpRejected(r) ==
    /\ stage[r] = "otp"
    /\ Goto(r, "failed")
    /\ UNCHANGED <<row, lock, job, entity, columns, draft, fresh, clean, booked>>

AfterSave(r) == IF job[r].op = "delete" THEN "softDelete" ELSE "done"

\* The request's effect on the balance is accepted: it answers 200.
BookChange(r) == booked' = [booked EXCEPT ![job[r].account] = @ + Change(job[r])]

\* A balance is lost or brought back when a stale request saves a balance, or
\* reports one as saved.
StaleBalance(r) ==
    /\ ~fresh[r]
    /\ "balance" \in columns'[r] \union Owned(job[r])

Taint(r) ==
    clean' = [clean EXCEPT ![job[r].account] = @ /\ ~StaleBalance(r)]

\* repository.save, first statement: SELECT the row and compare.
SaveSelect(r) ==
    /\ stage[r] = "save"
    /\ columns' = [columns EXCEPT ![r] = Differing(entity[r], row[job[r].account])]
    /\ columns'[r] # {}
    /\ Goto(r, "update")
    /\ UNCHANGED <<row, lock, job, entity, draft, fresh, clean, booked>>

\* Nothing to write: save returns without an UPDATE.
SaveUnchanged(r) ==
    /\ stage[r] = "save"
    /\ Differing(entity[r], row[job[r].account]) = {}
    /\ columns' = [columns EXCEPT ![r] = {}]
    /\ Goto(r, AfterSave(r))
    /\ BookChange(r)
    /\ Taint(r)
    /\ UNCHANGED <<row, lock, job, entity, draft, fresh>>

\* Others who read the row before this write hold an old version of it.
Outdate(r, written) ==
    fresh' = [s \in Request |->
                 /\ fresh[s]
                 /\ s = r \/ (job[s] \in EntityJob => job[s].account \notin written)]

\* repository.save, second statement: UPDATE, which waits for a row lock.
SaveUpdate(r) ==
    LET a == job[r].account IN
    /\ stage[r] = "update"
    /\ lock[a] = NoRequest
    /\ "balance" \in columns[r] => Fits(entity[r].balance)
    /\ row' = [row EXCEPT ![a] = Overlay(@, entity[r], columns[r])]
    /\ Goto(r, AfterSave(r))
    /\ Outdate(r, {a})
    /\ UNCHANGED columns
    /\ BookChange(r)
    /\ Taint(r)
    /\ UNCHANGED <<lock, job, entity, draft>>

\* Numeric overflow: PostgreSQL refuses the UPDATE.
SaveOverflow(r) ==
    /\ stage[r] = "update"
    /\ lock[job[r].account] = NoRequest
    /\ "balance" \in columns[r] /\ ~Fits(entity[r].balance)
    /\ Goto(r, "failed")
    /\ UNCHANGED <<row, lock, job, entity, columns, draft, fresh, clean, booked>>

\* deleteAccount: softDelete sets deletedAt, in a statement of its own.
SoftDelete(r) ==
    LET a == job[r].account IN
    /\ stage[r] = "softDelete"
    /\ lock[a] = NoRequest
    /\ row' = [row EXCEPT ![a].deleted = TRUE]
    /\ Outdate(r, {a})
    /\ Goto(r, "done")
    /\ UNCHANGED <<lock, job, entity, columns, draft, clean, booked>>

-----------------------------------------------------------------------------
(* reverseTransactionBalance: one transaction over one or two rows.        *)

\* An id comes with its amount, and a missing one (0 here) with none.
ValidLeg(account, amount) == IF account = NoAccount THEN amount = 0 ELSE amount > 0

ValidReversal(j) ==
    /\ ValidLeg(j.debit, j.debitAmount)
    /\ ValidLeg(j.credit, j.creditAmount)
    /\ ~(j.debit = NoAccount /\ j.credit = NoAccount)
    /\ j.debit # j.credit

\* The rows the reversal's transaction writes.
Legs(j) == {j.debit, j.credit} \intersect Account

\* COMMIT and ROLLBACK release the row locks.
Unlocked(r) == [a \in Account |-> IF lock[a] = r THEN NoRequest ELSE lock[a]]

\* Mutant: the error path leaves the database transaction open.
RollbackForgotten(r) ==
    /\ Goto(r, "failed")
    /\ UNCHANGED <<row, lock, job, entity, columns, draft, fresh, clean, booked>>

Rollback(r) ==
    /\ lock' = Unlocked(r)
    /\ Goto(r, "failed")
    /\ UNCHANGED <<row, job, entity, columns, draft, fresh, clean, booked>>

ReversalRefused(r) ==
    /\ stage[r] = "new" /\ job[r] \in ReversalJob
    /\ ~ValidReversal(job[r])
    /\ Goto(r, "failed")
    /\ UNCHANGED <<row, lock, job, entity, columns, draft, fresh, clean, booked>>

StartsReversal(r) ==
    /\ stage[r] = "new" /\ job[r] \in ReversalJob
    /\ ValidReversal(job[r])

\* Mutant: a plain SELECT instead of SELECT ... FOR UPDATE.
TakeLegUnlocked(r, a, balance, next) ==
    /\ lock[a] = NoRequest
    /\ draft' = [draft EXCEPT ![r][a] = balance]
    /\ Goto(r, next)
    /\ UNCHANGED <<row, lock, job, entity, columns, fresh, clean, booked>>

\* A leg takes the row lock, reads the balance under it and writes the new one.
TakeLeg(r, a, balance, next) ==
    /\ lock[a] = NoRequest
    /\ lock' = [lock EXCEPT ![a] = r]
    /\ draft' = [draft EXCEPT ![r][a] = balance]
    /\ Goto(r, next)
    /\ UNCHANGED <<row, job, entity, columns, fresh, clean, booked>>

SkipLeg(r, next) ==
    /\ Goto(r, next)
    /\ UNCHANGED <<row, lock, job, entity, columns, draft, fresh, clean, booked>>

\* Mutant: the debit leg is saved outside the transaction.
LockDebitAutocommit(r) ==
    LET a == job[r].debit IN
    /\ StartsReversal(r)
    /\ a \in Account => ~row[a].deleted /\ row[a].balance >= job[r].debitAmount
    /\ row' = [b \in Account |->
                  IF b = a THEN [row[b] EXCEPT !.balance = @ - job[r].debitAmount]
                  ELSE row[b]]
    /\ draft' = [draft EXCEPT ![r] = [b \in Account |-> row'[b].balance]]
    /\ Goto(r, "lockCredit")
    /\ UNCHANGED <<lock, job, entity, columns, fresh, clean, booked>>

LockDebit(r) ==
    LET a == job[r].debit IN
    /\ StartsReversal(r)
    /\ \/ a = NoAccount /\ SkipLeg(r, "lockCredit")
       \/ /\ a \in Account
          /\ ~row[a].deleted
          /\ row[a].balance >= job[r].debitAmount
          /\ TakeLeg(r, a, row[a].balance - job[r].debitAmount, "lockCredit")

\* Not found, or not enough money to take back.
DebitRefused(r) ==
    LET a == job[r].debit IN
    /\ StartsReversal(r)
    /\ a \in Account
    /\ lock[a] = NoRequest
    /\ row[a].deleted \/ row[a].balance < job[r].debitAmount
    /\ Rollback(r)

LockCredit(r) ==
    LET a == job[r].credit IN
    /\ stage[r] = "lockCredit"
    /\ \/ a = NoAccount /\ SkipLeg(r, "commit")
       \/ /\ a \in Account
          /\ ~row[a].deleted
          /\ Fits(row[a].balance + job[r].creditAmount)
          /\ TakeLeg(r, a, row[a].balance + job[r].creditAmount, "commit")

CreditRefused(r) ==
    LET a == job[r].credit IN
    /\ stage[r] = "lockCredit"
    /\ a \in Account
    /\ lock[a] = NoRequest
    /\ row[a].deleted \/ ~Fits(row[a].balance + job[r].creditAmount)
    /\ Rollback(r)

\* What a committed reversal owes to account a.
ReversalChange(j, a) ==
    (IF a = j.credit THEN j.creditAmount ELSE 0)
        - (IF a = j.debit THEN j.debitAmount ELSE 0)

Commit(r) ==
    /\ stage[r] = "commit"
    /\ row' = [a \in Account |->
                  IF a \in Legs(job[r]) THEN [row[a] EXCEPT !.balance = draft[r][a]]
                  ELSE row[a]]
    /\ lock' = Unlocked(r)
    /\ Goto(r, "done")
    /\ Outdate(r, Legs(job[r]))
    /\ booked' = [a \in Account |-> booked[a] + ReversalChange(job[r], a)]
    /\ UNCHANGED <<job, entity, columns, draft, clean>>

\* s waits for a row that t's transaction has locked.
WaitsFor(s, t) ==
    /\ stage[s] = "lockCredit" /\ job[s].credit \in Account
    /\ lock[job[s].credit] = t

\* PostgreSQL aborts a transaction that is part of a cycle of waits.
Deadlocked(r) ==
    \E cycle \in SUBSET Request :
        /\ r \in cycle
        /\ \A s \in cycle : (\E t \in cycle : WaitsFor(s, t))
                         /\ (\E t \in cycle : WaitsFor(t, s))

DeadlockAbort(r) == Deadlocked(r) /\ Rollback(r)

-----------------------------------------------------------------------------

Finished(r) == stage[r] \in {"done", "failed"}

\* A database error, a lost connection or a crash of the instance, at any
\* await. An open transaction rolls back; committed statements stay.
Abort(r) == ~Finished(r) /\ stage[r] # "new" /\ Rollback(r)

Serve(r) ==
    \/ FindMissing(r) \/ FindRefused(r) \/ FindAccount(r)
    \/ OtpVerified(r) \/ OtpRejected(r)
    \/ SaveSelect(r) \/ SaveUnchanged(r) \/ SaveUpdate(r) \/ SaveOverflow(r)
    \/ SoftDelete(r)
    \/ ReversalRefused(r) \/ LockDebit(r) \/ DebitRefused(r)
    \/ LockCredit(r) \/ CreditRefused(r) \/ Commit(r)
    \/ DeadlockAbort(r)

\* Nothing is left to serve.
Idle == (\A r \in Request : Finished(r)) /\ UNCHANGED vars

Next ==
    \/ \E r \in Request : Serve(r) \/ Abort(r)
    \/ Idle

Spec == Init /\ [][Next]_vars

\* The event loop, the HTTP timeouts and PostgreSQL's lock queue and deadlock
\* detector move every request that can move.
Fairness == \A r \in Request : WF_vars(Serve(r))
FairSpec == Spec /\ Fairness

-----------------------------------------------------------------------------
(* Properties.                                                             *)

TypeOK ==
    /\ row \in [Account -> Row]
    /\ lock \in [Account -> Request \union {NoRequest}]
    /\ job \in [Request -> Offered]
    /\ stage \in [Request -> Stage]
    /\ entity \in [Request -> Row]
    /\ columns \in [Request -> SUBSET Column]
    /\ draft \in [Request -> [Account -> Int]]
    /\ fresh \in [Request -> BOOLEAN]
    /\ clean \in [Account -> BOOLEAN]
    /\ booked \in [Account -> Int]

\* The accounts table has no CHECK on the balance: that it stays in 0 ..
\* MaxBalance rests on every write path of account-service together, stale
\* entities and uncommitted reversals included.
BalanceInRange == \A a \in Account : row[a].balance \in 0..MaxBalance

\* Money is lost or created in one way only: a save by a request whose entity
\* is stale. Until such a save touches an account, its balance is exactly what
\* the accepted credits, debits and reversals add up to, in every interleaving.
BooksAgreeWhileClean ==
    \A a \in Account : clean[a] => row[a].balance = booked[a]

ChangedColumns(a) == {c \in Column : row'[a][c] # row[a][c]}

\* repository.save writes the whole entity, yet a request whose entity is not
\* stale changes no column its operation is not about: a freeze does not move
\* money, a credit does not lift a freeze.
FreshSavesAreSurgical ==
    [][\A r \in Request :
          stage[r] = "update" /\ stage'[r] \in {"done", "softDelete"} /\ fresh[r]
              => ChangedColumns(job[r].account) \subseteq Owned(job[r])]_vars

\* Once an account is soft-deleted, only a request that had read it before can
\* still write its row (updateBalance on a deleted account answers 404).
DeletedRowsOnlyWrittenStale ==
    [][\A a \in Account :
          row[a].deleted /\ row'[a] # row[a]
              => \E r \in Request :
                     /\ job[r] \in EntityJob /\ job[r].account = a
                     /\ stage[r] = "update" /\ ~fresh[r]]_vars

\* The balances implement AccountBook: a reversal is one atomic move of both
\* legs, computed on the balances it finds at its commit.
Book == INSTANCE AccountBook WITH
    balance <- [a \in Account |-> row[a].balance],
    owed    <- [r \in Request |-> [a \in Account |->
                   IF job[r] \in ReversalJob THEN ReversalChange(job[r], a) ELSE 0]],
    settled <- {r \in Request : job[r] \in ReversalJob /\ stage[r] = "done"}

ImplementsAccountBook == Book!BookSpec

\* No request is stuck: waits for row locks and for the OTP check end, and a
\* deadlock between two reversals is broken.
RequestsFinish == \A r \in Request : <>Finished(r)

\* The statement of the test 'rejects debits larger than the balance': what
\* debits were accepted is covered by what was paid in.
AcceptedDebitsCovered == \A a \in Account : booked[a] >= 0
=============================================================================
