-------------------------- MODULE AccountRowsProofs --------------------------
(***************************************************************************)
(* Proofs about AccountRows, for any accounts, requests and amounts.       *)
(***************************************************************************)
EXTENDS AccountRows, TLAPS

\* The stages at which a request holds an entity, or still has its row to mark.
Holding == {"otp", "save", "update"}

\* A request with an entity is not a reversal, and what it holds was not
\* negative when it was read nor after its change.
EntitySound ==
    \A r \in Request :
        /\ stage[r] \in Holding \union {"softDelete"} => job[r] \in EntityJob
        /\ stage[r] \in Holding => entity[r].balance >= 0
        /\ stage[r] = "otp" => job[r].op = "delete"

\* What a fresh request holds is the current row, changed by its operation.
FreshEntity ==
    \A r \in Request : fresh[r] =>
        LET w == row[job[r].account] IN
        /\ stage[r] = "otp" => entity[r] = w
        /\ stage[r] \in {"save", "update"} => entity[r] = Mutated(job[r], w)
        /\ stage[r] = "update" => columns[r] = Differing(entity[r], w)

\* A reversal that wrote a leg holds the row's lock, and what it wrote is
\* computed on the row's committed balance.
DebitLeg(r) ==
    LET a == job[r].debit IN
    a \in Account =>
        /\ lock[a] = r
        /\ row[a].balance >= job[r].debitAmount
        /\ draft[r][a] = row[a].balance - job[r].debitAmount

CreditLeg(r) ==
    LET a == job[r].credit IN
    a \in Account =>
        /\ lock[a] = r
        /\ row[a].balance + job[r].creditAmount <= MaxBalance
        /\ draft[r][a] = row[a].balance + job[r].creditAmount

LegsHeld ==
    \A r \in Request :
        /\ stage[r] \in {"lockCredit", "commit"} =>
               job[r] \in ReversalJob /\ ValidReversal(job[r]) /\ DebitLeg(r)
        /\ stage[r] = "commit" => CreditLeg(r)

\* The inductive invariant.
IInv ==
    /\ TypeOK
    /\ EntitySound
    /\ FreshEntity
    /\ LegsHeld
    /\ BalanceInRange
    /\ BooksAgreeWhileClean

-----------------------------------------------------------------------------
(* Facts about the operators on rows.                                      *)

\* The kinds of request have different operations.
LEMMA JobKinds ==
    /\ EntityJob \intersect ReversalJob = {}
    /\ \A j \in EntityJob : j.account \in Account
    /\ \A j \in EntityJob : j.op \in {"credit", "debit"} => j.amount \in Nat
    /\ \A j \in EntityJob : j.op = "updateKyc" => j.kyc \in KycStatus
    /\ \A j \in EntityJob :
          j.op \in {"credit", "debit", "freeze", "unfreeze", "close", "updateKyc", "delete"}
    /\ \A j \in ReversalJob : j.debitAmount \in Nat /\ j.creditAmount \in Nat
    /\ \A j \in ReversalJob : j.op = "reverse"
  BY DEF EntityJob, ReversalJob, BalanceJob, StatusJob, KycJob, DeleteJob

\* An operation adds Change(j) to the balance and keeps the row well typed.
LEMMA MutatedRow ==
    ASSUME NEW j \in EntityJob, NEW e \in Row
    PROVE  /\ Change(j) \in Int
           /\ Mutated(j, e) \in Row
           /\ Mutated(j, e).balance = e.balance + Change(j)
           /\ Accepts(j, e) /\ e.balance >= 0 => Mutated(j, e).balance >= 0
<1> DEFINE st == StatusAfter(j, e.status)
           ky == IF j.op = "updateKyc" THEN j.kyc ELSE e.kyc
<1>1. Change(j) \in Int
  BY JobKinds DEF Change
<1>2. /\ e.balance \in Int /\ e.status \in Status
      /\ e.kyc \in KycStatus /\ e.deleted \in BOOLEAN
  BY DEF Row
<1>3. st \in Status
  BY <1>2 DEF StatusAfter, Status
<1>4. ky \in KycStatus
  BY <1>2, JobKinds
<1>5. Mutated(j, e) = [balance |-> e.balance + Change(j), status |-> st,
                       kyc |-> ky, deleted |-> e.deleted]
  BY DEF Mutated
<1>6. Mutated(j, e).balance = e.balance + Change(j)
  BY <1>5
<1>7. Mutated(j, e) \in Row
  BY <1>1, <1>2, <1>3, <1>4, <1>5 DEF Row
<1>8. Accepts(j, e) /\ e.balance >= 0 => e.balance + Change(j) >= 0
  BY <1>2, JobKinds DEF Accepts, Change
<1>. QED
  BY <1>1, <1>6, <1>7, <1>8

\* Updating the differing columns makes the row equal to the entity.
LEMMA OverlayDiffering ==
    ASSUME NEW w \in Row, NEW e \in Row
    PROVE  Overlay(w, e, Differing(e, w)) = e
  BY DEF Overlay, Differing, Column, Row

LEMMA OverlayRow ==
    ASSUME NEW w \in Row, NEW e \in Row, NEW cols \in SUBSET Column
    PROVE  /\ Overlay(w, e, cols) \in Row
           /\ Overlay(w, e, cols).balance =
                  IF "balance" \in cols THEN e.balance ELSE w.balance
  BY DEF Overlay, Row

LEMMA NoDifference ==
    ASSUME NEW w \in Row, NEW e \in Row, Differing(e, w) = {}
    PROVE  e.balance = w.balance
  BY DEF Differing, Column

\* A request is of one of the two kinds.
LEMMA RequestKind ==
    ASSUME TypeOK, NEW r \in Request
    PROVE  /\ job[r] \in EntityJob \/ job[r] \in ReversalJob
           /\ job[r] \in EntityJob => job[r].account \in Account
           /\ job[r] \in ReversalJob => job[r] \notin EntityJob
  BY ConstantsAssumption, JobKinds DEF TypeOK, Job

-----------------------------------------------------------------------------
(* The steps that only end a request.                                      *)

LEMMA InvInit == Init => IInv
<1> SUFFICES ASSUME Init PROVE IInv
  OBVIOUS
<1>1. TypeOK
  BY ConstantsAssumption
  DEF Init, TypeOK, NewRow, Row, Status, KycStatus, Column, Stage
<1>2. EntitySound /\ FreshEntity /\ LegsHeld
  BY DEF Init, EntitySound, FreshEntity, LegsHeld, Holding
<1>3. BalanceInRange /\ BooksAgreeWhileClean
  BY ConstantsAssumption DEF Init, NewRow, BalanceInRange, BooksAgreeWhileClean
<1>. QED
  BY <1>1, <1>2, <1>3 DEF IInv

\* Ending a request and changing nothing else keeps the invariant.
LEMMA InvFail ==
    ASSUME IInv, NEW r \in Request, Goto(r, "failed"),
           UNCHANGED <<row, lock, job, entity, columns, draft, fresh, clean, booked>>
    PROVE  IInv'
<1> USE DEF IInv, Goto
<1>1. TypeOK'
  BY DEF TypeOK, Stage
<1>2. EntitySound'
  BY DEF TypeOK, EntitySound, Holding
<1>3. FreshEntity'
  BY DEF TypeOK, FreshEntity
<1>4. LegsHeld'
  BY DEF TypeOK, LegsHeld, DebitLeg, CreditLeg
<1>5. BalanceInRange' /\ BooksAgreeWhileClean'
  BY DEF BalanceInRange, BooksAgreeWhileClean
<1>. QED
  BY <1>1, <1>2, <1>3, <1>4, <1>5

\* A rollback gives back the request's locks and no one else's.
LEMMA InvRollback ==
    ASSUME IInv, NEW r \in Request, Rollback(r)
    PROVE  IInv'
<1> USE DEF IInv, Goto, Rollback, Unlocked
<1>1. TypeOK'
  BY DEF TypeOK, Stage
<1>2. EntitySound'
  BY DEF TypeOK, EntitySound, Holding
<1>3. FreshEntity'
  BY DEF TypeOK, FreshEntity
<1>4. LegsHeld'
  BY DEF TypeOK, LegsHeld, DebitLeg, CreditLeg
<1>5. BalanceInRange' /\ BooksAgreeWhileClean'
  BY DEF BalanceInRange, BooksAgreeWhileClean
<1>. QED
  BY <1>1, <1>2, <1>3, <1>4, <1>5

-----------------------------------------------------------------------------
(* The steps of a request that works on an entity.                         *)

LEMMA InvFindAccount ==
    ASSUME IInv, NEW r \in Request, FindAccount(r)
    PROVE  IInv'
<1> DEFINE found == row[job[r].account]
<1> USE DEF IInv, Goto
<1>1. /\ job[r] \in EntityJob /\ found \in Row /\ found.balance >= 0
      /\ Accepts(job[r], found)
  BY RequestKind DEF FindAccount, TypeOK, BalanceInRange
<1>2. Mutated(job[r], found) \in Row /\ Mutated(job[r], found).balance >= 0
  BY <1>1, MutatedRow
<1>3. TypeOK'
  BY <1>1, <1>2 DEF TypeOK, FindAccount, Stage
<1>4. EntitySound'
  BY <1>1, <1>2 DEF TypeOK, EntitySound, Holding, FindAccount
<1>5. FreshEntity'
  BY DEF TypeOK, FreshEntity, FindAccount
<1>6. LegsHeld'
  BY DEF TypeOK, LegsHeld, DebitLeg, CreditLeg, FindAccount
<1>7. BalanceInRange' /\ BooksAgreeWhileClean'
  BY DEF BalanceInRange, BooksAgreeWhileClean, FindAccount
<1>. QED
  BY <1>3, <1>4, <1>5, <1>6, <1>7

LEMMA InvOtpVerified ==
    ASSUME IInv, NEW r \in Request, OtpVerified(r)
    PROVE  IInv'
<1> USE DEF IInv, Goto
<1>1. /\ job[r] \in EntityJob /\ entity[r] \in Row /\ entity[r].balance >= 0
      /\ job[r].op = "delete"
  BY DEF OtpVerified, TypeOK, EntitySound, Holding
<1>2. Mutated(job[r], entity[r]) \in Row /\ Mutated(job[r], entity[r]).balance >= 0
  BY <1>1, MutatedRow DEF Accepts
<1>3. TypeOK'
  BY <1>1, <1>2 DEF TypeOK, OtpVerified, Stage
<1>4. EntitySound'
  BY <1>1, <1>2 DEF TypeOK, EntitySound, Holding, OtpVerified
<1>5. FreshEntity'
  BY DEF TypeOK, FreshEntity, OtpVerified
<1>6. LegsHeld'
  BY DEF TypeOK, LegsHeld, DebitLeg, CreditLeg, OtpVerified
<1>7. BalanceInRange' /\ BooksAgreeWhileClean'
  BY DEF BalanceInRange, BooksAgreeWhileClean, OtpVerified
<1>. QED
  BY <1>3, <1>4, <1>5, <1>6, <1>7

LEMMA InvSaveSelect ==
    ASSUME IInv, NEW r \in Request, SaveSelect(r)
    PROVE  IInv'
<1> USE DEF IInv, Goto
<1>1. Differing(entity[r], row[job[r].account]) \in SUBSET Column
  BY DEF Differing
<1>2. TypeOK'
  BY <1>1 DEF TypeOK, SaveSelect, Stage
<1>3. EntitySound'
  BY DEF TypeOK, EntitySound, Holding, SaveSelect
<1>4. FreshEntity'
  BY DEF TypeOK, FreshEntity, SaveSelect
<1>5. LegsHeld'
  BY DEF TypeOK, LegsHeld, DebitLeg, CreditLeg, SaveSelect
<1>6. BalanceInRange' /\ BooksAgreeWhileClean'
  BY DEF BalanceInRange, BooksAgreeWhileClean, SaveSelect
<1>. QED
  BY <1>2, <1>3, <1>4, <1>5, <1>6

\* The balance a save leaves is its request's balance, and agrees with the
\* books unless the request was stale.
LEMMA InvSaveUnchanged ==
    ASSUME IInv, NEW r \in Request, SaveUnchanged(r)
    PROVE  IInv'
<1> DEFINE a == job[r].account
<1> USE DEF IInv, Goto
<1>1. /\ job[r] \in EntityJob /\ a \in Account /\ row[a] \in Row
      /\ entity[r] \in Row /\ entity[r].balance = row[a].balance
  BY RequestKind, NoDifference
  DEF SaveUnchanged, TypeOK, EntitySound, Holding
<1>2. Change(job[r]) \in Int
  BY <1>1, MutatedRow
<1>3. TypeOK'
  BY <1>1, <1>2
  DEF TypeOK, SaveUnchanged, AfterSave, BookChange, Taint, StaleBalance, Stage
<1>4. EntitySound'
  BY <1>1 DEF TypeOK, EntitySound, Holding, SaveUnchanged, AfterSave
<1>5. FreshEntity'
  BY DEF TypeOK, FreshEntity, SaveUnchanged, AfterSave
<1>6. LegsHeld'
  BY DEF TypeOK, LegsHeld, DebitLeg, CreditLeg, SaveUnchanged, AfterSave
<1>7. BalanceInRange'
  BY DEF BalanceInRange, SaveUnchanged
<1>8. clean'[a] => Change(job[r]) = 0
  <2>1. CASE fresh[r]
    <3>1. entity[r].balance = row[a].balance + Change(job[r])
      BY <1>1, <2>1, MutatedRow DEF SaveUnchanged, FreshEntity
    <3>. QED
      BY <1>1, <1>2, <3>1 DEF Row
  <2>2. CASE ~fresh[r] /\ clean'[a]
    BY <1>1, <2>2, JobKinds
    DEF SaveUnchanged, Taint, StaleBalance, TypeOK, Owned, Change
  <2>. QED
    BY <2>1, <2>2
<1>9. BooksAgreeWhileClean'
  BY <1>1, <1>2, <1>8
  DEF BooksAgreeWhileClean, SaveUnchanged, Taint, BookChange, TypeOK
<1>. QED
  BY <1>3, <1>4, <1>5, <1>6, <1>7, <1>9

\* An UPDATE writes a balance that is in range, leaves every locked row alone
\* and outdates the entities read from the row it writes.
LEMMA InvSaveUpdate ==
    ASSUME IInv, NEW r \in Request, SaveUpdate(r)
    PROVE  IInv'
<1> DEFINE a == job[r].account
           new == Overlay(row[a], entity[r], columns[r])
<1> USE DEF IInv, Goto
<1>1. /\ job[r] \in EntityJob /\ a \in Account /\ row[a] \in Row
      /\ entity[r] \in Row /\ entity[r].balance >= 0
      /\ columns[r] \in SUBSET Column
  BY RequestKind DEF SaveUpdate, TypeOK, EntitySound, Holding
<1>2. Change(job[r]) \in Int
  BY <1>1, MutatedRow
<1>3. /\ new \in Row
      /\ new.balance = IF "balance" \in columns[r] THEN entity[r].balance
                       ELSE row[a].balance
  BY <1>1, OverlayRow
<1>4. row' = [row EXCEPT ![a] = new]
  BY DEF SaveUpdate
<1>5. TypeOK'
  BY <1>1, <1>2, <1>3
  DEF TypeOK, SaveUpdate, AfterSave, BookChange, Taint, StaleBalance, Outdate, Stage
<1>6. EntitySound'
  BY <1>1 DEF TypeOK, EntitySound, Holding, SaveUpdate, AfterSave
<1>7. FreshEntity'
  <2> SUFFICES ASSUME NEW s \in Request, fresh'[s],
                      stage'[s] \in {"otp", "save", "update"}
               PROVE  /\ s # r /\ fresh[s] /\ stage[s] = stage'[s]
                      /\ row'[job[s].account] = row[job[s].account]
    BY DEF FreshEntity, SaveUpdate
  <2>1. s # r /\ fresh[s] /\ stage[s] = stage'[s]
    BY DEF SaveUpdate, AfterSave, Outdate, TypeOK
  <2>2. job[s] \in EntityJob
    BY <2>1 DEF EntitySound, Holding
  <2>. QED
    BY <1>4, <2>1, <2>2, RequestKind DEF SaveUpdate, Outdate, TypeOK
<1>8. LegsHeld'
  BY <1>1, <1>4, ConstantsAssumption
  DEF TypeOK, LegsHeld, DebitLeg, CreditLeg, SaveUpdate, AfterSave
<1>9. BalanceInRange'
  BY <1>1, <1>3, <1>4, ConstantsAssumption
  DEF BalanceInRange, SaveUpdate, Fits, TypeOK, Row
<1>10. clean'[a] => clean[a] /\ new.balance = row[a].balance + Change(job[r])
  <2>1. CASE fresh[r]
    <3>1. /\ entity[r].balance = row[a].balance + Change(job[r])
          /\ columns[r] = Differing(entity[r], row[a])
      BY <1>1, <2>1, MutatedRow DEF SaveUpdate, FreshEntity
    <3>2. new.balance = entity[r].balance
      BY <1>1, <3>1, OverlayDiffering
    <3>. QED
      BY <1>1, <3>1, <3>2 DEF SaveUpdate, Taint, TypeOK
  <2>2. CASE ~fresh[r] /\ clean'[a]
    <3>1. clean[a] /\ "balance" \notin columns[r] /\ "balance" \notin Owned(job[r])
      BY <1>1, <2>2 DEF SaveUpdate, Taint, StaleBalance, TypeOK
    <3>2. Change(job[r]) = 0
      BY <1>1, <3>1, JobKinds DEF Owned, Change
    <3>. QED
      BY <1>1, <1>3, <3>1, <3>2 DEF Row
  <2>. QED
    BY <2>1, <2>2
<1>11. BooksAgreeWhileClean'
  BY <1>1, <1>2, <1>4, <1>10
  DEF BooksAgreeWhileClean, SaveUpdate, Taint, BookChange, TypeOK
<1>. QED
  BY <1>5, <1>6, <1>7, <1>8, <1>9, <1>11

LEMMA InvSoftDelete ==
    ASSUME IInv, NEW r \in Request, SoftDelete(r)
    PROVE  IInv'
<1> DEFINE a == job[r].account
           new == [row[a] EXCEPT !.deleted = TRUE]
<1> USE DEF IInv, Goto
<1>1. job[r] \in EntityJob /\ a \in Account /\ row[a] \in Row
  BY RequestKind DEF SoftDelete, TypeOK, EntitySound, Holding
<1>2. new \in Row /\ new.balance = row[a].balance
  BY <1>1 DEF Row
<1>3. row' = [row EXCEPT ![a] = new]
  BY <1>1 DEF SoftDelete, TypeOK
<1>4. /\ stage[r] = "softDelete" /\ Goto(r, "done") /\ Outdate(r, {a})
      /\ lock[a] = NoRequest
      /\ UNCHANGED <<lock, job, entity, columns, draft, clean, booked>>
  BY DEF SoftDelete
<1>5. TypeOK'
  BY <1>1, <1>2, <1>3, <1>4 DEF TypeOK, Outdate, Stage
<1>6. EntitySound'
  BY <1>4 DEF TypeOK, EntitySound, Holding
<1>7. FreshEntity'
  <2> SUFFICES ASSUME NEW s \in Request, fresh'[s],
                      stage'[s] \in {"otp", "save", "update"}
               PROVE  /\ s # r /\ fresh[s] /\ stage[s] = stage'[s]
                      /\ row'[job[s].account] = row[job[s].account]
    BY <1>4 DEF FreshEntity
  <2>1. s # r /\ fresh[s] /\ stage[s] = stage'[s]
    BY <1>4 DEF Outdate, TypeOK
  <2>2. job[s] \in EntityJob
    BY <2>1 DEF EntitySound, Holding
  <2>. QED
    BY <1>3, <2>1, <2>2, <1>4, RequestKind DEF Outdate, TypeOK
<1>8. LegsHeld'
  BY <1>1, <1>2, <1>3, <1>4
  DEF TypeOK, LegsHeld, DebitLeg, CreditLeg
<1>9. BalanceInRange' /\ BooksAgreeWhileClean'
  BY <1>1, <1>2, <1>3, <1>4 DEF BalanceInRange, BooksAgreeWhileClean, TypeOK
<1>. QED
  BY <1>5, <1>6, <1>7, <1>8, <1>9

-----------------------------------------------------------------------------
(* The steps of a reversal.                                                *)

LEMMA InvLockDebit ==
    ASSUME IInv, NEW r \in Request, LockDebit(r)
    PROVE  IInv'
<1> DEFINE a == job[r].debit
           left == row[a].balance - job[r].debitAmount
<1> USE DEF IInv, Goto
<1>1. /\ stage[r] = "new" /\ job[r] \in ReversalJob /\ ValidReversal(job[r])
      /\ job[r].debitAmount \in Nat
  BY JobKinds DEF LockDebit, StartsReversal
<1>2. CASE a = NoAccount /\ SkipLeg(r, "lockCredit")
  <2> USE <1>1, <1>2 DEF SkipLeg
  <2>1. TypeOK'
    BY DEF TypeOK, Stage
  <2>2. EntitySound' /\ FreshEntity'
    BY DEF TypeOK, EntitySound, FreshEntity, Holding
  <2>3. LegsHeld'
    BY ConstantsAssumption DEF TypeOK, LegsHeld, DebitLeg, CreditLeg
  <2>4. BalanceInRange' /\ BooksAgreeWhileClean'
    BY DEF BalanceInRange, BooksAgreeWhileClean
  <2>. QED
    BY <2>1, <2>2, <2>3, <2>4
<1>3. CASE /\ a \in Account /\ row[a].balance >= job[r].debitAmount
           /\ TakeLeg(r, a, left, "lockCredit")
  <2> USE <1>1, <1>3 DEF TakeLeg
  <2>1. left \in Int
    BY DEF TypeOK, Row
  <2>2. TypeOK'
    BY <2>1 DEF TypeOK, Stage
  <2>3. EntitySound' /\ FreshEntity'
    BY DEF TypeOK, EntitySound, FreshEntity, Holding
  <2>4. LegsHeld'
    BY ConstantsAssumption DEF TypeOK, LegsHeld, DebitLeg, CreditLeg
  <2>5. BalanceInRange' /\ BooksAgreeWhileClean'
    BY DEF BalanceInRange, BooksAgreeWhileClean
  <2>. QED
    BY <2>2, <2>3, <2>4, <2>5
<1>. QED
  BY <1>2, <1>3 DEF LockDebit

LEMMA InvLockCredit ==
    ASSUME IInv, NEW r \in Request, LockCredit(r)
    PROVE  IInv'
<1> DEFINE a == job[r].credit
           sum == row[a].balance + job[r].creditAmount
<1> USE DEF IInv, Goto
<1>1. /\ stage[r] = "lockCredit" /\ job[r] \in ReversalJob
      /\ job[r].creditAmount \in Nat /\ job[r].debit # a
  BY JobKinds DEF LockCredit, LegsHeld, ValidReversal
<1>2. CASE a = NoAccount /\ SkipLeg(r, "commit")
  <2> USE <1>1, <1>2 DEF SkipLeg
  <2>1. TypeOK'
    BY DEF TypeOK, Stage
  <2>2. EntitySound' /\ FreshEntity'
    BY DEF TypeOK, EntitySound, FreshEntity, Holding
  <2>3. LegsHeld'
    BY ConstantsAssumption DEF TypeOK, LegsHeld, DebitLeg, CreditLeg
  <2>4. BalanceInRange' /\ BooksAgreeWhileClean'
    BY DEF BalanceInRange, BooksAgreeWhileClean
  <2>. QED
    BY <2>1, <2>2, <2>3, <2>4
<1>3. CASE a \in Account /\ Fits(sum) /\ TakeLeg(r, a, sum, "commit")
  <2> USE <1>1, <1>3 DEF TakeLeg, Fits
  <2>1. sum \in Int
    BY DEF TypeOK, Row
  <2>2. TypeOK'
    BY <2>1 DEF TypeOK, Stage
  <2>3. EntitySound' /\ FreshEntity'
    BY DEF TypeOK, EntitySound, FreshEntity, Holding
  <2>4. LegsHeld'
    BY ConstantsAssumption DEF TypeOK, LegsHeld, DebitLeg, CreditLeg
  <2>5. BalanceInRange' /\ BooksAgreeWhileClean'
    BY DEF BalanceInRange, BooksAgreeWhileClean
  <2>. QED
    BY <2>2, <2>3, <2>4, <2>5
<1>. QED
  BY <1>2, <1>3 DEF LockCredit

\* What a reversal writes on a leg's row is the row's balance plus what the
\* reversal owes it, and it stays in range.
LEMMA CommittedBalances ==
    ASSUME IInv, NEW r \in Request, stage[r] = "commit", NEW a \in Account
    PROVE  /\ ReversalChange(job[r], a) \in Int
           /\ a \in Legs(job[r]) =>
                /\ lock[a] = r
                /\ draft[r][a] = row[a].balance + ReversalChange(job[r], a)
                /\ draft[r][a] \in 0..MaxBalance
           /\ a \notin Legs(job[r]) => ReversalChange(job[r], a) = 0
<1> USE DEF IInv
<1>1. /\ job[r] \in ReversalJob /\ job[r].debit # job[r].credit
      /\ job[r].debitAmount \in Nat /\ job[r].creditAmount \in Nat
      /\ row[a] \in Row /\ row[a].balance \in 0..MaxBalance
      /\ MaxBalance \in Nat
  BY JobKinds, ConstantsAssumption
  DEF LegsHeld, ValidReversal, TypeOK, BalanceInRange
<1>2. CASE a = job[r].debit
  BY <1>1, <1>2 DEF LegsHeld, DebitLeg, Legs, ReversalChange
<1>3. CASE a = job[r].credit
  BY <1>1, <1>3 DEF LegsHeld, CreditLeg, Legs, ReversalChange
<1>4. CASE a # job[r].debit /\ a # job[r].credit
  BY <1>1, <1>4 DEF Legs, ReversalChange
<1>. QED
  BY <1>2, <1>3, <1>4

LEMMA InvCommit ==
    ASSUME IInv, NEW r \in Request, Commit(r)
    PROVE  IInv'
<1> DEFINE new(a) == IF a \in Legs(job[r])
                     THEN [row[a] EXCEPT !.balance = draft[r][a]] ELSE row[a]
<1> USE DEF IInv, Goto
<1>1. /\ stage[r] = "commit" /\ Goto(r, "done") /\ Outdate(r, Legs(job[r]))
      /\ row' = [a \in Account |-> new(a)] /\ lock' = Unlocked(r)
      /\ booked' = [a \in Account |-> booked[a] + ReversalChange(job[r], a)]
      /\ UNCHANGED <<job, entity, columns, draft, clean>>
  BY DEF Commit
<1>2. \A a \in Account :
          /\ new(a) \in Row
          /\ new(a).balance = row[a].balance + ReversalChange(job[r], a)
          /\ new(a).balance \in 0..MaxBalance
          /\ ReversalChange(job[r], a) \in Int
  <2> SUFFICES ASSUME NEW a \in Account
               PROVE  /\ new(a) \in Row
                      /\ new(a).balance = row[a].balance + ReversalChange(job[r], a)
                      /\ new(a).balance \in 0..MaxBalance
                      /\ ReversalChange(job[r], a) \in Int
    OBVIOUS
  <2>1. row[a] \in Row /\ row[a].balance \in 0..MaxBalance /\ draft[r][a] \in Int
    BY DEF TypeOK, BalanceInRange
  <2>. QED
    BY <1>1, <2>1, CommittedBalances DEF Row
<1>3. \A a \in Account : a \in Legs(job[r]) => lock[a] = r
  BY <1>1, CommittedBalances
<1> HIDE DEF new
<1>4. TypeOK'
  BY <1>1, <1>2 DEF TypeOK, Unlocked, Outdate, Stage
<1>5. EntitySound'
  BY <1>1 DEF TypeOK, EntitySound, Holding
<1>6. FreshEntity'
  <2> SUFFICES ASSUME NEW s \in Request, fresh'[s],
                      stage'[s] \in {"otp", "save", "update"}
               PROVE  /\ s # r /\ fresh[s] /\ stage[s] = stage'[s]
                      /\ row'[job[s].account] = row[job[s].account]
    BY <1>1 DEF FreshEntity
  <2>1. s # r /\ fresh[s] /\ stage[s] = stage'[s]
    BY <1>1 DEF Outdate, TypeOK
  <2>2. job[s] \in EntityJob /\ job[s].account \in Account
    BY <2>1, RequestKind DEF EntitySound, Holding
  <2>3. job[s].account \notin Legs(job[r])
    BY <1>1, <2>1, <2>2 DEF Outdate
  <2>. QED
    BY <1>1, <2>1, <2>2, <2>3 DEF new
<1>7. LegsHeld'
  <2>1. \A a \in Account : lock[a] # r => row'[a] = row[a] /\ lock'[a] = lock[a]
    BY <1>1, <1>3 DEF new, Unlocked
  <2>. QED
    BY <1>1, <2>1 DEF TypeOK, LegsHeld, DebitLeg, CreditLeg
<1>8. BalanceInRange' /\ BooksAgreeWhileClean'
  BY <1>1, <1>2 DEF BalanceInRange, BooksAgreeWhileClean, TypeOK
<1>. QED
  BY <1>4, <1>5, <1>6, <1>7, <1>8

-----------------------------------------------------------------------------
(* The theorems.                                                           *)

LEMMA InvNext == IInv /\ [Next]_vars => IInv'
<1> SUFFICES ASSUME IInv, [Next]_vars PROVE IInv'
  OBVIOUS
<1>1. ASSUME NEW r \in Request, Serve(r) PROVE IInv'
  <2>1. CASE FindMissing(r)
    BY <2>1, InvFail DEF FindMissing
  <2>2. CASE FindRefused(r)
    BY <2>2, InvFail DEF FindRefused
  <2>3. CASE FindAccount(r)
    BY <2>3, InvFindAccount
  <2>4. CASE OtpVerified(r)
    BY <2>4, InvOtpVerified
  <2>5. CASE OtpRejected(r)
    BY <2>5, InvFail DEF OtpRejected
  <2>6. CASE SaveSelect(r)
    BY <2>6, InvSaveSelect
  <2>7. CASE SaveUnchanged(r)
    BY <2>7, InvSaveUnchanged
  <2>8. CASE SaveUpdate(r)
    BY <2>8, InvSaveUpdate
  <2>9. CASE SaveOverflow(r)
    BY <2>9, InvFail DEF SaveOverflow
  <2>10. CASE SoftDelete(r)
    BY <2>10, InvSoftDelete
  <2>11. CASE ReversalRefused(r)
    BY <2>11, InvFail DEF ReversalRefused
  <2>12. CASE LockDebit(r)
    BY <2>12, InvLockDebit
  <2>13. CASE LockCredit(r)
    BY <2>13, InvLockCredit
  <2>14. CASE Commit(r)
    BY <2>14, InvCommit
  <2>15. CASE DebitRefused(r) \/ CreditRefused(r) \/ DeadlockAbort(r)
    BY <2>15, InvRollback DEF DebitRefused, CreditRefused, DeadlockAbort
  <2>. QED
    BY <1>1, <2>1, <2>2, <2>3, <2>4, <2>5, <2>6, <2>7, <2>8, <2>9, <2>10,
       <2>11, <2>12, <2>13, <2>14, <2>15 DEF Serve
<1>2. ASSUME NEW r \in Request, Abort(r) PROVE IInv'
  BY <1>2, InvRollback DEF Abort
<1>3. CASE UNCHANGED vars
  BY <1>3
  DEF vars, IInv, TypeOK, EntitySound, FreshEntity, LegsHeld, DebitLeg, CreditLeg,
      BalanceInRange, BooksAgreeWhileClean
<1>. QED
  BY <1>1, <1>2, <1>3 DEF Next, Idle

\* The invariant holds in every reachable state.
THEOREM Invariance == Spec => []IInv
  BY InvInit, InvNext, PTL DEF Spec

\* Every variable of the module keeps its type.
THEOREM TypeCorrect == Spec => []TypeOK
<1>1. IInv => TypeOK
  BY DEF IInv
<1>. QED
  BY <1>1, Invariance, PTL

\* No write path of account-service makes a balance negative, or larger than
\* its column, in any interleaving of any number of requests, stale saves,
\* overlapping reversals and crashes included.
THEOREM BalancesStayInRange == Spec => []BalanceInRange
<1>1. IInv => BalanceInRange
  BY DEF IInv
<1>. QED
  BY <1>1, Invariance, PTL

\* Only stale saves lose or create money.
THEOREM OnlyStaleSavesLoseMoney == Spec => []BooksAgreeWhileClean
<1>1. IInv => BooksAgreeWhileClean
  BY DEF IInv
<1>. QED
  BY <1>1, Invariance, PTL
-----------------------------------------------------------------------------
(* Soft-deleted rows, and what a save writes.                              *)

\* The rows a reversal has locked by now.
Taken(r) ==
    IF stage[r] = "lockCredit" THEN {job[r].debit} \intersect Account
    ELSE IF stage[r] = "commit" THEN Legs(job[r])
    ELSE {}

\* A fresh entity is of a row that is not deleted, and a reversal's rows are not.
RowsAlive ==
    \A r \in Request :
        /\ fresh[r] /\ stage[r] \in Holding => ~row[job[r].account].deleted
        /\ \A a \in Taken(r) : ~row[a].deleted

LEMMA TakenLocked ==
    ASSUME IInv, NEW r \in Request, NEW a \in Taken(r)
    PROVE  a \in Account /\ lock[a] = r
  BY DEF IInv, LegsHeld, DebitLeg, CreditLeg, Taken, Legs

\* A statement that writes some rows, none of them locked by another, and
\* outdates the entities of others read from them.
LEMMA AliveWritten ==
    ASSUME IInv, RowsAlive, NEW r \in Request, NEW written \in SUBSET Account,
           Outdate(r, written), UNCHANGED job,
           \A a \in Account \ written : row'[a] = row[a],
           \A a \in written : lock[a] \in {r, NoRequest},
           NEW to \in Stage \ (Holding \union {"lockCredit", "commit"}), Goto(r, to)
    PROVE  RowsAlive'
<1>1. /\ stage'[r] \notin Holding /\ Taken(r)' = {}
      /\ \A s \in Request \ {r} : stage'[s] = stage[s]
  BY DEF IInv, TypeOK, Goto, Taken
<1>2. ASSUME NEW s \in Request, fresh'[s], stage'[s] \in Holding
      PROVE  ~row'[job'[s].account].deleted
  <2>1. s # r /\ fresh[s] /\ stage[s] \in Holding
    BY <1>1, <1>2 DEF Outdate
  <2>2. job[s] \in EntityJob /\ job[s].account \in Account
    BY <2>1, RequestKind DEF IInv, EntitySound
  <2>. QED
    BY <1>2, <2>1, <2>2 DEF RowsAlive, Outdate
<1>3. ASSUME NEW s \in Request, NEW a \in Taken(s)' PROVE ~row'[a].deleted
  <2>1. s # r /\ a \in Taken(s)
    BY <1>1, <1>3 DEF Taken
  <2>2. a \in Account /\ lock[a] = s
    BY <2>1, TakenLocked
  <2>3. a \notin written
    BY <2>1, <2>2, ConstantsAssumption
  <2>. QED
    BY <2>1, <2>2, <2>3 DEF RowsAlive
<1>. QED
  BY <1>2, <1>3 DEF RowsAlive

LEMMA AliveWriters ==
    ASSUME IInv, RowsAlive, NEW r \in Request,
           SaveUpdate(r) \/ SoftDelete(r) \/ Commit(r)
    PROVE  RowsAlive'
<1> DEFINE a == job[r].account
<1>1. CASE SaveUpdate(r)
  <2>1. a \in Account /\ lock[a] = NoRequest
    BY <1>1, RequestKind DEF IInv, SaveUpdate, EntitySound, Holding
  <2>2. /\ Goto(r, AfterSave(r)) /\ Outdate(r, {a}) /\ UNCHANGED job
        /\ \A b \in Account \ {a} : row'[b] = row[b]
    BY <1>1 DEF SaveUpdate, IInv, TypeOK
  <2>3. AfterSave(r) \in Stage \ (Holding \union {"lockCredit", "commit"})
    BY DEF AfterSave, Stage, Holding
  <2>. QED
    BY <2>1, <2>2, <2>3, AliveWritten
<1>2. CASE SoftDelete(r)
  <2>1. a \in Account /\ lock[a] = NoRequest
    BY <1>2, RequestKind DEF IInv, SoftDelete, EntitySound, Holding
  <2>2. /\ Goto(r, "done") /\ Outdate(r, {a}) /\ UNCHANGED job
        /\ \A b \in Account \ {a} : row'[b] = row[b]
    BY <1>2 DEF SoftDelete, IInv, TypeOK
  <2>3. "done" \in Stage \ (Holding \union {"lockCredit", "commit"})
    BY DEF Stage, Holding
  <2>. QED
    BY <2>1, <2>2, <2>3, AliveWritten
<1>3. CASE Commit(r)
  <2>1. Legs(job[r]) \in SUBSET Account /\ \A b \in Legs(job[r]) : lock[b] = r
    BY <1>3, CommittedBalances DEF Commit, Legs
  <2>2. /\ Goto(r, "done") /\ Outdate(r, Legs(job[r])) /\ UNCHANGED job
        /\ \A b \in Account \ Legs(job[r]) : row'[b] = row[b]
    BY <1>3 DEF Commit
  <2>3. "done" \in Stage \ (Holding \union {"lockCredit", "commit"})
    BY DEF Stage, Holding
  <2>. QED
    BY <2>1, <2>2, <2>3, AliveWritten
<1>. QED
  BY <1>1, <1>2, <1>3

\* An entity is loaded, or a lock taken, only of a row that is not deleted.
LEMMA AliveNext == IInv /\ RowsAlive /\ [Next]_vars => RowsAlive'
<1> SUFFICES ASSUME IInv, RowsAlive, [Next]_vars PROVE RowsAlive'
  OBVIOUS
<1> USE DEF IInv, TypeOK, Goto, RowsAlive, Taken, Holding
<1>1. ASSUME NEW r \in Request, SaveUpdate(r) \/ SoftDelete(r) \/ Commit(r)
      PROVE  RowsAlive'
  BY <1>1, AliveWriters
<1>2. ASSUME NEW r \in Request, FindAccount(r) PROVE RowsAlive'
  BY <1>2 DEF FindAccount
<1>3. ASSUME NEW r \in Request, OtpVerified(r) \/ SaveSelect(r) PROVE RowsAlive'
  BY <1>3 DEF OtpVerified, SaveSelect
<1>4. ASSUME NEW r \in Request, LockDebit(r) PROVE RowsAlive'
  <2>1. /\ stage[r] = "new" /\ Goto(r, "lockCredit")
        /\ job[r].debit \in Account => ~row[job[r].debit].deleted
        /\ UNCHANGED <<row, job, fresh>>
    BY <1>4, ConstantsAssumption DEF LockDebit, StartsReversal, TakeLeg, SkipLeg
  <2>. QED
    BY <2>1 DEF Legs
<1>5. ASSUME NEW r \in Request, LockCredit(r) PROVE RowsAlive'
  <2>1. /\ stage[r] = "lockCredit" /\ Goto(r, "commit")
        /\ job[r].credit \in Account => ~row[job[r].credit].deleted
        /\ UNCHANGED <<row, job, fresh>>
    BY <1>5, ConstantsAssumption DEF LockCredit, TakeLeg, SkipLeg
  <2>. QED
    BY <2>1 DEF Legs
<1>6. ASSUME NEW r \in Request,
             \/ FindMissing(r) \/ FindRefused(r) \/ OtpRejected(r) \/ SaveUnchanged(r)
             \/ SaveOverflow(r) \/ ReversalRefused(r) \/ DebitRefused(r)
             \/ CreditRefused(r) \/ DeadlockAbort(r) \/ Abort(r)
      PROVE  RowsAlive'
  <2>1. /\ \E to \in {"softDelete", "done", "failed"} : Goto(r, to)
        /\ UNCHANGED <<row, job, fresh>>
    BY <1>6
    DEF FindMissing, FindRefused, OtpRejected, SaveUnchanged, AfterSave, SaveOverflow,
        ReversalRefused, DebitRefused, CreditRefused, DeadlockAbort, Abort, Rollback
  <2>. QED
    BY <2>1
<1>7. CASE UNCHANGED vars
  BY <1>7 DEF vars, Legs
<1>. QED
  BY <1>1, <1>2, <1>3, <1>4, <1>5, <1>6, <1>7 DEF Next, Idle, Serve

LEMMA AliveInvariance == Spec => [](IInv /\ RowsAlive)
<1>1. Init => RowsAlive
  BY DEF Init, RowsAlive, Taken, Holding
<1>. QED
  BY <1>1, InvInit, InvNext, AliveNext, PTL DEF Spec

\* The row as an UPDATE of a fresh entity leaves it.
LEMMA FreshUpdate ==
    ASSUME IInv, NEW r \in Request, SaveUpdate(r), fresh[r]
    PROVE  row' = [row EXCEPT ![job[r].account] = Mutated(job[r], @)]
<1> DEFINE a == job[r].account
<1>1. /\ a \in Account /\ row[a] \in Row /\ entity[r] \in Row
      /\ row' = [row EXCEPT ![a] = Overlay(row[a], entity[r], columns[r])]
  BY RequestKind DEF IInv, SaveUpdate, TypeOK, EntitySound, Holding
<1>2. /\ entity[r] = Mutated(job[r], row[a])
      /\ columns[r] = Differing(entity[r], row[a])
  BY DEF IInv, SaveUpdate, FreshEntity
<1>. QED
  BY <1>1, <1>2, OverlayDiffering

\* An operation leaves the columns it is not about, and the mark of a deletion.
LEMMA MutatedOwned ==
    ASSUME NEW j \in EntityJob, NEW e \in Row
    PROVE  /\ \A c \in Column : Mutated(j, e)[c] # e[c] => c \in Owned(j)
           /\ Mutated(j, e).deleted = e.deleted
<1>1. j.op \notin {"credit", "debit"} => Mutated(j, e).balance = e.balance
  BY JobKinds DEF Mutated, Change, Row
<1>2. j.op # "updateKyc" => Mutated(j, e).kyc = e.kyc
  BY DEF Mutated
<1>3. j.op \in {"credit", "debit", "updateKyc"} => Mutated(j, e).status = e.status
  BY DEF Mutated, StatusAfter
<1>4. Mutated(j, e).deleted = e.deleted
  BY DEF Mutated
<1>. QED
  BY <1>1, <1>2, <1>3, <1>4 DEF Column, Owned

\* Only the UPDATE of a save takes a request from there to its end.
LEMMA OnlySaveEnds ==
    ASSUME IInv, [Next]_vars, NEW r \in Request, stage[r] = "update",
           stage'[r] \in {"done", "softDelete"}
    PROVE  SaveUpdate(r)
<1> USE DEF IInv, TypeOK, Goto
<1>1. ASSUME NEW s \in Request, Serve(s), s # r PROVE FALSE
  <2>1. \E to \in Stage : Goto(s, to)
    BY <1>1
    DEF Serve, FindMissing, FindRefused, FindAccount, OtpVerified, OtpRejected,
        SaveSelect, SaveUnchanged, AfterSave, SaveUpdate, SaveOverflow, SoftDelete,
        ReversalRefused, LockDebit, DebitRefused, LockCredit, CreditRefused, Commit,
        DeadlockAbort, Rollback, TakeLeg, SkipLeg, Stage
  <2>. QED
    BY <1>1, <2>1
<1>2. ASSUME NEW s \in Request, Abort(s) PROVE FALSE
  BY <1>2 DEF Abort, Rollback
<1>3. ASSUME Serve(r), ~SaveUpdate(r) PROVE FALSE
  <2>1. CASE SaveOverflow(r) \/ DeadlockAbort(r)
    BY <2>1 DEF SaveOverflow, DeadlockAbort, Rollback
  <2>2. CASE FindMissing(r) \/ FindRefused(r) \/ FindAccount(r) \/ OtpVerified(r)
             \/ OtpRejected(r) \/ SaveSelect(r) \/ SaveUnchanged(r) \/ SoftDelete(r)
    BY <2>2
    DEF FindMissing, FindRefused, FindAccount, OtpVerified, OtpRejected, SaveSelect,
        SaveUnchanged, SoftDelete
  <2>3. CASE ReversalRefused(r) \/ LockDebit(r) \/ DebitRefused(r)
             \/ LockCredit(r) \/ CreditRefused(r) \/ Commit(r)
    BY <2>3
    DEF ReversalRefused, LockDebit, StartsReversal, DebitRefused, LockCredit,
        CreditRefused, Commit
  <2>. QED
    BY <1>3, <2>1, <2>2, <2>3 DEF Serve
<1>. QED
  BY <1>1, <1>2, <1>3 DEF Next, Idle, vars

\* A save of a fresh entity is as surgical as an UPDATE of the operation's own
\* columns would be, though it is given the whole entity.
THEOREM FreshSaves == Spec => FreshSavesAreSurgical
<1> DEFINE Surgical ==
        \A r \in Request :
            stage[r] = "update" /\ stage'[r] \in {"done", "softDelete"} /\ fresh[r]
                => ChangedColumns(job[r].account) \subseteq Owned(job[r])
<1>1. ASSUME IInv, [Next]_vars, NEW r \in Request,
             stage[r] = "update", stage'[r] \in {"done", "softDelete"}, fresh[r]
      PROVE  ChangedColumns(job[r].account) \subseteq Owned(job[r])
  <2>1. SaveUpdate(r)
    BY <1>1, OnlySaveEnds
  <2>2. /\ job[r] \in EntityJob /\ job[r].account \in Account
        /\ row[job[r].account] \in Row
    BY <2>1, <1>1, RequestKind DEF IInv, SaveUpdate, TypeOK, EntitySound, Holding
  <2>3. row'[job[r].account] = Mutated(job[r], row[job[r].account])
    BY <1>1, <2>1, <2>2, FreshUpdate DEF IInv, TypeOK
  <2>. QED
    BY <2>2, <2>3, MutatedOwned DEF ChangedColumns
<1>2. IInv /\ [Next]_vars => [Surgical]_vars
  BY <1>1
<1>. QED
  BY <1>2, Invariance, PTL DEF Spec, FreshSavesAreSurgical

\* A request that reads an account after its deletion never writes it, nor does a
\* deletion or a reversal: only entities loaded before are saved over it.
THEOREM DeletedRowsStand == Spec => DeletedRowsOnlyWrittenStale
<1> DEFINE OnlyStale ==
        \A a \in Account :
            row[a].deleted /\ row'[a] # row[a]
                => \E r \in Request :
                       /\ job[r] \in EntityJob /\ job[r].account = a
                       /\ stage[r] = "update" /\ ~fresh[r]
<1>1. ASSUME IInv, RowsAlive, [Next]_vars, NEW a \in Account, row[a].deleted,
             row'[a] # row[a]
      PROVE  \E r \in Request :
                 /\ job[r] \in EntityJob /\ job[r].account = a
                 /\ stage[r] = "update" /\ ~fresh[r]
  <2>1. PICK r \in Request : SaveUpdate(r) \/ SoftDelete(r) \/ Commit(r)
    BY <1>1
    DEF Next, Idle, Serve, Abort, Rollback, vars, FindMissing, FindRefused, FindAccount,
        OtpVerified, OtpRejected, SaveSelect, SaveUnchanged, SaveOverflow,
        ReversalRefused, LockDebit, DebitRefused, LockCredit, CreditRefused,
        DeadlockAbort, TakeLeg, SkipLeg
  <2>2. CASE SaveUpdate(r)
    <3>1. job[r] \in EntityJob /\ stage[r] = "update" /\ a = job[r].account
      BY <1>1, <2>2 DEF IInv, TypeOK, SaveUpdate, EntitySound, Holding
    <3>. QED
      BY <1>1, <3>1 DEF RowsAlive, Holding
  <2>3. CASE SoftDelete(r)
    BY <1>1, <2>3 DEF SoftDelete, IInv, TypeOK, Row
  <2>4. CASE Commit(r)
    BY <1>1, <2>4 DEF Commit, RowsAlive, Taken
  <2>. QED
    BY <2>1, <2>2, <2>3, <2>4
<1>2. IInv /\ RowsAlive /\ [Next]_vars => [OnlyStale]_vars
  BY <1>1
<1>. QED
  BY <1>2, AliveInvariance, PTL DEF Spec, DeletedRowsOnlyWrittenStale

-----------------------------------------------------------------------------
(* AccountRows implements AccountBook.                                     *)

Reversals == {r \in Request : job[r] \in ReversalJob /\ stage[r] = "done"}

\* What the other requests do is a replacement of one balance, or nothing.
LEMMA BookStutter ==
    ASSUME UNCHANGED job, Reversals' = Reversals,
           \A a \in Account : row'[a].balance = row[a].balance
    PROVE  UNCHANGED Book!bookVars
  BY DEF Book!bookVars, Reversals

LEMMA BookInits == Init => Book!BookInit
<1> SUFFICES ASSUME Init PROVE Book!BookInit
  OBVIOUS
<1>1. \A a \in Account : row[a].balance \in 0..MaxBalance
  BY ConstantsAssumption DEF Init, NewRow
<1>2. ASSUME NEW r \in Request, job[r] \in ReversalJob, NEW a \in Account
      PROVE  ReversalChange(job[r], a) \in Int
  BY <1>2, JobKinds DEF ReversalChange
<1>. QED
  BY <1>1, <1>2 DEF Init, Book!BookInit, Book!Balances

\* A save of one account.
LEMMA BookReplace ==
    ASSUME IInv, IInv', NEW r \in Request, SaveUpdate(r)
    PROVE  Book!BookNext
<1>1. job[r] \in EntityJob /\ job[r].account \in Account
  BY RequestKind DEF IInv, SaveUpdate, EntitySound, Holding
<1>2. PICK a \in Account, b \in 0..MaxBalance :
          a = job[r].account /\ b = row'[a].balance
  BY <1>1 DEF IInv, BalanceInRange
<1>3. UNCHANGED job /\ Reversals' = Reversals
  BY <1>1, JobKinds DEF SaveUpdate, Goto, Reversals, IInv, TypeOK
<1>4. \A c \in Account : row'[c].balance = IF c = a THEN b ELSE row[c].balance
  BY <1>1, <1>2 DEF SaveUpdate, IInv, TypeOK
<1>5. Book!Replace(a, b)
  BY <1>3, <1>4 DEF Book!Replace, Reversals
<1>. QED
  BY <1>5 DEF Book!BookNext

\* The commit of a reversal.
LEMMA BookSettle ==
    ASSUME IInv, IInv', NEW r \in Request, Commit(r)
    PROVE  Book!BookNext
<1> DEFINE owed == [s \in Request |-> [a \in Account |->
                       IF job[s] \in ReversalJob THEN ReversalChange(job[s], a) ELSE 0]]
<1>1. /\ stage[r] = "commit" /\ job[r] \in ReversalJob /\ UNCHANGED job
      /\ r \notin Reversals /\ Reversals' = Reversals \union {r}
  BY DEF Commit, Goto, Reversals, IInv, TypeOK, LegsHeld
<1>2. ASSUME NEW a \in Account
      PROVE  /\ row'[a].balance = row[a].balance + ReversalChange(job[r], a)
             /\ row'[a].balance \in 0..MaxBalance
  <2>1. row[a] \in Row /\ row[a].balance \in Int
    BY DEF IInv, TypeOK, Row
  <2>. QED
    BY <1>1, <2>1, CommittedBalances DEF Commit, IInv, BalanceInRange, Row
<1>3. Book!Settle(r)
  BY <1>1, <1>2 DEF Book!Settle, Book!Balances, Reversals
<1>. QED
  BY <1>3 DEF Book!BookNext

LEMMA BookStep ==
    ASSUME IInv, IInv', [Next]_vars
    PROVE  [Book!BookNext]_Book!bookVars
<1>1. ASSUME NEW r \in Request, SaveUpdate(r) PROVE Book!BookNext
  BY <1>1, BookReplace
<1>2. ASSUME NEW r \in Request, Commit(r) PROVE Book!BookNext
  BY <1>2, BookSettle
<1>3. ASSUME NEW r \in Request, SoftDelete(r) \/ SaveUnchanged(r)
      PROVE  UNCHANGED Book!bookVars
  <2>1. job[r] \notin ReversalJob
    BY <1>3, JobKinds DEF IInv, EntitySound, Holding, SoftDelete, SaveUnchanged
  <2>2. UNCHANGED job /\ Reversals' = Reversals
    BY <1>3, <2>1
    DEF IInv, TypeOK, SoftDelete, SaveUnchanged, Goto, Reversals
  <2>3. \A a \in Account : row'[a].balance = row[a].balance
    <3>1. CASE SoftDelete(r)
      <4>1. row' = [row EXCEPT ![job[r].account] = [@ EXCEPT !.deleted = TRUE]]
        BY <3>1 DEF SoftDelete, IInv, TypeOK
      <4>. QED
        BY <4>1 DEF IInv, TypeOK, Row
    <3>2. CASE SaveUnchanged(r)
      BY <3>2 DEF SaveUnchanged
    <3>. QED
      BY <1>3, <3>1, <3>2
  <2>. QED
    BY <2>2, <2>3, BookStutter
<1>4. ASSUME NEW r \in Request,
             \/ FindMissing(r) \/ FindRefused(r) \/ FindAccount(r) \/ OtpVerified(r)
             \/ OtpRejected(r) \/ SaveSelect(r) \/ SaveOverflow(r) \/ ReversalRefused(r)
             \/ LockDebit(r) \/ DebitRefused(r) \/ LockCredit(r) \/ CreditRefused(r)
             \/ DeadlockAbort(r) \/ Abort(r)
      PROVE  UNCHANGED Book!bookVars
  <2>1. stage[r] # "done"
    BY <1>4
    DEF FindMissing, FindRefused, FindAccount, OtpVerified, OtpRejected, SaveSelect,
        SaveOverflow, ReversalRefused, LockDebit, StartsReversal, DebitRefused,
        LockCredit, CreditRefused, DeadlockAbort, Deadlocked, WaitsFor, Abort, Finished
  <2>2. /\ \E to \in Stage \ {"done"} : Goto(r, to)
        /\ UNCHANGED <<row, job>>
    BY <1>4
    DEF Stage, FindMissing, FindRefused, FindAccount, OtpVerified, OtpRejected,
        SaveSelect, SaveOverflow, ReversalRefused, LockDebit, DebitRefused, LockCredit,
        CreditRefused, DeadlockAbort, Abort, Rollback, TakeLeg, SkipLeg
  <2>3. Reversals' = Reversals
    BY <2>1, <2>2 DEF Goto, Reversals, IInv, TypeOK
  <2>. QED
    BY <2>2, <2>3, BookStutter
<1>5. CASE UNCHANGED vars
  BY <1>5, BookStutter DEF vars, Reversals
<1>. QED
  BY <1>1, <1>2, <1>3, <1>4, <1>5 DEF Next, Idle, Serve

\* What the other services rely on: whatever requests run, balances change one
\* at a time, or by a whole reversal, once, on the balances of that moment.
THEOREM Refinement == Spec => ImplementsAccountBook
<1>1. IInv /\ IInv' /\ [Next]_vars => [Book!BookNext]_Book!bookVars
  BY BookStep
<1>. QED
  BY <1>1, BookInits, Invariance, PTL DEF Spec, ImplementsAccountBook, Book!BookSpec
=============================================================================
