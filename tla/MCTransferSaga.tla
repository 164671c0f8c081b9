---------------------------- MODULE MCTransferSaga ----------------------------
(* TransferSaga on two accounts. *)
EXTENDS TransferSaga, TLC

CONSTANTS a1, a2, t1, t2, v1, v2

\* 100.0000 costs 0.1000 to transfer, a withdrawal costs 1.5000.
Transfer(from, to, n) == [type |-> "transfer", from |-> from, to |-> to, amount |-> n]
Deposit(to, n) == [type |-> "deposit", from |-> NoAccount, to |-> to, amount |-> n]
Withdrawal(from, n) == [type |-> "withdrawal", from |-> from, to |-> NoAccount, amount |-> n]

\* One transfer of 100 can be paid, and not two; or all the limit allows.
MCOpening == (a1 :> 1500000) @@ (a2 :> 1500000)
RichOpening == (a1 :> 9000000) @@ (a2 :> 0)

AllTypes ==
    {Transfer(a1, a2, 1000000), Deposit(a2, 1000000), Withdrawal(a1, 1000000)}
PairOffered == AllTypes \union {Transfer(a2, a1, 500000)}
OneTransfer == {Transfer(a1, a2, 1000000)}

TransactionSymmetry == Permutations(Transaction)
=============================================================================
