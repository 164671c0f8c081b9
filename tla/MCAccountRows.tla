---------------------------- MODULE MCAccountRows ----------------------------
(* AccountRows on two accounts, with three requests at a time. *)
EXTENDS AccountRows, TLC

CONSTANTS a1, a2, r1, r2, r3

Money(op, a, n) == [op |-> op, account |-> a, amount |-> n]
Admin(op, a) == [op |-> op, account |-> a]
Reversal(d, x, c, y) ==
    [op |-> "reverse", debit |-> d, debitAmount |-> x,
     credit |-> c, creditAmount |-> y]

MCOpening == (a1 :> 2) @@ (a2 :> 1)

\* Amounts at the boundaries: zero, the whole balance, beyond the column.
BalanceRequests ==
    {Money("credit", a1, 1), Money("debit", a1, 2), Money("debit", a1, 0),
     Money("debit", a2, 1), Money("credit", a1, 3)}

EntityRequests ==
    {Admin("freeze", a1), Admin("unfreeze", a1), Admin("close", a1),
     [op |-> "updateKyc", account |-> a1, kyc |-> "approved"],
     [op |-> "delete", account |-> a1, byAdmin |-> FALSE],
     [op |-> "delete", account |-> a2, byAdmin |-> TRUE]}

\* A transfer taken back in each direction, a deposit and a withdrawal taken
\* back, and a body that names one account twice.
ReversalRequests ==
    {Reversal(a1, 1, a2, 2), Reversal(a2, 1, a1, 1),
     Reversal(a1, 2, NoAccount, 0), Reversal(NoAccount, 0, a2, 3),
     Reversal(a1, 1, a1, 1)}

MCOffered == BalanceRequests \union EntityRequests \union ReversalRequests
LiveOffered ==
    ReversalRequests
        \union {Money("debit", a1, 2), Admin("freeze", a1),
                [op |-> "delete", account |-> a1, byAdmin |-> FALSE]}
DebitsOnly == {Money("debit", a1, 2), Money("credit", a1, 1)}

RequestSymmetry == Permutations(Request)
=============================================================================
