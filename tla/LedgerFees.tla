------------------------------ MODULE LedgerFees ------------------------------
(***************************************************************************)
(* What a transaction costs and what it posts: the pure parts of           *)
(* transaction-service. Amounts are whole ten-thousandths (toFixed(4)).    *)
(***************************************************************************)
EXTENDS Integers

CONSTANTS
    Account,    \* customer accounts
    NoAccount,  \* the null side of a deposit or a withdrawal
    Clearing,   \* CLEARING_ACCOUNT_ID
    FeeAccount  \* FEE_ACCOUNT_ID

ASSUME AccountsAssumption ==
    /\ NoAccount \notin Account
    /\ Clearing \notin Account \union {NoAccount}
    /\ FeeAccount \notin Account \union {NoAccount, Clearing}

TransactionType == {"transfer", "deposit", "withdrawal"}

\* The transactions the three handlers accept: a positive amount, and two
\* different accounts for a transfer.
Job ==
    {j \in [type: TransactionType, from: Account \union {NoAccount},
            to: Account \union {NoAccount}, amount: Nat \ {0}] :
        /\ j.from = NoAccount <=> j.type = "deposit"
        /\ j.to = NoAccount <=> j.type = "withdrawal"
        /\ j.from # j.to}

AtLeast(x, low) == IF x < low THEN low ELSE x
AtMost(x, high) == IF x > high THEN high ELSE x

\* Mutant: a deposit is charged like a transfer.
FeeOnDeposits(type, amount) ==
    IF type = "withdrawal" THEN 15000
    ELSE AtMost(AtLeast((amount + 500) \div 1000, 1000), 250000)

\* FeeService.calculate: 1.5000 for a withdrawal; for a transfer a thousandth,
\* rounded half up to four decimals, between 0.1000 and 25.0000.
Fee(type, amount) ==
    IF type = "deposit" THEN 0
    ELSE IF type = "withdrawal" THEN 15000
    ELSE AtMost(AtLeast((amount + 500) \div 1000, 1000), 250000)

FeeOf(j) == Fee(j.type, j.amount)
Total(j) == j.amount + FeeOf(j)

\* Mutant: the payer's entry leaves the fee out.
EntriesWithoutFee(j) ==
    [debit  |-> [account |-> IF j.type = "deposit" THEN Clearing ELSE j.from,
                 amount  |-> j.amount],
     credit |-> [account |-> IF j.type = "withdrawal" THEN Clearing ELSE j.to,
                 amount  |-> j.amount],
     fee    |-> [account |-> FeeAccount, amount |-> 0]]

\* buildEntries: what is paid, what is received, and the fee (an entry of zero
\* stands for the fee entry that a free transaction does not have).
Entries(j) ==
    [debit  |-> [account |-> IF j.type = "deposit" THEN Clearing ELSE j.from,
                 amount  |-> IF j.type = "deposit" THEN j.amount ELSE Total(j)],
     credit |-> [account |-> IF j.type = "withdrawal" THEN Clearing ELSE j.to,
                 amount  |-> j.amount],
     fee    |-> [account |-> FeeAccount,
                 amount  |-> IF j.type = "deposit" THEN 0 ELSE FeeOf(j)]]

\* assertBalanced: the debits add up to the credits.
Balanced(e) == e.debit.amount = e.credit.amount + e.fee.amount

\* What the entries say happened to the balance of a.
Posted(e, a) ==
    (IF e.credit.account = a THEN e.credit.amount ELSE 0)
        - (IF e.debit.account = a THEN e.debit.amount ELSE 0)

\* The balance updates of a transaction.
Leg == {"debit", "credit"}
Legs(j) ==
    {l \in Leg : /\ l = "debit" => j.type # "deposit"
                 /\ l = "credit" => j.type # "withdrawal"}

\* updateBalance: the payer is charged the fee as well.
LegEffect(j, l, a) ==
    IF l = "debit" THEN (IF a = j.from THEN -Total(j) ELSE 0)
    ELSE (IF a = j.to THEN j.amount ELSE 0)

\* Mutant: the reversal keeps the fee.
ReversalKeepsFee(j, a) ==
    (IF j.type # "deposit" /\ a = j.from THEN j.amount ELSE 0)
        - (IF j.type # "withdrawal" /\ a = j.to THEN j.amount ELSE 0)

\* applyBalanceReversal: the payer gets amount and fee back, the receiver gives
\* the amount back.
ReversalEffect(j, a) ==
    (IF j.type # "deposit" /\ a = j.from THEN Total(j) ELSE 0)
        - (IF j.type # "withdrawal" /\ a = j.to THEN j.amount ELSE 0)
=============================================================================
