----------------------------- MODULE AccountBook -----------------------------
(***************************************************************************)
(* What account-service promises about balances, whatever requests are     *)
(* running: a balance is never negative and never exceeds its column, and  *)
(* a reversal takes effect as a whole, on the balances of that moment.     *)
(* Any other request replaces the balance of one account.                  *)
(***************************************************************************)
EXTENDS Integers

CONSTANTS Account, Request, MaxBalance

VARIABLES
    balance,  \* each account's committed balance
    owed,     \* what each request, as a reversal, moves on each account
    settled   \* the reversals that have taken effect

bookVars == <<balance, owed, settled>>

Balances == [Account -> 0..MaxBalance]

BookInit ==
    /\ balance \in Balances
    /\ owed \in [Request -> [Account -> Int]]
    /\ settled = {}

\* A save of one account: the balance it had or another one.
Replace(a, b) ==
    /\ balance' = [balance EXCEPT ![a] = b]
    /\ UNCHANGED <<owed, settled>>

\* A reversal moves every leg at once and happens once.
Settle(r) ==
    /\ r \notin settled
    /\ settled' = settled \union {r}
    /\ balance' = [a \in Account |-> balance[a] + owed[r][a]]
    /\ balance' \in Balances
    /\ UNCHANGED owed

BookNext ==
    \/ \E a \in Account, b \in 0..MaxBalance : Replace(a, b)
    \/ \E r \in Request : Settle(r)

BookSpec == BookInit /\ [][BookNext]_bookVars
=============================================================================
