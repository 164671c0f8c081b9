------------------------- MODULE TransactionLifecycle -------------------------
(***************************************************************************)
(* What transaction-service promises about a transaction: money moves only *)
(* after the ledger has it, COMPLETED is written only when every balance   *)
(* has moved, REVERSED only when they have been moved back, a FAILED or    *)
(* REVERSED transaction keeps its status, and a COMPLETED one is never     *)
(* failed.  It does not promise that a FAILED one has moved nothing.       *)
(***************************************************************************)
CONSTANTS Transaction, Leg

VARIABLES
    legs,    \* the balance updates each transaction is made of
    status,  \* its status, "none" before its row exists
    posted,  \* the transactions whose ledger entries are committed
    moved,   \* the legs of each that have moved a balance
    undone   \* the transactions whose balances have been moved back

lifeVars == <<legs, status, posted, moved, undone>>

LifeInit ==
    /\ legs \in [Transaction -> SUBSET Leg]
    /\ status = [t \in Transaction |-> "none"]
    /\ posted = {}
    /\ moved = [t \in Transaction |-> {}]
    /\ undone = {}

Become(t, from, to) ==
    /\ status[t] \in from
    /\ status' = [status EXCEPT ![t] = to]
    /\ UNCHANGED <<legs, posted, moved, undone>>

Create(t) == Become(t, {"none"}, "pending")
Process(t) == Become(t, {"pending"}, "processing")
Fail(t) == Become(t, {"pending", "processing"}, "failed")
Complete(t) ==
    t \in posted /\ moved[t] = legs[t] /\ Become(t, {"processing"}, "completed")
MarkReversed(t) == t \in undone /\ Become(t, {"completed"}, "reversed")

Post(t) ==
    /\ status[t] = "processing"
    /\ posted' = posted \union {t}
    /\ UNCHANGED <<legs, status, moved, undone>>

Move(t, l) ==
    /\ t \in posted /\ l \in legs[t]
    /\ moved' = [moved EXCEPT ![t] = @ \union {l}]
    /\ UNCHANGED <<legs, status, posted, undone>>

Undo(t) ==
    /\ status[t] \in {"completed", "reversed"}
    /\ undone' = undone \union {t}
    /\ UNCHANGED <<legs, status, posted, moved>>

LifeNext ==
    \E t \in Transaction :
        \/ Create(t) \/ Process(t) \/ Post(t) \/ Complete(t) \/ Fail(t)
        \/ Undo(t) \/ MarkReversed(t)
        \/ \E l \in Leg : Move(t, l)

LifeSpec == LifeInit /\ [][LifeNext]_lifeVars
=============================================================================
