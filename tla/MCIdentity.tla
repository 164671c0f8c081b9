------------------------------ MODULE MCIdentity ------------------------------
(***************************************************************************)
(* Who a user is, server side: the row, tokens and session of one user,    *)
(* one-time codes, the cache of the guards and the circuit breaker their   *)
(* validation calls go through; and the page that has a customer enter     *)
(* such a code for a transfer.  The parts share no state, so every         *)
(* behaviour is of one of them: the scene says which.                      *)
(*                                                                         *)
(* AuthSessions has two scenes, that each offer some of its requests.  In  *)
(* "rows" nobody but a reset gets to the tokens: the save of the row, its  *)
(* lock and its password.  In "tokens" passwords are right or wrong, and   *)
(* requests overlap over the tokens and the session record.                *)
(***************************************************************************)
EXTENDS AuthSessions, OneTimeCodes, GuardCache, CircuitBreaker, TransferForm, TLC

CONSTANTS p1, p2  \* two passwords

VARIABLE scene

identityVars == <<authVars, codeVars, guardVars, breakerVars, deskVars, scene>>

Scene == {"rows", "tokens", "codes", "guard", "breaker", "desk"}

Init ==
    /\ scene \in Scene
    /\ AuthInit /\ CodesInit /\ GuardInit /\ BreakerInit /\ DeskInit
    /\ scene # "codes" => inTable
    /\ scene # "tokens" => ~multiSession
    /\ scene # "desk" => own = {}

RowRequests ==
    [op : {"login"}, password : Password] \union [op : {"reset"}, password : {p2}]
        \union [op : {"edit", "verifyAdmin"}]

TokenRequests ==
    [op : {"login", "reset"}, password : {p1}]
        \union [op : {"refresh", "logout", "verifyAdmin"}]

MCAuthOffered == RowRequests \union TokenRequests

Arrives(jobs) == \A r \in Request : task'[r] \notin {task[r], NoTask} => task'[r] \in jobs

Rows ==
    /\ scene = "rows"
    /\ AuthNext
    /\ Arrives(RowRequests)
    /\ \A r \in Request : at'[r] = "revokeAll" => task[r].op = "reset"
    /\ UNCHANGED <<codeVars, guardVars, breakerVars, deskVars, scene>>

Tokens ==
    /\ scene = "tokens"
    /\ AuthNext
    /\ Arrives(TokenRequests)
    /\ UNCHANGED <<codeVars, guardVars, breakerVars, deskVars, scene>>

Codes ==
    /\ scene = "codes" /\ CodesNext
    /\ UNCHANGED <<authVars, guardVars, breakerVars, deskVars, scene>>
Guard ==
    /\ scene = "guard" /\ GuardNext
    /\ UNCHANGED <<authVars, codeVars, breakerVars, deskVars, scene>>
Breaker ==
    /\ scene = "breaker" /\ BreakerNext
    /\ UNCHANGED <<authVars, codeVars, guardVars, deskVars, scene>>
Desk ==
    /\ scene = "desk" /\ DeskNext
    /\ UNCHANGED <<authVars, codeVars, guardVars, breakerVars, scene>>

Next == Rows \/ Tokens \/ Codes \/ Guard \/ Breaker \/ Desk

Spec == Init /\ [][Next]_identityVars

\* Names that nothing orders or singles out. The configuration has the same
\* names for the requests of all parts, and two of the tokens' names for the codes and the payees.
Symmetry == Permutations(Request) \union Permutations(Code)

\* Every variable has values of its type.
TypeOK == AuthTypeOK /\ CodesTypeOK /\ GuardTypeOK /\ BreakerTypeOK /\ DeskTypeOK
=============================================================================
