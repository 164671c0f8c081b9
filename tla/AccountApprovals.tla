---------------------------- MODULE AccountApprovals ----------------------------
(***************************************************************************)
(* Opening and deleting accounts.  A customer's request waits in the       *)
(* browser's localStorage until an administrator decides on it; approving  *)
(* calls account-service first and marks the request when the answer is    *)
(* there.  Two tabs may decide at once, and the call may fail half-way, or *)
(* its answer may be lost.                                                 *)
(***************************************************************************)
EXTENDS Integers, FiniteSets

CONSTANTS
    Ask, NoAsk,       \* ids of requests
    Account, NoAccount,
    Call              \* calls of account-service at work at once; a bound

ASSUME ApprovalAssumption == NoAccount \notin Account /\ NoAsk \notin Ask

VARIABLES
    asked,    \* the stored requests
    standing, \* the accounts table: "none", "open" (frozen or not) or "closed"
    limited,  \* accounts with a row in account_limits
    call,     \* the calls: what each decides, where its handler stands
    \* History variables: read by properties only.
    openedFor, \* the request each account was opened for
    unsure,  \* requests decided on while another decision was under way,
               \* or whose call broke off after it had opened an account
    unclosed   \* accounts whose deletion was approved by a page that did not
               \* list them, or whose status was set or written again

approvalVars == <<asked, standing, limited, call, openedFor, unsure, unclosed>>

Request ==
    [action : {"open", "delete"}, status : {"new", "pending", "approved", "rejected"},
     account : Account \union {NoAccount}]
NotAsked == [action |-> "open", status |-> "new", account |-> NoAccount]

CallState ==
    [ask : Ask \union {NoAsk}, stage : {"idle", "create", "limits", "close", "answer"},
     account : Account \union {NoAccount}, awaited : BOOLEAN]
NoCall == [ask |-> NoAsk, stage |-> "idle", account |-> NoAccount, awaited |-> FALSE]

ApprovalInit ==
    /\ asked = [q \in Ask |-> NotAsked]
    /\ standing = [a \in Account |-> "none"]
    /\ limited = {}
    /\ call = [c \in Call |-> NoCall]
    /\ openedFor = [a \in Account |-> NoAsk]
    /\ unsure = {} /\ unclosed = {}

Deciding(q) == {c \in Call : call[c].ask = q}

-----------------------------------------------------------------------------
(* The customer.                                                           *)

KeepsServer == UNCHANGED <<standing, limited, call, openedFor, unclosed>>

CreateAccountOpenRequest(q) ==
    /\ asked[q].status = "new"
    /\ asked' = [asked EXCEPT ![q].status = "pending"]
    /\ UNCHANGED unsure /\ KeepsServer

\* Of a request for the account that is pending there is no second.
CreateAccountDeleteRequest(q) ==
    \E a \in Account :
        /\ asked[q].status = "new" /\ standing[a] # "none"
        /\ \A p \in Ask : asked[p] # [action |-> "delete", status |-> "pending", account |-> a]
        /\ asked' = [asked EXCEPT ![q] =
               [action |-> "delete", status |-> "pending", account |-> a]]
        /\ UNCHANGED unsure /\ KeepsServer

-----------------------------------------------------------------------------
(* The administrator.  Another tab may show a request as pending for a     *)
(* moment after it was decided; the store does not ask.                    *)

\* What deciding on q does to the history.
Crossing(q) ==
    IF Deciding(q) # {} \/ asked[q].status # "pending" THEN {q} ELSE {}

Marked(q, status, account) ==
    asked' = [asked EXCEPT ![q].status = status, ![q].account = account]

Reject(q) ==
    /\ asked[q].status # "new"
    /\ Marked(q, "rejected", asked[q].account)
    /\ unsure' = unsure \union Crossing(q)
    /\ KeepsServer

Starts(c, q, stage) ==
    /\ call[c] = NoCall
    /\ call' = [call EXCEPT ![c] =
           [ask |-> q, stage |-> stage, account |-> asked[q].account, awaited |-> TRUE]]

ApproveOpen(c, q) ==
    /\ asked[q].status # "new" /\ asked[q].action = "open"
    /\ Starts(c, q, "create")
    /\ unsure' = unsure \union Crossing(q)
    /\ UNCHANGED <<asked, standing, limited, openedFor, unclosed>>

ApproveListedDelete(c, q) ==
    /\ asked[q].status # "new" /\ asked[q].action = "delete"
    /\ Starts(c, q, "close")
    /\ unsure' = unsure \union Crossing(q)
    /\ UNCHANGED <<asked, standing, limited, openedFor, unclosed>>

\* The page lists no such account: the list has not come, or omits it.
ApproveUnlistedDelete(q) ==
    /\ asked[q].status # "new" /\ asked[q].action = "delete"
    /\ Marked(q, "approved", asked[q].account)
    /\ unsure' = unsure \union Crossing(q)
    /\ unclosed' = unclosed \union {asked[q].account}
    /\ UNCHANGED <<standing, limited, call, openedFor>>

\* Mutant: the answer is not written to the store.
HearsNothing(c) ==
    /\ call[c].stage = "answer" /\ call[c].awaited
    /\ call' = [call EXCEPT ![c] = NoCall]
    /\ UNCHANGED <<asked, standing, limited, openedFor, unsure, unclosed>>

\* approveAccountApprovalRequest, whatever the request's status is by now.
Hears(c) ==
    LET q == call[c].ask IN
    /\ call[c].stage = "answer" /\ call[c].awaited
    /\ Marked(q, "approved", call[c].account)
    /\ call' = [call EXCEPT ![c] = NoCall]
    /\ UNCHANGED <<standing, limited, openedFor, unsure, unclosed>>

\* After 15 seconds, or when the tab is closed. The service works on.
GivesUp(c) ==
    /\ call[c].awaited
    /\ call' = [call EXCEPT ![c] =
           IF @.stage = "answer" THEN NoCall ELSE [@ EXCEPT !.awaited = FALSE]]
    /\ unsure' = unsure \union {call[c].ask}
    /\ UNCHANGED <<asked, standing, limited, openedFor, unclosed>>

\* Freeze and unfreeze set the status, whatever it was; a save of an entity read
\* before the account was closed writes the old status back, as AccountRows has
\* it.
SetStatus(a) ==
    /\ standing[a] # "none"
    /\ standing' = [standing EXCEPT ![a] = "open"]
    /\ unclosed' = unclosed \union {a}
    /\ UNCHANGED <<asked, limited, call, openedFor, unsure>>

-----------------------------------------------------------------------------
(* account-service.  Its two writes are not one transaction.               *)

Proceeds(c) ==
    call' = [call EXCEPT ![c] = IF @.awaited THEN [@ EXCEPT !.stage = "answer"] ELSE NoCall]

\* Mutant: the handler answers before it saves the limits.
CreateAccountOnly(c) ==
    \E a \in Account :
        /\ call[c].stage = "create" /\ standing[a] = "none"
        /\ standing' = [standing EXCEPT ![a] = "open"]
        /\ openedFor' = [openedFor EXCEPT ![a] = call[c].ask]
        /\ call' = [call EXCEPT ![c].stage = "answer", ![c].account = a]
        /\ UNCHANGED <<asked, limited, unsure, unclosed>>

CreateAccount(c) ==
    \E a \in Account :
        /\ call[c].stage = "create" /\ standing[a] = "none"
        /\ standing' = [standing EXCEPT ![a] = "open"]
        /\ openedFor' = [openedFor EXCEPT ![a] = call[c].ask]
        /\ call' = [call EXCEPT ![c].stage = "limits", ![c].account = a]
        /\ UNCHANGED <<asked, limited, unsure, unclosed>>

SaveLimits(c) ==
    /\ call[c].stage = "limits"
    /\ limited' = limited \union {call[c].account}
    /\ Proceeds(c)
    /\ UNCHANGED <<asked, standing, openedFor, unsure, unclosed>>

CloseAccount(c) ==
    /\ call[c].stage = "close"
    /\ standing' = [standing EXCEPT ![call[c].account] = "closed"]
    /\ Proceeds(c)
    /\ UNCHANGED <<asked, limited, openedFor, unsure, unclosed>>

\* The call does not arrive, a statement fails, or the service stops.
CallFails(c) ==
    /\ call[c].stage \in {"create", "limits", "close"}
    /\ call' = [call EXCEPT ![c] = NoCall]
    /\ unsure' = IF call[c].stage = "limits" THEN unsure \union {call[c].ask} ELSE unsure
    /\ UNCHANGED <<asked, standing, limited, openedFor, unclosed>>

ApprovalNext ==
    \/ \E q \in Ask :
           \/ CreateAccountOpenRequest(q) \/ CreateAccountDeleteRequest(q)
           \/ Reject(q) \/ ApproveUnlistedDelete(q)
           \/ \E c \in Call : ApproveOpen(c, q) \/ ApproveListedDelete(c, q)
    \/ \E c \in Call :
           \/ Hears(c) \/ GivesUp(c)
           \/ CreateAccount(c) \/ SaveLimits(c) \/ CloseAccount(c) \/ CallFails(c)
    \/ \E a \in Account : SetStatus(a)

ApprovalSpec == ApprovalInit /\ [][ApprovalNext]_approvalVars

-----------------------------------------------------------------------------
(* Properties.                                                             *)

ApprovalTypeOK ==
    /\ asked \in [Ask -> Request]
    /\ standing \in [Account -> {"none", "open", "closed"}]
    /\ limited \subseteq Account
    /\ call \in [Call -> CallState]
    /\ openedFor \in [Account -> Ask \union {NoAsk}]
    /\ unsure \subseteq Ask
    /\ unclosed \subseteq Account

\* What the customer sees as approved has been carried out, whoever else has
\* decided on the request meanwhile: the account was opened for it and has its
\* limits; the account to delete is closed, unless the page did not list it, it
\* was frozen or unfrozen, or a stale save in account-service wrote its old
\* status back.
ApprovedIsCarriedOut ==
    \A q \in Ask :
        asked[q].status = "approved" =>
            LET a == asked[q].account IN
            IF asked[q].action = "open"
            THEN a \in limited /\ openedFor[a] = q
            ELSE a \in unclosed \/ standing[a] = "closed"

\* A request opens one account when it is approved and none otherwise, however
\* often its call failed before the account was saved. The exceptions: two
\* decisions that cross, an answer that does not come, and limits that cannot
\* be saved leave an account that no request tells of.
OneAccountPerRequestInTurn ==
    \A q \in Ask :
        q \notin unsure /\ Deciding(q) = {} =>
            Cardinality({a \in Account : openedFor[a] = q}) =
                IF asked[q].action = "open" /\ asked[q].status = "approved" THEN 1 ELSE 0
=============================================================================
