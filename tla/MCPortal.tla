------------------------------- MODULE MCPortal -------------------------------
(***************************************************************************)
(* The frontend: the session of one tab, the review of one customer's      *)
(* identity and the approval of account requests.  The three share no      *)
(* state, so every behaviour is of one of them: the scene says which.      *)
(***************************************************************************)
EXTENDS BrowserSession, KycReview, AccountApprovals

VARIABLE scene

portalVars == <<pageVars, kycVars, approvalVars, scene>>

Scene == {"page", "kyc", "approvals"}

Init == scene \in Scene /\ PageInit /\ KycInit /\ ApprovalInit

Page == scene = "page" /\ PageNext /\ UNCHANGED <<kycVars, approvalVars, scene>>
Kyc == scene = "kyc" /\ KycNext /\ UNCHANGED <<pageVars, approvalVars, scene>>
Approvals == scene = "approvals" /\ ApprovalNext /\ UNCHANGED <<pageVars, kycVars, scene>>

Next == Page \/ Kyc \/ Approvals

Spec == Init /\ [][Next]_portalVars

\* Every variable has values of its type.
TypeOK == PageTypeOK /\ KycTypeOK /\ ApprovalTypeOK
=============================================================================
