------------------------------- MODULE KycReview -------------------------------
(***************************************************************************)
(* The identity check of one customer.  The submission lives in the        *)
(* browser's localStorage, which the tabs of the customer and of the       *)
(* administrator share; each change reads it, changes it and writes it     *)
(* back within one event, so it is one step.  A review then reports the    *)
(* overall status to account-service, where it may arrive late or never.   *)
(* There, other handlers load the account, wait, and save all of it again. *)
(*                                                                         *)
(* An administrator decides on what the tab last showed, so a review may   *)
(* be of a document that is gone, or decided already.                      *)
(***************************************************************************)
EXTENDS Integers, FiniteSets

CONSTANTS
    MaxDocs,      \* bound: documents uploaded
    HistoryLimit, \* KYC_DOCUMENT_HISTORY_LIMIT (6)
    Report        \* calls of account-service that may be under way at once; a bound

ASSUME KycAssumption == MaxDocs \in Nat /\ HistoryLimit \in Nat \ {0}

Doc == 1..MaxDocs   \* in the order of their upload
NoDoc == 0
Decision == {"approved", "rejected"}
KycStatus == Decision \union {"pending"}

\* PAN card, passport and driving licence prove the identity, Aadhaar the address.
Proof == {"identity", "aadhaar"}

VARIABLES
    submission,
    uploaded,  \* documents uploaded so far
    account,   \* kycStatus of the account the portal lists first for the customer
    loaded,    \* what other handlers of account-service may have read there
    report,    \* calls of updateKyc under way, and the status each carries
    \* History variable: read by properties only.
    apart      \* something other than the last review has set one of the two

kycVars == <<submission, uploaded, account, loaded, report, apart>>

\* documentStatus, status and frontDocument follow from the rest whenever the
\* submission is read, so they are operators here.
Submission ==
    [status : [Doc -> KycStatus \union {"gone"}], proof : [Doc -> Proof],
     active : Doc \union {NoDoc}, address : Doc \union {NoDoc},
     addressStatus : KycStatus, selfie : BOOLEAN, selfieStatus : KycStatus]

EmptySubmission ==
    [status |-> [d \in Doc |-> "gone"], proof |-> [d \in Doc |-> "identity"],
     active |-> NoDoc, address |-> NoDoc,
     addressStatus |-> "pending", selfie |-> FALSE, selfieStatus |-> "pending"]

KycInit ==
    /\ submission = EmptySubmission
    /\ uploaded = 0
    /\ account = "none" /\ loaded = {}
    /\ report = [c \in Report |-> "none"]
    /\ apart = TRUE

-----------------------------------------------------------------------------
(* lib/kyc-store.ts.                                                       *)

Documents(s) == {d \in Doc : s.status[d] # "gone"}
OfProof(s, p) == {d \in Documents(s) : s.proof[d] = p}

\* Mutant: the index of the last of none.
LastIndex(docs) ==
    IF docs = {} THEN -1 ELSE CHOOSE d \in docs : \A e \in docs : e <= d

Latest(docs) ==
    IF docs = {} THEN NoDoc ELSE CHOOSE d \in docs : \A e \in docs : e <= d

\* kycIdentityStatus.
DocumentStatus(s) ==
    LET docs == OfProof(s, "identity") IN
    CASE \E d \in docs : s.status[d] = "rejected" -> "rejected"
      [] docs # {} /\ \A d \in docs : s.status[d] = "approved" -> "approved"
      [] OTHER -> "pending"

\* resolveOverallStatus. There is a front document whenever there is one at all.
OverallStatus(s) ==
    LET parts == {DocumentStatus(s), s.selfieStatus, s.addressStatus} IN
    CASE "rejected" \in parts -> "rejected"
      [] Documents(s) # {} /\ s.selfie /\ parts = {"approved"} -> "approved"
      [] OTHER -> "pending"

\* normalizeSubmission.
Normalized(s) ==
    [s EXCEPT
        !.active = IF @ = NoDoc THEN Latest(Documents(s)) ELSE @,
        !.address = IF @ = NoDoc THEN Latest(OfProof(s, "aadhaar")) ELSE @]

\* Mutant: the document of the address has no place of its own.
CompactedByAge(s) ==
    LET kept == {d \in Documents(s) :
                     \/ d = s.active
                     \/ Cardinality({e \in Documents(s) : e > d}) < HistoryLimit}
    IN  [s EXCEPT !.status = [d \in Doc |-> IF d \in kept THEN @[d] ELSE "gone"],
                  !.proof = [d \in Doc |-> IF d \in kept THEN @[d] ELSE "identity"]]

\* compactSubmissionForStorage.
Compacted(s) ==
    LET kept == {d \in Documents(s) :
                     \/ d \in {s.active, s.address}
                     \/ Cardinality({e \in Documents(s) : e > d}) < HistoryLimit}
    IN  [s EXCEPT !.status = [d \in Doc |-> IF d \in kept THEN @[d] ELSE "gone"],
                  !.proof = [d \in Doc |-> IF d \in kept THEN @[d] ELSE "identity"]]

\* updateKycSubmission. What it returns is the submission before compaction.
Saved(s) == submission' = Compacted(Normalized(s))

-----------------------------------------------------------------------------
(* The customer.                                                           *)

CustomerSaves(s) ==
    /\ Saved(s)
    /\ apart' = TRUE
    /\ UNCHANGED <<account, loaded, report>>

SaveDocuments ==
    \E p \in Proof :
        LET d == uploaded + 1
            s == [submission EXCEPT !.status[d] = "pending", !.proof[d] = p,
                                    !.active = d]
        IN  /\ uploaded < MaxDocs
            /\ uploaded' = d
            /\ CustomerSaves(IF p = "aadhaar"
                             THEN [s EXCEPT !.address = d, !.addressStatus = "pending"]
                             ELSE s)

SaveSelfiePhoto ==
    /\ CustomerSaves([submission EXCEPT !.selfie = TRUE, !.selfieStatus = "pending"])
    /\ UNCHANGED uploaded

DeleteSelfie ==
    /\ CustomerSaves([submission EXCEPT !.selfie = FALSE, !.selfieStatus = "pending"])
    /\ UNCHANGED uploaded

Without(s, d) == [s EXCEPT !.status[d] = "gone", !.proof[d] = "identity"]

DeleteDocument ==
    \E d \in Documents(submission) :
        LET s == Without(submission, d) IN
        /\ CustomerSaves(
               [s EXCEPT !.active = IF @ \in Documents(s) THEN @ ELSE Latest(Documents(s)),
                         !.address = IF @ = d THEN NoDoc ELSE @,
                         !.addressStatus = IF s.address = d THEN "pending" ELSE @])
        /\ UNCHANGED uploaded

-----------------------------------------------------------------------------
(* The administrator's reviews.                                            *)

NoReport == \A c \in Report : report[c] = "none"

\* Mutant: the account is told the status the page shows before the review.
ReviewReportsOld(s) ==
    /\ Saved(s)
    /\ \/ \E c \in Report :
              /\ account # "none" /\ report[c] = "none"
              /\ report' = [report EXCEPT ![c] = OverallStatus(submission)]
              /\ apart' = ~NoReport
       \/ /\ UNCHANGED report
          /\ apart' = TRUE
    /\ UNCHANGED <<uploaded, account, loaded>>

\* The account is told the new status, unless the page lists none, or an older
\* one, for the customer.
Review(s) ==
    /\ Saved(s)
    /\ \/ \E c \in Report :
              /\ account # "none" /\ report[c] = "none"
              /\ report' = [report EXCEPT ![c] = OverallStatus(Normalized(s))]
              /\ apart' = ~NoReport
       \/ /\ UNCHANGED report
          /\ apart' = TRUE
    /\ UNCHANGED <<uploaded, account, loaded>>

\* A review of a document that is not there, or proves something else, changes
\* nothing, and reports all the same.
ReviewIdentity ==
    \E d \in 1..uploaded, decision \in Decision :
        Review(IF d \in OfProof(submission, "identity")
               THEN [submission EXCEPT !.status[d] = decision, !.active = d]
               ELSE submission)

ReviewAddress ==
    \E d \in 1..uploaded, decision \in Decision :
        Review(IF d \in OfProof(submission, "aadhaar")
               THEN [submission EXCEPT !.status[d] = decision, !.address = d,
                                       !.addressStatus = decision]
               ELSE submission)

\* Whether or not the photo is still there.
ReviewSelfie ==
    \E decision \in Decision :
        Review([submission EXCEPT !.selfieStatus = decision])

-----------------------------------------------------------------------------
(* account-service.                                                        *)

\* open or openApproved. The newest account is listed first.
OpenWithKycStatus ==
    /\ account' \in {"pending", "approved"}
    /\ apart' = TRUE
    /\ UNCHANGED <<submission, uploaded, loaded, report>>

\* deleteWithOtp: an older account, whatever its status, or none is listed.
DeleteAccount ==
    /\ account # "none"
    /\ account' \in KycStatus \union {"none"}
    /\ apart' = TRUE
    /\ UNCHANGED <<submission, uploaded, loaded, report>>

\* Which account a report was about is not kept: once another has been listed,
\* it may be that one or not. The save writes the status whatever others save.
UpdateKyc(c) ==
    /\ report[c] # "none"
    /\ \/ account' = report[c]
       \/ apart /\ UNCHANGED account
    /\ report' = [report EXCEPT ![c] = "none"]
    /\ UNCHANGED <<submission, uploaded, loaded, apart>>

\* requiredAccount of a handler that changes something else: updateBalance,
\* updateStatus, updateLimits and the like.
LoadAccount ==
    /\ account # "none"
    /\ loaded' = loaded \union {account}
    /\ UNCHANGED <<submission, uploaded, account, report, apart>>

\* Its saveAccount writes all that it has read: an old status comes back, or an
\* account that was deleted meanwhile is listed again.
SaveStaleAccount ==
    /\ account' \in loaded
    /\ apart' = TRUE
    /\ UNCHANGED <<submission, uploaded, loaded, report>>

\* The call is lost, refused or fails; the administrator is not told.
ReportLost(c) ==
    /\ report[c] # "none"
    /\ report' = [report EXCEPT ![c] = "none"]
    /\ apart' = TRUE
    /\ UNCHANGED <<submission, uploaded, account, loaded>>

\* The page of accounts sets the status of the account and of nothing else.
SetAccountKyc ==
    /\ account # "none"
    /\ account' \in Decision
    /\ apart' = TRUE
    /\ UNCHANGED <<submission, uploaded, loaded, report>>

KycNext ==
    \/ SaveDocuments \/ SaveSelfiePhoto \/ DeleteSelfie \/ DeleteDocument
    \/ ReviewIdentity \/ ReviewAddress \/ ReviewSelfie
    \/ OpenWithKycStatus \/ DeleteAccount \/ SetAccountKyc
    \/ LoadAccount \/ SaveStaleAccount
    \/ \E c \in Report : UpdateKyc(c) \/ ReportLost(c)

KycSpec == KycInit /\ [][KycNext]_kycVars

-----------------------------------------------------------------------------
(* Properties.                                                             *)

KycTypeOK ==
    /\ submission \in Submission
    /\ uploaded \in 0..MaxDocs
    /\ account \in KycStatus \union {"none"}
    /\ loaded \subseteq KycStatus
    /\ report \in [Report -> KycStatus \union {"none"}]
    /\ apart \in BOOLEAN

\* However uploads, deletions, reviews from outdated pages and the compaction
\* of the history follow each other, the portal shows a customer as approved
\* only with an identity document, every one it holds approved, a photo, and a
\* document of the address that is still there and is the one that was approved.
ApprovedOnHeldEvidence ==
    OverallStatus(submission) = "approved" =>
        /\ OfProof(submission, "identity") # {}
        /\ \A d \in OfProof(submission, "identity") : submission.status[d] = "approved"
        /\ submission.address \in OfProof(submission, "aadhaar")
        /\ submission.status[submission.address] = "approved"
        /\ submission.selfie

\* What a review leaves in the account is what the portal goes on to show: the
\* status is computed before the history is compacted, and no document that
\* counts is dropped after it. It holds until the customer changes the
\* submission; an account is opened, deleted or set by itself; a report is lost or
\* crosses another; or account-service saves what a handler has loaded before,
\* which writes an old status back or a deleted account.
AccountFollowsReview ==
    ~apart /\ NoReport => account = OverallStatus(submission)
=============================================================================
