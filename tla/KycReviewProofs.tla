---------------------------- MODULE KycReviewProofs ----------------------------
(***************************************************************************)
(* Proofs about KycReview, for any number of documents, history limit and  *)
(* reports under way.                                                      *)
(***************************************************************************)
EXTENDS KycReview, FiniteSetTheorems, WellFoundedInduction, TLAPS

\* The documents uploaded after d.
Newer(s, d) == {e \in Documents(s) : e > d}

\* compactSubmissionForStorage keeps d for its age.
Recent(s, d) == Cardinality(Newer(s, d)) < HistoryLimit

\* The document of the address and the active one are there, the address has
\* the status of its document once it is approved, and the active document is
\* always a recent one.
WellKept(s) ==
    /\ s.address = NoDoc \/ s.address \in OfProof(s, "aadhaar")
    /\ s.addressStatus = "approved" =>
           s.address # NoDoc /\ s.status[s.address] = "approved"
    /\ s.active # NoDoc => s.active \in Documents(s) /\ Recent(s, s.active)

\* What a review reports: an old document is kept for the address only, and
\* does not count for the identity.
OldIsAddress(s) == \A d \in Documents(s) : Recent(s, d) \/ d = s.address

\* The report under way, or the account, has the status the portal shows.
AccountInStep ==
    ~apart =>
        \/ NoReport /\ account = OverallStatus(submission)
        \/ \E c \in Report :
               /\ report[c] = OverallStatus(submission)
               /\ \A e \in Report \ {c} : report[e] = "none"

\* The inductive invariant.
KycInv ==
    /\ KycTypeOK
    /\ Documents(submission) \subseteq 1..uploaded
    /\ WellKept(submission)
    /\ OldIsAddress(submission)
    /\ AccountInStep

-----------------------------------------------------------------------------
(* The latest of some documents.                                           *)

Below == {p \in Nat \X Nat : p[1] < p[2]}

\* The order of the natural numbers is well-founded, so a set of them has a
\* smallest element.
LEMMA SmallestOf ==
    ASSUME NEW T, T \subseteq Nat, T # {}
    PROVE  \E x \in T : \A y \in T : x <= y
<1>1. IsWellFoundedOn(Below, Nat)
  BY NatLessThanWellFounded DEF OpToRel, Below
<1>2. PICK x \in T : \A y \in T : <<y, x>> \notin Below
  BY <1>1, WFMin
<1>3. ASSUME NEW y \in T PROVE x <= y
  <2>1. x \in Nat /\ y \in Nat /\ <<y, x>> \in Nat \X Nat
    OBVIOUS
  <2>2. ~(y < x)
    BY <1>2, <2>1 DEF Below
  <2>. QED
    BY <2>1, <2>2
<1>. QED
  BY <1>3

LEMMA LargestOf ==
    ASSUME NEW S, S \subseteq Doc, S # {}
    PROVE  \E d \in S : \A e \in S : e <= d
<1>0. MaxDocs \in Nat /\ \A d \in S : d \in 1..MaxDocs
  BY KycAssumption DEF Doc
<1> DEFINE T == {n \in Nat : \E d \in S : n = MaxDocs - d}
<1>1. T \subseteq Nat /\ T # {}
  <2>1. PICK d \in S : TRUE
    OBVIOUS
  <2>2. MaxDocs - d \in T
    BY <1>0
  <2>. QED
    BY <2>2
<1> HIDE DEF T
<1>2. PICK x \in T : \A y \in T : x <= y
  BY <1>1, SmallestOf
<1>3. PICK d \in S : x = MaxDocs - d
  BY <1>2 DEF T
<1>4. ASSUME NEW e \in S PROVE e <= d
  <2>1. MaxDocs - e \in T
    BY <1>0 DEF T
  <2>. QED
    BY <1>0, <1>2, <1>3, <2>1
<1>. QED
  BY <1>4

\* Latest is the newest of the documents it is given.
LEMMA LatestOf ==
    ASSUME NEW S, S \subseteq Doc
    PROVE  /\ S = {} => Latest(S) = NoDoc
           /\ S # {} => Latest(S) \in S /\ \A e \in S : e <= Latest(S)
<1>1. CASE S = {}
  BY <1>1 DEF Latest
<1>2. CASE S # {}
  BY <1>2, LargestOf DEF Latest
<1>. QED
  BY <1>1, <1>2

\* Fewer documents are newer when there are fewer.
LEMMA RecentMono ==
    ASSUME NEW s, NEW t, NEW d, Documents(t) \subseteq Documents(s), Recent(s, d)
    PROVE  Recent(t, d)
<1>1. IsFiniteSet(Newer(s, d))
  <2>1. IsFiniteSet(Doc) /\ Newer(s, d) \subseteq Doc
    BY FS_Interval, KycAssumption DEF Doc, Newer, Documents
  <2>. QED
    BY <2>1, FS_Subset
<1>2. Newer(t, d) \subseteq Newer(s, d)
  BY DEF Newer
<1>3. /\ Cardinality(Newer(t, d)) \in Nat /\ Cardinality(Newer(s, d)) \in Nat
      /\ Cardinality(Newer(t, d)) <= Cardinality(Newer(s, d))
  BY <1>1, <1>2, FS_Subset, FS_CardinalityType
<1>. QED
  BY <1>3, KycAssumption DEF Recent

\* The newest document is recent.
LEMMA NewestRecent ==
    ASSUME NEW s, NEW d \in Doc, \A e \in Documents(s) : e <= d
    PROVE  Recent(s, d)
<1>1. Newer(s, d) = {}
  BY KycAssumption DEF Newer, Doc, Documents
<1>. QED
  BY <1>1, FS_EmptySet, KycAssumption DEF Recent
-----------------------------------------------------------------------------
(* What a save keeps.                                                      *)

\* Documents with the same status and proof are the same documents.
LEMMA SameDocuments ==
    ASSUME NEW s, NEW t, t.status = s.status, t.proof = s.proof
    PROVE  /\ Documents(t) = Documents(s)
           /\ \A p : OfProof(t, p) = OfProof(s, p)
           /\ \A d : Recent(t, d) = Recent(s, d)
           /\ DocumentStatus(t) = DocumentStatus(s)
  BY DEF Documents, OfProof, Recent, Newer, DocumentStatus

\* normalizeSubmission.
LEMMA NormalizedKept ==
    ASSUME NEW s \in Submission, WellKept(s)
    PROVE  /\ Normalized(s) \in Submission
           /\ Normalized(s).status = s.status /\ Normalized(s).proof = s.proof
           /\ WellKept(Normalized(s))
<1> DEFINE n == Normalized(s)
           docs == Documents(s)
           aadhaar == OfProof(s, "aadhaar")
<1>1. /\ docs \subseteq Doc /\ aadhaar \subseteq docs
      /\ NoDoc \notin Doc
  BY KycAssumption DEF Documents, OfProof, Doc, NoDoc
<1>2. /\ n.status = s.status /\ n.proof = s.proof
      /\ n.addressStatus = s.addressStatus
      /\ n.active = IF s.active = NoDoc THEN Latest(docs) ELSE s.active
      /\ n.address = IF s.address = NoDoc THEN Latest(aadhaar) ELSE s.address
  BY DEF Normalized, Submission
<1>3. Latest(docs) \in Doc \union {NoDoc} /\ Latest(aadhaar) \in Doc \union {NoDoc}
  BY <1>1, LatestOf
<1>4. n \in Submission
  BY <1>3 DEF Normalized, Submission
<1> HIDE DEF n
<1>5. /\ Documents(n) = docs /\ OfProof(n, "aadhaar") = aadhaar
      /\ \A d : Recent(n, d) = Recent(s, d)
  BY <1>2, SameDocuments
<1>6. n.active # NoDoc => n.active \in docs /\ Recent(n, n.active)
  <2>1. CASE s.active # NoDoc
    BY <1>2, <1>5, <2>1 DEF WellKept
  <2>2. CASE s.active = NoDoc /\ docs # {}
    <3>1. /\ n.active = Latest(docs) /\ Latest(docs) \in docs
          /\ \A e \in docs : e <= Latest(docs)
      BY <1>1, <1>2, <2>2, LatestOf
    <3>2. Recent(s, Latest(docs))
      BY <1>1, <3>1, NewestRecent
    <3>3. Recent(n, Latest(docs))
      BY <1>5, <3>2
    <3>. QED
      BY <3>1, <3>3
  <2>3. CASE s.active = NoDoc /\ docs = {}
    BY <1>1, <1>2, <2>3, LatestOf
  <2>. QED
    BY <2>1, <2>2, <2>3
<1>7. /\ n.address = NoDoc \/ n.address \in aadhaar
      /\ n.addressStatus = "approved" =>
             n.address # NoDoc /\ n.status[n.address] = "approved"
  <2>1. CASE s.address = NoDoc
    BY <1>1, <1>2, <2>1, LatestOf DEF WellKept
  <2>2. CASE s.address # NoDoc
    BY <1>2, <2>2 DEF WellKept
  <2>. QED
    BY <2>1, <2>2
<1>. QED
  BY <1>2, <1>4, <1>5, <1>6, <1>7 DEF WellKept, n

\* The documents that compaction keeps.
Kept(s) ==
    {d \in Documents(s) : d \in {s.active, s.address} \/ Recent(s, d)}

\* compactSubmissionForStorage.
LEMMA CompactedParts ==
    ASSUME NEW s \in Submission
    PROVE  LET c == Compacted(s) IN
           /\ c \in Submission
           /\ c.active = s.active /\ c.address = s.address
           /\ c.addressStatus = s.addressStatus
           /\ c.selfie = s.selfie /\ c.selfieStatus = s.selfieStatus
           /\ Documents(c) = Kept(s)
           /\ \A d \in Kept(s) : c.status[d] = s.status[d] /\ c.proof[d] = s.proof[d]
<1> DEFINE c == Compacted(s)
<1>1. c = [s EXCEPT !.status = [d \in Doc |-> IF d \in Kept(s) THEN s.status[d] ELSE "gone"],
                    !.proof = [d \in Doc |-> IF d \in Kept(s) THEN s.proof[d] ELSE "identity"]]
  BY DEF Compacted, Kept, Recent, Newer
<1>2. Kept(s) \subseteq Doc /\ \A d \in Kept(s) : s.status[d] # "gone"
  BY DEF Kept, Documents
<1> HIDE DEF c
<1>3. /\ c.status = [d \in Doc |-> IF d \in Kept(s) THEN s.status[d] ELSE "gone"]
      /\ c.proof = [d \in Doc |-> IF d \in Kept(s) THEN s.proof[d] ELSE "identity"]
      /\ c.active = s.active /\ c.address = s.address
      /\ c.addressStatus = s.addressStatus
      /\ c.selfie = s.selfie /\ c.selfieStatus = s.selfieStatus
  BY <1>1 DEF Submission
<1>4. c.status \in [Doc -> KycStatus \union {"gone"}] /\ c.proof \in [Doc -> Proof]
  BY <1>3 DEF Submission, Proof
<1>5. c \in Submission
  BY <1>1, <1>4 DEF Submission
<1>6. Documents(c) = Kept(s)
  BY <1>2, <1>3 DEF Documents
<1>. QED
  BY <1>2, <1>3, <1>5, <1>6 DEF c

LEMMA CompactedKept ==
    ASSUME NEW s \in Submission, WellKept(s)
    PROVE  WellKept(Compacted(s)) /\ OldIsAddress(Compacted(s))
<1> DEFINE c == Compacted(s)
<1>1. /\ c.active = s.active /\ c.address = s.address
      /\ c.addressStatus = s.addressStatus
      /\ Documents(c) = Kept(s)
      /\ \A d \in Kept(s) : c.status[d] = s.status[d] /\ c.proof[d] = s.proof[d]
  BY CompactedParts
<1> HIDE DEF c
<1>2. Documents(c) \subseteq Documents(s)
  BY <1>1 DEF Kept
<1>3. \A d : Recent(s, d) => Recent(c, d)
  BY <1>2, RecentMono
<1>4. \A d \in Documents(s) : d \in {s.active, s.address} => d \in Kept(s)
  BY DEF Kept
<1>5. WellKept(c)
  BY <1>1, <1>3, <1>4 DEF WellKept, OfProof
<1>6. OldIsAddress(c)
  <2>1. ASSUME NEW d \in Kept(s) PROVE Recent(c, d) \/ d = c.address
    BY <1>1, <1>3, KycAssumption DEF Kept, WellKept, Documents, Doc, NoDoc
  <2>. QED
    BY <1>1, <2>1 DEF OldIsAddress
<1>. QED
  BY <1>5, <1>6 DEF c

\* When only the address keeps an old document, compaction drops none that
\* counts for the overall status.
LEMMA OverallKept ==
    ASSUME NEW s \in Submission, \A d \in OfProof(s, "identity") : Recent(s, d)
    PROVE  OverallStatus(Compacted(s)) = OverallStatus(s)
<1> DEFINE c == Compacted(s)
<1>1. /\ c.addressStatus = s.addressStatus
      /\ c.selfie = s.selfie /\ c.selfieStatus = s.selfieStatus
      /\ Documents(c) = Kept(s)
      /\ \A d \in Kept(s) : c.status[d] = s.status[d] /\ c.proof[d] = s.proof[d]
  BY CompactedParts
<1> HIDE DEF c
<1>2. OfProof(s, "identity") \subseteq Kept(s) /\ Kept(s) \subseteq Documents(s)
  BY DEF Kept, OfProof
<1>3. OfProof(c, "identity") = OfProof(s, "identity")
  BY <1>1, <1>2 DEF OfProof
<1>4. DocumentStatus(c) = DocumentStatus(s)
  BY <1>1, <1>2, <1>3 DEF DocumentStatus
<1>5. DocumentStatus(s) = "approved" => OfProof(s, "identity") # {}
  BY DEF DocumentStatus
<1>6. DocumentStatus(s) = "approved" => Documents(c) # {} /\ Documents(s) # {}
  BY <1>1, <1>2, <1>5
<1>. QED
  BY <1>1, <1>4, <1>6 DEF OverallStatus, c

\* updateKycSubmission.
LEMMA SavedKept ==
    ASSUME NEW s \in Submission, NEW k, Documents(s) \subseteq 1..k, WellKept(s), Saved(s)
    PROVE  /\ submission' \in Submission
           /\ Documents(submission') \subseteq 1..k
           /\ WellKept(submission') /\ OldIsAddress(submission')
<1>1. /\ Normalized(s) \in Submission /\ WellKept(Normalized(s))
      /\ Documents(Normalized(s)) = Documents(s)
  BY NormalizedKept, SameDocuments
<1>2. Documents(Compacted(Normalized(s))) \subseteq Documents(s)
  BY <1>1, CompactedParts DEF Kept
<1>. QED
  BY <1>1, <1>2, CompactedParts, CompactedKept DEF Saved

-----------------------------------------------------------------------------
LEMMA KycInvInit == KycInit => KycInv
<1> SUFFICES ASSUME KycInit PROVE KycInv
  OBVIOUS
<1> USE DEF KycInit
<1>1. /\ submission.status = [d \in Doc |-> "gone"]
      /\ submission.proof = [d \in Doc |-> "identity"]
      /\ submission.active = NoDoc /\ submission.address = NoDoc
      /\ submission.addressStatus = "pending"
      /\ submission \in Submission
  BY DEF EmptySubmission, Submission, KycStatus, Proof
<1>2. KycTypeOK
  BY <1>1, KycAssumption DEF KycTypeOK
<1>3. Documents(submission) = {}
  BY <1>1 DEF Documents
<1>4. WellKept(submission) /\ OldIsAddress(submission)
  BY <1>1, <1>3 DEF WellKept, OldIsAddress
<1>. QED
  BY <1>2, <1>3, <1>4 DEF KycInv, AccountInStep

\* The customer saves a submission.
LEMMA InvCustomerSaves ==
    ASSUME KycInv, NEW s \in Submission, NEW k \in 0..MaxDocs, uploaded' = k,
           Documents(s) \subseteq 1..k, WellKept(s), CustomerSaves(s)
    PROVE  KycInv'
<1>1. /\ submission' \in Submission
      /\ Documents(submission') \subseteq 1..k
      /\ WellKept(submission') /\ OldIsAddress(submission')
  BY SavedKept DEF CustomerSaves
<1>2. AccountInStep'
  BY DEF CustomerSaves, AccountInStep
<1>3. KycTypeOK'
  BY <1>1 DEF KycInv, KycTypeOK, CustomerSaves
<1>. QED
  BY <1>1, <1>2, <1>3 DEF KycInv

LEMMA InvSaveDocuments == KycInv /\ SaveDocuments => KycInv'
<1> SUFFICES ASSUME KycInv, SaveDocuments PROVE KycInv'
  OBVIOUS
<1> DEFINE d == uploaded + 1
           With(p) == [submission EXCEPT !.status[d] = "pending", !.proof[d] = p,
                                         !.active = d]
<1>1. PICK p \in Proof :
          /\ uploaded < MaxDocs /\ uploaded' = d
          /\ CustomerSaves(IF p = "aadhaar"
                           THEN [With(p) EXCEPT !.address = d, !.addressStatus = "pending"]
                           ELSE With(p))
  BY DEF SaveDocuments
<1> DEFINE s == IF p = "aadhaar"
                THEN [With(p) EXCEPT !.address = d, !.addressStatus = "pending"]
                ELSE With(p)
<1>2. /\ d \in Doc /\ d # NoDoc /\ d \in 0..MaxDocs
      /\ submission \in Submission
      /\ \A e \in Documents(submission) : e < d /\ e \in 1..d
  BY <1>1, KycAssumption DEF KycInv, KycTypeOK, Doc, NoDoc
<1>3. /\ s.status = [submission.status EXCEPT ![d] = "pending"]
      /\ s.proof = [submission.proof EXCEPT ![d] = p]
      /\ s.active = d
      /\ s.address = IF p = "aadhaar" THEN d ELSE submission.address
      /\ s.addressStatus = IF p = "aadhaar" THEN "pending" ELSE submission.addressStatus
      /\ s.selfie = submission.selfie /\ s.selfieStatus = submission.selfieStatus
      /\ s \in Submission
  BY <1>2 DEF Submission, KycStatus
<1> HIDE DEF s
<1>4. /\ Documents(s) = Documents(submission) \union {d}
      /\ \A e \in Documents(submission) : e # d
  BY <1>2, <1>3 DEF Documents, Submission
<1>5. Recent(s, d)
  <2>1. \A e \in Documents(s) : e <= d
    BY <1>2, <1>4 DEF Doc
  <2>. QED
    BY <1>2, <2>1, NewestRecent
<1>6. WellKept(s)
  <2>1. s.address = NoDoc \/ s.address \in OfProof(s, "aadhaar")
    BY <1>2, <1>3, <1>4 DEF KycInv, WellKept, OfProof, Submission
  <2>2. s.addressStatus = "approved" => s.address # NoDoc /\ s.status[s.address] = "approved"
    BY <1>2, <1>3, <1>4 DEF KycInv, WellKept, OfProof, Submission
  <2>. QED
    BY <1>3, <1>4, <1>5, <2>1, <2>2 DEF WellKept
<1>7. Documents(s) \subseteq 1..d
  BY <1>2, <1>4 DEF Doc
<1>8. CustomerSaves(s) /\ uploaded' = d
  BY <1>1 DEF s
<1>. QED
  BY <1>2, <1>3, <1>6, <1>7, <1>8, InvCustomerSaves

LEMMA InvSelfie == KycInv /\ (SaveSelfiePhoto \/ DeleteSelfie) => KycInv'
<1> SUFFICES ASSUME KycInv, NEW b \in BOOLEAN, UNCHANGED uploaded,
                    CustomerSaves([submission EXCEPT !.selfie = b,
                                                     !.selfieStatus = "pending"])
             PROVE  KycInv'
  BY DEF SaveSelfiePhoto, DeleteSelfie
<1> DEFINE s == [submission EXCEPT !.selfie = b, !.selfieStatus = "pending"]
<1>1. /\ s \in Submission
      /\ s.status = submission.status /\ s.proof = submission.proof
      /\ s.active = submission.active /\ s.address = submission.address
      /\ s.addressStatus = submission.addressStatus
      /\ uploaded \in 0..MaxDocs
  BY DEF KycInv, KycTypeOK, Submission, KycStatus
<1>2. CustomerSaves(s)
  OBVIOUS
<1> HIDE DEF s
<1>3. WellKept(s) /\ Documents(s) \subseteq 1..uploaded
  BY <1>1, SameDocuments DEF KycInv, WellKept
<1>. QED
  BY <1>1, <1>2, <1>3, InvCustomerSaves

LEMMA InvDeleteDocument == KycInv /\ DeleteDocument => KycInv'
<1> SUFFICES ASSUME KycInv, DeleteDocument PROVE KycInv'
  OBVIOUS
<1> DEFINE After(d) ==
        [Without(submission, d) EXCEPT
            !.active = IF @ \in Documents(Without(submission, d)) THEN @
                       ELSE Latest(Documents(Without(submission, d))),
            !.address = IF @ = d THEN NoDoc ELSE @,
            !.addressStatus = IF Without(submission, d).address = d THEN "pending" ELSE @]
<1>1. PICK d \in Documents(submission) : CustomerSaves(After(d)) /\ UNCHANGED uploaded
  BY DEF DeleteDocument
<1> DEFINE w == Without(submission, d)
           s == After(d)
<1>2. /\ submission \in Submission /\ d \in Doc /\ uploaded \in 0..MaxDocs
      /\ d # NoDoc
  BY DEF KycInv, KycTypeOK, Documents, Doc, NoDoc
<1>3. /\ w \in Submission
      /\ w.status = [submission.status EXCEPT ![d] = "gone"]
      /\ w.proof = [submission.proof EXCEPT ![d] = "identity"]
      /\ w.active = submission.active /\ w.address = submission.address
      /\ w.addressStatus = submission.addressStatus
  BY <1>2 DEF Without, Submission, Proof
<1>4. Documents(w) = Documents(submission) \ {d}
  BY <1>2, <1>3 DEF Documents, Submission
<1>5. /\ Latest(Documents(w)) \in Doc \union {NoDoc}
      /\ Documents(w) = {} => Latest(Documents(w)) = NoDoc
      /\ Documents(w) # {} => /\ Latest(Documents(w)) \in Documents(w)
                             /\ \A e \in Documents(w) : e <= Latest(Documents(w))
  <2>1. Documents(w) \subseteq Doc
    BY DEF Documents
  <2>. QED
    BY <2>1, LatestOf
<1> HIDE DEF w
<1>6. /\ s \in Submission
      /\ s.status = w.status /\ s.proof = w.proof
      /\ s.active = IF w.active \in Documents(w) THEN w.active ELSE Latest(Documents(w))
      /\ s.address = IF w.address = d THEN NoDoc ELSE w.address
      /\ s.addressStatus = IF w.address = d THEN "pending" ELSE w.addressStatus
  <2>1. s = [w EXCEPT
                !.active = IF @ \in Documents(w) THEN @ ELSE Latest(Documents(w)),
                !.address = IF @ = d THEN NoDoc ELSE @,
                !.addressStatus = IF w.address = d THEN "pending" ELSE @]
    BY DEF w
  <2> HIDE DEF s
  <2>. QED
    BY <1>3, <1>5, <2>1 DEF Submission, KycStatus
<1>7. CustomerSaves(s)
  BY <1>1
<1> HIDE DEF s
<1>8. Documents(s) = Documents(w) /\ \A e : Recent(s, e) = Recent(w, e)
  BY <1>6, SameDocuments
<1>9. WellKept(s)
  <2>1. \A e : Recent(submission, e) => Recent(w, e)
    BY <1>4, RecentMono
  <2>2. s.active # NoDoc => s.active \in Documents(s) /\ Recent(s, s.active)
    <3>1. CASE w.active \in Documents(w)
      <4>1. w.active # NoDoc /\ Recent(submission, w.active)
        BY <1>3, <1>4, <3>1 DEF KycInv, WellKept, Documents, Doc, NoDoc
      <4>. QED
        BY <1>6, <1>8, <2>1, <3>1, <4>1
    <3>2. CASE w.active \notin Documents(w) /\ Documents(w) # {}
      <4>1. Latest(Documents(w)) \in Doc
        BY <1>5, <3>2 DEF Documents
      <4>2. Recent(w, Latest(Documents(w)))
        BY <1>5, <3>2, <4>1, NewestRecent
      <4>. QED
        BY <1>5, <1>6, <1>8, <3>2, <4>2
    <3>3. CASE w.active \notin Documents(w) /\ Documents(w) = {}
      BY <1>5, <1>6, <3>3
    <3>. QED
      BY <3>1, <3>2, <3>3
  <2>3. s.address = NoDoc \/ s.address \in OfProof(s, "aadhaar")
    BY <1>2, <1>3, <1>4, <1>6, <1>8 DEF KycInv, WellKept, OfProof, Submission
  <2>4. s.addressStatus = "approved" => s.address # NoDoc /\ s.status[s.address] = "approved"
    BY <1>2, <1>3, <1>6 DEF KycInv, WellKept, Submission
  <2>. QED
    BY <2>2, <2>3, <2>4 DEF WellKept
<1>10. Documents(s) \subseteq 1..uploaded
  BY <1>4, <1>8 DEF KycInv
<1>. QED
  BY <1>1, <1>2, <1>6, <1>7, <1>9, <1>10, InvCustomerSaves

\* A review: the overall status it reports is the one the portal goes on to show.
LEMMA InvReview ==
    ASSUME KycInv, NEW s \in Submission, WellKept(s), s.proof = submission.proof,
           Documents(s) = Documents(submission), Review(s)
    PROVE  KycInv'
<1> DEFINE n == Normalized(s)
<1>1. /\ n \in Submission /\ n.status = s.status /\ n.proof = s.proof
  BY NormalizedKept
<1> HIDE DEF n
<1>2. /\ Documents(n) = Documents(submission)
      /\ \A d : Recent(n, d) = Recent(submission, d)
      /\ OfProof(n, "identity") = OfProof(submission, "identity")
  BY <1>1, SameDocuments DEF OfProof, Recent, Newer
<1>3. \A d \in OfProof(n, "identity") : Recent(n, d)
  <2>1. ASSUME NEW d \in OfProof(submission, "identity")
        PROVE  d # submission.address
    BY KycAssumption DEF KycInv, WellKept, OfProof, Documents, Doc, NoDoc
  <2>. QED
    BY <1>2, <2>1 DEF KycInv, OldIsAddress, OfProof
<1>4. OverallStatus(Compacted(n)) = OverallStatus(n)
  BY <1>1, <1>3, OverallKept
<1>5. submission' = Compacted(n)
  BY DEF Review, Saved, n
<1>6. /\ submission' \in Submission
      /\ Documents(submission') \subseteq 1..uploaded
      /\ WellKept(submission') /\ OldIsAddress(submission')
  BY SavedKept DEF Review, KycInv
<1>7. OverallStatus(n) \in KycStatus
  BY DEF OverallStatus, KycStatus, Decision
<1>8. /\ report' \in [Report -> KycStatus \union {"none"}]
      /\ apart' \in BOOLEAN
      /\ UNCHANGED <<uploaded, account, loaded>>
      /\ AccountInStep'
  <2>0. report \in [Report -> KycStatus \union {"none"}]
    BY DEF KycInv, KycTypeOK
  <2>1. CASE \E c \in Report :
                /\ report[c] = "none"
                /\ report' = [report EXCEPT ![c] = OverallStatus(n)]
                /\ apart' = ~NoReport
    <3>1. PICK c \in Report :
                /\ report' = [report EXCEPT ![c] = OverallStatus(n)]
                /\ apart' = ~NoReport
      BY <2>1
    <3>2. report'[c] = OverallStatus(submission')
      BY <1>4, <1>5, <2>0, <3>1
    <3>3. ~apart' => \A e \in Report \ {c} : report'[e] = "none"
      BY <2>0, <3>1 DEF NoReport
    <3>4. AccountInStep'
      BY <3>2, <3>3 DEF AccountInStep
    <3>5. apart' \in BOOLEAN
      BY <3>1 DEF NoReport
    <3>. QED
      BY <1>7, <2>0, <3>1, <3>4, <3>5 DEF Review
  <2>2. CASE UNCHANGED report /\ apart' = TRUE
    BY <2>0, <2>2 DEF Review, AccountInStep
  <2>. QED
    BY <2>1, <2>2 DEF Review, n
<1>. QED
  BY <1>6, <1>8 DEF KycInv, KycTypeOK

\* A review that decides nothing reports all the same.
LEMMA InvReviewNothing == KycInv /\ Review(submission) => KycInv'
  BY InvReview DEF KycInv, KycTypeOK

LEMMA InvReviewIdentity == KycInv /\ ReviewIdentity => KycInv'
<1> SUFFICES ASSUME KycInv, NEW d \in 1..uploaded, NEW decision \in Decision,
                    Review(IF d \in OfProof(submission, "identity")
                           THEN [submission EXCEPT !.status[d] = decision, !.active = d]
                           ELSE submission)
             PROVE  KycInv'
  BY DEF ReviewIdentity
<1> DEFINE s == [submission EXCEPT !.status[d] = decision, !.active = d]
<1>1. CASE d \in OfProof(submission, "identity")
  <2>1. /\ submission \in Submission /\ d \in Doc /\ d # NoDoc
        /\ d \in Documents(submission) /\ submission.proof[d] = "identity"
    BY <1>1 DEF KycInv, KycTypeOK, OfProof, Documents, Doc, NoDoc
  <2>2. /\ s \in Submission
        /\ s.status = [submission.status EXCEPT ![d] = decision]
        /\ s.proof = submission.proof /\ s.active = d
        /\ s.address = submission.address
        /\ s.addressStatus = submission.addressStatus
    BY <2>1 DEF Submission, KycStatus, Decision
  <2>3. Review(s)
    BY <1>1
  <2> HIDE DEF s
  <2>4. Documents(s) = Documents(submission)
    BY <2>1, <2>2 DEF Documents, Submission, Decision
  <2>5. d # submission.address
    BY <2>1 DEF KycInv, WellKept, OfProof
  <2>6. Recent(s, d)
    BY <2>1, <2>4, <2>5 DEF KycInv, OldIsAddress, Recent, Newer
  <2>7. OfProof(s, "aadhaar") = OfProof(submission, "aadhaar")
    BY <2>2, <2>4 DEF OfProof
  <2>8. s.addressStatus = "approved" => s.address # NoDoc /\ s.status[s.address] = "approved"
    BY <2>1, <2>2, <2>5 DEF KycInv, WellKept, Submission
  <2>9. WellKept(s)
    BY <2>1, <2>2, <2>4, <2>6, <2>7, <2>8 DEF KycInv, WellKept
  <2>. QED
    BY <2>2, <2>3, <2>4, <2>9, InvReview
<1>2. CASE d \notin OfProof(submission, "identity")
  BY <1>2, InvReviewNothing
<1>. QED
  BY <1>1, <1>2

LEMMA InvReviewAddress == KycInv /\ ReviewAddress => KycInv'
<1> SUFFICES ASSUME KycInv, NEW d \in 1..uploaded, NEW decision \in Decision,
                    Review(IF d \in OfProof(submission, "aadhaar")
                           THEN [submission EXCEPT !.status[d] = decision, !.address = d,
                                                   !.addressStatus = decision]
                           ELSE submission)
             PROVE  KycInv'
  BY DEF ReviewAddress
<1> DEFINE s == [submission EXCEPT !.status[d] = decision, !.address = d,
                                   !.addressStatus = decision]
<1>1. CASE d \in OfProof(submission, "aadhaar")
  <2>1. /\ submission \in Submission /\ d \in Doc /\ d # NoDoc
        /\ d \in Documents(submission) /\ submission.proof[d] = "aadhaar"
    BY <1>1 DEF KycInv, KycTypeOK, OfProof, Documents, Doc, NoDoc
  <2>2. /\ s \in Submission
        /\ s.status = [submission.status EXCEPT ![d] = decision]
        /\ s.proof = submission.proof /\ s.active = submission.active
        /\ s.address = d /\ s.addressStatus = decision
    BY <2>1 DEF Submission, KycStatus, Decision
  <2>3. Review(s)
    BY <1>1
  <2> HIDE DEF s
  <2>4. Documents(s) = Documents(submission)
    BY <2>1, <2>2 DEF Documents, Submission, Decision
  <2>5. \A e : Recent(s, e) = Recent(submission, e)
    BY <2>4 DEF Recent, Newer
  <2>6. s.address \in OfProof(s, "aadhaar")
    BY <2>1, <2>2, <2>4 DEF OfProof
  <2>7. s.addressStatus = "approved" => s.address # NoDoc /\ s.status[s.address] = "approved"
    BY <2>1, <2>2 DEF Submission
  <2>8. WellKept(s)
    BY <2>2, <2>4, <2>5, <2>6, <2>7 DEF KycInv, WellKept
  <2>. QED
    BY <2>2, <2>3, <2>4, <2>8, InvReview
<1>2. CASE d \notin OfProof(submission, "aadhaar")
  BY <1>2, InvReviewNothing
<1>. QED
  BY <1>1, <1>2

LEMMA InvReviewSelfie == KycInv /\ ReviewSelfie => KycInv'
<1> SUFFICES ASSUME KycInv, NEW decision \in Decision,
                    Review([submission EXCEPT !.selfieStatus = decision])
             PROVE  KycInv'
  BY DEF ReviewSelfie
<1> DEFINE s == [submission EXCEPT !.selfieStatus = decision]
<1>1. /\ s \in Submission
      /\ s.status = submission.status /\ s.proof = submission.proof
      /\ s.active = submission.active /\ s.address = submission.address
      /\ s.addressStatus = submission.addressStatus
  BY DEF KycInv, KycTypeOK, Submission, KycStatus, Decision
<1>2. Review(s)
  OBVIOUS
<1> HIDE DEF s
<1>3. WellKept(s) /\ Documents(s) = Documents(submission)
  BY <1>1, SameDocuments DEF KycInv, WellKept
<1>. QED
  BY <1>1, <1>2, <1>3, InvReview

\* What account-service does leaves the submission alone.
LEMMA InvAccountService ==
    ASSUME KycInv,
           \/ OpenWithKycStatus \/ DeleteAccount \/ SetAccountKyc
           \/ LoadAccount \/ SaveStaleAccount
           \/ \E c \in Report : UpdateKyc(c) \/ ReportLost(c)
    PROVE  KycInv'
<1>0. /\ UNCHANGED <<submission, uploaded>>
      /\ report \in [Report -> KycStatus \union {"none"}]
      /\ account \in KycStatus \union {"none"} /\ apart \in BOOLEAN
      /\ loaded \subseteq KycStatus
  BY DEF OpenWithKycStatus, DeleteAccount, SetAccountKyc, LoadAccount, SaveStaleAccount,
         UpdateKyc, ReportLost, KycInv, KycTypeOK
<1>1. /\ report' \in [Report -> KycStatus \union {"none"}]
      /\ account' \in KycStatus \union {"none"} /\ apart' \in BOOLEAN
      /\ loaded' \subseteq KycStatus
  <2>1. CASE OpenWithKycStatus \/ DeleteAccount \/ LoadAccount \/ SaveStaleAccount
    BY <1>0, <2>1
    DEF OpenWithKycStatus, DeleteAccount, LoadAccount, SaveStaleAccount, KycStatus, Decision
  <2>2. CASE SetAccountKyc
    BY <1>0, <2>2 DEF SetAccountKyc, KycStatus
  <2>3. ASSUME NEW c \in Report, UpdateKyc(c) \/ ReportLost(c)
        PROVE  /\ report' \in [Report -> KycStatus \union {"none"}]
               /\ account' \in KycStatus \union {"none"} /\ apart' \in BOOLEAN
               /\ loaded' \subseteq KycStatus
    BY <1>0, <2>3 DEF UpdateKyc, ReportLost
  <2>. QED
    BY <2>1, <2>2, <2>3
<1>2. AccountInStep'
  <2>1. CASE \/ OpenWithKycStatus \/ DeleteAccount \/ SetAccountKyc \/ SaveStaleAccount
             \/ \E c \in Report : ReportLost(c)
    BY <2>1
    DEF OpenWithKycStatus, DeleteAccount, SetAccountKyc, SaveStaleAccount, ReportLost,
        AccountInStep
  <2>2. ASSUME NEW c \in Report, UpdateKyc(c), ~apart
        PROVE  NoReport' /\ account' = OverallStatus(submission')
    <3>1. /\ report[c] # "none" /\ account' = report[c]
          /\ report' = [report EXCEPT ![c] = "none"]
      BY <2>2 DEF UpdateKyc
    <3>2. PICK e \in Report :
              /\ report[e] = OverallStatus(submission)
              /\ \A f \in Report \ {e} : report[f] = "none"
      BY <2>2, <3>1 DEF KycInv, AccountInStep, NoReport
    <3>3. e = c
      BY <3>1, <3>2
    <3>4. NoReport'
      BY <1>0, <3>1, <3>2, <3>3 DEF NoReport
    <3>. QED
      BY <1>0, <3>1, <3>2, <3>3, <3>4
  <2>3. ASSUME NEW c \in Report, UpdateKyc(c)
        PROVE  AccountInStep'
    <3>1. apart' = apart
      BY <2>3 DEF UpdateKyc
    <3>. QED
      BY <2>2, <2>3, <3>1 DEF AccountInStep
  <2>4. CASE LoadAccount
    BY <2>4 DEF LoadAccount, KycInv, AccountInStep, NoReport
  <2>. QED
    BY <2>1, <2>3, <2>4
<1>. QED
  BY <1>0, <1>1, <1>2 DEF KycInv, KycTypeOK

LEMMA KycInvNext == KycInv /\ [KycNext]_kycVars => KycInv'
<1> SUFFICES ASSUME KycInv, [KycNext]_kycVars PROVE KycInv'
  OBVIOUS
<1>1. CASE SaveDocuments
  BY <1>1, InvSaveDocuments
<1>2. CASE SaveSelfiePhoto \/ DeleteSelfie
  BY <1>2, InvSelfie
<1>3. CASE DeleteDocument
  BY <1>3, InvDeleteDocument
<1>4. CASE ReviewIdentity
  BY <1>4, InvReviewIdentity
<1>5. CASE ReviewAddress
  BY <1>5, InvReviewAddress
<1>6. CASE ReviewSelfie
  BY <1>6, InvReviewSelfie
<1>7. CASE \/ OpenWithKycStatus \/ DeleteAccount \/ SetAccountKyc
           \/ LoadAccount \/ SaveStaleAccount
           \/ \E c \in Report : UpdateKyc(c) \/ ReportLost(c)
  BY <1>7, InvAccountService
<1>8. CASE UNCHANGED kycVars
  <2>1. UNCHANGED <<submission, uploaded, account, loaded, report, apart>>
    BY <1>8 DEF kycVars
  <2>. QED
    BY <2>1 DEF KycInv, KycTypeOK, AccountInStep, NoReport
<1>. QED
  BY <1>1, <1>2, <1>3, <1>4, <1>5, <1>6, <1>7, <1>8 DEF KycNext

-----------------------------------------------------------------------------
LEMMA KycInvariant == KycSpec => []KycInv
  BY KycInvInit, KycInvNext, PTL DEF KycSpec

\* Every reachable state has the types that the portal's stores declare.
THEOREM KycTypeCorrect == KycSpec => []KycTypeOK
<1>1. KycInv => KycTypeOK
  BY DEF KycInv
<1>. QED
  BY <1>1, KycInvariant, PTL

\* No customer is shown as approved on evidence that is no longer held, or was
\* not what was approved, however long the history the portal keeps.
THEOREM ApprovedOnEvidence == KycSpec => []ApprovedOnHeldEvidence
<1>1. KycInv => ApprovedOnHeldEvidence
  <2> SUFFICES ASSUME KycInv, OverallStatus(submission) = "approved"
               PROVE  /\ OfProof(submission, "identity") # {}
                      /\ \A d \in OfProof(submission, "identity") :
                             submission.status[d] = "approved"
                      /\ submission.address \in OfProof(submission, "aadhaar")
                      /\ submission.status[submission.address] = "approved"
                      /\ submission.selfie
    BY DEF ApprovedOnHeldEvidence
  <2>1. /\ submission.selfie
        /\ {DocumentStatus(submission), submission.selfieStatus,
            submission.addressStatus} = {"approved"}
    BY DEF OverallStatus
  <2>2. DocumentStatus(submission) = "approved" /\ submission.addressStatus = "approved"
    BY <2>1
  <2>3. /\ OfProof(submission, "identity") # {}
        /\ \A d \in OfProof(submission, "identity") : submission.status[d] = "approved"
    BY <2>2 DEF DocumentStatus
  <2>. QED
    BY <2>1, <2>2, <2>3 DEF KycInv, WellKept
<1>. QED
  BY <1>1, KycInvariant, PTL

\* Once a report has arrived undisturbed, the account has the status the portal
\* shows, however many documents the compaction has dropped, until account-service
\* saves what a handler has loaded before.
THEOREM AccountAgrees == KycSpec => []AccountFollowsReview
<1>1. KycInv => AccountFollowsReview
  <2> SUFFICES ASSUME KycInv, ~apart, NoReport
               PROVE  account = OverallStatus(submission)
    BY DEF AccountFollowsReview
  <2>1. OverallStatus(submission) # "none"
    BY DEF OverallStatus
  <2>. QED
    BY <2>1 DEF KycInv, AccountInStep, NoReport
<1>. QED
  BY <1>1, KycInvariant, PTL
=============================================================================
