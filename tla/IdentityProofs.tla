---------------------------- MODULE IdentityProofs ----------------------------
(***************************************************************************)
(* Proofs about the parts of MCIdentity: one-time codes, the cache of the  *)
(* guards, the circuit breaker and the page for transfers, for any number  *)
(* of requests, codes, records, calls, payees and handlers and any bounds  *)
(* of the clocks; and of the composition, with AuthSessionsProofs.         *)
(***************************************************************************)
EXTENDS MCIdentity, AuthSessionsProofs, FiniteSetTheorems, WellFoundedInduction, TLAPS

-----------------------------------------------------------------------------
(* One-time codes.                                                         *)

\* The code has not been put under the key, and may still be.
Unset(c) ==
    \/ issuing[c] \in {"new", "row", "key"}
    \/ ~inTable /\ issuing[c] = "mail"

\* Rows are numbered in the order they were inserted.
RowsNumbered ==
    /\ \A c \in Code : born[c] <= Cardinality({d \in Code : born[d] > 0})
    /\ \A c, d \in Code : born[c] = born[d] /\ born[c] > 0 => c = d
    /\ \A c \in Code : issuing[c] \in {"new", "row"} \/ ~inTable => born[c] = 0
    /\ \A c \in Code : issuing[c] = "row" => inTable

\* The key never holds a code that is over: it is written once with each, before
\* the code that replaces it.
KeySound ==
    /\ \A c \in Code : key = c => ~Unset(c)
    /\ \A c \in dead : ~Unset(c) /\ key # c
    /\ \A c \in Code : \A d \in earlier[c] :
           issuing[d] = "issued" /\ (~Unset(c) => key # d)

\* What a verification has read was there after it began, and what it has
\* matched is what it was given.
VerifySound(v) ==
    /\ deadThen[v] \subseteq dead
    /\ foundKey[v] \notin deadThen[v]
    /\ \A c \in Code : foundKey[v] = c => ~Unset(c)
    /\ verifying[v] = "idle" => foundKey[v] = NoCode
    /\ verifying[v] # "reading" => (verifying[v] \in {"clearing", "failing"} \/ pending[v] = {})
    /\ ~inTable => "row" \notin pending[v]
    /\ verifying[v] \in {"clearing", "failing", "accepted"} =>
           /\ tried[v] \in Code /\ foundKey[v] = tried[v]
           /\ inTable => foundRow[v] = tried[v]
    /\ verifying[v] \in {"clearing", "accepted"} /\ "key" \notin pending[v] =>
           key # tried[v]

\* The inductive invariant.
CodesInv ==
    /\ CodesTypeOK
    /\ RowsNumbered
    /\ KeySound
    /\ \A v \in Verification : VerifySound(v)

\* The order of the numbers is well founded.
Smaller == {p \in Nat \X Nat : p[1] < p[2]}

LEMMA LeastNumber ==
    ASSUME NEW T \in SUBSET Nat, T # {}
    PROVE  \E x \in T : \A y \in T : x <= y
<1>1. IsWellFoundedOn(Smaller, Nat)
  BY NatLessThanWellFounded DEF OpToRel, Smaller
<1>2. PICK x \in T : \A y \in T : <<y, x>> \notin Smaller
  BY <1>1, WFMin
<1>3. \A y \in T : x \in Nat /\ y \in Nat /\ ~(y < x)
  BY <1>2 DEF Smaller
<1>. QED
  BY <1>3

\* Of some codes, one has the latest row.
LEMMA LargestRow ==
    ASSUME CodesTypeOK, NEW S \in SUBSET Code, S # {}
    PROVE  \E c \in S : \A d \in S : born[d] <= born[c]
<1> DEFINE most == Cardinality(Code)
           T == {n \in Nat : \E d \in S : n = most - born[d]}
<1>1. most \in Nat /\ \A d \in S : born[d] \in 0..most
  BY CodesAssumption, FS_CardinalityType DEF CodesTypeOK
<1>2. PICK d \in S : TRUE
  OBVIOUS
<1>3. most - born[d] \in T
  BY <1>1
<1> HIDE DEF T
<1>4. PICK x \in T : \A y \in T : x <= y
  BY <1>3, LeastNumber DEF T
<1>5. PICK c \in S : x = most - born[c]
  BY <1>4 DEF T
<1>6. ASSUME NEW e \in S PROVE born[e] <= born[c]
  <2>1. most - born[e] \in T
    BY <1>1 DEF T
  <2>. QED
    BY <1>1, <1>4, <1>5, <2>1
<1>. QED
  BY <1>6

\* findActiveOtp returns a row, or nothing when none is active.
LEMMA LatestRowActive ==
    ASSUME CodesTypeOK
    PROVE  /\ LatestRow \in Code \union {NoCode}
           /\ \A c \in ActiveRows :
                  RowsNumbered /\ (\A d \in Code : born[d] <= born[c]) => LatestRow = c
<1>1. ActiveRows \in SUBSET Code
  BY DEF ActiveRows
<1>2. CASE ActiveRows = {}
  BY <1>2 DEF LatestRow
<1>3. CASE ActiveRows # {}
  <2>1. \E c \in ActiveRows : \A d \in ActiveRows : born[d] <= born[c]
    BY <1>1, <1>3, LargestRow
  <2>2. LatestRow \in ActiveRows /\ \A d \in ActiveRows : born[d] <= born[LatestRow]
    BY <1>3, <2>1 DEF LatestRow
  <2>3. ASSUME NEW c \in ActiveRows, RowsNumbered, \A d \in Code : born[d] <= born[c]
        PROVE  LatestRow = c
    <3>1. born[c] <= born[LatestRow] /\ born[LatestRow] <= born[c]
      BY <1>1, <2>2, <2>3
    <3>2. born[c] \in Nat /\ born[LatestRow] \in Nat /\ born[c] > 0
      BY <1>1, <2>2, CodesAssumption, FS_CardinalityType DEF ActiveRows, CodesTypeOK
    <3>. QED
      BY <1>1, <2>2, <2>3, <3>1, <3>2 DEF RowsNumbered
  <2>. QED
    BY <1>1, <2>2, <2>3
<1>. QED
  BY <1>2, <1>3

\* A new row has a number above all others.
LEMMA RowInserted ==
    ASSUME CodesInv, NEW c \in Code, CreateOtp(c)
    PROVE  /\ RowsNumbered'
           /\ born' \in [Code -> 0..Cardinality(Code)]
           /\ born'[c] > 0 /\ \A d \in Code \ {c} : born'[d] = born[d] /\ born[d] < born'[c]
<1> DEFINE old == {d \in Code : born[d] > 0}
           new == {d \in Code : born'[d] > 0}
           n == Cardinality(old)
<1>1. /\ born \in [Code -> 0..Cardinality(Code)]
      /\ born' = [born EXCEPT ![c] = 1 + n]
      /\ issuing[c] = "row" /\ issuing' = [issuing EXCEPT ![c] = "key"]
      /\ UNCHANGED inTable
  BY DEF CreateOtp, StepIssue, CodesInv, CodesTypeOK
<1>2. old \in SUBSET Code /\ new \in SUBSET Code /\ IsFiniteSet(Code)
  BY CodesAssumption
<1>3. IsFiniteSet(old) /\ n \in Nat
  BY <1>2, FS_Subset, FS_CardinalityType
<1>4. born[c] = 0 /\ c \notin old
  BY <1>1 DEF CodesInv, RowsNumbered
<1>5. born'[c] = 1 + n /\ \A d \in Code \ {c} : born'[d] = born[d]
  BY <1>1
<1>6. new = old \union {c}
  BY <1>3, <1>5
<1>7. Cardinality(new) = n + 1
  BY <1>3, <1>4, <1>6, FS_AddElement
<1>8. n + 1 <= Cardinality(Code) /\ Cardinality(Code) \in Nat
  BY <1>2, <1>7, FS_Subset, FS_CardinalityType
<1>9. \A d \in Code : born[d] <= n /\ born[d] \in Nat
  BY <1>1, <1>8 DEF CodesInv, RowsNumbered
<1>10. born' \in [Code -> 0..Cardinality(Code)]
  BY <1>1, <1>3, <1>8
<1>11. \A d \in Code : born'[d] <= Cardinality(new)
  BY <1>3, <1>5, <1>7, <1>9
<1>12. \A d, e \in Code : born'[d] = born'[e] /\ born'[d] > 0 => d = e
  BY <1>3, <1>5, <1>9 DEF CodesInv, RowsNumbered
<1>13. \A d \in Code : issuing'[d] \in {"new", "row"} \/ ~inTable' => born'[d] = 0
  BY <1>1, <1>5 DEF CodesInv, RowsNumbered, CodesTypeOK
<1>14. \A d \in Code : issuing'[d] = "row" => inTable'
  BY <1>1 DEF CodesInv, RowsNumbered
<1>15. RowsNumbered'
  BY <1>11, <1>12, <1>13, <1>14 DEF RowsNumbered
<1>. QED
  BY <1>3, <1>5, <1>9, <1>10, <1>15

\* What the other steps leave of a verification's invariant: a code can be put
\* under the key only if no one has found it there yet.
LEMMA VerifyKept ==
    ASSUME CodesInv, NEW v \in Verification,
           inTable' = inTable, verifying'[v] = verifying[v], tried'[v] = tried[v],
           pending'[v] = pending[v], foundRow'[v] = foundRow[v],
           foundKey'[v] = foundKey[v], deadThen'[v] = deadThen[v],
           dead \subseteq dead',
           \A c \in Code : Unset(c)' => Unset(c),
           key' \in {key, NoCode} \union {c \in Code : Unset(c)}
    PROVE  VerifySound(v)'
<1>1. VerifySound(v) /\ tried[v] \in Code \union {NoCode}
  BY DEF CodesInv, CodesTypeOK
<1>2. verifying[v] \in {"clearing", "accepted"} /\ "key" \notin pending[v] => key' # tried[v]
  BY <1>1, CodesAssumption DEF VerifySound
<1>3. \A c \in Code : foundKey'[v] = c => ~Unset(c)'
  BY <1>1 DEF VerifySound
<1>. QED
  BY <1>1, <1>2, <1>3 DEF VerifySound

\* A step of a verification leaves what holds of the codes, unless it answers.
LEMMA KeyKept ==
    ASSUME CodesInv, UNCHANGED <<inTable, issuing, earlier, dead>>, key' \in {key, NoCode}
    PROVE  KeySound' /\ \A c \in Code : Unset(c)' <=> Unset(c)
<1>1. \A c \in Code : Unset(c)' <=> Unset(c)
  BY DEF Unset
<1>2. dead \subseteq Code /\ \A c \in Code : earlier[c] \subseteq Code
  BY DEF CodesInv, CodesTypeOK
<1>. QED
  BY <1>1, <1>2, CodesAssumption DEF CodesInv, KeySound

LEMMA CodesInvInit == CodesInit => CodesInv
<1> SUFFICES ASSUME CodesInit PROVE CodesInv
  OBVIOUS
<1>1. Cardinality(Code) \in Nat /\ Cardinality({}) = 0
  BY CodesAssumption, FS_CardinalityType, FS_EmptySet
<1>2. {d \in Code : born[d] > 0} = {}
  BY DEF CodesInit
<1>3. CodesTypeOK
  <2>1. 0 \in 0..Cardinality(Code)
    BY <1>1
  <2>2. born \in [Code -> 0..Cardinality(Code)]
    BY <2>1 DEF CodesInit
  <2>. QED
    BY <2>2 DEF CodesInit, CodesTypeOK
<1>4. RowsNumbered
  BY <1>1, <1>2 DEF CodesInit, RowsNumbered
<1>5. KeySound
  BY CodesAssumption DEF CodesInit, KeySound, Unset
<1>6. \A v \in Verification : VerifySound(v)
  BY CodesAssumption DEF CodesInit, VerifySound
<1>. QED
  BY <1>3, <1>4, <1>5, <1>6 DEF CodesInv

\* Issuing a code: nothing of the verifications changes but the key.
LEMMA InvIssuing ==
    ASSUME CodesInv, NEW c \in Code,
           Issue(c) \/ CreateOtp(c) \/ SetOtp(c) \/ SendOtp(c) \/ IssueFails(c)
    PROVE  CodesInv'
<1>0. /\ CodesTypeOK /\ RowsNumbered /\ KeySound
      /\ \A v \in Verification : VerifySound(v)
      /\ NoCode \notin Code
  BY CodesAssumption DEF CodesInv
<1>1. CodesTypeOK'
  <2>1. born' \in [Code -> 0..Cardinality(Code)]
    BY RowInserted DEF CodesInv, CodesTypeOK, Issue, CreateOtp, SetOtp, SendOtp, IssueFails
  <2>2. CASE Issue(c)
    BY <1>0, <2>1, <2>2 DEF Issue, CodesTypeOK, StepIssue, verifyVars, AtRest
  <2>3. CASE CreateOtp(c)
    BY <1>0, <2>1, <2>3 DEF CreateOtp, CodesTypeOK, StepIssue, verifyVars
  <2>4. CASE SetOtp(c) \/ SendOtp(c)
    BY <1>0, <2>1, <2>4 DEF SetOtp, SendOtp, Replaces, CodesTypeOK, StepIssue, verifyVars
  <2>5. CASE IssueFails(c)
    BY <1>0, <2>1, <2>5 DEF IssueFails, CodesTypeOK, verifyVars
  <2>. QED
    BY <2>2, <2>3, <2>4, <2>5
<1>2. RowsNumbered'
  <2>1. CASE CreateOtp(c)
    BY <2>1, RowInserted
  <2>2. CASE ~CreateOtp(c)
    <3>1. UNCHANGED <<born, inTable>>
      BY <2>2 DEF Issue, SetOtp, SendOtp, IssueFails
    <3>2. \A d \in Code : /\ issuing'[d] \in {"new", "row"} => issuing[d] \in {"new", "row"}
                          /\ issuing'[d] = "row" => inTable
      BY <1>0, <2>2
      DEF CodesTypeOK, RowsNumbered, Issue, SetOtp, SendOtp, IssueFails, StepIssue
    <3>. QED
      BY <1>0, <3>1, <3>2 DEF RowsNumbered
  <2>. QED
    BY <2>1, <2>2
<1>3. /\ \A d \in Code : Unset(d)' => Unset(d)
      /\ \A d \in Code : issuing[d] = "issued" => issuing'[d] = "issued"
      /\ \A d \in Code \ {c} : (Unset(d)' <=> Unset(d)) /\ issuing'[d] = issuing[d]
      /\ UNCHANGED inTable /\ issuing[c] # "issued"
  BY <1>0
  DEF CodesTypeOK, RowsNumbered, Unset, Issue, CreateOtp, SetOtp, SendOtp, IssueFails,
      StepIssue
<1>4. \/ key' = key
      \/ key' = c /\ Unset(c) /\ ~Unset(c)'
  <2>1. CASE SetOtp(c)
    BY <1>0, <2>1 DEF CodesTypeOK, Unset, SetOtp, StepIssue
  <2>2. CASE ~SetOtp(c)
    BY <2>2 DEF Issue, CreateOtp, SendOtp, IssueFails
  <2>. QED
    BY <2>1, <2>2
<1>5. \A d \in dead' \ dead :
          /\ d \in earlier[c] /\ ~Unset(c)'
          /\ key' = c \/ (key' = key /\ ~Unset(c))
  <2>1. CASE SetOtp(c)
    BY <1>0, <2>1 DEF CodesTypeOK, Unset, SetOtp, StepIssue, Replaces
  <2>2. CASE SendOtp(c)
    BY <1>0, <2>2 DEF CodesTypeOK, Unset, SendOtp, StepIssue, Replaces
  <2>3. CASE ~SetOtp(c) /\ ~SendOtp(c)
    BY <2>3 DEF Issue, CreateOtp, IssueFails
  <2>. QED
    BY <2>1, <2>2, <2>3
<1>6. /\ \A d \in Code \ {c} : earlier'[d] = earlier[d]
      /\ \/ earlier'[c] \in {earlier[c], {}}
         \/ Unset(c)' /\ earlier'[c] = {d \in Code : issuing[d] = "issued"}
      /\ Unset(c) /\ ~Unset(c)' => key' = c \/ earlier'[c] = {}
  BY <1>0
  DEF CodesTypeOK, Unset, Issue, CreateOtp, SetOtp, SendOtp, IssueFails, StepIssue,
      Replaces
<1>7. KeySound'
  <2>1. ASSUME NEW d \in Code, key' = d PROVE ~Unset(d)'
    BY <1>0, <1>3, <1>4, <2>1 DEF KeySound
  <2>2. ASSUME NEW d \in Code, NEW e \in earlier'[d]
        PROVE  issuing'[e] = "issued" /\ (~Unset(d)' => key' # e)
    <3>1. e \in Code /\ issuing[e] = "issued" /\ e # c
      BY <1>0, <1>3, <1>6, <2>2 DEF KeySound, CodesTypeOK
    <3>2. CASE d # c
      BY <1>0, <1>3, <1>4, <1>6, <2>2, <3>1, <3>2 DEF KeySound
    <3>3. CASE d = c
      BY <1>0, <1>3, <1>4, <1>6, <2>2, <3>1, <3>3 DEF KeySound
    <3>. QED
      BY <3>2, <3>3
  <2>3. ASSUME NEW d \in dead' PROVE ~Unset(d)' /\ key' # d
    <3>1. CASE d \in dead
      BY <1>0, <1>3, <1>4, <3>1 DEF KeySound, CodesTypeOK
    <3>2. CASE d \notin dead
      <4>1. /\ d \in earlier[c] /\ ~Unset(c)' /\ d \in Code
            /\ key' = c \/ (key' = key /\ ~Unset(c))
        <5>1. earlier[c] \subseteq Code
          BY <1>0 DEF CodesTypeOK
        <5>2. d \in dead' \ dead
          BY <2>3, <3>2
        <5>. QED
          BY <1>5, <5>1, <5>2
      <4>2. issuing[d] = "issued" /\ (~Unset(c) => key # d) /\ d # c
        BY <1>0, <1>3, <4>1 DEF KeySound
      <4>3. ~Unset(d)'
        BY <1>3, <4>1, <4>2 DEF Unset
      <4>4. key' # d
        BY <4>1, <4>2
      <4>. QED
        BY <4>3, <4>4
    <3>. QED
      BY <3>1, <3>2
  <2>. QED
    BY <2>1, <2>2, <2>3 DEF KeySound
<1>8. ASSUME NEW v \in Verification PROVE VerifySound(v)'
  <2>1. UNCHANGED verifyVars /\ dead \subseteq dead'
    BY DEF Issue, CreateOtp, SetOtp, SendOtp, IssueFails, Replaces
  <2>. QED
    BY <1>3, <1>4, <2>1, VerifyKept DEF verifyVars
<1>. QED
  BY <1>1, <1>2, <1>7, <1>8 DEF CodesInv

\* A row or the key expires.
LEMMA InvExpiry ==
    ASSUME CodesInv, KeyExpires \/ \E c \in Code : RowExpires(c)
    PROVE  CodesInv'
<1>0. CodesTypeOK /\ RowsNumbered
  BY DEF CodesInv
<1>1. /\ UNCHANGED <<inTable, issuing, born, dead, earlier, verifyVars>>
      /\ key' \in {key, NoCode}
  BY DEF KeyExpires, RowExpires
<1>2. expired' \subseteq Code /\ unsettled' = TRUE /\ UNCHANGED <<usedUp, mailed>>
  BY <1>0 DEF KeyExpires, RowExpires, CodesTypeOK
<1>3. CodesTypeOK'
  BY <1>0, <1>1, <1>2 DEF CodesTypeOK, verifyVars
<1>4. RowsNumbered'
  BY <1>0, <1>1 DEF RowsNumbered
<1>5. KeySound' /\ \A c \in Code : Unset(c)' <=> Unset(c)
  BY <1>1, KeyKept
<1>6. ASSUME NEW v \in Verification PROVE VerifySound(v)'
  BY <1>1, <1>5, VerifyKept DEF verifyVars
<1>. QED
  BY <1>3, <1>4, <1>5, <1>6 DEF CodesInv

\* What a step of one verification changes.
LEMMA VerifyingFrame ==
    ASSUME CodesInv, NEW v \in Verification,
           \/ Verify(v) \/ ReadRow(v) \/ ReadKey(v) \/ Compare(v)
           \/ MarkOtpUsed(v) \/ DeleteOtp(v) \/ Accept(v)
           \/ VerifyFails(v) \/ LateStatement(v) \/ AnswerVerify(v)
    PROVE  /\ UNCHANGED <<born, expired, issueVars>>
           /\ key' \in {key, NoCode}
           /\ dead \subseteq dead'
           /\ \A w \in Verification \ {v} :
                  /\ verifying'[w] = verifying[w] /\ tried'[w] = tried[w]
                  /\ pending'[w] = pending[w] /\ foundRow'[w] = foundRow[w]
                  /\ foundKey'[w] = foundKey[w] /\ deadThen'[w] = deadThen[w]
<1>0. CodesTypeOK
  BY DEF CodesInv
<1>1. CASE Verify(v) \/ ReadRow(v) \/ ReadKey(v)
  BY <1>0, <1>1 DEF CodesTypeOK, Verify, ReadRow, ReadKey, StepVerify, Awaits
<1>2. CASE Compare(v) \/ MarkOtpUsed(v) \/ DeleteOtp(v) \/ Accept(v)
  BY <1>0, <1>2 DEF CodesTypeOK, Compare, MarkOtpUsed, DeleteOtp, Accept, StepVerify, Awaits
<1>3. CASE VerifyFails(v)
  BY <1>0, <1>3 DEF CodesTypeOK, VerifyFails
<1>4. CASE LateStatement(v)
  BY <1>0, <1>4 DEF CodesTypeOK, LateStatement, StepVerify
<1>5. CASE AnswerVerify(v)
  BY <1>0, <1>5 DEF CodesTypeOK, AnswerVerify
<1>. QED
  BY <1>1, <1>2, <1>3, <1>4, <1>5

\* A step of one verification leaves the others as they are.
LEMMA OtherVerifications ==
    ASSUME CodesInv, NEW v \in Verification, NEW w \in Verification \ {v},
           \/ Verify(v) \/ ReadRow(v) \/ ReadKey(v) \/ Compare(v)
           \/ MarkOtpUsed(v) \/ DeleteOtp(v) \/ Accept(v)
           \/ VerifyFails(v) \/ LateStatement(v) \/ AnswerVerify(v)
    PROVE  VerifySound(w)'
<1>1. /\ UNCHANGED <<inTable, issuing>> /\ key' \in {key, NoCode} /\ dead \subseteq dead'
      /\ verifying'[w] = verifying[w] /\ tried'[w] = tried[w]
      /\ pending'[w] = pending[w] /\ foundRow'[w] = foundRow[w]
      /\ foundKey'[w] = foundKey[w] /\ deadThen'[w] = deadThen[w]
  BY VerifyingFrame DEF issueVars
<1>2. \A c \in Code : Unset(c)' => Unset(c)
  BY <1>1 DEF Unset
<1>. QED
  BY <1>1, <1>2, VerifyKept

\* A code is given, and the stores are asked.
LEMMA InvAsking ==
    ASSUME CodesInv, NEW v \in Verification,
           Verify(v) \/ ReadRow(v) \/ ReadKey(v)
    PROVE  CodesInv'
<1>0. /\ CodesTypeOK /\ RowsNumbered /\ KeySound /\ VerifySound(v)
      /\ NoCode \notin Code
  BY CodesAssumption DEF CodesInv
<1>1. UNCHANGED <<inTable, issuing, mailed, earlier, born, usedUp, expired, key, dead>>
  BY DEF Verify, ReadRow, ReadKey, Awaits, issueVars
<1>2. KeySound' /\ \A c \in Code : Unset(c)' <=> Unset(c)
  BY <1>1, KeyKept
<1>3. RowsNumbered'
  BY <1>0, <1>1 DEF RowsNumbered
<1>4. CodesTypeOK'
  <2>1. CASE Verify(v)
    BY <1>0, <1>1, <2>1 DEF CodesTypeOK, Verify, StepVerify, Stores, AtRest
  <2>2. CASE ReadRow(v)
    <3>1. LatestRow \in Code \union {NoCode}
      BY <1>0, LatestRowActive
    <3>. QED
      BY <1>0, <1>1, <2>2, <3>1 DEF CodesTypeOK, ReadRow, Awaits
  <2>3. CASE ReadKey(v)
    BY <1>0, <1>1, <2>3 DEF CodesTypeOK, ReadKey, Awaits
  <2>. QED
    BY <2>1, <2>2, <2>3
<1>5. VerifySound(v)'
  <2>1. CASE Verify(v)
    BY <1>0, <1>1, <1>2, <2>1 DEF CodesTypeOK, VerifySound, Verify, StepVerify, Stores
  <2>2. CASE ReadRow(v)
    BY <1>0, <1>1, <1>2, <2>2 DEF CodesTypeOK, VerifySound, ReadRow, Awaits
  <2>3. CASE ReadKey(v)
    BY <1>0, <1>1, <1>2, <2>3 DEF CodesTypeOK, VerifySound, KeySound, ReadKey, Awaits
  <2>. QED
    BY <2>1, <2>2, <2>3
<1>6. \A w \in Verification \ {v} : VerifySound(w)'
  BY OtherVerifications
<1>. QED
  BY <1>2, <1>3, <1>4, <1>5, <1>6 DEF CodesInv

\* What was read is compared, and the stores are cleared.
LEMMA InvClearing ==
    ASSUME CodesInv, NEW v \in Verification,
           \/ Compare(v) \/ MarkOtpUsed(v) \/ DeleteOtp(v) \/ Accept(v)
           \/ VerifyFails(v) \/ LateStatement(v)
    PROVE  CodesInv'
<1>0. /\ CodesTypeOK /\ RowsNumbered /\ KeySound /\ VerifySound(v)
      /\ NoCode \notin Code
  BY CodesAssumption DEF CodesInv
<1>1. /\ UNCHANGED <<inTable, issuing, mailed, earlier, born, expired, dead, tried,
                     foundRow, foundKey, deadThen>>
      /\ key' \in {key, NoCode}
  BY VerifyingFrame
  DEF Compare, MarkOtpUsed, DeleteOtp, Accept, VerifyFails, LateStatement, StepVerify,
      Awaits, issueVars
<1>2. KeySound' /\ \A c \in Code : Unset(c)' <=> Unset(c)
  BY <1>1, KeyKept
<1>3. RowsNumbered'
  BY <1>0, <1>1 DEF RowsNumbered
<1>4. CodesTypeOK'
  <2>1. CASE Compare(v)
    BY <1>0, <1>1, <2>1 DEF CodesTypeOK, Compare, StepVerify, Stores
  <2>2. CASE MarkOtpUsed(v)
    <3>1. foundRow[v] \in Code
      BY <1>0, <2>2 DEF CodesTypeOK, VerifySound, MarkOtpUsed, Awaits
    <3>. QED
      BY <1>0, <1>1, <2>2, <3>1 DEF CodesTypeOK, MarkOtpUsed, Awaits
  <2>3. CASE DeleteOtp(v) \/ Accept(v)
    BY <1>0, <1>1, <2>3 DEF CodesTypeOK, DeleteOtp, Accept, StepVerify, Awaits
  <2>4. CASE VerifyFails(v)
    BY <1>0, <1>1, <2>4 DEF CodesTypeOK, VerifyFails
  <2>5. CASE LateStatement(v)
    <3>1. "row" \in pending[v] => foundRow[v] \in Code
      BY <1>0, <2>5 DEF CodesTypeOK, VerifySound, LateStatement, StepVerify
    <3>. QED
      BY <1>0, <1>1, <2>5, <3>1 DEF CodesTypeOK, LateStatement, StepVerify
  <2>. QED
    BY <2>1, <2>2, <2>3, <2>4, <2>5
<1>5. VerifySound(v)'
  <2>1. CASE Compare(v)
    BY <1>0, <1>1, <1>2, <2>1 DEF CodesTypeOK, VerifySound, Compare, Matches, StepVerify, Stores
  <2>2. CASE MarkOtpUsed(v)
    BY <1>0, <1>1, <1>2, <2>2 DEF CodesTypeOK, VerifySound, MarkOtpUsed, Awaits
  <2>3. CASE DeleteOtp(v)
    BY <1>0, <1>1, <1>2, <2>3 DEF CodesTypeOK, VerifySound, DeleteOtp, Awaits
  <2>4. CASE Accept(v)
    BY <1>0, <1>1, <1>2, <2>4 DEF CodesTypeOK, VerifySound, Accept, StepVerify
  <2>5. CASE VerifyFails(v)
    BY <1>0, <1>1, <1>2, <2>5 DEF CodesTypeOK, VerifySound, VerifyFails
  <2>6. CASE LateStatement(v)
    BY <1>0, <1>1, <1>2, <2>6 DEF CodesTypeOK, VerifySound, LateStatement, StepVerify
  <2>. QED
    BY <2>1, <2>2, <2>3, <2>4, <2>5, <2>6
<1>6. \A w \in Verification \ {v} : VerifySound(w)'
  BY OtherVerifications
<1>. QED
  BY <1>2, <1>3, <1>4, <1>5, <1>6 DEF CodesInv

\* The answer: a code that was accepted is over, and is not under the key.
LEMMA InvAnswer ==
    ASSUME CodesInv, NEW v \in Verification, AnswerVerify(v)
    PROVE  CodesInv'
<1>0. /\ CodesTypeOK /\ RowsNumbered /\ KeySound /\ VerifySound(v)
      /\ NoCode \notin Code
  BY CodesAssumption DEF CodesInv
<1>1. UNCHANGED <<inTable, issuing, mailed, earlier, born, usedUp, expired, key, pending>>
  BY DEF AnswerVerify, issueVars
<1>2. \A c \in dead' \ dead : c \in Code /\ c = foundKey[v] /\ key # c
  BY <1>0 DEF AnswerVerify, VerifySound
<1>3. \A c \in Code : Unset(c)' <=> Unset(c)
  BY <1>1 DEF Unset
<1>4. CodesTypeOK'
  BY <1>0, <1>1, <1>2 DEF CodesTypeOK, AnswerVerify
<1>5. RowsNumbered'
  BY <1>0, <1>1 DEF RowsNumbered
<1>6. KeySound'
  <2>1. ASSUME NEW c \in dead' PROVE ~Unset(c)' /\ key' # c
    <3>1. c \in Code
      BY <1>0, <1>2, <2>1 DEF CodesTypeOK
    <3>2. ~Unset(c) /\ key # c
      BY <1>0, <1>2, <2>1, <3>1 DEF KeySound, VerifySound
    <3>. QED
      BY <1>1, <1>3, <3>1, <3>2
  <2>2. \A c \in Code : \A d \in earlier[c] : d \in Code
    BY <1>0 DEF CodesTypeOK
  <2>. QED
    BY <1>0, <1>1, <1>3, <2>1, <2>2 DEF KeySound
<1>7. VerifySound(v)'
  BY <1>0, <1>1 DEF CodesTypeOK, VerifySound, AnswerVerify
<1>8. \A w \in Verification \ {v} : VerifySound(w)'
  BY OtherVerifications
<1>. QED
  BY <1>4, <1>5, <1>6, <1>7, <1>8 DEF CodesInv

LEMMA CodesInvNext ==
    ASSUME CodesInv, [CodesNext]_codeVars
    PROVE  CodesInv'
<1>1. CASE \E c \in Code : \/ Issue(c) \/ CreateOtp(c) \/ SetOtp(c) \/ SendOtp(c)
                           \/ IssueFails(c)
  BY <1>1, InvIssuing
<1>2. CASE KeyExpires \/ \E c \in Code : RowExpires(c)
  BY <1>2, InvExpiry
<1>3. CASE \E v \in Verification : Verify(v) \/ ReadRow(v) \/ ReadKey(v)
  BY <1>3, InvAsking
<1>4. CASE \E v \in Verification : \/ Compare(v) \/ MarkOtpUsed(v) \/ DeleteOtp(v)
                                   \/ Accept(v) \/ VerifyFails(v) \/ LateStatement(v)
  BY <1>4, InvClearing
<1>5. CASE \E v \in Verification : AnswerVerify(v)
  BY <1>5, InvAnswer
<1>6. CASE UNCHANGED codeVars
  <2>1. CodesTypeOK' /\ RowsNumbered' /\ KeySound'
    BY <1>6 DEF CodesInv, CodesTypeOK, RowsNumbered, KeySound, Unset, codeVars
  <2>2. \A v \in Verification : VerifySound(v)'
    BY <1>6 DEF CodesInv, VerifySound, Unset, codeVars
  <2>. QED
    BY <2>1, <2>2 DEF CodesInv
<1>. QED
  BY <1>1, <1>2, <1>3, <1>4, <1>5, <1>6 DEF CodesNext

LEMMA CodesInvariance == CodesSpec => []CodesInv
<1>. QED
  BY CodesInvInit, CodesInvNext, PTL DEF CodesSpec

\* Every variable keeps its type: the store of codes, issuing and verifying.
THEOREM CodesTypeCorrect == CodesSpec => []CodesTypeOK
<1>1. CodesInv => CodesTypeOK
  BY DEF CodesInv
<1>. QED
  BY <1>1, CodesInvariance, PTL

\* A verification of verifyOtp never accepts a code that was over when it began.
THEOREM DeadCodes == CodesSpec => []DeadCodesRefused
<1>1. CodesInv => DeadCodesRefused
  BY DEF CodesInv, VerifySound, DeadCodesRefused
<1>. QED
  BY <1>1, CodesInvariance, PTL

-----------------------------------------------------------------------------
(* Requests that do not overlap.                                           *)

Underway == {c \in Code : issuing[c] \in {"row", "key", "mail"}}

\* The user may still use the code.
Live(c) == issuing[c] = "issued" /\ c \notin dead

\* The code a verification that begins now would accept.
Current(c) ==
    /\ key = c
    /\ inTable => c \in ActiveRows /\ \A d \in Code : born[d] <= born[c]

\* One request is at work at a time, and nothing has failed or expired.
OneAtATime ==
    /\ \A c, d \in Underway : c = d
    /\ \A u, v \in Verification : verifying[u] # "idle" /\ verifying[v] # "idle" => u = v
    /\ \A v \in Verification : verifying[v] # "idle" => Underway = {}
    /\ \A v \in Verification : verifying[v] # "failing"
    /\ expired = {}

\* At most one code is live, and at rest it is in the stores.
CodesInTurn ==
    /\ \A c \in dead \union usedUp : issuing[c] = "issued"
    /\ \A c \in mailed \ Underway : issuing[c] = "issued"
    /\ \A c, d \in Code : Live(c) /\ Live(d) => c = d
    /\ \A c \in Underway :
           /\ earlier[c] = {d \in Code : issuing[d] = "issued"}
           /\ inTable /\ issuing[c] # "row" =>
                  born[c] > 0 /\ \A d \in Code : born[d] <= born[c]
           /\ ~Unset(c) => key = c
    /\ Underway = {} /\ (\A v \in Verification : verifying[v] \notin {"clearing", "accepted"})
           => \A c \in Code : Live(c) => Current(c)

\* A verification reads the current code's key and row and refuses only what is
\* over.
VerifyInTurn(v) ==
    verifying[v] # "idle" =>
        /\ deadThen[v] = dead
        /\ tried[v] # NoCode => issuing[tried[v]] = "issued"
        /\ verifying[v] = "reading" /\ tried[v] # NoCode /\ tried[v] \notin dead =>
               /\ "key" \notin pending[v] => foundKey[v] = tried[v]
               /\ inTable /\ "row" \notin pending[v] => foundRow[v] = tried[v]
        /\ verifying[v] = "refused" /\ tried[v] # NoCode => tried[v] \in dead

InTurn == OneAtATime /\ CodesInTurn /\ \A v \in Verification : VerifyInTurn(v)

\* The inductive invariant, beside the first.
TurnInv == ~unsettled => InTurn

LEMMA TurnInvInit == CodesInit => TurnInv
<1> SUFFICES ASSUME CodesInit PROVE InTurn
  BY DEF TurnInv
<1>1. Underway = {} /\ \A c \in Code : ~Live(c)
  BY DEF CodesInit, Underway, Live
<1>2. OneAtATime
  BY <1>1 DEF CodesInit, OneAtATime
<1>3. CodesInTurn
  BY <1>1 DEF CodesInit, CodesInTurn
<1>4. \A v \in Verification : VerifyInTurn(v)
  BY DEF CodesInit, VerifyInTurn
<1>. QED
  BY <1>2, <1>3, <1>4 DEF InTurn

\* A code is issued while none else is at work.
LEMMA TurnIssue ==
    ASSUME CodesInv, InTurn, NEW c \in Code, Issue(c), ~unsettled'
    PROVE  InTurn'
<1>0. CodesTypeOK /\ OneAtATime /\ CodesInTurn
  BY DEF CodesInv, InTurn
<1>1. /\ UNCHANGED <<inTable, born, usedUp, expired, key, mailed, dead, verifyVars>>
      /\ issuing[c] = "new" /\ issuing' = [issuing EXCEPT ![c] = IF inTable THEN "row" ELSE "mail"]
      /\ earlier' = [earlier EXCEPT ![c] = {d \in Code : issuing[d] = "issued"}]
      /\ AtRest
  BY DEF Issue, StepIssue
<1>2. /\ issuing'[c] \in {"row", "mail"} /\ (inTable <=> issuing'[c] = "row")
      /\ \A d \in Code \ {c} : issuing'[d] = issuing[d] /\ issuing[d] \notin {"row", "key", "mail"}
      /\ earlier'[c] = {d \in Code : issuing[d] = "issued"}
      /\ Underway' = {c} /\ Underway = {}
  BY <1>0, <1>1 DEF CodesTypeOK, AtRest, Underway
<1>3. \A d \in Code : (issuing'[d] = "issued" <=> issuing[d] = "issued") /\ (Live(d)' <=> Live(d))
  BY <1>1, <1>2 DEF Live
<1>4. \A v \in Verification : verifying'[v] = "idle"
  BY <1>1 DEF AtRest, verifyVars
<1>5. OneAtATime'
  BY <1>0, <1>1, <1>2, <1>4 DEF OneAtATime
<1>6. CodesInTurn'
  <2>1. \A d \in (dead \union usedUp)' : issuing'[d] = "issued"
    <3>1. dead' = dead /\ usedUp' = usedUp /\ dead \union usedUp \subseteq Code
      BY <1>0, <1>1 DEF CodesTypeOK
    <3>. QED
      BY <1>0, <1>3, <3>1 DEF CodesInTurn
  <2>2. \A d \in (mailed \ Underway)' : issuing'[d] = "issued"
    <3>1. mailed' = mailed /\ mailed \subseteq Code
      BY <1>0, <1>1 DEF CodesTypeOK
    <3>. QED
      BY <1>0, <1>2, <1>3, <3>1 DEF CodesInTurn
  <2>3. Unset(c)' /\ {d \in Code : issuing'[d] = "issued"} = {d \in Code : issuing[d] = "issued"}
    BY <1>1, <1>2, <1>3 DEF Unset
  <2>4. earlier'[c] = {d \in Code : issuing'[d] = "issued"}
    BY <1>2, <2>3
  <2>. QED
    BY <1>0, <1>1, <1>2, <1>3, <2>1, <2>2, <2>3, <2>4 DEF CodesInTurn
<1>7. \A v \in Verification : VerifyInTurn(v)'
  BY <1>4 DEF VerifyInTurn
<1>. QED
  BY <1>5, <1>6, <1>7 DEF InTurn

\* Its row is inserted above all others.
LEMMA TurnRow ==
    ASSUME CodesInv, InTurn, NEW c \in Code, CreateOtp(c)
    PROVE  InTurn'
<1>0. CodesTypeOK /\ RowsNumbered /\ OneAtATime /\ CodesInTurn
  BY DEF CodesInv, InTurn
<1>1. /\ UNCHANGED <<inTable, usedUp, expired, key, mailed, dead, earlier, verifyVars>>
      /\ issuing[c] = "row" /\ issuing' = [issuing EXCEPT ![c] = "key"] /\ inTable
  BY <1>0 DEF CreateOtp, StepIssue, RowsNumbered
<1>2. /\ issuing'[c] = "key"
      /\ \A d \in Code \ {c} : issuing'[d] = issuing[d]
      /\ Underway' = {c} /\ Underway = {c}
  BY <1>0, <1>1 DEF CodesTypeOK, Underway, OneAtATime
<1>3. \A d \in Code : (issuing'[d] = "issued" <=> issuing[d] = "issued") /\ (Live(d)' <=> Live(d))
  BY <1>1, <1>2 DEF Live
<1>4. \A v \in Verification : verifying'[v] = "idle"
  BY <1>0, <1>1, <1>2 DEF OneAtATime, verifyVars
<1>5. OneAtATime'
  BY <1>0, <1>1, <1>2, <1>4 DEF OneAtATime
<1>6. CodesInTurn'
  <2>1. \A d \in (dead \union usedUp)' : issuing'[d] = "issued"
    <3>1. dead' = dead /\ usedUp' = usedUp /\ dead \union usedUp \subseteq Code
      BY <1>0, <1>1 DEF CodesTypeOK
    <3>. QED
      BY <1>0, <1>3, <3>1 DEF CodesInTurn
  <2>2. \A d \in (mailed \ Underway)' : issuing'[d] = "issued"
    <3>1. mailed' = mailed /\ mailed \subseteq Code
      BY <1>0, <1>1 DEF CodesTypeOK
    <3>. QED
      BY <1>0, <1>2, <1>3, <3>1 DEF CodesInTurn
  <2>3. Unset(c)' /\ {d \in Code : issuing'[d] = "issued"} = {d \in Code : issuing[d] = "issued"}
    BY <1>1, <1>2, <1>3 DEF Unset
  <2>4. earlier'[c] = {d \in Code : issuing'[d] = "issued"}
    BY <1>0, <1>1, <1>2, <2>3 DEF CodesInTurn
  <2>5. born'[c] > 0 /\ \A d \in Code : born'[d] <= born'[c]
    BY RowInserted, CodesAssumption, FS_CardinalityType
  <2>. QED
    BY <1>0, <1>1, <1>2, <1>3, <2>1, <2>2, <2>3, <2>4, <2>5 DEF CodesInTurn
<1>7. \A v \in Verification : VerifyInTurn(v)'
  BY <1>4 DEF VerifyInTurn
<1>. QED
  BY <1>5, <1>6, <1>7 DEF InTurn

\* The key is set or the mail sent, and the code is not issued yet.
LEMMA TurnOnTheWay ==
    ASSUME CodesInv, InTurn, NEW c \in Code, SetOtp(c) \/ SendOtp(c), issuing'[c] # "issued"
    PROVE  InTurn'
<1>0. CodesTypeOK /\ RowsNumbered /\ OneAtATime /\ CodesInTurn
  BY DEF CodesInv, InTurn
<1>1. /\ UNCHANGED <<inTable, born, usedUp, expired, dead, earlier, verifyVars>>
      /\ issuing[c] \in {"key", "mail"} /\ issuing'[c] \in {"key", "mail"}
      /\ issuing' = [issuing EXCEPT ![c] = issuing'[c]]
      /\ mailed' \subseteq mailed \union {c}
  BY <1>0 DEF CodesTypeOK, SetOtp, SendOtp, StepIssue, Replaces
<1>2. /\ \A d \in Code \ {c} : issuing'[d] = issuing[d]
      /\ Underway' = {c} /\ Underway = {c}
  BY <1>0, <1>1 DEF CodesTypeOK, Underway, OneAtATime
<1>3. \A d \in Code : (issuing'[d] = "issued" <=> issuing[d] = "issued") /\ (Live(d)' <=> Live(d))
  BY <1>1, <1>2 DEF Live
<1>4. \A v \in Verification : verifying'[v] = "idle"
  BY <1>0, <1>1, <1>2 DEF OneAtATime, verifyVars
<1>5. OneAtATime'
  BY <1>0, <1>1, <1>2, <1>4 DEF OneAtATime
<1>6. CodesInTurn'
  <2>1. \A d \in (dead \union usedUp)' : issuing'[d] = "issued"
    <3>1. dead' = dead /\ usedUp' = usedUp /\ dead \union usedUp \subseteq Code
      BY <1>0, <1>1 DEF CodesTypeOK
    <3>. QED
      BY <1>0, <1>3, <3>1 DEF CodesInTurn
  <2>2. \A d \in (mailed \ Underway)' : issuing'[d] = "issued"
    <3>1. mailed \subseteq Code
      BY <1>0 DEF CodesTypeOK
    <3>. QED
      BY <1>0, <1>1, <1>2, <1>3, <3>1 DEF CodesInTurn
  <2>3. {d \in Code : issuing'[d] = "issued"} = {d \in Code : issuing[d] = "issued"}
    BY <1>3
  <2>4. earlier'[c] = {d \in Code : issuing'[d] = "issued"}
    BY <1>0, <1>1, <1>2, <2>3 DEF CodesInTurn
  <2>5. ~Unset(c)' => key' = c
    <3>1. CASE SetOtp(c)
      BY <3>1 DEF SetOtp
    <3>2. CASE SendOtp(c)
      BY <1>0, <1>1, <3>2 DEF CodesTypeOK, SendOtp, StepIssue, Unset
    <3>. QED
      BY <3>1, <3>2
  <2>6. inTable' => born'[c] > 0 /\ \A d \in Code : born'[d] <= born'[c]
    BY <1>0, <1>1, <1>2 DEF CodesInTurn
  <2>. QED
    BY <1>0, <1>1, <1>2, <1>3, <2>1, <2>2, <2>4, <2>5, <2>6 DEF CodesInTurn
<1>7. \A v \in Verification : VerifyInTurn(v)'
  BY <1>4 DEF VerifyInTurn
<1>. QED
  BY <1>5, <1>6, <1>7 DEF InTurn

\* A code that is issued replaces all others, and is in the stores.
LEMMA TurnIssued ==
    ASSUME CodesInv, InTurn, NEW c \in Code, SetOtp(c) \/ SendOtp(c), issuing'[c] = "issued"
    PROVE  InTurn'
<1>0. CodesTypeOK /\ RowsNumbered /\ OneAtATime /\ CodesInTurn
  BY DEF CodesInv, InTurn
<1>1. /\ UNCHANGED <<inTable, born, usedUp, expired, verifyVars>>
      /\ issuing[c] \in {"key", "mail"} /\ issuing' = [issuing EXCEPT ![c] = "issued"]
      /\ mailed' \subseteq mailed \union {c}
      /\ dead' = dead \union earlier[c]
  BY <1>0 DEF CodesTypeOK, SetOtp, SendOtp, StepIssue, Replaces
<1>2. /\ \A d \in Code \ {c} : issuing'[d] = issuing[d]
      /\ Underway' = {} /\ Underway = {c}
      /\ earlier[c] = {d \in Code : issuing[d] = "issued"}
  BY <1>0, <1>1 DEF CodesTypeOK, Underway, OneAtATime, CodesInTurn
<1>3. \A d \in Code : Live(d)' => d = c
  BY <1>1, <1>2 DEF Live
<1>4. \A v \in Verification : verifying'[v] = "idle"
  BY <1>0, <1>1, <1>2 DEF OneAtATime, verifyVars
<1>5. OneAtATime'
  BY <1>0, <1>1, <1>2, <1>4 DEF OneAtATime
<1>6. CodesInTurn'
  <2>1. \A d \in (dead \union usedUp)' : issuing'[d] = "issued"
    <3>1. dead \union usedUp \subseteq Code
      BY <1>0 DEF CodesTypeOK
    <3>2. \A d \in dead \union usedUp : issuing'[d] = "issued"
      BY <1>0, <1>1, <1>2, <3>1 DEF CodesInTurn
    <3>. QED
      BY <1>1, <1>2, <3>2
  <2>2. \A d \in (mailed \ Underway)' : issuing'[d] = "issued"
    <3>1. mailed \subseteq Code
      BY <1>0 DEF CodesTypeOK
    <3>. QED
      BY <1>0, <1>1, <1>2, <3>1 DEF CodesInTurn
  <2>3. key' = c
    <3>1. CASE SetOtp(c)
      BY <3>1 DEF SetOtp
    <3>2. CASE SendOtp(c)
      <4>1. key' = key /\ issuing[c] = "mail" /\ inTable
        BY <1>0, <1>1, <3>2 DEF CodesTypeOK, SendOtp, StepIssue
      <4>. QED
        BY <1>0, <1>2, <4>1 DEF CodesInTurn, Unset
    <3>. QED
      BY <3>1, <3>2
  <2>4. inTable' => c \in ActiveRows' /\ \A d \in Code : born'[d] <= born'[c]
    <3>1. inTable' => born'[c] > 0 /\ \A d \in Code : born'[d] <= born'[c]
      BY <1>0, <1>1, <1>2 DEF CodesInTurn
    <3>2. c \notin usedUp' \union expired'
      BY <1>0, <1>1 DEF CodesInTurn, OneAtATime
    <3>. QED
      BY <3>1, <3>2 DEF ActiveRows
  <2>5. Current(c)'
    BY <2>3, <2>4 DEF Current
  <2>. QED
    BY <1>2, <1>3, <2>1, <2>2, <2>5 DEF CodesInTurn
<1>7. \A v \in Verification : VerifyInTurn(v)'
  BY <1>4 DEF VerifyInTurn
<1>. QED
  BY <1>5, <1>6, <1>7 DEF InTurn

\* A code is given while no request is at work.
LEMMA TurnVerify ==
    ASSUME CodesInv, InTurn, NEW v \in Verification, Verify(v), ~unsettled'
    PROVE  InTurn'
<1>0. CodesTypeOK /\ OneAtATime /\ CodesInTurn
  BY DEF CodesInv, InTurn
<1>1. PICK c \in mailed \union {NoCode} :
         /\ StepVerify(v, "idle", "reading")
         /\ tried' = [tried EXCEPT ![v] = c]
         /\ pending' = [pending EXCEPT ![v] = Stores]
         /\ deadThen' = [deadThen EXCEPT ![v] = dead]
         /\ unsettled' = (unsettled \/ ~AtRest)
         /\ UNCHANGED <<born, usedUp, expired, key, foundRow, foundKey, dead, issueVars>>
  BY DEF Verify
<1>2. AtRest /\ UNCHANGED <<inTable, issuing, mailed, earlier>>
  BY <1>1 DEF issueVars
<1>3. /\ verifying'[v] = "reading" /\ tried'[v] = c /\ deadThen'[v] = dead
      /\ "key" \in pending'[v] /\ (inTable => "row" \in pending'[v])
      /\ \A w \in Verification \ {v} : verifying'[w] = "idle"
      /\ \A w \in Verification : verifying[w] = "idle"
  BY <1>0, <1>1, <1>2 DEF CodesTypeOK, StepVerify, Stores, AtRest
<1>4. Underway = {} /\ Underway' = {}
  BY <1>2 DEF AtRest, Underway
<1>5. OneAtATime'
  BY <1>0, <1>1, <1>3, <1>4 DEF OneAtATime
<1>6. CodesInTurn'
  <2>1. \A d \in Code : (Live(d)' <=> Live(d)) /\ (Current(d)' <=> Current(d))
    BY <1>1, <1>2 DEF Live, Current, ActiveRows
  <2>. QED
    BY <1>0, <1>1, <1>2, <1>3, <1>4, <2>1 DEF CodesInTurn
<1>7. VerifyInTurn(v)'
  <2>1. c # NoCode => issuing'[c] = "issued"
    BY <1>0, <1>2, <1>4 DEF CodesInTurn
  <2>. QED
    BY <1>1, <1>2, <1>3, <2>1 DEF VerifyInTurn
<1>8. \A w \in Verification \ {v} : VerifyInTurn(w)'
  BY <1>3 DEF VerifyInTurn
<1>. QED
  BY <1>5, <1>6, <1>7, <1>8 DEF InTurn

\* A verification is alone at work.
LEMMA TurnAlone ==
    ASSUME CodesInv, InTurn, NEW v \in Verification, verifying[v] # "idle"
    PROVE  /\ Underway = {}
           /\ \A w \in Verification \ {v} : verifying[w] = "idle"
           /\ verifying[v] \in {"reading", "refused"} /\ tried[v] # NoCode /\ tried[v] \notin dead
                  => Current(tried[v])
<1>0. CodesTypeOK /\ OneAtATime /\ CodesInTurn /\ VerifyInTurn(v)
  BY DEF CodesInv, InTurn
<1>1. Underway = {} /\ \A w \in Verification \ {v} : verifying[w] = "idle"
  BY <1>0 DEF OneAtATime
<1>2. ASSUME verifying[v] \in {"reading", "refused"}, tried[v] # NoCode, tried[v] \notin dead
      PROVE  Current(tried[v])
  <2>1. tried[v] \in Code /\ Live(tried[v])
    BY <1>0, <1>2 DEF CodesTypeOK, VerifyInTurn, Live
  <2>2. \A w \in Verification : verifying[w] \notin {"clearing", "accepted"}
    BY <1>1, <1>2
  <2>. QED
    BY <1>0, <1>1, <2>1, <2>2 DEF CodesInTurn
<1>. QED
  BY <1>1, <1>2

\* What it does to the stores and the other requests.
LEMMA TurnVerifying ==
    ASSUME CodesInv, InTurn, NEW v \in Verification,
           \/ ReadRow(v) \/ ReadKey(v) \/ Compare(v) \/ MarkOtpUsed(v) \/ DeleteOtp(v)
           \/ Accept(v)
    PROVE  /\ UNCHANGED <<inTable, issuing, mailed, earlier, born, expired, dead, deadThen, tried>>
           /\ verifying[v] \in {"reading", "clearing"}
           /\ verifying'[v] \in {"reading", "clearing", "accepted", "refused"}
           /\ verifying'[v] \in {"reading", "refused"} => UNCHANGED <<usedUp, key>>
           /\ verifying[v] = "clearing" => verifying'[v] \in {"clearing", "accepted"}
           /\ usedUp' \subseteq usedUp \union {tried[v]} /\ (usedUp' = usedUp \/ tried[v] \in Code)
           /\ OneAtATime' /\ CodesInTurn' /\ Underway' = {}
           /\ \A w \in Verification \ {v} : VerifyInTurn(w)'
<1>0. CodesTypeOK /\ OneAtATime /\ CodesInTurn /\ VerifyInTurn(v) /\ VerifySound(v)
  BY DEF CodesInv, InTurn
<1>1. UNCHANGED <<inTable, issuing, mailed, earlier, born, expired, dead, deadThen, tried>>
  BY DEF ReadRow, ReadKey, Compare, MarkOtpUsed, DeleteOtp, Accept, StepVerify, Awaits, issueVars
<1>2. /\ verifying[v] \in {"reading", "clearing"}
      /\ verifying'[v] \in {"reading", "clearing", "accepted", "refused"}
      /\ verifying[v] = "clearing" => verifying'[v] \in {"clearing", "accepted"}
      /\ \A w \in Verification \ {v} : verifying'[w] = verifying[w]
  BY <1>0
  DEF CodesTypeOK, ReadRow, ReadKey, Compare, MarkOtpUsed, DeleteOtp, Accept, StepVerify, Awaits
<1>3. verifying'[v] \in {"reading", "refused"} => UNCHANGED <<usedUp, key>>
  <2>1. CASE ReadRow(v) \/ ReadKey(v) \/ Compare(v) \/ Accept(v)
    BY <2>1 DEF ReadRow, ReadKey, Compare, Accept, Awaits
  <2>2. CASE MarkOtpUsed(v) \/ DeleteOtp(v)
    BY <2>2 DEF MarkOtpUsed, DeleteOtp, Awaits
  <2>. QED
    BY <2>1, <2>2
<1>4. usedUp' \subseteq usedUp \union {tried[v]} /\ (usedUp' = usedUp \/ tried[v] \in Code)
  <2>1. CASE MarkOtpUsed(v)
    BY <1>0, <2>1 DEF MarkOtpUsed, Awaits, VerifySound
  <2>2. CASE ~MarkOtpUsed(v)
    BY <2>2 DEF ReadRow, ReadKey, Compare, DeleteOtp, Accept
  <2>. QED
    BY <2>1, <2>2
<1>5. Underway = {} /\ Underway' = {} /\ \A w \in Verification \ {v} : verifying[w] = "idle"
  BY <1>1, <1>2, TurnAlone DEF Underway
<1>6. OneAtATime'
  BY <1>0, <1>1, <1>2, <1>5 DEF OneAtATime
<1>7. CodesInTurn'
  <2>1. \A d \in Code : Live(d)' <=> Live(d)
    BY <1>1 DEF Live
  <2>2. \A d \in (dead \union usedUp)' : issuing'[d] = "issued"
    <3>1. tried[v] \in Code => issuing[tried[v]] = "issued"
      BY <1>0, <1>2, CodesAssumption DEF VerifyInTurn
    <3>. QED
      BY <1>0, <1>1, <1>4, <3>1 DEF CodesInTurn
  <2>3. (\A w \in Verification : verifying'[w] \notin {"clearing", "accepted"})
            => \A d \in Code : Live(d)' => Current(d)'
    <3> SUFFICES ASSUME verifying'[v] \notin {"clearing", "accepted"}
                 PROVE  \A d \in Code : Live(d)' => Current(d)'
      OBVIOUS
    <3>1. UNCHANGED <<usedUp, key>> /\ verifying[v] = "reading"
      BY <1>2, <1>3
    <3>2. \A d \in Code : Current(d)' <=> Current(d)
      BY <1>1, <3>1 DEF Current, ActiveRows
    <3>3. \A w \in Verification : verifying[w] \notin {"clearing", "accepted"}
      BY <1>5, <3>1
    <3>. QED
      BY <1>0, <1>5, <2>1, <3>2, <3>3 DEF CodesInTurn
  <2>. QED
    BY <1>0, <1>1, <1>5, <2>1, <2>2, <2>3 DEF CodesInTurn
<1>8. \A w \in Verification \ {v} : VerifyInTurn(w)'
  BY <1>2, <1>5 DEF VerifyInTurn
<1>. QED
  BY <1>1, <1>2, <1>3, <1>4, <1>5, <1>6, <1>7, <1>8

\* It reads the code it was given, unless that is over, and so it is accepted.
LEMMA TurnReads ==
    ASSUME CodesInv, InTurn, NEW v \in Verification,
           \/ ReadRow(v) \/ ReadKey(v) \/ Compare(v) \/ MarkOtpUsed(v) \/ DeleteOtp(v)
           \/ Accept(v)
    PROVE  InTurn'
<1>0. /\ CodesTypeOK /\ RowsNumbered /\ VerifyInTurn(v) /\ VerifySound(v)
      /\ verifying[v] \in {"reading", "clearing"}
  BY TurnVerifying DEF CodesInv, InTurn
<1>1. UNCHANGED <<inTable, issuing, dead, deadThen, tried>>
  BY TurnVerifying
<1>2. verifying[v] = "reading" /\ tried[v] # NoCode /\ tried[v] \notin dead => Current(tried[v])
  BY TurnAlone
<1>3. VerifyInTurn(v)'
  <2>1. CASE ReadRow(v)
    <3>1. /\ verifying'[v] = "reading" /\ foundRow'[v] = LatestRow /\ foundKey' = foundKey
          /\ pending'[v] = pending[v] \ {"row"} /\ verifying[v] = "reading" /\ inTable
      BY <1>0, <2>1 DEF CodesTypeOK, ReadRow, Awaits, VerifySound
    <3>2. tried[v] # NoCode /\ tried[v] \notin dead => LatestRow = tried[v]
      BY <1>0, <1>2, <3>1, LatestRowActive DEF Current
    <3>. QED
      BY <1>0, <1>1, <3>1, <3>2 DEF VerifyInTurn
  <2>2. CASE ReadKey(v)
    <3>1. /\ verifying'[v] = "reading" /\ foundKey'[v] = key /\ foundRow' = foundRow
          /\ pending'[v] = pending[v] \ {"key"} /\ verifying[v] = "reading"
      BY <1>0, <2>2 DEF CodesTypeOK, ReadKey, Awaits
    <3>2. tried[v] # NoCode /\ tried[v] \notin dead => key = tried[v]
      BY <1>2, <3>1 DEF Current
    <3>. QED
      BY <1>0, <1>1, <3>1, <3>2 DEF VerifyInTurn
  <2>3. CASE Compare(v)
    <3>1. /\ verifying[v] = "reading" /\ pending[v] = {}
          /\ verifying'[v] = IF Matches(v) THEN "clearing" ELSE "refused"
      BY <1>0, <2>3 DEF CodesTypeOK, Compare, StepVerify
    <3>2. tried[v] # NoCode /\ tried[v] \notin dead => Matches(v)
      BY <1>0, <3>1 DEF VerifyInTurn, Matches
    <3>. QED
      BY <1>0, <1>1, <3>1, <3>2 DEF VerifyInTurn
  <2>4. CASE MarkOtpUsed(v) \/ DeleteOtp(v) \/ Accept(v)
    <3>1. verifying'[v] \in {"clearing", "accepted"}
      BY <1>0, <2>4 DEF CodesTypeOK, MarkOtpUsed, DeleteOtp, Accept, StepVerify, Awaits
    <3>. QED
      BY <1>0, <1>1, <3>1 DEF VerifyInTurn
  <2>. QED
    BY <2>1, <2>2, <2>3, <2>4
<1>. QED
  BY <1>3, TurnVerifying DEF InTurn

\* The answer: a code that was accepted was the live one.
LEMMA TurnAnswer ==
    ASSUME CodesInv, InTurn, NEW v \in Verification, AnswerVerify(v)
    PROVE  InTurn'
<1>0. CodesTypeOK /\ OneAtATime /\ CodesInTurn /\ VerifyInTurn(v) /\ VerifySound(v)
  BY DEF CodesInv, InTurn
<1>1. /\ UNCHANGED <<inTable, issuing, mailed, earlier, born, usedUp, expired, key>>
      /\ verifying[v] \in {"accepted", "refused"}
      /\ dead' = IF verifying[v] = "accepted" THEN dead \union {tried[v]} ELSE dead
  BY DEF AnswerVerify, issueVars
<1>2. /\ Underway = {} /\ Underway' = {}
      /\ \A w \in Verification \ {v} : verifying[w] = "idle"
  BY <1>1, TurnAlone DEF Underway
<1>3. \A w \in Verification : verifying'[w] = "idle"
  BY <1>0, <1>2 DEF CodesTypeOK, AnswerVerify
<1>4. OneAtATime'
  BY <1>0, <1>1, <1>2, <1>3 DEF OneAtATime
<1>5. \A d \in Code : Live(d)' => Live(d)
  BY <1>1 DEF Live
<1>6. CodesInTurn'
  <2>1. CASE verifying[v] = "accepted"
    <3>1. tried[v] \in Code /\ Live(tried[v])
      BY <1>0, <2>1, CodesAssumption DEF VerifyInTurn, VerifySound, Live
    <3>2. \A d \in Code : ~Live(d)'
      BY <1>0, <1>1, <1>5, <2>1, <3>1 DEF CodesInTurn, Live
    <3>3. \A d \in (dead \union usedUp)' : issuing'[d] = "issued"
      BY <1>0, <1>1, <3>1 DEF CodesInTurn, Live
    <3>. QED
      BY <1>0, <1>1, <1>2, <3>2, <3>3 DEF CodesInTurn
  <2>2. CASE verifying[v] = "refused"
    <3>1. dead' = dead
      BY <1>1, <2>2
    <3>2. \A d \in Code : (Live(d)' <=> Live(d)) /\ (Current(d)' <=> Current(d))
      BY <1>1, <3>1 DEF Live, Current, ActiveRows
    <3>3. \A w \in Verification : verifying[w] \notin {"clearing", "accepted"}
      BY <1>2, <2>2
    <3>. QED
      BY <1>0, <1>1, <1>2, <3>1, <3>2, <3>3 DEF CodesInTurn
  <2>. QED
    BY <1>1, <2>1, <2>2
<1>7. \A w \in Verification : VerifyInTurn(w)'
  BY <1>3 DEF VerifyInTurn
<1>. QED
  BY <1>4, <1>6, <1>7 DEF InTurn

LEMMA TurnInvNext ==
    ASSUME CodesInv, TurnInv, [CodesNext]_codeVars
    PROVE  TurnInv'
<1> SUFFICES ASSUME ~unsettled' PROVE InTurn'
  BY DEF TurnInv
<1>1. CASE \E c \in Code : Issue(c)
  BY <1>1, TurnIssue DEF TurnInv, Issue
<1>2. CASE \E c \in Code : CreateOtp(c)
  BY <1>2, TurnRow DEF TurnInv, CreateOtp
<1>3. CASE \E c \in Code : SetOtp(c) \/ SendOtp(c)
  BY <1>3, TurnOnTheWay, TurnIssued DEF TurnInv, SetOtp, SendOtp
<1>4. CASE \/ \E c \in Code : IssueFails(c) \/ RowExpires(c)
           \/ KeyExpires
           \/ \E v \in Verification : VerifyFails(v)
  BY <1>4 DEF IssueFails, RowExpires, KeyExpires, VerifyFails
<1>5. CASE \E v \in Verification : Verify(v)
  BY <1>5, TurnVerify DEF TurnInv, Verify
<1>6. CASE \E v \in Verification :
               \/ ReadRow(v) \/ ReadKey(v) \/ Compare(v) \/ MarkOtpUsed(v) \/ DeleteOtp(v)
               \/ Accept(v)
  BY <1>6, TurnReads
  DEF TurnInv, ReadRow, ReadKey, Compare, MarkOtpUsed, DeleteOtp, Accept
<1>7. CASE \E v \in Verification : LateStatement(v)
  BY <1>7 DEF TurnInv, InTurn, OneAtATime, LateStatement, StepVerify
<1>8. CASE \E v \in Verification : AnswerVerify(v)
  <2>1. PICK v \in Verification : AnswerVerify(v)
    BY <1>8
  <2>2. ~unsettled
    BY <2>1 DEF AnswerVerify
  <2>. QED
    BY <2>1, <2>2, TurnAnswer DEF TurnInv
<1>9. CASE UNCHANGED codeVars
  <2>1. InTurn /\ Underway' = Underway
    BY <1>9 DEF TurnInv, Underway, codeVars
  <2>2. \A c \in Code : (Live(c)' <=> Live(c)) /\ (Current(c)' <=> Current(c))
                        /\ (Unset(c)' <=> Unset(c))
    BY <1>9 DEF Live, Current, ActiveRows, Unset, codeVars
  <2>3. OneAtATime' /\ \A v \in Verification : VerifyInTurn(v)'
    BY <1>9, <2>1 DEF InTurn, OneAtATime, VerifyInTurn, codeVars
  <2>4. CodesInTurn'
    BY <1>9, <2>1, <2>2 DEF InTurn, CodesInTurn, Underway, codeVars
  <2>. QED
    BY <2>3, <2>4 DEF InTurn
<1>. QED
  BY <1>1, <1>2, <1>3, <1>4, <1>5, <1>6, <1>7, <1>8, <1>9 DEF CodesNext

\* As long as requests do not overlap, none fails and nothing expires, a code the
\* user was sent is refused only when it is over.
THEOREM LatestCode == CodesSpec => []LatestCodeAcceptedInTurn
<1>1. CodesInit => TurnInv
  BY TurnInvInit
<1>2. TurnInv => LatestCodeAcceptedInTurn
  BY DEF TurnInv, InTurn, VerifyInTurn, LatestCodeAcceptedInTurn
<1>. QED
  BY <1>1, <1>2, CodesInvariance, TurnInvNext, PTL DEF CodesSpec

-----------------------------------------------------------------------------
(* The cache of the guards.                                                *)

\* The user had the record at some time since.
HadSince(r, t) == \E u \in 0..now : t <= u /\ r \in had[u]

\* The inductive invariant: a validation answers with what the user has when it is
\* carried out, and an entry lives from its store.
GuardInv ==
    /\ GuardTypeOK
    /\ record \in had[now]
    /\ \A c \in Check :
           /\ checking[c] \in {"asking", "storing"} =>
                  since[c] <= now /\ now - since[c] <= MaxCall
           /\ checking[c] = "storing" => HadSince(user[c], since[c])
    /\ entry.set => now < entry.until /\ HadSince(entry.user, entry.until - (Ttl + MaxCall))

\* Nothing is forgotten as time goes on.
LEMMA HadStays ==
    ASSUME GuardInv, GuardNext, NEW r, NEW t, HadSince(r, t)
    PROVE  HadSince(r, t)'
<1>1. PICK u \in 0..now : t <= u /\ r \in had[u]
  BY DEF HadSince
<1>2. now \in Nat /\ had \in [0..MaxTime -> SUBSET Record] /\ now <= MaxTime /\ MaxTime \in Nat
  BY GuardAssumption DEF GuardInv, GuardTypeOK
<1>3. now' \in Nat /\ now <= now' /\ r \in had'[u]
  <2>1. CASE Tick
    BY <1>1, <1>2, <2>1 DEF Tick
  <2>2. CASE AssignRole \/ UpdateMe
    BY <1>1, <1>2, <2>2 DEF AssignRole, UpdateMe, Changes
  <2>3. CASE ~Tick /\ ~AssignRole /\ ~UpdateMe
    BY <1>1, <1>2, <2>3 DEF GuardNext, Invalidate, Hit, Miss, Validate, SetCache, Ends
  <2>. QED
    BY <2>1, <2>2, <2>3
<1>4. u \in 0..now'
  BY <1>1, <1>2, <1>3
<1>. QED
  BY <1>1, <1>3, <1>4 DEF HadSince

LEMMA GuardInvInit == GuardInit => GuardInv
<1> SUFFICES ASSUME GuardInit PROVE GuardInv
  OBVIOUS
<1>1. GuardTypeOK
  <2>1. 0 \in 0..MaxTime /\ 0 \in 0..(MaxTime + Ttl)
    BY GuardAssumption
  <2>2. entry \in Entry
    BY <2>1, GuardAssumption DEF GuardInit, Entry, NoEntry
  <2>3. had \in [0..MaxTime -> SUBSET Record]
    BY GuardAssumption DEF GuardInit
  <2>. QED
    BY <2>1, <2>2, <2>3, GuardAssumption DEF GuardInit, GuardTypeOK
<1>2. record \in had[now]
  BY GuardAssumption DEF GuardInit
<1>. QED
  BY <1>1, <1>2 DEF GuardInit, GuardInv, NoEntry

LEMMA GuardTypeNext ==
    ASSUME GuardInv, GuardNext
    PROVE  GuardTypeOK'
<1>0. GuardTypeOK
  BY DEF GuardInv
<1>1. NoEntry \in Entry
  BY GuardAssumption DEF NoEntry, Entry
<1>2. CASE Tick
  BY <1>0, <1>1, <1>2, GuardAssumption DEF Tick, GuardTypeOK
<1>3. CASE AssignRole \/ UpdateMe
  <2>1. Changes /\ UNCHANGED <<now, entry, checking, since, user>> /\ editing' \in BOOLEAN
    BY <1>0, <1>3 DEF AssignRole, UpdateMe, GuardTypeOK
  <2>2. PICK new \in Record : record' = new /\ had' = [had EXCEPT ![now] = @ \union {new}]
    BY <2>1 DEF Changes
  <2>3. had' \in [0..MaxTime -> SUBSET Record]
    BY <1>0, <2>2 DEF GuardTypeOK
  <2>. QED
    BY <1>0, <2>1, <2>2, <2>3 DEF GuardTypeOK
<1>4. CASE Invalidate
  BY <1>0, <1>1, <1>4 DEF Invalidate, GuardTypeOK
<1>5. ASSUME NEW c \in Check, Hit(c) \/ Miss(c) \/ Validate(c) \/ Ends(c)
      PROVE  GuardTypeOK'
  <2>1. 0 \in 0..MaxTime /\ FirstRecord \in Record
    BY GuardAssumption
  <2>2. entry.set => entry.user \in Record
    BY <1>0 DEF GuardTypeOK, Entry
  <2>3. CASE Hit(c)
    BY <1>0, <2>2, <2>3 DEF Hit, StepCheck, GuardTypeOK
  <2>4. CASE Miss(c) \/ Validate(c)
    BY <1>0, <2>4 DEF Miss, Validate, StepCheck, GuardTypeOK
  <2>5. CASE Ends(c)
    BY <1>0, <2>1, <2>5 DEF Ends, GuardTypeOK
  <2>. QED
    BY <1>5, <2>3, <2>4, <2>5
<1>6. ASSUME NEW c \in Check, SetCache(c)
      PROVE  GuardTypeOK'
  <2>1. now + Ttl \in 0..(MaxTime + Ttl) /\ user[c] \in Record /\ (Ttl > 0) \in BOOLEAN
    BY <1>0, GuardAssumption DEF GuardTypeOK
  <2>2. entry' \in Entry
    BY <1>6, <2>1 DEF SetCache, Entry
  <2>. QED
    BY <1>0, <1>6, <2>2 DEF SetCache, StepCheck, GuardTypeOK
<1>. QED
  BY <1>2, <1>3, <1>4, <1>5, <1>6 DEF GuardNext

\* A stored record is one the user had since the check missed the cache.
LEMMA StoredIsRecent ==
    ASSUME GuardInv, NEW c \in Check, checking[c] = "storing"
    PROVE  HadSince(user[c], now - MaxCall)
<1>1. PICK u \in 0..now : since[c] <= u /\ user[c] \in had[u]
  BY DEF GuardInv, HadSince
<1>2. now \in Nat /\ since[c] \in Nat /\ MaxCall \in Nat /\ now - since[c] <= MaxCall
  BY GuardAssumption DEF GuardInv, GuardTypeOK
<1>. QED
  BY <1>1, <1>2 DEF HadSince

LEMMA GuardInvNext ==
    ASSUME GuardInv, [GuardNext]_guardVars
    PROVE  GuardInv'
<1>1. CASE UNCHANGED guardVars
  BY <1>1 DEF GuardInv, GuardTypeOK, HadSince, guardVars
<1> SUFFICES ASSUME GuardNext PROVE GuardInv'
  BY <1>1
<1>0. GuardTypeOK /\ Ttl \in Nat /\ MaxCall \in Nat /\ MaxTime \in Nat
      /\ now \in Nat /\ now <= MaxTime
  BY GuardAssumption DEF GuardInv, GuardTypeOK
<1>2. GuardTypeOK'
  BY GuardTypeNext
<1>3. record' \in had'[now']
  <2>1. CASE Tick
    BY <1>0, <2>1 DEF Tick, GuardTypeOK
  <2>2. CASE AssignRole \/ UpdateMe
    BY <1>0, <2>2 DEF AssignRole, UpdateMe, Changes, GuardTypeOK
  <2>3. CASE ~Tick /\ ~AssignRole /\ ~UpdateMe
    BY <2>3 DEF GuardInv, GuardNext, Invalidate, Hit, Miss, Validate, SetCache, Ends
  <2>. QED
    BY <2>1, <2>2, <2>3
<1>4. ASSUME NEW c \in Check, checking'[c] \in {"asking", "storing"}
      PROVE  since'[c] <= now' /\ now' - since'[c] <= MaxCall
  <2>0. since[c] \in Nat /\ checking \in [Check -> {"idle", "asking", "storing", "passed"}]
        /\ since \in [Check -> 0..MaxTime]
    BY <1>0 DEF GuardTypeOK
  <2>1. CASE Tick
    BY <1>0, <1>4, <2>0, <2>1 DEF Tick, GuardInv
  <2>2. CASE AssignRole \/ UpdateMe \/ Invalidate
    BY <1>4, <2>2 DEF AssignRole, UpdateMe, Invalidate, GuardInv
  <2>3. ASSUME NEW d \in Check, Hit(d) \/ Miss(d) \/ Validate(d) \/ SetCache(d) \/ Ends(d)
        PROVE  since'[c] <= now' /\ now' - since'[c] <= MaxCall
    <3>1. CASE d = c
      BY <1>0, <1>4, <2>0, <2>3, <3>1
      DEF Hit, Miss, Validate, SetCache, Ends, StepCheck, GuardInv
    <3>2. CASE d # c
      <4>1. now' = now /\ since'[c] = since[c] /\ checking'[c] = checking[c]
        BY <2>0, <2>3, <3>2 DEF Hit, Miss, Validate, SetCache, Ends, StepCheck
      <4>. QED
        BY <1>4, <4>1 DEF GuardInv
    <3>. QED
      BY <3>1, <3>2
  <2>. QED
    BY <2>1, <2>2, <2>3 DEF GuardNext
<1>5. ASSUME NEW c \in Check, checking'[c] = "storing"
      PROVE  HadSince(user[c], since[c])' 
  <2>1. CASE UNCHANGED <<checking[c], user[c], since[c]>>
    <3>1. HadSince(user[c], since[c])
      BY <1>5, <2>1 DEF GuardInv
    <3>2. HadSince(user[c], since[c])'
      BY <2>1, <3>1, HadStays DEF HadSince
    <3>. QED
      BY <3>2
  <2>2. CASE Validate(c)
    <3>1. user'[c] = record /\ since'[c] <= now' /\ now' = now /\ had' = had /\ record \in had[now]
      BY <1>0, <1>4, <1>5, <2>2 DEF Validate, GuardTypeOK, GuardInv
    <3>. QED
      BY <1>0, <3>1 DEF HadSince
  <2>3. ASSUME ~Validate(c) PROVE UNCHANGED <<checking[c], user[c], since[c]>>
    <3>1. CASE Tick \/ AssignRole \/ UpdateMe \/ Invalidate
      BY <3>1 DEF Tick, AssignRole, UpdateMe, Invalidate
    <3>2. ASSUME NEW d \in Check, Hit(d) \/ Miss(d) \/ Validate(d) \/ SetCache(d) \/ Ends(d)
          PROVE  UNCHANGED <<checking[c], user[c], since[c]>>
      <4>1. CASE d = c
        BY <1>0, <1>5, <2>3, <3>2, <4>1
        DEF Hit, Miss, SetCache, Ends, StepCheck, GuardTypeOK
      <4>2. CASE d # c
        BY <1>0, <3>2, <4>2 DEF Hit, Miss, Validate, SetCache, Ends, StepCheck, GuardTypeOK
      <4>. QED
        BY <4>1, <4>2
    <3>. QED
      BY <3>1, <3>2 DEF GuardNext
  <2>. QED
    BY <2>1, <2>2, <2>3
<1>6. ASSUME entry'.set
      PROVE  now' < entry'.until /\ HadSince(entry.user, entry.until - (Ttl + MaxCall))'
  <2>1. CASE entry' = entry
    <3>1. HadSince(entry.user, entry.until - (Ttl + MaxCall)) /\ now < entry.until
      BY <1>6, <2>1 DEF GuardInv
    <3>2. HadSince(entry.user, entry.until - (Ttl + MaxCall))'
      BY <2>1, <3>1, HadStays DEF HadSince
    <3>3. entry.until \in Nat
      BY <1>0 DEF GuardTypeOK, Entry
    <3>4. now' < entry'.until
      <4>1. CASE Tick
        BY <1>0, <1>6, <2>1, <3>1, <3>3, <4>1 DEF Tick, NoEntry
      <4>2. CASE ~Tick
        BY <2>1, <3>1, <4>2
        DEF GuardNext, AssignRole, UpdateMe, Invalidate, Hit, Miss, Validate, SetCache, Ends
      <4>. QED
        BY <4>1, <4>2
    <3>. QED
      BY <3>2, <3>4
  <2>2. ASSUME NEW c \in Check, SetCache(c)
        PROVE  now' < entry'.until /\ HadSince(entry.user, entry.until - (Ttl + MaxCall))'
    <3>1. /\ entry'.user = user[c] /\ entry'.until = now + Ttl /\ entry'.set = (Ttl > 0)
          /\ now' = now /\ had' = had
      BY <2>2 DEF SetCache
    <3>2. HadSince(user[c], now - MaxCall)
      BY <2>2, StoredIsRecent DEF SetCache, StepCheck
    <3>3. entry'.until - (Ttl + MaxCall) = now - MaxCall
      BY <1>0, <3>1
    <3>4. PICK u \in 0..now : now - MaxCall <= u /\ user[c] \in had[u]
      BY <3>2 DEF HadSince
    <3>5. u \in 0..now' /\ entry'.until - (Ttl + MaxCall) <= u /\ entry'.user \in had'[u]
      BY <3>1, <3>3, <3>4
    <3>6. HadSince(entry.user, entry.until - (Ttl + MaxCall))'
      BY <3>5 DEF HadSince
    <3>7. Ttl > 0
      BY <1>6, <3>1, Zenon
    <3>8. now' < entry'.until
      BY <1>0, <3>1, <3>7
    <3>. QED
      BY <3>6, <3>8
  <2>3. ASSUME entry' # entry PROVE \E c \in Check : SetCache(c)
    BY <1>6, <2>3
    DEF GuardNext, Tick, AssignRole, UpdateMe, Invalidate, Hit, Miss, Validate, Ends, NoEntry
  <2>. QED
    BY <2>1, <2>2, <2>3
<1>. QED
  BY <1>2, <1>3, <1>4, <1>5, <1>6 DEF GuardInv

LEMMA GuardInvariance == GuardSpec => []GuardInv
<1>. QED
  BY GuardInvInit, GuardInvNext, PTL DEF GuardSpec

\* Every variable of the guards and their cache keeps its type.
THEOREM GuardTypeCorrect == GuardSpec => []GuardTypeOK
<1>1. GuardInv => GuardTypeOK
  BY DEF GuardInv
<1>. QED
  BY <1>1, GuardInvariance, PTL

LEMMA PassedIsRecent ==
    ASSUME GuardInv, GuardNext, NEW c \in Check,
           checking'[c] = "passed", checking[c] # "passed"
    PROVE  user'[c] \in RecentRecords
<1>0. /\ GuardTypeOK /\ now \in Nat /\ Ttl \in Nat /\ MaxCall \in Nat
      /\ entry.until \in Int
  BY GuardAssumption DEF GuardInv, GuardTypeOK, Entry
<1>1. Hit(c) \/ SetCache(c)
  BY <1>0
  DEF GuardNext, Tick, AssignRole, UpdateMe, Invalidate, Hit, Miss, Validate, SetCache, Ends,
      StepCheck, GuardTypeOK
<1>2. \E u \in 0..now : now - u <= Ttl + MaxCall /\ user'[c] \in had[u]
  <2>1. CASE Hit(c)
    <3>1. user'[c] = entry.user /\ entry.set
      BY <1>0, <2>1 DEF Hit, GuardTypeOK
    <3>2. PICK u \in 0..now : entry.until - (Ttl + MaxCall) <= u /\ entry.user \in had[u]
      BY <3>1 DEF GuardInv, HadSince
    <3>3. now < entry.until
      BY <3>1 DEF GuardInv
    <3>. QED
      BY <1>0, <3>1, <3>2, <3>3
  <2>2. CASE SetCache(c)
    <3>1. user'[c] = user[c] /\ checking[c] = "storing"
      BY <2>2 DEF SetCache, StepCheck
    <3>2. PICK u \in 0..now : now - MaxCall <= u /\ user[c] \in had[u]
      BY <3>1, StoredIsRecent DEF HadSince
    <3>. QED
      BY <1>0, <3>1, <3>2
  <2>. QED
    BY <1>1, <2>1, <2>2
<1>. QED
  BY <1>2 DEF RecentRecords

\* A request passes RemoteAuthGuard with a record that the user had at most one
\* life of a cache entry and one validation call ago.
THEOREM RecentGuards == GuardSpec => RecordsAtMostStale
<1>1. ASSUME GuardInv, [GuardNext]_guardVars
      PROVE  [\A c \in Check :
                 checking'[c] = "passed" /\ checking[c] # "passed" =>
                     user'[c] \in RecentRecords]_guardVars
  BY <1>1, PassedIsRecent
<1>. QED
  BY <1>1, GuardInvariance, PTL DEF GuardSpec, RecordsAtMostStale

-----------------------------------------------------------------------------
(* The circuit breaker.                                                    *)

\* The inductive invariant: no call is let through while the breaker is open, so
\* that those under way when it opened are over a call's time later, and with
\* them the time it starts again.
BreakerInv ==
    /\ BreakerTypeOK
    /\ circuitOpenedAt = Closed <=> trippedAt = Closed
    /\ circuitOpenedAt # Closed =>
           circuitOpenedAt <= clock /\ circuitOpenedAt - trippedAt <= MaxExchange
    /\ \A c \in Caller : calling[c] = "sent" =>
           /\ calledAt[c] <= clock /\ clock - calledAt[c] <= MaxExchange
           /\ circuitOpenedAt # Closed => calledAt[c] <= trippedAt

LEMMA BreakerInvInit == BreakerInit => BreakerInv
BY BreakerAssumption DEF BreakerInit, BreakerInv, BreakerTypeOK, Closed

LEMMA BreakerInvNext ==
    ASSUME BreakerInv, [BreakerNext]_breakerVars
    PROVE  BreakerInv'
<1>0. /\ BreakerTypeOK /\ Threshold \in Nat \ {0} /\ MaxClock \in Nat /\ MaxExchange \in Nat
      /\ Closed \notin 0..MaxClock /\ clock \in 0..MaxClock
      /\ Closed \in Int
  BY BreakerAssumption DEF BreakerInv, BreakerTypeOK, Closed
<1>1. CASE ClockTicks
  BY <1>0, <1>1 DEF BreakerInv, BreakerTypeOK, ClockTicks
<1>2. ASSUME NEW c \in Caller, SendClosed(c) PROVE BreakerInv'
  BY <1>0, <1>2 DEF BreakerInv, BreakerTypeOK, SendClosed, Sends, StepCall
<1>3. ASSUME NEW c \in Caller, SendCooledDown(c) PROVE BreakerInv'
  BY <1>0, <1>3 DEF BreakerInv, BreakerTypeOK, SendCooledDown, Sends, StepCall
<1>4. ASSUME NEW c \in Caller, RefusedOpen(c) \/ AnswerResets(c) \/ Returns(c) PROVE BreakerInv'
  BY <1>0, <1>4 DEF BreakerInv, BreakerTypeOK, RefusedOpen, AnswerResets, Returns, StepCall
<1>5. ASSUME NEW c \in Caller, FailureCounts(c) PROVE BreakerInv'
  <2>1. /\ calling[c] = "sent" /\ calling' = [calling EXCEPT ![c] = "done"]
        /\ UNCHANGED <<clock, calledAt>>
        /\ consecutiveFailures' \in 0..Threshold
        /\ \/ UNCHANGED <<circuitOpenedAt, trippedAt>>
           \/ /\ circuitOpenedAt' = clock
              /\ trippedAt' = IF circuitOpenedAt = Closed THEN clock ELSE trippedAt
    BY <1>0, <1>5 DEF BreakerTypeOK, FailureCounts, StepCall, CountFailure
  <2>2. BreakerTypeOK'
    BY <1>0, <2>1 DEF BreakerTypeOK
  <2>3. CASE UNCHANGED <<circuitOpenedAt, trippedAt>>
    BY <1>0, <2>1, <2>2, <2>3 DEF BreakerInv, BreakerTypeOK
  <2>4. CASE circuitOpenedAt' = clock /\ circuitOpenedAt = Closed /\ trippedAt' = clock
    BY <1>0, <2>1, <2>2, <2>4 DEF BreakerInv, BreakerTypeOK
  <2>5. CASE circuitOpenedAt' = clock /\ circuitOpenedAt # Closed /\ trippedAt' = trippedAt
    BY <1>0, <2>1, <2>2, <2>5 DEF BreakerInv, BreakerTypeOK
  <2>. QED
    BY <2>1, <2>3, <2>4, <2>5
<1>6. CASE UNCHANGED breakerVars
  BY <1>6 DEF BreakerInv, BreakerTypeOK, breakerVars
<1>. QED
  BY <1>1, <1>2, <1>3, <1>4, <1>5, <1>6 DEF BreakerNext

LEMMA BreakerInvariance == BreakerSpec => []BreakerInv
<1>. QED
  BY BreakerInvInit, BreakerInvNext, PTL DEF BreakerSpec

\* Every variable of the circuit breaker keeps its type.
THEOREM BreakerTypeCorrect == BreakerSpec => []BreakerTypeOK
<1>1. BreakerInv => BreakerTypeOK
  BY DEF BreakerInv
<1>. QED
  BY <1>1, BreakerInvariance, PTL

\* BaseHttpService refuses calls for a bounded time after its breaker opened: the
\* cooling down, and the time the last call still under way may take.
THEOREM BoundedRefusals == BreakerSpec => RefusalsBounded
<1>1. ASSUME BreakerInv, BreakerNext, NEW c \in Caller,
             calling[c] = "idle", calling'[c] = "refused"
      PROVE  clock - trippedAt < Cooldown + MaxExchange
  <2>1. BreakerTypeOK /\ MaxExchange \in Nat /\ Cooldown \in Nat /\ MaxClock \in Nat
    BY <1>1, BreakerAssumption DEF BreakerInv
  <2>2. RefusedOpen(c)
    <3>1. ASSUME NEW d \in Caller,
                 \/ SendClosed(d) \/ SendCooledDown(d) \/ AnswerResets(d)
                 \/ FailureCounts(d) \/ Returns(d)
          PROVE  FALSE
      BY <1>1, <2>1, <3>1
      DEF SendClosed, SendCooledDown, Sends, AnswerResets, FailureCounts, Returns, StepCall,
          BreakerTypeOK
    <3>2. ASSUME NEW d \in Caller, RefusedOpen(d), d # c PROVE FALSE
      BY <1>1, <2>1, <3>2 DEF RefusedOpen, StepCall, BreakerTypeOK
    <3>3. ~ClockTicks
      BY <1>1 DEF ClockTicks
    <3>. QED
      BY <1>1, <3>1, <3>2, <3>3 DEF BreakerNext
  <2>3. circuitOpenedAt # Closed /\ clock - circuitOpenedAt < Cooldown
    BY <2>2 DEF RefusedOpen, CoolingDown
  <2>. QED
    BY <1>1, <2>1, <2>3 DEF BreakerInv, BreakerTypeOK
<1>2. ASSUME BreakerInv, [BreakerNext]_breakerVars
      PROVE  [\A c \in Caller :
                 calling[c] = "idle" /\ calling'[c] = "refused" =>
                     clock - trippedAt < Cooldown + MaxExchange]_breakerVars
  BY <1>1, <1>2
<1>. QED
  BY <1>2, BreakerInvariance, PTL DEF BreakerSpec, RefusalsBounded

-----------------------------------------------------------------------------
(* The page for transfers.                                                 *)

\* The form shows the number of its destination, unless it is looking one up.
Shown(f) ==
    f.destination # NoPayee /\ f.lookup = NoPayee =>
        ~f.isAdding /\ f.destination = f.accountNumber

\* A handler looks up and adds the payee it began with.
HasPayee ==
    \A h \in Handler : work[h].stage \in {"find", "check", "recheck", "add"} =>
        work[h].payee \in Payee

\* Unless answers have been mixed up, one payment is on its way at a time, its
\* button is disabled meanwhile, and the panel is closed once one is made.
OnePaymentAtOnce ==
    ~mixed =>
        /\ \A g, h \in Confirming : g = h
        /\ \A h \in Handler : work[h].stage = "pay" => latest["pay"] = h
        /\ paid => ~otpOpen /\ Confirming = {} /\ outcome # "failed"

\* The inductive invariant.
DeskInv == DeskTypeOK /\ HasPayee /\ Shown(form) /\ OnePaymentAtOnce

\* The effect leaves a form that shows its destination, or is looking it up.
LEMMA ResolveShows ==
    ASSUME DeskTypeOK, NEW f \in Form, NEW opts \in SUBSET Payee, NEW known \in SUBSET Payee
    PROVE  Resolve(f, opts, known) \in Form /\ Shown(Resolve(f, opts, known))
<1> DEFINE p == Selected(f, opts)
<1>1. p \in Payee \union {NoPayee} /\ NoPayee \notin Payee /\ own \subseteq Payee
  BY DeskAssumption DEF Selected, DeskTypeOK
<1> HIDE DEF p
<1>2. CASE f.isAdding
  BY <1>2 DEF Resolve, Form, Shown
<1>3. CASE ~f.isAdding /\ p = NoPayee
  <2>1. Resolve(f, opts, known) = [f EXCEPT !.destination = NoPayee, !.lookup = NoPayee]
    BY <1>1, <1>3 DEF Resolve, p
  <2>. QED
    BY <2>1 DEF Form, Shown
<1>4. CASE ~f.isAdding /\ p # NoPayee /\ p \in own \union known
  <2>1. Resolve(f, opts, known) = [f EXCEPT !.accountNumber = p, !.destination = p,
                                            !.lookup = NoPayee, !.resolving = FALSE]
    BY <1>4 DEF Resolve, p
  <2>. QED
    BY <1>1, <1>4, <2>1 DEF Form, Shown
<1>5. CASE ~f.isAdding /\ p # NoPayee /\ p \notin own \union known
  <2>1. Resolve(f, opts, known) = [f EXCEPT !.accountNumber = p, !.lookup = p, !.resolving = TRUE]
    BY <1>5 DEF Resolve, p
  <2>. QED
    BY <1>1, <1>5, <2>1 DEF Form, Shown
<1>. QED
  BY <1>2, <1>3, <1>4, <1>5

\* So does a change of the state, if the form it makes does or the effect runs.
LEMMA RendersShows ==
    ASSUME DeskTypeOK, NEW f \in Form, NEW opts \in SUBSET Payee, NEW known \in SUBSET Payee,
           NEW wrote, Renders(f, opts, known, wrote), Shown(f) \/ Runs(f, opts, wrote)
    PROVE  /\ form' \in Form /\ Shown(form')
           /\ options' \subseteq Payee /\ resolved' \subseteq Payee
<1> DEFINE g == IF Runs(f, opts, wrote) THEN Resolve(f, opts, known) ELSE f
<1>1. form' \in Reselected(g, opts, known) /\ options' = opts /\ resolved' = known
  BY DEF Renders
<1>2. g \in Form /\ Shown(g)
  BY ResolveShows
<1> HIDE DEF g
<1>3. CASE g.isAdding \/ g.beneficiaryId \in opts
  <2>1. form' = g
    BY <1>1, <1>3 DEF Reselected
  <2>. QED
    BY <1>1, <1>2, <2>1
<1>4. CASE ~(g.isAdding \/ g.beneficiaryId \in opts) /\ opts = {}
  <2>1. form' = [g EXCEPT !.beneficiaryId = NoPayee]
    BY <1>1, <1>4 DEF Reselected
  <2>. QED
    BY <1>1, <1>2, <2>1 DEF Form, Shown
<1>5. CASE ~(g.isAdding \/ g.beneficiaryId \in opts) /\ opts # {}
  <2>1. PICK p \in First(opts) : form' = Resolve([g EXCEPT !.beneficiaryId = p], opts, known)
    BY <1>1, <1>5 DEF Reselected
  <2>2. [g EXCEPT !.beneficiaryId = p] \in Form
    <3>1. p \in Payee
      BY DEF First
    <3>. QED
      BY <1>2, <3>1 DEF Form
  <2>. QED
    BY <1>1, <2>1, <2>2, ResolveShows
<1>. QED
  BY <1>3, <1>4, <1>5

\* What a handler looks up it learns, and the effect runs.
LEMMA LearnsShows ==
    ASSUME DeskTypeOK, NEW f \in Form, NEW p \in Payee, Learns(f, p)
    PROVE  /\ form' \in Form /\ Shown(form')
           /\ options' \subseteq Payee /\ resolved' \subseteq Payee
<1>1. options \in SUBSET Payee /\ resolved \union {p} \in SUBSET Payee
  BY DEF DeskTypeOK
<1>2. Runs(f, options, TRUE)
  BY DEF Runs
<1>. QED
  BY <1>1, <1>2, RendersShows DEF Learns

\* The steps of a handler.
LEMMA StepsTo ==
    ASSUME DeskTypeOK, NEW h \in Handler, NEW from,
           NEW to \in {"find", "email", "send", "check", "recheck", "add", "profile", "pay"},
           Steps(h, from, to)
    PROVE  /\ work' \in [Handler -> Work]
           /\ work[h].stage = from
           /\ work'[h].stage = to /\ work'[h].payee = work[h].payee
           /\ \A g \in Handler \ {h} : work'[g] = work[g]
BY DEF DeskTypeOK, Steps, Work

LEMMA FinishesAt ==
    ASSUME DeskTypeOK, NEW h \in Handler, NEW from, Finishes(h, from)
    PROVE  /\ work' \in [Handler -> Work]
           /\ work[h].stage = from
           /\ work'[h].stage = "idle"
           /\ \A g \in Handler \ {h} : work'[g] = work[g]
BY DEF DeskTypeOK, Finishes, Work, Idle

LEMMA LatestCalls ==
    ASSUME DeskTypeOK, NEW h \in Handler, NEW m \in Mutation, Calls(h, m) \/ Answered(h, m)
    PROVE  /\ latest' \in [Mutation -> Handler \union {NoHandler}]
           /\ \A n \in Mutation \ {m} : latest'[n] = latest[n]
BY DEF DeskTypeOK, Calls, Answered

\* What has nothing to do with payments keeps what is known of them.
LEMMA PaymentKept ==
    ASSUME OnePaymentAtOnce, UNCHANGED <<mixed, paid, otpOpen>>, outcome' \in {outcome, "none"},
           latest'["pay"] = latest["pay"],
           \A h \in Handler : work'[h].stage \in {"profile", "pay"} =>
               work'[h].stage = work[h].stage
    PROVE  OnePaymentAtOnce'
<1>1. Confirming' \subseteq Confirming
  BY DEF Confirming
<1>. QED
  BY <1>1 DEF OnePaymentAtOnce

LEMMA DeskInvInit == DeskInit => DeskInv
<1> SUFFICES ASSUME DeskInit PROVE DeskInv
  OBVIOUS
<1>1. DeskTypeOK
  BY DEF DeskInit, DeskTypeOK, Form, Work, Idle
<1>2. HasPayee /\ Confirming = {}
  BY DEF DeskInit, HasPayee, Confirming, Idle
<1>3. Shown(form)
  BY DEF DeskInit, Shown
<1>4. OnePaymentAtOnce
  BY <1>2 DEF DeskInit, OnePaymentAtOnce, Idle
<1>. QED
  BY <1>1, <1>2, <1>3, <1>4 DEF DeskInv

\* The customer fills the form, and the lists and the lookup answer.
LEMMA FormFilled ==
    ASSUME DeskInv,
           \/ \E p \in Payee : SelectBeneficiary(p) \/ SelectRecent(p) \/ TypeNumber(p)
           \/ TypeDetails \/ StartNewBeneficiary \/ CancelNewBeneficiary
           \/ ListsChange \/ LookupFound \/ LookupFailed
    PROVE  /\ KeepsPayment
           /\ form' \in Form /\ Shown(form')
           /\ options' \subseteq Payee /\ resolved' \subseteq Payee
<1>0. /\ DeskTypeOK /\ form \in Form /\ Shown(form) /\ NoPayee \notin Payee
      /\ options \in SUBSET Payee /\ resolved \in SUBSET Payee
  BY DeskAssumption DEF DeskInv, DeskTypeOK
<1>1. ASSUME NEW p \in Payee, SelectBeneficiary(p) \/ SelectRecent(p)
      PROVE  /\ KeepsPayment
             /\ form' \in Form /\ Shown(form')
             /\ options' \subseteq Payee /\ resolved' \subseteq Payee
  <2>1. PICK adding \in {FALSE, form.isAdding} :
           Edits([form EXCEPT !.isAdding = adding, !.beneficiaryId = p]) /\ KeepsPayment
    <3>1. CASE SelectBeneficiary(p)
      BY <3>1 DEF SelectBeneficiary
    <3>2. CASE SelectRecent(p)
      <4>1. [form EXCEPT !.beneficiaryId = p]
                = [form EXCEPT !.isAdding = form.isAdding, !.beneficiaryId = p]
        BY <1>0 DEF Form
      <4>. QED
        BY <3>2, <4>1 DEF SelectRecent
    <3>. QED
      BY <1>1, <3>1, <3>2
  <2> DEFINE f == [form EXCEPT !.isAdding = adding, !.beneficiaryId = p]
  <2>2. f \in Form /\ f.isAdding = adding
    BY <1>0 DEF Form
  <2>3. Shown(f) \/ Runs(f, options, FALSE)
    <3>1. CASE adding = form.isAdding
      BY <1>0, <3>1 DEF Form, Shown
    <3>2. CASE adding # form.isAdding
      BY <2>2, <3>2 DEF Runs
    <3>. QED
      BY <3>1, <3>2
  <2>. QED
    BY <1>0, <2>1, <2>2, <2>3, RendersShows DEF Edits
<1>2. ASSUME NEW p \in Payee, TypeNumber(p)
      PROVE  /\ KeepsPayment
             /\ form' \in Form /\ Shown(form')
             /\ options' \subseteq Payee /\ resolved' \subseteq Payee
  <2> DEFINE f == [form EXCEPT !.isAdding = TRUE, !.accountNumber = p]
             e == [f EXCEPT !.beneficiaryId = NoPayee, !.destination = NoPayee]
  <2>1. f \in Form /\ e \in Form /\ f.isAdding
    BY <1>0 DEF Form
  <2>2. Shown(e)
    BY <1>0 DEF Form, Shown
  <2>3. Shown(f) \/ Runs(f, options, FALSE)
    <3>1. CASE form.isAdding
      BY <1>0, <3>1 DEF Form, Shown
    <3>2. CASE ~form.isAdding
      BY <2>1, <3>2 DEF Runs
    <3>. QED
      BY <3>1, <3>2
  <2>4. KeepsPayment /\ (Edits(f) \/ Edits(e))
    BY <1>2 DEF TypeNumber
  <2> HIDE DEF f, e
  <2>. QED
    BY <1>0, <2>1, <2>2, <2>3, <2>4, RendersShows DEF Edits
<1>3. CASE TypeDetails
  <2> DEFINE f == [form EXCEPT !.isAdding = TRUE]
  <2>1. f \in Form /\ f.isAdding
    BY <1>0 DEF Form
  <2>2. Shown(f) \/ Runs(f, options, FALSE)
    <3>1. CASE form.isAdding
      BY <1>0, <3>1 DEF Form, Shown
    <3>2. CASE ~form.isAdding
      BY <2>1, <3>2 DEF Runs
    <3>. QED
      BY <3>1, <3>2
  <2>. QED
    BY <1>0, <1>3, <2>1, <2>2, RendersShows DEF TypeDetails, Edits
<1>4. CASE StartNewBeneficiary
  <2> DEFINE f == [form EXCEPT !.isAdding = TRUE, !.beneficiaryId = NoPayee,
                               !.destination = NoPayee, !.accountNumber = NoPayee]
  <2>1. f \in Form /\ Shown(f)
    BY <1>0 DEF Form, Shown
  <2>. QED
    BY <1>0, <1>4, <2>1, RendersShows DEF StartNewBeneficiary, Edits
<1>5. CASE CancelNewBeneficiary
  <2>1. PICK p \in First(options) :
           /\ form.isAdding /\ KeepsPayment
           /\ Edits([form EXCEPT !.isAdding = FALSE, !.beneficiaryId = p])
    BY <1>5 DEF CancelNewBeneficiary
  <2> DEFINE f == [form EXCEPT !.isAdding = FALSE, !.beneficiaryId = p]
  <2>2. p \in Payee
    BY <1>0 DEF First
  <2>3. f \in Form /\ ~f.isAdding
    BY <1>0, <2>2 DEF Form
  <2>4. Runs(f, options, FALSE)
    BY <2>1, <2>3 DEF Runs
  <2>. QED
    BY <1>0, <2>1, <2>3, <2>4, RendersShows DEF Edits
<1>6. CASE ListsChange
  <2>1. PICK opts \in SUBSET Payee : Renders(form, opts, resolved, FALSE) /\ KeepsPayment
    BY <1>6 DEF ListsChange
  <2>. QED
    BY <1>0, <2>1, RendersShows
<1>7. CASE LookupFound
  <2> DEFINE f == [form EXCEPT !.destination = form.lookup, !.lookup = NoPayee,
                               !.resolving = FALSE]
  <2>1. form.lookup \in Payee /\ f \in Form
    BY <1>0, <1>7 DEF LookupFound, Form
  <2>. QED
    BY <1>0, <1>7, <2>1, LearnsShows DEF LookupFound
<1>8. CASE LookupFailed
  BY <1>0, <1>8 DEF LookupFailed, Form, Shown
<1>. QED
  BY <1>1, <1>2, <1>3, <1>4, <1>5, <1>6, <1>7, <1>8

\* The handlers that save a beneficiary.
LEMMA BeneficiarySaved ==
    ASSUME DeskInv, NEW h \in Handler,
           \/ SaveBeneficiary(h) \/ SaveRefused(h) \/ SelectsExisting(h)
           \/ AddBeneficiary(h) \/ Added(h) \/ NotAdded(h)
    PROVE  /\ form' \in Form /\ Shown(form')
           /\ options' \subseteq Payee /\ resolved' \subseteq Payee
           /\ work' \in [Handler -> Work]
           /\ work'[h].stage \in {"check", "recheck", "add"} => work'[h].payee \in Payee
           /\ work'[h].stage \in {"check", "recheck", "add", "idle"}
           /\ \A g \in Handler \ {h} : work'[g] = work[g]
           /\ latest' \in [Mutation -> Handler \union {NoHandler}]
           /\ latest'["pay"] = latest["pay"]
           /\ KeepsPanel
<1> DEFINE f == [form EXCEPT !.resolving = FALSE]
           p == work[h].payee
<1>0. /\ DeskTypeOK /\ form \in Form /\ Shown(form) /\ NoPayee \notin Payee
      /\ options \in SUBSET Payee /\ resolved \in SUBSET Payee
      /\ work[h] \in Work /\ work \in [Handler -> Work]
      /\ work[h].stage \in {"check", "recheck", "add"} => p \in Payee
      /\ latest \in [Mutation -> Handler \union {NoHandler}]
      /\ {"add", "pay"} \subseteq Mutation
  BY DeskAssumption DEF DeskInv, DeskTypeOK, HasPayee, Mutation
<1>1. f \in Form /\ Shown(f)
  BY <1>0 DEF Form, Shown
<1> HIDE DEF f, p
<1>2. CASE SaveBeneficiary(h)
  <2> DEFINE s == IF form.accountNumber \in options THEN "recheck" ELSE "check"
  <2>1. /\ form.accountNumber \in Payee
        /\ work' = [work EXCEPT ![h] = [stage |-> s, payee |-> form.accountNumber]]
        /\ form' = [form EXCEPT !.resolving = TRUE]
        /\ UNCHANGED <<options, resolved, latest>> /\ KeepsPanel
    BY <1>2 DEF SaveBeneficiary
  <2>2. s \in {"check", "recheck"}
    OBVIOUS
  <2> HIDE DEF s
  <2>3. [stage |-> s, payee |-> form.accountNumber] \in Work
    BY <2>1, <2>2 DEF Work
  <2>4. form' \in Form /\ Shown(form')
    BY <1>0, <2>1 DEF Form, Shown
  <2>. QED
    BY <1>0, <2>1, <2>2, <2>3, <2>4
<1>3. CASE SaveRefused(h)
  <2>1. /\ Finishes(h, "check") \/ Finishes(h, "recheck")
        /\ Learns(f, p) \/ (form' = f /\ UNCHANGED <<options, resolved>>)
        /\ UNCHANGED latest /\ KeepsPanel
    BY <1>3 DEF SaveRefused, f, p
  <2>2. work[h].stage \in {"check", "recheck"}
    BY <1>0, <2>1, FinishesAt
  <2>. QED
    BY <1>0, <1>1, <2>1, <2>2, FinishesAt, LearnsShows
<1>4. CASE SelectsExisting(h)
  <2> DEFINE e == [form EXCEPT !.isAdding = FALSE, !.beneficiaryId = p, !.destination = p,
                               !.resolving = FALSE]
  <2>1. Finishes(h, "recheck") /\ Learns(e, p) /\ UNCHANGED latest /\ KeepsPanel
    BY <1>4 DEF SelectsExisting, p
  <2>2. p \in Payee /\ work[h].stage = "recheck"
    BY <1>0, <2>1, FinishesAt
  <2>3. e \in Form
    BY <1>0, <2>2 DEF Form
  <2>. QED
    BY <1>0, <2>1, <2>2, <2>3, FinishesAt, LearnsShows
<1>5. CASE AddBeneficiary(h)
  <2>1. Steps(h, "check", "add") /\ Learns(form, p) /\ Calls(h, "add") /\ KeepsPanel
    BY <1>5 DEF AddBeneficiary, p
  <2>2. work[h].stage = "check" /\ work'[h].stage = "add" /\ work'[h].payee = p
    BY <1>0, <2>1, StepsTo DEF p
  <2>. QED
    BY <1>0, <2>1, <2>2, StepsTo, LearnsShows, LatestCalls
<1>6. CASE Added(h)
  <2> DEFINE e == [form EXCEPT !.isAdding = FALSE, !.beneficiaryId = p, !.destination = p,
                               !.accountNumber = p, !.resolving = FALSE]
  <2>1. PICK opts \in {options, options \union {p}} :
           Finishes(h, "add") /\ Answered(h, "add") /\ Renders(e, opts, resolved, FALSE) /\ KeepsPanel
    BY <1>6 DEF Added, p
  <2>2. p \in Payee /\ work[h].stage = "add"
    BY <1>0, <2>1, FinishesAt
  <2>3. e \in Form /\ Shown(e) /\ opts \in SUBSET Payee
    BY <1>0, <2>2 DEF Form, Shown
  <2>. QED
    BY <1>0, <2>1, <2>3, FinishesAt, RendersShows, LatestCalls
<1>7. CASE NotAdded(h)
  <2>1. /\ Finishes(h, "add") /\ Answered(h, "add") /\ form' = f
        /\ UNCHANGED <<options, resolved>> /\ KeepsPanel
    BY <1>7 DEF NotAdded, f
  <2>. QED
    BY <1>0, <1>1, <2>1, FinishesAt, LatestCalls
<1>. QED
  BY <1>2, <1>3, <1>4, <1>5, <1>6, <1>7

\* The handlers that find the account and ask for a code.
LEMMA CodeAsked ==
    ASSUME DeskInv, NEW h \in Handler,
           \/ Proceed(h) \/ Found(h) \/ NotFound(h)
           \/ ResendOtp(h) \/ SendPaymentOtp(h) \/ OtpNotSent(h)
    PROVE  /\ form' \in Form /\ Shown(form')
           /\ options' \subseteq Payee /\ resolved' \subseteq Payee
           /\ work' \in [Handler -> Work]
           /\ work'[h].stage = "find" => work'[h].payee \in Payee
           /\ work'[h].stage \in {"find", "email", "send", "idle"}
           /\ \A g \in Handler \ {h} : work'[g] = work[g]
           /\ latest' \in [Mutation -> Handler \union {NoHandler}]
           /\ latest'["pay"] = latest["pay"]
           /\ outcome' \in {outcome, "none"}
           /\ UNCHANGED <<otpOpen, otp, paid, mixed>>
<1> DEFINE f == [form EXCEPT !.resolving = FALSE]
           p == work[h].payee
<1>0. /\ DeskTypeOK /\ form \in Form /\ Shown(form) /\ NoPayee \notin Payee
      /\ options \in SUBSET Payee /\ resolved \in SUBSET Payee
      /\ work[h] \in Work /\ work \in [Handler -> Work]
      /\ work[h].stage = "find" => p \in Payee
      /\ latest \in [Mutation -> Handler \union {NoHandler}]
      /\ {"send", "pay"} \subseteq Mutation
  BY DeskAssumption DEF DeskInv, DeskTypeOK, HasPayee, Mutation
<1>1. f \in Form /\ Shown(f)
  BY <1>0 DEF Form, Shown
<1> HIDE DEF f, p
<1>2. CASE Proceed(h)
  <2> DEFINE known == form.destination # NoPayee
             q == IF known THEN form.destination ELSE form.accountNumber
             s == IF known THEN "email" ELSE "find"
  <2>1. /\ form.accountNumber # NoPayee
        /\ work' = [work EXCEPT ![h] = [stage |-> s, payee |-> q]]
        /\ form' = [form EXCEPT !.resolving = ~known]
        /\ outcome' = "none"
        /\ UNCHANGED <<options, resolved, latest, otpOpen, otp, paid, mixed>>
    BY <1>2 DEF Proceed
  <2>2. q \in Payee /\ s \in {"email", "find"} /\ known \in BOOLEAN
    BY <1>0, <2>1 DEF Form
  <2> HIDE DEF known, q, s
  <2>3. [stage |-> s, payee |-> q] \in Work
    BY <2>2 DEF Work
  <2>4. form' \in Form /\ Shown(form')
    BY <1>0, <2>1, <2>2 DEF Form, Shown
  <2>. QED
    BY <1>0, <2>1, <2>2, <2>3, <2>4
<1>3. CASE Found(h)
  <2> DEFINE e == [form EXCEPT !.destination = p, !.resolving = FALSE]
  <2>1. /\ Steps(h, "find", "email") \/ Finishes(h, "find")
        /\ Learns(e, p) /\ UNCHANGED latest /\ KeepsPanel
    BY <1>3 DEF Found, p
  <2>2. p \in Payee
    BY <1>0, <2>1, StepsTo, FinishesAt
  <2>3. e \in Form
    BY <1>0, <2>2 DEF Form
  <2>4. /\ work' \in [Handler -> Work] /\ work'[h].stage \in {"email", "idle"}
        /\ \A g \in Handler \ {h} : work'[g] = work[g]
    BY <1>0, <2>1, StepsTo, FinishesAt
  <2>. QED
    BY <1>0, <2>1, <2>2, <2>3, <2>4, LearnsShows DEF KeepsPanel
<1>4. CASE NotFound(h)
  <2>1. /\ Finishes(h, "find") /\ form' = f
        /\ UNCHANGED <<options, resolved, latest>> /\ KeepsPanel
    BY <1>4 DEF NotFound, f
  <2>. QED
    BY <1>0, <1>1, <2>1, FinishesAt DEF KeepsPanel
<1>5. CASE ResendOtp(h)
  <2>1. /\ work' = [work EXCEPT ![h].stage = "email"]
        /\ UNCHANGED latest /\ KeepsForm /\ KeepsPanel
    BY <1>5 DEF ResendOtp
  <2>2. /\ work' \in [Handler -> Work] /\ work'[h].stage = "email"
        /\ \A g \in Handler \ {h} : work'[g] = work[g]
    BY <1>0, <2>1 DEF Work
  <2>. QED
    BY <1>0, <2>1, <2>2 DEF KeepsPanel, KeepsForm
<1>6. CASE SendPaymentOtp(h)
  <2>1. Steps(h, "email", "send") /\ Calls(h, "send") /\ KeepsForm /\ KeepsPanel
    BY <1>6 DEF SendPaymentOtp
  <2>. QED
    BY <1>0, <2>1, StepsTo, LatestCalls DEF KeepsPanel, KeepsForm
<1>7. CASE OtpNotSent(h)
  <2>1. /\ Finishes(h, "email") \/ Finishes(h, "send")
        /\ Answered(h, "send") /\ KeepsForm /\ KeepsPanel
    BY <1>7 DEF OtpNotSent
  <2>. QED
    BY <1>0, <2>1, FinishesAt, LatestCalls DEF KeepsPanel, KeepsForm
<1>. QED
  BY <1>2, <1>3, <1>4, <1>5, <1>6, <1>7

\* The panel, and the payment.
LEMMA PanelUsed ==
    ASSUME DeskInv,
           \/ TypeOtp \/ CloseOtpPanel
           \/ \E h \in Handler : \/ OtpSent(h) \/ ConfirmOtp(h) \/ CreatePayment(h)
                                 \/ PaymentMade(h) \/ PaymentRefused(h) \/ PaymentMisreported(h)
    PROVE  /\ KeepsForm
           /\ work' \in [Handler -> Work]
           /\ \A g \in Handler : work'[g] = work[g] \/ work'[g].stage \in {"idle", "profile", "pay"}
           /\ latest' \in [Mutation -> Handler \union {NoHandler}]
           /\ otpOpen' \in BOOLEAN /\ otp' \in BOOLEAN
           /\ outcome' \in {"none", "failed", "success"}
           /\ paid' \in BOOLEAN /\ mixed' \in BOOLEAN
<1>0. /\ DeskTypeOK /\ form \in Form /\ work \in [Handler -> Work]
      /\ latest \in [Mutation -> Handler \union {NoHandler}]
      /\ {"send", "pay"} \subseteq Mutation
      /\ otpOpen \in BOOLEAN /\ otp \in BOOLEAN
      /\ outcome \in {"none", "failed", "success"}
      /\ paid \in BOOLEAN /\ mixed \in BOOLEAN
  BY DEF DeskInv, DeskTypeOK, Mutation
<1>1. CASE TypeOtp \/ CloseOtpPanel
  BY <1>0, <1>1 DEF TypeOtp, CloseOtpPanel
<1>2. ASSUME NEW h \in Handler, OtpSent(h) PROVE
           /\ KeepsForm
           /\ work' \in [Handler -> Work]
           /\ \A g \in Handler : work'[g] = work[g] \/ work'[g].stage = "idle"
           /\ latest' \in [Mutation -> Handler \union {NoHandler}]
           /\ otpOpen' \in BOOLEAN /\ otp' \in BOOLEAN /\ outcome' = "none"
           /\ paid' \in BOOLEAN /\ mixed' \in BOOLEAN
  <2>1. Finishes(h, "send") /\ Answered(h, "send") /\ KeepsForm
        /\ otp' = FALSE /\ outcome' = "none"
    BY <1>2 DEF OtpSent
  <2>2. otpOpen' \in BOOLEAN /\ paid' \in BOOLEAN /\ mixed' \in BOOLEAN
    BY <1>2 DEF OtpSent
  <2>. QED
    BY <1>0, <2>1, <2>2, FinishesAt, LatestCalls
<1>3. ASSUME NEW h \in Handler, ConfirmOtp(h) PROVE
           /\ KeepsForm
           /\ work' \in [Handler -> Work]
           /\ \A g \in Handler : work'[g] = work[g] \/ work'[g].stage = "profile"
           /\ UNCHANGED <<latest, otpOpen, otp, outcome, paid>>
           /\ mixed' \in BOOLEAN
  <2>1. /\ work' = [work EXCEPT ![h] = [stage |-> "profile", payee |-> form.destination]]
        /\ UNCHANGED <<latest, otpOpen, otp, outcome, paid>> /\ KeepsForm
    BY <1>3 DEF ConfirmOtp, Confirms
  <2>2. mixed' \in BOOLEAN
    BY <1>3 DEF ConfirmOtp, Confirms
  <2>3. [stage |-> "profile", payee |-> form.destination] \in Work
    BY <1>0 DEF Form, Work
  <2>. QED
    BY <1>0, <2>1, <2>2, <2>3
<1>4. ASSUME NEW h \in Handler, CreatePayment(h) PROVE
           /\ KeepsForm
           /\ work' \in [Handler -> Work]
           /\ \A g \in Handler : work'[g] = work[g] \/ work'[g].stage \in {"idle", "pay"}
           /\ latest' \in [Mutation -> Handler \union {NoHandler}]
           /\ UNCHANGED <<otpOpen, otp, outcome, paid, mixed>>
  <2>1. KeepsForm /\ KeepsPanel
        /\ \/ Steps(h, "profile", "pay") /\ Calls(h, "pay")
           \/ Finishes(h, "profile") /\ UNCHANGED latest
    BY <1>4 DEF CreatePayment
  <2>. QED
    BY <1>0, <2>1, StepsTo, FinishesAt, LatestCalls DEF KeepsPanel
<1>5. ASSUME NEW h \in Handler, PaymentMade(h) \/ PaymentRefused(h) \/ PaymentMisreported(h) PROVE
           /\ KeepsForm
           /\ work' \in [Handler -> Work]
           /\ \A g \in Handler : work'[g] = work[g] \/ work'[g].stage = "idle"
           /\ latest' \in [Mutation -> Handler \union {NoHandler}]
           /\ otpOpen' \in BOOLEAN /\ otp' \in BOOLEAN
           /\ outcome' \in {"none", "failed", "success"}
           /\ paid' \in BOOLEAN /\ mixed' \in BOOLEAN
  <2>1. Finishes(h, "pay") /\ Answered(h, "pay") /\ KeepsForm
    BY <1>5 DEF PaymentMade, PaymentRefused, PaymentMisreported
  <2>2. /\ otpOpen' \in BOOLEAN /\ otp' \in BOOLEAN
        /\ outcome' \in {"none", "failed", "success"}
        /\ paid' \in BOOLEAN /\ mixed' \in BOOLEAN
    BY <1>0, <1>5 DEF PaymentMade, PaymentRefused, PaymentMisreported
  <2>. QED
    BY <1>0, <2>1, <2>2, FinishesAt, LatestCalls
<1>. QED
  BY <1>0, <1>1, <1>2, <1>3, <1>4, <1>5

LEMMA PaymentsInTurn ==
    ASSUME DeskInv,
           \/ TypeOtp \/ CloseOtpPanel
           \/ \E h \in Handler : \/ OtpSent(h) \/ ConfirmOtp(h) \/ CreatePayment(h)
                                 \/ PaymentMade(h) \/ PaymentRefused(h) \/ PaymentMisreported(h)
    PROVE  OnePaymentAtOnce'
<1>0. /\ DeskTypeOK /\ OnePaymentAtOnce /\ NoHandler \notin Handler
      /\ work \in [Handler -> Work] /\ mixed \in BOOLEAN /\ otpOpen \in BOOLEAN
      /\ latest \in [Mutation -> Handler \union {NoHandler}]
      /\ "send" \in Mutation /\ "pay" \in Mutation
  BY DeskAssumption DEF DeskInv, DeskTypeOK, Mutation
<1>1. CASE TypeOtp
  BY <1>0, <1>1 DEF TypeOtp, OnePaymentAtOnce, Confirming
<1>2. CASE CloseOtpPanel
  BY <1>0, <1>2 DEF CloseOtpPanel, OnePaymentAtOnce, Confirming
<1>3. ASSUME NEW h \in Handler, OtpSent(h) PROVE OnePaymentAtOnce'
  <2>1. Finishes(h, "send") /\ Answered(h, "send")
    BY <1>3 DEF OtpSent
  <2>2. /\ Confirming' = Confirming /\ latest'["pay"] = latest["pay"]
        /\ \A g \in Handler : work'[g].stage = "pay" => work[g].stage = "pay"
    BY <1>0, <2>1, FinishesAt, LatestCalls DEF Confirming
  <2>3. CASE work[h].payee # NoPayee
    <3>1. paid' = FALSE /\ (~mixed' => ~mixed \/ Confirming = {})
      BY <1>0, <1>3, <2>3 DEF OtpSent
    <3>2. Confirming = {} => \A g \in Handler : work[g].stage # "pay"
      BY DEF Confirming
    <3>. QED
      BY <1>0, <2>2, <3>1, <3>2 DEF OnePaymentAtOnce
  <2>4. CASE work[h].payee = NoPayee
    <3>1. (paid' => paid) /\ (~mixed' => ~mixed) /\ (otpOpen' => otpOpen) /\ outcome' = "none"
      BY <1>0, <1>3, <2>4 DEF OtpSent
    <3>. QED
      BY <1>0, <2>2, <3>1 DEF OnePaymentAtOnce
  <2>. QED
    BY <2>3, <2>4
<1>4. ASSUME NEW h \in Handler, ConfirmOtp(h) PROVE OnePaymentAtOnce'
  <2>1. /\ otpOpen /\ latest["pay"] = NoHandler
        /\ work' = [work EXCEPT ![h] = [stage |-> "profile", payee |-> form.destination]]
        /\ UNCHANGED <<latest, otpOpen, otp, outcome, paid>>
    BY <1>4 DEF ConfirmOtp, Confirms, IsPending
  <2>2. ~mixed' => ~mixed /\ \A g \in Handler : work[g].stage # "profile"
    BY <1>4 DEF ConfirmOtp, Confirms
  <2> SUFFICES ASSUME ~mixed' PROVE OnePaymentAtOnce'
    BY DEF OnePaymentAtOnce
  <2>3. Confirming = {}
    BY <1>0, <2>1, <2>2 DEF OnePaymentAtOnce, Confirming
  <2>4. Confirming' = {h} /\ work'[h].stage = "profile"
        /\ \A g \in Handler \ {h} : work'[g].stage # "pay"
    BY <1>0, <2>1, <2>3 DEF Confirming
  <2>5. ~paid'
    BY <1>0, <2>1, <2>2 DEF OnePaymentAtOnce
  <2>. QED
    BY <2>4, <2>5 DEF OnePaymentAtOnce
<1>5. ASSUME NEW h \in Handler, CreatePayment(h) PROVE OnePaymentAtOnce'
  <2>0. KeepsPanel
    BY <1>5 DEF CreatePayment
  <2>1. CASE Steps(h, "profile", "pay") /\ Calls(h, "pay")
    <3>1. work[h].stage = "profile" /\ work'[h].stage = "pay"
          /\ \A g \in Handler \ {h} : work'[g] = work[g]
      BY <1>0, <2>1, StepsTo
    <3>2. latest'["pay"] = h /\ Confirming' = Confirming /\ h \in Confirming
      BY <1>0, <2>1, <3>1 DEF Calls, Confirming
    <3>. QED
      BY <1>0, <2>0, <3>1, <3>2 DEF OnePaymentAtOnce, Confirming, KeepsPanel
  <2>2. CASE Finishes(h, "profile") /\ UNCHANGED latest
    <3>1. work'[h].stage = "idle" /\ \A g \in Handler \ {h} : work'[g] = work[g]
      BY <1>0, <2>2, FinishesAt
    <3>. QED
      BY <1>0, <2>0, <2>2, <3>1, PaymentKept DEF KeepsPanel
  <2>. QED
    BY <1>5, <2>1, <2>2 DEF CreatePayment
<1>6. ASSUME NEW h \in Handler, PaymentMade(h) \/ PaymentRefused(h) PROVE OnePaymentAtOnce'
  <2>1. Finishes(h, "pay") /\ UNCHANGED mixed
    BY <1>6 DEF PaymentMade, PaymentRefused
  <2>2. work[h].stage = "pay" /\ work'[h].stage = "idle" /\ h \in Confirming
        /\ \A g \in Handler \ {h} : work'[g] = work[g]
    BY <1>0, <2>1, FinishesAt DEF Confirming
  <2> SUFFICES ASSUME ~mixed' PROVE OnePaymentAtOnce'
    BY DEF OnePaymentAtOnce
  <2>3. Confirming = {h} /\ ~paid
    BY <1>0, <2>1, <2>2 DEF OnePaymentAtOnce
  <2>4. Confirming' = {} /\ \A g \in Handler : work'[g].stage # "pay"
    BY <2>2, <2>3 DEF Confirming
  <2>5. paid' => ~otpOpen' /\ outcome' # "failed"
    BY <1>6, <2>3 DEF PaymentMade, PaymentRefused
  <2>. QED
    BY <2>4, <2>5 DEF OnePaymentAtOnce
<1>7. ASSUME NEW h \in Handler, PaymentMisreported(h) PROVE OnePaymentAtOnce'
  BY <1>7 DEF PaymentMisreported, OnePaymentAtOnce
<1>. QED
  BY <1>1, <1>2, <1>3, <1>4, <1>5, <1>6, <1>7

LEMMA DeskInvNext ==
    ASSUME DeskInv, [DeskNext]_deskVars
    PROVE  DeskInv'
<1>0. DeskTypeOK /\ HasPayee /\ Shown(form) /\ OnePaymentAtOnce /\ "pay" \in Mutation
  BY DEF DeskInv, Mutation
<1>1. CASE UNCHANGED deskVars
  BY <1>0, <1>1
  DEF DeskInv, DeskTypeOK, HasPayee, Shown, OnePaymentAtOnce, Confirming, deskVars
<1> SUFFICES ASSUME DeskNext PROVE DeskInv'
  BY <1>1
<1>2. own' \subseteq Payee
  BY <1>0 DEF DeskNext, DeskTypeOK
<1>3. CASE \/ \E p \in Payee : SelectBeneficiary(p) \/ SelectRecent(p) \/ TypeNumber(p)
           \/ TypeDetails \/ StartNewBeneficiary \/ CancelNewBeneficiary
           \/ ListsChange \/ LookupFound \/ LookupFailed
  <2>1. /\ KeepsPayment
        /\ form' \in Form /\ Shown(form')
        /\ options' \subseteq Payee /\ resolved' \subseteq Payee
    BY <1>3, FormFilled
  <2>2. DeskTypeOK' /\ HasPayee'
    BY <1>0, <1>2, <2>1 DEF KeepsPayment, DeskTypeOK, HasPayee
  <2>3. OnePaymentAtOnce'
    BY <1>0, <2>1, PaymentKept DEF KeepsPayment
  <2>. QED
    BY <2>1, <2>2, <2>3 DEF DeskInv, Shown
<1>4. ASSUME NEW h \in Handler,
             \/ SaveBeneficiary(h) \/ SaveRefused(h) \/ SelectsExisting(h)
             \/ AddBeneficiary(h) \/ Added(h) \/ NotAdded(h)
      PROVE  DeskInv'
  <2>1. /\ form' \in Form /\ Shown(form')
        /\ options' \subseteq Payee /\ resolved' \subseteq Payee
        /\ work' \in [Handler -> Work]
        /\ work'[h].stage \in {"check", "recheck", "add"} => work'[h].payee \in Payee
        /\ work'[h].stage \in {"check", "recheck", "add", "idle"}
        /\ \A g \in Handler \ {h} : work'[g] = work[g]
        /\ latest' \in [Mutation -> Handler \union {NoHandler}]
        /\ latest'["pay"] = latest["pay"]
        /\ KeepsPanel
    BY <1>4, BeneficiarySaved
  <2>2. DeskTypeOK' /\ HasPayee'
    BY <1>0, <1>2, <2>1 DEF KeepsPanel, DeskTypeOK, HasPayee
  <2>3. OnePaymentAtOnce'
    BY <1>0, <2>1, PaymentKept DEF KeepsPanel
  <2>. QED
    BY <2>1, <2>2, <2>3 DEF DeskInv, Shown
<1>5. ASSUME NEW h \in Handler,
             \/ Proceed(h) \/ Found(h) \/ NotFound(h)
             \/ ResendOtp(h) \/ SendPaymentOtp(h) \/ OtpNotSent(h)
      PROVE  DeskInv'
  <2>1. /\ form' \in Form /\ Shown(form')
        /\ options' \subseteq Payee /\ resolved' \subseteq Payee
        /\ work' \in [Handler -> Work]
        /\ work'[h].stage = "find" => work'[h].payee \in Payee
        /\ work'[h].stage \in {"find", "email", "send", "idle"}
        /\ \A g \in Handler \ {h} : work'[g] = work[g]
        /\ latest' \in [Mutation -> Handler \union {NoHandler}]
        /\ latest'["pay"] = latest["pay"]
        /\ outcome' \in {outcome, "none"}
        /\ UNCHANGED <<otpOpen, otp, paid, mixed>>
    BY <1>5, CodeAsked
  <2>2. DeskTypeOK' /\ HasPayee'
    BY <1>0, <1>2, <2>1 DEF DeskTypeOK, HasPayee
  <2>3. OnePaymentAtOnce'
    BY <1>0, <2>1, PaymentKept
  <2>. QED
    BY <2>1, <2>2, <2>3 DEF DeskInv, Shown
<1>6. CASE \/ TypeOtp \/ CloseOtpPanel
           \/ \E h \in Handler : \/ OtpSent(h) \/ ConfirmOtp(h) \/ CreatePayment(h)
                                 \/ PaymentMade(h) \/ PaymentRefused(h) \/ PaymentMisreported(h)
  <2>1. /\ KeepsForm
        /\ work' \in [Handler -> Work]
        /\ \A g \in Handler : work'[g] = work[g] \/ work'[g].stage \in {"idle", "profile", "pay"}
        /\ latest' \in [Mutation -> Handler \union {NoHandler}]
        /\ otpOpen' \in BOOLEAN /\ otp' \in BOOLEAN
        /\ outcome' \in {"none", "failed", "success"}
        /\ paid' \in BOOLEAN /\ mixed' \in BOOLEAN
    BY <1>6, PanelUsed
  <2>2. DeskTypeOK' /\ HasPayee' /\ Shown(form)'
    BY <1>0, <1>2, <2>1 DEF KeepsForm, DeskTypeOK, HasPayee, Shown
  <2>3. OnePaymentAtOnce'
    BY <1>6, PaymentsInTurn
  <2>. QED
    BY <2>2, <2>3 DEF DeskInv
<1>. QED
  BY <1>3, <1>4, <1>5, <1>6 DEF DeskNext

LEMMA DeskInvariance == DeskSpec => []DeskInv
<1>. QED
  BY DeskInvInit, DeskInvNext, PTL DEF DeskSpec

\* Every variable of the page for transfers keeps its type.
THEOREM DeskTypeCorrect == DeskSpec => []DeskTypeOK
<1>1. DeskInv => DeskTypeOK
  BY DEF DeskInv
<1>. QED
  BY <1>1, DeskInvariance, PTL

\* The account a payment of the transfer page goes to is the one whose number the
\* form shows.
THEOREM ShownDestination == DeskSpec => []DestinationIsShown
<1>1. DeskInv => DestinationIsShown
  BY DEF DeskInv, Shown, DestinationIsShown
<1>. QED
  BY <1>1, DeskInvariance, PTL

\* When the transfer page says that the payment failed, none has been made since
\* its panel was opened, but for a Confirm pressed twice at once and for a payment
\* whose failure is the page's or payment-service's only.
THEOREM FailedUnpaid == DeskSpec => []FailureMeansUnpaid
<1>1. DeskInv => FailureMeansUnpaid
  BY DEF DeskInv, OnePaymentAtOnce, FailureMeansUnpaid
<1>. QED
  BY <1>1, DeskInvariance, PTL

-----------------------------------------------------------------------------
(* The composition: every behaviour is one of each part.                   *)

LEMMA PartSteps ==
    ASSUME [Next]_identityVars
    PROVE  /\ [AuthNext]_authVars /\ [CodesNext]_codeVars /\ [GuardNext]_guardVars
           /\ [BreakerNext]_breakerVars /\ [DeskNext]_deskVars
<1>1. CASE Rows \/ Tokens
  BY <1>1 DEF Rows, Tokens
<1>2. CASE Codes
  BY <1>2 DEF Codes
<1>3. CASE Guard
  BY <1>3 DEF Guard
<1>4. CASE Breaker
  BY <1>4 DEF Breaker
<1>5. CASE Desk
  BY <1>5 DEF Desk
<1>6. CASE UNCHANGED identityVars
  BY <1>6 DEF identityVars
<1>. QED
  BY <1>1, <1>2, <1>3, <1>4, <1>5, <1>6 DEF Next

LEMMA PartSpecs ==
    Spec => AuthSpec /\ CodesSpec /\ GuardSpec /\ BreakerSpec /\ DeskSpec
<1>1. Init => AuthInit /\ CodesInit /\ GuardInit /\ BreakerInit /\ DeskInit
  BY DEF Init
<1>. QED
  BY <1>1, PartSteps, PTL DEF Spec, AuthSpec, CodesSpec, GuardSpec, BreakerSpec, DeskSpec

\* Every variable of every part has values of its type: the tables, Redis, the
\* memory of the requests and the state of the page.
THEOREM IdentityTypeCorrect == Spec => []TypeOK
<1>1. AuthTypeOK /\ CodesTypeOK /\ GuardTypeOK /\ BreakerTypeOK /\ DeskTypeOK => TypeOK
  BY DEF TypeOK
<1>. QED
  BY <1>1, PartSpecs, AuthTypeCorrect, CodesTypeCorrect, GuardTypeCorrect,
     BreakerTypeCorrect, DeskTypeCorrect, PTL
=============================================================================
