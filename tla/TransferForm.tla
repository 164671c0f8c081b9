------------------------------ MODULE TransferForm ------------------------------
(***************************************************************************)
(* The page on which a customer transfers money: who is paid, the one-time *)
(* code, and the payment.  Its handlers wait for the network with what the *)
(* page showed when they began, while the customer goes on and the lists   *)
(* of recipients are loaded again.                                         *)
(*                                                                         *)
(* Accounts and their numbers are one: a payee.  The two fields for the    *)
(* number are typed as one.  Amount and source account, which only the     *)
(* customer and the lists change, are left out, and so are the clocks that *)
(* disable buttons; the panel for the code covers the form.                *)
(***************************************************************************)
EXTENDS Integers

CONSTANTS
    Payee, NoPayee,
    Handler, NoHandler  \* handlers that wait at once; a bound

ASSUME DeskAssumption == NoPayee \notin Payee /\ NoHandler \notin Handler

VARIABLES
    own,      \* the customer's own accounts, set once: they need no lookup
    form,     \* what the form shows, and the lookup of its effect
    options,  \* recipientOptions: own accounts and beneficiaries, as last loaded
    resolved, \* resolvedBeneficiaryAccounts
    work,     \* the handlers: where each waits, and for which payee
    latest,   \* the handler each mutation of the page was last called by, if it is pending
    otpOpen, otp, outcome,
    \* History variables: read by properties only.
    paid,     \* since the panel was opened, money was moved or left to be moved
    mixed     \* Confirm was pressed twice before the first had its profile, or
              \* a payment failed for the page and not for the bank

deskVars == <<own, form, options, resolved, work, latest, otpOpen, otp, outcome, paid, mixed>>

Form ==
    [beneficiaryId : Payee \union {NoPayee}, isAdding : BOOLEAN,
     accountNumber : Payee \union {NoPayee}, destination : Payee \union {NoPayee},
     lookup : Payee \union {NoPayee}, resolving : BOOLEAN]

Mutation == {"send", "add", "pay"}
Work ==
    [stage : {"idle", "find", "email", "send", "check", "recheck", "add", "profile", "pay"},
     payee : Payee \union {NoPayee}]
Idle == [stage |-> "idle", payee |-> NoPayee]

DeskInit ==
    /\ own \in SUBSET Payee
    /\ form = [beneficiaryId |-> NoPayee, isAdding |-> FALSE, accountNumber |-> NoPayee,
               destination |-> NoPayee, lookup |-> NoPayee, resolving |-> FALSE]
    /\ options = {} /\ resolved = {}
    /\ work = [h \in Handler |-> Idle]
    /\ latest = [m \in Mutation |-> NoHandler]
    /\ otpOpen = FALSE /\ otp = FALSE /\ outcome = "none"
    /\ paid = FALSE /\ mixed = FALSE

IsPending(m) == latest[m] # NoHandler

-----------------------------------------------------------------------------
(* The effects, which run after a change of the state and before the next  *)
(* event.                                                                  *)

Selected(f, opts) == IF f.beneficiaryId \in opts THEN f.beneficiaryId ELSE NoPayee

\* The effect that finds the account of the selected recipient. Starting it
\* again cancels the lookup it has under way; the destination of before stays
\* until there is a new one.
Resolve(f, opts, known) ==
    LET p == Selected(f, opts) IN
    CASE f.isAdding ->
            [f EXCEPT !.destination = NoPayee, !.lookup = NoPayee, !.resolving = FALSE]
      [] ~f.isAdding /\ p = NoPayee ->
            [f EXCEPT !.destination = NoPayee, !.lookup = NoPayee]
      [] ~f.isAdding /\ p \in own \union known ->
            [f EXCEPT !.accountNumber = p, !.destination = p, !.lookup = NoPayee,
                      !.resolving = FALSE]
      [] OTHER ->
            [f EXCEPT !.accountNumber = p, !.lookup = p, !.resolving = TRUE]

\* Mutant: resolvedBeneficiaryAccounts is not among the effect's dependencies.
RunsOnSelection(f, opts, wrote) ==
    \/ f.isAdding # form.isAdding
    \/ Selected(f, opts) # Selected(form, options)

\* Its dependencies; wrote says that resolvedBeneficiaryAccounts was set.
Runs(f, opts, wrote) ==
    \/ wrote
    \/ f.isAdding # form.isAdding
    \/ Selected(f, opts) # Selected(form, options)

\* Own accounts come first.
First(opts) == IF opts \intersect own # {} THEN opts \intersect own ELSE opts

\* The effect that selects the first recipient when the selected one is gone.
Reselected(f, opts, known) ==
    CASE f.isAdding \/ f.beneficiaryId \in opts -> {f}
      [] ~f.isAdding /\ opts = {} -> {[f EXCEPT !.beneficiaryId = NoPayee]}
      [] OTHER -> {Resolve([f EXCEPT !.beneficiaryId = p], opts, known) : p \in First(opts)}

Renders(f, opts, known, wrote) ==
    LET g == IF Runs(f, opts, wrote) THEN Resolve(f, opts, known) ELSE f
    IN  form' \in Reselected(g, opts, known) /\ options' = opts /\ resolved' = known

Edits(f) == Renders(f, options, resolved, FALSE)

\* A handler has looked p up.
Learns(f, p) == Renders(f, options, resolved \union {p}, TRUE)

-----------------------------------------------------------------------------
(* The customer fills the form.                                            *)

KeepsPayment == UNCHANGED <<work, latest, otpOpen, otp, outcome, paid, mixed>>

SelectBeneficiary(p) ==
    /\ ~otpOpen /\ p \in options
    /\ Edits([form EXCEPT !.isAdding = FALSE, !.beneficiaryId = p])
    /\ KeepsPayment

\* In the list of recent beneficiaries.
SelectRecent(p) ==
    /\ ~otpOpen /\ p \in options \ own
    /\ Edits([form EXCEPT !.beneficiaryId = p])
    /\ KeepsPayment

\* The name, or the bank.
TypeDetails ==
    /\ ~otpOpen
    /\ Edits([form EXCEPT !.isAdding = TRUE])
    /\ KeepsPayment

TypeNumber(p) ==
    LET f == [form EXCEPT !.isAdding = TRUE, !.accountNumber = p] IN
    /\ ~otpOpen
    /\ Edits(IF p = Selected(form, options) THEN f
             ELSE [f EXCEPT !.beneficiaryId = NoPayee, !.destination = NoPayee])
    /\ KeepsPayment

StartNewBeneficiary ==
    /\ ~otpOpen /\ ~form.isAdding /\ ~form.resolving /\ ~IsPending("add")
    /\ Edits([form EXCEPT !.isAdding = TRUE, !.beneficiaryId = NoPayee,
                          !.destination = NoPayee, !.accountNumber = NoPayee])
    /\ KeepsPayment

CancelNewBeneficiary ==
    \E p \in First(options) :
        /\ ~otpOpen /\ form.isAdding
        /\ Edits([form EXCEPT !.isAdding = FALSE, !.beneficiaryId = p])
        /\ KeepsPayment

\* A query has answered, or another source account was selected.
ListsChange ==
    \E opts \in SUBSET Payee :
        /\ opts # options
        /\ Renders(form, opts, resolved, FALSE)
        /\ KeepsPayment

\* The effect's lookup.
LookupFound ==
    /\ form.lookup # NoPayee
    /\ Learns([form EXCEPT !.destination = form.lookup, !.lookup = NoPayee,
                           !.resolving = FALSE], form.lookup)
    /\ KeepsPayment

LookupFailed ==
    /\ form.lookup # NoPayee
    /\ form' = [form EXCEPT !.destination = NoPayee, !.lookup = NoPayee, !.resolving = FALSE]
    /\ UNCHANGED <<options, resolved>> /\ KeepsPayment

-----------------------------------------------------------------------------
(* saveBeneficiary.                                                        *)

KeepsPanel == UNCHANGED <<otpOpen, otp, outcome, paid, mixed>>

Steps(h, from, to) ==
    work[h].stage = from /\ work' = [work EXCEPT ![h].stage = to]

Finishes(h, from) ==
    work[h].stage = from /\ work' = [work EXCEPT ![h] = Idle]

\* A mutation shows the state of its last call.
Calls(h, m) == latest' = [latest EXCEPT ![m] = h]
Answered(h, m) == latest' = [latest EXCEPT ![m] = IF @ = h THEN NoHandler ELSE @]

SaveBeneficiary(h) ==
    /\ ~otpOpen /\ form.isAdding /\ ~form.resolving /\ ~IsPending("add")
    /\ form.accountNumber \in Payee \ own
    /\ work[h] = Idle
    /\ work' = [work EXCEPT ![h] =
           [stage |-> IF form.accountNumber \in options THEN "recheck" ELSE "check",
            payee |-> form.accountNumber]]
    /\ form' = [form EXCEPT !.resolving = TRUE]
    /\ UNCHANGED <<options, resolved, latest>> /\ KeepsPanel

\* The account is not there, not active, or of another currency.
SaveRefused(h) ==
    LET f == [form EXCEPT !.resolving = FALSE] IN
    /\ Finishes(h, "check") \/ Finishes(h, "recheck")
    /\ \/ Learns(f, work[h].payee)
       \/ form' = f /\ UNCHANGED <<options, resolved>>
    /\ UNCHANGED latest /\ KeepsPanel

SelectsExisting(h) ==
    LET p == work[h].payee IN
    /\ Finishes(h, "recheck")
    /\ Learns([form EXCEPT !.isAdding = FALSE, !.beneficiaryId = p, !.destination = p,
                           !.resolving = FALSE], p)
    /\ UNCHANGED latest /\ KeepsPanel

AddBeneficiary(h) ==
    /\ Steps(h, "check", "add")
    /\ Learns(form, work[h].payee)
    /\ Calls(h, "add") /\ KeepsPanel

\* The list the beneficiary is added to may no longer be the one that is shown.
Added(h) ==
    LET p == work[h].payee IN
    /\ Finishes(h, "add") /\ Answered(h, "add")
    /\ \E opts \in {options, options \union {p}} :
           Renders([form EXCEPT !.isAdding = FALSE, !.beneficiaryId = p, !.destination = p,
                                !.accountNumber = p, !.resolving = FALSE],
                   opts, resolved, FALSE)
    /\ KeepsPanel

NotAdded(h) ==
    /\ Finishes(h, "add") /\ Answered(h, "add")
    /\ form' = [form EXCEPT !.resolving = FALSE]
    /\ UNCHANGED <<options, resolved>> /\ KeepsPanel

-----------------------------------------------------------------------------
(* proceed: find the account unless it is known, and send a code.          *)

KeepsForm == UNCHANGED <<form, options, resolved>>

Proceed(h) ==
    LET known == form.destination # NoPayee IN
    /\ ~otpOpen /\ form.accountNumber # NoPayee /\ ~form.resolving
    /\ \A m \in Mutation : ~IsPending(m)
    /\ work[h] = Idle
    /\ work' = [work EXCEPT ![h] =
           [stage |-> IF known THEN "email" ELSE "find",
            payee |-> IF known THEN form.destination ELSE form.accountNumber]]
    /\ form' = [form EXCEPT !.resolving = ~known]
    /\ outcome' = "none"
    /\ UNCHANGED <<options, resolved, latest, otpOpen, otp, paid, mixed>>

\* The account may then be refused: inactive, of another currency, the source.
Found(h) ==
    /\ Steps(h, "find", "email") \/ Finishes(h, "find")
    /\ Learns([form EXCEPT !.destination = work[h].payee, !.resolving = FALSE],
              work[h].payee)
    /\ UNCHANGED latest /\ KeepsPanel

NotFound(h) ==
    /\ Finishes(h, "find")
    /\ form' = [form EXCEPT !.resolving = FALSE]
    /\ UNCHANGED <<options, resolved, latest>> /\ KeepsPanel

ResendOtp(h) ==
    /\ otpOpen /\ ~IsPending("send")
    /\ work[h] = Idle
    /\ work' = [work EXCEPT ![h].stage = "email"]
    /\ UNCHANGED latest /\ KeepsForm /\ KeepsPanel

\* latestRegisteredEmail has asked for the profile.
SendPaymentOtp(h) ==
    /\ Steps(h, "email", "send") /\ Calls(h, "send")
    /\ KeepsForm /\ KeepsPanel

Confirming == {h \in Handler : work[h].stage \in {"profile", "pay"}}

\* proceed opens the panel; sending again finds it open, or closed by now.
OtpSent(h) ==
    LET opens == work[h].payee # NoPayee IN
    /\ Finishes(h, "send") /\ Answered(h, "send")
    /\ otpOpen' = (otpOpen \/ opens)
    /\ otp' = FALSE /\ outcome' = "none"
    /\ paid' = (paid /\ ~opens)
    /\ mixed' = (mixed /\ (~opens \/ Confirming # {}))
    /\ KeepsForm

\* There is no address, or the code could not be sent.
OtpNotSent(h) ==
    /\ Finishes(h, "email") \/ Finishes(h, "send")
    /\ Answered(h, "send")
    /\ KeepsForm /\ KeepsPanel

-----------------------------------------------------------------------------
(* The panel, and confirmOtp.                                              *)

TypeOtp ==
    /\ otpOpen /\ otp' = TRUE
    /\ UNCHANGED <<work, latest, otpOpen, outcome, paid, mixed>> /\ KeepsForm

CloseOtpPanel ==
    /\ otpOpen /\ otpOpen' = FALSE /\ otp' = FALSE
    /\ UNCHANGED <<work, latest, outcome, paid, mixed>> /\ KeepsForm

\* The payment will be what the form shows now.
Confirms(h) ==
    /\ otpOpen /\ otp /\ form.destination # NoPayee
    /\ work[h] = Idle
    /\ work' = [work EXCEPT ![h] = [stage |-> "profile", payee |-> form.destination]]
    /\ mixed' = (mixed \/ \E g \in Handler : work[g].stage = "profile")
    /\ UNCHANGED <<latest, otpOpen, otp, outcome, paid>> /\ KeepsForm

\* Mutant: the button stays enabled while a payment is being made.
ConfirmAlways(h) == ~IsPending("send") /\ Confirms(h)

ConfirmOtp(h) == ~IsPending("pay") /\ ~IsPending("send") /\ Confirms(h)

\* latestRegisteredEmail again; without an address there is no payment.
CreatePayment(h) ==
    /\ \/ Steps(h, "profile", "pay") /\ Calls(h, "pay")
       \/ Finishes(h, "profile") /\ UNCHANGED latest
    /\ KeepsForm /\ KeepsPanel

PaymentMade(h) ==
    /\ Finishes(h, "pay") /\ Answered(h, "pay")
    /\ outcome' = "success" /\ otpOpen' = FALSE /\ otp' = FALSE
    /\ paid' = TRUE
    /\ UNCHANGED mixed /\ KeepsForm

\* An error, and no transfer.
PaymentRefused(h) ==
    /\ Finishes(h, "pay") /\ Answered(h, "pay")
    /\ outcome' = "failed"
    /\ UNCHANGED <<otpOpen, otp, paid, mixed>> /\ KeepsForm

\* The answer is lost, or takes longer than 15 seconds; or payment-service answers
\* an error although the transfer was made, or will be: it could not save the order
\* afterwards, or transaction-service failed or did not answer in time.
PaymentMisreported(h) ==
    /\ Finishes(h, "pay") /\ Answered(h, "pay")
    /\ outcome' = "failed"
    /\ paid' = TRUE /\ mixed' = TRUE
    /\ UNCHANGED <<otpOpen, otp>> /\ KeepsForm

-----------------------------------------------------------------------------
DeskNext ==
    /\ UNCHANGED own
    /\ \/ \E p \in Payee : SelectBeneficiary(p) \/ SelectRecent(p) \/ TypeNumber(p)
       \/ TypeDetails \/ StartNewBeneficiary \/ CancelNewBeneficiary
       \/ ListsChange \/ LookupFound \/ LookupFailed
       \/ TypeOtp \/ CloseOtpPanel
       \/ \E h \in Handler :
              \/ SaveBeneficiary(h) \/ SaveRefused(h) \/ SelectsExisting(h)
              \/ AddBeneficiary(h) \/ Added(h) \/ NotAdded(h)
              \/ Proceed(h) \/ Found(h) \/ NotFound(h)
              \/ ResendOtp(h) \/ SendPaymentOtp(h) \/ OtpSent(h) \/ OtpNotSent(h)
              \/ ConfirmOtp(h) \/ CreatePayment(h)
              \/ PaymentMade(h) \/ PaymentRefused(h) \/ PaymentMisreported(h)

DeskSpec == DeskInit /\ [][DeskNext]_deskVars

-----------------------------------------------------------------------------
(* Properties.                                                             *)

DeskTypeOK ==
    /\ own \subseteq Payee
    /\ form \in Form
    /\ options \subseteq Payee /\ resolved \subseteq Payee
    /\ work \in [Handler -> Work]
    /\ latest \in [Mutation -> Handler \union {NoHandler}]
    /\ otpOpen \in BOOLEAN /\ otp \in BOOLEAN
    /\ outcome \in {"none", "failed", "success"}
    /\ paid \in BOOLEAN /\ mixed \in BOOLEAN

\* The account a payment would go to is the one whose number the form shows,
\* however lookups of the page and of its handlers overtake each other, what the
\* customer selects or types meanwhile and what the lists are reloaded with.
\* Only while the page is looking a newly selected recipient up is the
\* destination still another. A number that is typed and not saved is never
\* paid: the effect drops the account that proceed has found.
DestinationIsShown ==
    form.destination # NoPayee /\ form.lookup = NoPayee =>
        ~form.isAdding /\ form.destination = form.accountNumber

\* When the page says that the payment failed, none has been made since the
\* panel was opened, however often the customer confirms, closes the panel,
\* proceeds again or has another code sent. The exceptions: Confirm pressed a
\* second time while the first is still asking for the profile, before the button
\* is disabled; a payment whose answer does not come; and one that payment-service
\* answers with an error although its transfer was made or is made later.
FailureMeansUnpaid ==
    outcome = "failed" /\ ~mixed => ~paid
=============================================================================
