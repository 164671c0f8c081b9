---------------------------- MODULE CircuitBreaker ----------------------------
(***************************************************************************)
(* The circuit breaker of BaseHttpService: one instance per client, shared *)
(* by all the calls a service makes through it.  RemoteCalls lets it do as *)
(* it likes; here are its counter and its clock.                           *)
(***************************************************************************)
EXTENDS Integers

CONSTANTS
    Caller,      \* calls at work at once; a bound
    Threshold,   \* failures in a row that open the breaker (5)
    Cooldown,    \* how long it stays open (30 seconds), in ticks of the clock
    MaxExchange, \* how long a call may take: its timeout and its retries
    MaxClock     \* bound: the clock

ASSUME BreakerAssumption ==
    /\ Threshold \in Nat \ {0} /\ Cooldown \in Nat
    /\ MaxExchange \in Nat /\ MaxClock \in Nat

VARIABLES
    clock,
    consecutiveFailures,
    circuitOpenedAt,
    calling,    \* where each call stands
    calledAt,   \* when it was let through
    \* History variable: read by properties only.
    trippedAt   \* when the breaker opened that is open now

breakerVars == <<clock, consecutiveFailures, circuitOpenedAt, calling, calledAt, trippedAt>>

Closed == -1

BreakerInit ==
    /\ clock = 0
    /\ consecutiveFailures = 0
    /\ circuitOpenedAt = Closed
    /\ calling = [c \in Caller |-> "idle"]
    /\ calledAt = [c \in Caller |-> 0]
    /\ trippedAt = Closed

-----------------------------------------------------------------------------
ClockTicks ==
    /\ clock < MaxClock
    /\ \A c \in Caller : calling[c] = "sent" => clock - calledAt[c] < MaxExchange
    /\ clock' = clock + 1
    /\ UNCHANGED <<consecutiveFailures, circuitOpenedAt, calling, calledAt, trippedAt>>

StepCall(c, from, to) == calling[c] = from /\ calling' = [calling EXCEPT ![c] = to]

Sends(c) ==
    /\ StepCall(c, "idle", "sent")
    /\ calledAt' = [calledAt EXCEPT ![c] = clock]
    /\ UNCHANGED clock

CoolingDown == circuitOpenedAt # Closed /\ clock - circuitOpenedAt < Cooldown

SendClosed(c) ==
    /\ circuitOpenedAt = Closed
    /\ Sends(c)
    /\ UNCHANGED <<consecutiveFailures, circuitOpenedAt, trippedAt>>

\* The first call after the time closes the breaker, before it has an answer;
\* others follow at once.
SendCooledDown(c) ==
    /\ circuitOpenedAt # Closed /\ ~CoolingDown
    /\ Sends(c)
    /\ consecutiveFailures' = 0
    /\ circuitOpenedAt' = Closed /\ trippedAt' = Closed

\* Whatever is at or above the threshold acts alike.
CountFailure ==
    /\ consecutiveFailures' =
           IF consecutiveFailures < Threshold THEN consecutiveFailures + 1 ELSE Threshold
    /\ IF consecutiveFailures' = Threshold
       THEN /\ circuitOpenedAt' = clock
            /\ trippedAt' = IF circuitOpenedAt = Closed THEN clock ELSE trippedAt
       ELSE UNCHANGED <<circuitOpenedAt, trippedAt>>

\* Mutant: ensureCircuitClosed is called inside of the try.
RefusedCounts(c) ==
    /\ CoolingDown
    /\ StepCall(c, "idle", "refused")
    /\ CountFailure
    /\ UNCHANGED <<clock, calledAt>>

RefusedOpen(c) ==
    /\ CoolingDown
    /\ StepCall(c, "idle", "refused")
    /\ UNCHANGED <<clock, consecutiveFailures, circuitOpenedAt, calledAt, trippedAt>>

\* An answer below 500. It sets the counter back, and leaves an open breaker open.
AnswerResets(c) ==
    /\ StepCall(c, "sent", "done")
    /\ consecutiveFailures' = 0
    /\ UNCHANGED <<clock, circuitOpenedAt, calledAt, trippedAt>>

\* A timeout, or a network error or 5xx answer after the last retry. A call let
\* through before the breaker opened starts its time again.
FailureCounts(c) ==
    /\ StepCall(c, "sent", "done")
    /\ CountFailure
    /\ UNCHANGED <<clock, calledAt>>

Returns(c) ==
    /\ calling[c] \in {"refused", "done"}
    /\ calling' = [calling EXCEPT ![c] = "idle"]
    /\ calledAt' = [calledAt EXCEPT ![c] = 0]
    /\ UNCHANGED <<clock, consecutiveFailures, circuitOpenedAt, trippedAt>>

BreakerNext ==
    \/ ClockTicks
    \/ \E c \in Caller :
           \/ SendClosed(c) \/ SendCooledDown(c) \/ RefusedOpen(c)
           \/ AnswerResets(c) \/ FailureCounts(c) \/ Returns(c)

BreakerSpec == BreakerInit /\ [][BreakerNext]_breakerVars

-----------------------------------------------------------------------------
(* Properties.                                                             *)

BreakerTypeOK ==
    /\ clock \in 0..MaxClock
    /\ consecutiveFailures \in 0..Threshold
    /\ circuitOpenedAt \in 0..MaxClock \union {Closed}
    /\ calling \in [Caller -> {"idle", "sent", "refused", "done"}]
    /\ calledAt \in [Caller -> 0..MaxClock]
    /\ trippedAt \in 0..MaxClock \union {Closed}

\* Calls are refused for a bounded time after the breaker opened, however many
\* are made meanwhile and whatever the calls still under way do to its counter
\* and its clock: the cooling down, and the time the last of those may take.
RefusalsBounded ==
    [][\A c \in Caller :
           calling[c] = "idle" /\ calling'[c] = "refused" =>
               clock - trippedAt < Cooldown + MaxExchange]_breakerVars
=============================================================================
