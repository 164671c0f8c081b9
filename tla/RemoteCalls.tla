------------------------------ MODULE RemoteCalls ------------------------------
(***************************************************************************)
(* Calls from one service to another through BaseHttpService: a request is *)
(* tried again after a network error or a 5xx answer, and not after a 4xx  *)
(* answer or a timeout.  Nothing in a request identifies the call, so the  *)
(* server serves every copy that reaches it, also one whose sender has     *)
(* given up.                                                               *)
(***************************************************************************)
EXTENDS Integers

CONSTANTS
    Call,        \* the calls to be made, each once
    MaxAttempts  \* 1 + retries

VARIABLES
    phase,     \* where each call stands
    attempts,  \* how often its request was sent
    late,      \* copies the server may still serve though no one waits
    served     \* how often the server carried it out

Phase == {"idle", "sent", "accepted", "refused", "ok", "error"}

CallsInit ==
    /\ phase = [c \in Call |-> "idle"]
    /\ attempts = [c \in Call |-> 0]
    /\ late = [c \in Call |-> 0]
    /\ served = [c \in Call |-> 0]

Moves(c, p) == phase' = [phase EXCEPT ![c] = p]

\* The client sends every call in calls at once; its circuit breaker lets a
\* part of them through and fails the others.
Start(calls) ==
    \E let \in SUBSET calls :
        /\ phase' = [c \in Call |->
                        IF c \in let THEN "sent"
                        ELSE IF c \in calls THEN "error" ELSE phase[c]]
        /\ attempts' = [c \in Call |-> IF c \in let THEN 1 ELSE attempts[c]]
        /\ UNCHANGED <<late, served>>

\* The server carries the request out.
Accept(c) ==
    /\ phase[c] = "sent"
    /\ Moves(c, "accepted")
    /\ served' = [served EXCEPT ![c] = @ + 1]
    /\ UNCHANGED <<attempts, late>>

\* The server answers 4xx.
Refuse(c) ==
    /\ phase[c] = "sent"
    /\ Moves(c, "refused")
    /\ UNCHANGED <<attempts, late, served>>

AcceptLate(c) ==
    /\ late[c] > 0
    /\ late' = [late EXCEPT ![c] = @ - 1]
    /\ served' = [served EXCEPT ![c] = @ + 1]
    /\ UNCHANGED <<phase, attempts>>

\* A copy that is lost or refused.
DropLate(c) ==
    /\ late[c] > 0
    /\ late' = [late EXCEPT ![c] = @ - 1]
    /\ UNCHANGED <<phase, attempts, served>>

\* The answer arrives.
Receive(c) ==
    /\ \/ phase[c] = "accepted" /\ Moves(c, "ok")
       \/ phase[c] = "refused" /\ Moves(c, "error")
    /\ UNCHANGED <<attempts, late, served>>

Waiting(c) == phase[c] \in {"sent", "accepted", "refused"}

\* A request the client stops waiting for may be lost or reach the server.
LeaveBehind(c) ==
    \/ UNCHANGED late
    \/ phase[c] = "sent" /\ late' = [late EXCEPT ![c] = @ + 1]

\* Mutant: a request is tried again without limit.
NetworkErrorAlways(c) ==
    /\ Waiting(c)
    /\ Moves(c, "sent") /\ attempts' = [attempts EXCEPT ![c] = @ + 1]
    /\ LeaveBehind(c)
    /\ UNCHANGED served

\* A network error or a 5xx answer: once more, while attempts are left.
NetworkError(c) ==
    /\ Waiting(c)
    /\ IF attempts[c] < MaxAttempts
       THEN Moves(c, "sent") /\ attempts' = [attempts EXCEPT ![c] = @ + 1]
       ELSE Moves(c, "error") /\ UNCHANGED attempts
    /\ LeaveBehind(c)
    /\ UNCHANGED served

\* Mutant: a timeout counts as an answer.
TimeOutIsSuccess(c) ==
    /\ Waiting(c)
    /\ Moves(c, "ok")
    /\ LeaveBehind(c)
    /\ UNCHANGED <<attempts, served>>

\* The client's timeout is final, whatever became of the request.
TimeOut(c) ==
    /\ Waiting(c)
    /\ Moves(c, "error")
    /\ LeaveBehind(c)
    /\ UNCHANGED <<attempts, served>>

\* The client is gone.
Abandon(calls) ==
    /\ phase' = [c \in Call |-> IF c \in calls /\ Waiting(c) THEN "error" ELSE phase[c]]
    /\ \E left \in SUBSET {c \in calls : phase[c] = "sent"} :
          late' = [c \in Call |-> IF c \in left THEN late[c] + 1 ELSE late[c]]
    /\ UNCHANGED <<attempts, served>>
=============================================================================
