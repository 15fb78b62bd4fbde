-------------------------- MODULE ResilientHTTPClient --------------------------
(***************************************************************************)
(* The client of resilience/http_client.go: the breaker's                  *)
(* ExecuteWithContext runs inside the retry loop, once for each attempt.   *)
(*                                                                         *)
(* So each attempt asks the breaker anew, takes a half-open slot of its    *)
(* own, and leaves a result of its own.                                    *)
(***************************************************************************)
EXTENDS ResilienceBreaker

CONSTANT Retries        \* c.retries

ASSUME ClientAssumption == Retries \in Nat

VARIABLES
    attempt,    \* attempts that the call of each caller has made already
    done,       \* the context of the call is done
    sent        \* history: requests sent since the breaker last opened, as
                \* long as it is open

clientVars == <<vars, attempt, done, sent>>

ClientInit ==
    /\ Init
    /\ attempt = [c \in Callers |-> 0]
    /\ done = [c \in Callers |-> FALSE]
    /\ sent = 0

InCall(c) == pc[c] # "idle" \/ attempt[c] > 0

Sends(n) == sent' = IF state = "open" /\ state' = "open" THEN sent + n ELSE 0

CallOver(c) ==
    /\ attempt' = [attempt EXCEPT ![c] = 0]
    /\ done' = [done EXCEPT ![c] = FALSE]

(* The breaker lets an attempt through; it does not look at the context. *)
Enter(c) ==
    /\ Allow(c)
    /\ Sends(0)
    /\ UNCHANGED <<attempt, done>>

(* ErrCircuitOpen ends the call, whatever attempts are left. *)
TurnAway(c) ==
    /\ Refuse(c)
    /\ CallOver(c)
    /\ Sends(0)

Send(c) ==
    /\ ~done[c]
    /\ Start(c)
    /\ Sends(1)
    /\ UNCHANGED <<attempt, done>>

(* The context is found done before fn, or fn panics: the slot, if there   *)
(* was one, is lost.                                                       *)
Leave(c) ==
    /\ pc[c] = "admitted" => done[c]
    /\ Abandon(c)
    /\ CallOver(c)
    /\ Sends(0)

(* A status below 500: the call is over, and the breaker counts a success. *)
Respond(c) ==
    /\ Succeed(c)
    /\ CallOver(c)
    /\ Sends(0)

AttemptsLeft(c) == attempt[c] < Retries

(* Fault of a mutant run: the next attempt does not ask the breaker. *)
FailWithinBreaker(c) ==
    \/ /\ AttemptsLeft(c)
       /\ Move(c, "running", "admitted")
       /\ OnFailure(c)
       /\ recent' = Slide(recent, FALSE)
       /\ attempt' = [attempt EXCEPT ![c] = @ + 1]
       /\ Sends(0)
       /\ UNCHANGED done
    \/ /\ ~AttemptsLeft(c)
       /\ Fail(c)
       /\ CallOver(c)
       /\ Sends(0)

(* No response, or a status of 500 and more.  The error of a request whose *)
(* context is done is wrapped and so not told from any other: the loop     *)
(* sleeps and asks the breaker once more.                                  *)
FailAttempt(c) ==
    /\ Fail(c)
    /\ \/ /\ AttemptsLeft(c)
          /\ attempt' = [attempt EXCEPT ![c] = @ + 1]
          /\ UNCHANGED done
       \/ ~AttemptsLeft(c) /\ CallOver(c)
    /\ Sends(0)

ContextDone(c) ==
    /\ c \in Lossy
    /\ InCall(c)
    /\ ~done[c]
    /\ done' = [done EXCEPT ![c] = TRUE]
    /\ UNCHANGED <<vars, attempt, sent>>

Quiet == UNCHANGED <<attempt, done>> /\ Sends(0)

ClientNext ==
    \/ Tick /\ Quiet
    \/ Reset /\ Quiet
    \/ \E c \in Callers :
          \/ Enter(c) \/ TurnAway(c) \/ Send(c) \/ Leave(c) \/ Respond(c)
          \/ FailAttempt(c) \/ ContextDone(c)

ClientSpec == ClientInit /\ [][ClientNext]_clientVars

(* As for the breaker: each attempt is bounded by the client's timeout. *)
ClientFairness ==
    /\ WF_clientVars(Tick /\ Quiet)
    /\ \A c \in Callers :
          /\ WF_clientVars(Enter(c))
          /\ WF_clientVars(Send(c) \/ (done[c] /\ Leave(c)))
          /\ WF_clientVars(Respond(c) \/ FailAttempt(c))

ClientFairSpec == ClientSpec /\ ClientFairness

--------------------------------------------------------------------------------
(* The loop asks the breaker for each attempt, so of every call at most    *)
(* one request, let through but not sent yet when the breaker opened, is   *)
(* sent to the service behind the open breaker.                            *)
OpenIsQuiet == state = "open" => sent <= Cardinality(Callers) - 1

================================================================================
