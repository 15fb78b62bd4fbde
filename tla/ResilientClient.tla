---------------------------- MODULE ResilientClient ----------------------------
(***************************************************************************)
(* The client of http/resilient_client.go, which the service clients of    *)
(* clients/ wrap: the retry loop runs inside the breaker's Execute.        *)
(*                                                                         *)
(* A call of Do is one call of the breaker, whatever number of requests it *)
(* sends.  In what order its parts run is up to HttpBreaker; here its fn   *)
(* is taken apart into its attempts.                                       *)
(***************************************************************************)
EXTENDS HttpBreaker

CONSTANT MaxRetries     \* config.RetryConfig.MaxRetries

ASSUME ClientAssumption == MaxRetries \in Nat

VARIABLES
    attempt,    \* attempts that the current call of each caller has made
    sent        \* history: requests sent since the breaker last opened, as
                \* long as it is open

clientVars == <<vars, attempt, sent>>

ClientInit ==
    /\ Init
    /\ attempt = [c \in Callers |-> 0]
    /\ sent = 0

InFn(c) == pc[c] \in {"probing", "running"}

Sends(n) == sent' = IF state = "open" /\ state' = "open" THEN sent + n ELSE 0
Attempts(c, n) == attempt' = [attempt EXCEPT ![c] = n]

(* Steps of the breaker outside of fn; a panic ends fn. *)
BreakerStep(c) ==
    /\ CanExecute(c) \/ Refuse(c) \/ GetState(c) \/ Track(c) \/ Panic(c) \/ Untrack(c)
    /\ Attempts(c, IF InFn(c) THEN 0 ELSE attempt[c])
    /\ Sends(0)

(* A status below 400: the call is a success. *)
Answered(c) ==
    /\ InFn(c)
    /\ Succeed(c)
    /\ Attempts(c, 0)
    /\ Sends(1)

(* A status of 400 or more that is not among the retryable ones fails the  *)
(* call, and counts against the breaker, be it a 404.                      *)
Refused4xx(c) ==
    /\ InFn(c)
    /\ Fail(c)
    /\ Attempts(c, 0)
    /\ Sends(1)

(* Fault of a mutant run: the loop makes an attempt too many. *)
MoreThanLeft(c) == attempt[c] <= MaxRetries

MayRetry(c) == attempt[c] < MaxRetries

(* No response, or 408, 429, 500, 502, 503, 504: the attempt is made again *)
(* after a delay, even though the breaker may have opened meanwhile.       *)
RetryableFailure(c) ==
    /\ InFn(c)
    /\ MayRetry(c)
    /\ UNCHANGED vars
    /\ Attempts(c, attempt[c] + 1)
    /\ Sends(1)

LastFailure(c) ==
    /\ InFn(c)
    /\ ~MayRetry(c)
    /\ Fail(c)
    /\ Attempts(c, 0)
    /\ Sends(1)

(* The context is done during the delay.  Nothing is sent, and the breaker *)
(* counts a failure.                                                       *)
CancelledInDelay(c) ==
    /\ InFn(c)
    /\ attempt[c] > 0
    /\ Fail(c)
    /\ Attempts(c, 0)
    /\ Sends(0)

Attempt(c) == Answered(c) \/ Refused4xx(c) \/ RetryableFailure(c) \/ LastFailure(c)

ClientNext ==
    \/ Tick /\ UNCHANGED <<attempt, sent>>
    \/ \E c \in Callers : BreakerStep(c) \/ Attempt(c) \/ CancelledInDelay(c)

ClientSpec == ClientInit /\ [][ClientNext]_clientVars

(* As for the breaker, whose fairness of fn is that of its attempts: each  *)
(* is bounded by config.Timeout.                                           *)
ClientFairness ==
    /\ WF_clientVars(Tick /\ UNCHANGED <<attempt, sent>>)
    /\ \A c \in Callers :
          /\ WF_clientVars(CanExecute(c) /\ BreakerStep(c))
          /\ WF_clientVars(GetState(c) /\ BreakerStep(c))
          /\ WF_clientVars(Track(c) /\ BreakerStep(c))
          /\ WF_clientVars(Attempt(c))
          /\ WF_clientVars(Untrack(c) /\ BreakerStep(c))

ClientFairSpec == ClientSpec /\ ClientFairness

--------------------------------------------------------------------------------
(* A service behind an open breaker is left alone, but for the loops of    *)
(* calls let through before it opened; the one that opened it is over, and *)
(* each of the others may go on to the end of its attempts: no check of    *)
(* the breaker stops the loop (resilient_client.go:116-140).               *)
OpenIsQuiet ==
    state = "open" => sent <= (Cardinality(Callers) - 1) * (MaxRetries + 1)

================================================================================
