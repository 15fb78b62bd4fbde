------------------------------ MODULE RetryPolicy ------------------------------
(***************************************************************************)
(* The retry helpers of database/retry.go, and the loop in                 *)
(* http/resilient_client.go: which errors they try again, and what they    *)
(* answer.  The delays between attempts are left out: only that a call     *)
(* waits, and may be cancelled while it does.                              *)
(***************************************************************************)
EXTENDS Integers

(* How an attempt can fail: the context is done; a ResponseError with a    *)
(* status that is worth another attempt (408, 429, 5xx), or that is not    *)
(* (400, 401, 403, 404, 409); anything on the way to the server; and the   *)
(* sentinel errors of the clients.                                         *)
Sentinels == {"ErrKeyNotFound", "ErrNotFound", "ErrConflict"}
Errors == {"cancelled", "throttled", "rejected", "network", "closed"} \cup Sentinels

(* The lists of patterns and of network types decide nothing: whatever     *)
(* they do not name is retryable too, the sentinels included.              *)
Retryable(err) == err \notin {"cancelled", "rejected"}

(* The loop of the http client tries again without a response, whatever    *)
(* the reason, and after a status that is worth it.                        *)
ClientRetryable(err) == err # "rejected"

(* Retry and RetryWithResult after an attempt that failed with err.        *)
TriesAgain(err, left) == Retryable(err) /\ left > 0
GivesUp(err, left) == ~Retryable(err) \/ left = 0

(* doWithRetry likewise. *)
ClientTriesAgain(err, left) == ClientRetryable(err) /\ left > 0

================================================================================
