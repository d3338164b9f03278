----------------------------- MODULE HttpRequestor -----------------------------
(***************************************************************************)
(* lib/utils/http-requestor.js: request() to an application over http, and *)
(* the retries that the fragment of the hook's url asks for.  A websocket  *)
(* application does not retry here and is one whose failures are "other".  *)
(***************************************************************************)
EXTENDS Naturals

CONSTANTS
  MaxRetries,  \* rc in the url: the retries after the first attempt
  RetryPolicy  \* rp in the url: the failures after which it is retried

(* No connection, no response in time, a status of either class, and        *)
(* everything else: a redirection, a body that is not json, a lookup.       *)
RequestFailures == {"ct", "rt", "4xx", "5xx", "other"}

ASSUME HttpRequestorAssumption ==
  /\ MaxRetries \in 0..5
  /\ RetryPolicy \subseteq (RequestFailures \ {"other"}) \cup {"all"}

ShouldRetry(failure) == RetryPolicy \cap {failure, "all"} # {}

(* Mutant: the retries are not counted.                                     *)
Uncounted(retries) == retries

Counted(retries) == retries + 1

(* makeRequest() has failed after so many retries: there will be another.   *)
Retried(retries, failure) == retries < MaxRetries /\ ShouldRetry(failure)
==============================================================================
