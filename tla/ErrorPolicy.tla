---------------------------- MODULE ErrorPolicy ----------------------------
(***************************************************************************)
(* What the crate core decides about an error: whether it is retryable,    *)
(* after how long, which action DefaultErrorHandler answers, and how       *)
(* ErrorStats counts the error and the action.                             *)
(***************************************************************************)
EXTENDS Integers

CONSTANTS
    MaxRetries, BaseDelay, MaxDelay,       \* max_retries, base_delay, max_delay
    RetryNetwork, RetryHttp, RetryParse,   \* the handler's three switches
    CustomFor, CustomActions,  \* the types of error with a custom handler, and what
                               \* these may answer; "fail" stands for an Err
    WordSize                               \* 2^64: arithmetic is modulo WordSize

\* The errors, told apart by what the decisions look at. "transient" and
\* "timeout" are the network errors is_retryable names, "server" is a 5xx and
\* "odd" a ServerError with another status, "limited" is RateLimited. Items,
\* the scheduler are "other"; "bare" are the three that carry no context.
Codes == [network |-> {"transient", "timeout", "permanent"},
          http    |-> {"client", "server", "odd", "limited"},
          parse   |-> {"any"},
          middleware |-> {"any"},
          other   |-> {"any"},
          bare    |-> {"any"}]

ErrorKinds == DOMAIN Codes

\* url: does its context name a URL that can be parsed; tried: the retry_count
\* in its context; after: the retry_after of "limited", -1 for None.
Errors == [kind: ErrorKinds, code: UNION {Codes[k] : k \in ErrorKinds},
           url: BOOLEAN, tried: Nat, after: Nat \cup {-1}]

\* with_url, on an error that has a context to put it in.
WithUrl(e) == [e EXCEPT !.url = @ \/ e.kind # "bare"]

IsRetryable(e) ==
    \/ e.kind = "network" /\ e.code \in {"transient", "timeout"}
    \/ e.kind = "http" /\ e.code \in {"server", "limited"}

\* Seconds, -1 for None.
RetryDelay(e) ==
    IF e.kind = "http" /\ e.code = "limited" THEN e.after
    ELSE IF e.kind = "network" THEN (IF e.code = "timeout" THEN 5 ELSE 2)
    ELSE IF e.kind = "http" /\ e.code \in {"server", "odd"} THEN 5
    ELSE -1

\* Both the power and the product wrap in a release build, before the minimum
\* with max_delay is taken.
CalculateRetryDelay(n) ==
    LET delay == (BaseDelay * (2 ^ n % WordSize)) % WordSize
    IN  IF delay < MaxDelay THEN delay ELSE MaxDelay

ShouldRetry(e) ==
    \/ e.kind = "network" /\ RetryNetwork /\ IsRetryable(e)
    \/ e.kind = "http" /\ RetryHttp /\ IsRetryable(e)
    \/ e.kind = "parse" /\ RetryParse

ActionKinds == {"retry", "abort", "skip", "ignore"}

PolicyConstants ==
    /\ {MaxRetries, BaseDelay, MaxDelay} \subseteq Nat
    /\ {RetryNetwork, RetryHttp, RetryParse} \subseteq BOOLEAN
    /\ CustomFor \subseteq ErrorKinds
    /\ CustomActions \subseteq [kind: ActionKinds \cup {"fail"}, delay: Nat]
    /\ CustomFor # {} => CustomActions # {}
    /\ WordSize \in Nat \ {0}

Does(k) == [kind |-> k, delay |-> 0]

\* DefaultErrorHandler::handle_error. The request it retries is a fresh GET of
\* the context's URL that remembers nothing but a retry count.
HandleError(e) ==
    IF e.url /\ e.tried < MaxRetries /\ ShouldRetry(e)
    THEN [kind  |-> "retry",
          delay |-> IF RetryDelay(e) >= 0 THEN RetryDelay(e)
                    ELSE CalculateRetryDelay(e.tried)]
    ELSE Does("skip")

\* A custom handler for the type of an error answers in the place of all that.
Decisions(e) == IF e.kind \in CustomFor THEN CustomActions ELSE {HandleError(e)}

\* ErrorStats: one counter per kind of error, one per action, and the total.
Counters == {"total"} \cup ErrorKinds \cup ActionKinds
NoErrors == [c \in Counters |-> 0]

RecordError(s, e) ==
    LET kind == IF e.kind = "bare" THEN "other" ELSE e.kind
    IN  [s EXCEPT !["total"] = @ + 1, ![kind] = @ + 1]

\* Mutation: a retry is not an action.
RecordActionUnlessRetry(s, act) ==
    IF act.kind = "retry" THEN s ELSE [s EXCEPT ![act.kind] = @ + 1]

RecordAction(s, act) == [s EXCEPT ![act.kind] = @ + 1]

=============================================================================
