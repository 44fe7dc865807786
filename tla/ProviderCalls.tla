---------------------------- MODULE ProviderCalls ----------------------------
(***************************************************************************)
(* The external calls of one queued delivery, from the first receive of    *)
(* its message to the last callback: the WeatherAPI request and how        *)
(* apps/weather/weatherapi.py classifies its answers, the backoff of       *)
(* process_queue_batch, and the Twilio request and how the adapters        *)
(* twilio_sms.py and twilio_voice.py classify theirs.  ProviderStatus has  *)
(* the callbacks of the call that may follow.                              *)
(*                                                                         *)
(* Delivery takes the outcome of each call as given; here it is computed   *)
(* from the answers that the providers can give.  A lost answer and the    *)
(* failure of a request whose call goes on all the same are among them.    *)
(***************************************************************************)
EXTENDS ProviderStatus

CONSTANTS
  MaxReceives,  \* DELIVERY_QUEUE_MAX_RECEIVES
  RetryBase,    \* DELIVERY_QUEUE_RETRY_BASE_SECONDS
  RetryMax      \* DELIVERY_QUEUE_RETRY_MAX_SECONDS

\* process_queue_batch raises ValueError otherwise; 43200 is the limit of SQS.
ASSUME RetryAssumption ==
  /\ MaxReceives \in Nat \ {0}
  /\ RetryBase \in Nat \ {0}
  /\ RetryMax \in RetryBase .. 43200

VARIABLES
  channel,   \* the channel of the claimed event
  phase,     \* where the delivery is
  receives,  \* how often the message was received, as SQS counts
  failures,  \* the causes of the weather failures, in turn
  delays,    \* the visibility timeouts the message was handed back with
  answer,    \* what the sender returned or raised
  placed     \* whether Twilio accepted a request for it

callVars == <<channel, phase, receives, failures, delays, answer, placed>>
allVars  == <<statusVars, callVars>>

-----------------------------------------------------------------------------
(* The exception classes *)

\* apps/weather/exceptions.py: the classes with retryable = True
RetryableWeather ==
  {"RateLimited", "ProviderTimeout", "ProviderUnavailable", "MalformedResponse"}

WeatherErrors == RetryableWeather \cup {"LocationNotFound", "AuthenticationError"}

\* apps/delivery/exceptions.py, and the one the SDK lets through.  Some are
\* flagged as retryable, but no caller of a sender looks at the flag.
SenderErrors ==
  {"AuthenticationError", "ConfigurationError", "InputInvalid", "RateLimited",
   "ProviderRejected", "ProviderTimeout", "ProviderUnavailable",
   "MalformedResponse", "ValueError"}

\* Why a request for the weather failed: for the moment, for good, or for a cause
\* of which that cannot be told.
Causes == {"passing", "lasting", "unsaid"}

\* A delivery fails or succeeds at one of the two calls, has an outcome only when
\* it is over, and a weather failure for some of its receives.
CallsTypeOK ==
  /\ StatusTypeOK
  /\ channel \in [Calls -> {"sms", "voice"}]
  /\ phase \in [Calls -> {"hidden", "weather", "send", "record", "over"}]
  /\ receives \in [Calls -> 0 .. MaxReceives]
  /\ failures \in [Calls -> Seq(Causes)]
  /\ delays \in [Calls -> Seq(Nat)]
  /\ answer \in [Calls -> SenderErrors \cup {"none", "sid"}]
  /\ placed \in [Calls -> BOOLEAN]
  /\ \A c \in Calls :
       /\ attempt[c] # "processing" => phase[c] = "over"
       /\ Len(failures[c]) <= receives[c]

-----------------------------------------------------------------------------
(* WeatherAPI *)

\* Exceptions of the HTTP client, and responses: a member of each range of
\* status codes and of each set of error codes, 0 for any other or none.  The
\* body is no JSON object, one without a usable value in every field, or whole.
WeatherAnswers ==
  [kind : {"timeout", "unreachable"}] \cup
  [kind   : {"response"},
   status : {200, 400, 401, 403, 429, 500},
   body   : {"unreadable", "incomplete", "whole"},
   code   : {0, 1002, 1006, 2007}]

\* Mutant of ApiError: the code in the body is not looked at.
ApiErrorByStatus(status, code) ==
  IF status = 401 THEN "AuthenticationError" ELSE "ProviderUnavailable"

\* _raise_api_error
ApiError(status, code) ==
  CASE code = 1006                -> "LocationNotFound"
    [] code = 2007                -> "RateLimited"
    [] code = 1002                -> "AuthenticationError"
    [] code = 0 /\ status = 401   -> "AuthenticationError"
    [] code = 0 /\ status # 401   -> "ProviderUnavailable"

\* get_current_weather, with _parse_json and _map_weather
ResponseError(a) ==
  CASE a.status >= 500                             -> "ProviderUnavailable"
    [] a.status = 429                              -> "RateLimited"
    [] a.status < 429 /\ a.body = "unreadable"     -> "MalformedResponse"
    [] a.status \in 400 .. 428 /\ a.body # "unreadable" -> ApiError(a.status, a.code)
    [] a.status < 400 /\ a.body = "incomplete"     -> "MalformedResponse"
    [] a.status < 400 /\ a.body = "whole"          -> "none"

WeatherError(a) ==
  CASE a.kind = "timeout"     -> "ProviderTimeout"
    [] a.kind = "unreachable" -> "ProviderUnavailable"
    [] a.kind = "response"    -> ResponseError(a)

\* What the answers mean, whatever class the adapter gives them: an outage or a
\* limit passes, a ZIP code or credentials that WeatherAPI refuses do not.  An
\* answer that is malformed or names no known error leaves it open.
Refusal(a) ==
  a.kind = "response" /\ a.status \in 400 .. 428 /\ a.body # "unreadable"

Passing(a) ==
  \/ a.kind # "response"
  \/ a.status = 429 \/ a.status >= 500
  \/ Refusal(a) /\ a.code = 2007

Lasting(a) ==
  Refusal(a) /\ (a.code \in {1002, 1006} \/ (a.status = 401 /\ a.code = 0))

Cause(a) ==
  IF Passing(a) THEN "passing" ELSE IF Lasting(a) THEN "lasting" ELSE "unsaid"

-----------------------------------------------------------------------------
(* Twilio *)

\* What the constructor of an adapter and _validate_request refuse, the two
\* exceptions of the HTTP client, an answer that is no JSON or whose SID is of the
\* adapter's pattern or not, and REST errors: the set of codes of the adapter
\* that the error is in, and its status.
SendAnswers ==
  [kind : {"not_configured", "invalid_request", "timeout", "unreachable",
           "unparsable", "bad_sid", "sid"}] \cup
  [kind   : {"rest_error"},
   code   : {"rate_limit", "authentication", "configuration", "rejection",
             "unavailable", "invalid", "other"},
   status : {400, 401, 404, 429, 500}]

\* Mutant of RestError: server errors are taken for rejections.
RestErrorWithoutStatus(ch, code, status) ==
  CASE code = "rate_limit" \/ status = 429 -> "RateLimited"
    [] OTHER -> IF status = 400 THEN "InputInvalid" ELSE "ProviderRejected"

\* _map_rest_error, the first case that applies; only the SMS adapter has codes
\* of its own for an unavailable provider.
RestError(ch, code, status) ==
  IF code = "rate_limit" \/ status = 429             THEN "RateLimited"
  ELSE IF code = "authentication" \/ status \in {401, 403} THEN "AuthenticationError"
  ELSE IF code = "configuration"                     THEN "ConfigurationError"
  ELSE IF code = "rejection"                         THEN "ProviderRejected"
  ELSE IF ch = "sms" /\ code = "unavailable"         THEN "ProviderUnavailable"
  ELSE IF code = "invalid" \/ status = 400           THEN "InputInvalid"
  ELSE IF status >= 500                              THEN "ProviderUnavailable"
  ELSE "ProviderRejected"

\* TwilioMessageSender.send makes the adapter of the channel when it is first
\* used, and routes to it.
SendResult(ch, a) ==
  CASE a.kind = "not_configured"  -> "ConfigurationError"
    [] a.kind = "invalid_request" -> "InputInvalid"
    [] a.kind = "timeout"         -> "ProviderTimeout"
    [] a.kind = "unreachable"     -> "ProviderUnavailable"
    [] a.kind = "unparsable"      -> "ValueError"
    [] a.kind = "bad_sid"         -> "MalformedResponse"
    [] a.kind = "sid"             -> "sid"
    [] a.kind = "rest_error"      -> RestError(ch, a.code, a.status)

\* Whether Twilio acts on the request: it does if it answers with a resource,
\* and may if the connection breaks or the server fails after it was read.
MayBePlaced(a) ==
  CASE a.kind \in {"sid", "bad_sid", "unparsable"} -> {TRUE}
    [] a.kind \in {"timeout", "unreachable"} -> BOOLEAN
    [] a.kind = "rest_error"      -> IF a.status >= 500 /\ a.code = "other"
                                     THEN BOOLEAN ELSE {FALSE}
    [] a.kind \in {"not_configured", "invalid_request"} -> {FALSE}

-----------------------------------------------------------------------------
(* The delivery *)

\* 2 ** n
PowerOfTwo[n \in Nat] == IF n = 0 THEN 1 ELSE 2 * PowerOfTwo[n - 1]

Visible(n) == RetryBase * PowerOfTwo[IF n > 1 THEN n - 1 ELSE 0]

\* Mutant of VisibilityTimeout: the delay is not limited.
UnlimitedTimeout(n) == Visible(n)

\* min(base * 2 ** max(receive_count - 1, 0), maximum)
VisibilityTimeout(n) == IF Visible(n) < RetryMax THEN Visible(n) ELSE RetryMax

\* The message is received, for the first time or after its delay.  The worker
\* may stop before it gets to it, and the receive is lost.
ReceiveMessage(c, lost) ==
  /\ phase[c] = "hidden"
  /\ receives[c] < MaxReceives
  /\ receives' = [receives EXCEPT ![c] = @ + 1]
  /\ phase' = [phase EXCEPT ![c] = IF lost THEN "hidden" ELSE "weather"]
  /\ UNCHANGED <<statusVars, channel, failures, delays, answer, placed>>

GetWeather(c, a) ==
  /\ phase[c] = "weather"
  /\ WeatherError(a) = "none"
  /\ phase' = [phase EXCEPT ![c] = "send"]
  /\ UNCHANGED <<statusVars, channel, receives, failures, delays, answer, placed>>

\* QueueDeliveryAction.RETRY: the message is hidden for its delay.
HandBack(c) ==
  delays' = [delays EXCEPT ![c] = Append(@, VisibilityTimeout(receives[c]))]

RetriesLeft(c, error) == error \in RetryableWeather /\ receives[c] < MaxReceives

\* Mutant of WeatherFails: the failure ends the delivery and is retried.
FailAndRetry(c, a) ==
  /\ phase[c] = "weather"
  /\ WeatherError(a) # "none"
  /\ RecordAnswer(c, "failed")
  /\ phase' = [phase EXCEPT ![c] = "hidden"]
  /\ UNCHANGED <<channel, receives, failures, delays, answer, placed>>

\* Only a retryable error hands the message back, the last one included
\* (RetryExhausted, for the dead-letter queue); it ends the delivery then.
WeatherFails(c, a) ==
  LET error == WeatherError(a)
  IN  /\ phase[c] = "weather"
      /\ error # "none"
      /\ failures' = [failures EXCEPT ![c] = Append(@, Cause(a))]
      /\ IF error \in RetryableWeather THEN HandBack(c) ELSE UNCHANGED delays
      /\ \/ /\ RetriesLeft(c, error)
            /\ phase' = [phase EXCEPT ![c] = "hidden"]
            /\ UNCHANGED statusVars
         \/ /\ ~RetriesLeft(c, error)
            /\ phase' = [phase EXCEPT ![c] = "over"]
            /\ RecordAnswer(c, "failed")
      /\ UNCHANGED <<channel, receives, answer, placed>>

Send(c, a) ==
  /\ phase[c] = "send"
  /\ answer' = [answer EXCEPT ![c] = SendResult(channel[c], a)]
  /\ \E p \in MayBePlaced(a) : placed' = [placed EXCEPT ![c] = p]
  /\ phase' = [phase EXCEPT ![c] = "record"]
  /\ UNCHANGED <<statusVars, channel, receives, failures, delays>>

\* The second transaction of the delivery; the call may be going on already.
RecordSend(c) ==
  /\ phase[c] = "record"
  /\ RecordAnswer(c, IF answer[c] = "sid" THEN "submitted" ELSE "failed")
  /\ phase' = [phase EXCEPT ![c] = "over"]
  /\ UNCHANGED <<channel, receives, failures, delays, answer, placed>>

-----------------------------------------------------------------------------
(* Specification *)

CallsInit ==
  /\ StatusInit
  /\ channel \in [Calls -> {"sms", "voice"}]
  /\ phase = [c \in Calls |-> "hidden"]
  /\ receives = [c \in Calls |-> 0]
  /\ failures = [c \in Calls |-> <<>>]
  /\ delays = [c \in Calls |-> <<>>]
  /\ answer = [c \in Calls |-> "none"]
  /\ placed = [c \in Calls |-> FALSE]

\* Status callbacks are asked for by the voice adapter only.
Provider(c) ==
  /\ channel[c] = "voice"
  /\ placed[c]
  /\ \E status \in ProviderStatuses : CallGoesOn(c, status)

CallsNext ==
  \/ \E c \in Calls :
       \/ \E lost \in BOOLEAN : ReceiveMessage(c, lost)
       \/ \E a \in WeatherAnswers : GetWeather(c, a) \/ WeatherFails(c, a)
       \/ \E a \in SendAnswers : Send(c, a)
       \/ RecordSend(c)
       \/ Provider(c) /\ UNCHANGED callVars
  \/ \E cb \in network : Deliver(cb) /\ UNCHANGED callVars

CallsSpec == CallsInit /\ [][CallsNext]_allVars /\ StatusFairness

-----------------------------------------------------------------------------
(* Properties *)

\* A message whose delivery failed for the moment comes back: with each failure
\* after at least twice the time before, until the limit is reached, and never
\* beyond the limit, however the count doubles and even if receives were lost in
\* between (process_queue_batch; SQS refuses more than 43200 seconds, and the
\* error would stop the worker).
BackoffIsOrdered ==
  \A c \in Calls : \A n \in DOMAIN delays[c] :
    /\ delays[c][n] \in RetryBase .. RetryMax
    /\ n > 1 => delays[c][n] >= 2 * delays[c][n - 1] \/ delays[c][n] = RetryMax

\* What leads to another receive, and what ends the delivery: a delivery whose ZIP
\* code or credentials WeatherAPI refused is over and was not tried again, and one
\* that met an outage or a limit is over only if it got to the sender later or had
\* no receive left.  The adapter looks at status, body and code in turn, the
\* retry at the class that comes of them and at the receive count, which lost
\* receives use up too.
FailuresAreClassified ==
  \A c \in Calls :
    LET n == Len(failures[c])
    IN  /\ \A i \in 1 .. n - 1 : failures[c][i] # "lasting"
        /\ phase[c] = "over" /\ answer[c] = "none" =>
             receives[c] = MaxReceives \/ failures[c][n] # "passing"
        /\ phase[c] # "over" \/ answer[c] # "none" =>
             \A i \in 1 .. n : failures[c][i] # "lasting"

\* A request that Twilio acted on is recorded as submitted or fails with an error
\* that leaves it open whether it did, never as refused: an operator who reads
\* invalid, rejected, limited, or not authorized in the audit knows that no
\* message was sent and no call placed (_map_rest_error looks at the status too).
PlacedIsNeverRefused ==
  \A c \in Calls : placed[c] /\ phase[c] = "over" =>
    answer[c] \in {"sid", "ProviderTimeout", "ProviderUnavailable",
                   "MalformedResponse", "ValueError"}
=============================================================================
