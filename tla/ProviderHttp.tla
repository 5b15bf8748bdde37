---------------------------- MODULE ProviderHttp ----------------------------
(***************************************************************************)
(* One council call as the provider sees it (providers/http.py and the     *)
(* adapters): the HTTP attempts of post_json, the adapter's verdict on the *)
(* body, and the new call a resumed run makes for the same slot.  Time,    *)
(* headers and texts are left out, and with them the errors raised before  *)
(* anything is sent: what matters is which replies allow another attempt.  *)
(***************************************************************************)
EXTENDS Naturals, Sequences

CONSTANTS
  Status,           \* explicit non-2xx status codes a provider answers with
  AttemptsAllowed,  \* max_attempts of the provider's configuration
  MaxPosts          \* logical calls the run makes for this slot

ASSUME HttpAssumption ==
  /\ Status \subseteq (100 .. 199) \cup (300 .. 599)
  /\ AttemptsAllowed \in 1 .. 10
  /\ MaxPosts \in Nat \ {0}

VARIABLES
  attempt,   \* the attempt of the current post_json, from 1
  post,      \* which logical call this is
  phase,     \* sending, answered or failed
  error,     \* the ProviderError of a failed call
  exchange,  \* what came back for every attempt so far
  adapter    \* what the provider's adapter reads first of a reply

httpVars == <<attempt, post, phase, error, exchange, adapter>>

ProviderError == [retryable : BOOLEAN, ambiguous : BOOLEAN]
NoError == [retryable |-> FALSE, ambiguous |-> FALSE]

HttpInit ==
  /\ attempt = 1 /\ post = 1 /\ phase = "sending"
  /\ error = NoError /\ exchange = <<>>
  /\ adapter \in {"finish", "text"}

(* _classified_http_error: the codes that may be sent again.               *)
Retryable(s) == s \in {408, 409, 425, 429} \cup (500 .. 599)

Definite(r) == [retryable |-> r, ambiguous |-> FALSE]

Classified(s) == Definite(Retryable(s))

(* The request may have been carried out, whether or not the error could   *)
(* be tried again.                                                         *)
InDoubt(r) == [retryable |-> r, ambiguous |-> TRUE]

(* A 2xx reply whose body is too large or is no JSON object.               *)
UnreadableError_Definite == NoError
UnreadableError == InDoubt(FALSE)

(* The guard of the loop's only continue.                                  *)
MaySendAgain(e) ==
  e.retryable /\ ~e.ambiguous /\ attempt < AttemptsAllowed

Received(what) == exchange' = Append(exchange, what)

Raise(e) ==
  /\ phase' = "failed" /\ error' = e
  /\ UNCHANGED <<attempt, post>>

(* The explicit failure is retried after a delay, or raised.               *)
ExplicitFailure(s) ==
  /\ phase = "sending"
  /\ Received("refused")
  /\ \/ /\ MaySendAgain(Classified(s))
        /\ attempt' = attempt + 1
        /\ UNCHANGED <<post, phase, error>>
     \/ ~MaySendAgain(Classified(s)) /\ Raise(Classified(s))

(* Timeouts and connection errors are marked retryable, any other          *)
(* exception is not, and a ProviderError of the transport is passed on.    *)
TransportFails(r) ==
  /\ phase = "sending"
  /\ Received("unknown")
  /\ Raise(InDoubt(r))

(* A transport other than urllib_transport may say that the request was    *)
(* not carried out; it is believed, and not asked again.                   *)
TransportRefuses(r) ==
  /\ phase = "sending"
  /\ Received("refused")
  /\ Raise(Definite(r))

Unreadable ==
  /\ phase = "sending"
  /\ Received("unknown")
  /\ Raise(UnreadableError)

(* A JSON object that is no answer ends the call with the error e.  The    *)
(* adapters of cohere, mistral, openrouter, qwen and upstage first refuse  *)
(* a reply that did not finish (cohere's may be marked retryable); one     *)
(* without text is in doubt for all of them, unless it was cut off at the  *)
(* limit; what else did not finish is refused by _completion_error.        *)
BodyError(finish, text, e) ==
  IF adapter = "finish" /\ finish = "abnormal" THEN ~e.ambiguous
  ELSE IF text = "none" /\ finish # "length" THEN e = InDoubt(FALSE)
  ELSE finish # "stop" /\ e = Definite(FALSE)

Answered(finish, text) ==
  /\ phase = "sending"
  /\ Received(IF finish = "stop" /\ text = "none" THEN "blank" ELSE "body")
  /\ \/ /\ finish = "stop" /\ text = "some"
        /\ phase' = "answered"
        /\ UNCHANGED <<attempt, post, error>>
     \/ \E e \in ProviderError : BodyError(finish, text, e) /\ Raise(e)

(* A resumed run makes a new call for a failed slot unless its failure is  *)
(* ambiguous.                                                              *)
MayRepeatCall(e) == ~e.ambiguous

RepeatCall ==
  /\ phase = "failed" /\ post < MaxPosts /\ MayRepeatCall(error)
  /\ post' = post + 1 /\ attempt' = 1
  /\ phase' = "sending" /\ error' = NoError
  /\ UNCHANGED exchange

HttpNext ==
  /\ UNCHANGED adapter
  /\ \/ \E s \in Status : ExplicitFailure(s)
     \/ \E r \in BOOLEAN : TransportFails(r) \/ TransportRefuses(r)
     \/ Unreadable
     \/ \E finish \in {"stop", "length", "abnormal"}, text \in {"none", "some"} :
          Answered(finish, text)
     \/ RepeatCall

HttpSpec == HttpInit /\ [][HttpNext]_httpVars

-----------------------------------------------------------------------------
(* No usable answer, but the provider may have carried the request out and *)
(* billed it; of a complete reply without text it says that it did.        *)
Doubtful == {"unknown", "blank"}

(* Whatever the sequence of replies over the HTTP attempts of post_json    *)
(* and the calls of resumed runs, nothing is sent for a slot after a       *)
(* doubtful attempt (http.py:174): it is the slot's last, and its call has *)
(* ended with an ambiguous error, whichever adapter reads the reply.       *)
NoBlindRepeat ==
  \A i \in DOMAIN exchange :
    exchange[i] \in Doubtful =>
      /\ i = Len(exchange)
      /\ phase = "failed" /\ error.ambiguous
=============================================================================
