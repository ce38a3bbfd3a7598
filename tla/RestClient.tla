----------------------------- MODULE RestClient -----------------------------
(***************************************************************************)
(* BinanceRestClient and its RateLimitTracker                              *)
(* (infrastructure/venues/binance/client.py, rate_limiter.py): processes   *)
(* with a client each, behind the one address that the venue counts        *)
(* weight for.  A client serves one call at a time.                        *)
(*                                                                         *)
(* Time passes in ticks.  The code keeps absolute times and compares their *)
(* distance from now() with a duration; here each is the distance itself,  *)
(* an age that grows or a remainder that shrinks at every tick.  Local     *)
(* steps take less than a tick, the transport answers or gives up within   *)
(* Latency ticks.                                                          *)
(***************************************************************************)
EXTENDS Integers, FiniteSets

CONSTANTS
  Clients,       \* processes with a BinanceRestClient
  Threshold,     \* int(weight_limit * backoff_ratio)
  Weight,        \* what the venue charges for a request
  Window,        \* one minute, for the tracker and for the venue
  MaxAttempts,   \* max_attempts
  RetryBackoff,  \* retry_backoff_seconds
  RetryAfter,    \* the waits a Retry-After header may ask for
  DefaultRetryAfter,  \* _DEFAULT_RETRY_AFTER_SECONDS
  RecvWindow,    \* recvWindow, the age at which the venue refuses a signature
  Latency,       \* the timeout of the transport
  MaxLost        \* bound on the weights lost on their way in one window of the venue

ASSUME ClientsAssumption == Clients # {} /\ IsFiniteSet(Clients)
ASSUME LimitsAssumption  == {Threshold, Weight, Window, MaxAttempts} \subseteq Nat \ {0}
ASSUME TimesAssumption   ==
  /\ {RetryBackoff, DefaultRetryAfter, RecvWindow, Latency, MaxLost} \subseteq Nat
  /\ RetryAfter \subseteq Nat

VARIABLES
  \* the venue
  phase,        \* ticks since its window began
  used,         \* weight charged in its window
  \* each client
  pc,           \* "idle", "sending", "answered" or "sleeping"
  attempt,      \* requests sent for the call
  signed,       \* whether the call is signed
  stamp_age,    \* ticks since its URL was signed, 0 if it is not
  timer,        \* "sleeping": ticks left; otherwise: ticks in flight
  answer,       \* the answer on its way
  blocked,      \* ticks left until _blocked_until, 0 for none
  used_weight,  \* _used_weight of the tracker
  window_age,   \* ticks since _window_started_at, Unset for None
  \* history
  owed,         \* ticks left of the last Retry-After of the venue that a client heeds
  lost          \* answers that never came or came without the weight, in the venue's window

venue   == <<phase, used, lost>>
call    == <<pc, attempt, signed, stamp_age, timer, answer>>
tracker == <<used_weight, window_age>>
vars    == <<venue, call, blocked, tracker, owed>>
-----------------------------------------------------------------------------
Unset    == -1
(* 200, 429, 5xx, the code for a timestamp outside recvWindow; "refused" is *)
(* 418 and every other status, which all end the call and nothing more.     *)
Statuses == {"ok", "rate", "server", "timestamp", "refused"}

(* Retry-After: a number of seconds, an HTTP date that long away, or none. *)
NoHeader     == [form |-> "none", wait |-> 0]
RetryHeaders == {NoHeader} \cup [form : {"seconds", "date"}, wait : RetryAfter]

NoAnswer == [status |-> "ok", header |-> 0, retry_after |-> NoHeader]

InFlight(c) == pc[c] \in {"sending", "answered"}

(* Seeded fault: asked before a request, the tracker does not expire.      *)
NeverStale(c) == FALSE

(* The window is over 60 seconds after its first observation. *)
Stale(c) == window_age[c] # Unset /\ window_age[c] >= Window

(* Seeded fault: half of the wait. *)
HalfTheWait(r) == IF r.form = "seconds" THEN r.wait \div 2 ELSE DefaultRetryAfter

(* _blocked_until - now: what is no number counts as a missing header.     *)
BlockFor(r) == IF r.form = "seconds" THEN r.wait ELSE DefaultRetryAfter

(* The waits a client is meant to keep: that of a 429 in seconds, or by a  *)
(* date within the default.                                                *)
Heeded(status, r) ==
  status = "rate" /\ (r.form = "seconds" \/ r.wait <= DefaultRetryAfter)

Init ==
  /\ phase = 0 /\ used = 0 /\ lost = 0
  /\ pc = [c \in Clients |-> "idle"]
  /\ attempt = [c \in Clients |-> 0]
  /\ signed = [c \in Clients |-> FALSE]
  /\ stamp_age = [c \in Clients |-> 0]
  /\ timer = [c \in Clients |-> 0]
  /\ answer = [c \in Clients |-> NoAnswer]
  /\ blocked = [c \in Clients |-> 0]
  /\ used_weight = [c \in Clients |-> 0]
  /\ window_age = [c \in Clients |-> Unset]
  /\ owed = [c \in Clients |-> 0]

(* Nothing waits for this very moment: no answer is due, no sleep is over. *)
MayTick ==
  \A c \in Clients : /\ InFlight(c) => timer[c] < Latency
                     /\ pc[c] = "sleeping" => timer[c] > 0

Less(n) == IF n = 0 THEN 0 ELSE n - 1

Tick ==
  /\ MayTick
  /\ phase' = (phase + 1) % Window
  /\ used' = IF phase + 1 = Window THEN 0 ELSE used
  /\ lost' = IF phase + 1 = Window THEN 0 ELSE lost
  /\ stamp_age' = [c \in Clients |-> IF signed[c] THEN stamp_age[c] + 1 ELSE 0]
  /\ timer' = [c \in Clients |-> CASE InFlight(c) -> timer[c] + 1
                                   [] pc[c] = "sleeping" -> timer[c] - 1
                                   [] OTHER -> timer[c]]
  /\ window_age' = [c \in Clients |->
       IF window_age[c] = Unset \/ window_age[c] = Window THEN window_age[c] ELSE window_age[c] + 1]
  /\ blocked' = [c \in Clients |-> Less(blocked[c])]
  /\ owed' = [c \in Clients |-> Less(owed[c])]
  /\ UNCHANGED <<pc, attempt, signed, answer, used_weight>>

(* _expire_if_stale as part of should_back_off. *)
Expire(c) ==
  /\ used_weight' = [used_weight EXCEPT ![c] = IF Stale(c) THEN 0 ELSE @]
  /\ window_age' = [window_age EXCEPT ![c] = IF Stale(c) THEN Unset ELSE @]

(* The local block. *)
Blocked(c) == blocked[c] > 0

(* should_back_off: the tracked weight of the window. *)
Throttled(c) == ~Stale(c) /\ used_weight[c] >= Threshold

(* _request raises before it sends anything. *)
Refuse(c) ==
  /\ pc[c] = "idle"
  /\ \/ Blocked(c) /\ UNCHANGED tracker
     \/ ~Blocked(c) /\ Throttled(c) /\ Expire(c)
  /\ UNCHANGED <<venue, call, blocked, owed>>

(* The URL is built, signed and stamped once, before the first attempt. *)
Call(c, is_signed) ==
  /\ pc[c] = "idle" /\ ~Blocked(c) /\ ~Throttled(c)
  /\ Expire(c)
  /\ pc' = [pc EXCEPT ![c] = "sending"]
  /\ attempt' = [attempt EXCEPT ![c] = 1]
  /\ signed' = [signed EXCEPT ![c] = is_signed]
  /\ stamp_age' = [stamp_age EXCEPT ![c] = 0]
  /\ timer' = [timer EXCEPT ![c] = 0]
  /\ UNCHANGED <<venue, answer, blocked, owed>>

(* The request reaches the venue, which charges its weight and reports it  *)
(* whatever it answers; a proxy's answer may come without the header.  A   *)
(* 429, a 418 and a 5xx may say how long to wait; the client reads it of a *)
(* 429 alone.                                                              *)
Serve(c, status, r, reported) ==
  /\ pc[c] = "sending"
  /\ reported \/ lost < MaxLost
  /\ lost' = IF reported THEN lost ELSE lost + 1
  /\ (status = "timestamp") <=> (signed[c] /\ stamp_age[c] > RecvWindow)
  /\ r = NoHeader \/ status \in {"rate", "refused", "server"}
  /\ used' = used + Weight
  /\ answer' = [answer EXCEPT ![c] =
       [status |-> status, header |-> IF reported THEN used + Weight ELSE Unset,
        retry_after |-> IF status = "rate" THEN r ELSE NoHeader]]
  /\ owed' = [owed EXCEPT ![c] = IF Heeded(status, r) THEN r.wait ELSE @]
  /\ pc' = [pc EXCEPT ![c] = "answered"]
  /\ UNCHANGED <<phase, attempt, signed, stamp_age, timer, blocked, tracker>>

(* Seeded fault: the weight header is looked for under another name. *)
HeaderUnread(c) == Expire(c)

(* observe(), which every answer passes first. *)
Observe(c) ==
  IF answer[c].header = Unset
  THEN Expire(c)
  ELSE /\ used_weight' = [used_weight EXCEPT ![c] = answer[c].header]
       /\ window_age' = [window_age EXCEPT ![c] = IF @ = Unset \/ Stale(c) THEN 0 ELSE @]

EndCall(c) ==
  /\ pc' = [pc EXCEPT ![c] = "idle"]
  /\ attempt' = [attempt EXCEPT ![c] = 0]
  /\ signed' = [signed EXCEPT ![c] = FALSE]
  /\ stamp_age' = [stamp_age EXCEPT ![c] = 0]
  /\ timer' = [timer EXCEPT ![c] = 0]
  /\ answer' = [answer EXCEPT ![c] = NoAnswer]

AttemptsLeft(c) == attempt[c] < MaxAttempts

(* Success, a refusal, or a server error on the last attempt ends the      *)
(* call.  A 418 blocks nothing, whatever it asks for: the next call is     *)
(* sent.                                                                   *)
Finish(c) ==
  /\ pc[c] = "answered"
  /\ \/ answer[c].status \in {"ok", "timestamp", "refused"}
     \/ answer[c].status = "server" /\ ~AttemptsLeft(c)
  /\ Observe(c) /\ EndCall(c)
  /\ UNCHANGED <<venue, blocked, owed>>

(* 429: the local block starts when the answer arrives. *)
EnterBackoff(c) ==
  /\ pc[c] = "answered" /\ answer[c].status = "rate"
  /\ blocked' = [blocked EXCEPT ![c] = BlockFor(answer[c].retry_after)]
  /\ Observe(c) /\ EndCall(c)
  /\ UNCHANGED <<venue, owed>>

(* Seeded fault: the sleep doubles with every attempt. *)
Doubling(n) == RetryBackoff * 2 ^ n

(* The sleep after the n-th attempt. *)
SleepTime(n) == RetryBackoff * n

(* 5xx with attempts left: sleep, for as long as the client likes, then    *)
(* send the same URL again.                                                *)
Sleep(c) ==
  /\ pc[c] = "answered" /\ answer[c].status = "server" /\ AttemptsLeft(c)
  /\ Observe(c)
  /\ pc' = [pc EXCEPT ![c] = "sleeping"]
  /\ timer' = [timer EXCEPT ![c] = SleepTime(attempt[c])]
  /\ answer' = [answer EXCEPT ![c] = NoAnswer]
  /\ UNCHANGED <<venue, attempt, signed, stamp_age, blocked, owed>>

Resend(c) ==
  /\ pc[c] = "sleeping" /\ timer[c] = 0
  /\ pc' = [pc EXCEPT ![c] = "sending"]
  /\ attempt' = [attempt EXCEPT ![c] = @ + 1]
  /\ UNCHANGED <<venue, signed, stamp_age, timer, answer, blocked, tracker, owed>>

(* The transport raises: the request or its answer is lost, and with it    *)
(* the weight the venue reported.  (A lost 429 leaves nothing to respect.) *)
Lose(c) ==
  /\ InFlight(c) /\ lost < MaxLost
  /\ lost' = lost + 1
  /\ owed' = [owed EXCEPT ![c] = 0]
  /\ EndCall(c)
  /\ UNCHANGED <<phase, used, blocked, tracker>>

Receive(c) == Finish(c) \/ EnterBackoff(c) \/ Sleep(c)

Next ==
  \/ Tick
  \/ \E c \in Clients :
       \/ Refuse(c)
       \/ \E is_signed \in BOOLEAN : Call(c, is_signed)
       \/ \E status \in Statuses, r \in RetryHeaders, reported \in BOOLEAN :
            Serve(c, status, r, reported)
       \/ Receive(c) \/ Resend(c) \/ Lose(c)

Spec == Init /\ [][Next]_vars

(* Time passes, and a request in flight is served and answered. *)
FairSpec ==
  /\ Spec /\ WF_vars(Tick)
  /\ \A c \in Clients :
       /\ WF_vars(\E status \in Statuses, r \in RetryHeaders : Serve(c, status, r, TRUE))
       /\ WF_vars(Receive(c)) /\ WF_vars(Resend(c))
-----------------------------------------------------------------------------
Answers == [status : Statuses, header : Nat \cup {Unset},
            retry_after : [form : {"seconds", "date", "none"}, wait : Nat]]

TypeOK ==
  /\ phase \in 0 .. Window - 1 /\ used \in Nat /\ lost \in 0 .. MaxLost
  /\ pc \in [Clients -> {"idle", "sending", "answered", "sleeping"}]
  /\ attempt \in [Clients -> 0 .. MaxAttempts]
  /\ signed \in [Clients -> BOOLEAN]
  /\ stamp_age \in [Clients -> Nat]
  /\ timer \in [Clients -> Nat]
  /\ answer \in [Clients -> Answers]
  /\ blocked \in [Clients -> Nat]
  /\ used_weight \in [Clients -> Nat]
  /\ window_age \in [Clients -> (0 .. Window) \cup {Unset}]
  /\ owed \in [Clients -> Nat]

(* After a 429 the venue hears nothing from the client, be it a new call   *)
(* or a retry, while the wait it asked for is running, although the client *)
(* counts from the arrival of the answer and the venue from its departure. *)
(* That is what the client does for a wait in seconds, and for a date no   *)
(* further away than the default; a 418, a 5xx and a later date are not    *)
(* waited for.                                                             *)
RespectsRetryAfter ==
  \A c \in Clients : pc[c] \in {"sending", "sleeping"} => owed[c] = 0

(* However the clients interleave, and although each learns of the others' *)
(* use only from its own answers, although retries do not ask the tracker  *)
(* and its window runs out of step with the venue's: in a window of the    *)
(* venue each client exceeds the threshold by two calls at most, and by    *)
(* the requests whose weight was lost on its way.                          *)
OverrunIsBounded ==
  used < Threshold + (2 * MaxAttempts * Cardinality(Clients) + lost) * Weight

(* A retry is sent with the timestamp of the first attempt.  Its age at    *)
(* the venue is bounded by the sleeps and latencies before it: with a      *)
(* recvWindow of that length no signature is refused as too old.           *)
SignatureAge(n) == n * Latency + RetryBackoff * ((n * (n - 1)) \div 2)

SignatureIsFresh ==
  \A c \in Clients : pc[c] = "sending" => stamp_age[c] <= SignatureAge(attempt[c])

(* "A client that stops sending requests for a while doesn't stay locked   *)
(* out": whether by a 429 or by its own tracker, a refusal ends, however   *)
(* the others use up the weight meanwhile.                                 *)
LockoutEnds ==
  \A c \in Clients : (Blocked(c) \/ Throttled(c)) ~> (pc[c] = "idle" /\ ~Blocked(c) /\ ~Throttled(c))
=============================================================================
