---------------------------- MODULE VenueProofs ----------------------------
(***************************************************************************)
(* The adapters of the venue, for any number of clients and symbols and    *)
(* any limits, thresholds and times.                                       *)
(*                                                                         *)
(* RestClient: no request reaches the venue while a Retry-After that the   *)
(* client heeds is running, a retry's signature has a bounded age, and the   *)
(* clients of one address overrun the threshold by a bounded number of     *)
(* calls.  None is inductive: the first needs what is owed while the       *)
(* answer is on its way, the second what the call has spent already, the   *)
(* third the calls that clients may still make before they know.           *)
(*                                                                         *)
(* FeedWatch: no lost frame is passed over, and silence is acted on in     *)
(* bounded time.  The time is settled by what a symbol may have waited     *)
(* when so many publications of the check are still to come.               *)
(***************************************************************************)
EXTENDS RestClient, FeedWatch, FiniteSetTheorems, TLAPS

(* What the venue asked for is known to the client, or on its way to it.   *)
Waits(c) ==
  /\ pc[c] \in {"sending", "sleeping"} => owed[c] = 0
  /\ pc[c] = "answered" => /\ owed[c] <= BlockFor(answer[c].retry_after)
                           /\ answer[c].status # "rate" => owed[c] = 0
  /\ pc[c] = "idle" => owed[c] <= blocked[c]

(* The most a call has spent when its n-th request leaves. *)
Spent(n) == (n - 1) * Latency + RetryBackoff * ((n * (n - 1)) \div 2)

(* The age of the signature against the time the call may have spent. *)
Fresh(c) ==
  /\ InFlight(c) => /\ attempt[c] # 0 /\ timer[c] <= Latency
                    /\ stamp_age[c] <= Spent(attempt[c]) + timer[c]
  /\ pc[c] = "sleeping" => /\ attempt[c] # 0 /\ attempt[c] < MaxAttempts
                           /\ stamp_age[c] + timer[c] <= Spent(attempt[c] + 1)

IInv == TypeOK /\ \A c \in Clients : Waits(c) /\ Fresh(c)
-----------------------------------------------------------------------------
(* A pair of neighbours' product is even: halves add up.                   *)
LEMMA HalfProduct ==
  ASSUME NEW n \in Nat \ {0}
  PROVE  /\ (n * (n - 1)) \div 2 \in Nat
         /\ ((n + 1) * n) \div 2 = (n * (n - 1)) \div 2 + n
<1> DEFINE m == n * (n - 1)
<1>1. m \in Nat
  <2>1. n \in Nat /\ n - 1 \in Nat
    OBVIOUS
  <2> QED BY <2>1
<1>2. (n + 1) * n = m + 2 * n
  OBVIOUS
<1> HIDE DEF m
<1>3. m \div 2 \in Nat /\ (m + 2 * n) \div 2 = m \div 2 + n
  BY <1>1
<1> QED BY <1>2, <1>3 DEF m

(* The first request leaves at once; a sleep and an answer later the next. *)
LEMMA SpentSteps ==
  ASSUME NEW n \in Nat \ {0}
  PROVE  /\ Spent(n) \in Nat
         /\ Spent(1) = 0
         /\ Spent(n + 1) = Spent(n) + Latency + RetryBackoff * n
         /\ SignatureAge(n) = Spent(n) + Latency
         /\ RetryBackoff * n \in Nat
<1> DEFINE h == (n * (n - 1)) \div 2
<1>1. RetryBackoff \in Nat /\ Latency \in Nat /\ n - 1 \in Nat
  BY TimesAssumption
<1>2. h \in Nat /\ ((n + 1) * n) \div 2 = h + n
  BY HalfProduct
<1>3. Spent(n) = (n - 1) * Latency + RetryBackoff * h
  BY DEF Spent
<1>4. Spent(n + 1) = n * Latency + RetryBackoff * (h + n)
  <2>1. Spent(n + 1) = ((n + 1) - 1) * Latency + RetryBackoff * (((n + 1) * ((n + 1) - 1)) \div 2)
    BY DEF Spent
  <2>2. (n + 1) - 1 = n
    OBVIOUS
  <2> QED BY <2>1, <2>2, <1>2
<1>5. SignatureAge(n) = n * Latency + RetryBackoff * h
  BY DEF SignatureAge
<1>6. Spent(1) = 0
  <2>1. (1 * (1 - 1)) \div 2 = 0 /\ (1 - 1) * Latency = 0 /\ RetryBackoff * 0 = 0
    BY <1>1
  <2> QED BY <2>1 DEF Spent
<1> HIDE DEF h
<1>7. (n - 1) * Latency \in Nat /\ RetryBackoff * h \in Nat /\ RetryBackoff * n \in Nat
  BY <1>1, <1>2
<1>8. n * Latency = (n - 1) * Latency + Latency /\ RetryBackoff * (h + n) = RetryBackoff * h + RetryBackoff * n
  BY <1>1, <1>2
<1> QED BY <1>1, <1>3, <1>4, <1>5, <1>6, <1>7, <1>8
-----------------------------------------------------------------------------
(* The steps of one client change nothing of another's.                    *)
Same(d) ==
  /\ pc'[d] = pc[d] /\ attempt'[d] = attempt[d] /\ signed'[d] = signed[d]
  /\ stamp_age'[d] = stamp_age[d] /\ timer'[d] = timer[d] /\ answer'[d] = answer[d]
  /\ blocked'[d] = blocked[d] /\ owed'[d] = owed[d]

LEMMA SameKeeps ==
  ASSUME NEW d \in Clients, Waits(d), Fresh(d), Same(d)
  PROVE  Waits(d)' /\ Fresh(d)'
  BY DEF Waits, Fresh, Same, InFlight

(* The venue's numbers and the tracker stay in their types.                *)
LEMMA TrackerTypes ==
  ASSUME TypeOK, NEW c \in Clients, Expire(c) \/ Observe(c) \/ UNCHANGED tracker
  PROVE  /\ used_weight' \in [Clients -> Nat]
         /\ window_age' \in [Clients -> (0 .. Window) \cup {Unset}]
<1>1. Window \in Nat /\ 0 \in 0 .. Window
  BY LimitsAssumption
<1>2. used_weight \in [Clients -> Nat] /\ window_age \in [Clients -> (0 .. Window) \cup {Unset}]
  BY DEF TypeOK
<1>3. CASE Expire(c)
  BY <1>1, <1>2, <1>3 DEF Expire
<1>4. CASE Observe(c) /\ ~Expire(c)
  <2>1. answer[c].header \in Nat \cup {Unset}
    BY DEF TypeOK, Answers
  <2>2. answer[c].header # Unset
    BY <1>4 DEF Observe
  <2> QED BY <1>1, <1>2, <1>4, <2>1, <2>2 DEF Observe
<1>5. CASE UNCHANGED tracker
  BY <1>2, <1>5 DEF tracker
<1> QED BY <1>3, <1>4, <1>5

(* A header is kept as it came, the block it makes is a time, and is no    *)
(* shorter than the wait of a heeded one.                                  *)
LEMMA HeaderFacts ==
  /\ NoHeader \in [form : {"seconds", "date", "none"}, wait : Nat]
  /\ \A r \in RetryHeaders : r \in [form : {"seconds", "date", "none"}, wait : Nat]
  /\ \A r \in [form : {"seconds", "date", "none"}, wait : Nat] :
       /\ r.wait \in Nat /\ BlockFor(r) \in Nat
       /\ \A status \in Statuses : Heeded(status, r) => status = "rate" /\ r.wait <= BlockFor(r)
<1>1. NoHeader \in [form : {"seconds", "date", "none"}, wait : Nat]
  BY DEF NoHeader
<1>2. ASSUME NEW r \in RetryHeaders PROVE r \in [form : {"seconds", "date", "none"}, wait : Nat]
  <2>1. RetryAfter \subseteq Nat
    BY TimesAssumption
  <2> QED BY <1>1, <2>1 DEF RetryHeaders
<1>3. ASSUME NEW r \in [form : {"seconds", "date", "none"}, wait : Nat]
      PROVE  /\ r.wait \in Nat /\ BlockFor(r) \in Nat
             /\ \A status \in Statuses : Heeded(status, r) => status = "rate" /\ r.wait <= BlockFor(r)
  <2>1. r.wait \in Nat /\ DefaultRetryAfter \in Nat
    BY TimesAssumption
  <2> QED BY <2>1 DEF BlockFor, Heeded
<1> QED BY <1>1, <1>2, <1>3

(* Before the first call.                                                  *)
LEMMA InitIInv == Init => IInv
<1> SUFFICES ASSUME Init PROVE IInv
  OBVIOUS
<1>1. TypeOK
  <2>1. 0 \in 0 .. Window - 1 /\ 0 \in 0 .. MaxLost /\ 0 \in 0 .. MaxAttempts
    BY LimitsAssumption, TimesAssumption
  <2>2. NoAnswer \in Answers
    BY HeaderFacts DEF NoAnswer, Answers, Statuses
  <2> QED BY <2>1, <2>2 DEF Init, TypeOK
<1>2. ASSUME NEW c \in Clients PROVE Waits(c) /\ Fresh(c)
  BY DEF Init, Waits, Fresh, InFlight
<1> QED BY <1>1, <1>2 DEF IInv
-----------------------------------------------------------------------------
(* Time passes: what is owed and blocked shrinks, ages grow.               *)
LEMMA TickStep == ASSUME IInv, Tick PROVE IInv'
<1>1. TypeOK'
  <2>1. phase' \in 0 .. Window - 1 /\ used' \in Nat /\ lost' \in 0 .. MaxLost
    <3>1. Window \in Nat \ {0} /\ MaxLost \in Nat
      BY LimitsAssumption, TimesAssumption
    <3>2. phase \in 0 .. Window - 1 /\ used \in Nat /\ lost \in 0 .. MaxLost
      BY DEF IInv, TypeOK
    <3>3. phase' = (phase + 1) % Window /\ used' \in {0, used} /\ lost' \in {0, lost}
      BY DEF Tick
    <3> QED BY <3>1, <3>2, <3>3
  <2>2. /\ stamp_age' \in [Clients -> Nat] /\ blocked' \in [Clients -> Nat]
        /\ owed' \in [Clients -> Nat]
    BY DEF IInv, TypeOK, Tick, Less
  <2>3. timer' \in [Clients -> Nat]
    BY DEF IInv, TypeOK, Tick, MayTick
  <2>4. window_age' \in [Clients -> (0 .. Window) \cup {Unset}]
    <3>1. Window \in Nat /\ window_age \in [Clients -> (0 .. Window) \cup {Unset}]
      BY LimitsAssumption DEF IInv, TypeOK
    <3>2. window_age' = [c \in Clients |->
            IF window_age[c] = Unset \/ window_age[c] = Window THEN window_age[c] ELSE window_age[c] + 1]
      BY DEF Tick
    <3>3. ASSUME NEW c \in Clients, window_age[c] # Unset, window_age[c] # Window
          PROVE  window_age[c] + 1 \in 0 .. Window
      BY <3>1, <3>3
    <3> QED BY <3>1, <3>2, <3>3
  <2> QED BY <2>1, <2>2, <2>3, <2>4 DEF IInv, TypeOK, Tick
<1>2. ASSUME NEW c \in Clients PROVE Waits(c)' /\ Fresh(c)'
  <2>1. /\ pc'[c] = pc[c] /\ answer'[c] = answer[c] /\ attempt'[c] = attempt[c]
        /\ owed'[c] = Less(owed[c]) /\ blocked'[c] = Less(blocked[c])
        /\ stamp_age'[c] \in {0, stamp_age[c] + 1}
        /\ timer'[c] = CASE InFlight(c) -> timer[c] + 1
                         [] pc[c] = "sleeping" -> timer[c] - 1
                         [] OTHER -> timer[c]
    BY DEF Tick
  <2>2. /\ owed[c] \in Nat /\ blocked[c] \in Nat /\ stamp_age[c] \in Nat /\ timer[c] \in Nat
        /\ BlockFor(answer[c].retry_after) \in Nat /\ attempt[c] \in Nat
        /\ BlockFor(answer[c].retry_after)' = BlockFor(answer[c].retry_after)
    <3>1. answer[c].retry_after \in [form : {"seconds", "date", "none"}, wait : Nat]
      BY DEF IInv, TypeOK, Answers
    <3>2. BlockFor(answer[c].retry_after)' = BlockFor(answer[c].retry_after)
      BY <2>1 DEF BlockFor
    <3> QED BY <3>1, <3>2, HeaderFacts, LimitsAssumption DEF IInv, TypeOK
  <2>3. Waits(c)'
    <3>1. owed'[c] \in Nat /\ owed'[c] <= owed[c] /\ (owed[c] <= blocked[c] => owed'[c] <= blocked'[c])
      BY <2>1, <2>2 DEF Less
    <3>2. Waits(c)
      BY DEF IInv
    <3> QED BY <2>1, <2>2, <3>1, <3>2 DEF Waits
  <2>4. InFlight(c)' = InFlight(c)
    BY <2>1 DEF InFlight
  <2>5. CASE InFlight(c)
    <3>1. timer[c] < Latency /\ timer'[c] = timer[c] + 1 /\ pc[c] # "sleeping" /\ attempt[c] # 0
      BY <2>1, <2>5 DEF Tick, MayTick, InFlight, IInv, Fresh
    <3>2. Spent(attempt[c]) \in Nat /\ stamp_age[c] <= Spent(attempt[c]) + timer[c]
      BY <2>2, <2>5, <3>1, SpentSteps DEF IInv, Fresh
    <3>3. Spent(attempt[c])' = Spent(attempt[c])
      BY <2>1 DEF Spent
    <3>4. stamp_age'[c] <= Spent(attempt[c]) + timer'[c]
      BY <2>1, <2>2, <3>1, <3>2
    <3>5. Fresh(c)'
      BY <2>1, <2>2, <2>4, <3>1, <3>3, <3>4, TimesAssumption DEF Fresh
    <3> QED BY <2>3, <3>5
  <2>6. CASE pc[c] = "sleeping"
    <3>1. ~InFlight(c) /\ timer'[c] = timer[c] - 1 /\ attempt[c] # 0
      BY <2>1, <2>6 DEF InFlight, IInv, Fresh
    <3>2. stamp_age[c] + timer[c] <= Spent(attempt[c] + 1) /\ Spent(attempt[c] + 1) \in Nat
      BY <2>2, <2>6, <3>1, SpentSteps DEF IInv, Fresh
    <3>3. Spent(attempt[c] + 1)' = Spent(attempt[c] + 1)
      BY <2>1 DEF Spent
    <3>4. timer[c] > 0
      BY <2>6 DEF Tick, MayTick
    <3>5. stamp_age'[c] + timer'[c] <= Spent(attempt[c] + 1)
      BY <2>1, <2>2, <3>1, <3>2, <3>4
    <3>6. Fresh(c)'
      BY <2>1, <2>4, <2>6, <3>1, <3>3, <3>5 DEF Fresh, IInv
    <3> QED BY <2>3, <3>6
  <2>7. CASE ~InFlight(c) /\ pc[c] # "sleeping"
    BY <2>1, <2>3, <2>4, <2>7 DEF Fresh
  <2> QED BY <2>3, <2>5, <2>6, <2>7
<1> QED BY <1>1, <1>2 DEF IInv

(* A call is sent by a client that nothing blocks.                         *)
LEMMA CallStep == ASSUME IInv, NEW c \in Clients, NEW is_signed \in BOOLEAN, Call(c, is_signed) PROVE IInv'
<1>1. TypeOK'
  <2>1. 1 \in 0 .. MaxAttempts
    BY LimitsAssumption
  <2>2. used_weight' \in [Clients -> Nat] /\ window_age' \in [Clients -> (0 .. Window) \cup {Unset}]
    BY TrackerTypes DEF IInv, Call
  <2> QED BY <2>1, <2>2 DEF IInv, TypeOK, Call, venue
<1>2. ASSUME NEW d \in Clients, d # c PROVE Waits(d)' /\ Fresh(d)'
  <2>1. Same(d)
    BY <1>2 DEF Same, Call, IInv, TypeOK
  <2> QED BY <2>1, SameKeeps DEF IInv
<1>3. Waits(c)' /\ Fresh(c)'
  <2>1. /\ pc'[c] = "sending" /\ attempt'[c] = 1 /\ stamp_age'[c] = 0 /\ timer'[c] = 0
        /\ owed'[c] = owed[c] /\ pc[c] = "idle"
    BY DEF IInv, TypeOK, Call
  <2>2. owed[c] = 0
    BY <2>1 DEF IInv, TypeOK, Waits, Call, Blocked
  <2>3. Spent(attempt[c])' = 0
    <3>1. Spent(attempt[c])' = Spent(1)
      BY <2>1 DEF Spent
    <3> QED BY <3>1, SpentSteps
  <2> QED BY <2>1, <2>2, <2>3, TimesAssumption DEF Waits, Fresh, InFlight
<1> QED BY <1>1, <1>2, <1>3 DEF IInv

(* The answer leaves with the Retry-After the venue will hold to.          *)
LEMMA ServeStep ==
  ASSUME IInv, NEW c \in Clients, NEW status \in Statuses, NEW r \in RetryHeaders,
         NEW reported \in BOOLEAN, Serve(c, status, r, reported)
  PROVE  IInv'
<1>1. /\ Weight \in Nat /\ MaxLost \in Nat
      /\ r \in [form : {"seconds", "date", "none"}, wait : Nat] /\ r.wait \in Nat
      /\ Heeded(status, r) => status = "rate" /\ r.wait <= BlockFor(r)
      /\ NoHeader \in [form : {"seconds", "date", "none"}, wait : Nat] /\ BlockFor(NoHeader) \in Nat
  BY TimesAssumption, LimitsAssumption, HeaderFacts
<1>2. TypeOK'
  <2>1. lost' \in 0 .. MaxLost /\ used' \in Nat
    BY <1>1 DEF IInv, TypeOK, Serve
  <2>2. [status |-> status, header |-> IF reported THEN used + Weight ELSE Unset,
         retry_after |-> IF status = "rate" THEN r ELSE NoHeader] \in Answers
    BY <1>1 DEF IInv, TypeOK, Answers
  <2>3. answer' \in [Clients -> Answers] /\ owed' \in [Clients -> Nat]
    BY <1>1, <2>2 DEF IInv, TypeOK, Serve
  <2>4. pc' \in [Clients -> {"idle", "sending", "answered", "sleeping"}]
    BY DEF IInv, TypeOK, Serve
  <2> QED BY <2>1, <2>3, <2>4 DEF IInv, TypeOK, Serve, tracker
<1>3. ASSUME NEW d \in Clients, d # c PROVE Waits(d)' /\ Fresh(d)'
  <2>1. Same(d)
    BY <1>3 DEF Same, Serve, IInv, TypeOK
  <2> QED BY <2>1, SameKeeps DEF IInv
<1>4. Waits(c)' /\ Fresh(c)'
  <2>1. /\ pc'[c] = "answered" /\ pc[c] = "sending" /\ attempt'[c] = attempt[c]
        /\ stamp_age'[c] = stamp_age[c] /\ timer'[c] = timer[c]
        /\ owed'[c] = IF Heeded(status, r) THEN r.wait ELSE owed[c]
        /\ answer'[c].status = status
        /\ answer'[c].retry_after = IF status = "rate" THEN r ELSE NoHeader
    BY DEF IInv, TypeOK, Serve
  <2>2. owed[c] = 0
    BY <2>1 DEF IInv, Waits
  <2>3. Waits(c)'
    <3>1. CASE Heeded(status, r)
      <4>1. BlockFor(answer[c].retry_after)' = BlockFor(r)
        BY <1>1, <2>1, <3>1 DEF BlockFor
      <4> QED BY <1>1, <2>1, <3>1, <4>1 DEF Waits
    <3>2. CASE ~Heeded(status, r)
      <4>1. owed'[c] = 0
        BY <2>1, <2>2, <3>2
      <4>2. answer'[c].retry_after \in [form : {"seconds", "date", "none"}, wait : Nat]
        BY <1>1, <2>1
      <4>3. BlockFor(answer'[c].retry_after) \in Nat
        BY <4>2, HeaderFacts
      <4>4. BlockFor(answer[c].retry_after)' = BlockFor(answer'[c].retry_after)
        BY DEF BlockFor
      <4> QED BY <2>1, <4>1, <4>3, <4>4 DEF Waits
    <3> QED BY <3>1, <3>2
  <2>4. Spent(attempt[c])' = Spent(attempt[c])
    BY <2>1 DEF Spent
  <2>5. Fresh(c)'
    BY <2>1, <2>4 DEF IInv, Fresh, InFlight
  <2> QED BY <2>3, <2>5
<1> QED BY <1>2, <1>3, <1>4 DEF IInv

(* The end of a call clears everything the call carried.                   *)
LEMMA EndStep ==
  ASSUME IInv, NEW c \in Clients, EndCall(c),
         phase' \in 0 .. Window - 1, used' \in Nat, lost' \in 0 .. MaxLost,
         used_weight' \in [Clients -> Nat], window_age' \in [Clients -> (0 .. Window) \cup {Unset}],
         NEW b \in Nat, NEW o \in Nat, o <= b,
         blocked' = [blocked EXCEPT ![c] = b], owed' = [owed EXCEPT ![c] = o]
  PROVE  IInv'
<1>1. TypeOK'
  <2>1. NoAnswer \in Answers /\ 0 \in 0 .. MaxAttempts
    BY LimitsAssumption, HeaderFacts DEF NoAnswer, Answers, Statuses
  <2> QED BY <2>1 DEF IInv, TypeOK, EndCall
<1>2. ASSUME NEW d \in Clients, d # c PROVE Waits(d)' /\ Fresh(d)'
  <2>1. Same(d)
    BY <1>2 DEF Same, EndCall, IInv, TypeOK
  <2> QED BY <2>1, SameKeeps DEF IInv
<1>3. Waits(c)' /\ Fresh(c)'
  BY DEF EndCall, Waits, Fresh, InFlight, IInv, TypeOK
<1> QED BY <1>1, <1>2, <1>3 DEF IInv

(* Every end of a call: what is owed is blocked, or nothing is owed.       *)
LEMMA EndingSteps ==
  ASSUME IInv, NEW c \in Clients, Finish(c) \/ EnterBackoff(c) \/ Lose(c)
  PROVE  IInv'
<1>1. /\ phase \in 0 .. Window - 1 /\ used \in Nat /\ lost \in 0 .. MaxLost
      /\ owed \in [Clients -> Nat] /\ blocked \in [Clients -> Nat]
      /\ answer[c] \in Answers
  BY DEF IInv, TypeOK
<1>2. CASE Finish(c)
  <2>1. owed[c] = 0
    BY <1>2 DEF Finish, IInv, Waits
  <2>2. used_weight' \in [Clients -> Nat] /\ window_age' \in [Clients -> (0 .. Window) \cup {Unset}]
    BY <1>2, TrackerTypes DEF IInv, Finish
  <2>3. blocked' = [blocked EXCEPT ![c] = blocked[c]] /\ owed' = [owed EXCEPT ![c] = 0]
    BY <1>1, <1>2, <2>1 DEF Finish
  <2>4. EndCall(c) /\ UNCHANGED venue /\ blocked[c] \in Nat /\ 0 <= blocked[c]
    BY <1>1, <1>2 DEF Finish
  <2> QED BY <1>1, <2>2, <2>3, <2>4, EndStep DEF venue
<1>3. CASE EnterBackoff(c)
  <2>1. /\ BlockFor(answer[c].retry_after) \in Nat /\ owed[c] \in Nat
        /\ owed[c] <= BlockFor(answer[c].retry_after)
    BY <1>1, <1>3, HeaderFacts DEF EnterBackoff, IInv, Waits, Answers
  <2>2. used_weight' \in [Clients -> Nat] /\ window_age' \in [Clients -> (0 .. Window) \cup {Unset}]
    BY <1>3, TrackerTypes DEF IInv, EnterBackoff
  <2>3. /\ blocked' = [blocked EXCEPT ![c] = BlockFor(answer[c].retry_after)]
        /\ owed' = [owed EXCEPT ![c] = owed[c]]
    BY <1>1, <1>3 DEF EnterBackoff
  <2>4. EndCall(c) /\ UNCHANGED venue
    BY <1>3 DEF EnterBackoff
  <2> QED BY <1>1, <2>1, <2>2, <2>3, <2>4, EndStep DEF venue
<1>4. CASE Lose(c)
  <2>1. used_weight' \in [Clients -> Nat] /\ window_age' \in [Clients -> (0 .. Window) \cup {Unset}]
    BY <1>4, TrackerTypes DEF IInv, Lose
  <2>2. blocked' = [blocked EXCEPT ![c] = blocked[c]] /\ owed' = [owed EXCEPT ![c] = 0]
    BY <1>1, <1>4 DEF Lose
  <2>3. phase' = phase /\ used' = used /\ lost' \in 0 .. MaxLost
    BY <1>1, <1>4, TimesAssumption DEF Lose
  <2>4. EndCall(c) /\ blocked[c] \in Nat /\ 0 <= blocked[c]
    BY <1>1, <1>4 DEF Lose
  <2> QED BY <1>1, <2>1, <2>2, <2>3, <2>4, EndStep
<1> QED BY <1>2, <1>3, <1>4

(* A sleep costs what SleepTime says, on top of what the call has spent.   *)
LEMMA SleepStep == ASSUME IInv, NEW c \in Clients, Sleep(c) PROVE IInv'
<1>1. /\ attempt[c] \in Nat /\ stamp_age[c] \in Nat /\ timer[c] \in Nat /\ owed[c] \in Nat
      /\ attempt[c] # 0 /\ timer[c] <= Latency /\ Latency \in Nat
      /\ stamp_age[c] <= Spent(attempt[c]) + timer[c] /\ owed[c] = 0
  BY LimitsAssumption, TimesAssumption DEF IInv, TypeOK, Fresh, Waits, InFlight, Sleep
<1>2. /\ Spent(attempt[c]) \in Nat
      /\ Spent(attempt[c] + 1) = Spent(attempt[c]) + Latency + RetryBackoff * attempt[c]
      /\ RetryBackoff * attempt[c] \in Nat
  BY <1>1, SpentSteps
<1>3. /\ pc'[c] = "sleeping" /\ timer'[c] = RetryBackoff * attempt[c] /\ owed'[c] = owed[c]
      /\ attempt'[c] = attempt[c] /\ stamp_age'[c] = stamp_age[c]
  BY DEF IInv, TypeOK, Sleep, SleepTime
<1>4. TypeOK'
  <2>1. NoAnswer \in Answers
    BY HeaderFacts DEF NoAnswer, Answers, Statuses
  <2>2. used_weight' \in [Clients -> Nat] /\ window_age' \in [Clients -> (0 .. Window) \cup {Unset}]
    BY TrackerTypes DEF IInv, Sleep
  <2>3. timer' \in [Clients -> Nat]
    BY <1>2 DEF IInv, TypeOK, Sleep, SleepTime
  <2> QED BY <2>1, <2>2, <2>3 DEF IInv, TypeOK, Sleep, venue
<1>5. ASSUME NEW d \in Clients, d # c PROVE Waits(d)' /\ Fresh(d)'
  <2>1. Same(d)
    BY <1>5 DEF Same, Sleep, IInv, TypeOK
  <2> QED BY <2>1, SameKeeps DEF IInv
<1>6. Waits(c)' /\ Fresh(c)'
  <2>1. Waits(c)'
    BY <1>1, <1>3 DEF Waits
  <2>2. Spent(attempt[c] + 1)' = Spent(attempt[c] + 1)
    BY <1>3 DEF Spent
  <2>3. stamp_age[c] + RetryBackoff * attempt[c] <= Spent(attempt[c] + 1)
    BY <1>1, <1>2
  <2>4. attempt[c] < MaxAttempts
    BY DEF Sleep, AttemptsLeft
  <2> QED BY <1>1, <1>3, <2>1, <2>2, <2>3, <2>4 DEF Fresh, InFlight
<1> QED BY <1>4, <1>5, <1>6 DEF IInv

(* The next attempt leaves when the sleep is over.                         *)
LEMMA ResendStep == ASSUME IInv, NEW c \in Clients, Resend(c) PROVE IInv'
<1>1. /\ attempt[c] \in Nat /\ stamp_age[c] \in Nat /\ attempt[c] # 0 /\ timer[c] = 0
      /\ attempt[c] < MaxAttempts
      /\ stamp_age[c] + timer[c] <= Spent(attempt[c] + 1) /\ owed[c] = 0
  BY LimitsAssumption DEF IInv, TypeOK, Fresh, Waits, Resend
<1>2. /\ pc'[c] = "sending" /\ timer'[c] = timer[c] /\ owed'[c] = owed[c]
      /\ attempt'[c] = attempt[c] + 1 /\ stamp_age'[c] = stamp_age[c]
  BY DEF IInv, TypeOK, Resend
<1>3. TypeOK'
  <2>1. attempt[c] + 1 \in 0 .. MaxAttempts
    BY <1>1, LimitsAssumption
  <2> QED BY <2>1 DEF IInv, TypeOK, Resend, venue, tracker
<1>4. ASSUME NEW d \in Clients, d # c PROVE Waits(d)' /\ Fresh(d)'
  <2>1. Same(d)
    BY <1>4 DEF Same, Resend, IInv, TypeOK
  <2> QED BY <2>1, SameKeeps DEF IInv
<1>5. Waits(c)' /\ Fresh(c)'
  <2>1. Spent(attempt[c])' = Spent(attempt[c] + 1) /\ Spent(attempt[c] + 1) \in Nat
    <3>1. attempt[c] + 1 \in Nat \ {0}
      BY <1>1
    <3> QED BY <1>2, <3>1, SpentSteps DEF Spent
  <2>2. stamp_age[c] <= Spent(attempt[c] + 1)
    BY <1>1
  <2> QED BY <1>1, <1>2, <2>1, <2>2, TimesAssumption DEF Waits, Fresh, InFlight
<1> QED BY <1>3, <1>4, <1>5 DEF IInv
-----------------------------------------------------------------------------
(* A refused call changes the tracker at most, a stutter nothing.          *)
LEMMA QuietStep ==
  ASSUME IInv,
         UNCHANGED <<venue, call, blocked, owed>>,
         \/ UNCHANGED tracker
         \/ \E c \in Clients : Expire(c)
  PROVE  IInv'
<1>1. TypeOK'
  <2>1. used_weight' \in [Clients -> Nat] /\ window_age' \in [Clients -> (0 .. Window) \cup {Unset}]
    <3>1. CASE UNCHANGED tracker
      BY <3>1 DEF IInv, TypeOK, tracker
    <3>2. CASE \E c \in Clients : Expire(c)
      BY <3>2, TrackerTypes DEF IInv
    <3> QED BY <3>1, <3>2
  <2> QED BY <2>1 DEF IInv, TypeOK, venue, call
<1>2. ASSUME NEW d \in Clients PROVE Waits(d)' /\ Fresh(d)'
  <2>1. Same(d)
    BY DEF Same, call
  <2> QED BY <2>1, SameKeeps DEF IInv
<1> QED BY <1>1, <1>2 DEF IInv

(* The invariant is inductive.                                             *)
LEMMA NextIInv == IInv /\ [Next]_vars => IInv'
<1> SUFFICES ASSUME IInv, [Next]_vars PROVE IInv'
  OBVIOUS
<1>1. CASE Tick
  BY <1>1, TickStep
<1>2. ASSUME NEW c \in Clients, Refuse(c) PROVE IInv'
  BY <1>2, QuietStep DEF Refuse
<1>3. ASSUME NEW c \in Clients, NEW is_signed \in BOOLEAN, Call(c, is_signed) PROVE IInv'
  BY <1>3, CallStep
<1>4. ASSUME NEW c \in Clients, NEW status \in Statuses, NEW r \in RetryHeaders,
             NEW reported \in BOOLEAN, Serve(c, status, r, reported)
      PROVE  IInv'
  BY <1>4, ServeStep
<1>5. ASSUME NEW c \in Clients, Receive(c) PROVE IInv'
  BY <1>5, EndingSteps, SleepStep DEF Receive
<1>6. ASSUME NEW c \in Clients, Resend(c) PROVE IInv'
  BY <1>6, ResendStep
<1>7. ASSUME NEW c \in Clients, Lose(c) PROVE IInv'
  BY <1>7, EndingSteps
<1>8. CASE UNCHANGED vars
  BY <1>8, QuietStep DEF vars
<1> QED BY <1>1, <1>2, <1>3, <1>4, <1>5, <1>6, <1>7, <1>8 DEF Next

LEMMA IInvAlways == Spec => []IInv
BY InitIInv, NextIInv, PTL DEF Spec
-----------------------------------------------------------------------------
(* The state of every client keeps its types: the number of attempts never *)
(* exceeds max_attempts, no remainder of time becomes negative, and the    *)
(* tracker's age stops at its window.                                      *)
THEOREM TypeCorrect == Spec => []TypeOK
<1>1. IInv => TypeOK
  BY DEF IInv
<1> QED BY <1>1, IInvAlways, PTL

(* No request, first or retried, is under way to the venue while the       *)
(* Retry-After of a 429 to this client is running, in seconds, whatever    *)
(* their number, or as a date no further away than the default wait.  The  *)
(* header may come with a 418 or a 5xx too: nothing is claimed of those.   *)
THEOREM RetryAfterIsRespected == Spec => []RespectsRetryAfter
<1>1. IInv => RespectsRetryAfter
  BY DEF IInv, Waits, RespectsRetryAfter
<1> QED BY <1>1, IInvAlways, PTL

(* The n-th request of a signed call is at most as old as n latencies and  *)
(* the sleeps before it.                                                   *)
THEOREM SignatureStaysFresh == Spec => []SignatureIsFresh
<1>1. ASSUME IInv PROVE SignatureIsFresh
  <2>1. SUFFICES ASSUME NEW c \in Clients, pc[c] = "sending"
                 PROVE  stamp_age[c] <= SignatureAge(attempt[c])
    BY DEF SignatureIsFresh
  <2>2. /\ attempt[c] \in Nat \ {0} /\ timer[c] \in Nat /\ timer[c] <= Latency /\ stamp_age[c] \in Nat
        /\ stamp_age[c] <= Spent(attempt[c]) + timer[c]
    BY <1>1, <2>1, LimitsAssumption DEF IInv, TypeOK, Fresh, InFlight
  <2>3. SignatureAge(attempt[c]) = Spent(attempt[c]) + Latency /\ Spent(attempt[c]) \in Nat
    BY <2>2, SpentSteps
  <2> QED BY <2>2, <2>3, TimesAssumption
<1> QED BY <1>1, IInvAlways, PTL
-----------------------------------------------------------------------------
(* -------- the overrun -------- *)

(* What the client knows, or will know once its answer is observed: the    *)
(* threshold is reached, and its window is not over.                       *)
Aware(c) ==
  /\ window_age[c] # Unset /\ window_age[c] < Window /\ used_weight[c] >= Threshold
  /\ ~(pc[c] = "answered" /\ answer[c].header # Unset /\ answer[c].header < Threshold)

(* The tracker's window began before the venue's, and will expire in it.   *)
Old(c) == window_age[c] # Unset /\ phase < window_age[c] /\ window_age[c] < Window

Told(c) == pc[c] = "answered" /\ answer[c].header # Unset /\ answer[c].header >= Threshold

(* Requests the call may still send.                                       *)
Rest(c) ==
  CASE pc[c] = "idle" -> 0
    [] pc[c] = "sending" -> MaxAttempts - attempt[c] + 1
    [] OTHER -> MaxAttempts - attempt[c]

(* The most requests of the client the venue may still charge in its       *)
(* window without the weight of one being lost.                            *)
Credit(c) ==
  (IF Aware(c) THEN Rest(c) ELSE IF Told(c) THEN MaxAttempts - 1 ELSE MaxAttempts)
    + (IF Old(c) THEN MaxAttempts ELSE 0)

Tokens == {t \in Clients \X (1 .. 2 * MaxAttempts) : t[2] <= Credit(t[1])}

Allowed == 2 * MaxAttempts * Cardinality(Clients) + lost - Cardinality(Tokens)

OverrunIsPaid == used >= Threshold => used < Threshold + Allowed * Weight
-----------------------------------------------------------------------------
(* What the invariant above says of one client.                            *)
LEMMA ClientFacts ==
  ASSUME IInv, NEW c \in Clients
  PROVE  /\ pc[c] \in {"idle", "sending", "answered", "sleeping"}
         /\ attempt[c] \in Nat /\ attempt[c] <= MaxAttempts
         /\ pc[c] # "idle" => attempt[c] # 0
         /\ pc[c] = "sleeping" => attempt[c] < MaxAttempts
         /\ used_weight[c] \in Nat
         /\ window_age[c] \in Nat \cup {Unset} /\ (window_age[c] = Unset \/ window_age[c] <= Window)
         /\ answer[c].header \in Nat \cup {Unset}
         /\ phase \in Nat /\ phase < Window /\ used \in Nat /\ lost \in Nat
         /\ MaxAttempts \in Nat \ {0} /\ Window \in Nat \ {0} /\ Threshold \in Nat \ {0}
         /\ Weight \in Nat \ {0}
<1>1. /\ MaxAttempts \in Nat \ {0} /\ Window \in Nat \ {0} /\ Threshold \in Nat \ {0}
      /\ Weight \in Nat \ {0} /\ MaxLost \in Nat
  BY LimitsAssumption, TimesAssumption
<1>2. /\ pc[c] \in {"idle", "sending", "answered", "sleeping"}
      /\ attempt[c] \in 0 .. MaxAttempts /\ used_weight[c] \in Nat
      /\ window_age[c] \in (0 .. Window) \cup {Unset}
      /\ phase \in 0 .. Window - 1 /\ used \in Nat /\ lost \in 0 .. MaxLost
  BY DEF IInv, TypeOK
<1>3. answer[c].header \in Nat \cup {Unset}
  BY DEF IInv, TypeOK, Answers
<1>4. /\ pc[c] # "idle" => attempt[c] # 0
      /\ pc[c] = "sleeping" => attempt[c] < MaxAttempts
  BY <1>2 DEF IInv, Fresh, InFlight
<1> QED BY <1>1, <1>2, <1>3, <1>4

LEMMA CreditIsBounded ==
  ASSUME IInv, NEW c \in Clients
  PROVE  /\ Credit(c) \in 0 .. 2 * MaxAttempts
         /\ Told(c) => Credit(c) < 2 * MaxAttempts
<1>1. Rest(c) \in 0 .. MaxAttempts /\ (pc[c] = "answered" => Rest(c) < MaxAttempts)
  BY ClientFacts DEF Rest
<1>2. MaxAttempts \in Nat \ {0}
  BY LimitsAssumption
<1> QED BY <1>1, <1>2 DEF Credit, Told

LEMMA CreditsAreNatural == IInv => \A d \in Clients : Credit(d) \in 0 .. 2 * MaxAttempts
BY CreditIsBounded

LEMMA LaterCreditsAreNatural ==
  ASSUME IInv' PROVE \A d \in Clients : Credit(d)' \in 0 .. 2 * MaxAttempts
<1>1. (\A d \in Clients : Credit(d) \in 0 .. 2 * MaxAttempts)'
  BY CreditsAreNatural, PTL
<1> QED BY <1>1

(* A client that nothing happens to keeps its credit.                      *)
LEMMA CreditKept ==
  ASSUME NEW d, pc'[d] = pc[d], attempt'[d] = attempt[d], answer'[d] = answer[d],
         used_weight'[d] = used_weight[d], window_age'[d] = window_age[d], phase' = phase
  PROVE  Credit(d)' = Credit(d)
BY DEF Credit, Aware, Old, Told, Rest
-----------------------------------------------------------------------------
(* Counting the tokens.                                                    *)
LEMMA TokensFinite ==
  /\ IsFiniteSet(Clients \X (1 .. 2 * MaxAttempts))
  /\ Cardinality(Clients \X (1 .. 2 * MaxAttempts)) = 2 * MaxAttempts * Cardinality(Clients)
  /\ IsFiniteSet(Tokens) /\ Cardinality(Tokens) \in Nat
  /\ IsFiniteSet(Tokens') /\ Cardinality(Tokens') \in Nat
<1>1. MaxAttempts \in Nat /\ 2 * MaxAttempts \in Nat /\ 1 \in Int
  BY LimitsAssumption
<1>2. IsFiniteSet(1 .. 2 * MaxAttempts) /\ Cardinality(1 .. 2 * MaxAttempts) = 2 * MaxAttempts
  BY <1>1, FS_Interval
<1>3. /\ IsFiniteSet(Clients \X (1 .. 2 * MaxAttempts))
      /\ Cardinality(Clients \X (1 .. 2 * MaxAttempts)) = Cardinality(Clients) * (2 * MaxAttempts)
  BY <1>2, ClientsAssumption, FS_Product
<1>4. Cardinality(Clients) \in Nat
  BY ClientsAssumption, FS_CardinalityType
<1>5. Cardinality(Clients) * (2 * MaxAttempts) = 2 * MaxAttempts * Cardinality(Clients)
  BY <1>1, <1>4
<1>6. /\ Tokens \subseteq Clients \X (1 .. 2 * MaxAttempts)
      /\ Tokens' \subseteq Clients \X (1 .. 2 * MaxAttempts)
  BY DEF Tokens
<1> QED BY <1>3, <1>5, <1>6, FS_Subset, FS_CardinalityType

LEMMA TokensKept ==
  ASSUME IInv, IInv', \A d \in Clients : Credit(d)' <= Credit(d)
  PROVE  Cardinality(Tokens') <= Cardinality(Tokens)
<1>1. \A d \in Clients : Credit(d) \in Int /\ Credit(d)' \in Int
  BY CreditsAreNatural, LaterCreditsAreNatural
<1>2. Tokens' \subseteq Tokens
  BY <1>1 DEF Tokens
<1> QED BY <1>2, TokensFinite, FS_Subset

(* The credit of one client falls by one at least.                         *)
LEMMA TokensSpent ==
  ASSUME IInv, IInv', NEW c \in Clients, Credit(c)' < Credit(c),
         \A d \in Clients : Credit(d)' <= Credit(d)
  PROVE  Cardinality(Tokens') < Cardinality(Tokens)
<1> DEFINE token == <<c, Credit(c)>>
<1>1. \A d \in Clients : Credit(d) \in 0 .. 2 * MaxAttempts /\ Credit(d)' \in 0 .. 2 * MaxAttempts
  BY CreditsAreNatural, LaterCreditsAreNatural
<1>2. MaxAttempts \in Nat
  BY LimitsAssumption
<1>3. token \in Tokens
  BY <1>1, <1>2 DEF Tokens
<1>4. Tokens' \subseteq Tokens \ {token}
  BY <1>1, <1>2 DEF Tokens
<1> HIDE DEF token
<1>5. /\ IsFiniteSet(Tokens \ {token})
      /\ Cardinality(Tokens \ {token}) = Cardinality(Tokens) - 1
  BY <1>3, TokensFinite, FS_RemoveElement
<1>6. Cardinality(Tokens') <= Cardinality(Tokens \ {token})
  BY <1>4, <1>5, FS_Subset
<1> QED BY <1>5, <1>6, TokensFinite

(* The credit of one client grows by one at most.                          *)
LEMMA TokensGiven ==
  ASSUME IInv, IInv', NEW c \in Clients, Credit(c)' <= Credit(c) + 1,
         \A d \in Clients \ {c} : Credit(d)' <= Credit(d)
  PROVE  Cardinality(Tokens') <= Cardinality(Tokens) + 1
<1> DEFINE token == <<c, Credit(c) + 1>>
<1>1. \A d \in Clients : Credit(d) \in 0 .. 2 * MaxAttempts /\ Credit(d)' \in 0 .. 2 * MaxAttempts
  BY CreditsAreNatural, LaterCreditsAreNatural
<1>2. MaxAttempts \in Nat
  BY LimitsAssumption
<1>3. Tokens' \subseteq Tokens \union {token}
  BY <1>1, <1>2 DEF Tokens
<1> HIDE DEF token
<1>4. /\ IsFiniteSet(Tokens \union {token})
      /\ Cardinality(Tokens \union {token}) \in Nat
      /\ Cardinality(Tokens \union {token}) <= Cardinality(Tokens) + 1
  <2>1. IsFiniteSet(Tokens) /\ Cardinality(Tokens) \in Nat
    BY TokensFinite
  <2>2. /\ IsFiniteSet(Tokens \union {token})
        /\ Cardinality(Tokens \union {token})
             = IF token \in Tokens THEN Cardinality(Tokens) ELSE Cardinality(Tokens) + 1
    BY <2>1, FS_AddElement
  <2> QED BY <2>1, <2>2
<1>5. Cardinality(Tokens') <= Cardinality(Tokens \union {token})
  BY <1>3, <1>4, FS_Subset
<1> QED BY <1>4, <1>5, TokensFinite

(* At most all tokens are there, and one less when a client has been told. *)
LEMMA TokensAtMost ==
  ASSUME IInv'
  PROVE  /\ Cardinality(Tokens') <= 2 * MaxAttempts * Cardinality(Clients)
         /\ \A c \in Clients : Credit(c)' < 2 * MaxAttempts =>
              Cardinality(Tokens') < 2 * MaxAttempts * Cardinality(Clients)
<1> DEFINE all == Clients \X (1 .. 2 * MaxAttempts)
<1>1. Tokens' \subseteq all
  BY DEF Tokens
<1>2. ASSUME NEW c \in Clients, Credit(c)' < 2 * MaxAttempts
      PROVE  Cardinality(Tokens') < 2 * MaxAttempts * Cardinality(Clients)
  <2> DEFINE token == <<c, 2 * MaxAttempts>>
  <2>1. MaxAttempts \in Nat \ {0}
    BY LimitsAssumption
  <2>2. token \in all
    BY <2>1
  <2>3. token \notin Tokens'
    <3>1. Tokens' = {t \in all : t[2] <= Credit(t[1])'}
      BY DEF Tokens
    <3>2. SUFFICES ASSUME token \in Tokens' PROVE FALSE
      OBVIOUS
    <3>3. 2 * MaxAttempts <= Credit(c)'
      BY <3>1, <3>2
    <3> QED BY <1>2, <2>1, <3>3, LaterCreditsAreNatural
  <2>4. Tokens' \subseteq all \ {token}
    BY <1>1, <2>3
  <2> HIDE DEF token, all
  <2>5. IsFiniteSet(all) /\ Cardinality(all) = 2 * MaxAttempts * Cardinality(Clients)
    BY TokensFinite DEF all
  <2>6. /\ IsFiniteSet(all \ {token}) /\ Cardinality(all \ {token}) = Cardinality(all) - 1
        /\ Cardinality(all) \in Nat
    BY <2>2, <2>5, FS_RemoveElement, FS_CardinalityType
  <2>7. Cardinality(Tokens') <= Cardinality(all \ {token})
    BY <2>4, <2>6, FS_Subset
  <2> QED BY <2>5, <2>6, <2>7, TokensFinite
<1>3. Cardinality(Tokens') <= 2 * MaxAttempts * Cardinality(Clients)
  BY <1>1, TokensFinite, FS_Subset
<1> QED BY <1>2, <1>3
-----------------------------------------------------------------------------
(* What each step does to the credit.                                      *)
LEMMA TickCredit ==
  ASSUME IInv, Tick, phase + 1 # Window, NEW c \in Clients
  PROVE  Credit(c)' <= Credit(c)
<1>1. /\ pc'[c] = pc[c] /\ attempt'[c] = attempt[c] /\ answer'[c] = answer[c]
      /\ used_weight'[c] = used_weight[c] /\ phase' = phase + 1
      /\ window_age'[c] = IF window_age[c] = Unset \/ window_age[c] = Window
                         THEN window_age[c] ELSE window_age[c] + 1
  <2>1. phase' = phase + 1
    <3>1. phase' = (phase + 1) % Window /\ phase \in Nat /\ Window \in Nat \ {0} /\ phase + 1 < Window
      BY ClientFacts DEF Tick
    <3> QED BY <3>1
  <2> QED BY <2>1 DEF Tick, IInv, TypeOK
<1>2. Rest(c)' = Rest(c) /\ Told(c)' = Told(c)
  BY <1>1 DEF Rest, Told
<1>3. Rest(c) \in Nat /\ Rest(c) <= MaxAttempts /\ (Told(c) => Rest(c) < MaxAttempts)
  BY ClientFacts DEF Rest, Told
<1>4. Old(c)' => Old(c)
  BY <1>1, ClientFacts DEF Old, Unset
<1>5. Aware(c)' => Aware(c)
  BY <1>1, ClientFacts DEF Aware, Unset
<1>6. Aware(c) => Aware(c)' \/ (Old(c) /\ ~Old(c)')
  BY <1>1, ClientFacts DEF Aware, Old, Unset
<1>7. MaxAttempts \in Nat \ {0}
  BY LimitsAssumption
<1> QED BY <1>2, <1>3, <1>4, <1>5, <1>6, <1>7 DEF Credit

LEMMA CallCredit ==
  ASSUME IInv, NEW c \in Clients, NEW is_signed \in BOOLEAN, Call(c, is_signed)
  PROVE  Credit(c)' <= Credit(c)
<1>1. /\ pc[c] = "idle" /\ pc'[c] = "sending" /\ phase' = phase
      /\ Stale(c) \/ used_weight[c] < Threshold
      /\ used_weight'[c] = IF Stale(c) THEN 0 ELSE used_weight[c]
      /\ window_age'[c] = IF Stale(c) THEN Unset ELSE window_age[c]
  BY ClientFacts DEF Call, Expire, Throttled, venue, IInv, TypeOK
<1>2. ~Aware(c) /\ ~Aware(c)' /\ ~Told(c) /\ ~Told(c)' /\ (Old(c)' => Old(c))
  BY <1>1, ClientFacts DEF Aware, Told, Old, Stale, Unset
<1>3. MaxAttempts \in Nat
  BY LimitsAssumption
<1> QED BY <1>2, <1>3 DEF Credit

LEMMA ServeCredit ==
  ASSUME IInv, NEW c \in Clients, NEW status \in Statuses, NEW r \in RetryHeaders,
         NEW reported \in BOOLEAN, Serve(c, status, r, reported), used + Weight >= Threshold
  PROVE  /\ Credit(c)' <= Credit(c)
         /\ reported => Credit(c)' < Credit(c) /\ Credit(c)' < 2 * MaxAttempts
<1>1. /\ pc[c] = "sending" /\ pc'[c] = "answered" /\ phase' = phase /\ attempt'[c] = attempt[c]
      /\ used_weight'[c] = used_weight[c] /\ window_age'[c] = window_age[c]
      /\ answer'[c].header = IF reported THEN used + Weight ELSE Unset
  BY DEF Serve, tracker, IInv, TypeOK
<1>2. used + Weight # Unset /\ ~(used + Weight < Threshold)
  BY ClientFacts DEF Unset
<1>3. (Aware(c)' <=> Aware(c)) /\ (Old(c)' <=> Old(c)) /\ ~Told(c) /\ (Told(c)' <=> reported)
  BY <1>1, <1>2 DEF Aware, Old, Told
<1>4. /\ Rest(c) = MaxAttempts - attempt[c] + 1 /\ Rest(c)' = MaxAttempts - attempt[c]
      /\ attempt[c] \in Nat \ {0} /\ attempt[c] <= MaxAttempts /\ MaxAttempts \in Nat \ {0}
  BY <1>1, ClientFacts DEF Rest
<1> QED BY <1>3, <1>4 DEF Credit

(* An answer with its weight is observed; the call ends or sleeps.         *)
LEMMA ReceiveCredit ==
  ASSUME IInv, NEW c \in Clients, Receive(c)
  PROVE  Credit(c)' <= Credit(c)
<1>1. /\ pc[c] = "answered" /\ phase' = phase /\ Observe(c)
      /\ \/ pc'[c] = "idle"
         \/ pc'[c] = "sleeping" /\ attempt'[c] = attempt[c]
  BY DEF Receive, Finish, EnterBackoff, Sleep, EndCall, venue, IInv, TypeOK
<1>2. /\ attempt[c] \in Nat \ {0} /\ attempt[c] <= MaxAttempts /\ MaxAttempts \in Nat \ {0}
  BY <1>1, ClientFacts
<1>3. Rest(c) = MaxAttempts - attempt[c] /\ Rest(c)' \in {0, MaxAttempts - attempt[c]} /\ ~Told(c)'
  BY <1>1 DEF Rest, Told
<1>4. CASE answer[c].header = Unset
  <2>1. /\ used_weight'[c] = IF Stale(c) THEN 0 ELSE used_weight[c]
        /\ window_age'[c] = IF Stale(c) THEN Unset ELSE window_age[c]
    BY <1>1, <1>4 DEF Observe, Expire, IInv, TypeOK
  <2>2. ~Told(c) /\ (Old(c)' => Old(c)) /\ (Aware(c)' <=> Aware(c))
    <3>1. ~Told(c)
      BY <1>4 DEF Told
    <3>2. pc'[c] # "answered"
      BY <1>1
    <3>3. CASE Stale(c)
      <4>1. window_age[c] >= Window /\ window_age'[c] = Unset
        BY <2>1, <3>3 DEF Stale
      <4> QED BY <3>1, <4>1, ClientFacts DEF Old, Aware
    <3>4. CASE ~Stale(c)
      BY <1>1, <1>4, <2>1, <3>1, <3>2, <3>4 DEF Old, Aware
    <3> QED BY <3>3, <3>4
  <2> QED BY <1>2, <1>3, <2>2 DEF Credit
<1>5. CASE answer[c].header # Unset
  <2>1. /\ used_weight'[c] = answer[c].header
        /\ window_age'[c] = IF window_age[c] = Unset \/ Stale(c) THEN 0 ELSE window_age[c]
    BY <1>1, <1>5 DEF Observe, IInv, TypeOK
  <2>2. Old(c)' => Old(c)
    BY <1>1, <2>1, ClientFacts DEF Old, Stale, Unset
  <2>3. CASE answer[c].header < Threshold
    <3>1. ~Aware(c) /\ ~Aware(c)' /\ ~Told(c)
      BY <1>1, <1>5, <2>1, <2>3, ClientFacts DEF Aware, Told
    <3> QED BY <1>2, <2>2, <1>3, <3>1 DEF Credit
  <2>4. CASE answer[c].header >= Threshold
    <3>1. Told(c)
      BY <1>1, <1>5, <2>4 DEF Told
    <3>2. window_age'[c] # Unset /\ window_age'[c] < Window
      BY <2>1, ClientFacts DEF Stale, Unset
    <3>3. pc'[c] # "answered"
      BY <1>1
    <3>4. Aware(c)'
      BY <2>1, <2>4, <3>2, <3>3 DEF Aware
    <3> QED BY <1>2, <2>2, <1>3, <3>1, <3>4 DEF Credit
  <2> QED BY <1>5, <2>3, <2>4, ClientFacts
<1> QED BY <1>4, <1>5

LEMMA ResendCredit ==
  ASSUME IInv, NEW c \in Clients, Resend(c)
  PROVE  Credit(c)' <= Credit(c)
<1>1. /\ pc[c] = "sleeping" /\ pc'[c] = "sending" /\ phase' = phase /\ attempt'[c] = attempt[c] + 1
      /\ used_weight'[c] = used_weight[c] /\ window_age'[c] = window_age[c]
  BY DEF Resend, venue, tracker, IInv, TypeOK
<1>2. Rest(c)' = Rest(c)
  BY <1>1, ClientFacts DEF Rest
<1>3. (Aware(c)' <=> Aware(c)) /\ (Old(c)' <=> Old(c)) /\ ~Told(c) /\ ~Told(c)'
  BY <1>1 DEF Aware, Old, Told
<1>4. Rest(c) \in Int /\ MaxAttempts \in Int
  BY <1>1, ClientFacts DEF Rest
<1> QED BY <1>2, <1>3, <1>4 DEF Credit

LEMMA LoseCredit ==
  ASSUME IInv, NEW c \in Clients, Lose(c)
  PROVE  Credit(c)' <= Credit(c) + 1
<1>1. /\ pc[c] \in {"sending", "answered"} /\ pc'[c] = "idle" /\ phase' = phase
      /\ used_weight'[c] = used_weight[c] /\ window_age'[c] = window_age[c]
  BY DEF Lose, EndCall, InFlight, tracker, IInv, TypeOK
<1>2. Rest(c)' = 0 /\ Rest(c) \in Nat /\ MaxAttempts \in Nat
  BY <1>1, ClientFacts DEF Rest
<1>3. (Aware(c) => Aware(c)') /\ (Old(c)' <=> Old(c)) /\ ~Told(c)'
  BY <1>1 DEF Aware, Old, Told
<1> QED BY <1>2, <1>3 DEF Credit
-----------------------------------------------------------------------------
LEMMA InitOverrun == Init => OverrunIsPaid
<1> SUFFICES ASSUME Init PROVE OverrunIsPaid
  OBVIOUS
<1>1. used = 0 /\ Threshold \in Nat \ {0}
  BY LimitsAssumption DEF Init
<1> QED BY <1>1 DEF OverrunIsPaid

(* What is allowed, against what was.                                      *)
LEMMA AllowedArithmetic ==
  ASSUME NEW k \in Int, NEW m \in Int, NEW w \in Nat
  PROVE  /\ k * w \in Int /\ m * w \in Int
         /\ (k + 1) * w = k * w + w
         /\ k <= m => k * w <= m * w
<1>1. k * w \in Int /\ m * w \in Int /\ (k + 1) * w = k * w + w
  OBVIOUS
<1>2. ASSUME k <= m PROVE k * w <= m * w
  <2>1. m - k \in Nat
    BY <1>2
  <2>2. (m - k) * w \in Nat
    BY <2>1
  <2>3. m * w = k * w + (m - k) * w
    OBVIOUS
  <2> QED BY <1>1, <2>2, <2>3
<1> QED BY <1>1, <1>2

LEMMA AtLeastOnce ==
  ASSUME NEW m \in Int, NEW w \in Nat, 1 <= m
  PROVE  w <= m * w
<1>1. m - 1 \in Nat
  OBVIOUS
<1>2. (m - 1) * w \in Nat
  BY <1>1
<1> QED BY <1>2

(* Steps that charge nothing.                                              *)
LEMMA FreeSteps ==
  ASSUME IInv, IInv', OverrunIsPaid,
         \/ used' = 0
         \/ used' = used /\ Cardinality(Tokens') - lost' <= Cardinality(Tokens) - lost
  PROVE  OverrunIsPaid'
<1>1. /\ Threshold \in Nat \ {0} /\ Weight \in Nat /\ MaxAttempts \in Nat
      /\ used \in Nat /\ lost \in Nat /\ used' \in Nat /\ lost' \in Nat
      /\ Cardinality(Clients) \in Nat
      /\ Cardinality(Tokens) \in Nat /\ Cardinality(Tokens') \in Nat
  BY LimitsAssumption, ClientsAssumption, FS_CardinalityType, TokensFinite DEF IInv, TypeOK
<1>2. CASE used' = 0
  BY <1>1, <1>2 DEF OverrunIsPaid
<1>3. CASE used' = used /\ Cardinality(Tokens') - lost' <= Cardinality(Tokens) - lost
  <2> DEFINE all == 2 * MaxAttempts * Cardinality(Clients)
  <2>1. all \in Nat
    BY <1>1
  <2>2. Allowed = all + lost - Cardinality(Tokens) /\ Allowed' = all + lost' - Cardinality(Tokens')
    BY DEF Allowed
  <2> HIDE DEF all
  <2>3. Allowed \in Int /\ Allowed' \in Int /\ Allowed <= Allowed'
    BY <1>1, <1>3, <2>1, <2>2
  <2>4. Allowed * Weight <= Allowed' * Weight /\ Allowed * Weight \in Int /\ Allowed' * Weight \in Int
    BY <1>1, <2>3, AllowedArithmetic
  <2>5. SUFFICES ASSUME used >= Threshold PROVE used < Threshold + Allowed' * Weight
    BY <1>3 DEF OverrunIsPaid
  <2>6. used < Threshold + Allowed * Weight
    BY <2>5 DEF OverrunIsPaid
  <2> QED BY <1>1, <2>4, <2>6
<1> QED BY <1>2, <1>3

(* A charge: it spends a token, or the loss of its weight is accounted for. *)
LEMMA ChargeStep ==
  ASSUME IInv, IInv', OverrunIsPaid, NEW c \in Clients, NEW status \in Statuses,
         NEW r \in RetryHeaders, NEW reported \in BOOLEAN, Serve(c, status, r, reported)
  PROVE  OverrunIsPaid'
<1> DEFINE all == 2 * MaxAttempts * Cardinality(Clients)
<1>1. /\ Threshold \in Nat \ {0} /\ Weight \in Nat \ {0} /\ MaxAttempts \in Nat
      /\ used \in Nat /\ lost \in Nat /\ used' = used + Weight
      /\ lost' = IF reported THEN lost ELSE lost + 1
      /\ Cardinality(Clients) \in Nat
      /\ Cardinality(Tokens) \in Nat /\ Cardinality(Tokens') \in Nat
  BY LimitsAssumption, ClientsAssumption, FS_CardinalityType, TokensFinite DEF IInv, TypeOK, Serve
<1>2. SUFFICES ASSUME used + Weight >= Threshold PROVE used + Weight < Threshold + Allowed' * Weight
  BY <1>1 DEF OverrunIsPaid
<1>3. /\ Credit(c)' <= Credit(c)
      /\ reported => Credit(c)' < Credit(c) /\ Credit(c)' < 2 * MaxAttempts
  BY <1>2, ServeCredit
<1>4. ASSUME NEW d \in Clients, d # c PROVE Credit(d)' <= Credit(d)
  <2>1. Credit(d)' = Credit(d)
    BY <1>4, CreditKept DEF Serve, tracker, IInv, TypeOK
  <2>2. Credit(d) \in Int
    BY CreditsAreNatural
  <2> QED BY <2>1, <2>2
<1>5. \A d \in Clients : Credit(d)' <= Credit(d)
  BY <1>3, <1>4
<1>6. all \in Nat
  BY <1>1
<1>7. Allowed = all + lost - Cardinality(Tokens) /\ Allowed' = all + lost' - Cardinality(Tokens')
  BY DEF Allowed
<1>8. CASE used >= Threshold
  <2>1. Cardinality(Tokens') - lost' <= Cardinality(Tokens) - lost - 1
    <3>1. CASE reported
      BY <1>1, <1>3, <1>5, <3>1, TokensSpent
    <3>2. CASE ~reported
      BY <1>1, <1>5, <3>2, TokensKept
    <3> QED BY <3>1, <3>2
  <2> HIDE DEF all
  <2>2. lost' \in Nat
    BY <1>1
  <2>3. Allowed \in Int /\ Allowed' \in Int /\ Allowed + 1 <= Allowed'
    BY <1>1, <1>6, <1>7, <2>1, <2>2
  <2>4. (Allowed + 1) * Weight <= Allowed' * Weight /\ (Allowed + 1) * Weight = Allowed * Weight + Weight
    <3>1. Allowed + 1 \in Int
      BY <2>3
    <3>2. (Allowed + 1) * Weight <= Allowed' * Weight
      BY <1>1, <2>3, <3>1, AllowedArithmetic
    <3>3. (Allowed + 1) * Weight = Allowed * Weight + Weight
      BY <1>1, <2>3, AllowedArithmetic
    <3> QED BY <3>2, <3>3
  <2>5. Allowed * Weight \in Int /\ Allowed' * Weight \in Int
    BY <1>1, <2>3
  <2>6. used < Threshold + Allowed * Weight
    BY <1>8 DEF OverrunIsPaid
  <2> QED BY <1>1, <2>4, <2>5, <2>6
<1>9. CASE used < Threshold
  <2>1. Cardinality(Tokens') - lost' < all
    <3>1. CASE reported
      <4>1. Cardinality(Tokens') < all
        BY <1>3, <3>1, TokensAtMost
      <4> QED BY <1>1, <1>6, <4>1
    <3>2. CASE ~reported
      <4>1. Cardinality(Tokens') <= all
        BY TokensAtMost
      <4> QED BY <1>1, <1>6, <3>2, <4>1
    <3> QED BY <3>1, <3>2
  <2> HIDE DEF all
  <2>2. lost' \in Nat
    BY <1>1
  <2>3. Allowed' \in Int /\ 1 <= Allowed'
    BY <1>1, <1>6, <1>7, <2>1, <2>2
  <2>4. Weight <= Allowed' * Weight /\ Allowed' * Weight \in Int
    <3>1. Weight <= Allowed' * Weight
      BY <1>1, <2>3, AtLeastOnce
    <3>2. Allowed' * Weight \in Int
      BY <1>1, <2>3
    <3> QED BY <3>1, <3>2
  <2> QED BY <1>1, <1>9, <2>4
<1> QED BY <1>1, <1>8, <1>9

LEMMA NextOverrun == IInv /\ IInv' /\ OverrunIsPaid /\ [Next]_vars => OverrunIsPaid'
<1> SUFFICES ASSUME IInv, IInv', OverrunIsPaid, [Next]_vars PROVE OverrunIsPaid'
  OBVIOUS
<1>1. /\ lost \in Int /\ lost' \in Int /\ \A d \in Clients : Credit(d) \in Int
      /\ Cardinality(Tokens) \in Nat /\ Cardinality(Tokens') \in Nat
  BY CreditsAreNatural, TokensFinite DEF IInv, TypeOK
<1>2. CASE Tick
  <2>1. CASE phase + 1 = Window
    <3>1. used' = 0
      BY <1>2, <2>1 DEF Tick
    <3> QED BY <3>1, FreeSteps
  <2>2. CASE phase + 1 # Window
    <3>1. used' = used /\ lost' = lost
      BY <1>2, <2>2 DEF Tick
    <3>2. Cardinality(Tokens') <= Cardinality(Tokens)
      BY <1>2, <2>2, TickCredit, TokensKept
    <3> QED BY <1>1, <3>1, <3>2, FreeSteps
  <2> QED BY <2>1, <2>2
<1>3. ASSUME NEW c \in Clients, used' = used, lost' = lost, Credit(c)' <= Credit(c),
             \A d \in Clients \ {c} : Credit(d)' = Credit(d)
      PROVE  OverrunIsPaid'
  <2>1. \A d \in Clients : Credit(d)' <= Credit(d)
    BY <1>1, <1>3
  <2>2. Cardinality(Tokens') <= Cardinality(Tokens)
    BY <2>1, TokensKept
  <2> QED BY <1>1, <1>3, <2>2, FreeSteps
<1>4. ASSUME NEW c \in Clients, Refuse(c) PROVE OverrunIsPaid'
  <2>1. UNCHANGED tracker
    BY <1>4 DEF Refuse, Expire, Throttled, Stale, tracker, IInv, TypeOK
  <2>2. \A d \in Clients : Credit(d)' = Credit(d)
    BY <1>4, <2>1, CreditKept DEF Refuse, venue, call, tracker
  <2> QED BY <1>1, <1>3, <1>4, <2>2 DEF Refuse, venue
<1>5. ASSUME NEW c \in Clients, NEW is_signed \in BOOLEAN, Call(c, is_signed) PROVE OverrunIsPaid'
  <2>1. \A d \in Clients \ {c} : Credit(d)' = Credit(d)
    BY <1>5, CreditKept DEF Call, Expire, venue, IInv, TypeOK
  <2> QED BY <1>3, <1>5, <2>1, CallCredit DEF Call, venue
<1>6. ASSUME NEW c \in Clients, NEW status \in Statuses, NEW r \in RetryHeaders,
             NEW reported \in BOOLEAN, Serve(c, status, r, reported)
      PROVE  OverrunIsPaid'
  BY <1>6, ChargeStep
<1>7. ASSUME NEW c \in Clients, Receive(c) PROVE OverrunIsPaid'
  <2>1. /\ UNCHANGED venue /\ Observe(c)
        /\ \A d \in Clients \ {c} : pc'[d] = pc[d] /\ attempt'[d] = attempt[d] /\ answer'[d] = answer[d]
    BY <1>7 DEF Receive, Finish, EnterBackoff, Sleep, EndCall, IInv, TypeOK
  <2>2. \A d \in Clients \ {c} : used_weight'[d] = used_weight[d] /\ window_age'[d] = window_age[d]
    BY <2>1 DEF Observe, Expire, IInv, TypeOK
  <2>3. \A d \in Clients \ {c} : Credit(d)' = Credit(d)
    BY <2>1, <2>2, CreditKept DEF venue
  <2> QED BY <1>3, <1>7, <2>1, <2>3, ReceiveCredit DEF venue
<1>8. ASSUME NEW c \in Clients, Resend(c) PROVE OverrunIsPaid'
  <2>1. \A d \in Clients \ {c} : Credit(d)' = Credit(d)
    BY <1>8, CreditKept DEF Resend, venue, tracker, IInv, TypeOK
  <2> QED BY <1>3, <1>8, <2>1, ResendCredit DEF Resend, venue
<1>9. ASSUME NEW c \in Clients, Lose(c) PROVE OverrunIsPaid'
  <2>1. \A d \in Clients \ {c} : Credit(d)' = Credit(d)
    BY <1>9, CreditKept DEF Lose, EndCall, tracker, IInv, TypeOK
  <2>2. \A d \in Clients \ {c} : Credit(d)' <= Credit(d)
    BY <1>1, <2>1
  <2>3. Cardinality(Tokens') <= Cardinality(Tokens) + 1
    BY <1>9, <2>2, LoseCredit, TokensGiven
  <2>4. used' = used /\ lost' = lost + 1
    BY <1>9 DEF Lose
  <2> QED BY <1>1, <2>3, <2>4, FreeSteps
<1>10. CASE UNCHANGED vars
  <2>1. \A d \in Clients : Credit(d)' = Credit(d)
    BY <1>10, CreditKept DEF vars, venue, call, tracker
  <2>2. Cardinality(Tokens') <= Cardinality(Tokens)
    BY <1>1, <2>1, TokensKept
  <2> QED BY <1>1, <1>10, <2>2, FreeSteps DEF vars, venue
<1> QED BY <1>2, <1>4, <1>5, <1>6, <1>7, <1>8, <1>9, <1>10 DEF Next

(* However the clients interleave behind one address, and although retries *)
(* do not ask the tracker and its window runs out of step with the         *)
(* venue's, each client overruns the threshold by two calls at most, and   *)
(* by the requests whose weight was lost.                                  *)
THEOREM OverrunStaysBounded == Spec => []OverrunIsBounded
<1>1. Spec => []OverrunIsPaid
  <2>1. IInv /\ [Next]_vars => IInv'
    BY NextIInv
  <2> QED BY <2>1, InitOverrun, NextOverrun, IInvAlways, PTL DEF Spec
<1>2. ASSUME IInv, OverrunIsPaid PROVE OverrunIsBounded
  <2> DEFINE all == 2 * MaxAttempts * Cardinality(Clients)
  <2>1. /\ Threshold \in Nat \ {0} /\ Weight \in Nat \ {0} /\ MaxAttempts \in Nat \ {0}
        /\ used \in Nat /\ lost \in Nat /\ Cardinality(Clients) \in Nat
        /\ Cardinality(Tokens) \in Nat
    BY <1>2, LimitsAssumption, ClientsAssumption, FS_CardinalityType, TokensFinite DEF IInv, TypeOK
  <2>2. all \in Nat
    BY <2>1
  <2>3. Cardinality(Clients) # 0
    BY ClientsAssumption, FS_EmptySet
  <2>4. all >= 1
    <3>1. 2 * MaxAttempts >= 1 /\ Cardinality(Clients) >= 1
      BY <2>1, <2>3
    <3> QED BY <2>1, <3>1
  <2>5. Allowed = all + lost - Cardinality(Tokens)
    BY DEF Allowed
  <2> HIDE DEF all
  <2>6. (all + lost) * Weight >= 1
    <3>1. all + lost >= 1 /\ all + lost \in Int
      BY <2>1, <2>2, <2>4
    <3>2. 1 * Weight <= (all + lost) * Weight
      BY <2>1, <3>1, AllowedArithmetic
    <3> QED BY <2>1, <3>1, <3>2
  <2>7. Allowed * Weight <= (all + lost) * Weight /\ Allowed * Weight \in Int /\ (all + lost) * Weight \in Int
    <3>1. Allowed \in Int /\ all + lost \in Int /\ Allowed <= all + lost
      BY <2>1, <2>2, <2>5
    <3> QED BY <2>1, <3>1, AllowedArithmetic
  <2>8. used < Threshold + (all + lost) * Weight
    <3>1. CASE used < Threshold
      BY <2>1, <2>6, <2>7, <3>1
    <3>2. CASE used >= Threshold
      BY <1>2, <2>1, <2>7, <3>2 DEF OverrunIsPaid
    <3> QED BY <2>1, <3>1, <3>2
  <2> QED BY <2>8 DEF OverrunIsBounded, all
<1> QED BY <1>1, <1>2, IInvAlways, PTL
-----------------------------------------------------------------------------
(* FeedWatch.  The delay of a reconnect is bounded by nothing here: the    *)
(* provers know no powers of two, and neither guarantee waits for it.      *)

FeedTypeOK ==
  /\ conn \in {"waiting", "up", "closing", "ended"}
  /\ mute \in BOOLEAN /\ busy \in BOOLEAN /\ stopped \in BOOLEAN
  /\ head \in Nat /\ tail \in Nat /\ sent \in Nat
  /\ attempts \in Nat /\ wait \in Int
  /\ idle \in Nat /\ quiet \in Nat
  /\ dog \in {"off", "sleeping", "publishing"} /\ dog_timer \in Nat
  /\ checker \in {"sleeping", "raising", "publishing", "ended"} /\ check_timer \in Nat
  /\ last_seq \in Nat \cup {NoFrame} /\ last_read \in Nat \cup {NoFrame} /\ unnoticed \subseteq Nat
  /\ pending \subseteq Symbols
  /\ age \in [Symbols -> Nat \cup {Unheard}]
  /\ unreported \in [Symbols -> Nat \cup {Unheard}]

(* The number tracked is that of the last frame read. *)
LossesAreNoticed == last_seq = last_read /\ unnoticed = {}

(* The watchdog of a connection is as old as its silence, up to the        *)
(* threshold and a sleep.                                                  *)
DogIsAwake ==
  conn = "up" =>
    /\ quiet = idle
    /\ \/ /\ dog = "sleeping" /\ dog_timer <= CheckEvery
          /\ idle + dog_timer <= StaleAfter + CheckEvery
       \/ /\ dog = "publishing" /\ dog_timer <= PublishTime
          /\ idle <= StaleAfter + CheckEvery + dog_timer

(* A report starts a new silence, data an age and a silence. *)
SilenceIsOld ==
  \A s \in Symbols : /\ unreported[s] <= age[s] \/ age[s] > SymbolStale
                     /\ s \in pending => age[s] # Unheard

(* The time of k publications, those of the other symbols, and the silence *)
(* of a symbol at the end of a check that left it out.                     *)
Load(k) == k * PublishTime
Others  == Cardinality(Symbols) - 1
Passed  == Quietest + Load(Others)

(* A symbol that this check will raise has waited for one more round. *)
Round(s) == IF s \in pending THEN CheckEvery + Load(Others + 1) ELSE 0

(* How long a symbol has been silent, with the publications to come. *)
IsAwaited(s) ==
  /\ checker = "sleeping" => unreported[s] + check_timer <= Passed + CheckEvery
  /\ checker = "raising" => unreported[s] + Load(Cardinality(pending)) <= Passed + Round(s)
  /\ checker = "publishing" =>
       unreported[s] + Load(Cardinality(pending) + 1) <= Passed + check_timer + Round(s)

CheckerIsAwake ==
  /\ checker = "ended" => stopped
  /\ checker = "sleeping" => check_timer <= CheckEvery
  /\ checker = "publishing" => check_timer <= PublishTime
  /\ \A s \in Symbols : IsAwaited(s)

FeedInv == FeedTypeOK /\ LossesAreNoticed /\ DogIsAwake /\ SilenceIsOld /\ CheckerIsAwake
-----------------------------------------------------------------------------
LEMMA FeedConstants ==
  /\ StaleAfter \in Nat /\ SymbolStale \in Nat /\ PublishTime \in Nat
  /\ CheckEvery \in Nat \ {0}
  /\ Quietest \in Nat /\ SymbolStale <= Quietest /\ PublishTime <= Quietest
  /\ IsFiniteSet(Symbols) /\ Cardinality(Symbols) \in Nat
<1>1. /\ StaleAfter \in Nat /\ SymbolStale \in Nat /\ PublishTime \in Nat
      /\ CheckEvery \in Nat \ {0} /\ IsFiniteSet(Symbols)
  BY FeedAssumption
<1>2. Quietest \in Nat /\ SymbolStale <= Quietest /\ PublishTime <= Quietest
  BY <1>1 DEF Quietest
<1> QED BY <1>1, <1>2, FS_CardinalityType

LEMMA LoadFacts ==
  ASSUME NEW k \in Nat
  PROVE  /\ Load(0) = 0 /\ Load(k) \in Nat /\ Load(k + 1) = Load(k) + PublishTime
         /\ \A m \in Nat : k <= m => Load(k) <= Load(m)
<1>1. PublishTime \in Nat
  BY FeedConstants
<1>2. Load(0) = 0 /\ Load(k) \in Nat /\ Load(k + 1) = Load(k) + PublishTime
  BY <1>1 DEF Load
<1>3. ASSUME NEW m \in Nat, k <= m PROVE Load(k) <= Load(m)
  <2>1. m - k \in Nat
    BY <1>3
  <2>2. (m - k) * PublishTime \in Nat
    BY <1>1, <2>1
  <2>3. m * PublishTime = k * PublishTime + (m - k) * PublishTime
    BY <1>1
  <2>4. k * PublishTime \in Nat
    BY <1>1
  <2> QED BY <2>2, <2>3, <2>4 DEF Load
<1> QED BY <1>2, <1>3

(* The symbols to raise, and those but one.                                *)
LEMMA PendingFacts ==
  ASSUME NEW p \in SUBSET Symbols, NEW s \in Symbols
  PROVE  /\ IsFiniteSet(p) /\ Cardinality(p) \in Nat /\ Others \in Nat
         /\ Cardinality(p) <= Others + 1
         /\ s \notin p => Cardinality(p) <= Others
         /\ s \in p => Cardinality(p) = Cardinality(p \ {s}) + 1 /\ Cardinality(p \ {s}) \in Nat
<1>1. IsFiniteSet(Symbols) /\ Cardinality(Symbols) \in Nat
  BY FeedConstants
<1>2. IsFiniteSet(p) /\ Cardinality(p) <= Cardinality(Symbols) /\ Cardinality(p) \in Nat
  BY <1>1, FS_Subset, FS_CardinalityType
<1>3. IsFiniteSet(Symbols \ {s}) /\ Cardinality(Symbols \ {s}) = Cardinality(Symbols) - 1
  BY <1>1, FS_RemoveElement
<1>4. Cardinality(Symbols \ {s}) \in Nat
  BY <1>3, FS_CardinalityType
<1>5. ASSUME s \notin p PROVE Cardinality(p) <= Cardinality(Symbols \ {s})
  <2>1. p \subseteq Symbols \ {s}
    BY <1>5
  <2> QED BY <1>3, <2>1, FS_Subset
<1>6. ASSUME s \in p
      PROVE  Cardinality(p) = Cardinality(p \ {s}) + 1 /\ Cardinality(p \ {s}) \in Nat
  <2>1. IsFiniteSet(p \ {s}) /\ Cardinality(p \ {s}) = Cardinality(p) - 1
    BY <1>2, <1>6, FS_RemoveElement
  <2>2. Cardinality(p \ {s}) \in Nat
    BY <2>1, FS_CardinalityType
  <2> QED BY <1>2, <2>1, <2>2
<1> QED BY <1>1, <1>2, <1>3, <1>4, <1>5, <1>6 DEF Others

(* With a symbol at all there are others, or none. *)
LEMMA PassedFacts ==
  ASSUME NEW s \in Symbols
  PROVE  /\ Others \in Nat /\ Passed \in Nat /\ PublishTime <= Passed
         /\ Load(Others) \in Nat /\ Load(Others + 1) = Load(Others) + PublishTime
<1>1. {} \in SUBSET Symbols
  OBVIOUS
<1>2. Others \in Nat
  BY <1>1, PendingFacts
<1>3. Load(Others) \in Nat /\ Load(Others + 1) = Load(Others) + PublishTime
  BY <1>2, LoadFacts
<1> QED BY <1>2, <1>3, FeedConstants DEF Passed

LEMMA OlderFacts ==
  ASSUME NEW n \in Nat, NEW cap
  PROVE  /\ Older(n, cap) \in Nat /\ n <= Older(n, cap) /\ Older(n, cap) <= n + 1
         /\ n < cap => Older(n, cap) = n + 1
         /\ ~(n < cap) => Older(n, cap) = n
BY DEF Older
-----------------------------------------------------------------------------
LEMMA InitFeed == FeedInit => FeedInv
<1> SUFFICES ASSUME FeedInit PROVE FeedInv
  OBVIOUS
<1>1. FeedTypeOK
  <2>1. /\ age \in [Symbols -> Nat \cup {Unheard}] /\ unreported \in [Symbols -> Nat \cup {Unheard}]
        /\ pending \subseteq Symbols /\ unnoticed \subseteq Nat
    BY DEF FeedInit
  <2>2. check_timer \in Nat
    BY FeedConstants DEF FeedInit
  <2>3. mute \in BOOLEAN /\ busy \in BOOLEAN /\ stopped \in BOOLEAN
    BY DEF FeedInit
  <2>4. /\ conn = "waiting" /\ dog = "off" /\ checker = "sleeping"
        /\ head = 0 /\ tail = 0 /\ sent = 0 /\ attempts = 0 /\ wait = 0
        /\ idle = 0 /\ quiet = 0 /\ dog_timer = 0 /\ last_seq = NoFrame /\ last_read = NoFrame
    BY DEF FeedInit
  <2> QED BY <2>1, <2>2, <2>3, <2>4 DEF FeedTypeOK
<1>2. LossesAreNoticed /\ DogIsAwake
  BY DEF FeedInit, LossesAreNoticed, DogIsAwake
<1>3. SilenceIsOld
  BY DEF FeedInit, SilenceIsOld, Unheard
<1>4. CheckerIsAwake
  <2>1. ASSUME NEW s \in Symbols PROVE unreported[s] + check_timer <= Passed + CheckEvery
    <3>1. Passed \in Nat
      BY PassedFacts
    <3>2. unreported[s] = -1 /\ check_timer = CheckEvery
      BY DEF FeedInit, Unheard
    <3> QED BY <3>1, <3>2, FeedConstants
  <2>2. checker = "sleeping" /\ check_timer = CheckEvery
    BY DEF FeedInit
  <2> QED BY <2>1, <2>2, FeedConstants DEF CheckerIsAwake, IsAwaited
<1> QED BY <1>1, <1>2, <1>3, <1>4 DEF FeedInv

LEMMA NextFeedType == FeedTypeOK /\ [FeedNext]_feedVars => FeedTypeOK'
<1> SUFFICES ASSUME FeedTypeOK, [FeedNext]_feedVars PROVE FeedTypeOK'
  OBVIOUS
<1> USE DEF feedVars, socket, run, clock, watch, numbers, checks, symbols
<1>0. CheckEvery \in Nat
  BY FeedConstants
<1>1. CASE TimePasses
  <2>1. idle' \in Nat /\ quiet' \in Nat /\ wait' \in Int
    BY <1>1, OlderFacts DEF TimePasses, FeedTypeOK
  <2>2. dog_timer' \in Nat /\ check_timer' \in Nat
    BY <1>1 DEF TimePasses, AllAwait, FeedTypeOK
  <2>3. age' \in [Symbols -> Nat \cup {Unheard}] /\ unreported' \in [Symbols -> Nat \cup {Unheard}]
    BY <1>1, OlderFacts DEF TimePasses, FeedTypeOK
  <2> QED BY <1>1, <2>1, <2>2, <2>3 DEF TimePasses, FeedTypeOK
<1>2. CASE Send \/ GoMute \/ Disconnect
  <2>1. CASE Send
    BY <1>2, <2>1 DEF Send, FeedTypeOK
  <2>2. CASE GoMute
    BY <2>2 DEF GoMute, FeedTypeOK
  <2>3. CASE Disconnect
    BY <2>3 DEF Disconnect, Close, FeedTypeOK
  <2> QED BY <1>2, <2>1, <2>2, <2>3
<1>3. ASSUME Reconnect, UNCHANGED <<sent, numbers, symbols, stopped>> PROVE FeedTypeOK'
  <2>1. attempts' \in Nat /\ wait' \in Int
    BY <1>3 DEF Reconnect, BackoffDelay, FeedTypeOK
  <2> QED BY <1>3, <2>1 DEF Reconnect, FeedTypeOK
<1>4. CASE Ends \/ Connects
  <2>1. CASE Ends
    BY <1>0, <2>1 DEF Ends, FeedTypeOK
  <2>2. CASE Connects
    BY <1>0, <2>2 DEF Connects, SequenceAtConnect, FeedTypeOK
  <2> QED BY <1>4, <2>1, <2>2
<1>5. CASE ConnectFails \/ Drained \/ MessageFails
  BY <1>3, <1>5 DEF ConnectFails, Drained, MessageFails
<1>6. ASSUME NEW s \in Symbols, ReadFrame(s) PROVE FeedTypeOK'
  <2>1. /\ last_seq' \in Nat \cup {NoFrame} /\ last_read' \in Nat \cup {NoFrame}
        /\ unnoticed' \subseteq Nat
    BY <1>6 DEF ReadFrame, TrackSequence, FeedTypeOK, NoFrame
  <2> QED BY <1>6, <2>1 DEF ReadFrame, Received, FeedTypeOK
<1>7. CASE ReadBinary \/ MessageHandled \/ Ping
  <2>1. CASE ReadBinary
    BY <2>1 DEF ReadBinary, FeedTypeOK
  <2>2. CASE MessageHandled
    BY <2>2 DEF MessageHandled, FeedTypeOK
  <2>3. CASE Ping
    BY <2>3 DEF Ping, IdleAfterPing, FeedTypeOK
  <2> QED BY <1>7, <2>1, <2>2, <2>3
<1>8. CASE DogChecks \/ DogCloses
  <2>1. CASE DogChecks
    BY <1>0, <2>1 DEF DogChecks, FeedTypeOK
  <2>2. CASE DogCloses
    BY <1>0, <2>2 DEF DogCloses, Close, FeedTypeOK
  <2> QED BY <1>8, <2>1, <2>2
<1>9. CASE CheckSymbols \/ StalePublished \/ EndCheck
  <2>1. CASE CheckSymbols
    BY <1>0, <2>1 DEF CheckSymbols, FeedTypeOK
  <2>2. CASE StalePublished
    BY <1>0, <2>2 DEF StalePublished, FeedTypeOK
  <2>3. CASE EndCheck
    BY <1>0, <2>3 DEF EndCheck, FeedTypeOK
  <2> QED BY <1>9, <2>1, <2>2, <2>3
<1>10. ASSUME NEW s \in Symbols, RaiseStale(s) PROVE FeedTypeOK'
  BY <1>10 DEF RaiseStale, FeedTypeOK
<1>11. CASE Stop \/ UNCHANGED feedVars
  BY <1>11 DEF Stop, FeedTypeOK
<1> QED BY <1>1, <1>2, <1>4, <1>5, <1>6, <1>7, <1>8, <1>9, <1>10, <1>11
        DEF FeedNext, Client, Dog, Checker

(* Only a frame that is read moves the number, and it moves both.          *)
LEMMA NextNumbers == FeedTypeOK /\ LossesAreNoticed /\ [FeedNext]_feedVars => LossesAreNoticed'
<1> SUFFICES ASSUME FeedTypeOK, LossesAreNoticed, [FeedNext]_feedVars PROVE LossesAreNoticed'
  OBVIOUS
<1>1. ASSUME NEW s \in Symbols, ReadFrame(s) PROVE LossesAreNoticed'
  BY <1>1 DEF ReadFrame, TrackSequence, FeedTypeOK, LossesAreNoticed, NoFrame
<1>2. CASE Connects
  BY <1>2 DEF Connects, SequenceAtConnect, LossesAreNoticed
<1>3. CASE UNCHANGED numbers
  BY <1>3 DEF numbers, LossesAreNoticed
<1> QED BY <1>1, <1>2, <1>3
        DEF FeedNext, Client, Dog, Checker, TimePasses, Send, GoMute, Disconnect, Close, Ends,
            ConnectFails, Drained, MessageFails, ReadBinary, MessageHandled, Ping, DogChecks,
            DogCloses, CheckSymbols, RaiseStale, StalePublished, EndCheck, Stop, feedVars

LEMMA NextDog == FeedTypeOK /\ DogIsAwake /\ [FeedNext]_feedVars => DogIsAwake'
<1> SUFFICES ASSUME FeedTypeOK, DogIsAwake, [FeedNext]_feedVars PROVE DogIsAwake'
  OBVIOUS
<1> USE FeedConstants DEF feedVars, socket, run, clock, watch, symbols
<1>1. CASE TimePasses
  <2>1. CASE conn = "up"
    <3>1. /\ quiet' = idle' /\ idle' \in Nat /\ idle' <= idle + 1
          /\ dog' = dog /\ conn' = conn /\ idle \in Nat /\ dog_timer \in Nat
      BY <1>1, <2>1, OlderFacts DEF TimePasses, FeedTypeOK, DogIsAwake
    <3>2. CASE dog = "sleeping"
      BY <1>1, <2>1, <3>1, <3>2 DEF TimePasses, AllAwait, DogIsAwake
    <3>3. CASE dog = "publishing"
      BY <1>1, <2>1, <3>1, <3>3 DEF TimePasses, AllAwait, DogIsAwake
    <3> QED BY <2>1, <3>2, <3>3 DEF DogIsAwake
  <2>2. CASE conn # "up"
    BY <1>1, <2>2 DEF TimePasses, DogIsAwake
  <2> QED BY <2>1, <2>2
<1>2. CASE Connects
  BY <1>2 DEF Connects, DogIsAwake
<1>3. ASSUME NEW s \in Symbols, ReadFrame(s) PROVE DogIsAwake'
  BY <1>3 DEF ReadFrame, DogIsAwake, FeedTypeOK
<1>4. CASE ReadBinary
  BY <1>4 DEF ReadBinary, DogIsAwake, FeedTypeOK
<1>5. CASE DogChecks
  BY <1>5 DEF DogChecks, DogIsAwake, FeedTypeOK
<1>6. CASE conn' # "up"
  BY <1>6 DEF DogIsAwake
<1>7. CASE UNCHANGED <<conn, clock, watch>>
  BY <1>7 DEF DogIsAwake
<1> QED BY <1>1, <1>2, <1>3, <1>4, <1>5, <1>6, <1>7
        DEF FeedNext, Client, Dog, Checker, Send, GoMute, Disconnect, Close, Ends, Reconnect,
            ConnectFails, Drained, MessageFails, MessageHandled, Ping, IdleAfterPing,
            DogCloses, CheckSymbols, RaiseStale, StalePublished, EndCheck, Stop

LEMMA NextSilence == FeedTypeOK /\ SilenceIsOld /\ [FeedNext]_feedVars => SilenceIsOld'
<1> SUFFICES ASSUME FeedTypeOK, SilenceIsOld, [FeedNext]_feedVars PROVE SilenceIsOld'
  OBVIOUS
<1>1. CASE TimePasses
  <2> SUFFICES ASSUME NEW s \in Symbols
               PROVE  /\ unreported'[s] <= age'[s] \/ age'[s] > SymbolStale
                      /\ s \in pending' => age'[s] # Unheard
    BY DEF SilenceIsOld
  <2>1. /\ unreported'[s] = IF unreported[s] = Unheard THEN Unheard ELSE Older(unreported[s], ReportWithin + 1)
        /\ age'[s] = IF age[s] = Unheard THEN Unheard ELSE Older(age[s], SymbolStale + 1)
        /\ pending' = pending /\ SymbolStale \in Nat
        /\ age[s] \in Nat \cup {Unheard} /\ unreported[s] \in Nat \cup {Unheard}
    BY <1>1, FeedConstants DEF TimePasses, FeedTypeOK
  <2>2. CASE age[s] = Unheard
    BY <2>1, <2>2 DEF SilenceIsOld, Unheard
  <2>3. CASE age[s] # Unheard
    <3>1. /\ age[s] \in Nat /\ age'[s] \in Nat /\ age[s] <= age'[s]
          /\ age[s] < SymbolStale + 1 => age'[s] = age[s] + 1
      BY <2>1, <2>3, OlderFacts
    <3>2. /\ unreported'[s] \in Nat \cup {Unheard}
          /\ unreported[s] # Unheard => unreported'[s] <= unreported[s] + 1
          /\ unreported[s] = Unheard => unreported'[s] = Unheard
      BY <2>1, OlderFacts
    <3>3. unreported[s] <= age[s] \/ age[s] > SymbolStale
      BY DEF SilenceIsOld
    <3> QED BY <2>1, <3>1, <3>2, <3>3 DEF Unheard
  <2> QED BY <2>2, <2>3
<1>2. ASSUME NEW s \in Symbols, ReadFrame(s) PROVE SilenceIsOld'
  BY <1>2 DEF ReadFrame, Received, checks, FeedTypeOK, SilenceIsOld, Unheard
<1>3. CASE CheckSymbols
  <2>1. age' = age /\ unreported' = unreported
        /\ \A s \in Symbols : s \in pending' => s \in pending \/ age[s] > SymbolStale
    BY <1>3 DEF CheckSymbols
  <2>2. SymbolStale \in Nat
    BY FeedConstants
  <2> QED BY <2>1, <2>2 DEF FeedTypeOK, SilenceIsOld, Unheard
<1>4. ASSUME NEW r \in Symbols, RaiseStale(r) PROVE SilenceIsOld'
  <2> SUFFICES ASSUME NEW s \in Symbols
               PROVE  /\ unreported'[s] <= age'[s] \/ age'[s] > SymbolStale
                      /\ s \in pending' => age'[s] # Unheard
    BY DEF SilenceIsOld
  <2>1. /\ age' = age /\ pending' \subseteq pending /\ r \in pending
        /\ unreported'[s] = IF s = r THEN 0 ELSE unreported[s]
        /\ age[s] \in Nat \cup {Unheard}
    BY <1>4 DEF RaiseStale, FeedTypeOK
  <2> QED BY <2>1 DEF SilenceIsOld, Unheard
<1>5. CASE UNCHANGED <<age, pending, unreported>>
  BY <1>5 DEF SilenceIsOld
<1> QED BY <1>1, <1>2, <1>3, <1>4, <1>5
        DEF FeedNext, Client, Dog, Checker, Send, GoMute, Disconnect, Connects, Ends,
            ConnectFails, Drained, MessageFails, ReadBinary, MessageHandled, Ping, DogChecks,
            DogCloses, StalePublished, EndCheck, Stop, feedVars, symbols, checks

(* A symbol just heard or just reported can wait. *)
LEMMA FreshIsAwaited ==
  ASSUME FeedTypeOK, NEW s \in Symbols
  PROVE  /\ Load(Cardinality(pending)) <= Passed + Round(s)
         /\ Load(Cardinality(pending) + 1) <= Passed + Round(s)
         /\ Round(s) \in Nat
<1> DEFINE c == Cardinality(pending)
<1>1. /\ c \in Nat /\ c <= Others + 1 /\ (s \notin pending => c <= Others)
  BY PendingFacts DEF FeedTypeOK
<1> HIDE DEF c
<1>2. /\ Others \in Nat /\ Passed \in Nat /\ PublishTime \in Nat /\ PublishTime <= Quietest
      /\ Quietest \in Nat /\ CheckEvery \in Nat
      /\ Load(Others) \in Nat /\ Load(Others + 1) = Load(Others) + PublishTime
      /\ Passed = Quietest + Load(Others)
  BY PassedFacts, FeedConstants DEF Passed
<1>3. Load(c) \in Nat /\ Load(c + 1) = Load(c) + PublishTime
  BY <1>1, LoadFacts
<1>4. Load(c) <= Load(Others + 1) /\ (s \notin pending => Load(c) <= Load(Others))
  <2>1. Others + 1 \in Nat
    BY <1>2
  <2>2. \A m \in Nat : c <= m => Load(c) <= Load(m)
    BY <1>1, LoadFacts
  <2> QED BY <1>1, <1>2, <2>1, <2>2
<1>5. Round(s) \in Nat
  BY <1>2 DEF Round
<1>6. CASE s \in pending
  <2>1. Round(s) = CheckEvery + Load(Others) + PublishTime
    BY <1>2, <1>6 DEF Round
  <2> QED BY <1>2, <1>3, <1>4, <1>5, <2>1 DEF c
<1>7. CASE s \notin pending
  BY <1>2, <1>3, <1>4, <1>5, <1>7 DEF c
<1> QED BY <1>6, <1>7

LEMMA NextChecker ==
  FeedTypeOK /\ FeedTypeOK' /\ SilenceIsOld /\ CheckerIsAwake /\ [FeedNext]_feedVars
    => CheckerIsAwake'
<1> SUFFICES ASSUME FeedTypeOK, FeedTypeOK', SilenceIsOld, CheckerIsAwake, [FeedNext]_feedVars
             PROVE  CheckerIsAwake'
  OBVIOUS
<1>1. CASE TimePasses
  <2>1. /\ checker' = checker /\ pending' = pending /\ stopped' = stopped
        /\ checker = "sleeping" => check_timer' = check_timer - 1
        /\ checker = "publishing" => check_timer' = check_timer + 1 /\ check_timer < PublishTime
        /\ checker # "raising"
        /\ check_timer \in Nat /\ check_timer' \in Nat
    BY <1>1 DEF TimePasses, AllAwait, FeedTypeOK
  <2>2. ASSUME NEW s \in Symbols PROVE IsAwaited(s)'
    <3>1. unreported'[s] \in Int /\ unreported[s] \in Int /\ unreported'[s] <= unreported[s] + 1
      BY <1>1, OlderFacts DEF TimePasses, FeedTypeOK, Unheard
    <3>2. Passed \in Nat /\ Round(s) \in Nat /\ Round(s)' = Round(s) /\ CheckEvery \in Nat
      BY <2>1, PassedFacts, FreshIsAwaited, FeedConstants DEF Round
    <3>3. Load(Cardinality(pending) + 1) \in Nat
      <4>1. Cardinality(pending) \in Nat
        BY PendingFacts DEF FeedTypeOK
      <4>2. Cardinality(pending) + 1 \in Nat
        BY <4>1
      <4> QED BY <4>2, LoadFacts
    <3>4. IsAwaited(s)
      BY DEF CheckerIsAwake
    <3>5. CASE checker = "sleeping"
      BY <2>1, <3>1, <3>2, <3>4, <3>5 DEF IsAwaited
    <3>6. CASE checker = "publishing"
      BY <2>1, <3>1, <3>2, <3>3, <3>4, <3>6 DEF IsAwaited
    <3> QED BY <2>1, <3>5, <3>6 DEF IsAwaited
  <2>3. PublishTime \in Nat /\ CheckEvery \in Nat
    BY FeedConstants
  <2> QED BY <2>1, <2>2, <2>3 DEF CheckerIsAwake
<1>2. ASSUME NEW r \in Symbols, ReadFrame(r) PROVE CheckerIsAwake'
  <2>1. /\ UNCHANGED <<checker, check_timer, pending, stopped>> /\ check_timer \in Nat
        /\ \A s \in Symbols : unreported'[s] = IF s = r THEN 0 ELSE unreported[s]
    BY <1>2 DEF ReadFrame, checks, FeedTypeOK
  <2>2. ASSUME NEW s \in Symbols PROVE IsAwaited(s)'
    <3>1. IsAwaited(s) /\ (checker = "sleeping" => check_timer <= CheckEvery)
      BY DEF CheckerIsAwake
    <3>2. CASE s # r
      BY <2>1, <3>1, <3>2 DEF IsAwaited, Round
    <3>3. CASE s = r
      <4>1. /\ Load(Cardinality(pending)) <= Passed + Round(s) /\ Round(s) \in Nat
            /\ Load(Cardinality(pending) + 1) <= Passed + Round(s)
        BY FreshIsAwaited
      <4>2. Passed \in Nat /\ CheckEvery \in Nat
        BY PassedFacts, FeedConstants
      <4>3. /\ Load(Cardinality(pending)) \in Nat /\ Load(Cardinality(pending) + 1) \in Nat
        <5>1. Cardinality(pending) \in Nat
          BY PendingFacts DEF FeedTypeOK
        <5>2. Cardinality(pending) + 1 \in Nat
          BY <5>1
        <5> QED BY <5>1, <5>2, LoadFacts
      <4>4. unreported'[s] = 0 /\ Round(s)' = Round(s) /\ Cardinality(pending)' = Cardinality(pending)
        BY <2>1, <3>3 DEF Round
      <4> QED BY <2>1, <3>1, <4>1, <4>2, <4>3, <4>4 DEF IsAwaited
    <3> QED BY <3>2, <3>3
  <2> QED BY <2>1, <2>2 DEF CheckerIsAwake
<1>3. CASE CheckSymbols
  <2>1. CASE stopped
    BY <1>3, <2>1 DEF CheckSymbols, CheckerIsAwake, IsAwaited
  <2>2. CASE ~stopped
    <3>1. /\ checker = "sleeping" /\ check_timer = 0 /\ checker' = "raising"
          /\ pending' = {s \in Symbols : age[s] > SymbolStale} /\ unreported' = unreported
      BY <1>3, <2>2 DEF CheckSymbols
    <3> DEFINE c == Cardinality(pending')
    <3>2. ASSUME NEW s \in Symbols PROVE unreported[s] + Load(c) <= Passed + Round(s)'
      <4>1. c \in Nat /\ c <= Others + 1 /\ (s \notin pending' => c <= Others)
        BY PendingFacts DEF FeedTypeOK
      <4>2. /\ Others \in Nat /\ Quietest \in Nat /\ SymbolStale \in Nat /\ SymbolStale <= Quietest
            /\ CheckEvery \in Nat /\ Load(Others) \in Nat /\ Passed = Quietest + Load(Others)
            /\ Load(Others + 1) = Load(Others) + PublishTime /\ PublishTime \in Nat
        BY PassedFacts, FeedConstants DEF Passed
      <4>3. unreported[s] \in Int /\ age[s] \in Int
        BY DEF FeedTypeOK, Unheard
      <4> HIDE DEF c
      <4>4. /\ Load(c) \in Nat /\ Load(c) <= Load(Others + 1)
            /\ s \notin pending' => Load(c) <= Load(Others)
        <5>1. Others + 1 \in Nat
          BY <4>2
        <5> QED BY <4>1, <4>2, <5>1, LoadFacts
      <4>5. CASE s \in pending'
        <5>1. Round(s)' = CheckEvery + Load(Others + 1)
          BY <4>5 DEF Round
        <5>2. unreported[s] <= Passed + CheckEvery
          BY <3>1, <4>3 DEF CheckerIsAwake, IsAwaited
        <5> QED BY <4>2, <4>3, <4>4, <5>1, <5>2
      <4>6. CASE s \notin pending'
        <5>1. Round(s)' = 0
          BY <4>6 DEF Round
        <5>2. unreported[s] <= SymbolStale
          BY <3>1, <4>2, <4>3, <4>6 DEF SilenceIsOld
        <5> QED BY <4>2, <4>3, <4>4, <4>6, <5>1, <5>2
      <4> QED BY <4>5, <4>6
    <3> QED BY <3>1, <3>2 DEF CheckerIsAwake, IsAwaited
  <2> QED BY <2>1, <2>2
<1>4. ASSUME NEW r \in Symbols, RaiseStale(r) PROVE CheckerIsAwake'
  <2>1. /\ checker = "raising" /\ checker' = "publishing" /\ check_timer' = 0
        /\ r \in pending /\ pending' = pending \ {r}
        /\ \A s \in Symbols : unreported'[s] = IF s = r THEN 0 ELSE unreported[s]
    BY <1>4 DEF RaiseStale, FeedTypeOK
  <2>2. Cardinality(pending) = Cardinality(pending') + 1 /\ Cardinality(pending') \in Nat
    BY <2>1, PendingFacts DEF FeedTypeOK
  <2>3. ASSUME NEW s \in Symbols
        PROVE  unreported'[s] + Load(Cardinality(pending') + 1) <= Passed + Round(s)'
    <3>1. CASE s # r
      <4>1. unreported[s] + Load(Cardinality(pending)) <= Passed + Round(s)
        BY <2>1 DEF CheckerIsAwake, IsAwaited
      <4>2. Round(s)' = Round(s)
        BY <2>1, <3>1 DEF Round
      <4> QED BY <2>1, <2>2, <3>1, <4>1, <4>2
    <3>2. CASE s = r
      <4> DEFINE c == Cardinality(pending')
      <4>1. c \in Nat /\ c <= Others
        BY <2>1, <3>2, PendingFacts DEF FeedTypeOK
      <4>2. /\ Others \in Nat /\ Quietest \in Nat /\ PublishTime \in Nat /\ PublishTime <= Quietest
            /\ Load(Others) \in Nat /\ Passed = Quietest + Load(Others)
        BY PassedFacts, FeedConstants DEF Passed
      <4>3. unreported'[s] = 0 /\ Round(s)' = 0
        BY <2>1, <3>2 DEF Round
      <4> HIDE DEF c
      <4>4. Load(c) \in Nat /\ Load(c + 1) = Load(c) + PublishTime /\ Load(c) <= Load(Others)
        BY <4>1, <4>2, LoadFacts
      <4>5. 0 + Load(c + 1) <= Passed + 0
        BY <4>2, <4>4
      <4> QED BY <4>3, <4>5 DEF c
    <3> QED BY <3>1, <3>2
  <2>4. PublishTime \in Nat /\ \A s \in Symbols : Passed \in Nat
    BY FeedConstants, PassedFacts
  <2>5. ASSUME NEW s \in Symbols PROVE IsAwaited(s)'
    BY <2>1, <2>3, <2>4 DEF IsAwaited
  <2> QED BY <2>1, <2>4, <2>5 DEF CheckerIsAwake
<1>5. CASE StalePublished
  <2>1. /\ checker = "publishing" /\ checker' = "raising"
        /\ UNCHANGED <<pending, unreported>> /\ check_timer \in Nat
    BY <1>5 DEF StalePublished, FeedTypeOK
  <2>2. ASSUME NEW s \in Symbols PROVE IsAwaited(s)'
    <3>1. check_timer <= PublishTime /\ PublishTime \in Nat
      BY <2>1, FeedConstants DEF CheckerIsAwake
    <3>2. unreported[s] + Load(Cardinality(pending) + 1) <= Passed + check_timer + Round(s)
      BY <2>1 DEF CheckerIsAwake, IsAwaited
    <3>3. /\ Load(Cardinality(pending)) \in Nat
          /\ Load(Cardinality(pending) + 1) = Load(Cardinality(pending)) + PublishTime
      BY PendingFacts, LoadFacts DEF FeedTypeOK
    <3>4. unreported[s] \in Int /\ Passed \in Nat /\ Round(s) \in Nat
      BY PassedFacts, FreshIsAwaited DEF FeedTypeOK, Unheard
    <3>5. unreported[s] + Load(Cardinality(pending)) <= Passed + Round(s)
      BY <2>1, <3>1, <3>2, <3>3, <3>4
    <3> QED BY <2>1, <3>5 DEF IsAwaited, Round
  <2> QED BY <2>1, <2>2 DEF CheckerIsAwake
<1>6. CASE EndCheck
  <2>1. CASE stopped
    BY <1>6, <2>1 DEF EndCheck, CheckerIsAwake, IsAwaited
  <2>2. CASE ~stopped
    <3>1. /\ checker = "raising" /\ pending = {} /\ unreported' = unreported
          /\ checker' = "sleeping" /\ check_timer' = CheckEvery
      BY <1>6, <2>2 DEF EndCheck
    <3>2. CheckEvery \in Nat
      BY FeedConstants
    <3>3. ASSUME NEW s \in Symbols PROVE IsAwaited(s)'
      <4>1. unreported[s] + Load(Cardinality(pending)) <= Passed + Round(s)
        BY <3>1 DEF CheckerIsAwake, IsAwaited
      <4>2. Cardinality(pending) = 0 /\ Load(0) = 0 /\ Round(s) = 0
        BY <3>1, FS_EmptySet, LoadFacts DEF Round
      <4>3. unreported[s] \in Int /\ Passed \in Nat
        BY PassedFacts DEF FeedTypeOK, Unheard
      <4>4. unreported[s] + CheckEvery <= Passed + CheckEvery
        BY <3>2, <4>1, <4>2, <4>3
      <4> QED BY <3>1, <4>4 DEF IsAwaited
    <3> QED BY <3>1, <3>2, <3>3 DEF CheckerIsAwake
  <2> QED BY <2>1, <2>2
<1>7. CASE Stop \/ UNCHANGED <<symbols, stopped>>
  BY <1>7 DEF Stop, symbols, checks, CheckerIsAwake, IsAwaited, Round
<1> QED BY <1>1, <1>2, <1>3, <1>4, <1>5, <1>6, <1>7
        DEF FeedNext, Client, Dog, Checker, Send, GoMute, Disconnect, Connects, Ends,
            ConnectFails, Drained, MessageFails, ReadBinary, MessageHandled, Ping, DogChecks,
            DogCloses, feedVars

LEMMA FeedInvAlways == FeedSpec => []FeedInv
<1>1. FeedInv /\ [FeedNext]_feedVars => FeedInv'
  BY NextFeedType, NextNumbers, NextDog, NextSilence, NextChecker DEF FeedInv
<1> QED BY <1>1, InitFeed, PTL DEF FeedSpec

(* The client, its watchdogs and the venue stay in their types, for any    *)
(* symbols, thresholds and times.                                          *)
THEOREM FeedTypeCorrect == FeedSpec => []FeedTypeOK
<1>1. FeedInv => FeedTypeOK
  BY DEF FeedInv
<1> QED BY <1>1, FeedInvAlways, PTL

(* However connections end, _last_sequence passes over no lost frame in    *)
(* silence: _track_sequence compares across them.                          *)
THEOREM LossesAreLogged == FeedSpec => []NoSilentLoss
<1>1. FeedInv => NoSilentLoss
  BY DEF FeedInv, LossesAreNoticed, NoSilentLoss
<1> QED BY <1>1, FeedInvAlways, PTL

(* A quiet connection is closed, and a silent symbol reported, within a    *)
(* time that the thresholds, the check interval and the publications       *)
(* before it bound, whatever the other tasks of the loop await.            *)
THEOREM SilenceIsActedOn == FeedSpec => []SilenceIsReported
<1>1. ASSUME FeedInv PROVE SilenceIsReported
  <2>1. ASSUME conn = "up" PROVE quiet <= CloseWithin
    <3>1. idle \in Nat /\ dog_timer \in Nat /\ StaleAfter \in Nat /\ CheckEvery \in Nat /\ PublishTime \in Nat
      BY <1>1, FeedConstants DEF FeedInv, FeedTypeOK
    <3> QED BY <1>1, <2>1, <3>1 DEF FeedInv, DogIsAwake, CloseWithin
  <2>2. ASSUME ~stopped, NEW s \in Symbols PROVE unreported[s] <= ReportWithin
    <3> DEFINE c == Cardinality(pending)
    <3>1. /\ unreported[s] \in Int /\ check_timer \in Nat /\ pending \subseteq Symbols
          /\ checker \in {"sleeping", "raising", "publishing"}
      BY <1>1, <2>2 DEF FeedInv, FeedTypeOK, CheckerIsAwake, Unheard
    <3>2. /\ c \in Nat /\ (s \in pending => c >= 1)
      <4>1. c \in Nat /\ (s \in pending => c = Cardinality(pending \ {s}) + 1 /\ Cardinality(pending \ {s}) \in Nat)
        BY <3>1, PendingFacts
      <4> QED BY <4>1
    <3>3. /\ Others \in Nat /\ Quietest \in Nat /\ PublishTime \in Nat /\ CheckEvery \in Nat
          /\ Load(Others) \in Nat /\ Load(Others + 1) = Load(Others) + PublishTime
          /\ Passed = Quietest + Load(Others)
      BY PassedFacts, FeedConstants DEF Passed
    <3>4. /\ IsAwaited(s) /\ (checker = "publishing" => check_timer <= PublishTime)
      BY <1>1 DEF FeedInv, CheckerIsAwake
    <3>5. ReportWithin = Quietest + CheckEvery + Load(Others) + Load(Others)
      <4>1. 2 * Others * PublishTime = Others * PublishTime + Others * PublishTime
        BY <3>3
      <4> QED BY <3>3, <4>1 DEF ReportWithin, Others, Load
    <3> HIDE DEF c
    <3>6. /\ Load(c) \in Nat /\ Load(c + 1) = Load(c) + PublishTime
          /\ s \in pending => Load(c) >= PublishTime
      <4>1. Load(0) = 0 /\ Load(0 + 1) = Load(0) + PublishTime
        BY LoadFacts
      <4>2. Load(1) = PublishTime
        BY <3>3, <4>1
      <4>3. c >= 1 => Load(1) <= Load(c)
        BY <3>2, LoadFacts
      <4> QED BY <3>2, <3>3, <4>2, <4>3, LoadFacts
    <3>7. Round(s) = IF s \in pending THEN CheckEvery + Load(Others) + PublishTime ELSE 0
      BY <3>3 DEF Round
    <3>8. CASE checker = "sleeping"
      BY <3>1, <3>3, <3>4, <3>5, <3>8 DEF IsAwaited
    <3>9. CASE checker = "raising"
      <4>1. unreported[s] + Load(c) <= Passed + Round(s)
        BY <3>4, <3>9 DEF IsAwaited, c
      <4> QED BY <3>1, <3>3, <3>5, <3>6, <3>7, <4>1
    <3>10. CASE checker = "publishing"
      <4>1. unreported[s] + Load(c + 1) <= Passed + check_timer + Round(s)
        BY <3>4, <3>10 DEF IsAwaited, c
      <4> QED BY <3>1, <3>3, <3>4, <3>5, <3>6, <3>7, <3>10, <4>1
    <3> QED BY <3>1, <3>8, <3>9, <3>10
  <2> QED BY <2>1, <2>2 DEF SilenceIsReported
<1> QED BY <1>1, FeedInvAlways, PTL
=============================================================================
