----------------------------- MODULE FeedWatch -----------------------------
(***************************************************************************)
(* Who notices that a feed has gone quiet                                  *)
(* (infrastructure/venues/binance/websocket_client.py,                     *)
(* staleness_watchdog.py): the read loop of BinanceWebSocketClient, the    *)
(* heartbeat and the stale watchdog of its connection, and the             *)
(* SymbolStalenessWatchdog, which knows no connection, are tasks of one    *)
(* event loop that awaits callbacks, publications and sleeps.              *)
(*                                                                         *)
(* The venue numbers its frames; those of a connection arrive in order, so *)
(* the unread ones are head .. tail - 1.  A connection may go mute (half   *)
(* open): it delivers nothing more and does not close.  Time passes in     *)
(* ticks, and every age stops at a cap past which nothing changes.  A      *)
(* publication takes up to PublishTime ticks and does not raise, the       *)
(* message callback any time.                                              *)
(***************************************************************************)
EXTENDS Integers, FiniteSets

CONSTANTS
  Symbols,         \* symbols of the stream
  StaleAfter,      \* stale_threshold_seconds of the connection
  SymbolStale,     \* threshold_seconds of the symbol watchdog
  CheckEvery,      \* the check interval of both
  PublishTime,     \* bound on the time of a publication
  InitialBackoff, MaxBackoff,
  MaxFrames        \* bound on the frames the venue sends

ASSUME FeedAssumption ==
  /\ IsFiniteSet(Symbols)
  /\ {StaleAfter, SymbolStale, PublishTime, MaxFrames} \subseteq Nat
  /\ {CheckEvery, InitialBackoff} \subseteq Nat \ {0}
  /\ MaxBackoff \in Nat /\ MaxBackoff >= InitialBackoff

VARIABLES
  \* the connection
  conn,        \* "waiting" (to connect), "up", "closing", "ended"
  mute,        \* an open connection that delivers nothing
  head, tail,  \* the unread frames of the connection
  sent,        \* frames the venue has numbered, 0 .. sent - 1
  \* BinanceWebSocketClient
  attempts,    \* attempt of run(), until the delay stops growing
  wait,        \* "waiting": ticks left of the backoff
  busy,        \* the read loop awaits on_message
  idle,        \* ticks since _last_message_at
  dog,         \* the stale watchdog: "off", "sleeping" or "publishing"
  dog_timer,   \* ticks left of its sleep, or spent publishing
  last_seq,    \* _last_sequence, NoFrame for None
  \* SymbolStalenessWatchdog
  age,         \* ticks since _last_received_at, Unheard without
  checker,     \* its loop: "sleeping", "raising", "publishing" or "ended"
  check_timer, \* ticks left of its sleep, or spent publishing
  pending,     \* stale symbols of this check that are still to be raised
  stopped,     \* stop() of both
  \* history
  quiet,       \* ticks since the connection delivered a frame
  last_read,   \* the last numbered frame read
  unnoticed,   \* frames that were lost and passed over without a warning
  unreported   \* ticks since a frame or an alarm of the symbol

clock    == <<idle, quiet>>
socket   == <<conn, mute, head, tail, sent>>
run      == <<attempts, wait>>
watch    == <<dog, dog_timer>>
numbers  == <<last_seq, last_read, unnoticed>>
checks   == <<checker, check_timer, pending>>
symbols  == <<age, checks, unreported>>
feedVars == <<socket, run, busy, clock, watch, numbers, symbols, stopped>>
-----------------------------------------------------------------------------
NoFrame == -1
Unheard == -1

(* A symbol has been silent this long when a check leaves it out, or when  *)
(* the publication of its own last report ends.                            *)
Quietest == IF SymbolStale < PublishTime THEN PublishTime ELSE SymbolStale

(* A connection is closed, and a symbol reported, within these times. *)
CloseWithin  == StaleAfter + CheckEvery + PublishTime
ReportWithin == Quietest + CheckEvery + 2 * (Cardinality(Symbols) - 1) * PublishTime

Older(n, cap) == IF n < cap THEN n + 1 ELSE n

Capped(n) == IF InitialBackoff * 2 ^ n < MaxBackoff THEN InitialBackoff * 2 ^ n ELSE MaxBackoff

(* The exponential delay; half of it is certain, the rest is jitter. *)
BackoffDelay(n) == (Capped(n) + 1) \div 2 .. Capped(n)

FeedInit ==
  /\ conn = "waiting" /\ mute = FALSE /\ head = 0 /\ tail = 0 /\ sent = 0
  /\ attempts = 0 /\ wait = 0
  /\ busy = FALSE /\ idle = 0 /\ quiet = 0
  /\ dog = "off" /\ dog_timer = 0
  /\ last_seq = NoFrame /\ last_read = NoFrame /\ unnoticed = {}
  /\ age = [s \in Symbols |-> Unheard]
  /\ checker = "sleeping" /\ check_timer = CheckEvery /\ pending = {}
  /\ unreported = [s \in Symbols |-> Unheard]
  /\ stopped = FALSE

(* No task of the event loop is ready to run. *)
AllAwait ==
  /\ conn = "waiting" => wait > 0
  /\ conn \in {"up", "closing"} => busy
       \/ (head = tail /\ conn = "up")
  /\ dog = "sleeping" => dog_timer > 0
  /\ dog = "publishing" => dog_timer < PublishTime
  /\ checker = "sleeping" => check_timer > 0
  /\ checker = "publishing" => check_timer < PublishTime
  /\ checker # "raising"

TimePasses ==
  /\ AllAwait
  /\ wait' = IF wait > 0 THEN wait - 1 ELSE 0
  /\ idle' = IF conn = "up" THEN Older(idle, CloseWithin + 1) ELSE idle
  /\ quiet' = IF conn = "up" THEN Older(quiet, CloseWithin + 1) ELSE quiet
  /\ dog_timer' = CASE dog = "sleeping" -> dog_timer - 1
                    [] dog = "publishing" -> dog_timer + 1
                    [] OTHER -> dog_timer
  /\ age' = [s \in Symbols |->
       IF age[s] = Unheard THEN Unheard ELSE Older(age[s], SymbolStale + 1)]
  /\ unreported' = [s \in Symbols |->
       IF unreported[s] = Unheard THEN Unheard ELSE Older(unreported[s], ReportWithin + 1)]
  /\ check_timer' = CASE checker = "sleeping" -> check_timer - 1
                      [] checker = "publishing" -> check_timer + 1
                      [] OTHER -> check_timer
  /\ UNCHANGED <<socket, attempts, busy, dog, numbers, checker, pending, stopped>>

(* The venue sends a frame: lost unless a live connection carries it. *)
Send ==
  /\ sent < MaxFrames
  /\ sent' = sent + 1
  /\ tail' = IF conn = "up" /\ ~mute THEN sent + 1 ELSE tail
  /\ UNCHANGED <<conn, mute, head, run, busy, clock, watch, numbers, symbols, stopped>>

GoMute ==
  /\ conn = "up" /\ ~mute /\ mute' = TRUE
  /\ UNCHANGED <<conn, head, tail, sent, run, busy, clock, watch, numbers, symbols, stopped>>

(* The end of _run_connection cancels its tasks; run() returns when        *)
(* stopped, else waits and tries again.  The attempt only ever grows.      *)
Reconnect ==
  /\ mute' = FALSE /\ busy' = FALSE /\ head' = 0 /\ tail' = 0 /\ idle' = 0 /\ quiet' = 0
  /\ dog' = "off" /\ dog_timer' = 0
  /\ IF stopped THEN conn' = "ended" /\ attempts' = 0 /\ wait' = 0
     ELSE /\ conn' = "waiting" /\ wait' \in BackoffDelay(attempts)
          /\ attempts' = IF Capped(attempts) < MaxBackoff THEN attempts + 1 ELSE attempts

(* Seeded fault: a new connection starts a new numbering. *)
Renumbered == NoFrame

(* _last_sequence of a new connection: the one before it. *)
SequenceAtConnect == last_seq

(* run() looks at _stopped after its sleep. *)
Ends ==
  /\ conn = "waiting" /\ wait = 0 /\ stopped
  /\ conn' = "ended"
  /\ UNCHANGED <<mute, head, tail, sent, run, busy, clock, watch, numbers, symbols, stopped>>

ConnectFails ==
  /\ conn = "waiting" /\ wait = 0 /\ ~stopped
  /\ Reconnect
  /\ UNCHANGED <<sent, numbers, symbols, stopped>>

Connects ==
  /\ conn = "waiting" /\ wait = 0 /\ ~stopped
  /\ conn' = "up"
  /\ head' = sent /\ tail' = sent
  /\ idle' = 0 /\ quiet' = 0
  /\ dog' = "sleeping" /\ dog_timer' = CheckEvery
  /\ last_seq' = SequenceAtConnect
  /\ UNCHANGED <<mute, sent, run, busy, last_read, unnoticed, symbols, stopped>>

(* The venue or the network closes the connection; frames that arrived may *)
(* still be read, those on their way are lost.                             *)
Close ==
  /\ conn' = "closing"
  /\ tail' \in head .. tail
  /\ dog' = "off" /\ dog_timer' = 0

Disconnect ==
  /\ conn = "up"
  /\ Close
  /\ UNCHANGED <<mute, head, sent, run, busy, clock, numbers, symbols, stopped>>

(* _track_sequence: a jump is logged. *)
TrackSequence(f) ==
  /\ unnoticed' = IF last_read # NoFrame /\ (last_seq = NoFrame \/ f = last_seq + 1)
                  THEN unnoticed \cup (last_read + 1 .. f - 1)
                  ELSE unnoticed
  /\ last_seq' = f /\ last_read' = f

(* Seeded fault: any message counts for every symbol of the connection. *)
ReceivedForAll(s) == [r \in Symbols |-> IF r = s \/ age[r] # Unheard THEN 0 ELSE age[r]]

(* record_received. *)
Received(s) == [age EXCEPT ![s] = 0]

(* The read loop takes a frame, which carries data of symbol s. *)
ReadFrame(s) ==
  /\ conn \in {"up", "closing"} /\ ~busy /\ head < tail
  /\ head' = head + 1
  /\ idle' = 0 /\ quiet' = 0
  /\ TrackSequence(head)
  /\ busy' = TRUE
  /\ age' = Received(s) /\ unreported' = [unreported EXCEPT ![s] = 0]
  /\ UNCHANGED <<conn, mute, tail, sent, run, watch, checks, stopped>>

(* A binary frame is skipped, but the connection is not idle. *)
ReadBinary ==
  /\ conn = "up" /\ ~mute /\ ~busy /\ head = tail
  /\ idle' = 0 /\ quiet' = 0
  /\ UNCHANGED <<socket, run, busy, watch, numbers, symbols, stopped>>

MessageHandled ==
  /\ busy /\ busy' = FALSE
  /\ UNCHANGED <<socket, run, clock, watch, numbers, symbols, stopped>>

(* on_message raises: the connection ends, its unread frames are lost. *)
MessageFails ==
  /\ busy
  /\ Reconnect
  /\ UNCHANGED <<sent, numbers, symbols, stopped>>

(* The read loop reaches the end of a closed connection. *)
Drained ==
  /\ conn = "closing" /\ ~busy /\ head = tail
  /\ Reconnect
  /\ UNCHANGED <<sent, numbers, symbols, stopped>>

(* Seeded fault: the answer to a ping counts as a message. *)
PongCounts == 0

(* A ping leaves _last_message_at alone. *)
IdleAfterPing == idle

(* The heartbeat of a live connection; on a closed one it raises, and its  *)
(* task ends.                                                              *)
Ping ==
  /\ conn = "up"
  /\ idle' = IdleAfterPing
  /\ UNCHANGED <<socket, run, busy, quiet, watch, numbers, symbols, stopped>>

(* _stale_watchdog wakes up: FeedStale is published, or it sleeps again. *)
DogChecks ==
  /\ dog = "sleeping" /\ dog_timer = 0
  /\ IF idle > StaleAfter
     THEN dog' = "publishing" /\ dog_timer' = 0
     ELSE dog' = dog /\ dog_timer' = CheckEvery
  /\ UNCHANGED <<socket, run, busy, clock, numbers, symbols, stopped>>

(* The publication returns: the watchdog closes the connection and ends. *)
DogCloses ==
  /\ dog = "publishing"
  /\ Close
  /\ UNCHANGED <<mute, head, sent, run, busy, clock, numbers, symbols, stopped>>

(* _check_all_symbols reads the clock once, over a copy of the table. *)
CheckSymbols ==
  /\ checker = "sleeping" /\ check_timer = 0
  /\ IF stopped THEN checker' = "ended" /\ UNCHANGED pending
     ELSE checker' = "raising" /\ pending' = {s \in Symbols : age[s] > SymbolStale}
  /\ UNCHANGED <<socket, run, busy, clock, watch, numbers, age, check_timer, unreported, stopped>>

(* _raise_stale: the metric and the P1 alert first, then the publication. *)
RaiseStale(s) ==
  /\ checker = "raising" /\ s \in pending
  /\ pending' = pending \ {s}
  /\ unreported' = [unreported EXCEPT ![s] = 0]
  /\ checker' = "publishing" /\ check_timer' = 0
  /\ UNCHANGED <<socket, run, busy, clock, watch, numbers, age, stopped>>

StalePublished ==
  /\ checker = "publishing" /\ checker' = "raising" /\ check_timer' = 0
  /\ UNCHANGED <<socket, run, busy, clock, watch, numbers, age, pending, unreported, stopped>>

EndCheck ==
  /\ checker = "raising" /\ pending = {}
  /\ IF stopped THEN checker' = "ended" /\ check_timer' = 0
     ELSE checker' = "sleeping" /\ check_timer' = CheckEvery
  /\ UNCHANGED <<socket, run, busy, clock, watch, numbers, age, pending, unreported, stopped>>

Stop ==
  /\ ~stopped /\ stopped' = TRUE
  /\ UNCHANGED <<socket, run, busy, clock, watch, numbers, symbols>>

Client  == Ends \/ Connects \/ ConnectFails \/ (\E s \in Symbols : ReadFrame(s)) \/ Drained
Dog     == DogChecks \/ DogCloses
Checker == CheckSymbols \/ (\E s \in Symbols : RaiseStale(s)) \/ StalePublished \/ EndCheck

FeedNext ==
  \/ TimePasses \/ Send \/ GoMute \/ Disconnect
  \/ Client \/ ReadBinary \/ MessageHandled \/ MessageFails \/ Ping
  \/ Dog \/ Checker \/ Stop

FeedSpec == FeedInit /\ [][FeedNext]_feedVars
(* Tasks that are ready run, callbacks return, time passes, and a venue    *)
(* asked again and again accepts a connection in the end.                  *)
FairFeedSpec ==
  /\ FeedSpec
  /\ WF_feedVars(TimePasses) /\ WF_feedVars(Client) /\ WF_feedVars(MessageHandled)
  /\ WF_feedVars(Dog) /\ WF_feedVars(Checker) /\ SF_feedVars(Connects)
-----------------------------------------------------------------------------
(* A frame that never arrived, be it for a reconnect, a mute connection or *)
(* a callback that raised, is logged as a sequence gap when the next one   *)
(* is read: _last_sequence outlives the connections.                       *)
NoSilentLoss == unnoticed = {}

(* Silence is acted on in bounded time whatever the other tasks await: a   *)
(* connection with no frame for StaleAfter is closed, and a symbol with no *)
(* data for SymbolStale is reported although other symbols of its          *)
(* connection are alive, the connection is between two attempts, or the    *)
(* publications of other symbols come first.                               *)
SilenceIsReported ==
  /\ conn = "up" => quiet <= CloseWithin
  /\ ~stopped => \A s \in Symbols : unreported[s] <= ReportWithin

(* A feed that is down, or up and mute, comes back, although nothing on    *)
(* the connection itself ever fails and the heartbeat keeps pinging it.    *)
FeedRecovers == (conn # "up" \/ mute) ~> ((conn = "up" /\ ~mute) \/ stopped)
=============================================================================
