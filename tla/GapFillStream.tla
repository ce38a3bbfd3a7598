---------------------------- MODULE GapFillStream ----------------------------
(***************************************************************************)
(* The realtime candle feed of infrastructure/venues/binance:              *)
(* BinanceWebSocketClient reconnects, BinanceCandleStream turns frames     *)
(* into CandleClosed events, GapFillingCandleStream holds them back after  *)
(* a reconnect until a REST gap-fill has covered the time between, and the *)
(* venue keeps closing one bar per unit of time meanwhile.                 *)
(*                                                                         *)
(* A connection delivers the closes of consecutive bars in order (TCP), so *)
(* the frames received and not yet consumed are head .. tail - 1.  Any     *)
(* other frame (a partial candle, one the parser ignores) may arrive at    *)
(* any time of a live connection; it matters only as the first frame after *)
(* a reconnect.                                                            *)
(***************************************************************************)
EXTENDS Integers

CONSTANT MaxTime   \* bound on the clock
ASSUME TimeAssumption == MaxTime \in Nat

VARIABLES
  now,         \* the clock, in bars: bar b has closed when b < now
  conn,        \* "down", "up", or "closing": closed, frames still unread
  head, tail,  \* the unread closed-bar frames of the connection
  fresh,       \* connection_attempts # _last_seen_connection_attempts
  seen,        \* _last_seen_connection_attempts # 0
  halted,      \* _halted
  last_known,  \* last_known_bar_ts
  handler,     \* the message callback: "idle" or "filling" (awaits gap_fill)
  held,        \* the closed bar of the frame being handled, NoBar for others
  fill_to,     \* the range_end of the gap-fill in flight
  rows,        \* candle rows stored by gap-fills
  final,       \* those holding the finished bar
  published    \* bars whose CandleClosed the subscribers received

socket   == <<conn, head, tail>>
stream   == <<fresh, seen, halted, last_known>>
call     == <<handler, held, fill_to>>
database == <<rows, final>>
vars     == <<now, socket, stream, call, database, published>>
-----------------------------------------------------------------------------
NoBar == -1

(* Seeded faults: a fill that starts after the last known bar, and a       *)
(* successful one that does not resume publication.                        *)
NextUnknown == last_known + 1
NeverResume == halted

(* current_attempts differs from the last one seen, which is not 0. *)
Reconnected == fresh /\ seen

(* The range_start of a gap-fill: the last known bar itself. *)
FillStart == last_known

(* _halted after a gap-fill that failed, and after one that returned. *)
HaltedAfterFailure == halted
HaltedAfterFill == FALSE

(* last_known_bar_ts after the frame of bar b: publish returns early while *)
(* halted.                                                                 *)
LastKnown(b, halt) == IF b = NoBar \/ halt THEN last_known ELSE b

Init ==
  /\ now = 0
  /\ conn = "down" /\ head = 0 /\ tail = 0
  /\ fresh = FALSE /\ seen = FALSE
  /\ halted = FALSE /\ last_known = NoBar
  /\ handler = "idle" /\ held = NoBar /\ fill_to = 0
  /\ rows = {} /\ final = {}
  /\ published = {}

(* A bar closes; a live connection is sent its close. *)
Tick ==
  /\ now < MaxTime
  /\ now' = now + 1
  /\ tail' = IF conn = "up" THEN now + 1 ELSE tail
  /\ UNCHANGED <<conn, head, stream, call, database, published>>

(* One turn of run(): connection_attempts is counted before the attempt,   *)
(* and a failed attempt leads to the next one after a backoff.             *)
Connect ==
  /\ conn = "down" /\ handler = "idle"
  /\ fresh' = TRUE
  /\ conn' \in {"up", "down"}
  /\ IF conn' = "up" THEN head' = now /\ tail' = now ELSE UNCHANGED <<head, tail>>
  /\ UNCHANGED <<now, seen, halted, last_known, call, database, published>>

(* The venue, the network or the stale watchdog closes the connection, at  *)
(* any time; frames already received may still be read.                    *)
Disconnect ==
  /\ conn = "up"
  /\ conn' = "closing"
  /\ tail' \in head .. tail
  /\ UNCHANGED <<now, head, stream, call, database, published>>

(* The read loop reaches the end of a closed connection. *)
Drained ==
  /\ conn = "closing" /\ handler = "idle" /\ head = tail
  /\ conn' = "down"
  /\ UNCHANGED <<now, head, tail, stream, call, database, published>>

(* The inner stream's on_message on the frame of closed bar b, or on a     *)
(* partial candle.  publish drops the bar while halted, else records it as *)
(* the last known one and forwards it.  A subscriber, or the callback for  *)
(* partial candles, that raises ends the connection.                       *)
Publish(b, halt) ==
  /\ last_known' = LastKnown(b, halt)
  /\ \/ /\ conn' = conn
        /\ published' = IF b = NoBar \/ halt THEN published ELSE published \cup {b}
     \/ conn' = "down" /\ published' = published /\ (b = NoBar \/ ~ halt)

(* on_message on a frame of a connection it has seen before, or the first  *)
(* one ever, or the first of a reconnect with no bar to anchor a gap-fill. *)
Receive(b) ==
  /\ ~ (Reconnected /\ last_known # NoBar)
  /\ halted' = (halted /\ ~ Reconnected)
  /\ fresh' = FALSE /\ seen' = (seen \/ fresh)
  /\ Publish(b, halted')
  /\ UNCHANGED <<call, database>>

(* on_message on the first frame of a reconnect: halt, call gap_fill with  *)
(* [last_known_bar_ts, now()] and keep the frame until it returns.         *)
StartGapFill(b) ==
  /\ Reconnected /\ last_known # NoBar
  /\ halted' = TRUE
  /\ fresh' = FALSE
  /\ handler' = "filling" /\ held' = b /\ fill_to' = now
  /\ UNCHANGED <<conn, seen, last_known, database, published>>

(* The client hands the next frame to on_message. *)
ReceiveClosed ==
  /\ handler = "idle" /\ conn # "down" /\ head < tail
  /\ head' = head + 1
  /\ Receive(head) \/ StartGapFill(head)
  /\ UNCHANGED <<now, tail>>

(* ... or a frame that closes no bar. *)
ReceiveOther ==
  /\ handler = "idle" /\ conn # "down"
  /\ Receive(NoBar) \/ StartGapFill(NoBar)
  /\ UNCHANGED <<now, head, tail>>

(* The rows a gap-fill has stored up to bar m, asked at time t: the        *)
(* backfill of [FillStart, fill_to].  No earlier call had the same range,  *)
(* so none has left a checkpoint for it.  The venue has every bar.         *)
Filled(m, t) ==
  /\ rows' = rows \cup (FillStart .. m)
  /\ final' = final \cup ((FillStart .. m) \cap (0 .. t - 1))

(* gap_fill returns: publication resumes with the frame that was kept. *)
GapFillSucceeds ==
  /\ handler = "filling"
  /\ \E t \in fill_to .. now : Filled(fill_to, t)
  /\ halted' = HaltedAfterFill
  /\ handler' = "idle" /\ held' = NoBar
  /\ Publish(held, halted')
  /\ UNCHANGED <<now, head, tail, fresh, seen, fill_to>>

(* gap_fill raises, with some pages stored: publication stays halted and   *)
(* the frame that was kept is dropped.                                     *)
GapFillFails ==
  /\ handler = "filling"
  /\ \E t \in fill_to .. now, m \in last_known - 1 .. fill_to : Filled(m, t)
  /\ halted' = HaltedAfterFailure
  /\ handler' = "idle" /\ held' = NoBar
  /\ Publish(held, halted')
  /\ UNCHANGED <<now, head, tail, fresh, seen, fill_to>>

Next ==
  \/ Tick
  \/ Connect \/ Disconnect \/ Drained
  \/ ReceiveClosed \/ ReceiveOther
  \/ GapFillSucceeds \/ GapFillFails

Spec == Init /\ [][Next]_vars

(* run() keeps reconnecting and the read loop keeps reading; the venue     *)
(* lets an attempt succeed in the end, sends frames on a connection that   *)
(* lasts, ends every connection some day, and a gap-fill tried again and   *)
(* again returns once.                                                     *)
Fairness ==
  /\ SF_vars(Connect /\ conn' = "up")
  /\ WF_vars(Disconnect) /\ WF_vars(Drained)
  /\ WF_vars(ReceiveClosed) /\ SF_vars(ReceiveOther)
  /\ SF_vars(GapFillSucceeds) /\ WF_vars(GapFillSucceeds \/ GapFillFails)

FairSpec == Spec /\ Fairness
-----------------------------------------------------------------------------
Times == 0 .. MaxTime
Bars  == 0 .. MaxTime - 1

(* Every variable stays in its range. *)
TypeOK ==
  /\ now \in Times
  /\ conn \in {"down", "up", "closing"}
  /\ head \in Times /\ tail \in Times /\ head <= tail /\ tail <= now
  /\ fresh \in BOOLEAN /\ seen \in BOOLEAN /\ halted \in BOOLEAN
  /\ last_known \in Bars \cup {NoBar}
  /\ handler \in {"idle", "filling"}
  /\ held \in Bars \cup {NoBar}
  /\ fill_to \in 0 .. now
  /\ rows \subseteq Times /\ final \subseteq rows
  /\ published \subseteq Bars

(* "Never resume publishing candles that might have a silent gap behind    *)
(* them": a bar between two published ones was published too, or a         *)
(* gap-fill has stored it finished.  Whatever reconnects, failed fills and *)
(* failing subscribers lie between.                                        *)
NoSilentGap ==
  \A c, b \in published : \A a \in c + 1 .. b - 1 : a \in published \cup final

(* While publication is allowed on a connection that has been seen, every  *)
(* bar between the last one known and the next frame is stored: the next   *)
(* closed bar can be published at once.                                    *)
ReadyToPublish ==
  ~ halted /\ ~ fresh /\ last_known # NoBar /\ handler = "idle"
    => last_known + 1 .. head - 1 \subseteq final

(* A halt ends: a reconnect to come fills the gap and resumes publication. *)
PublicationResumes == halted ~> ~ halted
=============================================================================
