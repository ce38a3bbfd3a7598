------------------------- MODULE GapFillStreamProofs -------------------------
(***************************************************************************)
(* Type correctness and the no-silent-gap guarantee of GapFillStream, for  *)
(* every length of run.  NoSilentGap is not inductive: a bar is published  *)
(* on the strength of what the handler did long before.  IInv adds what    *)
(* ties last_known, the flags of the handler and the place in the stream   *)
(* together.                                                               *)
(***************************************************************************)
EXTENDS GapFillStream, TLAPS

Known == last_known # NoBar

(* Only bars up to the last known one were published, the next frame comes *)
(* after it, and a connection is one that was seen or is fresh.            *)
KnownBounds ==
  /\ published \subseteq 0 .. last_known
  /\ last_known < head
  /\ Known => seen
  /\ conn # "down" => seen \/ fresh

(* No gap behind the last known bar. *)
NoGapBehindKnown ==
  \A c \in published : c + 1 .. last_known - 1 \subseteq published \cup final

(* The last known bar itself is published or stored, unless a subscriber   *)
(* failed on it: then the connection ends and the next one fills from it.  *)
KnownDelivered ==
  Known => last_known \in published \cup final \/ conn = "down" \/ fresh \/ halted

(* What holds while a gap-fill is in flight. *)
FillInFlight ==
  handler = "filling" =>
    /\ halted /\ ~ fresh /\ Known
    /\ conn # "down"
    /\ head <= fill_to
    /\ held # NoBar => held = head - 1 /\ last_known < held

IInv ==
  TypeOK /\ KnownBounds /\ NoGapBehindKnown /\ ReadyToPublish /\ KnownDelivered /\ FillInFlight
-----------------------------------------------------------------------------
(* The invariant holds before the first connection. *)
LEMMA InitIInv == Init => IInv
<1> SUFFICES ASSUME Init PROVE IInv
  OBVIOUS
<1>1. TypeOK
  <2>1. 0 \in Times /\ NoBar \in Bars \cup {NoBar} /\ 0 \in 0 .. 0
    BY TimeAssumption DEF Times
  <2>2. /\ now = 0 /\ head = 0 /\ tail = 0 /\ fill_to = 0
        /\ last_known = NoBar /\ held = NoBar /\ conn = "down" /\ handler = "idle"
    BY DEF Init
  <2>3. fresh \in BOOLEAN /\ seen \in BOOLEAN /\ halted \in BOOLEAN
    BY DEF Init
  <2>4. rows \subseteq Times /\ final \subseteq rows /\ published \subseteq Bars
    BY DEF Init
  <2> QED BY <2>1, <2>2, <2>3, <2>4 DEF TypeOK
<1>2. KnownBounds /\ NoGapBehindKnown /\ ReadyToPublish /\ KnownDelivered /\ FillInFlight
  BY DEF Init, KnownBounds, NoGapBehindKnown, ReadyToPublish, KnownDelivered, FillInFlight,
         Known, NoBar
<1> QED BY <1>1, <1>2 DEF IInv

(* The connection's own steps leave the stream alone, or mark it fresh. *)
LEMMA ConnectionStep ==
  ASSUME IInv, Tick \/ Connect \/ Disconnect \/ Drained
  PROVE  IInv'
<1> USE TimeAssumption
        DEF IInv, TypeOK, KnownBounds, NoGapBehindKnown, ReadyToPublish, KnownDelivered,
            FillInFlight, Known, NoBar, Times, Bars, stream, call, database
<1>1. CASE Tick
  BY <1>1 DEF Tick
<1>2. CASE Connect
  BY <1>2 DEF Connect
<1>3. CASE Disconnect
  BY <1>3 DEF Disconnect
<1>4. CASE Drained
  BY <1>4 DEF Drained
<1> QED BY <1>1, <1>2, <1>3, <1>4

(* Publishing bar b, not halted, with every bar between the last known one *)
(* and b stored.                                                           *)
LEMMA PublishStep ==
  ASSUME TypeOK, KnownBounds, NoGapBehindKnown,
         NEW b \in Bars, last_known < b,
         Publish(b, FALSE), final \subseteq final',
         Known => last_known .. b - 1 \subseteq published \cup final'
  PROVE  /\ last_known' = b
         /\ published' \subseteq 0 .. b
         /\ published' \subseteq published \cup {b}
         /\ NoGapBehindKnown'
         /\ b \in published' \/ conn' = "down"
         /\ conn' \in {conn, "down"}
<1>1. b # NoBar /\ b \in Int /\ b >= 0
  BY TimeAssumption DEF Bars, NoBar
<1>2. last_known' = b
  BY <1>1 DEF Publish, LastKnown
<1>3. \/ conn' = conn /\ published' = published \cup {b}
      \/ conn' = "down" /\ published' = published
  BY <1>1 DEF Publish
<1>4. \A c \in published : c \in Int /\ 0 <= c /\ c <= last_known
  BY TimeAssumption DEF KnownBounds, TypeOK, Bars, NoBar
<1>5. ASSUME NEW c \in published, NEW a \in c + 1 .. b - 1
      PROVE  a \in published \cup final'
  <2>1. Known /\ last_known \in Int
    BY <1>4, TimeAssumption DEF Known, NoBar, TypeOK, Bars
  <2>2. CASE a < last_known
    BY <1>4, <2>1, <2>2 DEF NoGapBehindKnown
  <2>3. CASE a >= last_known
    BY <1>1, <1>4, <2>1, <2>3
  <2> QED BY <1>4, <1>1, <2>1, <2>2, <2>3
<1>6. published \subseteq 0 .. b
  BY <1>4, <1>1, TimeAssumption DEF TypeOK, Bars, NoBar
<1>7. NoGapBehindKnown'
  <2> SUFFICES ASSUME NEW c \in published', NEW a \in c + 1 .. b - 1
               PROVE  a \in published' \cup final'
    BY <1>2 DEF NoGapBehindKnown
  <2>1. CASE c \in published
    BY <2>1, <1>3, <1>5
  <2>2. CASE c = b
    BY <2>2, <1>1
  <2> QED BY <1>3, <2>1, <2>2
<1>8. CASE conn' = conn /\ published' = published \cup {b}
  <2>1. published' \subseteq 0 .. b
    BY <1>1, <1>6, <1>8
  <2>2. b \in published'
    BY <1>8
  <2> QED BY <1>2, <1>7, <1>8, <2>1, <2>2
<1>9. CASE conn' = "down" /\ published' = published
  BY <1>2, <1>6, <1>7, <1>9
<1> QED BY <1>3, <1>8, <1>9

(* A closed bar handled without a gap-fill. *)
LEMMA ReceiveClosedStep ==
  ASSUME IInv, handler = "idle", conn # "down", head < tail, head' = head + 1,
         Receive(head), UNCHANGED <<now, tail>>
  PROVE  IInv'
<1>1. head \in Bars /\ head # NoBar /\ head \in Int /\ last_known \in Int /\ last_known < head
  BY TimeAssumption DEF IInv, TypeOK, KnownBounds, Times, Bars, NoBar
<1>2. /\ fresh' = FALSE /\ seen' = (seen \/ fresh)
      /\ UNCHANGED <<handler, held, fill_to, rows, final>>
      /\ Publish(head, halted')
      /\ halted' = (halted /\ ~ Reconnected)
      /\ ~ (Reconnected /\ Known)
  BY DEF Receive, call, database, Known
<1>5. fresh' \in BOOLEAN /\ seen' \in BOOLEAN /\ halted' \in BOOLEAN /\ ~ fresh'
  BY <1>2
<1>6. UNCHANGED <<handler, held, fill_to, rows, final>>
  BY <1>2
<1>7. seen'
  BY <1>2 DEF IInv, KnownBounds
<1>3. CASE halted'
  <2>1. /\ last_known' = last_known /\ published' = published /\ conn' \in {conn, "down"}
        /\ halted /\ UNCHANGED <<handler, held, fill_to, rows, final>>
    BY <1>1, <1>2, <1>3 DEF Publish, LastKnown
  <2>2. TypeOK'
    BY <1>1, <1>5, <2>1, TimeAssumption DEF IInv, TypeOK, Times, Bars
  <2>3. KnownBounds' /\ ReadyToPublish' /\ KnownDelivered' /\ FillInFlight'
    BY <1>1, <1>3, <1>5, <1>7, <2>1
    DEF IInv, KnownBounds, ReadyToPublish, KnownDelivered, FillInFlight, Known
  <2>4. NoGapBehindKnown'
    BY <2>1 DEF IInv, NoGapBehindKnown
  <2> QED BY <2>2, <2>3, <2>4 DEF IInv
<1>4. CASE ~ halted'
  <2>1. Known => last_known .. head - 1 \subseteq published \cup final
    <3> SUFFICES ASSUME Known
                 PROVE  last_known .. head - 1 \subseteq published \cup final
      OBVIOUS
    <3>1. seen /\ ~ fresh /\ ~ halted
      BY <1>2, <1>4 DEF IInv, KnownBounds, Reconnected
    <3>2. last_known + 1 .. head - 1 \subseteq final
      BY <3>1 DEF IInv, ReadyToPublish, Known
    <3>3. last_known \in published \cup final
      BY <3>1 DEF IInv, KnownDelivered
    <3> QED BY <3>2, <3>3, <1>1
  <2>2. Publish(head, FALSE) /\ final \subseteq final'
    BY <1>2, <1>4 DEF Publish, LastKnown
  <2>7. Known => last_known .. head - 1 \subseteq published \cup final'
    BY <1>2, <2>1
  <2>8. TypeOK /\ KnownBounds /\ NoGapBehindKnown
    BY DEF IInv
  <2>3. /\ last_known' = head
        /\ published' \subseteq 0 .. head
        /\ published' \subseteq published \cup {head}
        /\ NoGapBehindKnown'
        /\ head \in published' \/ conn' = "down"
        /\ conn' \in {conn, "down"}
    BY <1>1, <2>2, <2>7, <2>8, PublishStep
  <2>4. TypeOK'
    BY <1>1, <1>5, <1>6, <2>3, TimeAssumption DEF IInv, TypeOK, Times, Bars
  <2>6. KnownBounds' /\ ReadyToPublish' /\ KnownDelivered' /\ FillInFlight'
    BY <1>1, <1>5, <1>6, <1>7, <2>3
    DEF KnownBounds, ReadyToPublish, KnownDelivered, FillInFlight, Known
  <2> QED BY <2>3, <2>4, <2>6 DEF IInv
<1> QED BY <1>3, <1>4

(* A frame that closes no bar, handled without a gap-fill. *)
LEMMA ReceiveOtherStep ==
  ASSUME IInv, handler = "idle", conn # "down", Receive(NoBar), UNCHANGED <<now, head, tail>>
  PROVE  IInv'
<1>1. /\ UNCHANGED <<handler, held, fill_to, rows, final>>
      /\ last_known' = last_known /\ published' = published /\ conn' \in {conn, "down"}
  BY DEF Receive, Publish, LastKnown, call, database
<1>2. fresh' \in BOOLEAN /\ seen' \in BOOLEAN /\ halted' \in BOOLEAN /\ ~ fresh'
  BY DEF Receive
<1>3. seen' /\ (Known => (halted' <=> halted) /\ ~ fresh)
  BY DEF Receive, Reconnected, IInv, KnownBounds, Known, TypeOK
<1>4. TypeOK'
  BY <1>1, <1>2, TimeAssumption DEF IInv, TypeOK, Times, Bars
<1>5. KnownBounds' /\ ReadyToPublish' /\ KnownDelivered' /\ FillInFlight'
  BY <1>1, <1>2, <1>3
  DEF IInv, KnownBounds, ReadyToPublish, KnownDelivered, FillInFlight, Known
<1>6. NoGapBehindKnown'
  BY <1>1 DEF IInv, NoGapBehindKnown
<1> QED BY <1>4, <1>5, <1>6 DEF IInv

(* The first frame of a reconnect: the gap-fill asks for everything up to  *)
(* a time no earlier than the place in the stream.                         *)
LEMMA StartStep ==
  ASSUME IInv, ReceiveClosed \/ ReceiveOther,
         NEW b \in {head, NoBar}, StartGapFill(b),
         UNCHANGED <<now, tail>>, head' = IF b = NoBar THEN head ELSE head + 1,
         b = head => head < tail
  PROVE  IInv'
<1>1. conn # "down"
  BY DEF ReceiveClosed, ReceiveOther
<1>2. /\ halted' = TRUE /\ fresh' = FALSE /\ seen /\ Known
      /\ handler' = "filling" /\ held' = b /\ fill_to' = now
      /\ UNCHANGED <<conn, seen, last_known, rows, final, published>>
  BY DEF StartGapFill, Reconnected, Known, database
<1>3. /\ head \in Nat /\ tail \in Nat /\ now \in Nat /\ now <= MaxTime /\ tail <= now
      /\ head <= tail /\ head # NoBar /\ last_known \in Int
  BY TimeAssumption DEF IInv, TypeOK, Times, Bars, NoBar
<1>4. head' \in Nat /\ head' <= tail /\ head <= head' /\ b \in Bars \cup {NoBar}
  BY <1>3, TimeAssumption DEF Bars
<1>5. TypeOK'
  <2>1. fresh' \in BOOLEAN /\ seen' \in BOOLEAN /\ halted' \in BOOLEAN
    BY <1>2 DEF IInv, TypeOK
  <2>2. held' \in Bars \cup {NoBar} /\ fill_to' \in 0 .. now' /\ head' \in Times
    BY <1>2, <1>3, <1>4, TimeAssumption DEF Times
  <2>3. UNCHANGED <<now, tail, conn, last_known, rows, final, published>> /\ head' <= tail'
    BY <1>2, <1>4
  <2> QED BY <1>2, <2>1, <2>2, <2>3 DEF IInv, TypeOK
<1>6. KnownBounds'
  BY <1>1, <1>2, <1>3, <1>4 DEF IInv, KnownBounds, Known
<1>7. ReadyToPublish' /\ KnownDelivered'
  BY <1>2 DEF ReadyToPublish, KnownDelivered
<1>8. NoGapBehindKnown'
  BY <1>2 DEF IInv, NoGapBehindKnown
<1>9. FillInFlight'
  BY <1>1, <1>2, <1>3, <1>4 DEF IInv, KnownBounds, FillInFlight, Known
<1> QED BY <1>5, <1>6, <1>7, <1>8, <1>9 DEF IInv

(* What a fill stores is in range, and nothing stored is lost. *)
LEMMA FilledFacts ==
  ASSUME IInv, handler = "filling", NEW t \in fill_to .. now, NEW m \in last_known - 1 .. fill_to,
         Filled(m, t)
  PROVE  /\ rows' \subseteq Times /\ final' \subseteq rows' /\ final \subseteq final'
         /\ m = fill_to => last_known .. head - 1 \subseteq final'
<1>1. last_known \in Nat /\ fill_to \in Nat /\ fill_to <= MaxTime /\ head \in Nat /\ head <= fill_to
  BY TimeAssumption DEF IInv, TypeOK, FillInFlight, Known, Bars, Times, NoBar
<1> QED BY <1>1, TimeAssumption DEF Filled, FillStart, IInv, TypeOK, Times

(* A failed gap-fill leaves publication halted. *)
LEMMA FailStep ==
  ASSUME IInv, GapFillFails
  PROVE  IInv'
<1>1. handler = "filling"
  BY DEF GapFillFails
<1>2. rows' \subseteq Times /\ final' \subseteq rows' /\ final \subseteq final'
  BY <1>1, FilledFacts DEF GapFillFails
<1>3. halted /\ halted' /\ Known
  BY <1>1 DEF GapFillFails, HaltedAfterFailure, IInv, FillInFlight
<1>4. last_known' = last_known /\ published' = published /\ conn' \in {conn, "down"}
  BY <1>3 DEF GapFillFails, Publish, LastKnown
<1> QED BY <1>1, <1>2, <1>3, <1>4, TimeAssumption
  DEF GapFillFails, IInv, TypeOK, KnownBounds, NoGapBehindKnown, ReadyToPublish,
      KnownDelivered, FillInFlight, Known, NoBar, Times, Bars

(* A gap-fill that returned has stored every bar up to the place in the    *)
(* stream, so that the frame that was kept can be published.               *)
LEMMA SucceedStep ==
  ASSUME IInv, GapFillSucceeds
  PROVE  IInv'
<1>1. /\ handler = "filling" /\ handler' = "idle" /\ held' = NoBar
      /\ UNCHANGED <<now, head, tail, fresh, seen, fill_to>>
      /\ halted' = FALSE
      /\ Publish(held, FALSE)
  BY DEF GapFillSucceeds, HaltedAfterFill
<1>2. /\ halted /\ ~ fresh /\ Known /\ conn # "down" /\ head <= fill_to
      /\ held # NoBar => held = head - 1 /\ last_known < held
  BY <1>1 DEF IInv, FillInFlight
<1>3. /\ rows' \subseteq Times /\ final' \subseteq rows' /\ final \subseteq final'
      /\ last_known .. head - 1 \subseteq final'
  <2>1. PICK t \in fill_to .. now : Filled(fill_to, t)
    BY DEF GapFillSucceeds
  <2>2. fill_to \in last_known - 1 .. fill_to
    BY <1>2, TimeAssumption DEF IInv, TypeOK, KnownBounds, Times, Bars, NoBar
  <2> QED BY <1>1, <2>1, <2>2, FilledFacts
<1>4. last_known \in Nat /\ head \in Nat /\ last_known < head
  BY <1>2, TimeAssumption DEF IInv, TypeOK, KnownBounds, Times, Bars, Known, NoBar
<1>5. CASE held = NoBar
  <2>1. last_known' = last_known /\ published' = published /\ conn' \in {conn, "down"}
    BY <1>1, <1>5 DEF Publish, LastKnown
  <2>2. TypeOK'
    BY <1>1, <1>3, <2>1, TimeAssumption DEF IInv, TypeOK, Times, Bars
  <2>3. KnownBounds' /\ FillInFlight'
    BY <1>1, <1>2, <2>1 DEF IInv, KnownBounds, FillInFlight, Known
  <2>4. NoGapBehindKnown'
    BY <1>3, <2>1 DEF IInv, NoGapBehindKnown
  <2>5. last_known \in final' /\ last_known + 1 .. head - 1 \subseteq final'
    BY <1>3, <1>4
  <2>6. ReadyToPublish' /\ KnownDelivered'
    BY <1>1, <2>1, <2>5 DEF ReadyToPublish, KnownDelivered
  <2> QED BY <2>2, <2>3, <2>4, <2>6 DEF IInv
<1>6. CASE held # NoBar
  <2>1. held \in Bars /\ held = head - 1 /\ last_known < held
    BY <1>2, <1>6 DEF IInv, TypeOK
  <2>2. last_known .. held - 1 \subseteq published \cup final'
    BY <1>3, <1>4, <2>1
  <2>3. /\ last_known' = held
        /\ published' \subseteq 0 .. held
        /\ published' \subseteq published \cup {held}
        /\ NoGapBehindKnown'
        /\ held \in published' \/ conn' = "down"
        /\ conn' \in {conn, "down"}
    BY <1>1, <1>3, <2>1, <2>2, PublishStep DEF IInv
  <2>4. TypeOK'
    BY <1>1, <1>3, <2>1, <2>3, TimeAssumption DEF IInv, TypeOK, Times, Bars
  <2>5. seen'
    BY <1>1, <1>2 DEF IInv, KnownBounds
  <2>6. KnownBounds' /\ ReadyToPublish' /\ KnownDelivered' /\ FillInFlight'
    BY <1>1, <1>2, <1>4, <2>1, <2>3, <2>5
    DEF KnownBounds, ReadyToPublish, KnownDelivered, FillInFlight, Known
  <2> QED BY <2>3, <2>4, <2>6 DEF IInv
<1> QED BY <1>5, <1>6

(* Every step preserves the invariant. *)
LEMMA NextIInv == IInv /\ [Next]_vars => IInv'
<1> SUFFICES ASSUME IInv, [Next]_vars PROVE IInv'
  OBVIOUS
<1>1. CASE Tick \/ Connect \/ Disconnect \/ Drained
  BY <1>1, ConnectionStep
<1>2. CASE ReceiveClosed
  <2>1. /\ handler = "idle" /\ conn # "down" /\ head < tail /\ head' = head + 1
        /\ UNCHANGED <<now, tail>>
    BY <1>2 DEF ReceiveClosed
  <2>2. head # NoBar
    BY TimeAssumption DEF IInv, TypeOK, Times, NoBar
  <2>3. CASE Receive(head)
    BY <2>1, <2>3, ReceiveClosedStep
  <2>4. CASE StartGapFill(head)
    BY <1>2, <2>1, <2>2, <2>4, StartStep
  <2> QED BY <1>2, <2>3, <2>4 DEF ReceiveClosed
<1>3. CASE ReceiveOther
  <2>1. handler = "idle" /\ conn # "down" /\ UNCHANGED <<now, head, tail>>
    BY <1>3 DEF ReceiveOther
  <2>2. head # NoBar
    BY TimeAssumption DEF IInv, TypeOK, Times, NoBar
  <2>3. CASE Receive(NoBar)
    BY <2>1, <2>3, ReceiveOtherStep
  <2>4. CASE StartGapFill(NoBar)
    BY <1>3, <2>1, <2>2, <2>4, StartStep
  <2> QED BY <1>3, <2>3, <2>4 DEF ReceiveOther
<1>4. CASE GapFillSucceeds
  BY <1>4, SucceedStep
<1>5. CASE GapFillFails
  BY <1>5, FailStep
<1>6. CASE UNCHANGED vars
  BY <1>6 DEF vars, socket, stream, call, database, IInv, TypeOK, KnownBounds,
     NoGapBehindKnown, ReadyToPublish, KnownDelivered, FillInFlight, Known, NoBar, Times, Bars
<1> QED BY <1>1, <1>2, <1>3, <1>4, <1>5, <1>6 DEF Next

(* The invariant holds throughout. *)
LEMMA IInvAlways == Spec => []IInv
  BY InitIInv, NextIInv, PTL DEF Spec
-----------------------------------------------------------------------------
(* Every variable stays in its range. *)
THEOREM TypeCorrect == Spec => []TypeOK
<1>1. IInv => TypeOK
  BY DEF IInv
<1> QED BY <1>1, IInvAlways, PTL

(* No candle is ever published with a silent gap behind it, whatever       *)
(* connections, gap-fills and subscribers do.                              *)
THEOREM NoSilentGapEver == Spec => []NoSilentGap
<1>1. IInv => NoSilentGap
  <2> SUFFICES ASSUME IInv, NEW c \in published, NEW b \in published, NEW a \in c + 1 .. b - 1
               PROVE  a \in published \cup final
    BY DEF NoSilentGap
  <2>1. c \in Int /\ b \in Int /\ b <= last_known /\ last_known \in Int
    BY TimeAssumption DEF IInv, TypeOK, KnownBounds, Bars, NoBar
  <2> QED BY <2>1 DEF IInv, NoGapBehindKnown
<1> QED BY <1>1, IInvAlways, PTL

(* The next closed bar of a connection in service can be published at      *)
(* once: everything before it is stored.                                   *)
THEOREM ReadyWhileLive == Spec => []ReadyToPublish
<1>1. IInv => ReadyToPublish
  BY DEF IInv
<1> QED BY <1>1, IInvAlways, PTL
=============================================================================
