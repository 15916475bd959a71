----------------------------- MODULE ScanFrames -----------------------------
(***************************************************************************)
(* How the publisher of the multiScan driver puts 360 degree clouds        *)
(* together (RosMsgpackPublisher::HandleMsgPackData).  The device sends a  *)
(* telegram per segment, numbered from power up; Segs of them make one     *)
(* revolution.  Telegrams get lost on the way, in the Fifos (LossyChannel) *)
(* or are repeated by the network; the collector must still never build a  *)
(* cloud out of two revolutions, and must publish each one that came       *)
(* through whole.                                                          *)
(***************************************************************************)
EXTENDS Integers, Sequences

CONSTANTS
  Segs,          \* segments per revolution; 12 for the multiScan
  Gap,           \* bound: the next telegram is at most Gap ahead: Gap - 1 are lost in a row
  Late,          \* bound: a telegram repeated or overtaken is at most Late behind
  Wrap,          \* the counter is cast to an int: 2^31
  MaxTelegram    \* bound: telegrams since power up

ASSUME SegsAssumption == Segs \in Nat \ {0}
ASSUME NetworkAssumption == Gap \in Nat /\ Late \in Nat /\ Gap > 0 /\ Gap + Late < Segs
ASSUME WrapAssumption == Wrap \in Nat /\ Segs < Wrap
ASSUME BoundAssumption == MaxTelegram \in Nat /\ MaxTelegram < 2 * Wrap

VARIABLES
  newest,        \* highest number delivered since power up, 0 for none
  cnt,           \* m_points_collector.telegram_cnt
  got,           \* the telegrams in m_points_collector (segment_list, telegram_list)
  frame,         \* the last 360 degree cloud published, as the telegrams in it
  streak         \* telegrams delivered one after the other up to the newest

vars == <<newest, cnt, got, frame, streak>>

Seg(n) == n % Segs
Rev(n) == n \div Segs

\* static_cast<int>(telegramCounter), up to its return to positive numbers.
Count(n) == IF n < Wrap THEN n ELSE n - 2 * Wrap

TypeOK ==
  /\ newest \in 0 .. MaxTelegram
  /\ cnt \in Int
  /\ got \in Seq(1 .. MaxTelegram)
  /\ frame \in Seq(1 .. MaxTelegram)
  /\ streak \in Nat

Init ==
  /\ newest = 0 /\ cnt = 0
  /\ got = <<>> /\ frame = <<>>
  /\ streak = 0

-----------------------------------------------------------------------------
(* The collector.                                                          *)

Segments(q) == {Seg(q[i]) : i \in DOMAIN q}

\* allSegmentsCovered: every azimuth of the circle is in some segment.
Covered(q) == Segments(q) = 0 .. Segs - 1

lastSegmentIdx == IF got = <<>> THEN -1 ELSE Seg(got[Len(got)])

Publishable == got # <<>> /\ cnt > 0 /\ Covered(got)

(* slip: only when the cloud is complete *)
BeginsOnlyAfter(n) == got = <<>> \/ cnt <= 0 \/ Covered(got)

\* A new collection begins at the first telegram, after a whole revolution
\* and when the segment index falls back.
Begins(n) == got = <<>> \/ cnt <= 0 \/ Covered(got) \/ lastSegmentIdx > Seg(n)

Arrives(n) ==
  /\ newest' = IF n > newest THEN n ELSE newest
  /\ streak' = IF n = newest + 1 THEN streak + 1 ELSE IF n > newest THEN 1 ELSE 0

(* slip: the telegram that completes nothing is left out *)
StartCollectionLate(n) ==
  /\ Begins(n) /\ Arrives(n)
  /\ frame' = IF Publishable THEN got ELSE frame
  /\ cnt' = Count(n)
  /\ got' = IF Publishable THEN <<>> ELSE <<n>>

StartCollection(n) ==
  /\ Begins(n) /\ Arrives(n)
  /\ frame' = IF Publishable THEN got ELSE frame
  /\ cnt' = Count(n) /\ got' = <<n>>

AppendLidarPoints(n) ==
  /\ ~Begins(n) /\ Count(n) > cnt /\ Arrives(n)
  /\ cnt' = Count(n) /\ got' = Append(got, n)
  /\ UNCHANGED frame

\* A repeated or overtaken telegram throws the collection away.
Discard(n) ==
  /\ ~Begins(n) /\ Count(n) <= cnt /\ Arrives(n)
  /\ cnt' = Count(n) /\ got' = <<>>
  /\ UNCHANGED frame

HandleMsgPackData(n) == StartCollection(n) \/ AppendLidarPoints(n) \/ Discard(n)

\* What the network and the Fifos make of the stream.
Deliverable == {n \in newest - Late .. newest + Gap : n > 0 /\ n <= MaxTelegram}

\* The driver takes itself down and starts again (ScanPipeline) with a new
\* publisher; the device may have been switched off and on meanwhile.
Restart ==
  /\ cnt' = 0 /\ got' = <<>> /\ streak' = 0
  /\ newest' \in {newest, 0}
  /\ UNCHANGED frame

Next == Restart \/ \E n \in Deliverable : HandleMsgPackData(n)

Spec == Init /\ [][Next]_vars

-----------------------------------------------------------------------------
(* Properties.                                                             *)

\* A published cloud has every segment, once and in order, and all of one
\* revolution, as long as fewer than Segs - 1 telegrams in a row are missing
\* (ros_msgpack_publisher.cpp:1054-1101).
OneRevolution ==
  /\ frame # <<>> => Covered(frame)
  /\ \A i, j \in DOMAIN frame : Rev(frame[i]) = Rev(frame[j]) /\ (i < j => frame[i] < frame[j])

\* When all telegrams since the start of the previous revolution came through
\* one after the other, that revolution is the one published last, unless the
\* counter has become negative (ros_msgpack_publisher.cpp:1054-1082).
IntactPublished ==
  streak > Segs + Seg(newest) /\ newest <= Wrap =>
    frame # <<>> /\ Rev(frame[1]) = Rev(newest) - 1
=============================================================================
