-------------------------- MODULE ScanFramesProofs --------------------------
EXTENDS ScanFrames, TLAPS

LEMMA DivMod ==
  ASSUME NEW n \in Nat
  PROVE  /\ Rev(n) \in Nat /\ Seg(n) \in 0 .. Segs - 1
         /\ n = Segs * Rev(n) + Seg(n)
BY SegsAssumption DEF Rev, Seg

LEMMA Further ==
  ASSUME NEW x \in Nat, NEW y \in Nat, x < y
  PROVE  Segs * x + Segs <= Segs * y
<1>1. PICK k \in Nat : y = x + 1 + k
  <2>1. y - x - 1 \in Nat /\ y = x + 1 + (y - x - 1)
    OBVIOUS
  <2> QED BY <2>1
<1>2. Segs * y = Segs * x + Segs + Segs * k
  BY <1>1, SegsAssumption
<1>3. Segs * k >= 0 /\ Segs * x \in Int /\ Segs * k \in Int
  BY SegsAssumption
<1> QED BY <1>2, <1>3, SegsAssumption

\* Numbers split into revolution and segment in one way only.
LEMMA Order ==
  ASSUME NEW x \in Nat, NEW y \in Nat, NEW i \in 0 .. Segs - 1, NEW j \in 0 .. Segs - 1, x < y
  PROVE  Segs * x + i < Segs * y + j /\ (i <= j => Segs * x + i + Segs <= Segs * y + j)
<1>1. Segs * x + Segs <= Segs * y
  BY Further
<1>2. Segs * x \in Int /\ Segs * y \in Int /\ i \in Int /\ j \in Int /\ i < Segs /\ 0 <= i /\ 0 <= j /\ Segs \in Nat
  BY SegsAssumption
<1> QED BY <1>1, <1>2

LEMMA Unique ==
  ASSUME NEW n \in Nat, NEW r \in Nat, NEW k \in 0 .. Segs - 1, n = Segs * r + k
  PROVE  Rev(n) = r /\ Seg(n) = k
<1>1. Rev(n) \in Nat /\ Seg(n) \in 0 .. Segs - 1 /\ n = Segs * Rev(n) + Seg(n)
  BY DivMod
<1>2. ~(Rev(n) < r)
  <2> SUFFICES ASSUME Rev(n) < r PROVE FALSE
    OBVIOUS
  <2>1. n < n
    BY <1>1, Order
  <2> QED BY <2>1
<1>3. ~(r < Rev(n))
  <2> SUFFICES ASSUME r < Rev(n) PROVE FALSE
    OBVIOUS
  <2>1. n < n
    BY <1>1, Order
  <2> QED BY <2>1
<1>4. Rev(n) = r
  BY <1>1, <1>2, <1>3
<1>5. Segs * r \in Int
  BY SegsAssumption
<1> QED BY <1>1, <1>4, <1>5

LEMMA SameRev ==
  ASSUME NEW a \in Nat, NEW b \in Nat, a <= b, b < a + Segs, Seg(a) <= Seg(b)
  PROVE  Rev(a) = Rev(b)
<1>1. /\ Rev(a) \in Nat /\ Seg(a) \in 0 .. Segs - 1 /\ a = Segs * Rev(a) + Seg(a)
      /\ Rev(b) \in Nat /\ Seg(b) \in 0 .. Segs - 1 /\ b = Segs * Rev(b) + Seg(b)
  BY DivMod
<1>2. Rev(a) < Rev(b) => a + Segs <= b
  BY <1>1, Order
<1>3. Rev(b) < Rev(a) => b < a
  BY <1>1, Order
<1>4. ~(Rev(a) < Rev(b)) /\ ~(Rev(b) < Rev(a))
  BY <1>2, <1>3, SegsAssumption
<1> QED BY <1>1, <1>4

LEMMA NextSeg ==
  ASSUME NEW n \in Nat
  PROVE  IF Seg(n) = Segs - 1 THEN Seg(n + 1) = 0 /\ Rev(n + 1) = Rev(n) + 1
                              ELSE Seg(n + 1) = Seg(n) + 1 /\ Rev(n + 1) = Rev(n)
<1>1. n = Segs * Rev(n) + Seg(n) /\ Rev(n) \in Nat /\ Seg(n) \in 0 .. Segs - 1
  BY DivMod
<1>2. CASE Seg(n) = Segs - 1
  <2>1. n + 1 = Segs * (Rev(n) + 1) + 0
    BY <1>1, <1>2, SegsAssumption
  <2> QED BY <1>1, <1>2, <2>1, Unique, SegsAssumption
<1>3. CASE Seg(n) # Segs - 1
  <2>1. n + 1 = Segs * Rev(n) + (Seg(n) + 1) /\ Seg(n) + 1 \in 0 .. Segs - 1
    BY <1>1, <1>3, SegsAssumption
  <2> QED BY <1>1, <1>3, <2>1, Unique
<1> QED BY <1>2, <1>3

-----------------------------------------------------------------------------
(* Types.                                                                  *)

LEMMA DeliverableType ==
  ASSUME newest \in Nat, NEW n \in Deliverable
  PROVE  n \in 1 .. MaxTelegram /\ n \in Nat /\ n <= newest + Gap /\ newest - Late <= n
BY NetworkAssumption, BoundAssumption DEF Deliverable

LEMMA CountType ==
  ASSUME NEW n \in Nat
  PROVE  Count(n) \in Int
BY WrapAssumption DEF Count

LEMMA TypeInit == Init => TypeOK
BY BoundAssumption DEF Init, TypeOK

LEMMA TypeNext == TypeOK /\ [Next]_vars => TypeOK'
<1> SUFFICES ASSUME TypeOK, [Next]_vars PROVE TypeOK'
  OBVIOUS
<1> USE DEF TypeOK
<1>1. CASE Restart
  BY <1>1, BoundAssumption DEF Restart
<1>2. ASSUME NEW n \in Deliverable, HandleMsgPackData(n) PROVE TypeOK'
  <2>1. n \in 1 .. MaxTelegram /\ Count(n) \in Int
    BY DeliverableType, CountType
  <2>2. newest' \in 0 .. MaxTelegram /\ streak' \in Nat
    BY <1>2, <2>1 DEF HandleMsgPackData, StartCollection, AppendLidarPoints, Discard, Arrives
  <2>3. CASE StartCollection(n)
    BY <2>1, <2>2, <2>3 DEF StartCollection
  <2>4. CASE AppendLidarPoints(n)
    BY <2>1, <2>2, <2>4 DEF AppendLidarPoints
  <2>5. CASE Discard(n)
    BY <2>1, <2>2, <2>5 DEF Discard
  <2> QED BY <1>2, <2>3, <2>4, <2>5 DEF HandleMsgPackData
<1>3. CASE UNCHANGED vars
  BY <1>3 DEF vars
<1> QED BY <1>1, <1>2, <1>3 DEF Next

\* The variables keep their types.
THEOREM FramesTypeCorrect == Spec => []TypeOK
BY TypeInit, TypeNext, PTL DEF Spec

-----------------------------------------------------------------------------
(* One revolution per cloud.                                               *)

Ordered(q) ==
  \A i, j \in DOMAIN q : Rev(q[i]) = Rev(q[j]) /\ (i < j => q[i] < q[j])

\* The collector's counter is that of its last telegram, which is not old.
Recent ==
  got # <<>> =>
    /\ cnt = Count(got[Len(got)])
    /\ newest - Late <= got[Len(got)] /\ got[Len(got)] <= newest

FrameInv == TypeOK /\ Ordered(got) /\ Recent /\ OneRevolution

LEMMA LastType ==
  ASSUME TypeOK, got # <<>>
  PROVE  Len(got) \in DOMAIN got /\ got[Len(got)] \in 1 .. MaxTelegram /\ got[Len(got)] \in Nat
BY BoundAssumption DEF TypeOK

LEMMA ElementType ==
  ASSUME TypeOK, NEW i \in DOMAIN got
  PROVE  got[i] \in Nat /\ Seg(got[i]) \in 0 .. Segs - 1
<1>1. got[i] \in 1 .. MaxTelegram
  <2> DEFINE S == 1 .. MaxTelegram
  <2>1. got \in Seq(S)
    BY DEF TypeOK
  <2> HIDE DEF S
  <2>2. got[i] \in S
    BY <2>1
  <2> QED BY <2>2 DEF S
<1>2. got[i] \in Nat
  BY <1>1, BoundAssumption
<1> QED BY <1>2, DivMod

\* What is appended belongs to the revolution of the collection.
LEMMA Appended ==
  ASSUME TypeOK, Recent, NEW n \in Deliverable, ~Begins(n), Count(n) > cnt
  PROVE  got # <<>> /\ got[Len(got)] < n /\ Rev(got[Len(got)]) = Rev(n)
<1> DEFINE a == got[Len(got)]
<1>1. got # <<>> /\ cnt > 0 /\ lastSegmentIdx <= Seg(n)
  <2>1. n \in Nat /\ Seg(n) \in Int /\ cnt \in Int
    BY DeliverableType, DivMod DEF TypeOK
  <2>2. lastSegmentIdx \in Int
    BY LastType, DivMod DEF lastSegmentIdx
  <2> QED BY <2>1, <2>2 DEF Begins
<1>2. a \in Nat /\ n \in Nat /\ a <= MaxTelegram /\ n <= MaxTelegram /\ newest \in Nat
  BY <1>1, LastType, DeliverableType DEF TypeOK
<1>3. cnt = Count(a) /\ newest - Late <= a /\ n <= newest + Gap
  BY <1>1, <1>2, DeliverableType DEF Recent
<1>4. a < n
  BY <1>1, <1>2, <1>3, WrapAssumption, BoundAssumption DEF Count
<1>5. n < a + Segs
  BY <1>2, <1>3, NetworkAssumption, SegsAssumption
<1>6. Seg(a) <= Seg(n)
  BY <1>1 DEF lastSegmentIdx
<1> QED BY <1>1, <1>2, <1>4, <1>5, <1>6, SameRev

LEMMA OrderedAppend ==
  ASSUME NEW q \in Seq(Nat), q # <<>>, Ordered(q),
         NEW n \in Nat, q[Len(q)] < n, Rev(q[Len(q)]) = Rev(n)
  PROVE  Ordered(Append(q, n))
<1>1. \A i \in DOMAIN q : q[i] <= q[Len(q)] /\ q[i] \in Nat
  BY DEF Ordered
<1>2. Len(q) \in DOMAIN q /\ q[Len(q)] \in Nat
  OBVIOUS
<1>3. \A i \in DOMAIN q : q[i] < n /\ Rev(q[i]) = Rev(n)
  BY <1>1, <1>2 DEF Ordered
<1> SUFFICES ASSUME NEW i \in 1 .. Len(q) + 1, NEW j \in 1 .. Len(q) + 1
             PROVE  /\ Rev(Append(q, n)[i]) = Rev(Append(q, n)[j])
                    /\ i < j => Append(q, n)[i] < Append(q, n)[j]
  BY DEF Ordered
<1>4. \A k \in 1 .. Len(q) : Append(q, n)[k] = q[k]
  OBVIOUS
<1>5. Append(q, n)[Len(q) + 1] = n
  OBVIOUS
<1>6. CASE i \in 1 .. Len(q) /\ j \in 1 .. Len(q)
  BY <1>4, <1>6 DEF Ordered
<1>7. CASE i \in 1 .. Len(q) /\ j = Len(q) + 1
  BY <1>3, <1>4, <1>5, <1>7
<1>8. CASE i = Len(q) + 1 /\ j \in 1 .. Len(q)
  BY <1>3, <1>4, <1>5, <1>8
<1>9. CASE i = Len(q) + 1 /\ j = Len(q) + 1
  BY <1>9
<1> QED BY <1>6, <1>7, <1>8, <1>9

LEMMA FrameInit == Init => FrameInv
BY TypeInit DEF Init, FrameInv, Ordered, Recent, OneRevolution

LEMMA RecentNext ==
  ASSUME TypeOK, Recent, NEW n \in Deliverable, HandleMsgPackData(n)
  PROVE  Recent'
<1>1. n \in Nat /\ newest - Late <= n /\ newest \in Nat /\ Late \in Nat
  BY DeliverableType, NetworkAssumption DEF TypeOK
<1>2. newest' - Late <= n /\ n <= newest'
  BY <1>1 DEF HandleMsgPackData, StartCollection, AppendLidarPoints, Discard, Arrives
<1>3. CASE StartCollection(n)
  BY <1>2, <1>3 DEF StartCollection, Recent
<1>4. CASE AppendLidarPoints(n)
  <2>1. got' = Append(got, n) /\ cnt' = Count(n) /\ got \in Seq(1 .. MaxTelegram)
    BY <1>4 DEF AppendLidarPoints, TypeOK
  <2>2. got'[Len(got')] = n
    BY <2>1
  <2> QED BY <1>2, <2>1, <2>2 DEF Recent
<1>5. CASE Discard(n)
  BY <1>5 DEF Discard, Recent
<1> QED BY <1>3, <1>4, <1>5 DEF HandleMsgPackData

LEMMA FrameNext == FrameInv /\ [Next]_vars => FrameInv'
<1> SUFFICES ASSUME FrameInv, [Next]_vars PROVE FrameInv'
  OBVIOUS
<1>0. TypeOK /\ TypeOK' /\ Ordered(got) /\ Recent /\ OneRevolution
  BY TypeNext DEF FrameInv
<1>1. CASE Restart
  BY <1>0, <1>1 DEF Restart, FrameInv, Ordered, Recent, OneRevolution, Covered, Segments
<1>2. ASSUME NEW n \in Deliverable, HandleMsgPackData(n) PROVE FrameInv'
  <2>0. n \in Nat /\ got \in Seq(Nat)
    BY <1>0, DeliverableType, BoundAssumption DEF TypeOK
  <2>1. Recent'
    BY <1>0, <1>2, RecentNext
  <2>2. CASE StartCollection(n)
    <3>1. Ordered(got')
      BY <2>2, <2>0 DEF StartCollection, Ordered
    <3>2. OneRevolution'
      BY <1>0, <2>2 DEF StartCollection, OneRevolution, Ordered, Publishable, Covered, Segments
    <3> QED BY <1>0, <2>1, <3>1, <3>2 DEF FrameInv, Ordered
  <2>3. CASE AppendLidarPoints(n)
    <3>1. Ordered(got')
      BY <1>0, <2>0, <2>3, Appended, OrderedAppend DEF AppendLidarPoints
    <3>2. OneRevolution'
      BY <1>0, <2>3 DEF AppendLidarPoints, OneRevolution, Covered, Segments
    <3> QED BY <1>0, <2>1, <3>1, <3>2 DEF FrameInv, Ordered
  <2>4. CASE Discard(n)
    BY <1>0, <2>1, <2>4 DEF Discard, FrameInv, Ordered, OneRevolution, Covered, Segments
  <2> QED BY <1>2, <2>2, <2>3, <2>4 DEF HandleMsgPackData
<1>3. CASE UNCHANGED vars
  BY <1>0, <1>3 DEF vars, FrameInv, Ordered, Recent, OneRevolution, Covered, Segments
<1> QED BY <1>1, <1>2, <1>3 DEF Next

\* Every 360 degree cloud has all segments of the circle, in order and of one
\* revolution (ros_msgpack_publisher.cpp:1054-1101), for any number of
\* segments and any place of the counter's wrap, as long as the telegrams
\* lost in a row and the delay of a late one stay below a revolution.
THEOREM CloudsAreRevolutions == Spec => []OneRevolution
<1>1. FrameInv => OneRevolution
  BY DEF FrameInv
<1> QED BY <1>1, FrameInit, FrameNext, PTL DEF Spec

-----------------------------------------------------------------------------
(* What came through whole is published.                                   *)

\* What arrived in one go since the segment 0 of this revolution is collected.
Whole ==
  streak > Seg(newest) /\ newest < Wrap =>
    /\ got # <<>> /\ got[Len(got)] = newest
    /\ 0 .. Seg(newest) \subseteq Segments(got)

IntactInv == FrameInv /\ streak <= newest /\ Whole /\ IntactPublished

LEMMA SegIncreases ==
  ASSUME NEW a \in Nat, NEW b \in Nat, Rev(a) = Rev(b), a < b
  PROVE  Seg(a) < Seg(b)
<1>1. a = Segs * Rev(a) + Seg(a) /\ b = Segs * Rev(b) + Seg(b) /\ Segs * Rev(a) \in Int
      /\ Seg(a) \in Int /\ Seg(b) \in Int
  BY DivMod, SegsAssumption
<1> QED BY <1>1

\* Segment 0 always begins a collection, if it is not late.
LEMMA ZeroBegins ==
  ASSUME TypeOK, Recent, NEW n \in Deliverable, n > newest, Seg(n) = 0
  PROVE  Begins(n)
<1> DEFINE a == got[Len(got)]
<1> SUFFICES ASSUME ~Begins(n) PROVE FALSE
  OBVIOUS
<1>1. got # <<>> /\ a \in Nat /\ n \in Nat /\ newest \in Nat
  BY LastType, DeliverableType DEF Begins, TypeOK
<1>2. newest - Late <= a /\ a <= newest /\ n <= newest + Gap
  BY <1>1, DeliverableType DEF Recent
<1>3. a < n /\ n < a + Segs
  BY <1>1, <1>2, NetworkAssumption, SegsAssumption
<1>4. Seg(a) = 0
  <2>1. Seg(a) \in 0 .. Segs - 1
    BY <1>1, DivMod
  <2>2. ~(Seg(a) > Seg(n))
    BY <1>1 DEF Begins, lastSegmentIdx
  <2> QED BY <2>1, <2>2
<1>5. Rev(a) = Rev(n)
  BY <1>1, <1>3, <1>4, SameRev
<1> QED BY <1>1, <1>3, <1>4, <1>5, SegIncreases

\* A later segment of a revolution that came through so far does not.
LEMMA LaterContinues ==
  ASSUME TypeOK, Ordered(got), Recent, newest > 0, newest < Wrap,
         got # <<>>, got[Len(got)] = newest, Seg(newest) # Segs - 1
  PROVE  ~Begins(newest + 1)
<1>1. newest \in Nat /\ Seg(newest) \in 0 .. Segs - 1 /\ Seg(newest + 1) = Seg(newest) + 1
  BY NextSeg, DivMod DEF TypeOK
<1>2. cnt = newest
  BY <1>1 DEF Recent, Count
<1>3. lastSegmentIdx = Seg(newest)
  BY DEF lastSegmentIdx
<1>4. \A i \in DOMAIN got : Seg(got[i]) <= Seg(newest)
  <2> SUFFICES ASSUME NEW i \in DOMAIN got PROVE Seg(got[i]) <= Seg(newest)
    OBVIOUS
  <2>1. Len(got) \in DOMAIN got /\ i <= Len(got) /\ i \in Int /\ Len(got) \in Int
    BY LastType DEF TypeOK
  <2>2. got[i] \in Nat /\ Seg(got[i]) \in Int
    BY ElementType, SegsAssumption
  <2>3. CASE i = Len(got)
    BY <1>1, <2>3
  <2>4. CASE i < Len(got)
    <3>1. Rev(got[i]) = Rev(newest) /\ got[i] < newest
      BY <2>1, <2>4 DEF Ordered
    <3> QED BY <1>1, <2>2, <3>1, SegIncreases
  <2> QED BY <2>1, <2>3, <2>4
<1>5. Segs - 1 \notin Segments(got)
  <2>1. Seg(newest) < Segs - 1 /\ Segs \in Int
    BY <1>1, SegsAssumption
  <2>2. \A i \in DOMAIN got : Seg(got[i]) # Segs - 1
    BY <1>1, <1>4, <2>1, ElementType
  <2> QED BY <2>2 DEF Segments
<1>6. ~Covered(got)
  BY <1>5, SegsAssumption DEF Covered
<1> QED BY <1>1, <1>2, <1>3, <1>6 DEF Begins

\* The step to a telegram that follows the newest at once.
LEMMA FollowsWhole ==
  ASSUME IntactInv, newest + 1 \in Deliverable, HandleMsgPackData(newest + 1)
  PROVE  Whole' /\ IntactPublished'
<1> DEFINE n == newest + 1
<1>0. /\ TypeOK /\ Ordered(got) /\ Recent /\ Whole /\ IntactPublished /\ OneRevolution
      /\ newest \in Nat /\ streak \in Nat /\ streak <= newest /\ n \in Nat
  BY DEF IntactInv, FrameInv, TypeOK
<1>1. newest' = n /\ streak' = streak + 1
  BY <1>0 DEF HandleMsgPackData, StartCollection, AppendLidarPoints, Discard, Arrives
<1>2. Seg(newest) \in 0 .. Segs - 1 /\ Rev(newest) \in Nat /\ Seg(n) \in 0 .. Segs - 1 /\ Segs \in Nat
  BY <1>0, DivMod, SegsAssumption
<1>3. CASE Seg(newest) = Segs - 1
  <2>1. Seg(n) = 0 /\ Rev(n) = Rev(newest) + 1
    BY <1>0, <1>3, NextSeg
  <2>2. Begins(n)
    BY <1>0, <2>1, ZeroBegins
  <2>3. got' = <<n>> /\ frame' = IF Publishable THEN got ELSE frame
    BY <2>2 DEF HandleMsgPackData, StartCollection, AppendLidarPoints, Discard
  <2>4. Whole'
    <3>1. Segments(got') = {0} /\ 0 .. Seg(newest') = {0}
      BY <1>1, <2>1, <2>3 DEF Segments
    <3> QED BY <1>1, <2>3, <3>1 DEF Whole
  <2>5. IntactPublished'
    <3> SUFFICES ASSUME streak' > Segs + Seg(n), n <= Wrap
                 PROVE  frame' # <<>> /\ Rev(frame'[1]) = Rev(n) - 1
      BY <1>1 DEF IntactPublished
    <3>1. streak > Seg(newest) /\ newest < Wrap /\ newest > 0
      BY <1>0, <1>1, <1>2, <1>3, <2>1, WrapAssumption
    <3>2. got # <<>> /\ got[Len(got)] = newest /\ 0 .. Segs - 1 \subseteq Segments(got)
      BY <1>0, <1>3, <3>1 DEF Whole
    <3>3. Segments(got) \subseteq 0 .. Segs - 1
      BY <1>0, ElementType DEF Segments
    <3>4. cnt = newest
      BY <1>0, <3>1, <3>2 DEF Recent, Count
    <3>5. Publishable
      BY <3>1, <3>2, <3>3, <3>4 DEF Publishable, Covered
    <3>6. Rev(got[1]) = Rev(newest)
      BY <1>0, <3>2, LastType DEF Ordered, TypeOK
    <3> QED BY <1>2, <2>1, <2>3, <3>2, <3>5, <3>6
  <2> QED BY <2>4, <2>5
<1>4. CASE Seg(newest) # Segs - 1
  <2>1. Seg(n) = Seg(newest) + 1 /\ Rev(n) = Rev(newest)
    BY <1>0, <1>4, NextSeg
  <2>2. ASSUME streak > Seg(newest), newest < Wrap
        PROVE  ~Begins(n) /\ got # <<>> /\ got[Len(got)] = newest /\ newest > 0
    <3>1. newest > 0 /\ got # <<>> /\ got[Len(got)] = newest
      BY <1>0, <1>2, <2>2 DEF Whole
    <3> QED BY <1>0, <1>4, <2>2, <3>1, LaterContinues
  <2>3. Whole'
    <3> SUFFICES ASSUME streak + 1 > Seg(n), n < Wrap
                 PROVE  got' # <<>> /\ got'[Len(got')] = n /\ 0 .. Seg(n) \subseteq Segments(got')
      BY <1>1 DEF Whole
    <3>1. streak > Seg(newest) /\ newest < Wrap
      BY <1>0, <1>2, <2>1, WrapAssumption
    <3>2. ~Begins(n) /\ got # <<>> /\ got[Len(got)] = newest /\ newest > 0
          /\ 0 .. Seg(newest) \subseteq Segments(got)
      BY <1>0, <2>2, <3>1 DEF Whole
    <3>3. Count(n) > cnt
      BY <1>0, <3>1, <3>2 DEF Recent, Count
    <3>4. cnt \in Int /\ Count(n) \in Int
      BY <1>0, CountType DEF TypeOK
    <3>5. got' = Append(got, n) /\ got \in Seq(1 .. MaxTelegram)
      BY <1>0, <3>2, <3>3, <3>4 DEF HandleMsgPackData, StartCollection, AppendLidarPoints, Discard, TypeOK
    <3>6. got' # <<>> /\ got'[Len(got')] = n /\ Len(got') \in DOMAIN got'
      BY <3>5
    <3>7. Segments(got) \subseteq Segments(got')
      <4>1. \A i \in DOMAIN got : i \in DOMAIN got' /\ got'[i] = got[i]
        BY <3>5
      <4> QED BY <4>1 DEF Segments
    <3>8. Seg(n) \in Segments(got')
      BY <3>6 DEF Segments
    <3>9. 0 .. Seg(n) = 0 .. Seg(newest) \cup {Seg(n)}
      BY <1>2, <2>1
    <3> QED BY <3>2, <3>6, <3>7, <3>8, <3>9
  <2>4. IntactPublished'
    <3> SUFFICES ASSUME streak + 1 > Segs + Seg(n), n <= Wrap
                 PROVE  frame' # <<>> /\ Rev(frame'[1]) = Rev(n) - 1
      BY <1>1 DEF IntactPublished
    <3>1. streak > Segs + Seg(newest) /\ streak > Seg(newest) /\ newest < Wrap /\ newest <= Wrap
      BY <1>0, <1>2, <2>1, WrapAssumption
    <3>2. frame' = frame
      BY <2>2, <3>1 DEF HandleMsgPackData, StartCollection, AppendLidarPoints, Discard
    <3> QED BY <1>0, <2>1, <3>1, <3>2 DEF IntactPublished
  <2> QED BY <2>3, <2>4
<1> QED BY <1>3, <1>4

LEMMA IntactInit == Init => IntactInv
<1> SUFFICES ASSUME Init PROVE IntactInv
  OBVIOUS
<1>1. Seg(0) \in 0 .. Segs - 1 /\ Segs \in Nat /\ newest = 0 /\ streak = 0
  BY DivMod, SegsAssumption DEF Init
<1> QED BY <1>1, FrameInit DEF IntactInv, Whole, IntactPublished

LEMMA IntactNext == IntactInv /\ [Next]_vars => IntactInv'
<1> SUFFICES ASSUME IntactInv, [Next]_vars PROVE IntactInv'
  OBVIOUS
<1>0. /\ FrameInv /\ FrameInv' /\ TypeOK /\ TypeOK'
      /\ Recent /\ Whole /\ IntactPublished /\ streak <= newest
  BY FrameNext DEF IntactInv, FrameInv
<1>1. newest' \in Nat /\ Seg(newest') \in 0 .. Segs - 1 /\ Segs \in Nat /\ newest \in Nat /\ streak \in Nat
  BY <1>0, DivMod, SegsAssumption DEF TypeOK
<1>2. CASE Restart
  BY <1>0, <1>1, <1>2 DEF Restart, IntactInv, Whole, IntactPublished
<1>3. ASSUME NEW n \in Deliverable, HandleMsgPackData(n) PROVE IntactInv'
  <2>0. n \in Nat /\ Arrives(n)
    BY <1>1, <1>3, DeliverableType DEF HandleMsgPackData, StartCollection, AppendLidarPoints, Discard
  <2>1. CASE n = newest + 1
    <3>1. Whole' /\ IntactPublished'
      BY <1>3, <2>1, FollowsWhole
    <3>2. streak' <= newest'
      BY <1>0, <1>1, <2>0, <2>1 DEF Arrives
    <3> QED BY <1>0, <3>1, <3>2 DEF IntactInv
  <2>2. CASE n > newest + 1
    <3>1. newest' = n /\ streak' = 1
      BY <1>1, <2>0, <2>2 DEF Arrives
    <3>2. IntactPublished'
      BY <1>1, <3>1, SegsAssumption DEF IntactPublished
    <3>3. Whole'
      <4> SUFFICES ASSUME Seg(n) = 0 PROVE Whole'
        BY <1>1, <3>1 DEF Whole
      <4>1. got' = <<n>>
        BY <1>0, <1>1, <1>3, <2>0, <2>2, ZeroBegins
           DEF HandleMsgPackData, StartCollection, AppendLidarPoints, Discard
      <4>2. Segments(got') = {0} /\ 0 .. Seg(n) = {0}
        BY <4>1 DEF Segments
      <4> QED BY <3>1, <4>1, <4>2 DEF Whole
    <3> QED BY <1>0, <1>1, <2>0, <2>2, <3>1, <3>2, <3>3 DEF IntactInv
  <2>3. CASE n <= newest
    <3>1. newest' = newest /\ streak' = 0
      BY <1>1, <2>0, <2>3 DEF Arrives
    <3> QED BY <1>0, <1>1, <3>1 DEF IntactInv, Whole, IntactPublished
  <2> QED BY <1>1, <2>0, <2>1, <2>2, <2>3
<1>4. CASE UNCHANGED vars
  BY <1>0, <1>4 DEF vars, IntactInv, Whole, IntactPublished, Segments
<1> QED BY <1>2, <1>3, <1>4 DEF Next

\* A revolution of which every telegram came through in one go, together with
\* the start of the next one, is published (ros_msgpack_publisher.cpp:1054-1082).
THEOREM WholeRevolutionsPublished == Spec => []IntactPublished
<1>1. IntactInv => IntactPublished
  BY DEF IntactInv
<1> QED BY <1>1, IntactInit, IntactNext, PTL DEF Spec
=============================================================================
