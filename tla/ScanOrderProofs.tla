-------------------------- MODULE ScanOrderProofs --------------------------
(***************************************************************************)
(* The messages on their way through ScanPipeline, and the theorems about  *)
(* their order: what is closer to the subscriber is older.                 *)
(***************************************************************************)
EXTENDS ScanPipelineProofs

USE DEF main, threads, fifos, env, traffic

Items(q) == {q[i] : i \in DOMAIN q}
Held(t) == IF hand[t] = <<>> THEN {} ELSE {hand[t][1]}
Received == UNION {Held(s) : s \in Streams}

Older(A, B) == \A a \in A, b \in B : a.src = b.src => a.n < b.n
Sorted(q) == \A i, j \in DOMAIN q : i < j /\ q[i].src = q[j].src => q[i].n < q[j].n

\* The five places of a message, from the subscriber back to the sockets.
Chain(X, O, C, I, R) ==
  /\ Older(X, O \cup C \cup I \cup R)
  /\ Older(O, C \cup I \cup R)
  /\ Older(C, I \cup R)
  /\ Older(I, R)

InFlight == Held("exp") \cup Items(outq) \cup Held("conv") \cup Items(inq) \cup Received

Fresh(m) ==
  /\ m \in Messages
  /\ last[m.src] < m.n /\ epoch[m.src] < m.n /\ m.n <= arrived[m.src]

Ordered ==
  /\ Chain(Held("exp"), Items(outq), Held("conv"), Items(inq), Received)
  /\ Sorted(inq) /\ Sorted(outq)
  /\ \A s \in Streams : \A m \in Held(s) : m.src = s
  /\ \A m \in InFlight : Fresh(m)
  /\ \A s \in Streams : last[s] <= arrived[s] /\ epoch[s] <= arrived[s]

FlowInv == StageInv /\ Ordered

-----------------------------------------------------------------------------
(* Sequences and sets of messages.                                         *)

LEMMA NoItems == Items(<<>>) = {} /\ Sorted(<<>>)
BY DEF Items, Sorted

LEMMA HeadItem ==
  ASSUME NEW q \in Seq(Messages), q # <<>>, Sorted(q)
  PROVE  /\ q[1] \in Items(q) /\ q[1] \in Messages
         /\ Items(Tail(q)) \subseteq Items(q)
         /\ Sorted(Tail(q))
         /\ Older({q[1]}, Items(Tail(q)))
<1>1. /\ 1 \in DOMAIN q /\ q[1] \in Messages
      /\ \A i \in DOMAIN Tail(q) : i \in Nat /\ i + 1 \in DOMAIN q /\ 1 < i + 1 /\ Tail(q)[i] = q[i + 1]
  OBVIOUS
<1>2. Items(Tail(q)) \subseteq Items(q)
  BY <1>1 DEF Items
<1>3. Sorted(Tail(q))
  <2> SUFFICES ASSUME NEW i \in DOMAIN Tail(q), NEW j \in DOMAIN Tail(q), i < j,
                      Tail(q)[i].src = Tail(q)[j].src
               PROVE  Tail(q)[i].n < Tail(q)[j].n
    BY DEF Sorted
  <2>1. i + 1 < j + 1
    BY <1>1
  <2> QED BY <1>1, <2>1 DEF Sorted
<1>4. Older({q[1]}, Items(Tail(q)))
  BY <1>1 DEF Older, Items, Sorted
<1> QED BY <1>1, <1>2, <1>3, <1>4 DEF Items

LEMMA PushItem ==
  ASSUME NEW q \in Seq(Messages), NEW m \in Messages, Sorted(q), Older(Items(q), {m})
  PROVE  Items(Push(q, m)) \subseteq Items(q) \cup {m} /\ Sorted(Push(q, m))
<1> DEFINE a == Append(q, m)
<1>1. /\ a \in Seq(Messages) /\ a # <<>>
      /\ \A i \in DOMAIN a : \/ i \in DOMAIN q /\ a[i] = q[i]
                             \/ i = Len(q) + 1 /\ a[i] = m
      /\ \A i \in DOMAIN q : i \in Nat /\ i < Len(q) + 1
  OBVIOUS
<1>2. Items(a) \subseteq Items(q) \cup {m}
  BY <1>1 DEF Items
<1>3. Sorted(a)
  <2> SUFFICES ASSUME NEW i \in DOMAIN a, NEW j \in DOMAIN a, i < j, a[i].src = a[j].src
               PROVE  a[i].n < a[j].n
    BY DEF Sorted
  <2>0. Len(q) \in Nat
    OBVIOUS
  <2>1. i \in DOMAIN q /\ a[i] = q[i] /\ q[i] \in Items(q)
    BY <1>1, <2>0 DEF Items
  <2>2. CASE j \in DOMAIN q /\ a[j] = q[j]
    BY <2>1, <2>2 DEF Sorted
  <2>3. CASE a[j] = m
    BY <2>1, <2>3 DEF Older
  <2> QED BY <1>1, <2>2, <2>3
<1> HIDE DEF a
<1>4. Items(Tail(a)) \subseteq Items(a) /\ Sorted(Tail(a))
  BY <1>1, <1>3, HeadItem
<1>5. Push(q, m) \in {a, Tail(a)}
  BY DEF Push, DropOldest, a
<1> QED BY <1>2, <1>3, <1>4, <1>5

\* Messages may be lost anywhere.
LEMMA ChainShrinks ==
  ASSUME NEW X, NEW O, NEW C, NEW I, NEW R, Chain(X, O, C, I, R),
         NEW X2 \in SUBSET X, NEW O2 \in SUBSET O, NEW C2 \in SUBSET C, NEW I2 \in SUBSET I,
         NEW R2 \in SUBSET R
  PROVE  Chain(X2, O2, C2, I2, R2)
BY DEF Chain, Older

LEMMA ChainGrows ==
  ASSUME NEW X, NEW O, NEW C, NEW I, NEW R, Chain(X, O, C, I, R),
         NEW m, Older(X \cup O \cup C \cup I, {m})
  PROVE  Chain(X, O, C, I, R \cup {m})
BY DEF Chain, Older

\* A message goes from one place to the next.
LEMMA ChainPush ==
  ASSUME NEW X, NEW O, NEW C, NEW I, NEW R, Chain(X, O, C, I, R),
         NEW m \in R, NEW R2 \in SUBSET R, \A r \in R2 : r.src # m.src,
         NEW I2 \in SUBSET (I \cup {m})
  PROVE  Chain(X, O, C, I2, R2)
BY DEF Chain, Older

LEMMA ChainPop ==
  ASSUME NEW X, NEW O, NEW I, NEW R, Chain(X, O, {}, I, R),
         NEW m \in I, NEW I2 \in SUBSET I, Older({m}, I2)
  PROVE  Chain(X, O, {m}, I2, R)
BY DEF Chain, Older

LEMMA ChainConvert ==
  ASSUME NEW X, NEW O, NEW I, NEW R, NEW m, Chain(X, O, {m}, I, R),
         NEW O2 \in SUBSET (O \cup {m})
  PROVE  Chain(X, O2, {}, I, R)
BY DEF Chain, Older

LEMMA ChainTake ==
  ASSUME NEW O, NEW C, NEW I, NEW R, Chain({}, O, C, I, R),
         NEW m \in O, NEW O2 \in SUBSET O, Older({m}, O2)
  PROVE  Chain({m}, O2, C, I, R)
BY DEF Chain, Older

-----------------------------------------------------------------------------
(* Every step keeps the order.                                             *)

LEMMA OrderInit == Init => Ordered
<1> SUFFICES ASSUME Init PROVE Ordered
  OBVIOUS
<1>1. \A t \in Threads : Held(t) = {}
  BY DEF Init, Held
<1>2. Items(inq) = {} /\ Items(outq) = {} /\ Sorted(inq) /\ Sorted(outq)
  BY NoItems DEF Init
<1>3. Held("exp") = {} /\ Held("conv") = {} /\ Received = {}
  BY <1>1, ThreadNames DEF Received
<1>4. \A s \in Streams : last[s] <= arrived[s] /\ epoch[s] <= arrived[s]
  <2> SUFFICES ASSUME NEW s \in Streams PROVE last[s] <= arrived[s] /\ epoch[s] <= arrived[s]
    OBVIOUS
  <2>1. arrived[s] = 0 /\ last[s] = 0 /\ epoch[s] = 0
    BY DEF Init
  <2> QED BY <2>1
<1> QED BY <1>1, <1>2, <1>3, <1>4, ThreadNames DEF Ordered, Chain, Older, InFlight

\* Steps that at most drop messages.
LEMMA DropsKeep ==
  ASSUME Ordered, inq' \in {inq, <<>>}, outq' \in {outq, <<>>},
         \A t \in Threads : hand'[t] \in {hand[t], <<>>},
         UNCHANGED <<arrived, last, epoch>>
  PROVE  Ordered'
<1>1. \A t \in Threads : Held(t)' \subseteq Held(t)
  BY DEF Held
<1>2. Items(inq)' \subseteq Items(inq) /\ Items(outq)' \subseteq Items(outq) /\ Sorted(inq)' /\ Sorted(outq)'
  BY NoItems DEF Ordered
<1>3. Held("exp")' \subseteq Held("exp") /\ Held("conv")' \subseteq Held("conv") /\ Received' \subseteq Received
  BY <1>1, ThreadNames DEF Received
<1>4. Chain(Held("exp"), Items(outq), Held("conv"), Items(inq), Received)'
  <2>1. Chain(Held("exp")', Items(outq)', Held("conv")', Items(inq)', Received')
    BY <1>2, <1>3, ChainShrinks DEF Ordered
  <2> QED BY <2>1 DEF Chain
<1>5. \A s \in Streams : \A m \in Held(s)' : m.src = s
  BY <1>1, ThreadNames DEF Ordered
<1>6. \A m \in InFlight' : Fresh(m)'
  BY <1>2, <1>3 DEF Ordered, InFlight, Fresh
<1>7. \A s \in Streams : last'[s] <= arrived'[s] /\ epoch'[s] <= arrived'[s]
  BY DEF Ordered
<1> QED BY <1>2, <1>4, <1>5, <1>6, <1>7 DEF Ordered

\* The hands a step leaves alone.
LEMMA OtherHands ==
  ASSUME TypeHands, NEW t \in Threads, NEW h, hand' = [hand EXCEPT ![t] = h]
  PROVE  /\ \A u \in Threads : u # t => Held(u)' = Held(u)
         /\ Held(t)' = IF h = <<>> THEN {} ELSE {h[1]}
BY DEF TypeHands, Held

LEMMA ReceiveOrders ==
  ASSUME FlowInv, NEW s \in Streams, Receive(s)
  PROVE  Ordered'
<1>0. TypeHands /\ TypeTraffic /\ Hands /\ Ordered
  BY TypeGroups DEF FlowInv, StageInv
<1>b. [src |-> s, n |-> arrived[s] + 1] \in Messages
  BY <1>0 DEF TypeTraffic, Messages
<1>1. PICK m \in Messages : m = [src |-> s, n |-> arrived[s] + 1]
  BY <1>b
<1>a. m.src = s /\ m.n = arrived[s] + 1
  BY <1>1
<1>2. /\ UNCHANGED <<inq, outq, last, epoch>>
      /\ arrived' = [arrived EXCEPT ![s] = @ + 1]
      /\ th[s] = "recv" /\ hand' = [hand EXCEPT ![s] = <<m>>]
  <2>1. hand' = [hand EXCEPT ![s] = <<[src |-> s, n |-> arrived[s] + 1]>>]
    BY <1>0 DEF Receive, TypeHands
  <2> QED BY <1>1, <2>1 DEF Receive, Moves
<1>3. Held(s) = {}
  BY <1>0, <1>2, ThreadNames DEF Hands, Held
<1>4. Held(s)' = {m} /\ \A u \in Threads : u # s => Held(u)' = Held(u)
  <2>1. Held(s)' = IF <<m>> = <<>> THEN {} ELSE {<<m>>[1]}
    BY <1>0, <1>2, ThreadNames, OtherHands
  <2> QED BY <2>1, <1>0, <1>2, ThreadNames, OtherHands
<1>5. Held("exp")' = Held("exp") /\ Held("conv")' = Held("conv") /\ Received' = Received \cup {m}
  BY <1>3, <1>4, ThreadNames DEF Received
<1>6. \A a \in InFlight : a \in Messages /\ (a.src = s => a.n < m.n)
  BY <1>0, <1>a DEF Ordered, Fresh, TypeTraffic, Messages
<1>7. Items(inq)' = Items(inq) /\ Items(outq)' = Items(outq) /\ Sorted(inq)' /\ Sorted(outq)'
  BY <1>0, <1>2 DEF Ordered
<1>8. Chain(Held("exp"), Items(outq), Held("conv"), Items(inq), Received \cup {m})
  BY <1>0, <1>a, <1>6, ChainGrows DEF Ordered, Older, InFlight
<1>9. Chain(Held("exp"), Items(outq), Held("conv"), Items(inq), Received)'
  BY <1>5, <1>7, <1>8 DEF Chain
<1>10. \A u \in Streams : \A a \in Held(u)' : a.src = u
  BY <1>0, <1>a, <1>4, ThreadNames DEF Ordered
<1>11. InFlight' = InFlight \cup {m}
  BY <1>5, <1>7 DEF InFlight
<1>12. Fresh(m)'
  <2>1. last[s] \in Nat /\ epoch[s] \in Nat /\ arrived[s] \in Nat /\ arrived'[s] = arrived[s] + 1
    BY <1>0, <1>2 DEF TypeTraffic
  <2>2. last[s] <= arrived[s] /\ epoch[s] <= arrived[s]
    BY <1>0 DEF Ordered
  <2> QED BY <1>a, <1>2, <2>1, <2>2 DEF Fresh
<1>14. \A u \in Streams : last'[u] <= arrived'[u] /\ epoch'[u] <= arrived'[u]
  <2> SUFFICES ASSUME NEW u \in Streams PROVE last'[u] <= arrived'[u] /\ epoch'[u] <= arrived'[u]
    OBVIOUS
  <2>1. last[u] \in Nat /\ epoch[u] \in Nat /\ arrived[u] \in Nat /\ arrived'[u] \in {arrived[u], arrived[u] + 1}
    BY <1>0, <1>2 DEF TypeTraffic
  <2>2. last[u] <= arrived[u] /\ epoch[u] <= arrived[u]
    BY <1>0 DEF Ordered
  <2> QED BY <1>2, <2>1, <2>2
<1>13. \A a \in InFlight : Fresh(a)'
  <2> SUFFICES ASSUME NEW a \in InFlight PROVE Fresh(a)'
    OBVIOUS
  <2>1. Fresh(a) /\ a.src \in Streams /\ a.n \in Nat
    BY <1>0 DEF Ordered, Fresh, Messages
  <2>2. arrived'[a.src] \in {arrived[a.src], arrived[a.src] + 1} /\ arrived[a.src] \in Nat
    BY <1>0, <1>2, <2>1 DEF TypeTraffic
  <2>3. a.n <= arrived[a.src]
    BY <2>1 DEF Fresh
  <2>4. a.n <= arrived'[a.src]
    BY <2>1, <2>2, <2>3
  <2> QED BY <1>2, <2>1, <2>4 DEF Fresh
<1> QED BY <1>7, <1>9, <1>10, <1>11, <1>12, <1>13, <1>14 DEF Ordered

LEMMA MovesKeep ==
  ASSUME Ordered, UNCHANGED <<arrived, last, epoch>>, InFlight' \subseteq InFlight,
         Chain(Held("exp")', Items(outq)', Held("conv")', Items(inq)', Received'),
         Sorted(inq'), Sorted(outq'),
         \A s \in Streams : Held(s)' \subseteq Held(s)
  PROVE  Ordered'
<1>1. Chain(Held("exp"), Items(outq), Held("conv"), Items(inq), Received)'
  BY DEF Chain
<1>2. \A m \in InFlight' : Fresh(m)'
  BY DEF Ordered, Fresh
<1>3. \A s \in Streams : last'[s] <= arrived'[s] /\ epoch'[s] <= arrived'[s]
  BY DEF Ordered
<1>4. \A s \in Streams : \A m \in Held(s)' : m.src = s
  BY DEF Ordered
<1> QED BY <1>1, <1>2, <1>3, <1>4 DEF Ordered

LEMMA PushInputOrders ==
  ASSUME FlowInv, NEW s \in Streams, PushInput(s)
  PROVE  Ordered'
<1>0. TypeHands /\ TypeFifos /\ Hands /\ Ordered
  BY TypeGroups DEF FlowInv, StageInv
<1>1. hand[s] # <<>>
  BY <1>0, ThreadNames DEF PushInput, Moves, Hands
<1>2. PICK m \in Messages : m = hand[s][1] /\ m \in Held(s)
  BY <1>0, <1>1, ThreadNames, HandType DEF Held
<1>3. /\ UNCHANGED <<outq, arrived, last, epoch>>
      /\ inq' = Push(inq, m) /\ hand' = [hand EXCEPT ![s] = <<>>]
  BY <1>2 DEF PushInput
<1>4. Held(s)' = {} /\ \A u \in Threads : u # s => Held(u)' = Held(u)
  BY <1>0, <1>3, ThreadNames, OtherHands
<1>5. Held("exp")' = Held("exp") /\ Held("conv")' = Held("conv") /\ Received' \subseteq Received /\ m \in Received
  BY <1>2, <1>4, ThreadNames DEF Received
<1>6. \A r \in Received' : r.src # m.src
  BY <1>0, <1>2, <1>4, ThreadNames DEF Ordered, Received
<1>7. Older(Items(inq), {m})
  BY <1>0, <1>5 DEF Ordered, Chain, Older
<1>8. Items(inq') \subseteq Items(inq) \cup {m} /\ Sorted(inq')
  BY <1>0, <1>3, <1>7, PushItem DEF Ordered, TypeFifos
<1>9. Chain(Held("exp"), Items(outq), Held("conv"), Items(inq'), Received')
  BY <1>0, <1>5, <1>6, <1>8, ChainPush DEF Ordered
<1>10. Chain(Held("exp")', Items(outq)', Held("conv")', Items(inq)', Received')
  BY <1>3, <1>5, <1>9
<1>11. InFlight' \subseteq InFlight
  BY <1>3, <1>5, <1>8 DEF InFlight
<1>12. \A u \in Streams : Held(u)' \subseteq Held(u)
  BY <1>4, ThreadNames
<1>13. Sorted(outq')
  BY <1>0, <1>3 DEF Ordered
<1> QED BY <1>0, <1>3, <1>8, <1>10, <1>11, <1>12, <1>13, MovesKeep

LEMMA PopInputOrders ==
  ASSUME FlowInv, PopInput
  PROVE  Ordered'
<1>0. TypeHands /\ TypeFifos /\ Hands /\ Ordered
  BY TypeGroups DEF FlowInv, StageInv
<1>1. inq # <<>> /\ th["conv"] = "pop"
  BY DEF PopInput, CanPop, Moves
<1>2. PICK m \in Messages : m = inq[1]
  BY <1>0, <1>1, PopType DEF TypeFifos
<1>3. /\ UNCHANGED <<outq, arrived, last, epoch>>
      /\ inq' = Tail(inq) /\ hand' = [hand EXCEPT !["conv"] = <<m>>]
  BY <1>2 DEF PopInput
<1>4. Held("conv")' = {m} /\ \A u \in Threads : u # "conv" => Held(u)' = Held(u)
  <2>1. Held("conv")' = IF <<m>> = <<>> THEN {} ELSE {<<m>>[1]}
    BY <1>0, <1>3, ThreadNames, OtherHands
  <2> QED BY <2>1, <1>0, <1>3, ThreadNames, OtherHands
<1>5. Held("exp")' = Held("exp") /\ Held("conv") = {} /\ Received' = Received
  <2>1. Held("conv") = {}
    BY <1>0, <1>1, ThreadNames DEF Hands, Held
  <2> QED BY <2>1, <1>4, ThreadNames DEF Received
<1>6. m \in Items(inq) /\ Items(inq') \subseteq Items(inq) /\ Sorted(inq') /\ Older({m}, Items(inq'))
  BY <1>0, <1>1, <1>2, <1>3, HeadItem DEF Ordered, TypeFifos
<1>7. Chain(Held("exp"), Items(outq), {}, Items(inq), Received)
  BY <1>0, <1>5 DEF Ordered
<1>8. Chain(Held("exp"), Items(outq), {m}, Items(inq'), Received)
  BY <1>6, <1>7, ChainPop
<1>9. Chain(Held("exp")', Items(outq)', Held("conv")', Items(inq)', Received')
  BY <1>3, <1>4, <1>5, <1>8
<1>10. InFlight' \subseteq InFlight
  BY <1>3, <1>4, <1>5, <1>6 DEF InFlight
<1>11. \A u \in Streams : Held(u)' \subseteq Held(u)
  BY <1>4, ThreadNames
<1>12. Sorted(outq')
  BY <1>0, <1>3 DEF Ordered
<1> QED BY <1>0, <1>3, <1>6, <1>9, <1>10, <1>11, <1>12, MovesKeep

LEMMA ConvertOrders ==
  ASSUME FlowInv, Convert
  PROVE  Ordered'
<1>0. TypeHands /\ TypeFifos /\ Hands /\ Ordered
  BY TypeGroups DEF FlowInv, StageInv
<1>1. hand["conv"] # <<>>
  BY <1>0, ThreadNames DEF Convert, Moves, Hands
<1>2. PICK m \in Messages : m = hand["conv"][1] /\ Held("conv") = {m}
  BY <1>0, <1>1, ThreadNames, HandType DEF Held
<1>3. /\ UNCHANGED <<inq, arrived, last, epoch>>
      /\ outq' = Push(outq, m) \/ outq' = outq
      /\ hand' = [hand EXCEPT !["conv"] = <<>>]
  BY <1>2 DEF Convert
<1>4. Held("conv")' = {} /\ \A u \in Threads : u # "conv" => Held(u)' = Held(u)
  BY <1>0, <1>3, ThreadNames, OtherHands
<1>5. Held("exp")' = Held("exp") /\ Received' = Received
  BY <1>4, ThreadNames DEF Received
<1>6. Older(Items(outq), {m})
  BY <1>0, <1>2 DEF Ordered, Chain, Older
<1>7. Items(outq') \subseteq Items(outq) \cup {m} /\ Sorted(outq')
  BY <1>0, <1>3, <1>6, PushItem DEF Ordered, TypeFifos
<1>8. Chain(Held("exp"), Items(outq), {m}, Items(inq), Received)
  BY <1>0, <1>2 DEF Ordered
<1>9. Chain(Held("exp"), Items(outq'), {}, Items(inq), Received)
  BY <1>7, <1>8, ChainConvert
<1>10. Chain(Held("exp")', Items(outq)', Held("conv")', Items(inq)', Received')
  BY <1>3, <1>4, <1>5, <1>9
<1>11. InFlight' \subseteq InFlight
  BY <1>2, <1>3, <1>4, <1>5, <1>7 DEF InFlight
<1>12. \A u \in Streams : Held(u)' \subseteq Held(u)
  BY <1>4, ThreadNames
<1>13. Sorted(inq')
  BY <1>0, <1>3 DEF Ordered
<1> QED BY <1>0, <1>3, <1>7, <1>10, <1>11, <1>12, <1>13, MovesKeep

LEMMA PopOutputOrders ==
  ASSUME FlowInv, PopOutput
  PROVE  Ordered'
<1>0. TypeHands /\ TypeFifos /\ Hands /\ Ordered
  BY TypeGroups DEF FlowInv, StageInv
<1>1. outq # <<>> /\ th["exp"] = "pop"
  BY DEF PopOutput, CanPop, Moves
<1>2. PICK m \in Messages : m = outq[1]
  BY <1>0, <1>1, PopType DEF TypeFifos
<1>3. /\ UNCHANGED <<inq, arrived, last, epoch>>
      /\ outq' = Tail(outq) /\ hand' = [hand EXCEPT !["exp"] = <<m>>]
  BY <1>2 DEF PopOutput
<1>4. Held("exp")' = {m} /\ \A u \in Threads : u # "exp" => Held(u)' = Held(u)
  <2>1. Held("exp")' = IF <<m>> = <<>> THEN {} ELSE {<<m>>[1]}
    BY <1>0, <1>3, ThreadNames, OtherHands
  <2> QED BY <2>1, <1>0, <1>3, ThreadNames, OtherHands
<1>5. Held("conv")' = Held("conv") /\ Held("exp") = {} /\ Received' = Received
  <2>1. Held("exp") = {}
    BY <1>0, <1>1, ThreadNames DEF Hands, Held
  <2> QED BY <2>1, <1>4, ThreadNames DEF Received
<1>6. m \in Items(outq) /\ Items(outq') \subseteq Items(outq) /\ Sorted(outq') /\ Older({m}, Items(outq'))
  BY <1>0, <1>1, <1>2, <1>3, HeadItem DEF Ordered, TypeFifos
<1>7. Chain({}, Items(outq), Held("conv"), Items(inq), Received)
  BY <1>0, <1>5 DEF Ordered
<1>8. Chain({m}, Items(outq'), Held("conv"), Items(inq), Received)
  BY <1>6, <1>7, ChainTake
<1>9. Chain(Held("exp")', Items(outq)', Held("conv")', Items(inq)', Received')
  BY <1>3, <1>4, <1>5, <1>8
<1>10. InFlight' \subseteq InFlight
  BY <1>3, <1>4, <1>5, <1>6 DEF InFlight
<1>11. \A u \in Streams : Held(u)' \subseteq Held(u)
  BY <1>4, ThreadNames
<1>12. Sorted(inq')
  BY <1>0, <1>3 DEF Ordered
<1> QED BY <1>0, <1>3, <1>6, <1>9, <1>10, <1>11, <1>12, MovesKeep

\* The message the exporter hands to the publisher: it is older than all the
\* others of its stream, and newer than the last one.
LEMMA InTheHand ==
  ASSUME FlowInv, CallListener
  PROVE  \E m \in Messages :
           /\ Held("exp") = {m} /\ Fresh(m)
           /\ \A a \in InFlight \ {m} : a.src = m.src => m.n < a.n
           /\ hand' = [hand EXCEPT !["exp"] = <<>>] /\ UNCHANGED <<inq, outq, arrived, epoch>>
           /\ \/ last' = [last EXCEPT ![m.src] = m.n] /\ given' = given + 1
              \/ UNCHANGED <<last, given>>
<1>0. TypeHands /\ Hands /\ Ordered
  BY TypeGroups DEF FlowInv, StageInv
<1>1. hand["exp"] # <<>>
  BY <1>0, ThreadNames DEF CallListener, Moves, Hands
<1>2. PICK m \in Messages : m = hand["exp"][1] /\ Held("exp") = {m}
  BY <1>0, <1>1, ThreadNames, HandType DEF Held
<1>3. Fresh(m)
  BY <1>0, <1>2 DEF Ordered, InFlight
<1>4. \A a \in InFlight \ {m} : a.src = m.src => m.n < a.n
  BY <1>0, <1>2 DEF Ordered, InFlight, Chain, Older
<1>5. /\ hand' = [hand EXCEPT !["exp"] = <<>>] /\ UNCHANGED <<inq, outq, arrived, epoch>>
      /\ \/ last' = [last EXCEPT ![m.src] = m.n] /\ given' = given + 1
         \/ UNCHANGED <<last, given>>
  BY <1>2 DEF CallListener
<1> QED BY <1>2, <1>3, <1>4, <1>5

LEMMA CallListenerOrders ==
  ASSUME FlowInv, CallListener
  PROVE  Ordered'
<1>0. TypeHands /\ TypeTraffic /\ Ordered
  BY TypeGroups DEF FlowInv, StageInv
<1>1. PICK m \in Messages :
           /\ Held("exp") = {m} /\ Fresh(m)
           /\ \A a \in InFlight \ {m} : a.src = m.src => m.n < a.n
           /\ hand' = [hand EXCEPT !["exp"] = <<>>] /\ UNCHANGED <<inq, outq, arrived, epoch>>
           /\ \/ last' = [last EXCEPT ![m.src] = m.n] /\ given' = given + 1
              \/ UNCHANGED <<last, given>>
  BY InTheHand
<1>2. Held("exp")' = {} /\ \A u \in Threads : u # "exp" => Held(u)' = Held(u)
  BY <1>0, <1>1, ThreadNames, OtherHands
<1>3. Held("conv")' = Held("conv") /\ Received' = Received
  BY <1>2, ThreadNames DEF Received
<1>4. Items(inq)' = Items(inq) /\ Items(outq)' = Items(outq) /\ Sorted(inq)' /\ Sorted(outq)'
  BY <1>0, <1>1 DEF Ordered
<1>5. Chain({}, Items(outq), Held("conv"), Items(inq), Received)
  BY <1>0, ChainShrinks DEF Ordered
<1>6. Chain(Held("exp"), Items(outq), Held("conv"), Items(inq), Received)'
  BY <1>2, <1>3, <1>4, <1>5 DEF Chain
<1>7. \A s \in Streams : \A a \in Held(s)' : a.src = s
  BY <1>0, <1>2, ThreadNames DEF Ordered
<1>8. \A a \in InFlight' : a \in InFlight /\ a # m
  <2>1. \A a \in Items(outq) \cup Held("conv") \cup Items(inq) \cup Received : a # m
    <3> SUFFICES ASSUME m \in Items(outq) \cup Held("conv") \cup Items(inq) \cup Received
                 PROVE  FALSE
      OBVIOUS
    <3>1. m.n < m.n
      BY <1>0, <1>1 DEF Ordered, Chain, Older
    <3> QED BY <3>1, <1>1 DEF Messages
  <2> QED BY <1>1, <1>2, <1>3, <1>4, <2>1 DEF InFlight
<1>9. \A s \in Streams : last'[s] = last[s] \/ (s = m.src /\ last'[s] = m.n)
  BY <1>0, <1>1 DEF TypeTraffic
<1>10. \A a \in InFlight' : Fresh(a)'
  <2> SUFFICES ASSUME NEW a \in InFlight, a # m PROVE Fresh(a)'
    BY <1>8
  <2>1. Fresh(a) /\ a.src \in Streams /\ (a.src = m.src => m.n < a.n)
    BY <1>0, <1>1 DEF Ordered, Fresh, Messages
  <2> QED BY <1>1, <1>9, <2>1 DEF Fresh
<1>11. \A s \in Streams : last'[s] <= arrived'[s] /\ epoch'[s] <= arrived'[s]
  <2> SUFFICES ASSUME NEW s \in Streams PROVE last'[s] <= arrived'[s] /\ epoch'[s] <= arrived'[s]
    OBVIOUS
  <2>1. last[s] <= arrived[s] /\ epoch[s] <= arrived[s]
    BY <1>0 DEF Ordered
  <2>2. m.n <= arrived[m.src]
    BY <1>1 DEF Fresh
  <2> QED BY <1>1, <1>9, <2>1, <2>2
<1> QED BY <1>4, <1>6, <1>7, <1>10, <1>11 DEF Ordered

\* The main thread moves no message: it only clears the Fifos, and a new
\* session begins when there is nothing in flight.
LEMMA MainDrops ==
  ASSUME Main
  PROVE  /\ hand' = hand /\ inq' \in {inq, <<>>} /\ outq' \in {outq, <<>>}
         /\ UNCHANGED <<arrived, last, given>>
         /\ epoch' = epoch \/ BindScan
<1>1. CASE Enter \/ BindScan \/ NullReceiver \/ BindImu \/ SkipImu \/ Build \/ Connect \/ Activate
  BY <1>1 DEF Enter, BindScan, NullReceiver, BindImu, SkipImu, Build, Connect, Activate
<1>2. CASE StopWaiting \/ StopMonitoring \/ Unlisten \/ StopImu \/ JoinImu \/ StopScan
  BY <1>2 DEF StopWaiting, StopMonitoring, Unlisten, StopImu, JoinImu, StopScan
<1>3. CASE JoinScan \/ CloseSopas \/ JoinExp \/ JoinConv \/ CloseScan
  BY <1>3 DEF JoinScan, CloseSopas, JoinExp, JoinConv, CloseScan
<1> QED BY <1>1, <1>2, <1>3 DEF Main

LEMMA MainOrders ==
  ASSUME FlowInv, Main
  PROVE  Ordered'
<1>0. Hands /\ Joins /\ Emptied /\ Ordered
  BY TypeGroups DEF FlowInv, StageInv
<1>1. /\ hand' = hand /\ inq' \in {inq, <<>>} /\ outq' \in {outq, <<>>}
      /\ UNCHANGED <<arrived, last, given>>
  BY MainDrops
<1>2. CASE epoch' = epoch
  BY <1>0, <1>1, <1>2, DropsKeep
<1>3. CASE BindScan
  <2>1. pc = "bind" /\ epoch' = arrived
    BY <1>3 DEF BindScan, Goes
  <2>2. \A t \in Threads : Held(t)' = {}
    BY <1>0, <1>1, <2>1 DEF Joins, Idle, Hands, Held
  <2>3. inq' = <<>> /\ outq' = <<>>
    BY <1>0, <1>1, <2>1 DEF Emptied
  <2>4. Held("exp")' = {} /\ Held("conv")' = {} /\ Received' = {}
    BY <2>2, ThreadNames DEF Received
  <2>5. Items(inq)' = {} /\ Items(outq)' = {} /\ Sorted(inq)' /\ Sorted(outq)'
    BY <2>3, NoItems
  <2>6. InFlight' = {}
    BY <2>4, <2>5 DEF InFlight
  <2>7. Chain(Held("exp"), Items(outq), Held("conv"), Items(inq), Received)'
    BY <2>4, <2>5 DEF Chain, Older
  <2>8. \A s \in Streams : last'[s] <= arrived'[s] /\ epoch'[s] <= arrived'[s]
    <3>1. \A s \in Streams : arrived[s] \in Nat
      BY TypeGroups DEF FlowInv, StageInv, TypeTraffic
    <3> QED BY <1>0, <1>1, <2>1, <3>1 DEF Ordered
  <2>9. \A s \in Streams : \A a \in Held(s)' : a.src = s
    BY <2>2, ThreadNames
  <2> QED BY <2>5, <2>6, <2>7, <2>8, <2>9 DEF Ordered
<1> QED BY <1>2, <1>3, MainDrops

LEMMA OthersDrop ==
  ASSUME TypeHands,
         \/ \E s \in Streams : EndReceiver(s)
         \/ PopFails("conv", "in") \/ PopFails("exp", "out") \/ CopyListeners
         \/ \E t \in Threads : ThreadFails(t)
         \/ RosShutdown \/ TimePasses \/ Finished \/ UNCHANGED vars
  PROVE  /\ UNCHANGED <<inq, outq, arrived, last, given, epoch>>
         /\ \A t \in Threads : hand'[t] \in {hand[t], <<>>}
<1>1. CASE \/ \E s \in Streams : EndReceiver(s)
           \/ PopFails("conv", "in") \/ PopFails("exp", "out")
           \/ RosShutdown \/ TimePasses \/ Finished \/ UNCHANGED vars
  BY <1>1 DEF EndReceiver, PopFails, RosShutdown, TimePasses, Finished, vars
<1>2. CASE CopyListeners
  BY <1>2 DEF CopyListeners, TypeHands
<1>3. ASSUME NEW t \in Threads, ThreadFails(t)
      PROVE  /\ UNCHANGED <<inq, outq, arrived, last, given, epoch>>
             /\ \A u \in Threads : hand'[u] \in {hand[u], <<>>}
  BY <1>3 DEF ThreadFails, TypeHands
<1> QED BY <1>1, <1>2, <1>3

LEMMA FlowInit == Init => FlowInv
BY StageInit, OrderInit DEF FlowInv

\* The kinds of steps the order tells apart.
LEMMA StepKinds ==
  ASSUME [Next]_vars
  PROVE  \/ Main
         \/ \E s \in Streams : Receive(s) \/ PushInput(s)
         \/ PopInput \/ Convert \/ PopOutput \/ CallListener
         \/ \E s \in Streams : EndReceiver(s)
         \/ PopFails("conv", "in") \/ PopFails("exp", "out") \/ CopyListeners
         \/ \E t \in Threads : ThreadFails(t)
         \/ RosShutdown \/ TimePasses \/ Finished \/ UNCHANGED vars
BY DEF Next, Receiver, Converter, Exporter

LEMMA FlowNext == FlowInv /\ [Next]_vars => FlowInv'
<1> SUFFICES ASSUME FlowInv, [Next]_vars PROVE FlowInv'
  OBVIOUS
<1>1. StageInv'
  BY StageNext DEF FlowInv
<1>2. CASE Main
  BY <1>1, <1>2, MainOrders DEF FlowInv
<1>3. ASSUME NEW s \in Streams, Receive(s) \/ PushInput(s) PROVE FlowInv'
  BY <1>1, <1>3, ReceiveOrders, PushInputOrders DEF FlowInv
<1>4. CASE PopInput \/ Convert \/ PopOutput \/ CallListener
  BY <1>1, <1>4, PopInputOrders, ConvertOrders, PopOutputOrders, CallListenerOrders DEF FlowInv
<1>5. CASE \/ \E s \in Streams : EndReceiver(s)
           \/ PopFails("conv", "in") \/ PopFails("exp", "out") \/ CopyListeners
           \/ \E t \in Threads : ThreadFails(t)
           \/ RosShutdown \/ TimePasses \/ Finished \/ UNCHANGED vars
  <2>1. TypeHands /\ Ordered
    BY TypeGroups DEF FlowInv, StageInv
  <2>2. Ordered'
    BY <1>5, <2>1, OthersDrop, DropsKeep
  <2> QED BY <1>1, <2>2 DEF FlowInv
<1> QED BY <1>2, <1>3, <1>4, <1>5, StepKinds

-----------------------------------------------------------------------------
(* The theorems.                                                           *)

\* A step either leaves the channel alone, takes a message from the network or
\* gives one to the subscriber.
LEMMA ChannelSteps ==
  ASSUME FlowInv, [Next]_vars
  PROVE  \/ UNCHANGED <<arrived, last, given>>
         \/ \E s \in Streams : Receive(s)
         \/ CallListener
<1>1. TypeHands
  BY TypeGroups DEF FlowInv, StageInv
<1>2. CASE Main
  BY <1>2, MainDrops
<1>3. CASE \/ \E s \in Streams : PushInput(s)
           \/ PopInput \/ Convert \/ PopOutput
  BY <1>3 DEF PushInput, PopInput, Convert, PopOutput
<1>4. CASE \/ \E s \in Streams : EndReceiver(s)
           \/ PopFails("conv", "in") \/ PopFails("exp", "out") \/ CopyListeners
           \/ \E t \in Threads : ThreadFails(t)
           \/ RosShutdown \/ TimePasses \/ Finished \/ UNCHANGED vars
  BY <1>1, <1>4, OthersDrop
<1> QED BY <1>2, <1>3, <1>4, StepKinds

\* What reaches the subscriber was received in the session that publishes it:
\* the Fifos of the session before are gone (scansegment_threads.cpp:440-463).
THEOREM SessionsAreFresh == Spec => FreshSession
<1>1. FlowInv /\ [Next]_vars
      => [\A s \in Streams : last'[s] # last[s] => last'[s] > epoch[s]]_vars
  <2> SUFFICES ASSUME FlowInv, [Next]_vars, NEW s \in Streams, last'[s] # last[s]
               PROVE  last'[s] > epoch[s]
    OBVIOUS
  <2>1. CallListener
    BY ChannelSteps DEF Receive
  <2>2. PICK m \in Messages : Fresh(m) /\ (last' = [last EXCEPT ![m.src] = m.n] \/ last' = last)
    BY <2>1, InTheHand
  <2>3. s = m.src /\ last'[s] = m.n
    BY <2>2, TypeGroups DEF FlowInv, StageInv, TypeTraffic
  <2>4. epoch[s] \in Nat /\ m.n \in Nat /\ epoch[s] < m.n
    BY <2>2, <2>3, TypeGroups DEF Fresh, FlowInv, StageInv, TypeTraffic, Messages
  <2> QED BY <2>3, <2>4
<1> QED BY <1>1, FlowInit, FlowNext, PTL DEF Spec, FreshSession

\* Each stream reaches the subscriber in the order it arrived in, nothing twice
\* and nothing that did not arrive: Fifos that overflow, threads that fail and
\* restarts only lose messages (fifo.h:93-123, scansegment_threads.cpp:206-463).
THEOREM PipelineImplementsChannel == Spec => ImplementsChannel
<1>1. Init => Channel!Init
  BY DEF Init, Channel!Init
<1>2. FlowInv /\ [Next]_vars => [Channel!Next]_Channel!vars
  <2> SUFFICES ASSUME FlowInv, [Next]_vars PROVE [Channel!Next]_Channel!vars
    OBVIOUS
  <2>1. CASE UNCHANGED <<arrived, last, given>>
    BY <2>1 DEF Channel!vars
  <2>2. ASSUME NEW s \in Streams, Receive(s) PROVE Channel!Next
    BY <2>2 DEF Receive, Channel!Next, Channel!Arrive
  <2>3. CASE CallListener
    <3>1. PICK m \in Messages :
            /\ Fresh(m) /\ UNCHANGED arrived
            /\ \/ last' = [last EXCEPT ![m.src] = m.n] /\ given' = given + 1
               \/ UNCHANGED <<last, given>>
      BY <2>3, InTheHand
    <3>2. CASE UNCHANGED <<last, given>>
      BY <3>1, <3>2 DEF Channel!vars
    <3>3. CASE last' = [last EXCEPT ![m.src] = m.n] /\ given' = given + 1
      <4>1. m.src \in Streams /\ m.n \in last[m.src] + 1 .. arrived[m.src]
        <5>1. m.src \in Streams /\ m.n \in Nat /\ last[m.src] \in Nat /\ arrived[m.src] \in Nat
          BY TypeGroups, <3>1 DEF FlowInv, StageInv, TypeTraffic, Messages
        <5> QED BY <3>1, <5>1 DEF Fresh
      <4>2. Channel!Deliver(m.src)
        BY <3>1, <3>3, <4>1 DEF Channel!Deliver
      <4> QED BY <4>1, <4>2 DEF Channel!Next
    <3> QED BY <3>1, <3>2, <3>3
  <2> QED BY <2>1, <2>2, <2>3, ChannelSteps
<1> QED BY <1>1, <1>2, FlowInit, FlowNext, PTL DEF Spec, ImplementsChannel, Channel!Spec
=============================================================================
