------------------------- MODULE ScanPipelineProofs -------------------------
(***************************************************************************)
(* Theorems about the threads of the lidar driver, for any capacity of the *)
(* Fifos and any number of messages and faults: types, the order in which  *)
(* objects are deleted, and what every join of the main thread waits for.  *)
(***************************************************************************)
EXTENDS ScanPipeline, TLAPS

USE DEF main, threads, fifos, env, traffic

LEMMA ThreadNames ==
  /\ "scan" \in Threads /\ "conv" \in Threads /\ "exp" \in Threads
  /\ "conv" \notin Streams /\ "exp" \notin Streams
  /\ \A s \in Streams : s \in Threads
  /\ \A t \in Threads : t \in Streams \/ t = "conv" \/ t = "exp"
  /\ \A t \in Threads : t \in {"scan", "imu", "conv", "exp"}
BY StreamsAssumption DEF Threads

\* TypeOK, in the groups of variables the actions leave alone together.
TypeMain ==
  /\ pc \in Setup \cup Serving \cup Teardown \cup Ended
  /\ alive \subseteq Streams \cup {"in", "out", "pub"}
  /\ conn \in BOOLEAN /\ active \in BOOLEAN /\ listening \in BOOLEAN
TypeThreads ==
  /\ th \in [Threads -> {"none", "recv", "push", "pop", "work", "call", "done"}]
  /\ run \in [Threads -> BOOLEAN]
TypeHands == hand \in [Threads -> Seq(Messages)] /\ \A t \in Threads : Len(hand[t]) <= 1
TypeFifos ==
  /\ inq \in Seq(Messages) /\ Len(inq) <= Length
  /\ outq \in Seq(Messages) /\ Len(outq) <= Length
TypeRest ==
  /\ closed \subseteq {"in", "out"} /\ pushed \in 0 .. 2 /\ quiet \in BOOLEAN
  /\ ok \in BOOLEAN /\ faults \in 0 .. MaxFaults
TypeTraffic ==
  /\ arrived \in [Streams -> Nat] /\ last \in [Streams -> Nat] /\ epoch \in [Streams -> Nat]
  /\ given \in Nat

LEMMA TypeGroups ==
  /\ TypeOK <=> (TypeMain /\ TypeThreads /\ TypeHands /\ TypeFifos /\ TypeRest /\ TypeTraffic)
  /\ TypeOK' <=> (TypeMain' /\ TypeThreads' /\ TypeHands' /\ TypeFifos' /\ TypeRest' /\ TypeTraffic')
BY DEF TypeOK, TypeMain, TypeThreads, TypeHands, TypeFifos, TypeRest, TypeTraffic

\* A thread has a message in its hand just when it is about to pass it on.
Hands == \A t \in Threads : hand[t] # <<>> <=> th[t] \in {"push", "work", "call"}

\* Who has been joined, and which objects exist, at each place of the main thread.
Idle == {"start", "bind", "bindImu", "build"} \cup Ended
AfterImu == {"stopScan", "joinScan", "closeSopas", "joinExp", "joinConv", "closeScan"}
AfterScan == {"closeSopas", "joinExp", "joinConv", "closeScan"}

Joins ==
  /\ pc \in Idle \cup {"closeScan"} => \A t \in Threads : th[t] = "none"
  /\ pc \in AfterImu => \A t \in Threads : t = "imu" => th[t] = "none"
  /\ pc \in AfterScan => th["scan"] = "none"
  /\ pc = "joinConv" => th["exp"] = "none"

Objects ==
  /\ \A t \in Threads : th[t] # "none" => Uses(t) \subseteq alive
  /\ pc \in {"bindImu", "build"} => {"scan", "in"} \subseteq alive

Emptied ==
  /\ pc \in {"start", "bind"} => inq = <<>>
  /\ pc \in {"closeScan", "start", "bind"} => outq = <<>>

StageInv == TypeOK /\ Hands /\ Joins /\ Objects /\ Emptied

LEMMA NoMessage == <<>> \in Seq(Messages) /\ Len(<<>>) = 0
OBVIOUS

LEMMA StageInit == Init => StageInv
<1> SUFFICES ASSUME Init PROVE StageInv
  OBVIOUS
<1>1. TypeOK
  <2>1. hand \in [Threads -> Seq(Messages)] /\ \A t \in Threads : Len(hand[t]) <= 1
    BY NoMessage DEF Init
  <2>2. inq \in Seq(Messages) /\ Len(inq) <= Length /\ outq \in Seq(Messages) /\ Len(outq) <= Length
    BY NoMessage, LengthAssumption DEF Init
  <2>3. th \in [Threads -> {"none", "recv", "push", "pop", "work", "call", "done"}]
        /\ run \in [Threads -> BOOLEAN]
    BY DEF Init
  <2>4. /\ pc \in Setup \cup Serving \cup Teardown \cup Ended
        /\ arrived \in [Streams -> Nat] /\ last \in [Streams -> Nat] /\ epoch \in [Streams -> Nat]
        /\ faults \in 0 .. MaxFaults /\ given \in Nat
    BY BoundsAssumption DEF Init, Setup
  <2>5. ok \in BOOLEAN /\ quiet \in BOOLEAN /\ conn \in BOOLEAN /\ active \in BOOLEAN /\ listening \in BOOLEAN
    BY Zenon DEF Init
  <2>6. alive \subseteq Streams \cup {"in", "out", "pub"}
        /\ closed \subseteq {"in", "out"} /\ pushed \in 0 .. 2
    BY DEF Init
  <2> QED BY <2>1, <2>2, <2>3, <2>4, <2>5, <2>6 DEF TypeOK
<1> QED BY <1>1 DEF Init, StageInv, Hands, Joins, Objects, Emptied, Idle, AfterImu, AfterScan, Ended

-----------------------------------------------------------------------------
(* The main thread keeps the stage invariant.                              *)

\* Building up.
LEMMA SetupKeeps ==
  ASSUME StageInv, Enter \/ BindScan \/ NullReceiver \/ BindImu \/ SkipImu \/ Build
  PROVE  StageInv'
<1>0. /\ TypeMain /\ TypeThreads /\ TypeHands /\ TypeFifos /\ TypeRest /\ TypeTraffic
      /\ Hands /\ Joins /\ Objects /\ Emptied
  BY TypeGroups DEF StageInv
<1>1. CASE Enter
  <2>1. TypeThreads' /\ TypeHands' /\ TypeFifos' /\ TypeRest' /\ TypeTraffic' /\ Hands'
    BY <1>0, <1>1 DEF Enter, TypeThreads, TypeHands, TypeFifos, TypeRest, TypeTraffic, Hands
  <2>2. TypeMain'
    BY <1>0, <1>1, ThreadNames DEF Enter, TypeMain, Goes, Setup, Serving, Teardown, Ended
  <2>3. Joins'
    BY <1>0, <1>1, ThreadNames DEF Enter, Joins, Goes, Idle, AfterImu, AfterScan, Ended, Objects, Uses, TypeThreads
  <2>4. Objects'
    BY <1>0, <1>1, ThreadNames DEF Enter, Objects, Goes, Uses, Joins, Idle, AfterImu, AfterScan, Ended, TypeThreads
  <2>5. Emptied'
    BY <1>0, <1>1 DEF Enter, Emptied, Goes
  <2> QED BY <2>1, <2>2, <2>3, <2>4, <2>5, TypeGroups DEF StageInv
<1>2. CASE BindScan
  <2>1. TypeThreads' /\ TypeHands' /\ TypeFifos' /\ Hands'
    BY <1>0, <1>2 DEF BindScan, TypeThreads, TypeHands, TypeFifos, Hands
  <2>2. TypeMain'
    BY <1>0, <1>2, ThreadNames DEF BindScan, TypeMain, Goes, Setup, Serving, Teardown, Ended
  <2>3. TypeRest'
    BY <1>0, <1>2 DEF BindScan, TypeRest
  <2>4. TypeTraffic'
    BY <1>0, <1>2 DEF BindScan, TypeTraffic
  <2>5. Joins'
    BY <1>0, <1>2, ThreadNames DEF BindScan, Joins, Goes, Idle, AfterImu, AfterScan, Ended, Objects, Uses, TypeThreads
  <2>6. Objects'
    BY <1>0, <1>2, ThreadNames DEF BindScan, Objects, Goes, Uses, Joins, Idle, AfterImu, AfterScan, Ended, TypeThreads
  <2>7. Emptied'
    BY <1>0, <1>2 DEF BindScan, Emptied, Goes
  <2> QED BY <2>1, <2>2, <2>3, <2>4, <2>5, <2>6, <2>7, TypeGroups DEF StageInv
<1>3. CASE NullReceiver
  <2>1. TypeThreads' /\ TypeHands' /\ TypeFifos' /\ TypeRest' /\ TypeTraffic' /\ Hands'
    BY <1>0, <1>3 DEF NullReceiver, TypeThreads, TypeHands, TypeFifos, TypeRest, TypeTraffic, Hands
  <2>2. TypeMain'
    BY <1>0, <1>3, ThreadNames DEF NullReceiver, TypeMain, Goes, Setup, Serving, Teardown, Ended
  <2>3. Joins'
    BY <1>0, <1>3, ThreadNames DEF NullReceiver, Joins, Goes, Idle, AfterImu, AfterScan, Ended, Objects, Uses, TypeThreads
  <2>4. Objects'
    BY <1>0, <1>3, ThreadNames DEF NullReceiver, Objects, Goes, Uses, Joins, Idle, AfterImu, AfterScan, Ended, TypeThreads
  <2>5. Emptied'
    BY <1>0, <1>3 DEF NullReceiver, Emptied, Goes
  <2> QED BY <2>1, <2>2, <2>3, <2>4, <2>5, TypeGroups DEF StageInv
<1>4. CASE BindImu
  <2>1. TypeThreads' /\ TypeHands' /\ TypeFifos' /\ TypeRest' /\ TypeTraffic' /\ Hands'
    BY <1>0, <1>4 DEF BindImu, TypeThreads, TypeHands, TypeFifos, TypeRest, TypeTraffic, Hands
  <2>2. TypeMain'
    BY <1>0, <1>4, ThreadNames DEF BindImu, TypeMain, Goes, Setup, Serving, Teardown, Ended
  <2>3. Joins'
    BY <1>0, <1>4, ThreadNames DEF BindImu, Joins, Goes, Idle, AfterImu, AfterScan, Ended, Objects, Uses, TypeThreads
  <2>4. Objects'
    BY <1>0, <1>4, ThreadNames DEF BindImu, Objects, Goes, Uses, Joins, Idle, AfterImu, AfterScan, Ended, TypeThreads
  <2>5. Emptied'
    BY <1>0, <1>4 DEF BindImu, Emptied, Goes
  <2> QED BY <2>1, <2>2, <2>3, <2>4, <2>5, TypeGroups DEF StageInv
<1>5. CASE SkipImu
  <2>1. TypeThreads' /\ TypeHands' /\ TypeFifos' /\ TypeRest' /\ TypeTraffic' /\ Hands'
    BY <1>0, <1>5 DEF SkipImu, TypeThreads, TypeHands, TypeFifos, TypeRest, TypeTraffic, Hands
  <2>2. TypeMain'
    BY <1>0, <1>5, ThreadNames DEF SkipImu, TypeMain, Goes, Setup, Serving, Teardown, Ended
  <2>3. Joins'
    BY <1>0, <1>5, ThreadNames DEF SkipImu, Joins, Goes, Idle, AfterImu, AfterScan, Ended, Objects, Uses, TypeThreads
  <2>4. Objects'
    BY <1>0, <1>5, ThreadNames DEF SkipImu, Objects, Goes, Uses, Joins, Idle, AfterImu, AfterScan, Ended, TypeThreads
  <2>5. Emptied'
    BY <1>0, <1>5 DEF SkipImu, Emptied, Goes
  <2> QED BY <2>1, <2>2, <2>3, <2>4, <2>5, TypeGroups DEF StageInv
<1>6. CASE Build
  <2>1. TypeHands' /\ TypeFifos' /\ TypeRest' /\ TypeTraffic'
    BY <1>0, <1>6 DEF Build, TypeHands, TypeFifos, TypeRest, TypeTraffic
  <2>2. TypeMain'
    BY <1>0, <1>6, ThreadNames DEF Build, TypeMain, Goes, Setup, Serving, Teardown, Ended
  <2>3. TypeThreads'
    BY <1>0, <1>6, ThreadNames DEF Build, TypeThreads, Started, Entry
  <2>4. Hands'
    BY <1>0, <1>6, ThreadNames DEF Build, Hands, Started, Entry, Goes, TypeThreads, TypeHands, Joins, Idle
  <2>5. Joins'
    BY <1>0, <1>6, ThreadNames DEF Build, Joins, Goes, Idle, AfterImu, AfterScan, Ended, Objects, Uses, TypeThreads
  <2>6. Objects'
    BY <1>0, <1>6, ThreadNames DEF Build, Objects, Goes, Uses, Joins, Idle, AfterImu, AfterScan, Ended, Started, Entry, TypeThreads
  <2>7. Emptied'
    BY <1>0, <1>6 DEF Build, Emptied, Goes
  <2> QED BY <2>1, <2>2, <2>3, <2>4, <2>5, <2>6, <2>7, TypeGroups DEF StageInv
<1> QED BY <1>1, <1>2, <1>3, <1>4, <1>5, <1>6

\* Watching the traffic.
LEMMA ServingKeeps ==
  ASSUME StageInv, Connect \/ Activate \/ StopWaiting \/ StopMonitoring \/ Unlisten
  PROVE  StageInv'
<1>0. /\ TypeMain /\ TypeThreads /\ TypeHands /\ TypeFifos /\ TypeRest /\ TypeTraffic
      /\ Hands /\ Joins /\ Objects /\ Emptied
  BY TypeGroups DEF StageInv
<1>1. CASE Connect
  <2>1. TypeThreads' /\ TypeHands' /\ TypeFifos' /\ TypeRest' /\ TypeTraffic' /\ Hands'
    BY <1>0, <1>1 DEF Connect, TypeThreads, TypeHands, TypeFifos, TypeRest, TypeTraffic, Hands
  <2>2. TypeMain'
    BY <1>0, <1>1, ThreadNames DEF Connect, TypeMain, Goes, Setup, Serving, Teardown, Ended
  <2>3. Joins'
    BY <1>0, <1>1, ThreadNames DEF Connect, Joins, Goes, Idle, AfterImu, AfterScan, Ended, Objects, Uses, TypeThreads
  <2>4. Objects'
    BY <1>0, <1>1, ThreadNames DEF Connect, Objects, Goes, Uses, Joins, Idle, AfterImu, AfterScan, Ended, TypeThreads
  <2>5. Emptied'
    BY <1>0, <1>1 DEF Connect, Emptied, Goes
  <2> QED BY <2>1, <2>2, <2>3, <2>4, <2>5, TypeGroups DEF StageInv
<1>2. CASE Activate
  <2>1. TypeThreads' /\ TypeHands' /\ TypeFifos' /\ TypeRest' /\ TypeTraffic' /\ Hands'
    BY <1>0, <1>2 DEF Activate, TypeThreads, TypeHands, TypeFifos, TypeRest, TypeTraffic, Hands
  <2>2. TypeMain'
    BY <1>0, <1>2, ThreadNames DEF Activate, TypeMain, Goes, Setup, Serving, Teardown, Ended
  <2>3. Joins'
    BY <1>0, <1>2, ThreadNames DEF Activate, Joins, Goes, Idle, AfterImu, AfterScan, Ended, Objects, Uses, TypeThreads
  <2>4. Objects'
    BY <1>0, <1>2, ThreadNames DEF Activate, Objects, Goes, Uses, Joins, Idle, AfterImu, AfterScan, Ended, TypeThreads
  <2>5. Emptied'
    BY <1>0, <1>2 DEF Activate, Emptied, Goes
  <2> QED BY <2>1, <2>2, <2>3, <2>4, <2>5, TypeGroups DEF StageInv
<1>3. CASE StopWaiting
  <2>1. TypeThreads' /\ TypeHands' /\ TypeFifos' /\ TypeTraffic' /\ Hands'
    BY <1>0, <1>3 DEF StopWaiting, TypeThreads, TypeHands, TypeFifos, TypeTraffic, Hands
  <2>2. TypeMain'
    BY <1>0, <1>3, ThreadNames DEF StopWaiting, TypeMain, Goes, Setup, Serving, Teardown, Ended
  <2>3. TypeRest'
    BY <1>0, <1>3 DEF StopWaiting, TypeRest
  <2>4. Joins'
    BY <1>0, <1>3, ThreadNames DEF StopWaiting, Joins, Goes, Idle, AfterImu, AfterScan, Ended, Objects, Uses, TypeThreads
  <2>5. Objects'
    BY <1>0, <1>3, ThreadNames DEF StopWaiting, Objects, Goes, Uses, Joins, Idle, AfterImu, AfterScan, Ended, TypeThreads
  <2>6. Emptied'
    BY <1>0, <1>3 DEF StopWaiting, Emptied, Goes
  <2> QED BY <2>1, <2>2, <2>3, <2>4, <2>5, <2>6, TypeGroups DEF StageInv
<1>4. CASE StopMonitoring
  <2>1. TypeThreads' /\ TypeHands' /\ TypeFifos' /\ TypeTraffic' /\ Hands'
    BY <1>0, <1>4 DEF StopMonitoring, TypeThreads, TypeHands, TypeFifos, TypeTraffic, Hands
  <2>2. TypeMain'
    BY <1>0, <1>4, ThreadNames DEF StopMonitoring, TypeMain, Goes, Setup, Serving, Teardown, Ended
  <2>3. TypeRest'
    BY <1>0, <1>4 DEF StopMonitoring, TypeRest
  <2>4. Joins'
    BY <1>0, <1>4, ThreadNames DEF StopMonitoring, Joins, Goes, Idle, AfterImu, AfterScan, Ended, Objects, Uses, TypeThreads
  <2>5. Objects'
    BY <1>0, <1>4, ThreadNames DEF StopMonitoring, Objects, Goes, Uses, Joins, Idle, AfterImu, AfterScan, Ended, TypeThreads
  <2>6. Emptied'
    BY <1>0, <1>4 DEF StopMonitoring, Emptied, Goes
  <2> QED BY <2>1, <2>2, <2>3, <2>4, <2>5, <2>6, TypeGroups DEF StageInv
<1>5. CASE Unlisten
  <2>1. TypeHands' /\ TypeFifos' /\ TypeRest' /\ TypeTraffic' /\ Hands'
    BY <1>0, <1>5 DEF Unlisten, TypeHands, TypeFifos, TypeRest, TypeTraffic, Hands
  <2>2. TypeMain'
    BY <1>0, <1>5, ThreadNames DEF Unlisten, TypeMain, Goes, Setup, Serving, Teardown, Ended
  <2>3. TypeThreads'
    BY <1>0, <1>5, ThreadNames DEF Unlisten, TypeThreads
  <2>4. Joins'
    BY <1>0, <1>5, ThreadNames DEF Unlisten, Joins, Goes, Idle, AfterImu, AfterScan, Ended, Objects, Uses, TypeThreads
  <2>5. Objects'
    BY <1>0, <1>5, ThreadNames DEF Unlisten, Objects, Goes, Uses, Joins, Idle, AfterImu, AfterScan, Ended, TypeThreads
  <2>6. Emptied'
    BY <1>0, <1>5 DEF Unlisten, Emptied, Goes
  <2> QED BY <2>1, <2>2, <2>3, <2>4, <2>5, <2>6, TypeGroups DEF StageInv
<1> QED BY <1>1, <1>2, <1>3, <1>4, <1>5

\* Taking down.
LEMMA TeardownKeeps ==
  ASSUME StageInv, StopImu \/ JoinImu \/ StopScan \/ JoinScan \/ CloseSopas \/ JoinExp \/ JoinConv \/ CloseScan
  PROVE  StageInv'
<1>0. /\ TypeMain /\ TypeThreads /\ TypeHands /\ TypeFifos /\ TypeRest /\ TypeTraffic
      /\ Hands /\ Joins /\ Objects /\ Emptied
  BY TypeGroups DEF StageInv
<1>1. CASE StopImu
  <2>1. TypeHands' /\ TypeFifos' /\ TypeRest' /\ TypeTraffic' /\ Hands'
    BY <1>0, <1>1 DEF StopImu, TypeHands, TypeFifos, TypeRest, TypeTraffic, Hands
  <2>2. TypeMain'
    BY <1>0, <1>1, ThreadNames DEF StopImu, TypeMain, Goes, Setup, Serving, Teardown, Ended
  <2>3. TypeThreads'
    BY <1>0, <1>1, ThreadNames DEF StopImu, TypeThreads
  <2>4. Joins'
    BY <1>0, <1>1, ThreadNames DEF StopImu, Joins, Goes, Idle, AfterImu, AfterScan, Ended, Objects, Uses, TypeThreads
  <2>5. Objects'
    BY <1>0, <1>1, ThreadNames DEF StopImu, Objects, Goes, Uses, Joins, Idle, AfterImu, AfterScan, Ended, TypeThreads
  <2>6. Emptied'
    BY <1>0, <1>1 DEF StopImu, Emptied, Goes
  <2> QED BY <2>1, <2>2, <2>3, <2>4, <2>5, <2>6, TypeGroups DEF StageInv
<1>2. CASE JoinImu
  <2>1. TypeHands' /\ TypeFifos' /\ TypeRest' /\ TypeTraffic'
    BY <1>0, <1>2 DEF JoinImu, TypeHands, TypeFifos, TypeRest, TypeTraffic
  <2>2. TypeMain'
    BY <1>0, <1>2, ThreadNames DEF JoinImu, TypeMain, Goes, Setup, Serving, Teardown, Ended
  <2>3. TypeThreads'
    BY <1>0, <1>2, ThreadNames DEF JoinImu, TypeThreads, Joined
  <2>4. Hands'
    BY <1>0, <1>2, ThreadNames DEF JoinImu, Hands, Joined, Goes, TypeThreads, TypeHands, Joins, Idle
  <2>5. Joins'
    BY <1>0, <1>2, ThreadNames DEF JoinImu, Joins, Goes, Idle, AfterImu, AfterScan, Ended, Joined, Objects, Uses, TypeThreads
  <2>6. Objects'
    BY <1>0, <1>2, ThreadNames DEF JoinImu, Objects, Goes, Uses, Joins, Idle, AfterImu, AfterScan, Ended, Joined, TypeThreads
  <2>7. Emptied'
    BY <1>0, <1>2 DEF JoinImu, Emptied, Goes
  <2> QED BY <2>1, <2>2, <2>3, <2>4, <2>5, <2>6, <2>7, TypeGroups DEF StageInv
<1>3. CASE StopScan
  <2>1. TypeHands' /\ TypeFifos' /\ TypeRest' /\ TypeTraffic' /\ Hands'
    BY <1>0, <1>3 DEF StopScan, TypeHands, TypeFifos, TypeRest, TypeTraffic, Hands
  <2>2. TypeMain'
    BY <1>0, <1>3, ThreadNames DEF StopScan, TypeMain, Goes, Setup, Serving, Teardown, Ended
  <2>3. TypeThreads'
    BY <1>0, <1>3, ThreadNames DEF StopScan, TypeThreads
  <2>4. Joins'
    BY <1>0, <1>3, ThreadNames DEF StopScan, Joins, Goes, Idle, AfterImu, AfterScan, Ended, Objects, Uses, TypeThreads
  <2>5. Objects'
    BY <1>0, <1>3, ThreadNames DEF StopScan, Objects, Goes, Uses, Joins, Idle, AfterImu, AfterScan, Ended, TypeThreads
  <2>6. Emptied'
    BY <1>0, <1>3 DEF StopScan, Emptied, Goes
  <2> QED BY <2>1, <2>2, <2>3, <2>4, <2>5, <2>6, TypeGroups DEF StageInv
<1>4. CASE JoinScan
  <2>1. TypeHands' /\ TypeFifos' /\ TypeTraffic'
    BY <1>0, <1>4 DEF JoinScan, TypeHands, TypeFifos, TypeTraffic
  <2>2. TypeMain'
    BY <1>0, <1>4, ThreadNames DEF JoinScan, TypeMain, Goes, Setup, Serving, Teardown, Ended
  <2>3. TypeThreads'
    BY <1>0, <1>4, ThreadNames DEF JoinScan, TypeThreads, Joined
  <2>4. TypeRest'
    BY <1>0, <1>4 DEF JoinScan, TypeRest
  <2>5. Hands'
    BY <1>0, <1>4, ThreadNames DEF JoinScan, Hands, Joined, Goes, TypeThreads, TypeHands, Joins, Idle
  <2>6. Joins'
    BY <1>0, <1>4, ThreadNames DEF JoinScan, Joins, Goes, Idle, AfterImu, AfterScan, Ended, Joined, Objects, Uses, TypeThreads
  <2>7. Objects'
    BY <1>0, <1>4, ThreadNames DEF JoinScan, Objects, Goes, Uses, Joins, Idle, AfterImu, AfterScan, Ended, Joined, TypeThreads
  <2>8. Emptied'
    BY <1>0, <1>4 DEF JoinScan, Emptied, Goes
  <2> QED BY <2>1, <2>2, <2>3, <2>4, <2>5, <2>6, <2>7, <2>8, TypeGroups DEF StageInv
<1>5. CASE CloseSopas
  <2>1. TypeThreads' /\ TypeHands' /\ TypeFifos' /\ TypeTraffic' /\ Hands'
    BY <1>0, <1>5 DEF CloseSopas, TypeThreads, TypeHands, TypeFifos, TypeTraffic, Hands
  <2>2. TypeMain'
    BY <1>0, <1>5, ThreadNames DEF CloseSopas, TypeMain, Goes, Setup, Serving, Teardown, Ended
  <2>3. TypeRest'
    BY <1>0, <1>5 DEF CloseSopas, TypeRest
  <2>4. Joins'
    BY <1>0, <1>5, ThreadNames DEF CloseSopas, Joins, Goes, Idle, AfterImu, AfterScan, Ended, Objects, Uses, TypeThreads
  <2>5. Objects'
    BY <1>0, <1>5, ThreadNames DEF CloseSopas, Objects, Goes, Uses, Joins, Idle, AfterImu, AfterScan, Ended, TypeThreads
  <2>6. Emptied'
    BY <1>0, <1>5 DEF CloseSopas, Emptied, Goes
  <2> QED BY <2>1, <2>2, <2>3, <2>4, <2>5, <2>6, TypeGroups DEF StageInv
<1>6. CASE JoinExp
  <2>1. TypeHands' /\ TypeFifos' /\ TypeRest' /\ TypeTraffic'
    BY <1>0, <1>6 DEF JoinExp, TypeHands, TypeFifos, TypeRest, TypeTraffic
  <2>2. TypeMain'
    BY <1>0, <1>6, ThreadNames DEF JoinExp, TypeMain, Goes, Setup, Serving, Teardown, Ended
  <2>3. TypeThreads'
    BY <1>0, <1>6, ThreadNames DEF JoinExp, TypeThreads, Joined
  <2>4. Hands'
    BY <1>0, <1>6, ThreadNames DEF JoinExp, Hands, Joined, Goes, TypeThreads, TypeHands, Joins, Idle
  <2>5. Joins'
    BY <1>0, <1>6, ThreadNames DEF JoinExp, Joins, Goes, Idle, AfterImu, AfterScan, Ended, Joined, Objects, Uses, TypeThreads
  <2>6. Objects'
    BY <1>0, <1>6, ThreadNames DEF JoinExp, Objects, Goes, Uses, Joins, Idle, AfterImu, AfterScan, Ended, Joined, TypeThreads
  <2>7. Emptied'
    BY <1>0, <1>6 DEF JoinExp, Emptied, Goes
  <2> QED BY <2>1, <2>2, <2>3, <2>4, <2>5, <2>6, <2>7, TypeGroups DEF StageInv
<1>7. CASE JoinConv
  <2>1. TypeHands' /\ TypeRest' /\ TypeTraffic'
    BY <1>0, <1>7 DEF JoinConv, TypeHands, TypeRest, TypeTraffic
  <2>2. TypeMain'
    BY <1>0, <1>7, ThreadNames DEF JoinConv, TypeMain, Goes, Setup, Serving, Teardown, Ended
  <2>3. TypeThreads'
    BY <1>0, <1>7, ThreadNames DEF JoinConv, TypeThreads, Joined
  <2>4. TypeFifos'
    BY <1>0, <1>7, NoMessage, LengthAssumption DEF JoinConv, TypeFifos
  <2>5. Hands'
    BY <1>0, <1>7, ThreadNames DEF JoinConv, Hands, Joined, Goes, TypeThreads, TypeHands, Joins, Idle
  <2>6. Joins'
    BY <1>0, <1>7, ThreadNames DEF JoinConv, Joins, Goes, Idle, AfterImu, AfterScan, Ended, Joined, Objects, Uses, TypeThreads
  <2>7. Objects'
    BY <1>0, <1>7, ThreadNames DEF JoinConv, Objects, Goes, Uses, Joins, Idle, AfterImu, AfterScan, Ended, Joined, TypeThreads
  <2>8. Emptied'
    BY <1>0, <1>7 DEF JoinConv, Emptied, Goes
  <2> QED BY <2>1, <2>2, <2>3, <2>4, <2>5, <2>6, <2>7, <2>8, TypeGroups DEF StageInv
<1>8. CASE CloseScan
  <2>1. TypeThreads' /\ TypeHands' /\ TypeRest' /\ TypeTraffic' /\ Hands'
    BY <1>0, <1>8 DEF CloseScan, TypeThreads, TypeHands, TypeRest, TypeTraffic, Hands
  <2>2. TypeMain'
    BY <1>0, <1>8, ThreadNames DEF CloseScan, TypeMain, Goes, Setup, Serving, Teardown, Ended
  <2>3. TypeFifos'
    BY <1>0, <1>8, NoMessage, LengthAssumption DEF CloseScan, TypeFifos
  <2>4. Joins'
    BY <1>0, <1>8, ThreadNames DEF CloseScan, Joins, Goes, Idle, AfterImu, AfterScan, Ended, Objects, Uses, TypeThreads
  <2>5. Objects'
    BY <1>0, <1>8, ThreadNames DEF CloseScan, Objects, Goes, Uses, Joins, Idle, AfterImu, AfterScan, Ended, TypeThreads
  <2>6. Emptied'
    BY <1>0, <1>8 DEF CloseScan, Emptied, Goes
  <2> QED BY <2>1, <2>2, <2>3, <2>4, <2>5, <2>6, TypeGroups DEF StageInv
<1> QED BY <1>1, <1>2, <1>3, <1>4, <1>5, <1>6, <1>7, <1>8

-----------------------------------------------------------------------------
(* The background threads keep the stage invariant.                        *)

LEMMA PushType ==
  ASSUME NEW q \in Seq(Messages), Len(q) <= Length, NEW m \in Messages
  PROVE  Push(q, m) \in Seq(Messages) /\ Len(Push(q, m)) <= Length
<1>1. Append(q, m) \in Seq(Messages) /\ Len(Append(q, m)) = Len(q) + 1 /\ Len(q) \in Nat
  OBVIOUS
<1>2. CASE Len(Append(q, m)) > Length
  <2>1. Tail(Append(q, m)) \in Seq(Messages) /\ Len(Tail(Append(q, m))) = Len(q)
    BY <1>1
  <2> QED BY <1>2, <2>1 DEF Push, DropOldest
<1>3. CASE ~(Len(Append(q, m)) > Length)
  BY <1>1, <1>3, LengthAssumption DEF Push, DropOldest
<1> QED BY <1>2, <1>3

LEMMA PopType ==
  ASSUME NEW q \in Seq(Messages), q # <<>>
  PROVE  q[1] \in Messages /\ Tail(q) \in Seq(Messages) /\ Len(Tail(q)) = Len(q) - 1
OBVIOUS

LEMMA OneMessage ==
  ASSUME NEW q \in Seq(Messages), q # <<>>, Len(q) <= 1
  PROVE  Len(q) = 1 /\ q[1] \in Messages /\ q = <<q[1]>>
OBVIOUS

LEMMA HandType ==
  ASSUME TypeHands, NEW t \in Threads, hand[t] # <<>>
  PROVE  hand[t][1] \in Messages /\ hand[t] = <<hand[t][1]>>
<1> DEFINE h == hand[t]
<1>1. h \in Seq(Messages) /\ Len(h) <= 1 /\ h # <<>>
  BY DEF TypeHands
<1> HIDE DEF h
<1>3. h[1] \in Messages /\ h = <<h[1]>>
  BY <1>1, OneMessage
<1> QED BY <1>3 DEF h

Working == {"recv", "push", "pop", "work", "call", "done"}

\* A thread that moves on is not one of the joined, and keeps what it uses.
LEMMA ThreadMoves ==
  ASSUME TypeThreads, Joins, Objects, NEW t \in Threads, th[t] # "none", NEW v \in Working,
         th' = [th EXCEPT ![t] = v], pc' = pc, alive' = alive
  PROVE  /\ th' \in [Threads -> {"none", "recv", "push", "pop", "work", "call", "done"}]
         /\ Joins' /\ Objects' /\ pc \notin Idle \cup {"closeScan"}
<1>1. th' \in [Threads -> {"none", "recv", "push", "pop", "work", "call", "done"}]
  BY DEF TypeThreads, Working
<1>2. \A u \in Threads : th'[u] = "none" <=> th[u] = "none"
  BY DEF TypeThreads, Working
<1>3. pc \notin Idle \cup {"closeScan"}
  BY DEF Joins
<1>4. Joins'
  BY <1>2, ThreadNames DEF Joins
<1>5. Objects'
  BY <1>2 DEF Objects, Uses
<1> QED BY <1>1, <1>3, <1>4, <1>5

\* What is taken into or out of one hand leaves the others as they are.
LEMMA HandChanges ==
  ASSUME TypeHands, TypeThreads, Hands, NEW t \in Threads, NEW v \in Working, NEW h \in Seq(Messages), Len(h) <= 1,
         th' = [th EXCEPT ![t] = v], hand' = [hand EXCEPT ![t] = h],
         h # <<>> <=> v \in {"push", "work", "call"}
  PROVE  TypeHands' /\ Hands'
<1>1. \A u \in Threads : u # t => th'[u] = th[u] /\ hand'[u] = hand[u]
  BY DEF TypeHands, TypeThreads
<1>2. th'[t] = v /\ hand'[t] = h
  BY DEF TypeHands, TypeThreads
<1>3. hand' \in [Threads -> Seq(Messages)]
  BY DEF TypeHands
<1> QED BY <1>1, <1>2, <1>3 DEF TypeHands, Hands

\* The receivers.
LEMMA ReceiverKeeps ==
  ASSUME StageInv, NEW s \in Streams, Receiver(s)
  PROVE  StageInv'
<1>0. /\ TypeMain /\ TypeThreads /\ TypeHands /\ TypeFifos /\ TypeRest /\ TypeTraffic
      /\ Hands /\ Joins /\ Objects /\ Emptied
  BY TypeGroups DEF StageInv
<1>1. CASE Receive(s)
  <2> DEFINE v == "push"
  <2> DEFINE h == <<[src |-> s, n |-> arrived[s] + 1]>>
  <2>1. s \in Threads /\ th[s] # "none" /\ v \in Working /\ (h # <<>> <=> v \in {"push", "work", "call"})
    BY <1>0, <1>1, ThreadNames DEF Receive, Moves, Working, Hands
  <2>2. h \in Seq(Messages) /\ Len(h) <= 1
    <3>1. [src |-> s, n |-> arrived[s] + 1] \in Messages
      BY <1>0 DEF TypeTraffic, Messages
    <3> QED BY <3>1
  <2>3. th' = [th EXCEPT ![s] = v] /\ pc' = pc /\ alive' = alive
    BY <1>1 DEF Receive, Moves
  <2>4. hand' = [hand EXCEPT ![s] = h]
    BY <1>0, <1>1 DEF Receive, TypeHands
  <2> HIDE DEF v, h
  <2>5. /\ th' \in [Threads -> {"none", "recv", "push", "pop", "work", "call", "done"}]
        /\ Joins' /\ Objects' /\ pc \notin Idle \cup {"closeScan"}
    BY <1>0, <2>1, <2>3, ThreadMoves
  <2>6. TypeHands' /\ Hands'
    BY <1>0, <2>1, <2>2, <2>3, <2>4, HandChanges
  <2>7. TypeMain' /\ TypeThreads'
    BY <1>0, <1>1, <2>5 DEF Receive, TypeMain, TypeThreads
  <2>8. TypeFifos'
    BY <1>0, <1>1 DEF Receive, TypeFifos
  <2>9. TypeRest' /\ TypeTraffic'
    BY <1>0, <1>1 DEF Receive, TypeRest, TypeTraffic
  <2>10. Emptied'
    BY <2>3, <2>5 DEF Emptied, Idle
  <2> QED BY <2>5, <2>6, <2>7, <2>8, <2>9, <2>10, TypeGroups DEF StageInv
<1>2. CASE PushInput(s)
  <2> DEFINE v == "recv"
  <2> DEFINE h == <<>>
  <2>1. s \in Threads /\ th[s] # "none" /\ v \in Working /\ (h # <<>> <=> v \in {"push", "work", "call"})
    BY <1>0, <1>2, ThreadNames DEF PushInput, Moves, Working, Hands
  <2>2. h \in Seq(Messages) /\ Len(h) <= 1
    BY <1>0, <2>1, NoMessage DEF TypeHands
  <2>3. th' = [th EXCEPT ![s] = v] /\ pc' = pc /\ alive' = alive
    BY <1>2 DEF PushInput, Moves
  <2>4. hand' = [hand EXCEPT ![s] = h]
    BY <1>0, <1>2 DEF PushInput, TypeHands
  <2> HIDE DEF v, h
  <2>5. /\ th' \in [Threads -> {"none", "recv", "push", "pop", "work", "call", "done"}]
        /\ Joins' /\ Objects' /\ pc \notin Idle \cup {"closeScan"}
    BY <1>0, <2>1, <2>3, ThreadMoves
  <2>6. TypeHands' /\ Hands'
    BY <1>0, <2>1, <2>2, <2>3, <2>4, HandChanges
  <2>7. TypeMain' /\ TypeThreads'
    BY <1>0, <1>2, <2>5 DEF PushInput, TypeMain, TypeThreads
  <2>8. TypeFifos'
    <3>1. hand[s][1] \in Messages
      BY <1>0, <1>2, <2>1, HandType DEF PushInput, Moves, Hands
    <3> QED BY <1>0, <1>2, <3>1, PushType DEF PushInput, TypeFifos
  <2>9. TypeRest' /\ TypeTraffic'
    <3>1. pushed' \in 0 .. 2
      BY <1>0, <1>2 DEF PushInput, TypeRest
    <3>2. UNCHANGED <<main, closed, env, traffic>> /\ quiet' = FALSE
      BY <1>2 DEF PushInput
    <3>3. TypeTraffic'
      BY <1>0, <3>2 DEF traffic, TypeTraffic
    <3> QED BY <1>0, <3>1, <3>2, <3>3 DEF TypeRest, env, main
  <2>10. Emptied'
    BY <2>3, <2>5 DEF Emptied, Idle
  <2> QED BY <2>5, <2>6, <2>7, <2>8, <2>9, <2>10, TypeGroups DEF StageInv
<1>3. CASE EndReceiver(s)
  <2> DEFINE v == "done"
  <2> DEFINE h == hand[s]
  <2>1. s \in Threads /\ th[s] # "none" /\ v \in Working /\ (h # <<>> <=> v \in {"push", "work", "call"})
    BY <1>0, <1>3, ThreadNames DEF EndReceiver, Moves, Working, Hands
  <2>2. h \in Seq(Messages) /\ Len(h) <= 1
    BY <1>0, <2>1, NoMessage DEF TypeHands
  <2>3. th' = [th EXCEPT ![s] = v] /\ pc' = pc /\ alive' = alive
    BY <1>3 DEF EndReceiver, Moves
  <2>4. hand' = [hand EXCEPT ![s] = h]
    BY <1>0, <1>3 DEF EndReceiver, TypeHands
  <2> HIDE DEF v, h
  <2>5. /\ th' \in [Threads -> {"none", "recv", "push", "pop", "work", "call", "done"}]
        /\ Joins' /\ Objects' /\ pc \notin Idle \cup {"closeScan"}
    BY <1>0, <2>1, <2>3, ThreadMoves
  <2>6. TypeHands' /\ Hands'
    BY <1>0, <2>1, <2>2, <2>3, <2>4, HandChanges
  <2>7. TypeMain' /\ TypeThreads'
    BY <1>0, <1>3, <2>5 DEF EndReceiver, TypeMain, TypeThreads
  <2>8. TypeFifos'
    BY <1>0, <1>3 DEF EndReceiver, TypeFifos
  <2>9. TypeRest' /\ TypeTraffic'
    BY <1>0, <1>3 DEF EndReceiver, TypeRest, TypeTraffic
  <2>10. Emptied'
    BY <2>3, <2>5 DEF Emptied, Idle
  <2> QED BY <2>5, <2>6, <2>7, <2>8, <2>9, <2>10, TypeGroups DEF StageInv
<1> QED BY <1>1, <1>2, <1>3 DEF Receiver

\* The converter.
LEMMA ConverterKeeps ==
  ASSUME StageInv, Converter
  PROVE  StageInv'
<1>0. /\ TypeMain /\ TypeThreads /\ TypeHands /\ TypeFifos /\ TypeRest /\ TypeTraffic
      /\ Hands /\ Joins /\ Objects /\ Emptied
  BY TypeGroups DEF StageInv
<1>1. CASE PopInput
  <2> DEFINE v == "work"
  <2> DEFINE h == <<inq[1]>>
  <2>1. "conv" \in Threads /\ th["conv"] # "none" /\ v \in Working /\ (h # <<>> <=> v \in {"push", "work", "call"})
    BY <1>0, <1>1, ThreadNames DEF PopInput, Moves, Working, Hands
  <2>2. h \in Seq(Messages) /\ Len(h) <= 1
    <3>1. inq[1] \in Messages
      BY <1>0, <1>1, PopType DEF PopInput, CanPop, TypeFifos
    <3> QED BY <3>1
  <2>3. th' = [th EXCEPT !["conv"] = v] /\ pc' = pc /\ alive' = alive
    BY <1>1 DEF PopInput, Moves
  <2>4. hand' = [hand EXCEPT !["conv"] = h]
    BY <1>0, <1>1 DEF PopInput, TypeHands
  <2> HIDE DEF v, h
  <2>5. /\ th' \in [Threads -> {"none", "recv", "push", "pop", "work", "call", "done"}]
        /\ Joins' /\ Objects' /\ pc \notin Idle \cup {"closeScan"}
    BY <1>0, <2>1, <2>3, ThreadMoves
  <2>6. TypeHands' /\ Hands'
    BY <1>0, <2>1, <2>2, <2>3, <2>4, HandChanges
  <2>7. TypeMain' /\ TypeThreads'
    BY <1>0, <1>1, <2>5 DEF PopInput, TypeMain, TypeThreads
  <2>8. TypeFifos'
    <3>1. Len(inq) \in Nat /\ Length \in Nat
      BY <1>0, LengthAssumption DEF TypeFifos
    <3> QED BY <1>0, <1>1, <3>1, PopType DEF PopInput, CanPop, TypeFifos
  <2>9. TypeRest' /\ TypeTraffic'
    BY <1>0, <1>1 DEF PopInput, TypeRest, TypeTraffic
  <2>10. Emptied'
    BY <2>3, <2>5 DEF Emptied, Idle
  <2> QED BY <2>5, <2>6, <2>7, <2>8, <2>9, <2>10, TypeGroups DEF StageInv
<1>2. CASE PopFails("conv", "in")
  <2> DEFINE v == Again("conv")
  <2> DEFINE h == hand["conv"]
  <2>1. "conv" \in Threads /\ th["conv"] # "none" /\ v \in Working /\ (h # <<>> <=> v \in {"push", "work", "call"})
    BY <1>0, <1>2, ThreadNames DEF PopFails, Moves, Working, Hands, Again
  <2>2. h \in Seq(Messages) /\ Len(h) <= 1
    BY <1>0, <2>1, NoMessage DEF TypeHands
  <2>3. th' = [th EXCEPT !["conv"] = v] /\ pc' = pc /\ alive' = alive
    BY <1>2 DEF PopFails, Moves
  <2>4. hand' = [hand EXCEPT !["conv"] = h]
    BY <1>0, <1>2 DEF PopFails, TypeHands
  <2> HIDE DEF v, h
  <2>5. /\ th' \in [Threads -> {"none", "recv", "push", "pop", "work", "call", "done"}]
        /\ Joins' /\ Objects' /\ pc \notin Idle \cup {"closeScan"}
    BY <1>0, <2>1, <2>3, ThreadMoves
  <2>6. TypeHands' /\ Hands'
    BY <1>0, <2>1, <2>2, <2>3, <2>4, HandChanges
  <2>7. TypeMain' /\ TypeThreads'
    BY <1>0, <1>2, <2>5 DEF PopFails, TypeMain, TypeThreads
  <2>8. TypeFifos'
    BY <1>0, <1>2 DEF PopFails, TypeFifos
  <2>9. TypeRest' /\ TypeTraffic'
    BY <1>0, <1>2 DEF PopFails, TypeRest, TypeTraffic
  <2>10. Emptied'
    BY <2>3, <2>5 DEF Emptied, Idle
  <2> QED BY <2>5, <2>6, <2>7, <2>8, <2>9, <2>10, TypeGroups DEF StageInv
<1>3. CASE Convert
  <2> DEFINE v == Again("conv")
  <2> DEFINE h == <<>>
  <2>1. "conv" \in Threads /\ th["conv"] # "none" /\ v \in Working /\ (h # <<>> <=> v \in {"push", "work", "call"})
    BY <1>0, <1>3, ThreadNames DEF Convert, Moves, Working, Hands, Again
  <2>2. h \in Seq(Messages) /\ Len(h) <= 1
    BY <1>0, <2>1, NoMessage DEF TypeHands
  <2>3. th' = [th EXCEPT !["conv"] = v] /\ pc' = pc /\ alive' = alive
    BY <1>3 DEF Convert, Moves
  <2>4. hand' = [hand EXCEPT !["conv"] = h]
    BY <1>0, <1>3 DEF Convert, TypeHands
  <2> HIDE DEF v, h
  <2>5. /\ th' \in [Threads -> {"none", "recv", "push", "pop", "work", "call", "done"}]
        /\ Joins' /\ Objects' /\ pc \notin Idle \cup {"closeScan"}
    BY <1>0, <2>1, <2>3, ThreadMoves
  <2>6. TypeHands' /\ Hands'
    BY <1>0, <2>1, <2>2, <2>3, <2>4, HandChanges
  <2>7. TypeMain' /\ TypeThreads'
    BY <1>0, <1>3, <2>5 DEF Convert, TypeMain, TypeThreads
  <2>8. TypeFifos'
    <3>1. hand["conv"][1] \in Messages
      BY <1>0, <1>3, <2>1, HandType DEF Convert, Moves, Hands
    <3> QED BY <1>0, <1>3, <3>1, PushType DEF Convert, TypeFifos
  <2>9. TypeRest' /\ TypeTraffic'
    BY <1>0, <1>3 DEF Convert, TypeRest, TypeTraffic
  <2>10. Emptied'
    BY <2>3, <2>5 DEF Emptied, Idle
  <2> QED BY <2>5, <2>6, <2>7, <2>8, <2>9, <2>10, TypeGroups DEF StageInv
<1> QED BY <1>1, <1>2, <1>3 DEF Converter

\* The exporter.
LEMMA ExporterKeeps ==
  ASSUME StageInv, Exporter
  PROVE  StageInv'
<1>0. /\ TypeMain /\ TypeThreads /\ TypeHands /\ TypeFifos /\ TypeRest /\ TypeTraffic
      /\ Hands /\ Joins /\ Objects /\ Emptied
  BY TypeGroups DEF StageInv
<1>1. CASE PopOutput
  <2> DEFINE v == "work"
  <2> DEFINE h == <<outq[1]>>
  <2>1. "exp" \in Threads /\ th["exp"] # "none" /\ v \in Working /\ (h # <<>> <=> v \in {"push", "work", "call"})
    BY <1>0, <1>1, ThreadNames DEF PopOutput, Moves, Working, Hands
  <2>2. h \in Seq(Messages) /\ Len(h) <= 1
    <3>1. outq[1] \in Messages
      BY <1>0, <1>1, PopType DEF PopOutput, CanPop, TypeFifos
    <3> QED BY <3>1
  <2>3. th' = [th EXCEPT !["exp"] = v] /\ pc' = pc /\ alive' = alive
    BY <1>1 DEF PopOutput, Moves
  <2>4. hand' = [hand EXCEPT !["exp"] = h]
    BY <1>0, <1>1 DEF PopOutput, TypeHands
  <2> HIDE DEF v, h
  <2>5. /\ th' \in [Threads -> {"none", "recv", "push", "pop", "work", "call", "done"}]
        /\ Joins' /\ Objects' /\ pc \notin Idle \cup {"closeScan"}
    BY <1>0, <2>1, <2>3, ThreadMoves
  <2>6. TypeHands' /\ Hands'
    BY <1>0, <2>1, <2>2, <2>3, <2>4, HandChanges
  <2>7. TypeMain' /\ TypeThreads'
    BY <1>0, <1>1, <2>5 DEF PopOutput, TypeMain, TypeThreads
  <2>8. TypeFifos'
    <3>1. Len(outq) \in Nat /\ Length \in Nat
      BY <1>0, LengthAssumption DEF TypeFifos
    <3> QED BY <1>0, <1>1, <3>1, PopType DEF PopOutput, CanPop, TypeFifos
  <2>9. TypeRest' /\ TypeTraffic'
    BY <1>0, <1>1 DEF PopOutput, TypeRest, TypeTraffic
  <2>10. Emptied'
    BY <2>3, <2>5 DEF Emptied, Idle
  <2> QED BY <2>5, <2>6, <2>7, <2>8, <2>9, <2>10, TypeGroups DEF StageInv
<1>2. CASE PopFails("exp", "out")
  <2> DEFINE v == Again("exp")
  <2> DEFINE h == hand["exp"]
  <2>1. "exp" \in Threads /\ th["exp"] # "none" /\ v \in Working /\ (h # <<>> <=> v \in {"push", "work", "call"})
    BY <1>0, <1>2, ThreadNames DEF PopFails, Moves, Working, Hands, Again
  <2>2. h \in Seq(Messages) /\ Len(h) <= 1
    BY <1>0, <2>1, NoMessage DEF TypeHands
  <2>3. th' = [th EXCEPT !["exp"] = v] /\ pc' = pc /\ alive' = alive
    BY <1>2 DEF PopFails, Moves
  <2>4. hand' = [hand EXCEPT !["exp"] = h]
    BY <1>0, <1>2 DEF PopFails, TypeHands
  <2> HIDE DEF v, h
  <2>5. /\ th' \in [Threads -> {"none", "recv", "push", "pop", "work", "call", "done"}]
        /\ Joins' /\ Objects' /\ pc \notin Idle \cup {"closeScan"}
    BY <1>0, <2>1, <2>3, ThreadMoves
  <2>6. TypeHands' /\ Hands'
    BY <1>0, <2>1, <2>2, <2>3, <2>4, HandChanges
  <2>7. TypeMain' /\ TypeThreads'
    BY <1>0, <1>2, <2>5 DEF PopFails, TypeMain, TypeThreads
  <2>8. TypeFifos'
    BY <1>0, <1>2 DEF PopFails, TypeFifos
  <2>9. TypeRest' /\ TypeTraffic'
    BY <1>0, <1>2 DEF PopFails, TypeRest, TypeTraffic
  <2>10. Emptied'
    BY <2>3, <2>5 DEF Emptied, Idle
  <2> QED BY <2>5, <2>6, <2>7, <2>8, <2>9, <2>10, TypeGroups DEF StageInv
<1>3. CASE CopyListeners
  <2> DEFINE v == IF run["exp"] /\ listening THEN "call" ELSE Again("exp")
  <2> DEFINE h == IF run["exp"] /\ listening THEN hand["exp"] ELSE <<>>
  <2>1. "exp" \in Threads /\ th["exp"] # "none" /\ v \in Working /\ (h # <<>> <=> v \in {"push", "work", "call"})
    BY <1>0, <1>3, ThreadNames DEF CopyListeners, Moves, Working, Hands, Again
  <2>2. h \in Seq(Messages) /\ Len(h) <= 1
    BY <1>0, <2>1, NoMessage DEF TypeHands
  <2>3. th' = [th EXCEPT !["exp"] = v] /\ pc' = pc /\ alive' = alive
    BY <1>3 DEF CopyListeners, Moves
  <2>4. hand' = [hand EXCEPT !["exp"] = h]
    BY <1>0, <1>3 DEF CopyListeners, TypeHands
  <2> HIDE DEF v, h
  <2>5. /\ th' \in [Threads -> {"none", "recv", "push", "pop", "work", "call", "done"}]
        /\ Joins' /\ Objects' /\ pc \notin Idle \cup {"closeScan"}
    BY <1>0, <2>1, <2>3, ThreadMoves
  <2>6. TypeHands' /\ Hands'
    BY <1>0, <2>1, <2>2, <2>3, <2>4, HandChanges
  <2>7. TypeMain' /\ TypeThreads'
    BY <1>0, <1>3, <2>5 DEF CopyListeners, TypeMain, TypeThreads
  <2>8. TypeFifos'
    BY <1>0, <1>3 DEF CopyListeners, TypeFifos
  <2>9. TypeRest' /\ TypeTraffic'
    BY <1>0, <1>3 DEF CopyListeners, TypeRest, TypeTraffic
  <2>10. Emptied'
    BY <2>3, <2>5 DEF Emptied, Idle
  <2> QED BY <2>5, <2>6, <2>7, <2>8, <2>9, <2>10, TypeGroups DEF StageInv
<1>4. CASE CallListener
  <2> DEFINE v == Again("exp")
  <2> DEFINE h == <<>>
  <2>1. "exp" \in Threads /\ th["exp"] # "none" /\ v \in Working /\ (h # <<>> <=> v \in {"push", "work", "call"})
    BY <1>0, <1>4, ThreadNames DEF CallListener, Moves, Working, Hands, Again
  <2>2. h \in Seq(Messages) /\ Len(h) <= 1
    BY <1>0, <2>1, NoMessage DEF TypeHands
  <2>3. th' = [th EXCEPT !["exp"] = v] /\ pc' = pc /\ alive' = alive
    BY <1>4 DEF CallListener, Moves
  <2>4. hand' = [hand EXCEPT !["exp"] = h]
    BY <1>0, <1>4 DEF CallListener, TypeHands
  <2> HIDE DEF v, h
  <2>5. /\ th' \in [Threads -> {"none", "recv", "push", "pop", "work", "call", "done"}]
        /\ Joins' /\ Objects' /\ pc \notin Idle \cup {"closeScan"}
    BY <1>0, <2>1, <2>3, ThreadMoves
  <2>6. TypeHands' /\ Hands'
    BY <1>0, <2>1, <2>2, <2>3, <2>4, HandChanges
  <2>7. TypeMain' /\ TypeThreads'
    BY <1>0, <1>4, <2>5 DEF CallListener, TypeMain, TypeThreads
  <2>8. TypeFifos'
    BY <1>0, <1>4 DEF CallListener, TypeFifos
  <2>9. TypeRest' /\ TypeTraffic'
    <3>1. hand["exp"][1] \in Messages
      BY <1>0, <1>4, <2>1, HandType DEF CallListener, Moves, Hands
    <3> QED BY <1>0, <1>4, <3>1, SMTT(30) DEF CallListener, TypeRest, TypeTraffic, Messages
  <2>10. Emptied'
    BY <2>3, <2>5 DEF Emptied, Idle
  <2> QED BY <2>5, <2>6, <2>7, <2>8, <2>9, <2>10, TypeGroups DEF StageInv
<1> QED BY <1>1, <1>2, <1>3, <1>4 DEF Exporter

LEMMA ThreadFailsKeeps ==
  ASSUME StageInv, NEW t \in Threads, ThreadFails(t)
  PROVE  StageInv'
<1>0. /\ TypeMain /\ TypeThreads /\ TypeHands /\ TypeFifos /\ TypeRest /\ TypeTraffic
      /\ Hands /\ Joins /\ Objects /\ Emptied
  BY TypeGroups DEF StageInv
<1>1. th[t] # "none" /\ "done" \in Working /\ th' = [th EXCEPT ![t] = "done"] /\ pc' = pc /\ alive' = alive
  BY DEF ThreadFails, Live, Working
<1>2. /\ th' \in [Threads -> {"none", "recv", "push", "pop", "work", "call", "done"}]
      /\ Joins' /\ Objects' /\ pc \notin Idle \cup {"closeScan"}
  BY <1>0, <1>1, ThreadMoves
<1>3. TypeHands' /\ Hands'
  <2>1. hand' = [hand EXCEPT ![t] = <<>>]
    BY DEF ThreadFails
  <2>2. "done" \notin {"push", "work", "call"} /\ Len(<<>>) <= 1
    OBVIOUS
  <2> QED BY <1>0, <1>1, <2>1, <2>2, NoMessage, HandChanges
<1>4. TypeMain' /\ TypeThreads' /\ TypeFifos' /\ TypeTraffic'
  BY <1>0, <1>2 DEF ThreadFails, TypeMain, TypeThreads, TypeFifos, TypeTraffic
<1>5. TypeRest'
  BY <1>0, BoundsAssumption DEF ThreadFails, TypeRest
<1>6. Emptied'
  BY <1>1, <1>2 DEF Emptied, Idle
<1> QED BY <1>2, <1>3, <1>4, <1>5, <1>6, TypeGroups DEF StageInv

\* The signal, the clock, and steps that change nothing.
LEMMA SurroundingsKeep ==
  ASSUME StageInv, RosShutdown \/ TimePasses \/ UNCHANGED vars
  PROVE  StageInv'
<1>0. /\ TypeMain /\ TypeThreads /\ TypeHands /\ TypeFifos /\ TypeRest /\ TypeTraffic
      /\ Hands /\ Joins /\ Objects /\ Emptied
  BY TypeGroups DEF StageInv
<1>1. /\ UNCHANGED <<main, threads, inq, outq, traffic>>
      /\ UNCHANGED <<closed, pushed, faults>> /\ ok' \in {ok, FALSE} /\ quiet' \in {quiet, TRUE}
  BY DEF RosShutdown, TimePasses, vars
<1>2. TypeMain' /\ TypeThreads' /\ TypeHands' /\ TypeFifos' /\ TypeTraffic'
  BY <1>0, <1>1 DEF TypeMain, TypeThreads, TypeHands, TypeFifos, TypeTraffic
<1>3. TypeRest'
  BY <1>0, <1>1 DEF TypeRest
<1>4. Hands' /\ Joins' /\ Objects' /\ Emptied'
  BY <1>0, <1>1 DEF Hands, Joins, Objects, Emptied, Uses
<1> QED BY <1>2, <1>3, <1>4, TypeGroups DEF StageInv

LEMMA StageNext == StageInv /\ [Next]_vars => StageInv'
<1> SUFFICES ASSUME StageInv, [Next]_vars PROVE StageInv'
  OBVIOUS
<1>1. CASE Main
  BY <1>1, SetupKeeps, ServingKeeps, TeardownKeeps DEF Main
<1>2. ASSUME NEW s \in Streams, Receiver(s) PROVE StageInv'
  BY <1>2, ReceiverKeeps
<1>3. CASE Converter
  BY <1>3, ConverterKeeps
<1>4. CASE Exporter
  BY <1>4, ExporterKeeps
<1>5. ASSUME NEW t \in Threads, ThreadFails(t) PROVE StageInv'
  BY <1>5, ThreadFailsKeeps
<1>6. CASE RosShutdown \/ TimePasses \/ Finished \/ UNCHANGED vars
  BY <1>6, SurroundingsKeep DEF Finished
<1> QED BY <1>1, <1>2, <1>3, <1>4, <1>5, <1>6 DEF Next

\* The variables keep their types; the Fifos never outgrow their capacity.
THEOREM PipelineTypeCorrect == Spec => []TypeOK
<1>1. StageInv => TypeOK
  BY DEF StageInv
<1> QED BY <1>1, StageInit, StageNext, PTL DEF Spec

\* No thread of the driver outlives an object it uses: the teardown joins
\* before it deletes (scansegment_threads.cpp:426-456).
THEOREM ThreadsUseLiveObjects == Spec => []NoUseAfterFree
<1>1. StageInv => NoUseAfterFree
  BY DEF StageInv, Objects, NoUseAfterFree, Live
<1> QED BY <1>1, StageInit, StageNext, PTL DEF Spec

-----------------------------------------------------------------------------
(* Who is joined has been started, and has been told to stop.              *)

ImuWatched == Serving \cup {"unlisten", "stopImu", "joinImu"}
ScanWatched == ImuWatched \cup {"stopScan", "joinScan"}
ExpWatched == ScanWatched \cup {"closeSopas", "joinExp"}
ConvWatched == ExpWatched \cup {"joinConv"}

\* The threads the main thread has yet to join exist, ...
ToJoin ==
  /\ pc \in ImuWatched /\ "imu" \in alive => th["imu"] # "none"
  /\ pc = "joinImu" => "imu" \in alive
  /\ pc \in ScanWatched => th["scan"] # "none"
  /\ pc \in ExpWatched => th["exp"] # "none"
  /\ pc \in ConvWatched => th["conv"] # "none"

\* ... and nothing keeps the one it waits for: its flag is down, and the Fifo it
\* may wait at is shut down.
ToldToStop ==
  /\ pc \in {"stopImu", "joinImu", "stopScan", "joinScan", "closeSopas", "joinExp"} => ~run["exp"]
  /\ pc = "joinImu" => "imu" \in Threads /\ ~run["imu"]
  /\ pc = "joinScan" => ~run["scan"]
  /\ pc \in {"closeSopas", "joinExp", "joinConv"} => "in" \in closed
  /\ pc = "joinExp" => "out" \in closed
  /\ pc = "joinConv" => ~run["conv"]

JoinInv == StageInv /\ ToJoin /\ ToldToStop

LEMMA JoinInit == Init => ToJoin /\ ToldToStop
BY DEF Init, ToJoin, ToldToStop, ConvWatched, ExpWatched, ScanWatched, ImuWatched, Serving

\* The steps of the threads leave the main thread where it is; none comes or
\* goes, and none is told to run again.
LEMMA ThreadSteps ==
  ASSUME StageInv,
         (\E s \in Streams : Receiver(s)) \/ Converter \/ Exporter \/ (\E t \in Threads : ThreadFails(t))
  PROVE  /\ UNCHANGED <<pc, alive, closed>>
         /\ \A t \in Threads : (run'[t] => run[t]) /\ (th'[t] = "none" <=> th[t] = "none")
<1>0. TypeThreads
  BY TypeGroups DEF StageInv
<1>1. ASSUME NEW t \in Threads, th[t] # "none", NEW v \in Working, th' = [th EXCEPT ![t] = v]
      PROVE  \A u \in Threads : th'[u] = "none" <=> th[u] = "none"
  BY <1>0, <1>1 DEF TypeThreads, Working
<1>2. ASSUME NEW s \in Streams, Receiver(s)
      PROVE  /\ UNCHANGED <<pc, alive, closed, run>>
             /\ \A u \in Threads : th'[u] = "none" <=> th[u] = "none"
  <2>1. UNCHANGED <<pc, alive, closed, run>>
    BY <1>2 DEF Receiver, Receive, PushInput, EndReceiver
  <2>2. s \in Threads /\ th[s] # "none"
        /\ (th' = [th EXCEPT ![s] = "push"] \/ th' = [th EXCEPT ![s] = "recv"] \/ th' = [th EXCEPT ![s] = "done"])
    BY <1>2, ThreadNames DEF Receiver, Receive, PushInput, EndReceiver, Moves
  <2> QED
    BY <2>1, <2>2, <1>1 DEF Working
<1>3. ASSUME Converter
      PROVE  /\ UNCHANGED <<pc, alive, closed, run>>
             /\ \A u \in Threads : th'[u] = "none" <=> th[u] = "none"
  <2>1. UNCHANGED <<pc, alive, closed, run>>
    BY <1>3 DEF Converter, PopInput, PopFails, Convert
  <2>2. th["conv"] # "none"
        /\ (\/ th' = [th EXCEPT !["conv"] = "work"] \/ th' = [th EXCEPT !["conv"] = "pop"]
            \/ th' = [th EXCEPT !["conv"] = "done"])
    BY <1>3 DEF Converter, PopInput, PopFails, Convert, Moves, Again
  <2> QED
    BY <2>1, <2>2, <1>1, ThreadNames DEF Working
<1>4. ASSUME Exporter
      PROVE  /\ UNCHANGED <<pc, alive, closed, run>>
             /\ \A u \in Threads : th'[u] = "none" <=> th[u] = "none"
  <2>1. UNCHANGED <<pc, alive, closed, run>>
    BY <1>4 DEF Exporter, PopOutput, PopFails, CopyListeners, CallListener
  <2>2. th["exp"] # "none"
        /\ (\/ th' = [th EXCEPT !["exp"] = "work"] \/ th' = [th EXCEPT !["exp"] = "pop"]
            \/ th' = [th EXCEPT !["exp"] = "call"] \/ th' = [th EXCEPT !["exp"] = "done"])
    BY <1>4 DEF Exporter, PopOutput, PopFails, CopyListeners, CallListener, Moves, Again
  <2> QED
    BY <2>1, <2>2, <1>1, ThreadNames DEF Working
<1>5. ASSUME NEW t \in Threads, ThreadFails(t)
      PROVE  /\ UNCHANGED <<pc, alive, closed>>
             /\ \A u \in Threads : (run'[u] => run[u]) /\ (th'[u] = "none" <=> th[u] = "none")
  <2>1. UNCHANGED <<pc, alive, closed>> /\ \A u \in Threads : run'[u] => run[u]
    BY <1>0, <1>5 DEF ThreadFails, TypeThreads
  <2>2. th[t] # "none" /\ th' = [th EXCEPT ![t] = "done"]
    BY <1>5 DEF ThreadFails, Live
  <2> QED
    BY <2>1, <2>2, <1>1 DEF Working
<1> QED
  BY <1>2, <1>3, <1>4, <1>5

LEMMA JoinSteps ==
  ASSUME JoinInv, UNCHANGED <<pc, alive, closed>>,
         \A t \in Threads : (run'[t] => run[t]) /\ (th'[t] = "none" <=> th[t] = "none")
  PROVE  ToJoin' /\ ToldToStop'
<1>1. "imu" \in alive => "imu" \in Threads
  BY DEF JoinInv, StageInv, TypeOK, Threads
<1> QED
  BY <1>1, ThreadNames DEF JoinInv, ToJoin, ToldToStop

LEMMA MainKeepsJoin ==
  ASSUME JoinInv, Main
  PROVE  ToJoin' /\ ToldToStop'
<1> USE ThreadNames DEF ConvWatched, ExpWatched, ScanWatched, ImuWatched, Serving, Goes
<1>0. /\ TypeMain /\ TypeThreads /\ Objects /\ ToJoin /\ ToldToStop
      /\ "imu" \in alive => "imu" \in Threads
  BY TypeGroups DEF JoinInv, StageInv, TypeMain, Threads
<1>1. CASE Enter \/ BindScan \/ NullReceiver \/ BindImu \/ SkipImu \/ CloseScan
  <2>1. pc' \in {"bind", "finished", "bindImu", "crashed", "build", "start"}
    BY <1>1 DEF Enter, BindScan, NullReceiver, BindImu, SkipImu, CloseScan
  <2> QED
    BY <2>1 DEF ToJoin, ToldToStop
<1>2. CASE Build
  <2>1. "scan" \in alive /\ pc' = "connect"
    BY <1>0, <1>2 DEF Build, Objects
  <2>2. \A t \in Threads : t \in alive \cup {"conv", "exp"} => th'[t] # "none"
    BY <1>2 DEF Build, Started, Entry
  <2>3. "imu" \in alive' => "imu" \in alive
    BY <1>2 DEF Build
  <2> QED
    BY <1>0, <2>1, <2>2, <2>3 DEF ToJoin, ToldToStop
<1>3. CASE Connect \/ Activate \/ StopWaiting \/ StopMonitoring
  <2>1. UNCHANGED <<alive, th>> /\ pc \in Serving /\ pc' \in {"activate", "wait", "monitor", "unlisten"}
    BY <1>3 DEF Connect, Activate, StopWaiting, StopMonitoring
  <2> QED
    BY <1>0, <2>1 DEF ToJoin, ToldToStop
<1>4. CASE Unlisten
  BY <1>0, <1>4 DEF Unlisten, ToJoin, ToldToStop, TypeThreads
<1>5. CASE StopImu
  <2>1. ~run'["exp"] /\ ("imu" \in Threads => ~run'["imu"])
    BY <1>0, <1>5 DEF StopImu, ToldToStop
  <2>2. UNCHANGED <<alive, th>> /\ pc = "stopImu"
        /\ pc' \in {"joinImu", "stopScan"} /\ (pc' = "joinImu" => "imu" \in alive)
    BY <1>5 DEF StopImu
  <2> QED
    BY <1>0, <2>1, <2>2 DEF ToJoin, ToldToStop
<1>6. CASE JoinImu
  <2>1. pc = "joinImu" /\ pc' = "stopScan" /\ UNCHANGED run
        /\ \A t \in Threads : t # "imu" => th'[t] = th[t]
    BY <1>0, <1>6 DEF JoinImu, Joined, TypeThreads
  <2> QED
    BY <1>0, <2>1 DEF ToJoin, ToldToStop
<1>7. CASE StopScan
  BY <1>0, <1>7 DEF StopScan, ToJoin, ToldToStop, TypeThreads
<1>8. CASE JoinScan
  <2>1. pc = "joinScan" /\ pc' = "closeSopas" /\ UNCHANGED run /\ "in" \in closed'
        /\ \A t \in Threads : t # "scan" => th'[t] = th[t]
    BY <1>0, <1>8 DEF JoinScan, Joined, TypeThreads
  <2> QED
    BY <1>0, <2>1 DEF ToJoin, ToldToStop
<1>9. CASE CloseSopas
  BY <1>0, <1>9 DEF CloseSopas, ToJoin, ToldToStop
<1>10. CASE JoinExp
  <2>1. pc = "joinExp" /\ pc' = "joinConv" /\ UNCHANGED closed /\ ~run'["conv"]
        /\ \A t \in Threads : t # "exp" => th'[t] = th[t]
    BY <1>0, <1>10 DEF JoinExp, Joined, TypeThreads
  <2> QED
    BY <1>0, <2>1 DEF ToJoin, ToldToStop
<1>11. CASE JoinConv
  BY <1>11 DEF JoinConv, ToJoin, ToldToStop
<1> QED
  BY <1>1, <1>2, <1>3, <1>4, <1>5, <1>6, <1>7, <1>8, <1>9, <1>10, <1>11 DEF Main

LEMMA PipelineJoinInv == Spec => []JoinInv
<1>1. Init => JoinInv
  BY StageInit, JoinInit DEF JoinInv
<1>2. JoinInv /\ [Next]_vars => JoinInv'
  <2> SUFFICES ASSUME JoinInv, [Next]_vars PROVE JoinInv'
    OBVIOUS
  <2>1. StageInv'
    BY StageNext DEF JoinInv
  <2>2. CASE (\E s \in Streams : Receiver(s)) \/ Converter \/ Exporter \/ (\E t \in Threads : ThreadFails(t))
    BY <2>1, <2>2, ThreadSteps, JoinSteps DEF JoinInv
  <2>3. CASE Main
    BY <2>1, <2>3, MainKeepsJoin DEF JoinInv
  <2>4. CASE RosShutdown \/ TimePasses \/ Finished \/ UNCHANGED vars
    <3>1. UNCHANGED <<pc, alive, closed, run, th>>
      BY <2>4 DEF RosShutdown, TimePasses, Finished, vars
    <3> QED
      BY <2>1, <3>1, JoinSteps DEF JoinInv
  <2> QED
    BY <2>2, <2>3, <2>4 DEF Next
<1> QED
  BY <1>1, <1>2, PTL DEF Spec

\* The join the main thread is in, and the steps a thread that was told to stop
\* takes at most.
JoinOf(t) == CASE t = "imu" -> "joinImu"
               [] t = "scan" -> "joinScan"
               [] t = "exp" -> "joinExp"
               [] t = "conv" -> "joinConv"
StepsLeft(place) ==
  CASE place = "none" -> 0
    [] place = "done" -> 1
    [] place \in {"recv", "pop", "work", "call"} -> 2
    [] place = "push" -> 3
JoinedSoon ==
  \A t \in Threads : pc = JoinOf(t) =>
    /\ th[t] # "none"
    /\ th'[t] # th[t] => StepsLeft(th'[t]) < StepsLeft(th[t])

\* What a thread does of its own.
Steps(t) ==
  CASE t = "conv" -> Converter
    [] t = "exp" -> Exporter
    [] OTHER -> Receiver(t)

\* None of these steps leaves a thread that is joined where it was: it does not
\* spin at a Fifo that was shut down, nor take up another message.
LEMMA JoinedSteps ==
  ASSUME JoinInv, NEW t \in Threads, pc = JoinOf(t), Steps(t)
  PROVE  StepsLeft(th'[t]) < StepsLeft(th[t])
<1>0. TypeThreads /\ ToJoin /\ ToldToStop
  BY TypeGroups DEF JoinInv, StageInv
<1>1. t \in {"imu", "scan", "exp", "conv"}
  BY ThreadNames
<1>2. /\ ~run[t]
      /\ t = "exp" => "out" \in closed
      /\ t = "conv" => "in" \in closed
  BY <1>0, <1>1 DEF JoinOf, ToldToStop
<1>3. CASE t \in {"imu", "scan"}
  <2>1. Receiver(t)
    BY <1>3 DEF Steps
  <2>2. (th[t] = "push" /\ th'[t] = "recv") \/ (th[t] = "recv" /\ th'[t] = "done")
    BY <1>0, <1>2, <2>1 DEF Receiver, Receive, PushInput, EndReceiver, Moves, TypeThreads
  <2> QED
    BY <2>2 DEF StepsLeft
<1>4. CASE t = "conv"
  <2>1. th[t] \in {"pop", "work"} /\ th'[t] = "done"
    BY <1>0, <1>2, <1>4 DEF Steps, Converter, PopInput, PopFails, Convert, CanPop, Again, Moves, TypeThreads
  <2> QED
    BY <2>1 DEF StepsLeft
<1>5. CASE t = "exp"
  <2>1. th[t] \in {"pop", "work", "call"} /\ th'[t] = "done"
    BY <1>0, <1>2, <1>5 DEF Steps, Exporter, PopOutput, PopFails, CopyListeners, CallListener, CanPop, Again,
                            Moves, TypeThreads
  <2> QED
    BY <2>1 DEF StepsLeft
<1> QED
  BY <1>1, <1>3, <1>4, <1>5

\* Whoever is joined was started, and whatever happens brings it closer to its
\* end: it does not wait at an open Fifo, and takes up no other message
\* (scansegment_threads.cpp:426-456, fifo.h:107-123).  With threads that are
\* scheduled, every join returns.
THEOREM JoinsAreShort == Spec => [][JoinedSoon]_vars
<1>1. ASSUME JoinInv, [Next]_vars, NEW t \in Threads, pc = JoinOf(t)
      PROVE  th[t] # "none" /\ (th'[t] # th[t] => StepsLeft(th'[t]) < StepsLeft(th[t]))
  <2>0. TypeThreads /\ ToJoin /\ ToldToStop
    BY <1>1, TypeGroups DEF JoinInv, StageInv
  <2>1. t \in {"imu", "scan", "exp", "conv"}
    BY ThreadNames
  <2>2. th[t] # "none"
    BY <1>1, <2>0, <2>1 DEF JoinOf, ToJoin, ConvWatched, ExpWatched, ScanWatched, ImuWatched
  <2>3. ASSUME NEW s \in Streams, Receiver(s), th'[t] # th[t]
        PROVE  StepsLeft(th'[t]) < StepsLeft(th[t])
    <3>1. s = t /\ t # "conv" /\ t # "exp"
      BY <2>0, <2>3, ThreadNames DEF Receiver, Receive, PushInput, EndReceiver, Moves, TypeThreads
    <3> QED
      BY <1>1, <2>3, <3>1, JoinedSteps DEF Steps
  <2>4. ASSUME Converter, th'[t] # th[t]
        PROVE  StepsLeft(th'[t]) < StepsLeft(th[t])
    <3>1. t = "conv"
      BY <2>0, <2>4 DEF Converter, PopInput, PopFails, Convert, Moves, TypeThreads
    <3> QED
      BY <1>1, <2>4, <3>1, JoinedSteps DEF Steps
  <2>5. ASSUME Exporter, th'[t] # th[t]
        PROVE  StepsLeft(th'[t]) < StepsLeft(th[t])
    <3>1. t = "exp"
      BY <2>0, <2>5 DEF Exporter, PopOutput, PopFails, CopyListeners, CallListener, Moves, TypeThreads
    <3> QED
      BY <1>1, <2>5, <3>1, JoinedSteps DEF Steps
  <2>6. ASSUME NEW u \in Threads, ThreadFails(u), th'[t] # th[t]
        PROVE  StepsLeft(th'[t]) < StepsLeft(th[t])
    <3>1. u = t /\ th'[t] = "done" /\ th[t] \notin {"none", "done"}
      BY <2>0, <2>6 DEF ThreadFails, Live, TypeThreads
    <3> QED
      BY <2>0, <3>1 DEF StepsLeft, TypeThreads
  <2>7. ASSUME Main, th'[t] # th[t]
        PROVE  StepsLeft(th'[t]) < StepsLeft(th[t])
    <3>1. pc \in {"joinImu", "joinScan", "joinExp", "joinConv"}
      BY <1>1, <2>1 DEF JoinOf
    <3>2. JoinImu \/ JoinScan \/ JoinExp \/ JoinConv
      BY <2>7, <3>1 DEF Main, Goes, Enter, BindScan, NullReceiver, BindImu, SkipImu, Build, Connect, Activate,
                        StopWaiting, StopMonitoring, Unlisten, StopImu, StopScan, CloseSopas, CloseScan
    <3>3. PICK u \in {"imu", "scan", "exp", "conv"} : Joined(u)
      BY <3>2 DEF JoinImu, JoinScan, JoinExp, JoinConv
    <3>4. th[t] = "done" /\ th'[t] = "none"
      BY <2>0, <2>7, <3>3 DEF Joined, TypeThreads
    <3> QED
      BY <3>4 DEF StepsLeft
  <2>8. ASSUME RosShutdown \/ TimePasses \/ Finished \/ UNCHANGED vars
        PROVE  th'[t] = th[t]
    BY <2>8 DEF RosShutdown, TimePasses, Finished, vars
  <2> QED
    BY <1>1, <2>2, <2>3, <2>4, <2>5, <2>6, <2>7, <2>8 DEF Next
<1>2. JoinInv /\ [Next]_vars => [JoinedSoon]_vars
  BY <1>1 DEF JoinedSoon
<1> QED
  BY <1>2, PipelineJoinInv, PTL DEF Spec
=============================================================================
