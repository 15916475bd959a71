---------------------------- MODULE ScanPipeline ----------------------------
(***************************************************************************)
(* The threads of the multiScan driver (sick_scansegment_xd): the UDP      *)
(* receivers of the scan and of the IMU stream push into one shared input  *)
(* Fifo, the converter parses its messages into the output Fifo, the       *)
(* exporter hands them to the publisher.  The main thread (runThreadCb)    *)
(* builds all of this, talks to the device over SOPAS, watches the         *)
(* traffic and, when the device falls silent, takes everything down in a   *)
(* fixed order and starts again.                                           *)
(***************************************************************************)
EXTENDS Naturals, Sequences

CONSTANTS
  Streams,      \* {"scan"}, or {"scan", "imu"} with imu_enable
  Length,       \* capacity of both Fifos (udp_input_fifolength; 20 in the code)
  ListenOnly,   \* listen_only_mode: no TCP connection is opened
  MaxArrivals,  \* bound: messages that arrive, of all streams
  MaxFaults     \* bound: threads that end with an exception

ASSUME StreamsAssumption == "scan" \in Streams /\ Streams \subseteq {"scan", "imu"}
ASSUME LengthAssumption == Length \in Nat \ {0}
ASSUME ModeAssumption == ListenOnly \in BOOLEAN
ASSUME BoundsAssumption == MaxArrivals \in Nat /\ MaxFaults \in Nat

VARIABLES
  ok,           \* rosOk(): the node is not being shut down
  pc,           \* main thread, runThreadCb
  alive,        \* objects that exist: receivers, Fifos "in" and "out", "pub"
  th,           \* where each background thread is
  run,          \* m_run_..._thread of each thread
  hand,         \* the message a thread has taken and not yet passed on
  inq, outq,    \* the two Fifos
  closed,       \* the Fifos whose m_shutdown is set
  pushed,       \* TotalMessagesPushed of the input Fifo, counted up to 2
  quiet,        \* the wait of the main thread has timed out (first: 60 s, then: 10 s)
  conn,         \* sopas_tcp->isConnected()
  active,       \* SetActive(true) of converter and publisher
  listening,    \* the publisher is registered with the exporter
  faults,
  arrived,      \* per stream: messages received so far; they are numbered from 1
  last,         \* per stream: number of the last message published
  given,        \* messages published so far
  epoch         \* per stream: messages received before this session

main == <<pc, alive, conn, active, listening>>
threads == <<th, run, hand>>
fifos == <<inq, outq, closed, pushed, quiet>>
env == <<ok, faults>>
traffic == <<arrived, last, given, epoch>>
vars == <<main, threads, fifos, env, traffic>>

Threads == Streams \cup {"conv", "exp"}
Messages == [src : Streams, n : Nat]

Setup == {"start", "bind", "bindImu", "build"}
Serving == {"connect", "activate", "wait", "monitor"}
Teardown == {"unlisten", "stopImu", "joinImu", "stopScan", "joinScan", "closeSopas",
             "joinExp", "joinConv", "closeScan"}
Ended == {"finished", "crashed"}

Live(t) == th[t] \notin {"none", "done"}

TypeOK ==
  /\ ok \in BOOLEAN /\ quiet \in BOOLEAN /\ conn \in BOOLEAN
  /\ active \in BOOLEAN /\ listening \in BOOLEAN
  /\ pc \in Setup \cup Serving \cup Teardown \cup Ended
  /\ alive \subseteq Streams \cup {"in", "out", "pub"}
  /\ th \in [Threads -> {"none", "recv", "push", "pop", "work", "call", "done"}]
  /\ run \in [Threads -> BOOLEAN]
  /\ hand \in [Threads -> Seq(Messages)] /\ \A t \in Threads : Len(hand[t]) <= 1
  /\ inq \in Seq(Messages) /\ Len(inq) <= Length
  /\ outq \in Seq(Messages) /\ Len(outq) <= Length
  /\ closed \subseteq {"in", "out"}
  /\ pushed \in 0 .. 2
  /\ faults \in 0 .. MaxFaults /\ given \in Nat
  /\ arrived \in [Streams -> Nat] /\ last \in [Streams -> Nat] /\ epoch \in [Streams -> Nat]

Init ==
  /\ ok = TRUE /\ pc = "start" /\ alive = {}
  /\ th = [t \in Threads |-> "none"]
  /\ run = [t \in Threads |-> FALSE]
  /\ hand = [t \in Threads |-> <<>>]
  /\ inq = <<>> /\ outq = <<>> /\ closed = {}
  /\ pushed = 0 /\ quiet = FALSE
  /\ conn = FALSE /\ active = FALSE /\ listening = FALSE
  /\ faults = 0
  /\ arrived = [s \in Streams |-> 0]
  /\ last = [s \in Streams |-> 0] /\ given = 0
  /\ epoch = [s \in Streams |-> 0]

-----------------------------------------------------------------------------
(* The Fifos, fifo.h.                                                      *)

\* Push never blocks: the oldest element gives way.
DropOldest(q) == IF Len(q) > Length THEN Tail(q) ELSE q
Push(q, m) == DropOldest(Append(q, m))

\* Pop leaves its wait with an element; or without one, after Shutdown.
CanPop(f, q) == f \notin closed /\ q # <<>>

-----------------------------------------------------------------------------
(* The receivers, one thread per stream, udp_receiver.cpp.                 *)

Moves(t, from, to) == th[t] = from /\ th' = [th EXCEPT ![t] = to]

Arrivals == arrived["scan"] + (IF "imu" \in Streams THEN arrived["imu"] ELSE 0)

\* Receive returns a whole message with a good CRC.  One that is lost on the
\* way, cut short by the receive timeout, or left in the socket when it closes,
\* does not count as arrived.
Receive(s) ==
  /\ run[s] /\ Moves(s, "recv", "push")
  /\ Arrivals < MaxArrivals
  /\ arrived' = [arrived EXCEPT ![s] = @ + 1]
  /\ hand' = [hand EXCEPT ![s] = <<[src |-> s, n |-> arrived[s] + 1]>>]
  /\ UNCHANGED <<main, run, fifos, env, last, given, epoch>>

PushInput(s) ==
  /\ Moves(s, "push", "recv")
  /\ inq' = Push(inq, hand[s][1])
  /\ pushed' = IF pushed = 2 THEN 2 ELSE pushed + 1
  /\ quiet' = FALSE
  /\ hand' = [hand EXCEPT ![s] = <<>>]
  /\ UNCHANGED <<main, run, outq, closed, env, traffic>>

\* Receive polls m_running every millisecond, so it never outlives the flag.
EndReceiver(s) ==
  /\ ~run[s] /\ Moves(s, "recv", "done")
  /\ UNCHANGED <<main, run, hand, fifos, env, traffic>>

Receiver(s) == Receive(s) \/ PushInput(s) \/ EndReceiver(s)

-----------------------------------------------------------------------------
(* The converter, msgpack_converter.cpp.                                   *)

\* Both loops test their flag before each Pop; the model takes the test with
\* the step before it.
Again(t) == IF run[t] THEN "pop" ELSE "done"

\* Between Shutdown and the end of the flag the loop spins.
PopFails(t, f) ==
  /\ f \in closed /\ Moves(t, "pop", Again(t))
  /\ UNCHANGED <<main, run, hand, fifos, env, traffic>>

PopInput ==
  /\ CanPop("in", inq) /\ Moves("conv", "pop", "work")
  /\ hand' = [hand EXCEPT !["conv"] = <<inq[1]>>]
  /\ inq' = Tail(inq)
  /\ UNCHANGED <<main, run, outq, closed, pushed, quiet, env, traffic>>

\* Messages that arrive during the SOPAS start sequence are dropped, and so
\* are those the parser rejects.
Convert ==
  /\ Moves("conv", "work", Again("conv"))
  /\ \/ active /\ outq' = Push(outq, hand["conv"][1])
     \/ UNCHANGED outq
  /\ hand' = [hand EXCEPT !["conv"] = <<>>]
  /\ UNCHANGED <<main, run, inq, closed, pushed, quiet, env, traffic>>

Converter == PopInput \/ PopFails("conv", "in") \/ Convert

-----------------------------------------------------------------------------
(* The exporter, msgpack_exporter.cpp.                                     *)

(* slip: front() without pop() *)
PopOutputAgain ==
  /\ CanPop("out", outq) /\ Moves("exp", "pop", "work")
  /\ hand' = [hand EXCEPT !["exp"] = <<outq[1]>>]
  /\ UNCHANGED <<main, run, fifos, env, traffic>>

PopOutput ==
  /\ CanPop("out", outq) /\ Moves("exp", "pop", "work")
  /\ hand' = [hand EXCEPT !["exp"] = <<outq[1]>>]
  /\ outq' = Tail(outq)
  /\ UNCHANGED <<main, run, inq, closed, pushed, quiet, env, traffic>>

\* The list of listeners is copied under its mutex, unless Stop has been
\* called, and then called without the mutex.
CopyListeners ==
  /\ Moves("exp", "work", IF run["exp"] /\ listening THEN "call" ELSE Again("exp"))
  /\ hand' = [hand EXCEPT !["exp"] = IF run["exp"] /\ listening THEN @ ELSE <<>>]
  /\ UNCHANGED <<main, run, fifos, env, traffic>>

\* RosMsgpackPublisher::HandleMsgPackData, see ScanFrames; then the sizes of
\* both Fifos are read for the timing statistics.
CallListener ==
  /\ Moves("exp", "call", Again("exp"))
  /\ LET m == hand["exp"][1] IN
       \/ active /\ last' = [last EXCEPT ![m.src] = m.n] /\ given' = given + 1
       \/ ~active /\ UNCHANGED <<last, given>>
  /\ hand' = [hand EXCEPT !["exp"] = <<>>]
  /\ UNCHANGED <<main, run, fifos, env, arrived, epoch>>

Exporter == PopOutput \/ PopFails("exp", "out") \/ CopyListeners \/ CallListener

\* Each Run function catches what its loop throws, and ends.
ThreadFails(t) ==
  /\ Live(t) /\ faults < MaxFaults
  /\ faults' = faults + 1
  /\ th' = [th EXCEPT ![t] = "done"]
  /\ run' = [run EXCEPT ![t] = FALSE]
  /\ hand' = [hand EXCEPT ![t] = <<>>]
  /\ UNCHANGED <<main, fifos, ok, traffic>>

-----------------------------------------------------------------------------
(* The main thread, runThreadCb: building up.                              *)

Goes(from, to) == pc = from /\ pc' = to

Enter ==
  /\ Goes("start", IF ok THEN "bind" ELSE "finished")
  /\ UNCHANGED <<alive, conn, active, listening, threads, fifos, env, traffic>>

\* The scan receiver owns the input Fifo.  A failed bind is retried.
BindScan ==
  /\ ok /\ Goes("bind", "bindImu")
  /\ alive' = alive \cup {"scan", "in"}
  /\ closed' = {} /\ pushed' = 0
  /\ epoch' = arrived
  /\ UNCHANGED <<conn, active, listening, threads, inq, outq, quiet, env, arrived, last, given>>

\* The retries stop when the node shuts down, and udp_receiver->Fifo() is
\* called on a null pointer.
NullReceiver ==
  /\ ~ok /\ Goes("bind", "crashed")
  /\ UNCHANGED <<alive, conn, active, listening, threads, fifos, env, traffic>>

BindImu ==
  /\ "imu" \in Streams /\ ok /\ Goes("bindImu", "build")
  /\ alive' = alive \cup {"imu"}
  /\ UNCHANGED <<conn, active, listening, threads, fifos, env, traffic>>

SkipImu ==
  /\ "imu" \notin Streams \/ ~ok
  /\ Goes("bindImu", "build")
  /\ UNCHANGED <<alive, conn, active, listening, threads, fifos, env, traffic>>

Entry(t) == IF t \in Streams THEN "recv" ELSE "pop"
Started(t) == t \in alive \cup {"conv", "exp"}

Build ==
  /\ Goes("build", "connect")
  /\ alive' = alive \cup {"out", "pub"}
  /\ active' = FALSE /\ listening' = TRUE
  /\ th' = [t \in Threads |-> IF Started(t) THEN Entry(t) ELSE "none"]
  /\ run' = [t \in Threads |-> Started(t)]
  /\ UNCHANGED <<conn, hand, fifos, env, traffic>>

Connect ==
  /\ Goes("connect", "activate")
  /\ conn' \in (IF ListenOnly THEN {FALSE} ELSE BOOLEAN)
  /\ UNCHANGED <<alive, active, listening, threads, fifos, env, traffic>>

\* The start command (the device may be sending already, or never hear of it);
\* then messages are let through.
Activate ==
  /\ Goes("activate", "wait")
  /\ active' = TRUE
  /\ UNCHANGED <<alive, conn, listening, threads, fifos, env, traffic>>

-----------------------------------------------------------------------------
(* The main thread: watching the traffic.                                  *)

StopWaiting ==
  /\ ~ok \/ ~conn \/ pushed > 1 \/ quiet
  /\ Goes("wait", "monitor") /\ quiet' = FALSE
  /\ UNCHANGED <<alive, conn, active, listening, threads, inq, outq, closed, pushed, env, traffic>>

(* slip: only the number of messages is looked at, not their age *)
StopMonitoringLate ==
  /\ ~ok \/ (~conn /\ ~ListenOnly) \/ pushed <= 1
  /\ Goes("monitor", "unlisten") /\ quiet' = FALSE
  /\ UNCHANGED <<alive, conn, active, listening, threads, inq, outq, closed, pushed, env, traffic>>

StopMonitoring ==
  /\ ~ok \/ (~conn /\ ~ListenOnly) \/ pushed <= 1 \/ quiet
  /\ Goes("monitor", "unlisten") /\ quiet' = FALSE
  /\ UNCHANGED <<alive, conn, active, listening, threads, inq, outq, closed, pushed, env, traffic>>

-----------------------------------------------------------------------------
(* The main thread: taking down.                                           *)

\* RemoveExportListener and Stop of the exporter.
Unlisten ==
  /\ Goes("unlisten", "stopImu")
  /\ listening' = FALSE
  /\ run' = [run EXCEPT !["exp"] = FALSE]
  /\ UNCHANGED <<alive, conn, active, th, hand, fifos, env, traffic>>

StopImu ==
  /\ Goes("stopImu", IF "imu" \in alive THEN "joinImu" ELSE "stopScan")
  /\ run' = [t \in Threads |-> run[t] /\ t # "imu"]
  /\ UNCHANGED <<alive, conn, active, listening, th, hand, fifos, env, traffic>>

Joined(t) == th[t] = "done" /\ th' = [th EXCEPT ![t] = "none"]

\* The IMU receiver shares the Fifo of the other and leaves it alone.
JoinImu ==
  /\ Goes("joinImu", "stopScan") /\ Joined("imu")
  /\ alive' = alive \ {"imu"}
  /\ UNCHANGED <<conn, active, listening, run, hand, fifos, env, traffic>>

StopScan ==
  /\ Goes("stopScan", "joinScan")
  /\ run' = [run EXCEPT !["scan"] = FALSE]
  /\ UNCHANGED <<alive, conn, active, listening, th, hand, fifos, env, traffic>>

JoinScan ==
  /\ Goes("joinScan", "closeSopas") /\ Joined("scan")
  /\ closed' = closed \cup {"in"}
  /\ UNCHANGED <<alive, conn, active, listening, run, hand, inq, outq, pushed, quiet, env, traffic>>

(* slip: the output Fifo is not shut down before its thread is joined *)
CloseSopasOnly ==
  /\ Goes("closeSopas", "joinExp")
  /\ conn' = FALSE
  /\ UNCHANGED <<alive, active, listening, threads, fifos, env, traffic>>

\* The stop command, the end of the SOPAS client, Shutdown of the output Fifo.
CloseSopas ==
  /\ Goes("closeSopas", "joinExp")
  /\ conn' = FALSE
  /\ closed' = closed \cup {"out"}
  /\ UNCHANGED <<alive, active, listening, threads, inq, outq, pushed, quiet, env, traffic>>

(* slip: the exporter is told to stop but not waited for *)
DetachExp ==
  /\ Goes("joinExp", "joinConv")
  /\ run' = [run EXCEPT !["conv"] = FALSE]
  /\ UNCHANGED <<alive, conn, active, listening, th, hand, fifos, env, traffic>>

JoinExp ==
  /\ Goes("joinExp", "joinConv") /\ Joined("exp")
  /\ run' = [run EXCEPT !["conv"] = FALSE]
  /\ UNCHANGED <<alive, conn, active, listening, hand, fifos, env, traffic>>

\* The converter owns the output Fifo.
JoinConv ==
  /\ Goes("joinConv", "closeScan") /\ Joined("conv")
  /\ alive' = alive \ {"out"} /\ outq' = <<>>
  /\ UNCHANGED <<conn, active, listening, run, hand, inq, closed, pushed, quiet, env, traffic>>

(* slip: the Fifo is kept for the next session *)
CloseScanKeepsFifo ==
  /\ Goes("closeScan", "start")
  /\ alive' = alive \ {"scan", "in", "pub"}
  /\ active' = FALSE
  /\ UNCHANGED <<conn, listening, threads, fifos, env, traffic>>

\* Close of the scan receiver deletes the input Fifo; the publisher goes at the
\* end of the scope.
CloseScan ==
  /\ Goes("closeScan", "start")
  /\ alive' = alive \ {"scan", "in", "pub"} /\ inq' = <<>>
  /\ active' = FALSE
  /\ UNCHANGED <<conn, listening, threads, outq, closed, pushed, quiet, env, traffic>>

Main ==
  \/ Enter \/ BindScan \/ NullReceiver \/ BindImu \/ SkipImu \/ Build \/ Connect \/ Activate
  \/ StopWaiting \/ StopMonitoring
  \/ Unlisten \/ StopImu \/ JoinImu \/ StopScan \/ JoinScan \/ CloseSopas
  \/ JoinExp \/ JoinConv \/ CloseScan

-----------------------------------------------------------------------------
(* The surroundings.                                                       *)

RosShutdown ==
  /\ ok /\ ok' = FALSE
  /\ UNCHANGED <<main, threads, fifos, faults, traffic>>

\* The timeout of the current wait passes since the last push.
TimePasses ==
  /\ pc \in {"wait", "monitor"} /\ ~quiet
  /\ quiet' = TRUE
  /\ UNCHANGED <<main, threads, inq, outq, closed, pushed, env, traffic>>

Finished ==
  /\ pc \in Ended
  /\ UNCHANGED vars

Next ==
  \/ Main
  \/ \E s \in Streams : Receiver(s)
  \/ Converter \/ Exporter
  \/ \E t \in Threads : ThreadFails(t)
  \/ RosShutdown \/ TimePasses \/ Finished

Spec == Init /\ [][Next]_vars

\* The threads are scheduled, joins return when the thread has ended, and a
\* wait in which nothing comes in ends.  The last only needs the device to fall
\* silent, as it does here after MaxArrivals messages.
FairSpec ==
  /\ Spec
  /\ WF_vars(Main)
  /\ \A s \in Streams : WF_vars(PushInput(s) \/ EndReceiver(s))
  /\ WF_vars(Converter) /\ WF_vars(Exporter)
  /\ WF_vars(TimePasses)

-----------------------------------------------------------------------------
(* Properties.                                                             *)

Uses(t) ==
  CASE t = "conv" -> {"in", "out"}
    [] t = "exp" -> {"in", "out", "pub"}
    [] OTHER -> {t, "in"}

\* While a thread runs, the objects it was given pointers to exist: the order
\* of the teardown (scansegment_threads.cpp:426-456) deletes none too early.
NoUseAfterFree == \A t \in Threads : Live(t) => Uses(t) \subseteq alive

\* The subscriber sees each stream in order and without repetitions, across
\* any number of restarts (fifo.h:93-123, scansegment_threads.cpp:206-463).
Channel == INSTANCE LossyChannel
ImplementsChannel == Channel!Spec

\* What is published was received in this session: no message of the Fifos of
\* a session taken down appears in the next one.
FreshSession == [][\A s \in Streams : last'[s] # last[s] => last'[s] > epoch[s]]_vars

\* Once the node is told to stop, the main thread ends, whatever the threads
\* wait for: every join returns (scansegment_threads.cpp:384-456).
ShutdownEnds == ~ok ~> pc \in Ended

\* When nothing comes in any more, the driver takes itself down and starts
\* again, and again (scansegment_threads.cpp:402-411).
SilenceRestarts == []<>(pc \in {"start"} \cup Ended)
=============================================================================
