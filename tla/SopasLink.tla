----------------------------- MODULE SopasLink -----------------------------
(***************************************************************************)
(* The SOPAS connection of one session of the lidar driver: the session    *)
(* thread (runThreadCb, whose Connect, Activate and CloseSopas steps in    *)
(* ScanPipeline this module opens up) and the callbacks of the ROS         *)
(* services send requests over one TCP connection; its read thread puts    *)
(* every datagram into one queue, where the sender of a request picks what *)
(* looks like the answer; the end of the session takes all of it down.     *)
(***************************************************************************)
EXTENDS Naturals, Sequences

CONSTANTS
  Commands,     \* <<method, keyword>>, as <<"sRN", "DeviceState">>
  MaxRequests,  \* bound: requests sent
  MaxEvents,    \* bound: datagrams the device sends unasked
  MaxRetries    \* answers of another kind a request puts up with (100 in the code)

ASSUME CommandsAssumption == Commands # {} /\ \A k \in Commands : k = <<k[1], k[2]>>
ASSUME BoundsAssumption == MaxRequests \in Nat /\ MaxEvents \in Nat /\ MaxRetries \in Nat

VARIABLES
  phase,      \* session thread
  at,         \* where each client is in sendSopasAndCheckAnswer
  holder,     \* who has sopasSendMutex
  id, cmd,    \* number and command of the request a client is busy with
  frame,      \* the datagram it has popped
  retries,    \* retry_answer_cnt
  requests,   \* requests begun so far
  lost,       \* requests that ended without an answer of their own
  conn,       \* m_state = CONNECTED
  sock,       \* m_connectionSocket >= 0
  peer,       \* the device has the connection open
  thread,     \* TcpRecvThread
  shouldRun,  \* its m_threadShouldRun
  read,       \* the datagram it has received
  recvQueue,
  asked,      \* requests the device has yet to answer
  events,     \* datagrams sent unasked so far
  alive       \* objects that exist

client == <<at, holder, id, cmd, frame, retries, requests, lost>>
tcp == <<conn, sock, thread, shouldRun, read, recvQueue>>
device == <<peer, asked, events>>
vars == <<phase, client, tcp, device, alive>>

Clients == {"session", "services"}
Nobody == "nobody"
None == <<>>  \* no command
Frames == [kind : {"answer", "error", "event"}, cmd : Commands, of : 0 .. MaxRequests]

Closing == {"stop", "delete services", "disconnect", "close", "close socket", "join", "joining",
            "free queue", "free"}
Reader == {"none", "starting", "test", "enter", "poll", "callback", "lost", "ended"}

TypeOK ==
  /\ phase \in {"off", "start", "serve"} \cup Closing
  /\ at \in [Clients -> {"idle", "want", "write", "look", "sleep", "pop", "check"}]
  /\ holder \in Clients \cup {Nobody}
  /\ id \in [Clients -> 0 .. MaxRequests] /\ cmd \in [Clients -> Commands \cup {None}]
  /\ frame \in [Clients -> Seq(Frames)] /\ retries \in [Clients -> 0 .. MaxRetries]
  /\ requests \in 0 .. MaxRequests /\ lost \subseteq 1 .. MaxRequests
  /\ conn \in BOOLEAN /\ sock \in BOOLEAN /\ peer \in BOOLEAN /\ shouldRun \in BOOLEAN
  /\ thread \in Reader
  /\ read \in Seq(Frames) /\ recvQueue \in Seq(Frames)
  /\ asked \in Seq(Frames) /\ events \in 0 .. MaxEvents
  /\ alive \subseteq {"services", "queue", "tcp"}

Init ==
  /\ phase = "off" /\ alive = {}
  /\ at = [c \in Clients |-> "idle"] /\ holder = Nobody
  /\ id = [c \in Clients |-> 0] /\ cmd = [c \in Clients |-> None]
  /\ frame = [c \in Clients |-> <<>>] /\ retries = [c \in Clients |-> 0]
  /\ requests = 0 /\ lost = {}
  /\ conn = FALSE /\ sock = FALSE /\ thread = "none" /\ shouldRun = FALSE
  /\ read = <<>> /\ recvQueue = <<>>
  /\ peer = FALSE /\ asked = <<>> /\ events = 0

-----------------------------------------------------------------------------
(* Requests: SickScanServices and SickScanCommon::sendSopasAndCheckAnswer. *)

Goes(c, from, to) == at[c] = from /\ at' = [at EXCEPT ![c] = to]

\* The session thread sends its start and stop sequences, if connected; the
\* services call back as long as they exist.
MayCall(c) ==
  IF c = "session" THEN phase \in {"start", "stop"} /\ conn
                   ELSE "services" \in alive /\ phase # "delete services"

Call(c) ==
  /\ MayCall(c) /\ requests < MaxRequests
  /\ Goes(c, "idle", "want")
  /\ requests' = requests + 1 /\ id' = [id EXCEPT ![c] = requests + 1]
  /\ \E k \in Commands : cmd' = [cmd EXCEPT ![c] = k]
  /\ UNCHANGED <<phase, holder, frame, retries, lost, tcp, device, alive>>

(* slip: no mutex, or one mutex per caller *)
LockNothing(c) ==
  /\ Goes(c, "want", "write")
  /\ holder' = c
  /\ UNCHANGED <<phase, id, cmd, frame, retries, requests, lost, tcp, device, alive>>

Lock(c) ==
  /\ holder = Nobody /\ Goes(c, "want", "write")
  /\ holder' = c
  /\ UNCHANGED <<phase, id, cmd, frame, retries, requests, lost, tcp, device, alive>>

\* A request is over, with its own answer or not; what it held is released.
Ends(c, own) ==
  /\ at' = [at EXCEPT ![c] = "idle"]
  /\ holder' = Nobody
  /\ frame' = [frame EXCEPT ![c] = <<>>] /\ retries' = [retries EXCEPT ![c] = 0]
  /\ id' = [id EXCEPT ![c] = 0] /\ cmd' = [cmd EXCEPT ![c] = None]
  /\ lost' = IF own THEN lost ELSE lost \cup {id[c]}
  /\ UNCHANGED <<phase, requests, tcp, alive>>

\* sendCommandBuffer: the socket takes the bytes even if the device is gone.
Write(c) ==
  /\ sock /\ Goes(c, "write", "look")
  /\ asked' = IF peer THEN Append(asked, [kind |-> "answer", cmd |-> cmd[c], of |-> id[c]]) ELSE asked
  /\ UNCHANGED <<phase, holder, id, cmd, frame, retries, requests, lost, tcp, peer, events, alive>>

WriteFails(c) ==
  /\ at[c] = "write" /\ (~sock \/ ~peer)
  /\ Ends(c, FALSE) /\ UNCHANGED device

\* Queue::findFirstByKeyword: any datagram with the keyword of the request,
\* and any error, whatever it is the answer to.
Keyword(k) == k[2]
Matches(f, k) == f.kind = "error" \/ Keyword(f.cmd) = Keyword(k)
Found(k) == {i \in DOMAIN recvQueue : Matches(recvQueue[i], k)}
Without(q, i) == SubSeq(q, 1, i - 1) \o SubSeq(q, i + 1, Len(q))

\* waitForIncomingObject looks after each push (see Deliver) ...
Look(c) ==
  /\ Goes(c, "look", IF Found(cmd[c]) = {} THEN "sleep" ELSE "pop")
  /\ UNCHANGED <<phase, holder, id, cmd, frame, retries, requests, lost, tcp, device, alive>>

\* ... and the request fails when none comes for the time of the timeout.
TimesOut(c) ==
  /\ at[c] = "sleep"
  /\ Ends(c, FALSE) /\ UNCHANGED device

\* pop would wait without a timeout.
Pop(c) ==
  /\ Goes(c, "pop", "check")
  /\ \E i \in Found(cmd[c]) :
       /\ \A j \in Found(cmd[c]) : i <= j
       /\ frame' = [frame EXCEPT ![c] = <<recvQueue[i]>>]
       /\ recvQueue' = Without(recvQueue, i)
  /\ UNCHANGED <<phase, holder, id, cmd, retries, requests, lost, conn, sock, thread, shouldRun, read,
                 device, alive>>

\* An answer to a command of the same method is taken for the own one, an error
\* for the answer to anything.
Expected(f, k) == f.kind = "answer" /\ f.cmd = k
Settles(f, k) == Expected(f, k) \/ f.kind = "error"

Accepts(c) ==
  /\ at[c] = "check" /\ Settles(frame[c][1], cmd[c])
  /\ Ends(c, frame[c][1].of = id[c]) /\ UNCHANGED device

\* Something else with the same keyword: look again, ...
Retry(c) ==
  /\ at[c] = "check" /\ ~Settles(frame[c][1], cmd[c]) /\ retries[c] < MaxRetries
  /\ Goes(c, "check", "look")
  /\ retries' = [retries EXCEPT ![c] = @ + 1]
  /\ frame' = [frame EXCEPT ![c] = <<>>]
  /\ UNCHANGED <<phase, holder, id, cmd, requests, lost, tcp, device, alive>>

\* ... until there were too many of them, or five seconds have passed.
GivesUp(c) ==
  /\ at[c] = "check" /\ ~Settles(frame[c][1], cmd[c])
  /\ Ends(c, FALSE) /\ UNCHANGED device

\* What a client does once it has called.
Client(c) ==
  \/ Lock(c) \/ Write(c) \/ WriteFails(c) \/ Look(c) \/ TimesOut(c) \/ Pop(c)
  \/ Accepts(c) \/ Retry(c) \/ GivesUp(c)

-----------------------------------------------------------------------------
(* The read thread: SickThread::thread_entry, Tcp::readThreadFunction.     *)

Reads(from, to) == thread = from /\ thread' = to

\* thread_entry sets the flag, also when close() has cleared it before.
RtStart ==
  /\ Reads("starting", "test")
  /\ shouldRun' = TRUE
  /\ UNCHANGED <<phase, client, conn, sock, read, recvQueue, device, alive>>

RtTest ==
  /\ Reads("test", IF shouldRun THEN "enter" ELSE "ended")
  /\ UNCHANGED <<phase, client, conn, sock, shouldRun, read, recvQueue, device, alive>>

\* Without a socket the thread ends, or sees its flag at the next test.
RtEnter ==
  /\ Reads("enter", IF sock THEN "poll" ELSE "ended")
  /\ UNCHANGED <<phase, client, conn, sock, shouldRun, read, recvQueue, device, alive>>

\* What comes in when the flag is cleared is dropped.
Receives(f) ==
  IF shouldRun THEN Reads("poll", "callback") /\ read' = <<f>>
               ELSE Reads("poll", "lost") /\ UNCHANGED read

RtAnswer ==
  /\ sock /\ asked # <<>>
  /\ \E k \in {"answer", "error"} : Receives([Head(asked) EXCEPT !.kind = k])
  /\ asked' = Tail(asked)
  /\ UNCHANGED <<phase, client, conn, sock, shouldRun, recvQueue, peer, events, alive>>

\* Events (sSN) of what a service has switched on.
RtEvent ==
  /\ sock /\ peer /\ events < MaxEvents
  /\ \E k \in Commands : Receives([kind |-> "event", cmd |-> k, of |-> 0])
  /\ events' = events + 1
  /\ UNCHANGED <<phase, client, conn, sock, shouldRun, recvQueue, peer, asked, alive>>

\* The connection or the socket is gone, or the flag was cleared a second ago.
RtNothing ==
  /\ ~sock \/ ~peer \/ ~shouldRun
  /\ Reads("poll", "lost")
  /\ UNCHANGED <<phase, client, conn, sock, shouldRun, read, recvQueue, device, alive>>

\* processFrame pushes into recvQueue and wakes whoever waits.
Deliver ==
  /\ Reads("callback", "test")
  /\ recvQueue' = Append(recvQueue, read[1]) /\ read' = <<>>
  /\ at' = [c \in Clients |-> IF at[c] = "sleep" THEN "look" ELSE at[c]]
  /\ UNCHANGED <<phase, holder, id, cmd, frame, retries, requests, lost, conn, sock, shouldRun,
                 device, alive>>

RtLost ==
  /\ Reads("lost", "test")
  /\ sock' = FALSE
  /\ UNCHANGED <<phase, client, conn, shouldRun, read, recvQueue, device, alive>>

\* All it does without the help of the device.
ReadThread == RtStart \/ RtTest \/ RtEnter \/ RtNothing \/ Deliver \/ RtLost

-----------------------------------------------------------------------------
(* The device and the network.                                             *)

Ignores ==
  /\ asked # <<>> /\ asked' = Tail(asked)
  /\ UNCHANGED <<phase, client, tcp, peer, events, alive>>

LinkLoss ==
  /\ peer /\ peer' = FALSE
  /\ UNCHANGED <<phase, client, tcp, asked, events, alive>>

-----------------------------------------------------------------------------
(* The session thread.                                                     *)

Steps(from, to) == phase = from /\ phase' = to /\ at["session"] = "idle"

\* init_device connects, unless listen-only mode is on or the device does not
\* take the connection, and starts the read thread; the services come next.
Open ==
  /\ Steps("off", "start")
  /\ alive' = {"services", "queue", "tcp"}
  /\ \E up \in BOOLEAN :
       /\ conn' = up /\ sock' = up /\ peer' = up /\ shouldRun' = up
       /\ thread' = IF up THEN "starting" ELSE "none"
  /\ UNCHANGED <<client, read, recvQueue, asked, events>>

\* The start sequence ends; the session; the stop sequence begins, and ends.
Serve == Steps("start", "serve") /\ UNCHANGED <<client, tcp, device, alive>>
Stop == Steps("serve", "stop") /\ UNCHANGED <<client, tcp, device, alive>>
Stopped == Steps("stop", "delete services") /\ UNCHANGED <<client, tcp, device, alive>>

\* delete sopas_service: roscpp waits for the callback that is being called.
DeleteServices ==
  /\ at["services"] = "idle" /\ Steps("delete services", "disconnect")
  /\ alive' = alive \ {"services"}
  /\ UNCHANGED <<client, tcp, device>>

(* slip: the read thread is left to ~Tcp *)
DisconnectNothing ==
  /\ Steps("disconnect", "free queue")
  /\ conn' = FALSE
  /\ UNCHANGED <<client, sock, thread, shouldRun, read, recvQueue, device, alive>>

\* delete sopas_tcp, close_device: the socket is closed if it is still open.
Disconnect ==
  /\ Steps("disconnect", IF sock THEN "close" ELSE "free queue")
  /\ conn' = FALSE
  /\ UNCHANGED <<client, sock, thread, shouldRun, read, recvQueue, device, alive>>

\* Tcp::close, for close_device and once more for ~Tcp, when the queue is gone.
AfterClose == IF "queue" \in alive THEN "free queue" ELSE "free"

Close ==
  /\ Steps("close", "close socket")
  /\ shouldRun' = FALSE
  /\ UNCHANGED <<client, conn, sock, thread, read, recvQueue, device, alive>>

(* slip: the flag alone is to stop the read thread *)
CloseSocketNot ==
  /\ Steps("close socket", IF thread = "none" THEN AfterClose ELSE "join")
  /\ UNCHANGED <<client, tcp, device, alive>>

CloseSocket ==
  /\ Steps("close socket", IF thread = "none" THEN AfterClose ELSE "join")
  /\ sock' = FALSE
  /\ UNCHANGED <<client, conn, thread, shouldRun, read, recvQueue, device, alive>>

Join ==
  /\ Steps("join", "joining")
  /\ shouldRun' = FALSE
  /\ UNCHANGED <<client, conn, sock, thread, read, recvQueue, device, alive>>

Joined ==
  /\ Steps("joining", AfterClose) /\ Reads("ended", "none")
  /\ UNCHANGED <<client, conn, sock, shouldRun, read, recvQueue, device, alive>>

\* The members of SickScanCommonTcp go before those of its base, m_nw.
FreeQueue ==
  /\ Steps("free queue", "close")
  /\ alive' = alive \ {"queue"}
  /\ UNCHANGED <<client, tcp, device>>

\* The next session counts its requests and events from the start.
Free ==
  /\ Steps("free", "off")
  /\ alive' = {} /\ recvQueue' = <<>> /\ read' = <<>>
  /\ peer' = FALSE /\ asked' = <<>> /\ events' = 0
  /\ requests' = 0 /\ lost' = {}
  /\ UNCHANGED <<at, holder, id, cmd, frame, retries, conn, sock, thread, shouldRun>>

Session ==
  \/ Open \/ Serve \/ Stop \/ Stopped \/ DeleteServices \/ Disconnect
  \/ Close \/ CloseSocket \/ Join \/ Joined \/ FreeQueue \/ Free

Next ==
  \/ \E c \in Clients : Call(c) \/ Client(c)
  \/ ReadThread \/ RtAnswer \/ RtEvent
  \/ Ignores \/ LinkLoss
  \/ Session

Spec == Init /\ [][Next]_vars

\* The threads are scheduled and the waits with a timeout time out; nothing is
\* expected of the device.
FairSpec ==
  /\ Spec
  /\ \A c \in Clients : WF_vars(Client(c))
  /\ WF_vars(ReadThread) /\ WF_vars(Session)

-----------------------------------------------------------------------------
(* Properties.                                                             *)

\* The answer a request is checked against is its own, or a late one to an
\* earlier request that has already failed (or was taken for answered by another
\* such answer); never one that somebody else waits for, although the queue is
\* searched by keyword only (sick_scan_common.cpp:1129, template_queue.h:82-124).
OwnReply ==
  \A c \in Clients :
    at[c] = "check" /\ frame[c][1].kind # "event" => frame[c][1].of \in lost \cup {id[c]}

\* The queue is there when the read thread pushes, the connection as long as its
\* thread runs, and all of it while a service callback is busy, although
\* close_device skips the join when the connection is lost
\* (sick_scan_common_nw.cpp:207-213, sick_scan_common_tcp.cpp:233-237).
NothingDestroyedInUse ==
  /\ thread = "callback" => "queue" \in alive
  /\ thread \notin {"none", "ended"} => "tcp" \in alive
  /\ at["services"] # "idle" => alive = {"services", "queue", "tcp"}

\* Taking down a session ends, though pop has no timeout (template_queue.h:50-61)
\* and a thread that starts late sets its flag again (SickThread.hpp:92-108).
SessionEnds == phase \in Closing ~> phase = "off"
=============================================================================
