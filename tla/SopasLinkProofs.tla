-------------------------- MODULE SopasLinkProofs --------------------------
(***************************************************************************)
(* Theorems about the SOPAS connection, for any set of commands and any    *)
(* number of requests, unasked datagrams and retries.                      *)
(***************************************************************************)
EXTENDS SopasLink, TLAPS

USE DEF client, tcp, device

-----------------------------------------------------------------------------
(* The receive queue.                                                      *)

LEMMA WithoutOne ==
  ASSUME NEW S, NEW q \in Seq(S), NEW i \in DOMAIN q
  PROVE  /\ Without(q, i) \in Seq(S)
         /\ \A j \in DOMAIN Without(q, i) :
              /\ j < i => j \in DOMAIN q /\ Without(q, i)[j] = q[j]
              /\ j >= i => j + 1 \in DOMAIN q /\ Without(q, i)[j] = q[j + 1]
<1> DEFINE A == SubSeq(q, 1, i - 1)
           B == SubSeq(q, i + 1, Len(q))
           C == A \o B
<1>1. i \in Nat /\ 1 <= i /\ i <= Len(q) /\ Len(q) \in Nat
  OBVIOUS
<1>2. A \in Seq(S) /\ Len(A) = i - 1 /\ \A j \in 1 .. i - 1 : A[j] = q[j]
  BY <1>1
<1>3. B \in Seq(S) /\ Len(B) = Len(q) - i /\ \A j \in 1 .. Len(q) - i : B[j] = q[i + j]
  BY <1>1
<1>4. Without(q, i) = C
  BY DEF Without
<1> HIDE DEF A, B
<1>5. /\ C \in Seq(S) /\ Len(C) = Len(A) + Len(B)
      /\ \A j \in 1 .. Len(A) + Len(B) : C[j] = IF j <= Len(A) THEN A[j] ELSE B[j - Len(A)]
  BY <1>2, <1>3, SMTT(30)
<1> HIDE DEF C
<1>6. Len(C) = Len(q) - 1
  <2>1. Len(A) = i - 1 /\ Len(B) = Len(q) - i /\ Len(C) = Len(A) + Len(B)
    BY <1>2, <1>3, <1>5
  <2> QED
    BY <1>1, <2>1
<1>7a. DOMAIN C = 1 .. Len(q) - 1
  BY <1>5, <1>6
<1>7. \A j \in 1 .. Len(q) - 1 : C[j] = IF j <= i - 1 THEN A[j] ELSE B[j - (i - 1)]
  <2>1. Len(A) = i - 1 /\ Len(B) = Len(q) - i
    BY <1>2, <1>3
  <2>2. Len(A) + Len(B) = Len(q) - 1
    BY <2>1, <1>1
  <2> QED
    BY <2>1, <2>2, <1>5
<1>8. ASSUME NEW j \in 1 .. Len(q) - 1
      PROVE  /\ j < i => C[j] = q[j]
             /\ j >= i => C[j] = q[j + 1]
  <2>1. CASE j < i
    BY <2>1, <1>1, <1>2, <1>7
  <2>2. CASE j >= i
    <3> DEFINE k == j - (i - 1)
    <3>1. k \in 1 .. Len(q) - i /\ i + k = j + 1 /\ ~(j <= i - 1)
      BY <2>2, <1>1
    <3>2. C[j] = B[k]
      BY <3>1, <1>7
    <3>3. B[k] = q[i + k]
      BY <3>1, <1>3
    <3> QED
      BY <3>1, <3>2, <3>3, <2>2, <1>1, SMTT(30)
  <2> QED
    BY <2>1, <2>2, <1>1
<1>10. ASSUME NEW j \in DOMAIN C
       PROVE  /\ j < i => j \in DOMAIN q /\ C[j] = q[j]
              /\ j >= i => j + 1 \in DOMAIN q /\ C[j] = q[j + 1]
  BY <1>1, <1>8, <1>7a
<1> QED
  BY <1>4, <1>5, <1>10

LEMMA NoFrame == <<>> \in Seq(Frames)
OBVIOUS

-----------------------------------------------------------------------------
(* Types.                                                                  *)

\* A frame is held exactly while it is checked, and read exactly while it is
\* delivered; a request has a number and a command; the thread does not outlive
\* the connection.
Shape ==
  /\ \A c \in Clients :
       /\ frame[c] = <<>> \/ at[c] = "check"
       /\ at[c] = "check" => frame[c] # <<>>
       /\ at[c] # "idle" => id[c] \in 1 .. MaxRequests /\ cmd[c] \in Commands
  /\ read = <<>> \/ thread = "callback"
  /\ thread = "callback" => read # <<>>
  /\ phase \in {"off", "free"} => thread = "none"

TypeInv == TypeOK /\ Shape

LEMMA InitTypes == Init => TypeInv
<1>1. Init => TypeOK
  <2> SUFFICES ASSUME Init PROVE TypeOK
    OBVIOUS
  <2>1. /\ at \in [Clients -> {"idle", "want", "write", "look", "sleep", "pop", "check"}]
        /\ holder \in Clients \cup {Nobody}
        /\ id \in [Clients -> 0 .. MaxRequests] /\ cmd \in [Clients -> Commands \cup {None}]
        /\ frame \in [Clients -> Seq(Frames)] /\ retries \in [Clients -> 0 .. MaxRetries]
        /\ requests \in 0 .. MaxRequests /\ lost \subseteq 1 .. MaxRequests
    BY BoundsAssumption, NoFrame DEF Init, Clients, Nobody, None
  <2>2. /\ thread \in Reader /\ events \in 0 .. MaxEvents
        /\ read \in Seq(Frames) /\ recvQueue \in Seq(Frames) /\ asked \in Seq(Frames)
    BY BoundsAssumption, NoFrame DEF Init, Reader
  <2> QED
    BY <2>1, <2>2 DEF Init, TypeOK
<1>2. Init => Shape
  BY DEF Init, Shape
<1> QED
  BY <1>1, <1>2 DEF TypeInv

LEMMA EndsKeepsTypes ==
  ASSUME TypeInv, NEW c \in Clients, at[c] # "idle", NEW own \in BOOLEAN,
         Ends(c, own), UNCHANGED device
  PROVE  TypeInv'
<1>0. /\ at' \in [Clients -> {"idle", "want", "write", "look", "sleep", "pop", "check"}]
      /\ holder' \in Clients \cup {Nobody}
      /\ id' \in [Clients -> 0 .. MaxRequests] /\ cmd' \in [Clients -> Commands \cup {None}]
      /\ frame' \in [Clients -> Seq(Frames)] /\ retries' \in [Clients -> 0 .. MaxRetries]
      /\ requests' \in 0 .. MaxRequests /\ lost' \subseteq 1 .. MaxRequests
  <2>1. id[c] \in 1 .. MaxRequests /\ 0 \in 0 .. MaxRequests /\ 0 \in 0 .. MaxRetries
    BY BoundsAssumption DEF TypeInv, Shape
  <2>2. /\ frame' \in [Clients -> Seq(Frames)] /\ retries' \in [Clients -> 0 .. MaxRetries]
        /\ id' \in [Clients -> 0 .. MaxRequests] /\ cmd' \in [Clients -> Commands \cup {None}]
    BY <2>1, NoFrame DEF TypeInv, TypeOK, Ends
  <2> QED
    BY <2>1, <2>2 DEF TypeInv, TypeOK, Ends
<1>1. TypeOK'
  BY <1>0 DEF TypeInv, TypeOK, Ends
<1>2. Shape'
  BY DEF TypeInv, TypeOK, Shape, Ends, Clients
<1> QED
  BY <1>1, <1>2 DEF TypeInv

LEMMA ClientKeepsTypes ==
  ASSUME TypeInv, NEW c \in Clients, Call(c) \/ Client(c)
  PROVE  TypeInv'
<1> USE BoundsAssumption DEF TypeInv, TypeOK, Shape, Clients, Goes
<1>1. CASE Call(c)
  BY <1>1 DEF Call, None, Nobody
<1>2. CASE Lock(c)
  BY <1>2 DEF Lock
<1>3. CASE Write(c)
  <2>1. [kind |-> "answer", cmd |-> cmd[c], of |-> id[c]] \in Frames
    BY <1>3 DEF Write, Frames
  <2>2. asked' \in Seq(Frames)
    BY <1>3, <2>1 DEF Write
  <2> QED
    BY <1>3, <2>2 DEF Write
<1>4. CASE WriteFails(c)
  BY <1>4, EndsKeepsTypes DEF WriteFails
<1>5. CASE Look(c)
  BY <1>5, SMTT(30) DEF Look
<1>6. CASE TimesOut(c)
  BY <1>6, EndsKeepsTypes DEF TimesOut
<1>7. CASE Pop(c)
  <2>1. PICK i \in Found(cmd[c]) : /\ frame' = [frame EXCEPT ![c] = <<recvQueue[i]>>]
                                   /\ recvQueue' = Without(recvQueue, i)
    BY <1>7 DEF Pop
  <2>2. i \in DOMAIN recvQueue /\ recvQueue[i] \in Frames
    BY DEF Found
  <2>3. recvQueue' \in Seq(Frames)
    BY <2>1, <2>2, WithoutOne
  <2>4. <<recvQueue[i]>> \in Seq(Frames) /\ <<recvQueue[i]>> # <<>>
    BY <2>2
  <2> HIDE DEF Clients
  <2>5. TypeOK'
    BY <1>7, <2>1, <2>3, <2>4 DEF Pop
  <2>6. Shape'
    BY <1>7, <2>1, <2>4 DEF Pop
  <2> QED
    BY <2>5, <2>6
<1>8. CASE Accepts(c)
  BY <1>8, EndsKeepsTypes DEF Accepts
<1>9. CASE Retry(c)
  <2>1. retries[c] + 1 \in 0 .. MaxRetries
    BY <1>9, SMTT(30) DEF Retry
  <2>2. TypeOK'
    BY <1>9, <2>1, NoFrame DEF Retry
  <2>3. Shape'
    BY <1>9 DEF Retry
  <2> QED
    BY <2>2, <2>3
<1>10. CASE GivesUp(c)
  BY <1>10, EndsKeepsTypes DEF GivesUp
<1> QED
  BY <1>1, <1>2, <1>3, <1>4, <1>5, <1>6, <1>7, <1>8, <1>9, <1>10 DEF Client

LEMMA ReaderKeepsTypes ==
  ASSUME TypeInv, ReadThread \/ RtAnswer \/ RtEvent
  PROVE  TypeInv'
<1> USE BoundsAssumption DEF TypeInv, TypeOK, Shape, Reads
<1>1. CASE RtStart
  BY <1>1 DEF RtStart, Reader
<1>2. CASE RtTest
  BY <1>2 DEF RtTest, Reader
<1>3. CASE RtEnter
  BY <1>3 DEF RtEnter, Reader
<1>4. CASE RtNothing
  BY <1>4 DEF RtNothing, Reader
<1>5. CASE Deliver
  <2>1. read[1] \in Frames
    BY <1>5 DEF Deliver
  <2>2. recvQueue' \in Seq(Frames)
    BY <1>5, <2>1 DEF Deliver
  <2> QED
    BY <1>5, <2>2 DEF Deliver, Reader
<1>6. CASE RtLost
  BY <1>6 DEF RtLost, Reader
<1>7. ASSUME NEW f \in Frames, Receives(f)
      PROVE  /\ thread = "poll" /\ thread' \in {"callback", "lost"} /\ read' \in Seq(Frames)
             /\ read' = <<>> \/ thread' = "callback"
             /\ thread' = "callback" => read' # <<>>
  <2>1. <<f>> \in Seq(Frames) /\ <<f>> # <<>>
    OBVIOUS
  <2>2. CASE shouldRun
    BY <1>7, <2>1, <2>2 DEF Receives
  <2>3. CASE ~shouldRun
    BY <1>7, <2>3 DEF Receives
  <2> QED
    BY <2>2, <2>3
<1>8. CASE RtAnswer
  <2>1. PICK k \in {"answer", "error"} : Receives([Head(asked) EXCEPT !.kind = k])
    BY <1>8 DEF RtAnswer
  <2>2. Head(asked) \in Frames /\ asked' \in Seq(Frames)
    BY <1>8 DEF RtAnswer
  <2>3. [Head(asked) EXCEPT !.kind = k] \in Frames
    BY <2>2 DEF Frames
  <2> QED
    BY <1>8, <2>1, <2>2, <2>3, <1>7 DEF RtAnswer, Reader
<1>9. CASE RtEvent
  <2>1. PICK k \in Commands : Receives([kind |-> "event", cmd |-> k, of |-> 0])
    BY <1>9 DEF RtEvent
  <2>2. [kind |-> "event", cmd |-> k, of |-> 0] \in Frames
    BY DEF Frames
  <2> QED
    BY <1>9, <2>1, <2>2, <1>7 DEF RtEvent, Reader
<1> QED
  BY <1>1, <1>2, <1>3, <1>4, <1>5, <1>6, <1>8, <1>9 DEF ReadThread

LEMMA OthersKeepTypes ==
  ASSUME TypeInv, Ignores \/ LinkLoss \/ Session \/ UNCHANGED vars
  PROVE  TypeInv'
<1> USE BoundsAssumption DEF TypeInv, TypeOK, Shape, Steps
<1>1. CASE Ignores \/ LinkLoss
  <2>1. asked # <<>> => Tail(asked) \in Seq(Frames)
    OBVIOUS
  <2> QED
    BY <1>1, <2>1 DEF Ignores, LinkLoss
<1>2. CASE Open
  <2>1. TypeOK'
    BY <1>2, NoFrame DEF Open, Reader
  <2>2. Shape'
    BY <1>2 DEF Open, Reader
  <2> QED
    BY <2>1, <2>2
<1>3. CASE Serve \/ Stop \/ Stopped \/ DeleteServices
  <2>1. /\ phase' \in {"serve", "stop", "delete services", "disconnect"} /\ alive' \subseteq alive
        /\ UNCHANGED <<client, tcp, device>>
    BY <1>3 DEF Serve, Stop, Stopped, DeleteServices
  <2>2. TypeOK'
    BY <2>1 DEF Closing
  <2>3. Shape'
    BY <2>1
  <2> QED
    BY <2>2, <2>3
<1>4. CASE Disconnect \/ Close \/ CloseSocket \/ Join
  BY <1>4 DEF Disconnect, Close, CloseSocket, Join, AfterClose, Closing
<1>5. CASE Joined
  BY <1>5 DEF Joined, AfterClose, Closing, Reads, Reader
<1>6. CASE FreeQueue
  BY <1>6 DEF FreeQueue, Closing
<1>7. CASE Free
  <2>0. requests' \in 0 .. MaxRequests /\ lost' \subseteq 1 .. MaxRequests /\ events' \in 0 .. MaxEvents
    BY <1>7 DEF Free
  <2>1. TypeOK'
    BY <1>7, <2>0, NoFrame DEF Free
  <2>2. Shape'
    BY <1>7 DEF Free, Closing
  <2> QED
    BY <2>1, <2>2
<1>8. CASE UNCHANGED vars
  BY <1>8 DEF vars
<1> QED
  BY <1>1, <1>2, <1>3, <1>4, <1>5, <1>6, <1>7, <1>8 DEF Session

LEMMA NextKeepsTypes == TypeInv /\ [Next]_vars => TypeInv'
BY ClientKeepsTypes, ReaderKeepsTypes, OthersKeepTypes DEF Next

LEMMA SopasTypeInv == Spec => []TypeInv
BY InitTypes, NextKeepsTypes, PTL DEF Spec

\* Every variable of the SOPAS connection stays in its type: no request runs
\* past its retries, no thread leaves its places.
THEOREM SopasTypeCorrect == Spec => []TypeOK
<1>1. TypeInv => TypeOK
  BY DEF TypeInv
<1> QED
  BY <1>1, SopasTypeInv, PTL

-----------------------------------------------------------------------------
(* The end of a session.                                                   *)

\* What exists in each phase, ...
Existing ==
  /\ phase \in {"off"} => alive = {}
  /\ phase \in {"start", "serve", "stop", "delete services"} => alive = {"services", "queue", "tcp"}
  /\ phase \in {"disconnect", "free queue"} => alive = {"queue", "tcp"}
  /\ phase \in {"close", "close socket", "join", "joining"} => alive \in {{"queue", "tcp"}, {"tcp"}}
  /\ phase = "free" => alive = {"tcp"}

\* ... who may use it, and how far the read thread can be when the socket has
\* gone before it: only Tcp::close takes the socket away under a busy thread,
\* and joins it before the queue goes.
Teardown ==
  /\ Existing
  /\ phase \in {"join", "joining", "free queue"} \/ "queue" \notin alive => ~sock
  /\ ~sock /\ thread \in {"starting", "poll", "callback", "lost"}
       => phase \in {"join", "joining"} /\ "queue" \in alive
  /\ at["services"] # "idle" => phase \in {"start", "serve", "stop", "delete services"}

SafeInv == TypeInv /\ Teardown

LEMMA InitSafe == Init => Teardown
BY DEF Init, Teardown, Existing, Clients

LEMMA ServicesUp ==
  ASSUME Existing, phase \in {"off", "start", "serve"} \cup Closing, "services" \in alive
  PROVE  phase \in {"start", "serve", "stop", "delete services"}
<1>1. ASSUME alive = {} \/ alive = {"tcp"} \/ alive = {"queue", "tcp"} PROVE FALSE
  BY <1>1
<1>2. phase \notin {"off", "free", "disconnect", "free queue"}
  BY <1>1 DEF Existing
<1>3. phase \notin {"close", "close socket", "join", "joining"}
  BY <1>1 DEF Existing
<1> QED
  BY <1>2, <1>3 DEF Closing

LEMMA ClientKeepsSafe ==
  ASSUME SafeInv, NEW c \in Clients, Call(c) \/ Client(c)
  PROVE  Teardown'
<1> USE DEF SafeInv, TypeInv, TypeOK, Teardown, Existing
<1>1. phase' = phase /\ alive' = alive /\ sock' = sock /\ thread' = thread
  BY DEF Call, Client, Lock, Write, WriteFails, Look, TimesOut, Pop, Accepts, Retry, GivesUp, Ends
<1>2. at["services"] # "idle" \/ "services" \in alive \/ at'["services"] = "idle"
  <2>1. CASE Call(c)
    BY <2>1 DEF Call, MayCall, Goes, Clients
  <2>2. CASE Client(c)
    <3>1. at[c] # "idle"
      BY <2>2 DEF Client, Lock, Write, WriteFails, Look, TimesOut, Pop, Accepts, Retry, GivesUp, Goes
    <3>2. c = "services" \/ at'["services"] = at["services"]
      BY <2>2 DEF Client, Lock, Write, WriteFails, Look, TimesOut, Pop, Accepts, Retry, GivesUp, Goes, Ends, Clients
    <3> QED
      BY <3>1, <3>2
  <2> QED
    BY <2>1, <2>2
<1>3. "services" \in alive => phase \in {"start", "serve", "stop", "delete services"}
  BY ServicesUp
<1> QED
  BY <1>1, <1>2, <1>3

LEMMA ReaderKeepsSafe ==
  ASSUME SafeInv, ReadThread \/ RtAnswer \/ RtEvent
  PROVE  Teardown'
<1> USE DEF SafeInv, TypeInv, TypeOK, Teardown, Existing, Reads
<1>1. CASE RtStart \/ RtTest
  <2>1. thread' \in {"test", "enter", "ended"} /\ UNCHANGED <<phase, alive, sock, at>>
    BY <1>1 DEF RtStart, RtTest
  <2> QED
    BY <2>1
<1>2. CASE RtEnter
  BY <1>2 DEF RtEnter
<1>3. CASE RtNothing
  BY <1>3 DEF RtNothing
<1>4. CASE Deliver
  <2>1. at'["services"] # "idle" => at["services"] # "idle"
    BY <1>4 DEF Deliver, Clients
  <2> QED
    BY <1>4, <2>1 DEF Deliver
<1>5. CASE RtLost
  BY <1>5 DEF RtLost
<1>6. CASE RtAnswer \/ RtEvent
  BY <1>6 DEF RtAnswer, RtEvent, Receives
<1> QED
  BY <1>1, <1>2, <1>3, <1>4, <1>5, <1>6 DEF ReadThread

LEMMA OthersKeepSafe ==
  ASSUME SafeInv, Ignores \/ LinkLoss \/ Session \/ UNCHANGED vars
  PROVE  Teardown'
<1> USE DEF SafeInv, TypeInv, TypeOK, Shape, Teardown, Existing, Steps
<1>1. CASE Ignores \/ LinkLoss
  <2>1. UNCHANGED <<phase, alive, sock, thread, at>>
    BY <1>1 DEF Ignores, LinkLoss
  <2> QED
    BY <2>1
<1>2. CASE Open
  BY <1>2 DEF Open
<1>3. CASE Serve \/ Stop \/ Stopped
  BY <1>3 DEF Serve, Stop, Stopped
<1>4. CASE DeleteServices
  BY <1>4 DEF DeleteServices
<1>5. CASE Disconnect
  BY <1>5 DEF Disconnect
<1>6. CASE Close
  BY <1>6 DEF Close
<1>7. CASE CloseSocket
  BY <1>7 DEF CloseSocket, AfterClose
<1>8. CASE Join
  BY <1>8 DEF Join
<1>9. CASE Joined
  BY <1>9 DEF Joined, AfterClose, Reads
<1>10. CASE FreeQueue
  <2>1. ~sock /\ thread \notin {"starting", "poll", "callback", "lost"}
    BY <1>10 DEF FreeQueue
  <2>2. /\ phase' = "close" /\ alive' = {"tcp"}
        /\ UNCHANGED <<sock, thread, at>> /\ at["services"] = "idle"
    BY <1>10 DEF FreeQueue
  <2> QED
    BY <2>1, <2>2
<1>11. CASE Free
  BY <1>11 DEF Free
<1>12. CASE UNCHANGED vars
  BY <1>12 DEF vars
<1> QED
  BY <1>1, <1>2, <1>3, <1>4, <1>5, <1>6, <1>7, <1>8, <1>9, <1>10, <1>11, <1>12 DEF Session

LEMMA SopasSafeInv == Spec => []SafeInv
<1>1. Init => SafeInv
  BY InitTypes, InitSafe DEF SafeInv
<1>2. SafeInv /\ [Next]_vars => SafeInv'
  BY NextKeepsTypes, ClientKeepsSafe, ReaderKeepsSafe, OthersKeepSafe DEF Next, SafeInv
<1> QED
  BY <1>1, <1>2, PTL DEF Spec

\* The read thread and the service callbacks never use the queue, the services
\* or the connection of a session that have been deleted, in whatever order the
\* link breaks, the thread starts and close_device skips the join.
THEOREM NothingDestroyedUnderUse == Spec => []NothingDestroyedInUse
<1>1. SafeInv => NothingDestroyedInUse
  BY DEF SafeInv, TypeInv, TypeOK, Shape, Teardown, Existing, NothingDestroyedInUse, Closing, Reader
<1> QED
  BY <1>1, SopasSafeInv, PTL

-----------------------------------------------------------------------------
(* Whose answer.                                                           *)

\* The requests the datagrams of a sequence answer, none more than once.
Answers(q) == {q[i].of : i \in {j \in DOMAIN q : q[j].kind # "event"}}
Distinct(q) ==
  \A i, j \in DOMAIN q :
    q[i].kind # "event" /\ q[j].kind # "event" /\ q[i].of = q[j].of => i = j

LEMMA AnswersOfNone == Answers(<<>>) = {} /\ Distinct(<<>>)
BY DEF Answers, Distinct

LEMMA AnswersOfOne ==
  ASSUME NEW f
  PROVE  Answers(<<f>>) = IF f.kind = "event" THEN {} ELSE {f.of}
<1> DEFINE q == <<f>>
<1>1. DOMAIN q = {1} /\ q[1] = f
  OBVIOUS
<1> HIDE DEF q
<1>2. Answers(q) = IF f.kind = "event" THEN {} ELSE {f.of}
  BY <1>1 DEF Answers
<1> QED
  BY <1>2 DEF q

LEMMA AnswersOfAppend ==
  ASSUME NEW q \in Seq(Frames), NEW f \in Frames
  PROVE  /\ Answers(Append(q, f)) = Answers(q) \cup Answers(<<f>>)
         /\ Distinct(q) /\ Answers(q) \cap Answers(<<f>>) = {} => Distinct(Append(q, f))
<1> DEFINE r == Append(q, f)
           n == Len(q) + 1
<1>1. /\ Len(q) \in Nat /\ DOMAIN q = 1 .. Len(q)
      /\ DOMAIN r = 1 .. n /\ r[n] = f /\ \A i \in 1 .. Len(q) : r[i] = q[i]
  OBVIOUS
<1> HIDE DEF r
<1>2. DOMAIN r = DOMAIN q \cup {n} /\ n \notin DOMAIN q /\ \A i \in DOMAIN q : r[i] = q[i]
  BY <1>1
<1>3. r[n] = f
  BY <1>1
<1> HIDE DEF n
<1>4. Answers(r) = Answers(q) \cup Answers(<<f>>)
  BY <1>2, <1>3, AnswersOfOne DEF Answers
<1>5. ASSUME Distinct(q), Answers(q) \cap Answers(<<f>>) = {}
      PROVE  Distinct(r)
  <2> SUFFICES ASSUME NEW i \in DOMAIN r, NEW j \in DOMAIN r,
                      r[i].kind # "event", r[j].kind # "event", r[i].of = r[j].of
               PROVE  i = j
    BY DEF Distinct
  <2>1. CASE i \in DOMAIN q /\ j \in DOMAIN q
    BY <2>1, <1>2, <1>5 DEF Distinct
  <2>2. ASSUME NEW k \in DOMAIN q, q[k].kind # "event", f.kind # "event"
        PROVE  q[k].of # f.of
    BY <2>2, <1>5, AnswersOfOne DEF Answers
  <2>3. CASE i = n /\ j \in DOMAIN q
    BY <2>3, <2>2, <1>2, <1>3
  <2>4. CASE i \in DOMAIN q /\ j = n
    BY <2>4, <2>2, <1>2, <1>3
  <2> QED
    BY <2>1, <2>3, <2>4, <1>2
<1> QED
  BY <1>4, <1>5 DEF r

\* The same sequence without one of its elements.
LEMMA AnswersOfRest ==
  ASSUME NEW q, NEW r, NEW i \in DOMAIN q, NEW h \in [DOMAIN r -> DOMAIN q],
         \A j \in DOMAIN r : h[j] # i /\ r[j] = q[h[j]],
         \A j, k \in DOMAIN r : h[j] = h[k] => j = k
  PROVE  /\ Answers(r) \subseteq Answers(q)
         /\ Answers(<<q[i]>>) \subseteq Answers(q)
         /\ Distinct(q) => Distinct(r) /\ Answers(<<q[i]>>) \cap Answers(r) = {}
<1>1. Answers(r) \subseteq Answers(q)
  BY DEF Answers
<1>2. Answers(<<q[i]>>) \subseteq Answers(q)
  BY AnswersOfOne DEF Answers
<1>3. ASSUME Distinct(q)
      PROVE  Distinct(r) /\ Answers(<<q[i]>>) \cap Answers(r) = {}
  <2>1. Distinct(r)
    BY <1>3 DEF Distinct
  <2>2. ASSUME NEW n \in Answers(<<q[i]>>), n \in Answers(r)
        PROVE  FALSE
    <3>0. Answers(<<q[i]>>) = IF q[i].kind = "event" THEN {} ELSE {q[i].of}
      BY AnswersOfOne
    <3>1. q[i].kind # "event" /\ q[i].of = n
      BY <3>0
    <3>2. PICK j \in DOMAIN r : r[j].kind # "event" /\ r[j].of = n
      BY <2>2 DEF Answers
    <3>3. h[j] \in DOMAIN q /\ h[j] # i /\ q[h[j]].kind # "event" /\ q[h[j]].of = n
      BY <3>2
    <3> QED
      BY <3>1, <3>3, <1>3 DEF Distinct
  <2> QED
    BY <2>1, <2>2
<1> QED
  BY <1>1, <1>2, <1>3

LEMMA AnswersOfTail ==
  ASSUME NEW q \in Seq(Frames), q # <<>>
  PROVE  /\ Answers(Tail(q)) \subseteq Answers(q)
         /\ Answers(<<Head(q)>>) \subseteq Answers(q)
         /\ Distinct(q) => Distinct(Tail(q)) /\ Answers(<<Head(q)>>) \cap Answers(Tail(q)) = {}
<1> DEFINE r == Tail(q)
           h == [j \in DOMAIN r |-> j + 1]
<1>1. /\ 1 \in DOMAIN q /\ Head(q) = q[1]
      /\ \A j \in DOMAIN r : j \in Nat /\ 1 <= j /\ j + 1 \in DOMAIN q /\ r[j] = q[j + 1]
  OBVIOUS
<1> HIDE DEF r
<1>2. h \in [DOMAIN r -> DOMAIN q]
  BY <1>1
<1>3. \A j \in DOMAIN r : h[j] # 1 /\ r[j] = q[h[j]]
  BY <1>1
<1>4. \A j, k \in DOMAIN r : h[j] = h[k] => j = k
  BY <1>1
<1> HIDE DEF h
<1>5. /\ Answers(r) \subseteq Answers(q)
      /\ Answers(<<q[1]>>) \subseteq Answers(q)
      /\ Distinct(q) => Distinct(r) /\ Answers(<<q[1]>>) \cap Answers(r) = {}
  BY <1>1, <1>2, <1>3, <1>4, AnswersOfRest
<1> QED
  BY <1>1, <1>5 DEF r

LEMMA AnswersOfWithout ==
  ASSUME NEW q \in Seq(Frames), NEW i \in DOMAIN q
  PROVE  /\ Answers(Without(q, i)) \subseteq Answers(q)
         /\ Answers(<<q[i]>>) \subseteq Answers(q)
         /\ Distinct(q) => Distinct(Without(q, i)) /\ Answers(<<q[i]>>) \cap Answers(Without(q, i)) = {}
<1> DEFINE r == Without(q, i)
           h == [j \in DOMAIN r |-> IF j < i THEN j ELSE j + 1]
<1>1. /\ i \in Nat /\ \A j \in DOMAIN r : j \in Nat
      /\ \A j \in DOMAIN r : /\ j < i => j \in DOMAIN q /\ r[j] = q[j]
                             /\ j >= i => j + 1 \in DOMAIN q /\ r[j] = q[j + 1]
  BY WithoutOne
<1> HIDE DEF r
<1>2. h \in [DOMAIN r -> DOMAIN q]
  BY <1>1
<1>3. \A j \in DOMAIN r : h[j] # i /\ r[j] = q[h[j]]
  BY <1>1
<1>4. \A j, k \in DOMAIN r : h[j] = h[k] => j = k
  BY <1>1
<1> HIDE DEF h
<1>5. /\ Answers(r) \subseteq Answers(q)
      /\ Answers(<<q[i]>>) \subseteq Answers(q)
      /\ Distinct(q) => Distinct(r) /\ Answers(<<q[i]>>) \cap Answers(r) = {}
  BY <1>2, <1>3, <1>4, AnswersOfRest, SMTT(30)
<1> QED
  BY <1>5 DEF r

Busy == {"write", "look", "sleep", "pop", "check"}
Waiting == {"look", "sleep", "pop", "check"}

\* One client at a time is busy; requests differ, and none that is under way
\* has failed.
Turns ==
  /\ \A c \in Clients : at[c] \in Busy => holder = c
  /\ lost \subseteq 1 .. requests
  /\ \A c \in Clients : at[c] # "idle" => id[c] \in 1 .. requests /\ id[c] \notin lost
  /\ \A c, d \in Clients : c # d /\ at[c] # "idle" /\ at[d] # "idle" => id[c] # id[d]

\* Every answer under way is to a request that failed or to the one that waits,
\* and is in one place only.
Answerable == lost \cup {id[c] : c \in {d \in Clients : at[d] \in Waiting}}
Apart ==
  /\ Distinct(asked) /\ Distinct(recvQueue)
  /\ Answers(asked) \cap Answers(read) = {}
  /\ Answers(asked) \cap Answers(recvQueue) = {}
  /\ Answers(read) \cap Answers(recvQueue) = {}
UnderWay == Answers(asked) \cup Answers(read) \cup Answers(recvQueue)
Flow ==
  /\ \A i \in DOMAIN asked : asked[i].kind = "answer"
  /\ UnderWay \subseteq Answerable /\ Apart
  /\ \A c \in Clients : Answers(frame[c]) \subseteq Answerable /\ Answers(frame[c]) \cap UnderWay = {}

OwnInv == SafeInv /\ Turns /\ Flow

LEMMA InitOwn == Init => Turns /\ Flow
BY AnswersOfNone DEF Init, Turns, Flow, Apart, UnderWay, Clients, Busy

\* What has nothing to do with the answers.
LEMMA SameFlow ==
  ASSUME Turns, Flow, UNCHANGED <<at, holder, id, frame, requests, lost, read, recvQueue, asked>>
  PROVE  Turns' /\ Flow'
<1>1. Turns'
  BY DEF Turns
<1>2. Answerable' = Answerable
  BY DEF Answerable
<1>3. UnderWay' = UnderWay /\ Apart'
  BY DEF UnderWay, Apart, Flow
<1> QED
  BY <1>1, <1>2, <1>3 DEF Flow

\* A client goes on: who waits, waits on.
LEMMA SameWaiting ==
  ASSUME Flow, UNCHANGED <<frame, read, recvQueue, asked>>,
         lost \subseteq lost',
         \A d \in Clients : at[d] \in Waiting =>
           (at'[d] \in Waiting /\ id'[d] = id[d]) \/ id[d] \in lost'
  PROVE  Flow'
<1>1. Answerable \subseteq Answerable'
  BY DEF Answerable
<1>2. UnderWay' = UnderWay /\ Apart'
  BY DEF UnderWay, Apart, Flow
<1> QED
  BY <1>1, <1>2 DEF Flow

LEMMA EndsKeepsOwn ==
  ASSUME OwnInv, NEW c \in Clients, at[c] \in Busy, NEW own \in BOOLEAN,
         Ends(c, own), UNCHANGED device,
         own => id[c] \in Answers(frame[c])
  PROVE  Turns' /\ Flow'
<1> USE DEF OwnInv, SafeInv, TypeInv
<1>1. /\ at'[c] = "idle" /\ frame'[c] = <<>> /\ holder' = Nobody
      /\ \A d \in Clients \ {c} : at'[d] = at[d] /\ id'[d] = id[d] /\ frame'[d] = frame[d]
      /\ requests' = requests
      /\ lost' = IF own THEN lost ELSE lost \cup {id[c]}
      /\ UNCHANGED <<asked, read, recvQueue>>
  BY DEF TypeOK, Ends
<1>2. \A d \in Clients \ {c} : at[d] \notin Busy
  BY DEF Turns
<1>3. at[c] # "idle"
  BY DEF Busy
<1>4. Turns'
  <2>1. \A d \in Clients : at'[d] # "idle" => d # c /\ at'[d] = at[d] /\ id'[d] = id[d]
    BY <1>1
  <2>2. \A d \in Clients : at'[d] \in Busy => holder' = d
    BY <1>2, <2>1 DEF Busy
  <2>3. lost' \subseteq 1 .. requests'
    BY <1>1, <1>3 DEF Turns
  <2>4. \A d \in Clients : at'[d] # "idle" => id'[d] \in 1 .. requests' /\ id'[d] \notin lost'
    BY <1>1, <1>3, <2>1 DEF Turns
  <2>5. \A d, e \in Clients : d # e /\ at'[d] # "idle" /\ at'[e] # "idle" => id'[d] # id'[e]
    BY <2>1 DEF Turns
  <2> QED
    BY <2>2, <2>3, <2>4, <2>5 DEF Turns
<1>5. Answers(frame[c]) \cap UnderWay = {} /\ UnderWay \subseteq Answerable
  BY DEF Flow
<1>6. Answerable \subseteq lost \cup {id[c]} /\ lost \subseteq Answerable'
  BY <1>1, <1>2 DEF Answerable, Busy, Waiting
<1>7. UnderWay' = UnderWay /\ Apart'
  BY <1>1 DEF UnderWay, Apart, Flow
<1>8. UnderWay \subseteq Answerable'
  <2>1. CASE own
    BY <2>1, <1>5, <1>6
  <2>2. CASE ~own
    BY <2>2, <1>1, <1>5, <1>6 DEF Answerable
  <2> QED
    BY <2>1, <2>2
<1>9. ASSUME NEW d \in Clients
      PROVE  Answers(frame'[d]) = {}
  <2>1. CASE d = c
    BY <2>1, <1>1, AnswersOfNone
  <2>2. CASE d # c
    BY <2>2, <1>1, <1>2, AnswersOfNone DEF Shape, Busy
  <2> QED
    BY <2>1, <2>2
<1>10. \A i \in DOMAIN asked' : asked'[i].kind = "answer"
  BY <1>1 DEF Flow
<1> QED
  BY <1>4, <1>7, <1>8, <1>9, <1>10 DEF Flow

\* A step of one client between two places where it is not idle.
LEMMA GoesKeepsTurns ==
  ASSUME OwnInv, NEW c \in Clients, NEW p, NEW q, Goes(c, p, q), p # "idle",
         p \in Busy \/ q \notin Busy, UNCHANGED <<holder, id, requests, lost>>
  PROVE  Turns'
<1>1. /\ at[c] = p /\ at'[c] = q
      /\ \A d \in Clients \ {c} : at'[d] = at[d]
  BY DEF OwnInv, SafeInv, TypeInv, TypeOK, Goes
<1> QED
  BY <1>1 DEF OwnInv, Turns

LEMMA CallKeepsOwn ==
  ASSUME OwnInv, NEW c \in Clients, Call(c)
  PROVE  Turns' /\ Flow'
<1> USE DEF OwnInv, SafeInv, TypeInv
<1>1. /\ at[c] = "idle" /\ at'[c] = "want" /\ id'[c] = requests + 1 /\ requests' = requests + 1
      /\ \A d \in Clients \ {c} : at'[d] = at[d] /\ id'[d] = id[d]
      /\ UNCHANGED <<holder, lost, frame, asked, read, recvQueue>>
  BY DEF TypeOK, Call, Goes
<1>2. requests \in Nat
  BY DEF TypeOK
<1>3. \A d \in Clients : at[d] # "idle" => id[d] \in 1 .. requests /\ id[d] # requests + 1
  BY <1>2 DEF Turns
<1>4. requests + 1 \notin lost /\ requests + 1 \in 1 .. requests + 1
      /\ 1 .. requests \subseteq 1 .. requests + 1
  BY <1>2 DEF Turns
<1>5. Turns'
  <2>1. \A d \in Clients : at'[d] \in Busy => holder' = d
    BY <1>1 DEF Turns, Busy
  <2>2. lost' \subseteq 1 .. requests'
    BY <1>1, <1>4 DEF Turns
  <2>3. \A d \in Clients : at'[d] # "idle" => id'[d] \in 1 .. requests' /\ id'[d] \notin lost'
    BY <1>1, <1>3, <1>4 DEF Turns
  <2>4. \A d, e \in Clients : d # e /\ at'[d] # "idle" /\ at'[e] # "idle" => id'[d] # id'[e]
    BY <1>1, <1>3 DEF Turns
  <2> QED
    BY <2>1, <2>2, <2>3, <2>4 DEF Turns
<1>6. Flow'
  BY <1>1, SameWaiting DEF Waiting
<1> QED
  BY <1>5, <1>6

LEMMA ClientKeepsOwn ==
  ASSUME OwnInv, NEW c \in Clients, Client(c)
  PROVE  Turns' /\ Flow'
<1> USE DEF OwnInv, SafeInv, TypeInv
<1>1. CASE Lock(c)
  <2>1. /\ at[c] = "want" /\ at'[c] = "write" /\ holder = Nobody /\ holder' = c
        /\ \A d \in Clients \ {c} : at'[d] = at[d]
        /\ UNCHANGED <<id, requests, lost, frame, asked, read, recvQueue>>
    BY <1>1 DEF TypeOK, Lock, Goes
  <2>2. \A d \in Clients : at[d] \notin Busy
    BY <2>1 DEF Turns, Nobody, Clients
  <2>3. Turns'
    BY <2>1, <2>2 DEF Turns
  <2>4. Flow'
    BY <2>1, SameWaiting DEF Waiting
  <2> QED
    BY <2>3, <2>4
<1>2. CASE Write(c)
  <2>1. Turns'
    BY <1>2, GoesKeepsTurns DEF Write, Busy
  <2>2. /\ at[c] = "write" /\ at'[c] = "look"
        /\ \A d \in Clients \ {c} : at'[d] = at[d]
        /\ UNCHANGED <<id, lost, frame, read, recvQueue>>
    BY <1>2 DEF TypeOK, Write, Goes
  <2>3. id[c] \notin lost /\ \A d \in Clients \ {c} : at[d] \notin Busy
    BY <2>2 DEF Turns, Busy
  <2>4. Answerable = lost /\ Answerable' = lost \cup {id[c]}
    BY <2>2, <2>3 DEF Answerable, Busy, Waiting
  <2> DEFINE f == [kind |-> "answer", cmd |-> cmd[c], of |-> id[c]]
  <2>5. CASE peer
    <3>1. f \in Frames /\ f.kind = "answer" /\ f.of = id[c]
      BY <2>2 DEF TypeOK, Shape, Frames
    <3>2. asked' = Append(asked, f)
      BY <1>2, <2>5 DEF Write
    <3> HIDE DEF f
    <3>3. Answers(<<f>>) = {id[c]}
      BY <3>1, AnswersOfOne
    <3>4. UnderWay \subseteq lost /\ id[c] \notin UnderWay
      BY <2>3, <2>4 DEF Flow
    <3>5. Answers(asked') = Answers(asked) \cup {id[c]}
      BY <3>1, <3>2, <3>3, AnswersOfAppend DEF TypeOK
    <3>6. Distinct(asked')
      BY <3>1, <3>2, <3>3, <3>4, AnswersOfAppend DEF TypeOK, UnderWay, Flow, Apart
    <3>7. \A i \in DOMAIN asked' : asked'[i].kind = "answer"
      BY <3>1, <3>2 DEF TypeOK, Flow
    <3>8. UnderWay' = UnderWay \cup {id[c]}
      BY <2>2, <3>5 DEF UnderWay
    <3>9. Apart'
      BY <2>2, <3>4, <3>5, <3>6 DEF Flow, Apart, UnderWay
    <3>10. \A d \in Clients : Answers(frame[d]) \subseteq lost
      BY <2>4 DEF Flow
    <3> QED
      BY <2>1, <2>2, <2>3, <2>4, <3>4, <3>7, <3>8, <3>9, <3>10 DEF Flow
  <2>6. CASE ~peer
    <3>1. asked' = asked
      BY <1>2, <2>6 DEF Write
    <3>2. Flow'
      BY <2>2, <3>1, SameWaiting DEF Waiting
    <3> QED
      BY <2>1, <3>2
  <2> QED
    BY <2>5, <2>6 DEF TypeOK
<1>3. CASE WriteFails(c)
  BY <1>3, EndsKeepsOwn DEF WriteFails, Busy
<1>4. CASE Look(c)
  <2>1. PICK q \in {"sleep", "pop"} : Goes(c, "look", q)
    BY <1>4 DEF Look
  <2>2. Turns'
    BY <1>4, <2>1, GoesKeepsTurns DEF Look, Busy
  <2>3. Flow'
    BY <1>4, <2>1, SameWaiting DEF Look, Goes, TypeOK, Waiting
  <2> QED
    BY <2>2, <2>3
<1>5. CASE TimesOut(c)
  BY <1>5, EndsKeepsOwn DEF TimesOut, Busy
<1>6. CASE Pop(c)
  <2>1. Turns'
    BY <1>6, GoesKeepsTurns DEF Pop, Busy
  <2>2. PICK i \in Found(cmd[c]) : /\ frame' = [frame EXCEPT ![c] = <<recvQueue[i]>>]
                                   /\ recvQueue' = Without(recvQueue, i)
    BY <1>6 DEF Pop
  <2>3. /\ at[c] = "pop" /\ at'[c] = "check"
        /\ \A d \in Clients \ {c} : at'[d] = at[d] /\ frame'[d] = frame[d]
        /\ frame'[c] = <<recvQueue[i]>>
        /\ UNCHANGED <<id, lost, read, asked>>
    BY <1>6, <2>2 DEF TypeOK, Pop, Goes
  <2>4. Answerable' = Answerable
    BY <2>3 DEF Answerable, Waiting
  <2>5. i \in DOMAIN recvQueue
    BY DEF Found
  <2>6. /\ Answers(recvQueue') \subseteq Answers(recvQueue)
        /\ Answers(frame'[c]) \subseteq Answers(recvQueue)
        /\ Distinct(recvQueue') /\ Answers(frame'[c]) \cap Answers(recvQueue') = {}
    BY <2>2, <2>3, <2>5, AnswersOfWithout DEF TypeOK, Flow, Apart
  <2>7. \A d \in Clients \ {c} : Answers(frame'[d]) = Answers(frame[d])
    BY <2>3
  <2>8. Apart' /\ UnderWay' \subseteq UnderWay
    BY <2>3, <2>6 DEF Flow, Apart, UnderWay
  <2>9. Answers(frame'[c]) \subseteq Answerable /\ Answers(frame'[c]) \cap UnderWay' = {}
    BY <2>3, <2>6 DEF Flow, Apart, UnderWay
  <2>10. \A i1 \in DOMAIN asked' : asked'[i1].kind = "answer"
    BY <2>3 DEF Flow
  <2>11. UnderWay' \subseteq Answerable'
    BY <2>4, <2>8 DEF Flow
  <2>12. \A d \in Clients : Answers(frame'[d]) \subseteq Answerable' /\ Answers(frame'[d]) \cap UnderWay' = {}
    BY <2>4, <2>7, <2>8, <2>9 DEF Flow
  <2>13. Flow'
    BY <2>8, <2>10, <2>11, <2>12 DEF Flow
  <2> QED
    BY <2>1, <2>13
<1>7. CASE Accepts(c)
  <2>1. frame[c] # <<>> /\ frame[c][1] \in Frames /\ 1 \in DOMAIN frame[c] /\ at[c] \in Busy
    BY <1>7 DEF TypeOK, Shape, Accepts, Busy
  <2>2. frame[c][1].kind # "event"
    BY <1>7 DEF Accepts, Settles, Expected
  <2>3. frame[c][1].of \in Answers(frame[c])
    BY <2>1, <2>2 DEF Answers
  <2>4. Ends(c, frame[c][1].of = id[c]) /\ UNCHANGED device
    BY <1>7 DEF Accepts
  <2> QED
    BY <2>1, <2>3, <2>4, EndsKeepsOwn
<1>8. CASE Retry(c)
  <2>1. Turns'
    BY <1>8, GoesKeepsTurns DEF Retry, Busy
  <2>2. /\ at[c] = "check" /\ at'[c] = "look" /\ frame'[c] = <<>>
        /\ \A d \in Clients \ {c} : at'[d] = at[d] /\ frame'[d] = frame[d]
        /\ UNCHANGED <<id, lost, read, recvQueue, asked>>
    BY <1>8 DEF TypeOK, Retry, Goes
  <2>3. Answerable' = Answerable
    BY <2>2 DEF Answerable, Waiting
  <2>4. UnderWay' = UnderWay /\ Apart'
    BY <2>2 DEF UnderWay, Apart, Flow
  <2>5. Answers(frame'[c]) = {} /\ \A d \in Clients \ {c} : Answers(frame'[d]) = Answers(frame[d])
    BY <2>2, AnswersOfNone
  <2>6. \A d \in Clients : Answers(frame'[d]) \subseteq Answerable' /\ Answers(frame'[d]) \cap UnderWay' = {}
    BY <2>3, <2>4, <2>5 DEF Flow
  <2>7. Flow'
    BY <2>2, <2>3, <2>4, <2>6 DEF Flow
  <2> QED
    BY <2>1, <2>7
<1>9. CASE GivesUp(c)
  BY <1>9, EndsKeepsOwn DEF GivesUp, Busy
<1> QED
  BY <1>1, <1>2, <1>3, <1>4, <1>5, <1>6, <1>7, <1>8, <1>9 DEF Client

LEMMA ReaderKeepsOwn ==
  ASSUME OwnInv, ReadThread \/ RtAnswer \/ RtEvent
  PROVE  Turns' /\ Flow'
<1> USE DEF OwnInv, SafeInv, TypeInv
<1>1. CASE RtStart \/ RtTest \/ RtEnter \/ RtNothing \/ RtLost
  <2>1. UNCHANGED <<at, holder, id, frame, requests, lost, read, recvQueue, asked>>
    BY <1>1 DEF RtStart, RtTest, RtEnter, RtNothing, RtLost
  <2> QED
    BY <2>1, SameFlow
<1>2. ASSUME UNCHANGED <<at, holder, id, frame, requests, lost, recvQueue>>,
             Distinct(asked'), \A i \in DOMAIN asked' : asked'[i].kind = "answer",
             Answers(asked') \subseteq Answers(asked),
             Answers(read') \subseteq Answers(asked) \cup Answers(read),
             Answers(asked') \cap Answers(read') = {}
      PROVE  Turns' /\ Flow'
  <2>1. Turns' /\ Answerable' = Answerable
    BY <1>2 DEF Turns, Answerable
  <2>2. UnderWay' \subseteq UnderWay /\ Apart'
    BY <1>2 DEF UnderWay, Flow, Apart
  <2> QED
    BY <1>2, <2>1, <2>2 DEF Flow
<1>3. CASE RtAnswer
  <2>1. PICK k \in {"answer", "error"} : Receives([Head(asked) EXCEPT !.kind = k])
    BY <1>3 DEF RtAnswer
  <2> DEFINE f == [Head(asked) EXCEPT !.kind = k]
  <2>2. /\ asked # <<>> /\ asked' = Tail(asked)
        /\ UNCHANGED <<at, holder, id, frame, requests, lost, recvQueue>>
    BY <1>3 DEF RtAnswer
  <2>3. /\ Head(asked) \in Frames /\ Head(asked).kind = "answer"
        /\ \A i \in DOMAIN Tail(asked) : Tail(asked)[i].kind = "answer"
    BY <2>2 DEF TypeOK, Flow
  <2>4. f.kind # "event" /\ f.of = Head(asked).of
    BY <2>3 DEF Frames
  <2>5. read' = <<f>> \/ read' = read
    BY <2>1 DEF Receives
  <2>6. read = <<>>
    BY <2>1 DEF Receives, Reads, Shape
  <2> HIDE DEF f
  <2>7. Answers(<<f>>) = Answers(<<Head(asked)>>)
    BY <2>3, <2>4, AnswersOfOne
  <2>8. /\ Answers(asked') \subseteq Answers(asked) /\ Distinct(asked')
        /\ Answers(<<f>>) \subseteq Answers(asked) /\ Answers(<<f>>) \cap Answers(asked') = {}
    BY <2>2, <2>7, AnswersOfTail DEF TypeOK, Flow, Apart
  <2>9. Answers(read') = Answers(<<f>>) \/ Answers(read') = {}
    BY <2>5, <2>6, AnswersOfNone
  <2> QED
    BY <1>2, <2>2, <2>3, <2>8, <2>9
<1>4. CASE RtEvent
  <2>1. PICK k \in Commands : Receives([kind |-> "event", cmd |-> k, of |-> 0])
    BY <1>4 DEF RtEvent
  <2> DEFINE f == [kind |-> "event", cmd |-> k, of |-> 0]
  <2>2. UNCHANGED <<at, holder, id, frame, requests, lost, recvQueue, asked>>
    BY <1>4 DEF RtEvent
  <2>3. f.kind = "event"
    OBVIOUS
  <2>4. read' = <<f>> \/ read' = read
    BY <2>1 DEF Receives
  <2> HIDE DEF f
  <2>5. Answers(read') = {} \/ read' = read
    BY <2>3, <2>4, AnswersOfOne
  <2> QED
    BY <1>2, <2>2, <2>5 DEF Flow, Apart
<1>5. CASE Deliver
  <2>1. /\ read[1] \in Frames /\ read' = <<>> /\ recvQueue' = Append(recvQueue, read[1])
        /\ \A c \in Clients : at'[c] = IF at[c] = "sleep" THEN "look" ELSE at[c]
        /\ UNCHANGED <<holder, id, frame, requests, lost, asked>>
    BY <1>5 DEF Deliver, Reads, TypeOK, Shape
  <2>2. Turns'
    BY <2>1 DEF Turns, Busy
  <2>3. Answerable' = Answerable
    BY <2>1 DEF Answerable, Waiting
  <2>4. Answers(<<read[1]>>) \subseteq Answers(read)
    <3>1. 1 \in DOMAIN read
      BY <1>5 DEF Deliver, Reads, TypeOK, Shape
    <3> QED
      BY <3>1, AnswersOfOne DEF Answers
  <2>5. Answers(read') = {}
    BY <2>1, AnswersOfNone
  <2>6. /\ Answers(recvQueue') = Answers(recvQueue) \cup Answers(<<read[1]>>)
        /\ Distinct(recvQueue')
    BY <2>1, <2>4, AnswersOfAppend DEF TypeOK, Flow, Apart
  <2>7. UnderWay' \subseteq UnderWay /\ Apart'
    BY <2>1, <2>4, <2>5, <2>6 DEF UnderWay, Flow, Apart
  <2>8. Flow'
    BY <2>1, <2>3, <2>7 DEF Flow
  <2> QED
    BY <2>2, <2>8
<1> QED
  BY <1>1, <1>3, <1>4, <1>5 DEF ReadThread

LEMMA OthersKeepOwn ==
  ASSUME OwnInv, Ignores \/ LinkLoss \/ Session \/ UNCHANGED vars
  PROVE  Turns' /\ Flow'
<1> USE DEF OwnInv, SafeInv, TypeInv
<1>1. CASE Ignores
  <2>1. /\ asked # <<>> /\ asked' = Tail(asked)
        /\ UNCHANGED <<at, holder, id, frame, requests, lost, read, recvQueue>>
    BY <1>1 DEF Ignores
  <2>2. Turns' /\ Answerable' = Answerable
    BY <2>1 DEF Turns, Answerable
  <2>3. \A i \in DOMAIN asked' : asked'[i].kind = "answer"
    BY <2>1 DEF TypeOK, Flow
  <2>4. Answers(asked') \subseteq Answers(asked) /\ Distinct(asked')
    BY <2>1, AnswersOfTail DEF TypeOK, Flow, Apart
  <2>5. UnderWay' \subseteq UnderWay /\ Apart'
    BY <2>1, <2>4 DEF UnderWay, Flow, Apart
  <2> QED
    BY <2>1, <2>2, <2>3, <2>5 DEF Flow
<1>2. CASE Free
  <2>1. /\ read' = <<>> /\ recvQueue' = <<>> /\ asked' = <<>>
        /\ lost' = {} /\ requests' = 0
        /\ UNCHANGED <<at, holder, id, frame>>
    BY <1>2 DEF Free
  <2>2. \A c \in Clients : at[c] = "idle"
    BY <1>2 DEF Free, Steps, Clients, Teardown
  <2>3. Turns'
    BY <2>1, <2>2 DEF Turns, Busy
  <2>4. \A c \in Clients : Answers(frame'[c]) = {}
    BY <2>1, <2>2, AnswersOfNone DEF Shape
  <2>5. UnderWay' = {} /\ Apart'
    BY <2>1, AnswersOfNone DEF UnderWay, Apart
  <2> QED
    BY <2>1, <2>3, <2>4, <2>5 DEF Flow
<1>3. CASE LinkLoss \/ Open \/ Serve \/ Stop \/ Stopped \/ DeleteServices \/ Disconnect
           \/ Close \/ CloseSocket \/ Join \/ Joined \/ FreeQueue \/ UNCHANGED vars
  <2>1. UNCHANGED <<at, holder, id, frame, requests, lost, read, recvQueue, asked>>
    BY <1>3 DEF LinkLoss, Open, Serve, Stop, Stopped, DeleteServices, Disconnect, Close,
                CloseSocket, Join, Joined, FreeQueue, vars
  <2> QED
    BY <2>1, SameFlow
<1> QED
  BY <1>1, <1>2, <1>3 DEF Session

LEMMA SopasOwnInv == Spec => []OwnInv
<1>1. Init => OwnInv
  BY InitTypes, InitSafe, InitOwn DEF OwnInv, SafeInv
<1>2. OwnInv /\ [Next]_vars => OwnInv'
  <2> SUFFICES ASSUME OwnInv, [Next]_vars
               PROVE  OwnInv'
    OBVIOUS
  <2>1. SafeInv'
    BY NextKeepsTypes, ClientKeepsSafe, ReaderKeepsSafe, OthersKeepSafe DEF Next, OwnInv, SafeInv
  <2>2. Turns' /\ Flow'
    BY CallKeepsOwn, ClientKeepsOwn, ReaderKeepsOwn, OthersKeepOwn DEF Next
  <2> QED
    BY <2>1, <2>2 DEF OwnInv
<1> QED
  BY <1>1, <1>2, PTL DEF Spec

\* A request is checked against its own answer or a late one to a request that
\* has failed, for any number of requests: sopasSendMutex is enough, although
\* the queue knows only keywords.
THEOREM RepliesAreOwn == Spec => []OwnReply
<1>1. OwnInv => OwnReply
  <2> SUFFICES ASSUME OwnInv, NEW c \in Clients, at[c] = "check", frame[c][1].kind # "event"
               PROVE  frame[c][1].of \in lost \cup {id[c]}
    BY DEF OwnReply
  <2>1. 1 \in DOMAIN frame[c]
    BY DEF OwnInv, SafeInv, TypeInv, TypeOK, Shape
  <2>2. frame[c][1].of \in Answerable
    BY <2>1 DEF Answers, OwnInv, Flow
  <2>3. \A d \in Clients \ {c} : at[d] \notin Waiting
    BY DEF OwnInv, Turns, Busy, Waiting
  <2> QED
    BY <2>2, <2>3 DEF Answerable
<1> QED
  BY <1>1, SopasOwnInv, PTL

-----------------------------------------------------------------------------
(* What the end of a session rests on.                                     *)

\* Whoever is about to pop finds what it has seen: nobody else takes from the
\* queue meanwhile, and the queue does not go.
PopFinds == \A c \in Clients : at[c] = "pop" => Found(cmd[c]) # {}

LEMMA ClientKeepsFinds ==
  ASSUME OwnInv, PopFinds, NEW c \in Clients, Call(c) \/ Client(c)
  PROVE  PopFinds'
<1> USE DEF OwnInv, SafeInv, TypeInv, TypeOK
<1>1. ASSUME UNCHANGED recvQueue, at'[c] # "pop",
             \A d \in Clients \ {c} : at'[d] = at[d] /\ cmd'[d] = cmd[d]
      PROVE  PopFinds'
  <2>1. \A d \in Clients : at'[d] = "pop" => at[d] = "pop" /\ cmd'[d] = cmd[d]
    BY <1>1
  <2> QED
    BY <1>1, <2>1 DEF PopFinds, Found
<1>2. CASE Call(c)
  BY <1>2, <1>1 DEF Call, Goes
<1>3. CASE Lock(c) \/ Write(c) \/ Retry(c)
  BY <1>3, <1>1 DEF Lock, Write, Retry, Goes
<1>4. CASE WriteFails(c) \/ TimesOut(c) \/ Accepts(c) \/ GivesUp(c)
  BY <1>4, <1>1 DEF WriteFails, TimesOut, Accepts, GivesUp, Ends
<1>5. CASE Look(c)
  <2>1. UNCHANGED <<cmd, recvQueue>> /\ \A d \in Clients \ {c} : at'[d] = at[d]
    BY <1>5 DEF Look, Goes
  <2>2. at'[c] = "pop" => Found(cmd[c]) # {}
    BY <1>5 DEF Look, Goes
  <2> QED
    BY <2>1, <2>2 DEF PopFinds, Found
<1>6. CASE Pop(c)
  <2>1. at[c] = "pop" /\ at'[c] = "check" /\ \A d \in Clients \ {c} : at'[d] = at[d]
    BY <1>6 DEF Pop, Goes
  <2>2. \A d \in Clients \ {c} : at[d] # "pop"
    BY <2>1 DEF Turns, Busy
  <2>3. \A d \in Clients : at'[d] # "pop"
    BY <2>1, <2>2
  <2> QED
    BY <2>3 DEF PopFinds
<1> QED
  BY <1>2, <1>3, <1>4, <1>5, <1>6 DEF Client

LEMMA OthersKeepFinds ==
  ASSUME OwnInv, PopFinds,
         ReadThread \/ RtAnswer \/ RtEvent \/ Ignores \/ LinkLoss \/ Session \/ UNCHANGED vars
  PROVE  PopFinds'
<1> USE DEF OwnInv, SafeInv, TypeInv, TypeOK
<1>1. ASSUME UNCHANGED <<at, cmd, recvQueue>>
      PROVE  PopFinds'
  BY <1>1 DEF PopFinds, Found
<1>2. CASE RtStart \/ RtTest \/ RtEnter \/ RtNothing \/ RtLost \/ RtAnswer \/ RtEvent
  BY <1>2, <1>1 DEF RtStart, RtTest, RtEnter, RtNothing, RtLost, RtAnswer, RtEvent
<1>3. CASE Deliver
  <2>1. recvQueue' = Append(recvQueue, read[1]) /\ UNCHANGED cmd
        /\ \A c \in Clients : at'[c] = "pop" => at[c] = "pop"
    BY <1>3 DEF Deliver
  <2>2. \A i \in DOMAIN recvQueue : i \in DOMAIN recvQueue' /\ recvQueue'[i] = recvQueue[i]
    BY <2>1
  <2>3. \A k : Found(k) \subseteq Found(k)'
    BY <2>2 DEF Found
  <2>4. \A c \in Clients : Found(cmd[c]) \subseteq Found(cmd[c])'
    BY <2>1, <2>2 DEF Found
  <2> QED
    BY <2>1, <2>4 DEF PopFinds
<1>4. CASE Free
  <2>1. \A c \in Clients : at'[c] = "idle"
    BY <1>4 DEF Free, Steps, Clients, Teardown
  <2> QED
    BY <2>1 DEF PopFinds
<1>5. CASE \/ Ignores \/ LinkLoss \/ UNCHANGED vars
           \/ Open \/ Serve \/ Stop \/ Stopped \/ DeleteServices \/ Disconnect
           \/ Close \/ CloseSocket \/ Join \/ Joined \/ FreeQueue
  BY <1>5, <1>1 DEF Ignores, LinkLoss, vars, Open, Serve, Stop, Stopped, DeleteServices, Disconnect,
                    Close, CloseSocket, Join, Joined, FreeQueue
<1> QED
  BY <1>2, <1>3, <1>4, <1>5 DEF ReadThread, Session

\* Queue::pop never waits (template_queue.h:50-61): it has no timeout, and what
\* waitForIncomingObject has seen is still there, however many callers and
\* datagrams there are, and in spite of the end of a session.
THEOREM PopNeverWaits == Spec => []PopFinds
<1>1. Init => PopFinds
  BY DEF Init, PopFinds
<1>2. OwnInv /\ PopFinds /\ [Next]_vars => PopFinds'
  BY ClientKeepsFinds, OthersKeepFinds DEF Next
<1> QED
  BY <1>1, <1>2, SopasOwnInv, PTL DEF Spec

\* How many steps the read thread takes at most once its socket is gone.
StepsLeft(place) ==
  CASE place = "none" -> 0
    [] place = "ended" -> 1
    [] place = "enter" -> 2
    [] place = "test" -> 3
    [] place \in {"starting", "callback", "lost"} -> 4
    [] place = "poll" -> 5
JoinedSoon == phase \in {"join", "joining"} => ~sock /\ StepsLeft(thread') <= StepsLeft(thread)
                                               /\ (thread' # thread => StepsLeft(thread') < StepsLeft(thread))

\* Whoever joins the read thread waits for a few steps of it only: the socket is
\* gone, so each brings the thread closer to its end, also when it has started
\* so late that it sets its flag again (SickThread.hpp:92-108), and no step
\* takes it back.
THEOREM JoinIsShort == Spec => [][JoinedSoon]_vars
<1>1. ASSUME SafeInv, [Next]_vars, ~UNCHANGED vars
      PROVE  JoinedSoon
  <2> USE DEF SafeInv, Teardown, Reads
  <2> SUFFICES ASSUME phase \in {"join", "joining"}
               PROVE  /\ StepsLeft(thread') <= StepsLeft(thread)
                      /\ thread' # thread => StepsLeft(thread') < StepsLeft(thread)
    BY <1>1 DEF JoinedSoon
  <2>0. ~sock
    BY <1>1
  <2>1. StepsLeft(thread) \in Nat
    BY <1>1 DEF TypeInv, TypeOK, Reader, StepsLeft
  <2>2. CASE UNCHANGED thread
    BY <2>2, <2>1
  <2>3. CASE RtStart
    BY <2>3 DEF RtStart, StepsLeft
  <2>4. CASE RtTest
    BY <2>4 DEF RtTest, StepsLeft
  <2>5. CASE RtEnter
    BY <2>5, <2>0 DEF RtEnter, StepsLeft
  <2>6. CASE RtNothing
    BY <2>6 DEF RtNothing, StepsLeft
  <2>7. CASE Deliver
    BY <2>7 DEF Deliver, StepsLeft
  <2>8. CASE RtLost
    BY <2>8 DEF RtLost, StepsLeft
  <2>9. CASE RtAnswer \/ RtEvent
    BY <2>9, <2>0 DEF RtAnswer, RtEvent
  <2>10. CASE \E c \in Clients : Call(c) \/ Client(c)
    <3>1. UNCHANGED thread
      BY <2>10 DEF Call, Client, Lock, Write, WriteFails, Look, TimesOut, Pop, Accepts, Retry, GivesUp, Ends
    <3> QED
      BY <3>1, <2>2
  <2>11. CASE Ignores \/ LinkLoss
    BY <2>11, <2>2 DEF Ignores, LinkLoss
  <2>12. CASE Session
    <3>1. CASE Joined
      BY <3>1 DEF Joined, StepsLeft
    <3>2. CASE Join
      BY <3>2, <2>2 DEF Join
    <3> QED
      BY <2>12, <3>1, <3>2 DEF Session, Steps, Open, Serve, Stop, Stopped, DeleteServices, Disconnect,
                               Close, CloseSocket, FreeQueue, Free
  <2> QED
    BY <1>1, <2>3, <2>4, <2>5, <2>6, <2>7, <2>8, <2>9, <2>10, <2>11, <2>12 DEF Next, ReadThread
<1>2. SafeInv /\ [Next]_vars => [JoinedSoon]_vars
  BY <1>1
<1> QED
  BY <1>2, SopasSafeInv, PTL DEF Spec
=============================================================================
