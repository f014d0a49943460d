---------------------------- MODULE AsyncSocket ----------------------------
(***************************************************************************)
(* AsyncSocket (folly/io/async/AsyncSocket.{h,cpp}): a socket driven by    *)
(* one EventBase thread.  What makes it hard is re-entrancy: every         *)
(* callback the socket invokes is user code that may call any of its       *)
(* methods again, in the middle of the method that invoked it.             *)
(*                                                                         *)
(* A method that invokes no callback is one step.  One that does is a      *)
(* sequence of operations, kept on `stack`; User on top of the stack is a  *)
(* callback that is running.  A handler is an operator from the socket to  *)
(* the set of its outcomes: the socket, the operations still to do, and    *)
(* whether the assertions passed on the way hold.                          *)
(***************************************************************************)
EXTENDS Naturals, Sequences, SequencesExt, FiniteSets

CONSTANTS
  Writes, Readers, Connectors,   \* the callbacks; each is given to the socket once
  MaxCalls,                      \* bound on the calls the user makes
  Unforeseen                     \* the cases the code gets wrong that this instance includes

VARIABLES
  s,                             \* the AsyncSocket
  stack,                         \* the operations to be done, innermost first
  calls,                         \* calls made by the user
  given, released,               \* callbacks given to the socket, and taken back by the user
  told, sent,                    \* per callback, how often it was told its end; writes that succeeded
  closing,                       \* close() has been called
  asserts                        \* no assertion has failed

vars == <<s, stack, calls, given, released, told, sent, closing, asserts>>

NoCallback == "nullptr"
Callbacks == Writes \cup Readers \cup Connectors
Op(name) == [op |-> name, cb |-> NoCallback]
Tell(name, c) == [op |-> name, cb |-> c]
User == Op("user")

Init ==
  /\ \E tfo \in BOOLEAN, timeout \in BOOLEAN :
       s = [state |-> "UNINIT", shut |-> {}, events |-> {}, timer |-> FALSE, fd |-> FALSE,
            connectCallback |-> NoCallback, readCallback |-> NoCallback,
            queue |-> << >>,                 \* writeReqHead_ and what follows it
            tail |-> FALSE,                  \* writeReqTail_ # nullptr
            sendTimeout |-> timeout, tfo |-> tfo,
            pre |-> 0,                       \* preReceivedData_, in reads that it takes
            initial |-> FALSE,               \* handleInitialReadWrite is scheduled in the loop
            immediate |-> FALSE]             \* immediateReadHandler_ is
  /\ stack = << >> /\ calls = 0
  /\ given = << >> /\ released = {}
  /\ told = [c \in Callbacks |-> 0] /\ sent = << >>
  /\ closing = FALSE /\ asserts = TRUE

Live == {"CONNECTING", "FAST_OPEN", "ESTABLISHED"}
Over == {"CLOSED", "ERROR"}
Good(x) == x.state \in Live /\ x.shut = {}

\* A case the code gets wrong is left out, unless it is what the instance is about.
Provided(case, condition) == condition \/ case \in Unforeseen
-----------------------------------------------------------------------------
(***************************************************************************)
(* Failures.  startFail() makes the socket unusable first; the callbacks   *)
(* come after.                                                             *)
(***************************************************************************)
Outcome(x, ops, ok) == [s |-> x, ops |-> ops, ok |-> ok]
Checked(o, ok) == [o EXCEPT !.ok = @ /\ ok]

\* Fault: SHUT_READ is not set.
StartFailReadable(x) ==
  [x EXCEPT !.state = "ERROR", !.shut = @ \cup {"WRITE"}, !.events = {},
            !.timer = FALSE, !.immediate = FALSE, !.fd = FALSE]

StartFail(x) ==
  [x EXCEPT !.state = "ERROR", !.shut = @ \cup {"READ", "WRITE"}, !.events = {},
            !.timer = FALSE, !.immediate = FALSE, !.fd = FALSE]

InvokeAllErrors == <<Op("invokeConnectErr"), Op("failAllWrites"), Op("endRead")>>

Fail(x, first) == Outcome(StartFail(x), first \o InvokeAllErrors, x.state # "ERROR")
FailConnect(x) == Fail(x, <<Op("invokeConnectErr")>>)
FailRead(x) == Fail(x, <<Op("endRead")>>)
FailWrite(x) == Fail(x, <<Op("failFirstWrite")>>)

\* Fault: the request is in the queue already when its callback is told.
FailQueuedWrite(x, c) == Fail([x EXCEPT !.queue = Append(@, c)], <<Tell("tell", c)>>)

FailNewWrite(x, c) == Fail(x, <<Tell("tell", c)>>)

InvalidState(x, c) ==
  IF x.state \in Over THEN Outcome(x, <<Tell("tell", c)>>, TRUE) ELSE Fail(x, <<Tell("tell", c)>>)

\* updateEventRegistration(): one that changes to some other events may fail, and then so does
\* the socket.
Registered(x, events) == [x EXCEPT !.events = events]
RegistrationFails(x, events) ==
  IF events \in {x.events, {}} THEN {} ELSE {Fail(Registered(x, {}), << >>)}

\* writeTimeout_.scheduleTimeout(sendTimeout_), which may fail.
ScheduleSendTimeout(x) ==
  IF x.sendTimeout THEN {Outcome([x EXCEPT !.timer = TRUE], << >>, TRUE), FailWrite(x)}
  ELSE {Outcome(x, << >>, TRUE)}
-----------------------------------------------------------------------------
(***************************************************************************)
(* Connecting.                                                             *)
(***************************************************************************)
\* connect() is in progress: a connect timeout, if there is one, and a one-shot write event.
InProgress(x) == {[x EXCEPT !.timer = t, !.events = {"WRITE"}] : t \in BOOLEAN}

ConnectTo(x, c) ==
  LET y == [x EXCEPT !.state = "CONNECTING", !.connectCallback = c, !.fd = TRUE]
      done(state) == Outcome([y EXCEPT !.state = state], <<Op("invokeConnectSuccess")>>,
                             y.readCallback = NoCallback /\ y.queue = << >>)
  IN IF x.state # "UNINIT" THEN {InvalidState(x, c)}
     ELSE {FailConnect(y)} \cup
          IF x.tfo THEN {done("FAST_OPEN")}
          ELSE {Outcome(z, << >>, y.events = {}) : z \in InProgress(y)} \cup {done("ESTABLISHED")}

\* Connected: a write side that was to be shut down when the connection is there, is.
HandleConnect(x) ==
  LET y == [x EXCEPT !.timer = FALSE, !.events = {}]
      halfShut == "WRITE_PENDING" \in x.shut /\ x.queue = << >>
      ok == "WRITE" \notin x.shut /\ x.events = {"WRITE"}
  IN { Checked(FailConnect(y), ok),
       Outcome([y EXCEPT !.state = "ESTABLISHED",
                         !.shut = IF halfShut THEN @ \cup {"WRITE"} ELSE @],
               <<Op("invokeConnectSuccess"), Op("initialRead"), Op("initialWrite")>>,
               ok /\ (halfShut => "READ" \notin x.shut)) }
-----------------------------------------------------------------------------
(***************************************************************************)
(* Writing.                                                                *)
(***************************************************************************)
Enqueue(x, w) == [x EXCEPT !.queue = Append(@, w), !.tail = TRUE]
TailRight(x) == x.tail <=> x.queue # << >>

\* Fault: only the timeout is set.
AwaitWritableUnregistered(x) == ScheduleSendTimeout(x)

\* The kernel did not take everything: wait for a write event, under the send timeout.
AwaitWritable(x) ==
  LET events == x.events \cup {"WRITE"}
  IN ScheduleSendTimeout(Registered(x, events)) \cup RegistrationFails(x, events)

\* Nothing is queued: the write is attempted at once.  With fast open it is the first write
\* that connects, or finds that it has to wait for the connection.
AttemptWrite(x, w) ==
  LET open == x.state = "FAST_OPEN"
      y == [x EXCEPT !.state = "ESTABLISHED", !.initial = IF open THEN Good(x) ELSE @]
      ok == ~x.tail /\ "WRITE" \notin x.events
      outcomes ==
        {FailNewWrite(x, w), Outcome(y, <<Tell("tellSent", w)>>, TRUE)}
        \cup AwaitWritable(Enqueue(y, w))
        \cup (IF open THEN {Outcome(Enqueue([z EXCEPT !.state = "CONNECTING"], w), << >>, TRUE)
                              : z \in InProgress(x)} ELSE {})
  IN {Checked(o, ok) : o \in outcomes}

\* Fault: a write is attempted though others wait.
WriteImplAtOnce(x, w) ==
  IF x.shut \cap {"WRITE", "WRITE_PENDING"} # {} \/ x.state \notin Live THEN {InvalidState(x, w)}
  ELSE IF x.state = "CONNECTING" THEN {Outcome(Enqueue(x, w), << >>, TailRight(x))}
       ELSE AttemptWrite(x, w)

WriteImpl(x, w) ==
  IF x.shut \cap {"WRITE", "WRITE_PENDING"} # {} \/ x.state \notin Live THEN {InvalidState(x, w)}
  ELSE IF x.state = "CONNECTING" \/ x.queue # << >>
       THEN {Outcome(Enqueue(x, w), << >>, TailRight(x))}
       ELSE AttemptWrite(x, w)

HandleWrite(x) ==
  IF x.state = "CONNECTING" THEN HandleConnect(x)
  ELSE {Outcome(x, <<Op("writeLoop")>>,
                x.state = "ESTABLISHED" /\ "WRITE" \notin x.shut /\ x.queue # << >>)}

\* The last queued write, w, is done.  A shutdown that waited for it takes place, before w is told.
Drained(x, w) ==
  LET events == x.events \ {"WRITE"}
      y == [x EXCEPT !.queue = << >>, !.tail = FALSE]
      z == [Registered(y, events) EXCEPT !.timer = @ /\ "WRITE" \notin x.events]
      pending == "WRITE_PENDING" \in z.shut
      close == pending /\ "READ" \in z.shut
  IN {Outcome([z EXCEPT !.shut = IF pending THEN @ \cup {"WRITE"} ELSE @,
                        !.state = IF close THEN "CLOSED" ELSE @,
                        !.fd = @ /\ ~close],
              <<Tell("tellSent", w), Op("writeLoop")>>,
              /\ ~z.timer
              /\ pending => z.connectCallback = NoCallback
              /\ close => z.readCallback = NoCallback)}
     \cup {o \in RegistrationFails(y, events) : Provided("failure after the last write", FALSE)}

\* One round of the loop of handleWrite: the kernel refuses, takes all or takes a part.
WriteRound(x) ==
  LET w == Head(x.queue)
  IN {FailWrite(x)} \cup AwaitWritable(x) \cup
     IF Len(x.queue) = 1 THEN Drained(x, w)
     ELSE {Outcome([x EXCEPT !.queue = Tail(@)], <<Tell("tellSent", w), Op("writeLoop")>>, TRUE)}
-----------------------------------------------------------------------------
(***************************************************************************)
(* Reading.                                                                *)
(***************************************************************************)
HandleRead(x) ==
  {Outcome(x, <<Op("readLoop")>>,
           /\ x.state = "ESTABLISHED" /\ "READ" \notin x.shut
           /\ x.readCallback # NoCallback /\ "READ" \in x.events)}

\* Reading is over: the read event is unregistered, and the callback told.
Unregistered(x) ==
  LET events == x.events \ {"READ"}
  IN {Outcome(Registered(x, events), <<Op("endRead")>>, TRUE)} \cup RegistrationFails(x, events)

\* There is data to read at once only if some was received before.
CheckForImmediateRead(x) == IF x.pre > 0 THEN HandleRead(x) ELSE {Outcome(x, << >>, TRUE)}

\* One round of the loop of handleRead: data that fills the buffer or does not, nothing there,
\* an error, the end of the stream.
ReadRound(x) ==
  LET pre == [x EXCEPT !.pre = @ - 1]
      eof == [x EXCEPT !.shut = @ \cup {"READ"}]
      more == <<User, Op("readAgain")>>
  IN {FailRead(x)} \cup
     IF x.pre > 0 THEN {Outcome(pre, IF pre.pre > 0 THEN more ELSE ops, TRUE) : ops \in {more, <<User>>}}
     ELSE {Outcome(x, ops, TRUE) : ops \in {more, <<User>>, << >>}}
          \cup Unregistered(eof)

SetReadCallback(x, c) ==
  LET y == [x EXCEPT !.readCallback = c, !.immediate = @ /\ c # NoCallback]
      events == IF c = NoCallback THEN x.events \ {"READ"} ELSE x.events \cup {"READ"}
      z == Registered(y, events)
  IN CASE c = x.readCallback -> {Outcome(x, << >>, TRUE)}
       [] c # x.readCallback /\ "READ" \in x.shut ->
            IF c # NoCallback THEN {InvalidState(x, c)}
            ELSE {Outcome(y, << >>, "READ" \notin x.events)}
       [] c # x.readCallback /\ "READ" \notin x.shut ->
            CASE x.state \in {"CONNECTING", "FAST_OPEN"} -> {Outcome(y, << >>, TRUE)}
              [] x.state = "ESTABLISHED" ->
                   (IF c = NoCallback THEN {Outcome(z, << >>, TRUE)} ELSE CheckForImmediateRead(z))
                   \cup RegistrationFails(y, events)
              [] x.state \in Over -> {Outcome(x, <<Tell("tell", c)>>, FALSE)}
              [] x.state = "UNINIT" -> {InvalidState(x, c)}
-----------------------------------------------------------------------------
(***************************************************************************)
(* Closing.                                                                *)
(***************************************************************************)
CloseNow(x) ==
  LET y == [x EXCEPT !.state = "CLOSED", !.shut = @ \cup {"READ", "WRITE"}, !.events = {},
                     !.timer = FALSE, !.immediate = FALSE, !.fd = FALSE]
  IN CASE x.state \in Live -> {Outcome(y, InvokeAllErrors, TRUE)}
       [] x.state \in Over -> {Outcome(x, << >>, TRUE)}
       [] x.state = "UNINIT" ->
            {Outcome(y, << >>, /\ x.events = {} /\ x.queue = << >>
                               /\ x.connectCallback = NoCallback /\ x.readCallback = NoCallback)}

\* Fault: no shutdown of the writes is left pending.
CloseReadsOnly(x) ==
  LET y == [x EXCEPT !.shut = @ \cup {"READ"}]
  IN IF x.queue = << >> \/ x.state \notin {"CONNECTING", "ESTABLISHED"} THEN CloseNow(x)
     ELSE IF x.readCallback = NoCallback THEN {Outcome(y, << >>, TRUE)}
          ELSE Unregistered(y)

CloseGracefully(x) ==
  LET y == [x EXCEPT !.shut = @ \cup {"READ", "WRITE_PENDING"}]
  IN IF x.queue = << >> \/ x.state \notin {"CONNECTING", "ESTABLISHED"} THEN CloseNow(x)
     ELSE IF x.readCallback = NoCallback THEN {Outcome(y, << >>, TRUE)}
          ELSE Unregistered(y)

ShutdownWriteNow(x) ==
  LET failAll(y) == {Outcome(y, <<Op("failAllWrites")>>, TRUE)}
      shut(flag) == [x EXCEPT !.shut = @ \cup {flag}]
      now == [shut("WRITE") EXCEPT !.timer = FALSE]
      events == x.events \ {"WRITE"}
  IN CASE "WRITE" \in x.shut -> {Outcome(x, << >>, TRUE)}
       [] "WRITE" \notin x.shut /\ "READ" \in x.shut -> CloseNow(x)
       [] x.shut \cap {"READ", "WRITE"} = {} ->
            CASE x.state = "ESTABLISHED" ->
                   failAll(Registered(now, events)) \cup RegistrationFails(now, events)
              [] x.state = "CONNECTING" -> failAll(shut("WRITE_PENDING"))
              [] x.state = "UNINIT" -> {Outcome(shut("WRITE_PENDING"), << >>, TRUE)}
              [] x.state = "FAST_OPEN" -> failAll(shut("WRITE"))
              [] x.state \in Over -> {Outcome(x, << >>, FALSE)}

ShutdownWrite(x) ==
  IF x.queue = << >> THEN ShutdownWriteNow(x)
  ELSE {Outcome([x EXCEPT !.shut = @ \cup {"WRITE_PENDING"}], << >>, TRUE)}

CancelConnect(x) ==
  LET y == [x EXCEPT !.connectCallback = NoCallback]
  IN IF x.state \in {"CONNECTING", "FAST_OPEN"} THEN CloseNow(y) ELSE {Outcome(y, << >>, TRUE)}

SetSendTimeout(x, t) ==
  LET y == [x EXCEPT !.sendTimeout = t]
      ok == x.state = "ESTABLISHED" /\ "WRITE" \notin x.shut
  IN IF "WRITE" \notin x.events \/ x.state \in {"CONNECTING", "FAST_OPEN"}
     THEN {Outcome(y, << >>, TRUE)}
     ELSE {Checked(o, ok) : o \in ScheduleSendTimeout([y EXCEPT !.timer = FALSE])}
-----------------------------------------------------------------------------
(***************************************************************************)
(* Calls of the user, from a callback or from elsewhere in the loop.       *)
(***************************************************************************)
UserRuns == stack # << >> => Head(stack) = User

\* The call takes one of its outcomes; what it leaves to be done comes before what was left.
Call(outcomes) ==
  /\ UserRuns /\ calls < MaxCalls
  /\ calls' = calls + 1
  /\ \E o \in outcomes : s' = o.s /\ stack' = o.ops \o stack /\ asserts' = (asserts /\ o.ok)

\* A callback not used so far; they are alike, so one of them will do.
Fresh(kind) ==
  IF kind \subseteq Range(given) THEN {} ELSE {CHOOSE c \in kind : c \notin Range(given)}

connect(c) ==
  /\ given' = Append(given, c)
  /\ Call(ConnectTo(s, c))
  /\ UNCHANGED <<released, told, sent, closing>>

\* connect(callback, ip, port) stores the callback before it looks at the state.
connectByName(c) ==
  /\ Provided("connect again by name", s.state = "UNINIT")
  /\ given' = Append(given, c)
  /\ Call(ConnectTo([s EXCEPT !.connectCallback = c], c))
  /\ UNCHANGED <<released, told, sent, closing>>

cancelConnect ==
  /\ Call(CancelConnect(s))
  /\ released' = released \cup {s.connectCallback}
  /\ UNCHANGED <<given, told, sent, closing>>

write(w) ==
  /\ given' = Append(given, w)
  /\ Call(WriteImpl(s, w))
  /\ UNCHANGED <<released, told, sent, closing>>

setReadCB(c) ==
  /\ given' = Append(given, c)
  /\ Call(SetReadCallback(s, c))
  /\ released' = IF s.readCallback \in {s'.readCallback, NoCallback} THEN released
                 ELSE released \cup {s.readCallback}
  /\ UNCHANGED <<told, sent, closing>>

\* What was read from the connection before this socket took it over.
setPreReceivedData ==
  /\ Range(given) \cap Readers = {}
  /\ Call({Outcome([s EXCEPT !.pre = 2], << >>, TRUE)})
  /\ UNCHANGED <<given, released, told, sent, closing>>

clearReadCB ==
  /\ Call(SetReadCallback(s, NoCallback))
  /\ released' = released \cup {s.readCallback}
  /\ UNCHANGED <<given, told, sent, closing>>

\* Writes are being failed by a shutdownWriteNow() that the caller is called back from.
ShuttingDown == s.state \in Live /\ Op("failAllWrites") \in Range(stack)

close ==
  /\ Provided("close in writeErr", ~ShuttingDown)
  /\ Provided("close before an immediate read", ~(s.immediate /\ s.pre > 0))
  /\ Call(CloseGracefully(s))
  /\ closing' = TRUE
  /\ UNCHANGED <<given, released, told, sent>>

closeNow == Call(CloseNow(s)) /\ UNCHANGED <<given, released, told, sent, closing>>

shutdownWrite ==
  /\ Provided("half close after fast open", ~s.initial)
  /\ Call(ShutdownWrite(s))
  /\ UNCHANGED <<given, released, told, sent, closing>>

shutdownWriteNow ==
  /\ Provided("half close after fast open", ~s.initial)
  /\ Call(ShutdownWriteNow(s))
  /\ UNCHANGED <<given, released, told, sent, closing>>

setSendTimeout(t) == Call(SetSendTimeout(s, t)) /\ UNCHANGED <<given, released, told, sent, closing>>
-----------------------------------------------------------------------------
(***************************************************************************)
(* The operation on top of the stack.                                      *)
(***************************************************************************)
Top(name) == stack # << >> /\ Head(stack).op = name

\* The callback the user was called through returns.
Return ==
  /\ Top("user")
  /\ stack' = Tail(stack)
  /\ UNCHANGED <<s, calls, given, released, told, sent, closing, asserts>>

Invoke(c, rest) ==
  /\ told' = [told EXCEPT ![c] = @ + 1]
  /\ stack' = <<User>> \o rest
  /\ UNCHANGED <<calls, given, released, closing, asserts>>

TellCallback ==
  /\ Top("tell") \/ Top("tellSent")
  /\ Invoke(Head(stack).cb, Tail(stack))
  /\ sent' = IF Top("tellSent") THEN Append(sent, Head(stack).cb) ELSE sent
  /\ UNCHANGED s

Skip ==
  /\ stack' = Tail(stack)
  /\ UNCHANGED <<s, calls, given, released, told, sent, closing, asserts>>

\* invokeConnectErr, invokeConnectSuccess: the callback is taken out before it is called.
TellConnect ==
  /\ Top("invokeConnectErr") \/ Top("invokeConnectSuccess")
  /\ IF s.connectCallback = NoCallback THEN Skip
     ELSE /\ s' = [s EXCEPT !.connectCallback = NoCallback]
          /\ Invoke(s.connectCallback, Tail(stack))
          /\ UNCHANGED sent

EndReading ==
  /\ Top("endRead")
  /\ IF s.readCallback = NoCallback THEN Skip
     ELSE /\ s' = [s EXCEPT !.readCallback = NoCallback]
          /\ Invoke(s.readCallback, Tail(stack))
          /\ UNCHANGED sent

\* failAllWrites loops; failWrite fails the first write only.
FailQueued ==
  /\ Top("failAllWrites") \/ Top("failFirstWrite")
  /\ IF s.queue = << >> THEN Skip
     ELSE /\ s' = [s EXCEPT !.queue = Tail(@)]
          /\ Invoke(Head(s.queue), IF Top("failAllWrites") THEN stack ELSE Tail(stack))
          /\ UNCHANGED sent

Handle(outcomes, rest) ==
  /\ \E o \in outcomes : s' = o.s /\ stack' = o.ops \o rest /\ asserts' = (asserts /\ o.ok)
  /\ UNCHANGED <<calls, given, released, told, sent, closing>>

WriteLoop ==
  /\ Top("writeLoop")
  /\ IF s.queue = << >> THEN Skip ELSE Handle(WriteRound(s), Tail(stack))

ReadLoop ==
  /\ Top("readLoop")
  /\ IF s.readCallback = NoCallback THEN Skip ELSE Handle(ReadRound(s), Tail(stack))

\* The buffer was filled: read again, or leave it to the next loop when numReads is used up.
ReadAgain ==
  LET again == Outcome(s, <<Op("readLoop")>>, TRUE)
      leave == Outcome([s EXCEPT !.immediate = @ \/ Good(s)], << >>, TRUE)
      lost == s.pre > 0 /\ ~Good(s)
  IN /\ Top("readAgain")
     /\ IF s.readCallback = NoCallback THEN Skip
        ELSE Handle({again} \cup {o \in {leave} : Provided("data left over when half closed", ~lost)},
                    Tail(stack))

\* After the writes of an event that was for both.
ReadAfterWrite ==
  /\ Top("readAfterWrite")
  /\ IF s.readCallback = NoCallback THEN Skip ELSE Handle(HandleRead(s), Tail(stack))

\* handleInitialReadWrite.  (If a registration fails there is nothing left to read or write.)
InitialRead ==
  LET on == s.readCallback # NoCallback
      new == on /\ "READ" \notin s.events
      events == IF on THEN s.events \cup {"READ"} ELSE s.events \ {"READ"}
      y == Registered(s, events)
      outcomes == (IF new THEN CheckForImmediateRead(y) ELSE {Outcome(y, << >>, TRUE)})
                  \cup RegistrationFails(s, events)
      ok == new => s.state = "ESTABLISHED" /\ "READ" \notin s.shut
  IN Top("initialRead") /\ Handle({Checked(o, ok) : o \in outcomes}, Tail(stack))

InitialWrite ==
  LET events == s.events \ {"WRITE"}
  IN /\ Top("initialWrite")
     /\ IF s.queue = << >>
        THEN Handle({Outcome(Registered(s, events), << >>, TRUE)} \cup RegistrationFails(s, events),
                    Tail(stack))
        ELSE IF "WRITE" \in s.events THEN Skip ELSE Handle(HandleWrite(s), Tail(stack))
-----------------------------------------------------------------------------
(***************************************************************************)
(* Events of the loop, which come when nothing of the socket is running.   *)
(***************************************************************************)
ioReady(events) ==
  /\ stack = << >> /\ events # {} /\ events \subseteq s.events
  /\ IF "WRITE" \in events
     THEN Handle(HandleWrite(s), IF "READ" \in events THEN <<Op("readAfterWrite")>> ELSE << >>)
     ELSE Handle(HandleRead(s), << >>)

timeoutExpired ==
  /\ stack = << >> /\ s.timer
  /\ LET x == [s EXCEPT !.timer = FALSE]
     IN Handle({IF x.state = "CONNECTING" /\ x.connectCallback # NoCallback THEN FailConnect(x)
                ELSE FailWrite(x)}, << >>)

runInitialReadWrite ==
  /\ stack = << >> /\ s.initial
  /\ Handle({Outcome([s EXCEPT !.initial = FALSE],
                     IF Good(s) THEN <<Op("initialRead"), Op("initialWrite")>> ELSE << >>, TRUE)}, << >>)

runImmediateRead ==
  /\ stack = << >> /\ s.immediate
  /\ Handle(CheckForImmediateRead([s EXCEPT !.immediate = FALSE]), << >>)

UserCall ==
  \/ \E c \in Fresh(Connectors) : connect(c) \/ connectByName(c)
  \/ \E w \in Fresh(Writes) : write(w)
  \/ \E c \in Fresh(Readers) : setReadCB(c)
  \/ setPreReceivedData \/ clearReadCB \/ cancelConnect \/ close \/ closeNow \/ shutdownWrite \/ shutdownWriteNow
  \/ \E t \in BOOLEAN : setSendTimeout(t)

Step ==
  \/ Return \/ TellCallback \/ TellConnect \/ EndReading \/ FailQueued
  \/ WriteLoop \/ ReadLoop \/ ReadAgain \/ ReadAfterWrite \/ InitialRead \/ InitialWrite

Event ==
  \/ \E events \in SUBSET {"READ", "WRITE"} : ioReady(events)
  \/ timeoutExpired \/ runInitialReadWrite \/ runImmediateRead

Next == UserCall \/ Step \/ Event

Spec == Init /\ [][Next]_vars

\* The loop goes on and callbacks return.  A socket registered for it is again and again found
\* writable, the kernel then takes a write or refuses it, and reads stop at maxReadsPerEvent_.
FairSpec ==
  /\ Spec
  /\ WF_vars(Step)
  /\ SF_vars(ioReady({"WRITE"}))
  /\ SF_vars(WriteLoop /\ s'.queue # s.queue)
  /\ SF_vars(ReadAgain /\ stack' = Tail(stack))
-----------------------------------------------------------------------------
Idle == stack = << >>

(***************************************************************************)
(* The assertions of the code hold in whatever order callbacks call back:  *)
(* startFail is entered once, no request is appended to a writeReqTail_    *)
(* that failWrite or failAllWrites left behind, no handler runs in a state *)
(* or with flags it does not expect.                                       *)
(***************************************************************************)
AssertsHold == asserts

(***************************************************************************)
(* Every callback is told of its end at most once, however failures and    *)
(* closes nest; and once the socket is closed or failed and no call is in  *)
(* progress, every one the user did not take back has been told, nothing   *)
(* is registered or open, and no read is scheduled that would find data.   *)
(***************************************************************************)
ToldOnce ==
  /\ \A c \in Callbacks : told[c] <= 1
  /\ Idle /\ s.state \in Over =>
       /\ s.connectCallback = NoCallback /\ s.readCallback = NoCallback /\ s.queue = << >>
       /\ s.events = {} /\ ~s.timer /\ ~s.fd /\ ~(s.immediate /\ s.pre > 0)
       /\ \A c \in Range(given) \ released : told[c] = 1

(***************************************************************************)
(* Writes succeed in the order they were made, also those made from the    *)
(* callback of an earlier one while the write loop is running.             *)
(***************************************************************************)
WritesInOrder ==
  \A i, j \in DOMAIN sent : i < j =>
    \E k, l \in DOMAIN given : k < l /\ given[k] = sent[i] /\ given[l] = sent[j]

(***************************************************************************)
(* The socket never goes to sleep on work: whenever it waits for the loop, *)
(* it is registered for the event that lets queued writes, an installed    *)
(* reader and data received earlier go on.                                 *)
(***************************************************************************)
NothingForgotten ==
  Idle /\ s.state \in Live =>
    /\ s.queue # << >> => "WRITE" \in s.events
    /\ s.state = "ESTABLISHED" /\ s.readCallback # NoCallback =>
         /\ "READ" \in s.events \/ s.initial
         /\ s.pre > 0 => s.immediate \/ s.initial

(***************************************************************************)
(* close() comes to its end: however many writes are pending, and whatever *)
(* the callbacks do, the socket is closed or failed in the end.            *)
(***************************************************************************)
CloseCompletes == closing ~> s.state \in Over
=============================================================================
